---------------------------- MODULE CaptureProofs -----------------------------
(***************************************************************************)
(* Theorems about what is captured and what may keep it from being sent: the*)
(* limits of rates, the spans around outgoing calls, the loggers and the   *)
(* client.  Each is for every value of the constants.                      *)
(***************************************************************************)
EXTENDS RateLimits, Outgoing, Loggers, Client, FiniteSetTheorems,
        WellFoundedInduction, TLAPS

(***************************************************************************)
(* Induction over numbers, and functions defined by recursion              *)
(***************************************************************************)

\* Induction over the numbers, with a set for what is to be shown.
LEMMA NatSetInduction ==
  ASSUME NEW S, 0 \in S, \A n \in Nat : n \in S => n + 1 \in S
  PROVE  Nat \subseteq S
<1>1. SUFFICES ASSUME NEW T, T = {n \in Nat : n \notin S}, T # {}
               PROVE  FALSE
  OBVIOUS
<1>2. PICK x \in T : \A y \in T : ~(<<y, x>> \in OpToRel(<, Nat))
  BY <1>1, NatLessThanWellFounded, WFMin
<1>3. \A y \in T : ~(y < x)
  BY <1>1, <1>2 DEF OpToRel
<1>4. x \in Nat /\ x # 0 /\ x \notin S
  BY <1>1
<1>5. x - 1 \in Nat /\ x - 1 \notin T
  BY <1>3, <1>4
<1> QED
  BY <1>1, <1>4, <1>5

\* A set of numbers that is not empty has a least one.
LEMMA LeastExists ==
  ASSUME NEW T \in SUBSET Nat, T # {}
  PROVE  \E x \in T : \A y \in T : x <= y
<1>1. PICK x \in T : \A y \in T : ~(<<y, x>> \in OpToRel(<, Nat))
  BY NatLessThanWellFounded, WFMin
<1>2. \A y \in T : ~(y < x)
  BY <1>1 DEF OpToRel
<1> QED
  BY <1>2

\* f is v at zero, and goes on from there by step.
Along(f, n, v, step) == f[0] = v /\ \A i \in 1 .. n : f[i] = step[i][f[i - 1]]
Recurs(V, n, v, step) == \E f \in [0 .. n -> V] : Along(f, n, v, step)

\* A function that is defined by recursion along the numbers up to n exists.
LEMMA Recursion ==
  ASSUME NEW V, NEW n \in Nat, NEW v \in V, NEW step \in [1 .. n -> [V -> V]]
  PROVE  Recurs(V, n, v, step)
<1> DEFINE S == {m \in Nat : m <= n => \E f \in [0 .. m -> V] : Along(f, m, v, step)}
<1>1. 0 \in S
  <2> DEFINE f == [i \in 0 .. 0 |-> v]
  <2>1. f \in [0 .. 0 -> V] /\ Along(f, 0, v, step)
    BY DEF Along
  <2> QED
    BY <2>1
<1>2. ASSUME NEW m \in Nat, m \in S
      PROVE  m + 1 \in S
  <2>1. SUFFICES ASSUME m + 1 <= n
                 PROVE  \E f \in [0 .. m + 1 -> V] : Along(f, m + 1, v, step)
    OBVIOUS
  <2>2. PICK f \in [0 .. m -> V] : Along(f, m, v, step)
    BY <1>2, <2>1
  <2> DEFINE g == [i \in 0 .. m + 1 |-> IF i = m + 1 THEN step[m + 1][f[m]] ELSE f[i]]
  <2>3. f[m] \in V /\ m + 1 \in 1 .. n
    BY <2>1
  <2>4. step[m + 1][f[m]] \in V
    BY <2>3
  <2>5. g \in [0 .. m + 1 -> V]
    BY <2>4
  <2>6. Along(g, m + 1, v, step)
    BY <2>2 DEF Along
  <2> QED
    BY <2>5, <2>6
<1>3. n \in S
  <2> HIDE DEF S
  <2> QED
    BY <1>1, <1>2, NatSetInduction
<1> QED
  BY <1>3 DEF Recurs
\* Every sequence comes about by appending.
LEMMA AppendInduction ==
  ASSUME NEW X, NEW S, <<>> \in S, \A s \in Seq(X), a \in X : s \in S => Append(s, a) \in S
  PROVE  Seq(X) \subseteq S
<1> DEFINE T == {n \in Nat : \A s \in Seq(X) : Len(s) = n => s \in S}
<1>1. 0 \in T
  <2>1. \A s \in Seq(X) : Len(s) = 0 => s = <<>>
    OBVIOUS
  <2> QED
    BY <2>1
<1>2. ASSUME NEW n \in Nat, n \in T
      PROVE  n + 1 \in T
  <2>1. SUFFICES ASSUME NEW s \in Seq(X), Len(s) = n + 1
                 PROVE  s \in S
    OBVIOUS
  <2> DEFINE r == SubSeq(s, 1, n)
             a == s[n + 1]
  <2>2. r \in Seq(X) /\ Len(r) = n /\ a \in X /\ \A i \in 1 .. n : r[i] = s[i]
    BY <2>1
  <2>3. s = Append(r, a)
    <3> HIDE DEF r, a
    <3>1. Append(r, a) \in Seq(X) /\ Len(Append(r, a)) = Len(s)
      BY <2>1, <2>2
    <3>2. \A i \in 1 .. Len(s) : s[i] = Append(r, a)[i]
      BY <2>1, <2>2 DEF a
    <3> QED
      BY <2>1, <3>1, <3>2
  <2>4. r \in S
    BY <1>2, <2>2
  <2> HIDE DEF r, a
  <2> QED
    BY <2>2, <2>3, <2>4
<1>3. Nat \subseteq T
  <2> HIDE DEF T
  <2> QED
    BY <1>1, <1>2, NatSetInduction
<1> QED
  BY <1>3

\* f is v before s, and goes on by G over each of s.
Over(f, v, G, s) == f[0] = v /\ \A i \in 1 .. Len(s) : f[i] = G[f[i - 1]][s[i]]
Folds(V, v, G, s) == {f \in [0 .. Len(s) -> V] : Over(f, v, G, s)}
Folded(V, v, G, s) == (CHOOSE f \in [0 .. Len(s) -> V] : Over(f, v, G, s))[Len(s)]

LEMMA OverExists ==
  ASSUME NEW V, NEW v \in V, NEW X, NEW G \in [V -> [X -> V]], NEW s \in Seq(X)
  PROVE  Folds(V, v, G, s) # {}
<1> DEFINE step == [i \in 1 .. Len(s) |-> [x \in V |-> G[x][s[i]]]]
<1>1. Len(s) \in Nat /\ \A i \in 1 .. Len(s) : s[i] \in X
  OBVIOUS
<1>2. step \in [1 .. Len(s) -> [V -> V]]
  BY <1>1
<1>3. \A i \in 1 .. Len(s), x \in V : step[i][x] = G[x][s[i]]
  OBVIOUS
<1> HIDE DEF step
<1>4. Recurs(V, Len(s), v, step)
  BY <1>1, <1>2, Recursion
<1>5. PICK f \in [0 .. Len(s) -> V] : Along(f, Len(s), v, step)
  BY <1>4 DEF Recurs
<1>6. ASSUME NEW i \in 1 .. Len(s)
      PROVE  f[i - 1] \in V
  <2>1. i - 1 \in 0 .. Len(s)
    BY <1>1
  <2> QED
    BY <1>5, <2>1
<1>7. Over(f, v, G, s)
  BY <1>3, <1>5, <1>6 DEF Along, Over
<1> QED
  BY <1>7 DEF Folds

LEMMA OverUnique ==
  ASSUME NEW v, NEW G, NEW X, NEW s \in Seq(X), NEW f, NEW g, Over(f, v, G, s), Over(g, v, G, s)
  PROVE  \A i \in 0 .. Len(s) : f[i] = g[i]
<1> DEFINE S == {n \in Nat : n <= Len(s) => f[n] = g[n]}
<1>1. 0 \in S
  BY DEF Over
<1>2. ASSUME NEW n \in Nat, n \in S
      PROVE  n + 1 \in S
  <2>1. SUFFICES ASSUME n + 1 <= Len(s)
                 PROVE  f[n + 1] = g[n + 1]
    OBVIOUS
  <2>2. n + 1 \in 1 .. Len(s) /\ (n + 1) - 1 = n /\ f[n] = g[n]
    BY <1>2, <2>1
  <2> QED
    BY <2>2 DEF Over
<1>3. Nat \subseteq S
  <2> HIDE DEF S
  <2> QED
    BY <1>1, <1>2, NatSetInduction
<1> QED
  BY <1>3

EndsFolded(V, v, X, G, s, f) ==
  f[Len(s)] = Folded(V, v, G, s) /\ Folded(V, v, G, s) \in V

\* Whatever goes on by G over s ends where the fold ends.
LEMMA FoldedIs ==
  ASSUME NEW V, NEW v \in V, NEW X, NEW G \in [V -> [X -> V]], NEW s \in Seq(X),
         NEW f, Over(f, v, G, s)
  PROVE  EndsFolded(V, v, X, G, s, f)
<1> DEFINE g == CHOOSE h \in [0 .. Len(s) -> V] : Over(h, v, G, s)
<1>1. g \in [0 .. Len(s) -> V] /\ Over(g, v, G, s)
  BY OverExists DEF Folds
<1> HIDE DEF g
<1>2. \A i \in 0 .. Len(s) : f[i] = g[i]
  BY <1>1, OverUnique
<1>3. Len(s) \in 0 .. Len(s)
  OBVIOUS
<1>4. f[Len(s)] = g[Len(s)] /\ g[Len(s)] \in V
  BY <1>1, <1>2, <1>3
<1> QED
  BY <1>4 DEF EndsFolded, Folded, g

LEMMA FoldedEmpty ==
  ASSUME NEW V, NEW v \in V, NEW X, NEW G \in [V -> [X -> V]]
  PROVE  Folded(V, v, G, <<>>) = v
<1> DEFINE f == [i \in 0 .. 0 |-> v]
<1>1. Over(f, v, G, <<>>) /\ f[Len(<<>>)] = v
  BY DEF Over
<1>2. <<>> \in Seq(X)
  OBVIOUS
<1> HIDE DEF f
<1>3. f[Len(<<>>)] = Folded(V, v, G, <<>>)
  <2>1. EndsFolded(V, v, X, G, <<>>, f)
    BY <1>1, <1>2, FoldedIs
  <2> QED
    BY <2>1 DEF EndsFolded
<1> QED
  BY <1>1, <1>3

\* What there is to know of a fold.
FoldLaws(V, v, X, G) ==
  /\ Folded(V, v, G, <<>>) = v
  /\ \A s \in Seq(X) : Folded(V, v, G, s) \in V
  /\ \A s \in Seq(X), a \in X : Folded(V, v, G, Append(s, a)) = G[Folded(V, v, G, s)][a]
  /\ \A s \in Seq(X) : \A f : Over(f, v, G, s) => f[Len(s)] = Folded(V, v, G, s)

LEMMA FoldFacts ==
  ASSUME NEW V, NEW v \in V, NEW X, NEW G \in [V -> [X -> V]]
  PROVE  FoldLaws(V, v, X, G)
<1>1. Folded(V, v, G, <<>>) = v
  BY FoldedEmpty
<1>2. ASSUME NEW s \in Seq(X)
      PROVE  Folded(V, v, G, s) \in V
  <2>1. Folds(V, v, G, s) # {}
    BY OverExists
  <2>2. PICK f \in Folds(V, v, G, s) : TRUE
    BY <2>1
  <2>3. EndsFolded(V, v, X, G, s, f)
    BY <2>2, FoldedIs DEF Folds
  <2> QED
    BY <2>3 DEF EndsFolded
<1>3. ASSUME NEW s \in Seq(X), NEW a \in X
      PROVE  Folded(V, v, G, Append(s, a)) = G[Folded(V, v, G, s)][a]
  <2> DEFINE t == Append(s, a)
  <2>1. t \in Seq(X) /\ Len(t) = Len(s) + 1 /\ t[Len(t)] = a /\ Len(s) \in Nat
        /\ \A i \in 1 .. Len(s) : t[i] = s[i]
    OBVIOUS
  <2> HIDE DEF t
  <2>0. Folds(V, v, G, t) # {}
    BY <2>1, OverExists
  <2>2. PICK f \in Folds(V, v, G, t) : TRUE
    BY <2>0
  <2>3. Over(f, v, G, t)
    BY <2>2 DEF Folds
  <2>4. Over(f, v, G, s)
    <3>1. \A i \in 1 .. Len(s) : i \in 1 .. Len(t) /\ t[i] = s[i]
      BY <2>1
    <3> QED
      BY <2>3, <3>1 DEF Over
  <2>5. f[Len(t)] = G[f[Len(s)]][a]
    <3>1. Len(t) \in 1 .. Len(t) /\ Len(t) - 1 = Len(s)
      BY <2>1
    <3> QED
      BY <2>1, <2>3, <3>1 DEF Over
  <2>6. f[Len(t)] = Folded(V, v, G, t)
    <3>1. EndsFolded(V, v, X, G, t, f)
      BY <2>1, <2>3, FoldedIs
    <3> QED
      BY <3>1 DEF EndsFolded
  <2>7. f[Len(s)] = Folded(V, v, G, s)
    <3>1. EndsFolded(V, v, X, G, s, f)
      BY <2>4, FoldedIs
    <3> QED
      BY <3>1 DEF EndsFolded
  <2> QED
    BY <2>5, <2>6, <2>7 DEF t
<1>4. ASSUME NEW s \in Seq(X), NEW f, Over(f, v, G, s)
      PROVE  f[Len(s)] = Folded(V, v, G, s)
  <2>1. EndsFolded(V, v, X, G, s, f)
    BY <1>4, FoldedIs
  <2> QED
    BY <2>1 DEF EndsFolded
<1> QED
  BY <1>1, <1>2, <1>3, <1>4 DEF FoldLaws

\* It is enough to go on by G for as long as one stays in V.
LEMMA OverTyped ==
  ASSUME NEW V, NEW v \in V, NEW X, NEW G \in [V -> [X -> V]], NEW s \in Seq(X), NEW f,
         f[0] = v, \A i \in 1 .. Len(s) : f[i - 1] \in V => f[i] = G[f[i - 1]][s[i]]
  PROVE  Over(f, v, G, s)
<1> DEFINE S == {n \in Nat : n <= Len(s) => f[n] \in V}
<1>1. 0 \in S
  OBVIOUS
<1>2. ASSUME NEW n \in Nat, n \in S
      PROVE  n + 1 \in S
  <2>1. SUFFICES ASSUME n + 1 <= Len(s)
                 PROVE  f[n + 1] \in V
    OBVIOUS
  <2>0. Len(s) \in Nat /\ \A i \in 1 .. Len(s) : s[i] \in X
    OBVIOUS
  <2>2. n + 1 \in 1 .. Len(s) /\ (n + 1) - 1 = n /\ f[n] \in V /\ s[n + 1] \in X
    BY <1>2, <2>0, <2>1
  <2>3. f[n + 1] = G[f[n]][s[n + 1]]
    BY <2>2
  <2> QED
    BY <2>2, <2>3
<1>3. Nat \subseteq S
  <2> HIDE DEF S
  <2> QED
    BY <1>1, <1>2, NatSetInduction
<1>4. \A i \in 1 .. Len(s) : f[i - 1] \in V
  <2>1. \A i \in 1 .. Len(s) : i - 1 \in Nat /\ i - 1 <= Len(s)
    OBVIOUS
  <2> QED
    BY <1>3, <2>1
<1> QED
  BY <1>4 DEF Over

(***************************************************************************)
(* RateLimits: the map of deadlines                                        *)
(***************************************************************************)

Deadlines == [Known -> Int]

Entries == Seq([number : BOOLEAN, after : Int, categories : Seq(STRING)])

\* A map in which each category has the latest of what was said of it.
Reflects(m, said) ==
  /\ m \in Deadlines
  /\ \A t \in said : t[2] \in Int /\ (t[1] \in Known => t[2] <= m[t[1]])
  /\ \A c \in Known : m[c] # Never => \E t \in said : t[1] = c /\ t[2] = m[c]

LEMMA NoneReflects == Reflects(None, {})
  BY DEF Reflects, None, Never, Deadlines

LEMMA ProlongReflects ==
  ASSUME NEW m, NEW said, Reflects(m, said), NEW c, NEW d \in Int
  PROVE  Reflects(Prolong(m, c, d), said \cup {<<c, d>>})
<1> DEFINE p == Prolong(m, c, d)
           more == said \cup {<<c, d>>}
<1>1. p \in Deadlines
  BY DEF Reflects, Prolong, Later, Deadlines
<1>2. \A t \in more : t[2] \in Int /\ (t[1] \in Known => t[2] <= p[t[1]])
  BY DEF Reflects, Prolong, Later, Deadlines
<1>3. ASSUME NEW b \in Known, p[b] # Never
      PROVE  \E t \in more : t[1] = b /\ t[2] = p[b]
  <2>1. CASE b = c /\ d > m[c]
    <3>1. <<c, d>> \in more /\ p[b] = d
      BY <2>1, <1>3 DEF Prolong, Later, Reflects, Deadlines
    <3> QED
      BY <3>1, <2>1
  <2>2. CASE ~(b = c /\ d > m[c])
    <3>1. p[b] = m[b]
      BY <2>2, <1>3 DEF Prolong, Later, Reflects, Deadlines
    <3> QED
      BY <3>1, <1>3 DEF Reflects
  <2> QED
    BY <2>1, <2>2
<1> QED
  BY <1>1, <1>2, <1>3 DEF Reflects

LEMMA MergeReflects ==
  ASSUME NEW m, NEW said, Reflects(m, said), NEW other, NEW more, Reflects(other, more)
  PROVE  Reflects(Merge(m, other), said \cup more)
<1> DEFINE p == Merge(m, other)
<1>0. m \in [Known -> Int] /\ other \in [Known -> Int]
  BY DEF Reflects, Deadlines
<1>1. p \in Deadlines
  BY <1>0 DEF Merge, Later, Deadlines
<1>2. \A c \in Known : p[c] = IF other[c] > m[c] THEN other[c] ELSE m[c]
  BY DEF Merge, Later
<1>3. \A t \in said \cup more : t[2] \in Int /\ (t[1] \in Known => t[2] <= p[t[1]])
  BY <1>0, <1>2 DEF Reflects
<1>4. ASSUME NEW c \in Known, p[c] # Never
      PROVE  \E t \in said \cup more : t[1] = c /\ t[2] = p[c]
  BY <1>0, <1>2, <1>4 DEF Reflects
<1> HIDE DEF p
<1> QED
  BY <1>1, <1>3, <1>4 DEF Reflects, p

\* What a limit says of its categories.
LimitSaid(words, d) == {<<Word(w), d>> : w \in words}

LEMMA ParseLimitReflects ==
  ASSUME NEW m, NEW said, Reflects(m, said), now \in Int,
         NEW limit \in [number : BOOLEAN, after : Int, categories : Seq(STRING)]
  PROVE  Reflects(ParseLimit(m, limit),
                  said \cup LimitSaid(ToSet(Categories(limit)), XSRLRetryAfter(limit.after)))
<1> DEFINE words == Categories(limit)
           d == XSRLRetryAfter(limit.after)
           Upto(i) == {words[j] : j \in 1 .. i}
           Read(f) == f = [i \in 0 .. Len(words) |-> IF i = 0 THEN m ELSE Prolong(f[i - 1], Word(words[i]), d)]
           read == CHOOSE f : Read(f)
<1>1. Len(words) \in Nat /\ DOMAIN words = 1 .. Len(words)
  <2>1. limit.categories \in Seq(STRING)
    OBVIOUS
  <2> DEFINE W == STRING \cup {All}
  <2>2. limit.categories \in Seq(W) /\ <<All>> \in Seq(W)
    BY <2>1
  <2>3. words \in Seq(W)
    BY <2>2 DEF Categories
  <2> QED
    BY <2>3
<1>2. d \in Int
  BY DEF XSRLRetryAfter
<1> HIDE DEF words, d
<1>3. \E f : Read(f)
  <2> DEFINE step == [i \in 1 .. Len(words) |-> [p \in Deadlines |-> Prolong(p, Word(words[i]), d)]]
  <2>1. step \in [1 .. Len(words) -> [Deadlines -> Deadlines]]
    BY <1>2 DEF Prolong, Deadlines, Later
  <2>2. m \in Deadlines
    BY DEF Reflects
  <2>3. PICK f \in [0 .. Len(words) -> Deadlines] : Along(f, Len(words), m, step)
    <3> HIDE DEF step
    <3>1. Recurs(Deadlines, Len(words), m, step)
      BY <2>1, <2>2, <1>1, Recursion
    <3> QED
      BY <3>1 DEF Recurs
  <2>4. ASSUME NEW i \in 1 .. Len(words)
        PROVE  step[i][f[i - 1]] = Prolong(f[i - 1], Word(words[i]), d)
    <3>1. i - 1 \in 0 .. Len(words) /\ i \in 1 .. Len(words)
      BY <1>1
    <3>2. f[i - 1] \in Deadlines
      BY <2>3, <3>1
    <3> QED
      BY <3>1, <3>2
  <2>5. Read(f)
    <3> HIDE DEF step
    <3> QED
      BY <2>3, <2>4, <1>1 DEF Along
  <2> QED
    BY <2>5
<1>4. Read(read)
  BY <1>3
<1>5. ParseLimit(m, limit) = read[Len(words)]
  BY DEF ParseLimit, words, d
<1> HIDE DEF read
<1> DEFINE S == {i \in Nat : i <= Len(words) => Reflects(read[i], said \cup LimitSaid(Upto(i), d))}
<1>6. 0 \in S
  <2>1. read[0] = m
    BY <1>4, <1>1
  <2>2. LimitSaid(Upto(0), d) = {}
    BY DEF LimitSaid
  <2> QED
    BY <2>1, <2>2
<1>7. ASSUME NEW i \in Nat, i \in S
      PROVE  i + 1 \in S
  <2>1. SUFFICES ASSUME i + 1 <= Len(words)
                 PROVE  Reflects(read[i + 1], said \cup LimitSaid(Upto(i + 1), d))
    OBVIOUS
  <2>2. read[i + 1] = Prolong(read[i], Word(words[i + 1]), d)
    BY <1>4, <1>1, <2>1
  <2>3. Upto(i + 1) = Upto(i) \cup {words[i + 1]}
    BY <1>1
  <2>4. LimitSaid(Upto(i + 1), d) = LimitSaid(Upto(i), d) \cup {<<Word(words[i + 1]), d>>}
    BY <2>3 DEF LimitSaid
  <2>5. Reflects(read[i], said \cup LimitSaid(Upto(i), d))
    BY <1>1, <1>7, <2>1
  <2> HIDE DEF Upto
  <2>6. Reflects(read[i + 1], (said \cup LimitSaid(Upto(i), d)) \cup {<<Word(words[i + 1]), d>>})
    BY <2>5, <2>2, <1>2, ProlongReflects
  <2> QED
    BY <2>4, <2>6
<1>8. Len(words) \in S
  <2> HIDE DEF S
  <2> QED
    BY <1>1, <1>6, <1>7, NatSetInduction
<1>9. Upto(Len(words)) = ToSet(words)
  BY <1>1 DEF ToSet
<1>10. Reflects(read[Len(words)], said \cup LimitSaid(Upto(Len(words)), d))
  BY <1>1, <1>8
<1> HIDE DEF Upto
<1>11. Reflects(ParseLimit(m, limit), said \cup LimitSaid(ToSet(words), d))
  BY <1>5, <1>9, <1>10
<1> QED
  BY <1>11 DEF words, d

LEMMA ParseReflects ==
  ASSUME NEW header \in Entries, now \in Int
  PROVE  Reflects(ParseXSentryRateLimits(header),
                  UNION {LimitSaid(ToSet(Categories(limit)), XSRLRetryAfter(limit.after)) :
                           limit \in {l \in ToSet(header) : l.number}})
<1> DEFINE Says(limit) == LimitSaid(ToSet(Categories(limit)), XSRLRetryAfter(limit.after))
           Upto(i) == UNION {Says(header[j]) : j \in {k \in 1 .. i : header[k].number}}
           Next1(m, i) == IF header[i].number THEN ParseLimit(m, header[i]) ELSE m
           Read(f) == f = [i \in 0 .. Len(header) |->
                             IF i = 0 THEN None ELSE Next1(f[i - 1], i)]
           read == CHOOSE f : Read(f)
<1>1. Len(header) \in Nat /\ DOMAIN header = 1 .. Len(header)
  BY DEF Entries
<1>2. \A i \in 1 .. Len(header) :
        header[i] \in [number : BOOLEAN, after : Int, categories : Seq(STRING)]
  <2> DEFINE E == [number : BOOLEAN, after : Int, categories : Seq(STRING)]
  <2>1. header \in Seq(E)
    BY DEF Entries
  <2> HIDE DEF E
  <2>2. \A i \in 1 .. Len(header) : header[i] \in E
    BY <2>1
  <2> QED
    BY <2>2 DEF E
<1>3. ASSUME NEW m \in Deadlines, NEW i \in 1 .. Len(header)
      PROVE  Next1(m, i) \in Deadlines
  <2> DEFINE said == {<<c, m[c]>> : c \in Known}
  <2>1. \A c \in Known : m[c] \in Int /\ <<c, m[c]>> \in said
    BY DEF Deadlines
  <2>2. \A t \in said : t[1] \in Known /\ t[2] = m[t[1]]
    OBVIOUS
  <2>3. \A c \in Known : \E t \in said : t[1] = c /\ t[2] = m[c]
    BY <2>1
  <2> HIDE DEF said
  <2>4. \A t \in said : t[2] \in Int /\ (t[1] \in Known => t[2] <= m[t[1]])
    <3>1. \A t \in said : m[t[1]] \in Int /\ t[2] = m[t[1]]
      BY <2>1, <2>2
    <3>2. \A x \in Int : x <= x
      OBVIOUS
    <3> QED
      BY <3>1, <3>2
  <2>5. Reflects(m, said)
    BY <2>3, <2>4 DEF Reflects
  <2>6. Reflects(ParseLimit(m, header[i]), said \cup Says(header[i]))
    BY <2>5, <1>2, ParseLimitReflects
  <2> QED
    BY <2>6 DEF Reflects
<1>4. \E f : Read(f)
  <2> DEFINE step == [i \in 1 .. Len(header) |-> [p \in Deadlines |-> Next1(p, i)]]
  <2>1. step \in [1 .. Len(header) -> [Deadlines -> Deadlines]]
    <3> HIDE DEF Next1
    <3> QED
      BY <1>3
  <2>2. None \in Deadlines
    BY DEF None, Deadlines, Never
  <2>3. PICK f \in [0 .. Len(header) -> Deadlines] : Along(f, Len(header), None, step)
    <3> HIDE DEF step
    <3>1. Recurs(Deadlines, Len(header), None, step)
      BY <2>1, <2>2, <1>1, Recursion
    <3> QED
      BY <3>1 DEF Recurs
  <2>4. ASSUME NEW i \in 1 .. Len(header)
        PROVE  step[i][f[i - 1]] = Next1(f[i - 1], i)
    <3>1. i - 1 \in 0 .. Len(header) /\ i \in 1 .. Len(header)
      BY <1>1
    <3>2. f[i - 1] \in Deadlines
      BY <2>3, <3>1
    <3> HIDE DEF Next1
    <3> QED
      BY <3>1, <3>2
  <2>5. \A i \in 0 .. Len(header) :
          f[i] = IF i = 0 THEN None ELSE Next1(f[i - 1], i)
    <3> HIDE DEF step, Next1
    <3> QED
      BY <2>3, <2>4, <1>1 DEF Along
  <2>6. Read(f)
    <3> HIDE DEF step, Next1
    <3> QED
      BY <2>3, <2>5
  <2> QED
    BY <2>6
<1>5. Read(read)
  BY <1>4
<1>6. ParseXSentryRateLimits(header) = read[Len(header)]
  BY DEF ParseXSentryRateLimits
<1> HIDE DEF read
<1> DEFINE S == {i \in Nat : i <= Len(header) => Reflects(read[i], Upto(i))}
<1>7. 0 \in S
  <2>1. read[0] = None
    BY <1>5, <1>1
  <2>2. Upto(0) = {}
    OBVIOUS
  <2> HIDE DEF Upto
  <2> QED
    BY <2>1, <2>2, NoneReflects
<1>8. ASSUME NEW i \in Nat, i \in S
      PROVE  i + 1 \in S
  <2>1. SUFFICES ASSUME i + 1 <= Len(header)
                 PROVE  Reflects(read[i + 1], Upto(i + 1))
    OBVIOUS
  <2>2. read[i + 1] = Next1(read[i], i + 1)
    BY <1>5, <1>1, <2>1
  <2>3. Reflects(read[i], Upto(i))
    BY <1>1, <1>8, <2>1
  <2>4. header[i + 1] \in [number : BOOLEAN, after : Int, categories : Seq(STRING)]
    BY <1>1, <1>2, <2>1
  <2>5. CASE header[i + 1].number
    <3>1. Upto(i + 1) = Upto(i) \cup Says(header[i + 1])
      <4> HIDE DEF Says
      <4>1. {k \in 1 .. i + 1 : header[k].number} = {k \in 1 .. i : header[k].number} \cup {i + 1}
        BY <2>5
      <4> QED
        BY <4>1
    <3>2. read[i + 1] = ParseLimit(read[i], header[i + 1])
      BY <2>2, <2>5
    <3> HIDE DEF Upto
    <3> QED
      BY <2>3, <2>4, <3>1, <3>2, ParseLimitReflects
  <2>6. CASE ~header[i + 1].number
    <3>1. {k \in 1 .. i + 1 : header[k].number} = {k \in 1 .. i : header[k].number}
      BY <2>6
    <3>2. Upto(i + 1) = Upto(i)
      <4> HIDE DEF Says
      <4> QED
        BY <3>1
    <3> HIDE DEF Upto
    <3> QED
      BY <2>2, <2>3, <2>6, <3>2
  <2> QED
    BY <2>5, <2>6
<1>9. Len(header) \in S
  <2> HIDE DEF S
  <2> QED
    BY <1>1, <1>7, <1>8, NatSetInduction
<1>10. Upto(Len(header)) = UNION {Says(limit) : limit \in {l \in ToSet(header) : l.number}}
  <2> HIDE DEF Says
  <2>1. ToSet(header) = {header[k] : k \in 1 .. Len(header)}
    BY <1>1 DEF ToSet
  <2> QED
    BY <2>1
<1>11. Reflects(read[Len(header)], Upto(Len(header)))
  BY <1>1, <1>9
<1> HIDE DEF Upto, Says
<1>12. Reflects(ParseXSentryRateLimits(header),
                UNION {Says(limit) : limit \in {l \in ToSet(header) : l.number}})
  BY <1>6, <1>10, <1>11
<1> QED
  BY <1>12 DEF Says

LEMMA SaidReflected ==
  ASSUME NEW response \in Response, now \in Int
  PROVE  Reflects(FromResponse(response), Said(response))
<1> DEFINE header == response.header
           retry == response.retry
           Says(limit) == LimitSaid(ToSet(Categories(limit)), XSRLRetryAfter(limit.after))
           valid == {limit \in ToSet(header) : limit.number}
           seconds(after) ==
             IF after <= 0 THEN 0 ELSE CHOOSE s \in 1 .. after : 2 * s \in {after, after + 1}
           words(limit) == {Word(w) : w \in ToSet(Categories(limit))}
<1>1. header \in Entries /\ retry.value \in Int
  BY ResponseAssumption DEF Entries
<1>2. CASE header # <<>>
  <2>1. ASSUME NEW limit \in valid
        PROVE  Says(limit) = {<<c, now + seconds(limit.after)>> : c \in words(limit)}
    <3>1. limit.after \in Int
      <4> DEFINE E == [number : BOOLEAN, after : Int, categories : Seq(STRING)]
      <4>1. header \in Seq(E)
        BY <1>1 DEF Entries
      <4>2. PICK k \in 1 .. Len(header) : limit = header[k]
        BY <4>1 DEF ToSet
      <4> HIDE DEF E
      <4>3. limit \in E
        BY <4>1, <4>2
      <4> QED
        BY <4>3 DEF E
    <3>2. seconds(limit.after) = IF limit.after > 0 THEN (limit.after + 1) \div 2 ELSE 0
      <4> DEFINE a == limit.after
                 half == (a + 1) \div 2
      <4>1. CASE a > 0
        <5>1. half \in 1 .. a /\ 2 * half \in {a, a + 1}
          BY <3>1, <4>1
        <5>2. \A s \in 1 .. a : 2 * s \in {a, a + 1} => s = half
          BY <3>1, <4>1
        <5> QED
          BY <3>1, <4>1, <5>1, <5>2
      <4>2. CASE ~(a > 0)
        BY <3>1, <4>2
      <4> QED
        BY <4>1, <4>2
    <3>3. now + seconds(limit.after) = XSRLRetryAfter(limit.after)
      BY <3>2 DEF XSRLRetryAfter
    <3> HIDE DEF seconds
    <3> QED
      BY <3>3 DEF LimitSaid
  <2>2. Said(response) = UNION {{<<c, now + seconds(limit.after)>> : c \in words(limit)} : limit \in valid}
    BY <1>2 DEF Said
  <2>3. Said(response) = UNION {Says(limit) : limit \in valid}
    <3> HIDE DEF Says, words, seconds, valid
    <3> QED
      BY <2>1, <2>2
  <2>4. FromResponse(response) = ParseXSentryRateLimits(header)
    BY <1>2 DEF FromResponse
  <2> QED
    BY <1>1, <2>3, <2>4, ParseReflects
<1>3. CASE header = <<>> /\ response.status = 429
  <2> DEFINE d == ParseRetryAfter(retry)
  <2>1. d \in Int
    BY <1>1, RateAssumption DEF ParseRetryAfter
  <2>2. d = IF retry.form = "date" THEN retry.value
            ELSE now + IF retry.form = "seconds" /\ retry.value >= 0 THEN retry.value
                       ELSE DefaultRetryAfter
    BY DEF ParseRetryAfter
  <2>3. Said(response) = {<<All, d>>}
    BY <1>3, <2>2 DEF Said
  <2>4. FromResponse(response) = [None EXCEPT ![All] = d]
    BY <1>3 DEF FromResponse
  <2> HIDE DEF d
  <2> QED
    BY <2>1, <2>3, <2>4 DEF Reflects, None, Never, Deadlines, Known
<1>4. CASE header = <<>> /\ response.status # 429
  <2>1. FromResponse(response) = None /\ Said(response) = {}
    BY <1>4 DEF FromResponse, Said
  <2> QED
    BY <2>1, NoneReflects
<1> QED
  BY <1>2, <1>3, <1>4

\* The map of deadlines has the latest of all that was said, at any time.
RateInv == now \in Nat /\ Reflects(limits, told)

LEMMA RateInductive == RateSpec => []RateInv
<1>1. RateInit => RateInv
  BY NoneReflects DEF RateInit, RateInv
<1>2. RateInv /\ [RateNext]_rateVars => RateInv'
  <2> SUFFICES ASSUME RateInv, [RateNext]_rateVars
               PROVE  RateInv'
    OBVIOUS
  <2>1. CASE UNCHANGED <<limits, told>> /\ now' \in {now, now + 1}
    BY <2>1 DEF RateInv, Reflects
  <2>2. ASSUME NEW response \in Response, Answer(response)
        PROVE  RateInv'
    <3>1. limits' = Merge(limits, FromResponse(response)) /\ told' = told \cup Said(response)
      BY <2>2 DEF Answer
    <3>2. Reflects(FromResponse(response), Said(response))
      BY SaidReflected DEF RateInv
    <3>3. Reflects(Merge(limits, FromResponse(response)), told \cup Said(response))
      BY <3>2, MergeReflects DEF RateInv
    <3>4. Reflects(limits, told)'
      BY <3>1, <3>3 DEF Reflects
    <3> QED
      BY <2>2, <3>4 DEF RateInv, Answer
  <2> QED
    BY <2>1, <2>2 DEF RateNext, rateVars, Elapse, SendFails, SendEnvelope
<1> QED
  BY <1>1, <1>2, PTL DEF RateSpec

\* What the map limits is what the server told of.
LEMMA LimitedIsTold ==
  ASSUME RateInv, NEW c
  PROVE  IsRateLimited(limits, c) <=> Told(c)
<1>1. limits \in [Known -> Int] /\ now \in Nat /\ All \in Known
  BY DEF RateInv, Reflects, Deadlines, Known
<1>2. \A k \in Known : limits[k] > now <=> \E t \in told : t[2] > now /\ t[1] = k
  BY <1>1 DEF RateInv, Reflects, Never
<1>3. CASE c \in Known
  <2>1. IsRateLimited(limits, c) <=> limits[c] > now \/ limits[All] > now
    BY <1>1, <1>3 DEF IsRateLimited, Deadline, Later
  <2> QED
    BY <1>1, <1>2, <1>3, <2>1 DEF Told
<1>4. CASE c \notin Known
  <2>1. IsRateLimited(limits, c) <=> limits[All] > now
    BY <1>1, <1>4 DEF IsRateLimited, Deadline, Later
  <2> QED
    BY <1>1, <1>2, <1>4, <2>1 DEF Told
<1> QED
  BY <1>3, <1>4

\* A category is limited exactly when the server, in some answer, gave it or all
\* categories a time that has not come, whatever the order of answers, of the
\* limits of one and of the categories of a limit; and an envelope is held back
\* with the category of one of its items.
THEOREM LimitsAreTrue == RateSpec => []LimitsTrue
<1>1. RateInv => LimitsTrue
  <2> SUFFICES ASSUME RateInv
               PROVE  LimitsTrue
    OBVIOUS
  <2>1. \A c : IsRateLimited(limits, c) <=> Told(c)
    BY LimitedIsTold
  <2>2. \A c : Told(All) => Told(c)
    BY DEF Told, Known, All
  <2>3. ASSUME NEW envelope \in Envelope
        PROVE  LET held == IsRateLimited(limits, CategoryFromEnvelope(envelope))
                   sorts == {CategoryOf[type] : type \in ToSet(envelope) \cap DOMAIN CategoryOf}
               IN /\ held => Told(All) \/ \E c \in sorts : Told(c)
                  /\ Told(All) \/ (sorts # {} /\ \A c \in sorts : Told(c)) => held
    <3> DEFINE held == IsRateLimited(limits, CategoryFromEnvelope(envelope))
               sorts == {CategoryOf[type] : type \in ToSet(envelope) \cap DOMAIN CategoryOf}
               decides == {i \in DOMAIN envelope : \A j \in 1 .. i : envelope[j] = "attachment" <=> j # i}
    <3>1. DOMAIN envelope = 1 .. Len(envelope) /\ Len(envelope) \in Nat
      BY EnvelopeAssumption
    <3>2. CASE \E i \in decides : envelope[i] \in DOMAIN CategoryOf
      <4>1. PICK i \in decides : envelope[i] \in DOMAIN CategoryOf
        BY <3>2
      <4>2. \A j \in decides : j = i
        BY <3>1
      <4>3. CategoryFromEnvelope(envelope) = CategoryOf[envelope[i]]
        BY <4>1, <4>2 DEF CategoryFromEnvelope
      <4>4. CategoryOf[envelope[i]] \in sorts
        BY <4>1 DEF ToSet
      <4> HIDE DEF sorts
      <4>5. held <=> Told(CategoryOf[envelope[i]])
        BY <2>1, <4>3
      <4> HIDE DEF held
      <4>6. held => \E c \in sorts : Told(c)
        BY <4>4, <4>5
      <4>7. Told(All) => held
        BY <2>2, <4>5
      <4>8. (\A c \in sorts : Told(c)) => held
        BY <4>4, <4>5
      <4> QED
        BY <4>6, <4>7, <4>8 DEF held, sorts
    <3>3. CASE ~\E i \in decides : envelope[i] \in DOMAIN CategoryOf
      <4>1. CategoryFromEnvelope(envelope) = All
        BY <3>3 DEF CategoryFromEnvelope
      <4>2. sorts = {}
        <5>1. ASSUME NEW k \in DOMAIN envelope, envelope[k] \in DOMAIN CategoryOf
              PROVE  FALSE
          <6> DEFINE kept == {j \in 1 .. k : envelope[j] # "attachment"}
          <6>0. k \in Nat /\ k >= 1 /\ k <= Len(envelope)
            BY <3>1
          <6>1. k \in kept
            BY <3>1, <5>1 DEF CategoryOf
          <6>2. PICK i \in kept : \A j \in kept : i <= j
            <7>1. kept \subseteq Nat /\ kept # {}
              BY <6>1
            <7> HIDE DEF kept
            <7> QED
              BY <7>1, LeastExists
          <6>3. \A j \in 1 .. i : envelope[j] = "attachment" <=> j # i
            BY <6>0, <6>2
          <6>4. i \in decides
            BY <6>0, <6>3, <3>1
          <6>5. envelope[i] \in DOMAIN CategoryOf
            <7>1. envelope[i] \in DOMAIN CategoryOf \cup {"attachment"}
              BY <5>1, <6>0, <6>2, EnvelopeAssumption
            <7> QED
              BY <6>2, <7>1
          <6> QED
            BY <3>3, <6>4, <6>5
        <5> QED
          BY <5>1 DEF ToSet
      <4>3. held <=> Told(All)
        BY <2>1, <4>1
      <4> HIDE DEF held
      <4> QED
        BY <4>2, <4>3 DEF held
    <3> QED
      BY <3>2, <3>3
  <2> QED
    BY <2>1, <2>3 DEF LimitsTrue
<1> QED
  BY <1>1, RateInductive, PTL

(***************************************************************************)
(* Outgoing: the text of a query                                           *)
(***************************************************************************)

Words == STRING \cup {Dot, Mark}
TextState == [text : Seq(Words), placeholder : BOOLEAN, quoted : BOOLEAN, dot : BOOLEAN]

LEMMA NoTextState == NoText \in TextState
BY DEF NoText, TextState

\* A dot that was held back is written, and the rest stays.
LEMMA FlushedDot ==
  ASSUME NEW o \in TextState
  PROVE  /\ FlushSQLiteDot(o) \in TextState /\ ~FlushSQLiteDot(o).dot
         /\ FlushSQLiteDot(o).text = IF o.dot THEN Append(o.text, Dot) ELSE o.text
         /\ FlushSQLiteDot(o).quoted = o.quoted /\ FlushSQLiteDot(o).placeholder = o.placeholder
<1>1. Append(o.text, Dot) \in Seq(Words)
  BY DEF TextState, Words
<1> QED
  BY <1>1 DEF FlushSQLiteDot, TextState

LEMMA WritesPlaceholder ==
  ASSUME NEW o \in TextState, NEW q \in BOOLEAN
  PROVE  LET p == FlushSQLiteDot(o)
             w == WritePlaceholder(o, q)
         IN /\ w \in TextState /\ ~w.dot
            /\ w.text = IF o.dot /\ q /\ o.quoted THEN o.text
                       ELSE IF o.placeholder THEN p.text ELSE Append(p.text, Mark)
<1> DEFINE p == FlushSQLiteDot(o)
           w == WritePlaceholder(o, q)
<1>1. p \in TextState /\ ~p.dot /\ p.placeholder = o.placeholder
  BY FlushedDot
<1> HIDE DEF p
<1>2. Append(p.text, Mark) \in Seq(Words)
  BY <1>1 DEF TextState, Words
<1>3. CASE o.dot /\ q /\ o.quoted
  <2>1. w = [o EXCEPT !.dot = FALSE]
    BY <1>3 DEF WritePlaceholder
  <2> QED
    BY <1>3, <2>1 DEF TextState
<1>4. CASE ~(o.dot /\ q /\ o.quoted) /\ o.placeholder
  <2>1. w = p
    BY <1>1, <1>4 DEF WritePlaceholder, p
  <2> QED
    BY <1>1, <1>4, <2>1 DEF p
<1>5. CASE ~(o.dot /\ q /\ o.quoted) /\ ~o.placeholder
  <2>1. w = [p EXCEPT !.text = Append(@, Mark), !.placeholder = TRUE, !.quoted = q]
    BY <1>1, <1>5 DEF WritePlaceholder, p
  <2>2. w \in TextState /\ ~w.dot /\ w.text = Append(p.text, Mark)
    BY <1>1, <1>2, <2>1 DEF TextState
  <2> QED
    BY <1>5, <2>2 DEF p
<1> QED
  BY <1>3, <1>4, <1>5

LEMMA WritesValue ==
  ASSUME NEW o \in TextState, NEW t \in Words
  PROVE  /\ WriteValue(o, t) \in TextState /\ ~WriteValue(o, t).dot
         /\ WriteValue(o, t).text = Append(FlushSQLiteDot(o).text, t)
<1> DEFINE p == FlushSQLiteDot(o)
<1>1. p \in TextState /\ ~p.dot
  BY FlushedDot
<1> HIDE DEF p
<1>2. Append(p.text, t) \in Seq(Words)
  BY <1>1 DEF TextState
<1>3. WriteValue(o, t) = [p EXCEPT !.text = Append(@, t), !.placeholder = FALSE, !.quoted = FALSE]
  BY DEF WriteValue, p
<1>4. WriteValue(o, t) \in TextState /\ ~WriteValue(o, t).dot /\ WriteValue(o, t).text = Append(p.text, t)
  BY <1>1, <1>2, <1>3 DEF TextState
<1> QED
  BY <1>4 DEF p

\* How a token is scanned, as one of four ways.
Hidden(t, b) == t \in Literal \/ (t = "quoted" /\ b)
Joins(t, b) == b /\ t \in {"string", "quoted"}

LEMMA ScanCases ==
  ASSUME NEW o \in TextState, NEW t \in Words, NEW b \in BOOLEAN
  PROVE  \/ t = Comment /\ Scan(o, t, b) = o
         \/ t # Comment /\ Hidden(t, b) /\ Scan(o, t, b) = WritePlaceholder(o, Joins(t, b))
         \/ t = Dot /\ b /\ o.quoted /\ Scan(o, t, b) = [o EXCEPT !.dot = TRUE]
         \/ t # Comment /\ ~Hidden(t, b) /\ ~(t = Dot /\ b /\ o.quoted) /\ Scan(o, t, b) = WriteValue(o, t)
<1>1. CASE t = Comment
  <2>1. t # Dot /\ t # "quoted" /\ t \notin Literal
    BY <1>1 DEF Comment, Dot, Literal
  <2> QED
    BY <1>1, <2>1 DEF Scan
<1>2. CASE t # Comment /\ t \in Literal
  <2>0. t # Dot /\ t # "quoted"
    BY <1>2 DEF Dot, Literal
  <2>1. Scan(o, t, b) = WritePlaceholder(o, b /\ t = "string")
    BY <1>2, <2>0 DEF Scan
  <2>2. (b /\ t = "string") = Joins(t, b)
    BY <1>2 DEF Joins, Literal
  <2> QED
    BY <1>2, <2>1, <2>2 DEF Hidden
<1>3. CASE t = "quoted" /\ b
  <2>1. Scan(o, t, b) = WritePlaceholder(o, TRUE) /\ Joins(t, b) = TRUE /\ t # Comment
    BY <1>3 DEF Scan, Literal, Comment, Dot, Joins
  <2> QED
    BY <1>3, <2>1 DEF Hidden
<1>4. CASE t # Comment /\ ~Hidden(t, b) /\ t = Dot /\ b /\ o.quoted
  BY <1>4 DEF Scan, Hidden
<1>5. CASE t # Comment /\ ~Hidden(t, b) /\ ~(t = Dot /\ b /\ o.quoted)
  BY <1>5 DEF Scan, Hidden
<1> QED
  BY <1>1, <1>2, <1>3, <1>4, <1>5 DEF Hidden

LEMMA ScanState ==
  ASSUME NEW o \in TextState, NEW t \in Words, NEW b \in BOOLEAN
  PROVE  Scan(o, t, b) \in TextState
<1>1. Joins(t, b) \in BOOLEAN
  BY DEF Joins
<1>2. [o EXCEPT !.dot = TRUE] \in TextState
  BY DEF TextState
<1>3. WritePlaceholder(o, Joins(t, b)) \in TextState /\ WriteValue(o, t) \in TextState
  BY <1>1, WritesPlaceholder, WritesValue
<1> QED
  BY <1>2, <1>3, ScanCases

\* What has been made of the tokens s so far.
TextStep(b) == [o \in TextState |-> [t \in Words |-> Scan(o, t, b)]]
Obfuscated(s, b) == Folded(TextState, NoText, TextStep(b), s)

ObfuscateLaws(b) ==
  /\ Obfuscated(<<>>, b) = NoText
  /\ \A s \in Seq(Words) :
       /\ Obfuscated(s, b) \in TextState
       /\ \A t \in Words : Obfuscated(Append(s, t), b) = Scan(Obfuscated(s, b), t, b)
       /\ ObfuscateQuery(s, b) = FlushSQLiteDot(Obfuscated(s, b)).text

LEMMA ObfuscateFacts ==
  ASSUME NEW b \in BOOLEAN
  PROVE  ObfuscateLaws(b)
<1> DEFINE G == TextStep(b)
<1>1. G \in [TextState -> [Words -> TextState]]
  BY ScanState DEF TextStep
<1>2. \A o \in TextState, t \in Words : G[o][t] = Scan(o, t, b)
  BY DEF TextStep
<1> HIDE DEF G
<1>3. FoldLaws(TextState, NoText, Words, G)
  BY <1>1, NoTextState, FoldFacts
<1>4. ASSUME NEW s \in Seq(Words)
      PROVE  ObfuscateQuery(s, b) = FlushSQLiteDot(Folded(TextState, NoText, G, s)).text
  <2> DEFINE Read(f) == f = [i \in 0 .. Len(s) |-> IF i = 0 THEN NoText ELSE Scan(f[i - 1], s[i], b)]
             run == CHOOSE f : Read(f)
  <2>0. Len(s) \in Nat /\ \A i \in 1 .. Len(s) : s[i] \in Words
    OBVIOUS
  <2>1. \E f : Read(f)
    <3>1. Folds(TextState, NoText, G, s) # {}
      BY <1>1, NoTextState, OverExists
    <3>2. PICK f \in Folds(TextState, NoText, G, s) : TRUE
      BY <3>1
    <3>3. f \in [0 .. Len(s) -> TextState] /\ f[0] = NoText
      BY <3>2 DEF Folds, Over
    <3>4. ASSUME NEW i \in 1 .. Len(s)
          PROVE  f[i] = Scan(f[i - 1], s[i], b)
      <4>1. i - 1 \in 0 .. Len(s)
        BY <2>0
      <4>2. f[i - 1] \in TextState
        BY <3>3, <4>1
      <4>3. f[i] = G[f[i - 1]][s[i]]
        BY <3>2 DEF Folds, Over
      <4> QED
        BY <4>2, <4>3, <2>0, <1>2
    <3>5. \A i \in 0 .. Len(s) : f[i] = IF i = 0 THEN NoText ELSE Scan(f[i - 1], s[i], b)
      BY <3>3, <3>4, <2>0
    <3> QED
      BY <3>3, <3>5
  <2>2. Read(run)
    BY <2>1
  <2>3. ObfuscateQuery(s, b) = FlushSQLiteDot(run[Len(s)]).text
    BY DEF ObfuscateQuery
  <2> HIDE DEF run
  <2>4. run[0] = NoText /\ \A i \in 1 .. Len(s) : run[i] = Scan(run[i - 1], s[i], b)
    BY <2>0, <2>2
  <2>5. \A i \in 1 .. Len(s) : run[i - 1] \in TextState => run[i] = G[run[i - 1]][s[i]]
    BY <2>0, <2>4, <1>2
  <2>6. Over(run, NoText, G, s)
    BY <2>4, <2>5, <1>1, NoTextState, OverTyped
  <2> QED
    BY <2>3, <2>6, <1>3 DEF FoldLaws
<1>5. \A s \in Seq(Words), t \in Words :
        Folded(TextState, NoText, G, Append(s, t)) = Scan(Folded(TextState, NoText, G, s), t, b)
  BY <1>2, <1>3 DEF FoldLaws
<1> QED
  BY <1>3, <1>4, <1>5 DEF ObfuscateLaws, FoldLaws, Obfuscated, G

\* Words that are gone out and words that stay.
WithoutLaws(gone) ==
  /\ Without(<<>>, gone) = <<>>
  /\ \A s \in Seq(Words) :
       /\ Without(s, gone) \in Seq(Words)
       /\ \A t \in Words : Without(Append(s, t), gone) =
                             IF t \in gone THEN Without(s, gone) ELSE Append(Without(s, gone), t)

LEMMA WithoutFacts ==
  ASSUME NEW gone
  PROVE  WithoutLaws(gone)
<1> DEFINE V == Seq(Words)
           Goes(r, t) == IF t \in gone THEN r ELSE Append(r, t)
           G == [r \in V |-> [t \in Words |-> Goes(r, t)]]
<1>0. <<>> \in V /\ \A r \in V, t \in Words : Append(r, t) \in V
  OBVIOUS
<1>1. \A r \in V, t \in Words : Goes(r, t) \in V
  BY <1>0
<1> HIDE DEF Goes, V
<1>2. G \in [V -> [Words -> V]] /\ \A r \in V, t \in Words : G[r][t] = Goes(r, t)
  BY <1>1
<1> HIDE DEF G
<1>3. FoldLaws(V, <<>>, Words, G)
  BY <1>0, <1>2, FoldFacts
<1>4. ASSUME NEW s \in Seq(Words)
      PROVE  Without(s, gone) = Folded(V, <<>>, G, s)
  <2> DEFINE Read(f) == f = [i \in 0 .. Len(s) |->
                               IF i = 0 THEN <<>>
                               ELSE IF s[i] \in gone THEN f[i - 1] ELSE Append(f[i - 1], s[i])]
             rest == CHOOSE f : Read(f)
  <2>0. Len(s) \in Nat /\ \A i \in 1 .. Len(s) : s[i] \in Words
    OBVIOUS
  <2>1. \E f : Read(f)
    <3>1. Folds(V, <<>>, G, s) # {}
      BY <1>0, <1>2, OverExists
    <3>2. PICK f \in Folds(V, <<>>, G, s) : TRUE
      BY <3>1
    <3>3. f \in [0 .. Len(s) -> V] /\ f[0] = <<>>
      BY <3>2 DEF Folds, Over
    <3>4. ASSUME NEW i \in 1 .. Len(s)
          PROVE  f[i] = Goes(f[i - 1], s[i])
      <4>1. i - 1 \in 0 .. Len(s)
        BY <2>0
      <4>2. f[i - 1] \in V
        BY <3>3, <4>1
      <4>3. f[i] = G[f[i - 1]][s[i]]
        BY <3>2 DEF Folds, Over
      <4> QED
        BY <4>2, <4>3, <2>0, <1>2
    <3>5. \A i \in 0 .. Len(s) : f[i] = IF i = 0 THEN <<>> ELSE Goes(f[i - 1], s[i])
      BY <3>3, <3>4, <2>0
    <3>6. f = [i \in 0 .. Len(s) |-> IF i = 0 THEN <<>> ELSE Goes(f[i - 1], s[i])]
      BY <3>3, <3>5
    <3> QED
      BY <3>6 DEF Goes
  <2>2. Read(rest)
    BY <2>1
  <2>3. Without(s, gone) = rest[Len(s)]
    BY DEF Without
  <2> HIDE DEF rest
  <2>7. rest = [i \in 0 .. Len(s) |-> IF i = 0 THEN <<>> ELSE Goes(rest[i - 1], s[i])]
    BY <2>2 DEF Goes
  <2>4. rest[0] = <<>> /\ \A i \in 1 .. Len(s) : rest[i] = Goes(rest[i - 1], s[i])
    BY <2>0, <2>7
  <2>5. \A i \in 1 .. Len(s) : rest[i - 1] \in V => rest[i] = G[rest[i - 1]][s[i]]
    BY <2>0, <2>4, <1>2
  <2>6. Over(rest, <<>>, G, s)
    BY <2>4, <2>5, <1>0, <1>2, OverTyped
  <2> QED
    BY <2>3, <2>6, <1>3 DEF FoldLaws
<1>5. \A s \in Seq(Words), t \in Words :
        Folded(V, <<>>, G, Append(s, t)) = Goes(Folded(V, <<>>, G, s), t)
  BY <1>2, <1>3 DEF FoldLaws
<1>6. <<>> \in Seq(Words) /\ \A s \in Seq(Words), t \in Words : Append(s, t) \in Seq(Words)
  OBVIOUS
<1>7. \A s \in Seq(Words) : Folded(V, <<>>, G, s) \in Seq(Words)
  BY <1>3 DEF FoldLaws, V
<1>8. Folded(V, <<>>, G, <<>>) = <<>>
  BY <1>3 DEF FoldLaws
<1> QED
  BY <1>4, <1>5, <1>6, <1>7, <1>8 DEF WithoutLaws, Goes

\* The dots of a sequence, and those of them that have to be kept.
DotsOf(w) == {i \in DOMAIN w : w[i] = Dot}
Joining(w, before) == {i \in 1 .. (Len(w) - 1) : w[i] = Dot /\ w[i + 1] \in before}
Due(w, before) == DotsOf(w) \ Joining(w, before)
One(t) == IF t = Dot THEN 1 ELSE 0

LEMMA DotsFinite ==
  ASSUME NEW w \in Seq(Words), NEW before
  PROVE  /\ IsFiniteSet(DotsOf(w)) /\ Cardinality(DotsOf(w)) \in Nat
         /\ IsFiniteSet(Due(w, before)) /\ Cardinality(Due(w, before)) \in Nat
<1>1. IsFiniteSet(1 .. Len(w)) /\ DOMAIN w = 1 .. Len(w)
  BY FS_Interval
<1>2. DotsOf(w) \subseteq 1 .. Len(w) /\ Due(w, before) \subseteq 1 .. Len(w)
  BY <1>1 DEF DotsOf, Due
<1> QED
  BY <1>1, <1>2, FS_Subset, FS_CardinalityType

LEMMA DotMore ==
  ASSUME NEW w \in Seq(Words), NEW t \in Words
  PROVE  Cardinality(DotsOf(Append(w, t))) = Cardinality(DotsOf(w)) + One(t)
<1> DEFINE n == Len(w) + 1
<1>1. DOMAIN w = 1 .. Len(w) /\ DOMAIN Append(w, t) = 1 .. n /\ Len(w) \in Nat
      /\ Append(w, t)[n] = t /\ \A i \in 1 .. Len(w) : Append(w, t)[i] = w[i]
  OBVIOUS
<1>2. CASE t = Dot
  <2>1. DotsOf(Append(w, t)) = DotsOf(w) \cup {n} /\ n \notin DotsOf(w)
    BY <1>1, <1>2 DEF DotsOf
  <2> QED
    BY <2>1, <1>2, DotsFinite, FS_AddElement DEF One
<1>3. CASE t # Dot
  <2>1. DotsOf(Append(w, t)) = DotsOf(w)
    BY <1>1, <1>3 DEF DotsOf
  <2> QED
    BY <2>1, <1>3, DotsFinite DEF One
<1> QED
  BY <1>2, <1>3

\* A word more makes at most one dot more that has to be kept, and one less when it
\* comes before what joins the last dot.
EndsInDot(w) == Len(w) > 0 /\ w[Len(w)] = Dot

LEMMA DueMore ==
  ASSUME NEW w \in Seq(Words), NEW t \in Words, NEW before
  PROVE  LET more == Cardinality(Due(Append(w, t), before))
             less == Cardinality(Due(w, before))
         IN /\ more <= less + One(t)
            /\ EndsInDot(w) /\ t \in before => more <= (less - 1) + One(t)
<1> DEFINE x == Append(w, t)
           n == Len(w) + 1
           new == IF t = Dot THEN {n} ELSE {}
           D == Due(w, before)
           E == D \ {Len(w)}
           old == IF EndsInDot(w) /\ t \in before THEN E ELSE D
<1>1. /\ x \in Seq(Words) /\ Len(x) = n /\ Len(w) \in Nat
      /\ DOMAIN x = 1 .. n /\ DOMAIN w = 1 .. Len(w)
      /\ x[n] = t /\ \A i \in 1 .. Len(w) : x[i] = w[i]
  OBVIOUS
<1> HIDE DEF x
<1>2. ASSUME NEW i \in Due(x, before)
      PROVE  i \in old \cup new
  <2>1. i \in 1 .. n /\ x[i] = Dot /\ i \notin Joining(x, before)
    BY <1>1 DEF Due, DotsOf
  <2>2. CASE i = n
    BY <1>1, <2>1, <2>2
  <2>3. CASE i \in 1 .. Len(w)
    <3>1. w[i] = Dot /\ x[i + 1] \notin before
      BY <1>1, <2>1, <2>3 DEF Joining
    <3>2. i < Len(w) => w[i + 1] \notin before
      BY <1>1, <2>3, <3>1
    <3>3. i \in D
      BY <1>1, <2>3, <3>1, <3>2 DEF Due, DotsOf, Joining
    <3>4. i = Len(w) => t \notin before
      BY <1>1, <3>1
    <3> HIDE DEF D
    <3>5. i # Len(w) => i \in E
      BY <3>3
    <3> QED
      BY <3>3, <3>4, <3>5
  <2> HIDE DEF old, new
  <2> QED
    BY <1>1, <2>1, <2>2, <2>3
<1>3. IsFiniteSet(D) /\ Cardinality(D) \in Nat /\ IsFiniteSet(Due(x, before)) /\ Cardinality(Due(x, before)) \in Nat
  BY <1>1, DotsFinite
<1>4. EndsInDot(w) => Len(w) \in D
  BY <1>1 DEF EndsInDot, Due, DotsOf, Joining
<1>5. EndsInDot(w) => IsFiniteSet(E) /\ Cardinality(E) = Cardinality(D) - 1
  <2> HIDE DEF D
  <2> QED
    BY <1>3, <1>4, FS_RemoveElement
<1>6. IsFiniteSet(old) /\ Cardinality(old) = IF EndsInDot(w) /\ t \in before THEN Cardinality(D) - 1 ELSE Cardinality(D)
  <2> HIDE DEF D, E
  <2> QED
    BY <1>3, <1>5
<1>7. n \notin old
  <2>1. D \subseteq 1 .. Len(w)
    BY <1>1 DEF Due, DotsOf
  <2> HIDE DEF D
  <2> QED
    BY <2>1, <1>1
<1> HIDE DEF old, D
<1> DEFINE both == old \cup new
<1>8. IsFiniteSet(both) /\ Cardinality(both) = Cardinality(old) + One(t)
  <2>1. CASE t = Dot
    BY <2>1, <1>6, <1>7, FS_AddElement DEF One
  <2>2. CASE t # Dot
    <3>1. both = old
      BY <2>2
    <3>2. IsFiniteSet(old)
      BY <1>6
    <3>3. Cardinality(old) \in Nat /\ One(t) = 0
      BY <2>2, <3>2, FS_CardinalityType DEF One
    <3> HIDE DEF both
    <3> QED
      BY <3>1, <3>2, <3>3
  <2> QED
    BY <2>1, <2>2
<1>9. Cardinality(Due(x, before)) <= Cardinality(both)
  BY <1>2, <1>8, FS_Subset
<1> HIDE DEF both
<1>10. Cardinality(D) \in Nat /\ One(t) \in Nat
  BY <1>3 DEF One
<1> QED
  BY <1>3, <1>6, <1>8, <1>9, <1>10 DEF x, D

-----------------------------------------------------------------------------
\* What is gone out of the text of a query and what counts for its order.
Lost(b) == Literal \cup {Comment} \cup (IF b THEN {"quoted"} ELSE {})
Before(b) == IF b THEN {"quoted", "string", Dot} ELSE {}
Spoken(s) == Without(s, {Comment})

\* What is true of the text after the tokens s.
TextTrue(s, o, b) ==
  /\ ToSet(o.text) \cap Lost(b) = {}
  /\ Without(o.text, Lost(b) \cup {Mark, Dot}) = Without(s, Lost(b) \cup {Mark, Dot})
  /\ Cardinality(DotsOf(o.text)) + (IF o.dot THEN 1 ELSE 0) >= Cardinality(Due(Spoken(s), Before(b)))
  /\ o.dot => b /\ EndsInDot(Spoken(s))

\* A word that is not lost can be written.
LEMMA WordWritten ==
  ASSUME NEW x \in Seq(Words), NEW t \in Words, NEW b \in BOOLEAN, t \notin Lost(b),
         ToSet(x) \cap Lost(b) = {}
  PROVE  ToSet(Append(x, t)) \cap Lost(b) = {}
<1>1. ToSet(Append(x, t)) = ToSet(x) \cup {t}
  BY DEF ToSet
<1> QED
  BY <1>1

LEMMA SignsNotLost ==
  ASSUME NEW b \in BOOLEAN
  PROVE  Dot \notin Lost(b) /\ Mark \notin Lost(b) /\ Mark # Dot /\ Dot # Comment /\ Dot \in Words /\ Mark \in Words
BY DEF Lost, Literal, Comment, Dot, Mark, Words

\* Writing the dot that was held back changes nothing of it.
LEMMA FlushTrue ==
  ASSUME NEW s \in Seq(Words), NEW o \in TextState, NEW b \in BOOLEAN, TextTrue(s, o, b)
  PROVE  TextTrue(s, FlushSQLiteDot(o), b)
<1> DEFINE p == FlushSQLiteDot(o)
           gone == Lost(b) \cup {Mark, Dot}
<1>1. o.text \in Seq(Words) /\ o.dot \in BOOLEAN
  BY DEF TextState
<1>2. CASE o.dot
  <2>1. p.text = Append(o.text, Dot) /\ ~p.dot
    BY <1>2, FlushedDot
  <2>2. ToSet(p.text) \cap Lost(b) = {}
    BY <1>1, <2>1, SignsNotLost, WordWritten DEF TextTrue
  <2>3. Without(p.text, gone) = Without(o.text, gone)
    BY <1>1, <2>1, SignsNotLost, WithoutFacts DEF WithoutLaws
  <2>4. Cardinality(DotsOf(p.text)) = Cardinality(DotsOf(o.text)) + 1
    BY <1>1, <2>1, SignsNotLost, DotMore DEF One
  <2>5. Spoken(s) \in Seq(Words)
    BY WithoutFacts DEF WithoutLaws, Spoken
  <2>6. Cardinality(DotsOf(o.text)) \in Nat /\ Cardinality(Due(Spoken(s), Before(b))) \in Nat
    BY <1>1, <2>5, DotsFinite
  <2> HIDE DEF p
  <2>9. (IF o.dot THEN 1 ELSE 0) = 1
    BY <1>2
  <2>10. Cardinality(DotsOf(o.text)) + 1 >= Cardinality(Due(Spoken(s), Before(b)))
    BY <2>9 DEF TextTrue
  <2>7. Cardinality(DotsOf(p.text)) + 0 >= Cardinality(Due(Spoken(s), Before(b)))
    BY <2>4, <2>6, <2>10
  <2>8. TextTrue(s, p, b)
    BY <2>1, <2>2, <2>3, <2>7 DEF TextTrue
  <2> QED
    BY <2>8 DEF p
<1>3. CASE ~o.dot
  <2>1. p = o
    BY <1>3 DEF FlushSQLiteDot
  <2> QED
    BY <2>1
<1> QED
  BY <1>2, <1>3

\* Each token keeps it true.
LEMMA ScanTrue ==
  ASSUME NEW s \in Seq(Words), NEW o \in TextState, NEW t \in Words, NEW b \in BOOLEAN,
         TextTrue(s, o, b)
  PROVE  TextTrue(Append(s, t), Scan(o, t, b), b)
<1> DEFINE p == FlushSQLiteDot(o)
           q == Scan(o, t, b)
           gone == Lost(b) \cup {Mark, Dot}
           W == Spoken(s)
           W2 == Spoken(Append(s, t))
           D(x) == Cardinality(DotsOf(x.text))
           N(w) == Cardinality(Due(w, Before(b)))
<1>1. /\ o.text \in Seq(Words) /\ o.dot \in BOOLEAN /\ p \in TextState /\ p.text \in Seq(Words) /\ ~p.dot
      /\ q \in TextState /\ q.text \in Seq(Words)
  BY FlushedDot, ScanState DEF TextState
<1>2. TextTrue(s, p, b)
  BY FlushTrue
<1>0. WithoutLaws({Comment}) /\ WithoutLaws(gone)
  BY WithoutFacts
<1>3. /\ W \in Seq(Words) /\ W2 = IF t = Comment THEN W ELSE Append(W, t)
      /\ Without(Append(s, t), gone) = IF t \in gone THEN Without(s, gone) ELSE Append(Without(s, gone), t)
  <2> HIDE DEF gone
  <2>1. W \in Seq(Words) /\ W2 = IF t \in {Comment} THEN W ELSE Append(W, t)
    BY <1>0 DEF WithoutLaws, Spoken
  <2>2. Without(Append(s, t), gone) = IF t \in gone THEN Without(s, gone) ELSE Append(Without(s, gone), t)
    BY <1>0 DEF WithoutLaws
  <2> QED
    BY <2>1, <2>2
<1>4. /\ D(o) \in Nat /\ D(p) \in Nat /\ D(q) \in Nat /\ N(W) \in Nat /\ One(t) \in Nat
  BY <1>1, <1>3, DotsFinite DEF One
<1>5. t # Comment => /\ N(W2) \in Nat /\ N(W2) <= N(W) + One(t)
                     /\ EndsInDot(W) /\ t \in Before(b) => N(W2) <= (N(W) - 1) + One(t)
  <2>1. ASSUME t # Comment
        PROVE  W2 \in Seq(Words) /\ W2 = Append(W, t)
    BY <1>3, <2>1
  <2> HIDE DEF W, W2
  <2> QED
    BY <1>3, <2>1, DueMore, DotsFinite
<1> HIDE DEF p, q, W, W2, D, N
<1>6. CASE t = Comment
  <2>1. q = o /\ t \in gone
    BY <1>6, ScanCases DEF q, Lost, Hidden, Literal, Comment, Dot
  <2> QED
    BY <1>3, <1>6, <2>1 DEF TextTrue, W, W2, q
<1>7. CASE t # Comment /\ Hidden(t, b)
  <2>1. t \in gone /\ t # Dot /\ One(t) = 0
    BY <1>7, SignsNotLost DEF Lost, Hidden, Literal, One, Dot
  <2>2. q = WritePlaceholder(o, Joins(t, b)) /\ Joins(t, b) \in BOOLEAN
    BY <1>7, <2>1, ScanCases DEF q, Joins
  <2>3. /\ ~q.dot
        /\ q.text = IF o.dot /\ Joins(t, b) /\ o.quoted THEN o.text
                   ELSE IF o.placeholder THEN p.text ELSE Append(p.text, Mark)
    BY <2>2, WritesPlaceholder DEF p
  <2>4. ToSet(q.text) \cap Lost(b) = {}
    <3>1. ToSet(Append(p.text, Mark)) \cap Lost(b) = {}
      BY <1>1, <1>2, SignsNotLost, WordWritten DEF TextTrue
    <3> QED
      BY <1>2, <2>3, <3>1 DEF TextTrue
  <2>5. Without(q.text, gone) = Without(Append(s, t), gone)
    <3>1. Without(Append(p.text, Mark), gone) = Without(p.text, gone)
      BY <1>1, SignsNotLost, WithoutFacts DEF WithoutLaws
    <3>2. Without(p.text, gone) = Without(s, gone) /\ Without(o.text, gone) = Without(s, gone)
      BY <1>2 DEF TextTrue
    <3> QED
      BY <1>3, <2>1, <2>3, <3>1, <3>2
  <2>6. D(q) >= N(W2)
    <3>1. Cardinality(DotsOf(Append(p.text, Mark))) = D(p)
      BY <1>1, <1>4, SignsNotLost, DotMore DEF One, D
    <3>2. D(p) >= N(W)
      BY <1>1, <1>2, <1>4 DEF TextTrue, W, N, D
    <3>3. CASE o.dot /\ Joins(t, b) /\ o.quoted
      <4>1. EndsInDot(W) /\ t \in Before(b)
        BY <3>3 DEF TextTrue, W, Joins, Before
      <4>2. D(o) + 1 >= N(W)
        BY <3>3 DEF TextTrue, W, N, D
      <4>3. D(q) = D(o)
        BY <2>3, <3>3 DEF D
      <4> QED
        BY <4>1, <4>2, <4>3, <1>4, <1>5, <1>7, <2>1
    <3>4. CASE ~(o.dot /\ Joins(t, b) /\ o.quoted)
      <4>1. D(q) = D(p)
        BY <2>3, <3>1, <3>4 DEF D
      <4> QED
        BY <4>1, <3>2, <1>4, <1>5, <1>7, <2>1
    <3> QED
      BY <3>3, <3>4
  <2> QED
    BY <1>4, <2>3, <2>4, <2>5, <2>6 DEF TextTrue, q, W2, D, N
<1>8. CASE t = Dot /\ b /\ o.quoted /\ ~Hidden(t, b)
  <2>1. q = [o EXCEPT !.dot = TRUE] /\ t # Comment /\ t \in gone /\ One(t) = 1
    BY <1>8, ScanCases, SignsNotLost DEF q, One
  <2>2. q.dot /\ q.text = o.text
    BY <2>1 DEF TextState
  <2>3. EndsInDot(W2)
    BY <1>3, <1>8, <2>1 DEF EndsInDot
  <2>4. D(q) + 1 >= N(W2)
    <3>1. D(q) = D(o)
      BY <2>2 DEF D
    <3>2. CASE o.dot
      <4>1. EndsInDot(W) /\ t \in Before(b) /\ D(o) + 1 >= N(W)
        BY <1>8, <3>2 DEF TextTrue, W, N, D, Before
      <4> QED
        BY <4>1, <3>1, <1>4, <1>5, <2>1
    <3>3. CASE ~o.dot
      <4>1. D(o) >= N(W)
        BY <1>4, <3>3 DEF TextTrue, W, N, D
      <4> QED
        BY <4>1, <3>1, <1>4, <1>5, <2>1
    <3> QED
      BY <3>2, <3>3
  <2> QED
    BY <1>3, <1>8, <2>1, <2>2, <2>3, <2>4 DEF TextTrue, q, W2, D, N
<1>9. CASE t # Comment /\ ~Hidden(t, b) /\ ~(t = Dot /\ b /\ o.quoted)
  <2>1. q = WriteValue(o, t)
    BY <1>9, ScanCases DEF q
  <2>2. ~q.dot /\ q.text = Append(p.text, t)
    BY <2>1, WritesValue DEF p
  <2>3. t \notin Lost(b)
    BY <1>9 DEF Lost, Hidden
  <2>4. ToSet(q.text) \cap Lost(b) = {}
    BY <1>1, <1>2, <2>2, <2>3, WordWritten DEF TextTrue
  <2>5. Without(q.text, gone) = Without(Append(s, t), gone)
    <3>2. Without(p.text, gone) = Without(s, gone)
      BY <1>2 DEF TextTrue
    <3> HIDE DEF gone
    <3>1. Without(q.text, gone) = IF t \in gone THEN Without(p.text, gone) ELSE Append(Without(p.text, gone), t)
      BY <1>0, <1>1, <2>2 DEF WithoutLaws
    <3> QED
      BY <1>3, <3>1, <3>2
  <2>6. D(q) >= N(W2)
    <3>1. D(q) = D(p) + One(t)
      BY <1>1, <2>2, DotMore DEF D
    <3>2. D(p) >= N(W)
      BY <1>1, <1>2, <1>4 DEF TextTrue, W, N, D
    <3> QED
      BY <1>4, <1>5, <1>9, <3>1, <3>2
  <2> QED
    BY <1>4, <2>2, <2>4, <2>5, <2>6 DEF TextTrue, q, W2, D, N
<1>10. Hidden(t, b) => ~(t = Dot)
  BY DEF Hidden, Literal, Dot
<1>11. t = Dot => t # Comment /\ ~Hidden(t, b)
  BY DEF Hidden, Literal, Dot, Comment
<1> QED
  BY <1>6, <1>7, <1>8, <1>9, <1>11 DEF q

\* The text that obfuscating makes of any query.
LEMMA QueryObfuscated ==
  ASSUME NEW b \in BOOLEAN
  PROVE  \A s \in Seq(Words) :
           /\ ObfuscateQuery(s, b) \in Seq(Words)
           /\ ToSet(ObfuscateQuery(s, b)) \cap Lost(b) = {}
           /\ Without(ObfuscateQuery(s, b), Lost(b) \cup {Mark, Dot}) = Without(s, Lost(b) \cup {Mark, Dot})
           /\ Cardinality(DotsOf(ObfuscateQuery(s, b))) >= Cardinality(Due(Spoken(s), Before(b)))
<1> DEFINE S == {s \in Seq(Words) : TextTrue(s, Obfuscated(s, b), b)}
<1>1. <<>> \in S
  <2>1. Obfuscated(<<>>, b) = NoText /\ Spoken(<<>>) = <<>> /\ <<>> \in Seq(Words)
    BY ObfuscateFacts, WithoutFacts DEF ObfuscateLaws, WithoutLaws, Spoken
  <2>2. NoText.text = <<>> /\ NoText.dot = FALSE /\ ToSet(<<>>) = {}
    BY DEF NoText, ToSet
  <2>3. Due(<<>>, Before(b)) = {} /\ DotsOf(<<>>) = {} /\ Cardinality({}) = 0
    BY FS_EmptySet DEF Due, DotsOf
  <2>5. Cardinality(DotsOf(NoText.text)) = 0 /\ Cardinality(Due(Spoken(<<>>), Before(b))) = 0
    BY <2>1, <2>2, <2>3
  <2>4. TextTrue(<<>>, NoText, b)
    BY <2>1, <2>2, <2>5 DEF TextTrue
  <2> QED
    BY <2>1, <2>4
<1>2. ASSUME NEW s \in Seq(Words), NEW t \in Words, s \in S
      PROVE  Append(s, t) \in S
  <2>1. Obfuscated(s, b) \in TextState /\ Obfuscated(Append(s, t), b) = Scan(Obfuscated(s, b), t, b)
    BY ObfuscateFacts DEF ObfuscateLaws
  <2> QED
    BY <1>2, <2>1, ScanTrue
<1>3. ASSUME NEW s \in Seq(Words)
      PROVE  LET p == FlushSQLiteDot(Obfuscated(s, b)) IN
             /\ ObfuscateQuery(s, b) = p.text /\ p \in TextState /\ ~p.dot /\ TextTrue(s, p, b)
  <2>1. s \in S
    <3> HIDE DEF S
    <3> QED
      BY <1>1, <1>2, AppendInduction
  <2>2. Obfuscated(s, b) \in TextState /\ ObfuscateQuery(s, b) = FlushSQLiteDot(Obfuscated(s, b)).text
    BY ObfuscateFacts DEF ObfuscateLaws
  <2> QED
    BY <2>1, <2>2, FlushedDot, FlushTrue
<1> QED
  <2> TAKE s \in Seq(Words)
  <2>1. PICK p \in TextState : ObfuscateQuery(s, b) = p.text /\ ~p.dot /\ TextTrue(s, p, b)
    BY <1>3
  <2>2. p.text \in Seq(Words)
    BY DEF TextState
  <2>3. Cardinality(DotsOf(p.text)) \in Nat
    BY <2>2, DotsFinite
  <2> QED
    BY <2>1, <2>2, <2>3 DEF TextTrue

-----------------------------------------------------------------------------
\* Outgoing: the spans.

\* The text of a query is what its tokens are obfuscated to; of other spans it is empty.
Text == {[tokens |-> q, out |-> ObfuscateQuery(q, b), sqlite |-> b] :
           q \in Queries \cup {<<>>}, b \in BOOLEAN}
Ops == {"root", "transaction", "query", "http.client", "rpc.client"}
Statuses == {"", "idle", "ok", "failed", "internal_error", "aborted", "canceled"}
SpanRecord == [op : Ops, parent : Nat, text : Text, status : Statuses, finished : Nat]

OutType ==
  /\ out \in Seq(SpanRecord)
  /\ conn \in [at : {"idle", "query"}, tx : Nat, open : BOOLEAN, began : Nat, using : Nat,
               skipped : SUBSET Nat, sqlite : BOOLEAN]
  /\ stream \in [at : {"idle", "open"}, span : Nat, serverStreams : BOOLEAN, ended : BOOLEAN,
                 monitor : {"none", "armed", "running", "stopped"}, user : [Users -> Statuses],
                 once : Users \cup {"nobody", "done"}, first : Statuses, text : Text]
  /\ trip \in [at : {"idle", "sent"}, span : Nat, text : Text]

\* Nothing, or a span with this operation that is not the program's.
For(s, op) == s = NoSpan \/ (s \in 2 .. Len(out) /\ out[s].op = op)

\* Who works on a span holds one of its own kind: no two hold the same.
HeldApart ==
  /\ For(conn.tx, "transaction") /\ For(conn.using, "query")
  /\ For(trip.span, "http.client") /\ For(stream.span, "rpc.client")
  /\ \A s \in conn.skipped : For(s, "query")
  /\ conn.using # NoSpan => conn.using \notin conn.skipped

\* What is over holds nothing.
Released ==
  /\ conn.at = "idle" => conn.using = NoSpan
  /\ conn.tx = IF conn.open THEN conn.began ELSE NoSpan
  /\ trip.at = "idle" => trip.span = NoSpan
  /\ stream.at = "idle" => /\ stream.once = "nobody" /\ stream.monitor = "none"
                           /\ stream.span = NoSpan /\ \A u \in Users : stream.user[u] = "idle"
  /\ stream.at = "open" => stream.span # NoSpan

OutInv ==
  /\ OutType /\ HeldApart /\ Released
  /\ Len(out) >= 1 /\ out[1].finished = 0
  /\ FinishedOnce

-----------------------------------------------------------------------------
LEMMA NewSpanType ==
  ASSUME NEW op \in Ops, NEW parent \in Nat, NEW text \in Text
  PROVE  /\ NewSpan(op, parent, text) \in SpanRecord
         /\ NewSpan(op, parent, text).op = op /\ NewSpan(op, parent, text).finished = 0
         /\ NewSpan(op, parent, text).parent = parent
<1>1. "" \in Statuses
  BY DEF Statuses
<1> QED
  BY <1>1 DEF NewSpan, SpanRecord

\* A span more: the others stay as they are.
Grown(n) ==
  /\ out' \in Seq(SpanRecord) /\ Len(out') = Len(out) + 1
  /\ \A s \in 1 .. Len(out) : out'[s] = out[s]
  /\ out'[Len(out) + 1] = n

LEMMA Grows ==
  ASSUME out \in Seq(SpanRecord), NEW n \in SpanRecord, out' = Append(out, n)
  PROVE  Grown(n)
BY DEF Grown

LEMMA Starts ==
  ASSUME out \in Seq(SpanRecord), NEW op \in Ops, NEW parent \in Nat, NEW text \in Text,
         StartSpan(op, parent, text)
  PROVE  IF parent = NoSpan THEN UNCHANGED out /\ Started(parent) = NoSpan
         ELSE Grown(NewSpan(op, parent, text)) /\ Started(parent) = Len(out) + 1
<1>1. CASE parent = NoSpan
  BY <1>1 DEF StartSpan, Started
<1>2. CASE parent # NoSpan
  BY <1>2, NewSpanType, Grows DEF StartSpan, Started
<1> QED
  BY <1>1, <1>2

\* A span is finished: the others stay as they are.
Ends(s, status) ==
  /\ out' \in Seq(SpanRecord) /\ Len(out') = Len(out)
  /\ \A x \in 1 .. Len(out) : /\ out'[x].op = out[x].op
                              /\ x # s => out'[x] = out[x]
                              /\ x = s => out'[x].finished = out[x].finished + 1 /\ out'[x].status = status

LEMMA FinishedRecord ==
  ASSUME NEW e \in SpanRecord, NEW status \in Statuses
  PROVE  LET r == [e EXCEPT !.status = status, !.finished = @ + 1]
         IN  r \in SpanRecord /\ r.op = e.op /\ r.finished = e.finished + 1 /\ r.status = status
<1> DEFINE d == [e EXCEPT !.status = status]
           r == [e EXCEPT !.status = status, !.finished = @ + 1]
<1>1. d \in SpanRecord /\ d.op = e.op /\ d.finished = e.finished /\ d.status = status
  BY DEF SpanRecord
<1>2. r = [d EXCEPT !.finished = e.finished + 1]
  BY <1>1
<1>3. e.finished + 1 \in Nat
  BY DEF SpanRecord
<1> HIDE DEF d, r
<1>4. r \in SpanRecord /\ r.op = d.op /\ r.finished = e.finished + 1 /\ r.status = d.status
  BY <1>1, <1>2, <1>3 DEF SpanRecord
<1> QED
  BY <1>1, <1>4 DEF r

LEMMA Finishes ==
  ASSUME out \in Seq(SpanRecord), NEW s \in Nat, s = NoSpan \/ s \in 1 .. Len(out),
         NEW status \in Statuses, Finish(s, status)
  PROVE  Ends(s, status)
<1>1. CASE s = NoSpan
  <2>1. \A x \in 1 .. Len(out) : x # s
    BY <1>1 DEF NoSpan
  <2> QED
    BY <1>1, <2>1 DEF Finish, Ends
<1>2. CASE s # NoSpan
  <2>1. s \in 1 .. Len(out) /\ out[s] \in SpanRecord
    BY <1>2
  <2> DEFINE r == [out[s] EXCEPT !.status = status, !.finished = @ + 1]
  <2>2. out' = [out EXCEPT ![s] = r]
    BY <1>2, <2>1 DEF Finish
  <2>3. /\ r \in SpanRecord /\ r.op = out[s].op
        /\ r.finished = out[s].finished + 1 /\ r.status = status
    BY <2>1, FinishedRecord
  <2> HIDE DEF r
  <2>4. out' \in Seq(SpanRecord) /\ Len(out') = Len(out)
    BY <2>1, <2>2, <2>3
  <2>5. \A x \in 1 .. Len(out) : out'[x] = IF x = s THEN r ELSE out[x]
    BY <2>1, <2>2
  <2> QED
    BY <2>3, <2>4, <2>5 DEF Ends
<1> QED
  BY <1>1, <1>2

\* What is open and has to be: InUse and the queries that were skipped.
StillInHand == InUse \cup conn.skipped
Tidy == \A s \in 2 .. Len(out) : out[s].finished = IF s \in StillInHand THEN 0 ELSE 1

LEMMA OutFacts ==
  ASSUME OutInv
  PROVE  /\ out \in Seq(SpanRecord) /\ Len(out) \in Nat /\ Tidy
         /\ conn.tx \in Nat /\ conn.using \in Nat /\ conn.began \in Nat /\ conn.skipped \subseteq Nat
         /\ conn.open \in BOOLEAN /\ conn.sqlite \in BOOLEAN
         /\ trip.span \in Nat /\ stream.span \in Nat
         /\ trip.text \in Text /\ stream.text \in Text
BY DEF OutInv, OutType, FinishedOnce, Tidy, StillInHand

LEMMA ForKept ==
  ASSUME out \in Seq(SpanRecord), NEW s \in Nat, NEW op, For(s, op),
         \/ UNCHANGED out
         \/ \E n : Grown(n)
         \/ \E t, status : Ends(t, status)
  PROVE  s = NoSpan \/ (s \in 2 .. Len(out') /\ out'[s].op = op)
<1>1. Len(out) \in Nat
  OBVIOUS
<1>2. CASE s = NoSpan
  BY <1>2
<1>3. CASE s \in 2 .. Len(out) /\ out[s].op = op
  <2>1. s \in 1 .. Len(out)
    BY <1>1, <1>3
  <2>2. CASE UNCHANGED out
    BY <1>3, <2>2
  <2>3. ASSUME NEW n, Grown(n) PROVE s \in 2 .. Len(out') /\ out'[s] = out[s]
    BY <1>1, <1>3, <2>1, <2>3 DEF Grown
  <2>4. ASSUME NEW t, NEW status, Ends(t, status) PROVE s \in 2 .. Len(out') /\ out'[s].op = out[s].op
    BY <1>3, <2>1, <2>4 DEF Ends
  <2> QED
    BY <1>3, <2>2, <2>3, <2>4
<1> QED
  BY <1>2, <1>3 DEF For

LEMMA GrowTidy ==
  ASSUME OutInv, NEW n, Grown(n), \A s \in 2 .. Len(out) : s \in StillInHand <=> s \in StillInHand',
         n.finished = IF Len(out) + 1 \in StillInHand' THEN 0 ELSE 1
  PROVE  /\ Tidy' /\ Len(out') >= 1 /\ out'[1].finished = 0 /\ out' \in Seq(SpanRecord)
         /\ \A s \in 1 .. Len(out) : out'[s] = out[s]
<1>1. Len(out) \in Nat /\ Tidy /\ Len(out) >= 1 /\ out[1].finished = 0
  BY OutFacts DEF OutInv
<1>2. ASSUME NEW s \in 2 .. Len(out) + 1 PROVE out'[s].finished = IF s \in StillInHand' THEN 0 ELSE 1
  <2>1. CASE s = Len(out) + 1
    BY <2>1 DEF Grown
  <2>2. CASE s \in 2 .. Len(out)
    <3>1. s \in 1 .. Len(out)
      BY <1>1, <2>2
    <3> QED
      BY <1>1, <2>2, <3>1 DEF Grown, Tidy
  <2> QED
    BY <1>1, <2>1, <2>2
<1>3. 1 \in 1 .. Len(out) /\ Len(out) + 1 >= 1
  BY <1>1
<1>4. Tidy'
  BY <1>2 DEF Tidy, Grown
<1> QED
  BY <1>1, <1>3, <1>4 DEF Grown

LEMMA EndTidy ==
  ASSUME OutInv, NEW s \in Nat, NEW status, Ends(s, status),
         s = NoSpan \/ s \in 2 .. Len(out), s # NoSpan => s \in StillInHand /\ s \notin StillInHand',
         \A x \in 2 .. Len(out) : x # s => (x \in StillInHand <=> x \in StillInHand')
  PROVE  /\ Tidy' /\ Len(out') >= 1 /\ out'[1].finished = 0 /\ out' \in Seq(SpanRecord)
         /\ \A x \in 1 .. Len(out) : x # s => out'[x] = out[x]
<1>1. Len(out) \in Nat /\ Tidy /\ Len(out) >= 1 /\ out[1].finished = 0
  BY OutFacts DEF OutInv
<1>2. ASSUME NEW x \in 2 .. Len(out) PROVE out'[x].finished = IF x \in StillInHand' THEN 0 ELSE 1
  <2>1. x \in 1 .. Len(out) /\ x # NoSpan
    BY <1>1 DEF NoSpan
  <2>2. CASE x = s
    <3>1. out[x].finished = 0
      BY <1>1, <2>1, <2>2 DEF Tidy
    <3>2. out'[x].finished = out[x].finished + 1
      BY <2>1, <2>2 DEF Ends
    <3>3. x \notin StillInHand'
      BY <2>1, <2>2
    <3> QED
      BY <3>1, <3>2, <3>3
  <2>3. CASE x # s
    BY <1>1, <2>1, <2>3 DEF Tidy, Ends
  <2> QED
    BY <2>2, <2>3
<1>3. 1 \in 1 .. Len(out) /\ 1 # s
  BY <1>1 DEF NoSpan
<1>4. Tidy'
  BY <1>2 DEF Tidy, Ends
<1> QED
  BY <1>1, <1>3, <1>4 DEF Ends

\* What the end of a stream says of its span.
StreamOver == stream.once = "done" => out[stream.span].status = stream.first /\ stream.monitor # "armed"

LEMMA OutParts == OutInv <=> /\ OutType /\ HeldApart /\ Released
                             /\ Len(out) >= 1 /\ out[1].finished = 0 /\ Tidy /\ StreamOver
BY DEF OutInv, FinishedOnce, Tidy, StillInHand, StreamOver

LEMMA OutPartsNext ==
  ASSUME OutType', HeldApart', Released', Len(out') >= 1, out'[1].finished = 0, Tidy', StreamOver'
  PROVE  OutInv'
BY DEF OutInv, FinishedOnce, Tidy, StillInHand, StreamOver

\* A step that keeps the stream's record and its span keeps StreamOver.
LEMMA OverKept ==
  ASSUME OutInv, UNCHANGED stream, \A x \in 1 .. Len(out) : out[x].op = "rpc.client" => out'[x] = out[x]
  PROVE  StreamOver'
<1>1. StreamOver /\ For(stream.span, "rpc.client") /\ Released /\ OutType
  BY OutParts DEF HeldApart
<1>2. CASE stream.once = "done"
  <2>1. stream.span # NoSpan
    BY <1>1, <1>2 DEF Released, OutType
  <2>2. stream.span \in 1 .. Len(out) /\ out[stream.span].op = "rpc.client"
    BY <1>1, <2>1, OutFacts DEF For
  <2> QED
    BY <1>1, <2>2 DEF StreamOver
<1>3. CASE stream.once # "done"
  BY <1>3 DEF StreamOver
<1> QED
  BY <1>2, <1>3

LEMMA Bounded ==
  ASSUME OutInv
  PROVE  Len(out) + 1 \notin StillInHand
<1>1. HeldApart /\ OutType /\ Len(out) \in Nat
  BY OutFacts DEF OutInv
<1>2. \A s, op : For(s, op) => s # Len(out) + 1
  BY <1>1 DEF For, NoSpan
<1>3. \A s \in StillInHand : s = NoSpan \/ \E op : For(s, op)
  BY <1>1 DEF StillInHand, InUse, HeldApart
<1> QED
  BY <1>1, <1>2, <1>3 DEF NoSpan

LEMMA EmptyText == [tokens |-> <<>>, out |-> <<>>, sqlite |-> FALSE] \in Text
<1>0. ObfuscateLaws(FALSE)
  BY ObfuscateFacts, Zenon
<1>5. <<>> \in Seq(Words)
  OBVIOUS
<1>1. Obfuscated(<<>>, FALSE) = NoText
  BY <1>0 DEF ObfuscateLaws
<1>2. ObfuscateQuery(<<>>, FALSE) = FlushSQLiteDot(NoText).text
  BY <1>0, <1>1, <1>5 DEF ObfuscateLaws
<1>3. ObfuscateQuery(<<>>, FALSE) = <<>>
  BY <1>2 DEF FlushSQLiteDot, NoText
<1>4. [tokens |-> <<>>, out |-> ObfuscateQuery(<<>>, FALSE), sqlite |-> FALSE] \in Text
  <2>1. <<>> \in Queries \cup {<<>>} /\ FALSE \in BOOLEAN
    BY Zenon
  <2>2. ASSUME NEW q \in Queries \cup {<<>>}, NEW b \in BOOLEAN
        PROVE  [tokens |-> q, out |-> ObfuscateQuery(q, b), sqlite |-> b] \in Text
    BY DEF Text
  <2> QED
    BY <2>1, <2>2, Zenon
<1> QED
  BY <1>3, <1>4

\* For, after a step.
NextFor(s, op) == s = NoSpan \/ (s \in 2 .. Len(out') /\ out'[s].op = op)

LEMMA HeldNext ==
  ASSUME NextFor(conn'.tx, "transaction"), NextFor(conn'.using, "query"),
         NextFor(trip'.span, "http.client"), NextFor(stream'.span, "rpc.client"),
         \A s \in conn'.skipped : NextFor(s, "query"),
         conn'.using # NoSpan => conn'.using \notin conn'.skipped
  PROVE  HeldApart'
BY DEF HeldApart, For, NextFor

\* What a step keeps that leaves the spans of others in hand.
Stays ==
  /\ Tidy' /\ Len(out') >= 1 /\ out'[1].finished = 0 /\ out' \in Seq(SpanRecord)
  /\ \A s \in Nat : \A o : For(s, o) => NextFor(s, o)

LEMMA StartKeeps ==
  ASSUME OutInv, NEW op \in Ops, NEW parent \in Nat, NEW text \in Text, StartSpan(op, parent, text),
         \A s : s # NoSpan => (s \in StillInHand' <=> s \in StillInHand \/ s = Started(parent))
  PROVE  /\ Stays /\ Started(parent) \in Nat /\ NextFor(Started(parent), op)
         /\ \A s \in 1 .. Len(out) : out'[s] = out[s]
<1>1. out \in Seq(SpanRecord) /\ Len(out) \in Nat
  BY OutFacts
<1>2. IF parent = NoSpan THEN UNCHANGED out /\ Started(parent) = NoSpan
      ELSE Grown(NewSpan(op, parent, text)) /\ Started(parent) = Len(out) + 1
  BY <1>1, Starts
<1>3. \A s \in Nat : \A o : For(s, o) => NextFor(s, o)
  BY <1>1, <1>2, ForKept DEF NextFor
<1>4. CASE parent = NoSpan
  <2>1. \A s \in 2 .. Len(out) : s \in StillInHand <=> s \in StillInHand'
    BY <1>2, <1>4 DEF NoSpan
  <2>2. Tidy' /\ Len(out') >= 1 /\ out'[1].finished = 0
    BY <1>2, <1>4, <2>1, OutParts DEF Tidy
  <2> QED
    BY <1>1, <1>2, <1>3, <1>4, <2>2 DEF Stays, NextFor, NoSpan
<1>5. CASE parent # NoSpan
  <2>1. \A s \in 2 .. Len(out) : s \in StillInHand <=> s \in StillInHand'
    BY <1>1, <1>2, <1>5 DEF NoSpan
  <2>2. /\ NewSpan(op, parent, text).finished = 0 /\ NewSpan(op, parent, text).op = op
        /\ Len(out) + 1 \in StillInHand'
    BY <1>1, <1>2, <1>5, NewSpanType DEF NoSpan
  <2>3. /\ Tidy' /\ Len(out') >= 1 /\ out'[1].finished = 0 /\ out' \in Seq(SpanRecord)
        /\ \A s \in 1 .. Len(out) : out'[s] = out[s]
    BY <1>2, <1>5, <2>1, <2>2, GrowTidy
  <2>4. NextFor(Started(parent), op) /\ Started(parent) \in Nat
    <3>1. /\ Len(out') = Len(out) + 1 /\ out'[Len(out) + 1].op = op /\ Len(out) >= 1
      BY <1>1, <1>2, <1>5, <2>2 DEF Grown, OutInv
    <3> QED
      BY <1>1, <1>2, <1>5, <3>1 DEF NextFor
  <2> QED
    BY <1>3, <2>3, <2>4 DEF Stays
<1> QED
  BY <1>4, <1>5

LEMMA FinishKeeps ==
  ASSUME OutInv, NEW s \in Nat, NEW op, For(s, op), NEW status \in Statuses, Finish(s, status),
         \A x : x # NoSpan => (x \in StillInHand' <=> x \in StillInHand /\ x # s), s \in StillInHand
  PROVE  /\ Stays /\ \A x \in 1 .. Len(out) : x # s => out'[x] = out[x]
         /\ s # NoSpan => out'[s].status = status
<1>1. out \in Seq(SpanRecord) /\ Len(out) \in Nat
  BY OutFacts
<1>2. s = NoSpan \/ s \in 2 .. Len(out)
  BY DEF For
<1>3. s # NoSpan => s \in 1 .. Len(out)
  BY <1>1, <1>2
<1>4. Ends(s, status)
  BY <1>1, <1>3, Finishes
<1>5. \A x \in 2 .. Len(out) : x # s => (x \in StillInHand <=> x \in StillInHand')
  BY DEF NoSpan
<1>6. /\ Tidy' /\ Len(out') >= 1 /\ out'[1].finished = 0 /\ out' \in Seq(SpanRecord)
      /\ \A x \in 1 .. Len(out) : x # s => out'[x] = out[x]
  BY <1>2, <1>4, <1>5, EndTidy
<1>7. \A x \in Nat : \A o : For(x, o) => NextFor(x, o)
  BY <1>1, <1>4, ForKept DEF NextFor
<1>8. s # NoSpan => out'[s].status = status
  BY <1>3, <1>4 DEF Ends
<1> QED
  BY <1>6, <1>7, <1>8 DEF Stays

\* What is held stays so where the step does not change who holds it.
LEMMA KeepsFor ==
  ASSUME OutInv, Stays
  PROVE  /\ NextFor(conn.tx, "transaction") /\ NextFor(conn.using, "query")
         /\ NextFor(trip.span, "http.client") /\ NextFor(stream.span, "rpc.client")
         /\ \A s \in conn.skipped : NextFor(s, "query")
         /\ conn.using # NoSpan => conn.using \notin conn.skipped
         /\ Tidy' /\ Len(out') >= 1 /\ out'[1].finished = 0 /\ out' \in Seq(SpanRecord)
<1>1. HeldApart
  BY OutParts
<1>2. \A s \in conn.skipped : s \in Nat
  BY OutFacts
<1> QED
  BY <1>1, <1>2, OutFacts DEF HeldApart, Stays

ConnType == [at : {"idle", "query"}, tx : Nat, open : BOOLEAN, began : Nat, using : Nat,
             skipped : SUBSET Nat, sqlite : BOOLEAN]

LEMMA BeginTxKeeps ==
  ASSUME OutInv, NEW ctx \in {NoSpan, Root}, BeginTx(ctx)
  PROVE  OutInv'
<1> DEFINE text == [tokens |-> <<>>, out |-> <<>>, sqlite |-> FALSE]
<1>1. OutType /\ Released /\ ctx \in Nat /\ "transaction" \in Ops /\ text \in Text
  BY EmptyText DEF OutInv, NoSpan, Root, Ops
<1>2. /\ conn.at = "idle" /\ conn.open = FALSE /\ UNCHANGED <<stream, trip>>
      /\ StartSpan("transaction", ctx, text)
      /\ conn' = [conn EXCEPT !.tx = Started(ctx), !.open = TRUE, !.began = Started(ctx)]
  BY OutFacts DEF BeginTx, Idle
<1> HIDE DEF text
<1>3. /\ conn'.at = "idle" /\ conn'.tx = Started(ctx) /\ conn'.open = TRUE /\ conn'.began = Started(ctx)
      /\ conn'.using = conn.using /\ conn'.skipped = conn.skipped /\ conn.tx = NoSpan
  BY <1>1, <1>2 DEF OutType, Released
<1>4. \A s : s # NoSpan => (s \in StillInHand' <=> s \in StillInHand \/ s = Started(ctx))
  BY <1>2, <1>3 DEF StillInHand, InUse
<1>5. /\ Stays /\ Started(ctx) \in Nat /\ NextFor(Started(ctx), "transaction")
      /\ \A s \in 1 .. Len(out) : out'[s] = out[s]
  BY <1>1, <1>2, <1>4, StartKeeps
<1>6. HeldApart'
  BY <1>2, <1>3, <1>5, KeepsFor, HeldNext
<1>7. Released'
  BY <1>1, <1>2, <1>3 DEF Released
<1>8. OutType'
  <2>1. conn' \in ConnType
    BY <1>1, <1>2, <1>5 DEF OutType, ConnType
  <2> QED
    BY <1>1, <1>2, <1>5, <2>1, KeepsFor DEF OutType, ConnType
<1>9. StreamOver'
  BY <1>2, <1>5, OverKept
<1> QED
  BY <1>5, <1>6, <1>7, <1>8, <1>9, KeepsFor, OutPartsNext

\* No span is in two hands, since they hold different kinds.
LEMMA OneHand ==
  ASSUME OutInv
  PROVE  /\ conn.tx # NoSpan => conn.tx \notin {conn.using, trip.span, stream.span} \cup conn.skipped
         /\ conn.using # NoSpan => conn.using \notin {trip.span, stream.span} \cup conn.skipped
         /\ trip.span # NoSpan => trip.span \notin {stream.span} \cup conn.skipped
         /\ stream.span # NoSpan => stream.span \notin conn.skipped
<1>1. HeldApart
  BY OutParts
<1>2. \A s, o, p : s # NoSpan /\ For(s, o) /\ For(s, p) => o = p
  BY DEF For
<1>3. /\ For(conn.tx, "transaction") /\ For(conn.using, "query")
      /\ For(trip.span, "http.client") /\ For(stream.span, "rpc.client")
      /\ \A s \in conn.skipped : For(s, "query")
      /\ conn.using # NoSpan => conn.using \notin conn.skipped
  BY <1>1 DEF HeldApart
<1>4. /\ "transaction" # "query" /\ "transaction" # "http.client" /\ "transaction" # "rpc.client"
      /\ "query" # "http.client" /\ "query" # "rpc.client" /\ "http.client" # "rpc.client"
  OBVIOUS
<1>5. conn.tx # NoSpan => conn.tx \notin {conn.using, trip.span, stream.span} \cup conn.skipped
  BY <1>2, <1>3, <1>4
<1>6. conn.using # NoSpan => conn.using \notin {trip.span, stream.span} \cup conn.skipped
  BY <1>2, <1>3, <1>4
<1>7. trip.span # NoSpan => trip.span \notin {stream.span} \cup conn.skipped
  BY <1>2, <1>3, <1>4
<1>8. stream.span # NoSpan => stream.span \notin conn.skipped
  BY <1>2, <1>3, <1>4
<1> QED
  BY <1>5, <1>6, <1>7, <1>8

LEMMA StillKeeps ==
  ASSUME OutInv, UNCHANGED out, \A s : s # NoSpan => (s \in StillInHand' <=> s \in StillInHand)
  PROVE  Stays /\ \A s \in 1 .. Len(out) : out'[s] = out[s]
<1>1. Tidy' /\ Len(out') >= 1 /\ out'[1].finished = 0 /\ out' \in Seq(SpanRecord)
  <2>1. Tidy /\ Len(out) >= 1 /\ out[1].finished = 0 /\ out \in Seq(SpanRecord)
    BY OutParts, OutFacts
  <2>2. \A s \in 2 .. Len(out) : s # NoSpan
    BY DEF NoSpan
  <2> QED
    BY <2>1, <2>2 DEF Tidy
<1>2. \A s \in Nat : \A o : For(s, o) => NextFor(s, o)
  BY DEF For, NextFor
<1> QED
  BY <1>1, <1>2 DEF Stays

LEMMA StartQueryKeeps ==
  ASSUME OutInv, NEW ctx \in {NoSpan, Root}, NEW tokens \in Queries, StartQuery(ctx, tokens)
  PROVE  OutInv'
<1> DEFINE text == [tokens |-> tokens, out |-> ObfuscateQuery(tokens, conn.sqlite), sqlite |-> conn.sqlite]
           parent == SpanParent(ctx)
<1>1. /\ OutType /\ Released /\ parent \in Nat /\ "query" \in Ops /\ text \in Text
  <2>1. parent \in Nat
    BY OutFacts DEF SpanParent, SpanOrNil, NoSpan, Root
  <2>2. text \in Text
    BY OutFacts DEF Text
  <2> QED
    BY <2>1, <2>2 DEF OutInv, Ops
<1>2. /\ conn.at = "idle" /\ UNCHANGED <<stream, trip>>
      /\ StartSpan("query", parent, text)
      /\ conn' = [conn EXCEPT !.at = "query", !.using = Started(parent)]
  BY DEF StartQuery, Idle
<1> HIDE DEF text, parent
<1>3. /\ conn'.at = "query" /\ conn'.using = Started(parent) /\ conn'.tx = conn.tx
      /\ conn'.open = conn.open /\ conn'.began = conn.began
      /\ conn'.skipped = conn.skipped /\ conn.using = NoSpan
  BY <1>1, <1>2 DEF OutType, Released
<1>4. \A s : s # NoSpan => (s \in StillInHand' <=> s \in StillInHand \/ s = Started(parent))
  BY <1>2, <1>3 DEF StillInHand, InUse
<1>5. /\ Stays /\ Started(parent) \in Nat /\ NextFor(Started(parent), "query")
      /\ \A s \in 1 .. Len(out) : out'[s] = out[s]
  BY <1>1, <1>2, <1>4, StartKeeps
<1>6. Started(parent) # NoSpan => Started(parent) \notin conn.skipped
  BY Bounded DEF StillInHand, Started
<1>7. HeldApart'
  BY <1>2, <1>3, <1>5, <1>6, KeepsFor, HeldNext
<1>8. Released'
  BY <1>1, <1>2, <1>3 DEF Released
<1>9. OutType'
  <2>1. conn' \in ConnType
    BY <1>1, <1>2, <1>5 DEF OutType, ConnType
  <2> QED
    BY <1>1, <1>2, <1>5, <2>1, KeepsFor DEF OutType, ConnType
<1>10. StreamOver'
  BY <1>2, <1>5, OverKept
<1> QED
  BY <1>5, <1>7, <1>8, <1>9, <1>10, KeepsFor, OutPartsNext

LEMMA EndQueryKeeps ==
  ASSUME OutInv, NEW outcome \in {"ok", "error", "skip"}, EndQuery(outcome)
  PROVE  OutInv'
<1>1. OutType /\ Released /\ conn.using \in Nat /\ conn.skipped \subseteq Nat /\ HeldApart
  BY OutFacts DEF OutInv
<1>2. /\ conn.at = "query" /\ UNCHANGED <<stream, trip>>
      /\ conn' = [conn EXCEPT !.at = "idle", !.using = NoSpan,
                              !.skipped = IF outcome = "skip" THEN @ \cup {conn.using} ELSE @]
  BY DEF EndQuery
<1>3. /\ conn'.at = "idle" /\ conn'.using = NoSpan /\ conn'.tx = conn.tx
      /\ conn'.open = conn.open /\ conn'.began = conn.began
      /\ conn'.skipped = IF outcome = "skip" THEN conn.skipped \cup {conn.using} ELSE conn.skipped
  BY <1>1, <1>2 DEF OutType
<1>4. Stays /\ \A s \in 1 .. Len(out) : out[s].op # "query" => out'[s] = out[s]
  <2>1. CASE outcome = "skip"
    <3>1. UNCHANGED out
      BY <2>1 DEF EndQuery
    <3>2. \A s : s # NoSpan => (s \in StillInHand' <=> s \in StillInHand)
      BY <1>2, <1>3, <2>1 DEF StillInHand, InUse
    <3> QED
      BY <3>1, <3>2, StillKeeps
  <2>2. CASE outcome # "skip"
    <3> DEFINE status == IF outcome = "ok" THEN "ok" ELSE "internal_error"
    <3>1. Finish(conn.using, status) /\ status \in Statuses
      BY <2>2 DEF EndQuery, Statuses
    <3>2. \A s : s # NoSpan => (s \in StillInHand' <=> s \in StillInHand /\ s # conn.using)
      BY <1>2, <1>3, <2>2, OneHand DEF StillInHand, InUse
    <3>3. conn.using \in StillInHand /\ For(conn.using, "query")
      BY <1>1 DEF StillInHand, InUse, HeldApart
    <3> HIDE DEF status
    <3>4. Stays /\ \A s \in 1 .. Len(out) : s # conn.using => out'[s] = out[s]
      BY <1>1, <3>1, <3>2, <3>3, FinishKeeps
    <3>5. \A s \in 1 .. Len(out) : out[s].op # "query" => s # conn.using
      BY <3>3 DEF For, NoSpan
    <3> QED
      BY <3>4, <3>5
  <2> QED
    BY <2>1, <2>2
<1>5. HeldApart'
  <2>1. \A s \in conn'.skipped : NextFor(s, "query")
    BY <1>3, <1>4, KeepsFor
  <2> QED
    BY <1>2, <1>3, <1>4, <2>1, KeepsFor, HeldNext DEF NextFor
<1>6. Released'
  BY <1>1, <1>2, <1>3 DEF Released
<1>7. OutType'
  <2>1. NoSpan \in Nat /\ (IF outcome = "skip" THEN conn.skipped \cup {conn.using} ELSE conn.skipped) \in SUBSET Nat
    BY <1>1 DEF NoSpan
  <2>2. conn' \in ConnType
    BY <1>1, <1>2, <2>1 DEF OutType, ConnType
  <2> QED
    BY <1>1, <1>2, <1>4, <2>2, KeepsFor DEF OutType, ConnType
<1>8. StreamOver'
  <2>1. \A s \in 1 .. Len(out) : out[s].op = "rpc.client" => out'[s] = out[s]
    BY <1>4
  <2> QED
    BY <1>2, <2>1, OverKept
<1> QED
  BY <1>4, <1>5, <1>6, <1>7, <1>8, KeepsFor, OutPartsNext

LEMMA EndTxKeeps ==
  ASSUME OutInv, NEW status \in {"ok", "aborted", "internal_error"}, EndTx(status)
  PROVE  OutInv'
<1>1. OutType /\ Released /\ conn.tx \in Nat /\ HeldApart /\ status \in Statuses
  BY OutFacts DEF OutInv, Statuses
<1>2. /\ conn.at = "idle" /\ UNCHANGED <<stream, trip>> /\ Finish(conn.tx, status)
      /\ conn' = [conn EXCEPT !.tx = NoSpan, !.open = FALSE]
  BY DEF EndTx, Idle
<1>3. /\ conn'.at = "idle" /\ conn'.using = conn.using /\ conn'.tx = NoSpan
      /\ conn'.open = FALSE /\ conn'.skipped = conn.skipped
  BY <1>1, <1>2 DEF OutType
<1>4. \A s : s # NoSpan => (s \in StillInHand' <=> s \in StillInHand /\ s # conn.tx)
  BY <1>2, <1>3, OneHand DEF StillInHand, InUse
<1>5. conn.tx \in StillInHand /\ For(conn.tx, "transaction")
  BY <1>1 DEF StillInHand, InUse, HeldApart
<1>6. Stays /\ \A s \in 1 .. Len(out) : s # conn.tx => out'[s] = out[s]
  BY <1>1, <1>2, <1>4, <1>5, FinishKeeps
<1>7. HeldApart'
  BY <1>2, <1>3, <1>6, KeepsFor, HeldNext DEF NextFor
<1>8. Released'
  BY <1>1, <1>2, <1>3 DEF Released
<1>9. OutType'
  <2>1. conn' \in ConnType
    BY <1>1, <1>2 DEF OutType, ConnType, NoSpan
  <2> QED
    BY <1>1, <1>2, <1>6, <2>1, KeepsFor DEF OutType, ConnType
<1>10. StreamOver'
  <2>1. \A s \in 1 .. Len(out) : out[s].op = "rpc.client" => s # conn.tx
    BY <1>5 DEF For, NoSpan
  <2> QED
    BY <1>2, <1>6, <2>1, OverKept
<1> QED
  BY <1>6, <1>7, <1>8, <1>9, <1>10, KeepsFor, OutPartsNext

TripType == [at : {"idle", "sent"}, span : Nat, text : Text]
StreamType == [at : {"idle", "open"}, span : Nat, serverStreams : BOOLEAN, ended : BOOLEAN,
               monitor : {"none", "armed", "running", "stopped"}, user : [Users -> Statuses],
               once : Users \cup {"nobody", "done"}, first : Statuses, text : Text]

LEMMA OutTypes ==
  OutType <=> out \in Seq(SpanRecord) /\ conn \in ConnType /\ stream \in StreamType /\ trip \in TripType
BY DEF OutType, ConnType, StreamType, TripType

LEMMA OutTypesNext ==
  ASSUME out' \in Seq(SpanRecord), conn' \in ConnType, stream' \in StreamType, trip' \in TripType
  PROVE  OutType'
BY DEF OutType, ConnType, StreamType, TripType

LEMMA RoundTripKeeps ==
  ASSUME OutInv, NEW ctx \in {NoSpan, Root}, NEW targets \in BOOLEAN, RoundTrip(ctx, targets)
  PROVE  OutInv'
<1> DEFINE parent == IF targets THEN ctx ELSE NoSpan
<1>1. /\ conn \in ConnType /\ stream \in StreamType /\ trip \in TripType /\ Released
      /\ parent \in Nat /\ "http.client" \in Ops /\ trip.text \in Text
  BY OutTypes, OutFacts DEF OutInv, NoSpan, Root, Ops
<1>2. /\ trip.at = "idle" /\ UNCHANGED <<conn, stream>>
      /\ StartSpan("http.client", parent, trip.text)
      /\ trip' = [trip EXCEPT !.at = "sent", !.span = Started(parent)]
  BY DEF RoundTrip
<1> HIDE DEF parent
<1>3. trip'.at = "sent" /\ trip'.span = Started(parent) /\ trip.span = NoSpan
  BY <1>1, <1>2 DEF TripType, Released
<1>4. \A s : s # NoSpan => (s \in StillInHand' <=> s \in StillInHand \/ s = Started(parent))
  BY <1>2, <1>3 DEF StillInHand, InUse
<1>5. /\ Stays /\ Started(parent) \in Nat /\ NextFor(Started(parent), "http.client")
      /\ \A s \in 1 .. Len(out) : out'[s] = out[s]
  BY <1>1, <1>2, <1>4, StartKeeps
<1>6. HeldApart'
  BY <1>2, <1>3, <1>5, KeepsFor, HeldNext
<1>7. Released'
  BY <1>1, <1>2, <1>3 DEF Released
<1>8. OutType'
  <2>1. trip' \in TripType
    BY <1>1, <1>2, <1>5 DEF TripType
  <2> QED
    BY <1>1, <1>2, <1>5, <2>1, KeepsFor, OutTypesNext
<1>9. StreamOver'
  BY <1>2, <1>5, OverKept
<1> QED
  BY <1>5, <1>6, <1>7, <1>8, <1>9, KeepsFor, OutPartsNext

LEMMA RespondKeeps ==
  ASSUME OutInv, NEW status \in Statuses, Respond(status)
  PROVE  OutInv'
<1>1. /\ conn \in ConnType /\ stream \in StreamType /\ trip \in TripType /\ Released /\ HeldApart
      /\ trip.span \in Nat
  BY OutTypes, OutFacts DEF OutInv
<1>2. /\ UNCHANGED <<conn, stream>> /\ Finish(trip.span, status)
      /\ trip' = [trip EXCEPT !.at = "idle", !.span = NoSpan]
  BY DEF Respond
<1>3. trip'.at = "idle" /\ trip'.span = NoSpan
  BY <1>1, <1>2 DEF TripType
<1>4. \A s : s # NoSpan => (s \in StillInHand' <=> s \in StillInHand /\ s # trip.span)
  BY <1>2, <1>3, OneHand DEF StillInHand, InUse
<1>5. trip.span \in StillInHand /\ For(trip.span, "http.client")
  BY <1>1 DEF StillInHand, InUse, HeldApart
<1>6. Stays /\ \A s \in 1 .. Len(out) : s # trip.span => out'[s] = out[s]
  BY <1>1, <1>2, <1>4, <1>5, FinishKeeps
<1>7. HeldApart'
  BY <1>2, <1>3, <1>6, KeepsFor, HeldNext DEF NextFor
<1>8. Released'
  BY <1>1, <1>2, <1>3 DEF Released
<1>9. OutType'
  <2>1. trip' \in TripType
    BY <1>1, <1>2 DEF TripType, NoSpan
  <2> QED
    BY <1>1, <1>2, <1>6, <2>1, KeepsFor, OutTypesNext
<1>10. StreamOver'
  <2>1. ASSUME NEW s \in 1 .. Len(out), out[s].op = "rpc.client" PROVE s # trip.span
    <3>1. out[s].op # "http.client"
      BY <2>1
    <3>2. s # NoSpan
      BY <2>1, OutFacts DEF NoSpan
    <3> QED
      BY <1>5, <3>1, <3>2 DEF For
  <2> QED
    BY <1>2, <1>6, <2>1, OverKept
<1> QED
  BY <1>6, <1>7, <1>8, <1>9, <1>10, KeepsFor, OutPartsNext

-----------------------------------------------------------------------------
\* A call that is over when it returns: its span is finished, and in no hand.
LEMMA WholeKeeps ==
  ASSUME OutInv, NEW status \in Statuses, UNCHANGED <<conn, stream, trip>>,
         out' = Append(out, [NewSpan("rpc.client", Root, stream.text)
                               EXCEPT !.status = status, !.finished = 1])
  PROVE  OutInv'
<1> DEFINE n == [NewSpan("rpc.client", Root, stream.text) EXCEPT !.status = status, !.finished = 1]
<1>1. /\ conn \in ConnType /\ stream \in StreamType /\ trip \in TripType /\ Released
      /\ out \in Seq(SpanRecord) /\ Len(out) \in Nat
  BY OutTypes, OutFacts DEF OutInv
<1>2. n \in SpanRecord /\ n.finished = 1
  <2>1. NewSpan("rpc.client", Root, stream.text) \in SpanRecord
    BY NewSpanType, OutFacts DEF Root, Ops
  <2> QED
    BY <2>1 DEF SpanRecord
<1> HIDE DEF n
<1>3. Grown(n)
  BY <1>1, <1>2, Grows DEF n
<1>4. StillInHand' = StillInHand
  BY DEF StillInHand, InUse
<1>5. /\ Tidy' /\ Len(out') >= 1 /\ out'[1].finished = 0 /\ out' \in Seq(SpanRecord)
      /\ \A s \in 1 .. Len(out) : out'[s] = out[s]
  BY <1>2, <1>3, <1>4, Bounded, GrowTidy
<1>6. Stays
  BY <1>1, <1>3, <1>5, ForKept DEF Stays, NextFor
<1>7. HeldApart'
  BY <1>6, KeepsFor, HeldNext
<1>8. Released'
  BY <1>1 DEF Released
<1>9. OutType'
  BY <1>1, <1>5, OutTypesNext
<1>10. StreamOver'
  BY <1>5, OverKept
<1> QED
  BY <1>5, <1>7, <1>8, <1>9, <1>10, OutPartsNext

LEMMA OpenStreamKeeps ==
  ASSUME OutInv, stream.at = "idle", UNCHANGED <<conn, trip>>, NEW serverStreams \in BOOLEAN,
         out' = Append(out, NewSpan("rpc.client", Root, stream.text)),
         stream' = [stream EXCEPT !.at = "open", !.span = Len(out) + 1,
                                  !.serverStreams = serverStreams,
                                  !.monitor = IF stream.ended THEN "running" ELSE "armed"]
  PROVE  OutInv'
<1>1. /\ conn \in ConnType /\ stream \in StreamType /\ trip \in TripType /\ Released
      /\ "rpc.client" \in Ops /\ Root \in Nat /\ stream.text \in Text /\ Len(out) \in Nat
  BY OutTypes, OutFacts DEF OutInv, Ops, Root
<1>2. StartSpan("rpc.client", Root, stream.text) /\ Started(Root) = Len(out) + 1
  BY DEF StartSpan, Started, Root, NoSpan
<1>3. /\ stream'.at = "open" /\ stream'.span = Len(out) + 1 /\ stream'.once = "nobody"
      /\ stream.once = "nobody" /\ stream.span = NoSpan
  BY <1>1 DEF StreamType, Released
<1>4. \A s : s # NoSpan => (s \in StillInHand' <=> s \in StillInHand \/ s = Started(Root))
  BY <1>2, <1>3 DEF StillInHand, InUse
<1>5. Stays /\ NextFor(Started(Root), "rpc.client")
  BY <1>1, <1>2, <1>4, StartKeeps
<1>6. HeldApart'
  BY <1>2, <1>3, <1>5, KeepsFor, HeldNext
<1>7. Released'
  BY <1>1, <1>3 DEF Released, NoSpan
<1>8. OutType'
  <2> DEFINE monitor == IF stream.ended THEN "running" ELSE "armed"
  <2>1. monitor \in {"none", "armed", "running", "stopped"} /\ Len(out) + 1 \in Nat
    BY <1>1
  <2>2. stream' = [stream EXCEPT !.at = "open", !.span = Len(out) + 1,
                                 !.serverStreams = serverStreams, !.monitor = monitor]
    OBVIOUS
  <2> HIDE DEF monitor
  <2>3. stream' \in StreamType
    BY <1>1, <2>1, <2>2 DEF StreamType
  <2> QED
    BY <1>1, <1>5, <2>3, KeepsFor, OutTypesNext
<1>9. StreamOver'
  BY <1>3 DEF StreamOver
<1> QED
  BY <1>5, <1>6, <1>7, <1>8, <1>9, KeepsFor, OutPartsNext

\* A step of the stream that leaves the spans alone, and the stream's in hand or out of it.
LEMMA StreamKeeps ==
  ASSUME OutInv, UNCHANGED <<out, conn, trip>>, stream' \in StreamType, stream'.span = stream.span,
         stream'.once = "done" <=> stream.once = "done",
         stream'.once = "done" => stream'.first = stream.first /\ stream'.monitor # "armed",
         Released'
  PROVE  OutInv'
<1>1. conn \in ConnType /\ trip \in TripType /\ StreamOver
  BY OutTypes, OutParts
<1>2. StillInHand' = StillInHand
  BY DEF StillInHand, InUse
<1>3. Stays
  BY <1>2, StillKeeps
<1>4. HeldApart'
  BY <1>3, KeepsFor, HeldNext
<1>5. StreamOver'
  BY <1>1 DEF StreamOver
<1>6. OutType'
  BY <1>1, <1>3, KeepsFor, OutTypesNext
<1> QED
  BY <1>3, <1>4, <1>5, <1>6, KeepsFor, OutPartsNext

LEMMA StreamFacts ==
  ASSUME OutInv
  PROVE  /\ stream \in StreamType /\ Released /\ (stream.once = "done" => stream.monitor # "armed")
         /\ \A u \in Users : Busy(u) => stream.at = "open"
         /\ \A u \in Users : u # "done" /\ u # "nobody" /\ stream.user[u] \in Statuses
BY OutTypes, OutParts DEF StreamOver, Released, Busy, Users, StreamType

LEMMA WantsKeeps ==
  ASSUME OutInv, NEW u \in Users, NEW status \in Statuses, stream.at = "open", Wants(u, status),
         UNCHANGED <<out, conn, trip>>
  PROVE  OutInv'
<1>1. stream \in StreamType /\ Released /\ (stream.once = "done" => stream.monitor # "armed")
  BY StreamFacts
<1>2. stream' = [stream EXCEPT !.user = [stream.user EXCEPT ![u] = status]]
  BY <1>1 DEF Wants, StreamType
<1>3. [stream.user EXCEPT ![u] = status] \in [Users -> Statuses]
  BY <1>1 DEF StreamType
<1>4. stream' \in StreamType
  BY <1>1, <1>2, <1>3 DEF StreamType
<1>5. /\ stream'.span = stream.span /\ stream'.once = stream.once /\ stream'.first = stream.first
      /\ stream'.monitor = stream.monitor /\ stream'.at = stream.at
  BY <1>1, <1>2 DEF StreamType
<1>6. Released'
  BY <1>1, <1>5 DEF Released
<1> QED
  BY <1>1, <1>4, <1>5, <1>6, StreamKeeps

LEMMA CancelKeeps ==
  ASSUME OutInv, Cancel
  PROVE  OutInv'
<1>1. stream \in StreamType /\ Released /\ (stream.once = "done" => stream.monitor # "armed")
  BY StreamFacts
<1>2. stream' = [stream EXCEPT !.ended = TRUE,
                               !.monitor = IF stream.monitor = "armed" THEN "running" ELSE stream.monitor]
  BY <1>1 DEF Cancel, StreamType
<1>3. stream' \in StreamType
  BY <1>1, <1>2 DEF StreamType
<1>4. /\ stream'.span = stream.span /\ stream'.once = stream.once /\ stream'.first = stream.first
      /\ stream'.at = stream.at /\ stream'.user = stream.user
      /\ stream'.monitor = IF stream.monitor = "armed" THEN "running" ELSE stream.monitor
  BY <1>1, <1>2 DEF StreamType
<1>5. UNCHANGED <<out, conn, trip>>
  BY DEF Cancel
<1>6. Released'
  BY <1>1, <1>4, <1>5 DEF Released
<1> QED
  BY <1>1, <1>3, <1>4, <1>5, <1>6, StreamKeeps

LEMMA EnterFinishKeeps ==
  ASSUME OutInv, NEW u \in Users, EnterFinish(u)
  PROVE  OutInv'
<1>1. /\ stream \in StreamType /\ Released /\ stream.at = "open" /\ u # "done"
      /\ stream.once = "nobody" /\ stream' = [stream EXCEPT !.once = u] /\ UNCHANGED <<out, conn, trip>>
  BY StreamFacts DEF EnterFinish
<1>2. stream' \in StreamType
  BY <1>1 DEF StreamType
<1>3. stream'.span = stream.span /\ stream'.once = u /\ stream'.at = stream.at
  BY <1>1 DEF StreamType
<1>4. Released'
  BY <1>1, <1>3 DEF Released
<1> QED
  BY <1>1, <1>2, <1>3, <1>4, StreamKeeps

LEMMA LeaveFinishKeeps ==
  ASSUME OutInv, NEW u \in Users, LeaveFinish(u)
  PROVE  OutInv'
<1> DEFINE others == [stream.user EXCEPT ![u] = "idle"]
           monitor == IF u = "monitor" THEN "stopped" ELSE stream.monitor
<1>1. /\ stream \in StreamType /\ Released /\ stream.at = "open"
      /\ stream.once = "done" /\ stream.monitor # "armed" /\ UNCHANGED <<out, conn, trip>>
  BY StreamFacts DEF LeaveFinish
<1>2. stream' = [stream EXCEPT !.user = others, !.monitor = monitor]
  BY <1>1 DEF LeaveFinish, StreamType
<1>3. /\ others \in [Users -> Statuses] /\ monitor \in {"none", "armed", "running", "stopped"}
      /\ monitor # "armed"
  BY <1>1 DEF StreamType, Statuses
<1> HIDE DEF others, monitor
<1>4. stream' \in StreamType
  BY <1>1, <1>2, <1>3 DEF StreamType
<1>5. /\ stream'.span = stream.span /\ stream'.once = stream.once /\ stream'.at = stream.at
      /\ stream'.first = stream.first /\ stream'.monitor = monitor
  BY <1>1, <1>2 DEF StreamType
<1>6. Released'
  BY <1>1, <1>5 DEF Released
<1> QED
  BY <1>1, <1>3, <1>4, <1>5, <1>6, StreamKeeps

LEMMA RunFinishKeeps ==
  ASSUME OutInv, NEW u \in Users, RunFinish(u)
  PROVE  OutInv'
<1> DEFINE status == stream.user[u]
           others == [stream.user EXCEPT ![u] = "idle"]
           monitor == IF u = "monitor" \/ stream.monitor = "armed" THEN "stopped" ELSE stream.monitor
<1>1. /\ conn \in ConnType /\ trip \in TripType /\ HeldApart /\ stream.span \in Nat
      /\ stream \in StreamType /\ Released /\ stream.at = "open" /\ stream.once # "done"
      /\ status \in Statuses /\ UNCHANGED <<conn, trip>> /\ Finish(stream.span, status)
  BY OutTypes, OutFacts, OutParts, StreamFacts DEF RunFinish
<1>2. stream' = [stream EXCEPT !.once = "done", !.user = others, !.first = status, !.monitor = monitor]
  BY <1>1 DEF RunFinish, StreamType
<1>3. /\ others \in [Users -> Statuses] /\ monitor \in {"none", "armed", "running", "stopped"}
      /\ monitor # "armed"
  BY <1>1 DEF StreamType, Statuses
<1> HIDE DEF others, monitor, status
<1>4. stream' \in StreamType
  BY <1>1, <1>2, <1>3 DEF StreamType
<1>5. /\ stream'.span = stream.span /\ stream'.once = "done" /\ stream'.at = stream.at
      /\ stream'.first = status /\ stream'.monitor = monitor
  BY <1>1, <1>2 DEF StreamType
<1>6. stream.span # NoSpan
  BY <1>1 DEF Released
<1>7. \A s : s # NoSpan => (s \in StillInHand' <=> s \in StillInHand /\ s # stream.span)
  BY <1>1, <1>5, OneHand DEF StillInHand, InUse
<1>8. stream.span \in StillInHand /\ For(stream.span, "rpc.client")
  BY <1>1 DEF StillInHand, InUse, HeldApart
<1>9. Stays /\ out'[stream.span].status = status
  BY <1>1, <1>6, <1>7, <1>8, FinishKeeps
<1>10. HeldApart'
  BY <1>1, <1>5, <1>9, KeepsFor, HeldNext
<1>11. Released'
  BY <1>1, <1>5 DEF Released
<1>12. OutType'
  BY <1>1, <1>4, <1>9, KeepsFor, OutTypesNext
<1>13. StreamOver'
  BY <1>3, <1>5, <1>9 DEF StreamOver
<1> QED
  BY <1>9, <1>10, <1>11, <1>12, <1>13, KeepsFor, OutPartsNext

LEMMA InitHolds ==
  ASSUME OutInit
  PROVE  OutInv
<1> DEFINE empty == [tokens |-> <<>>, out |-> <<>>, sqlite |-> FALSE]
           root == NewSpan("root", NoSpan, empty)
<1>1. root \in SpanRecord /\ root.finished = 0 /\ empty \in Text
  BY EmptyText, NewSpanType DEF NoSpan, Ops
<1>2. out = <<root>> /\ trip = [at |-> "idle", span |-> NoSpan, text |-> empty]
  BY DEF OutInit
<1>3. stream = [at |-> "idle", span |-> NoSpan, serverStreams |-> FALSE, ended |-> FALSE,
                monitor |-> "none", user |-> [u \in Users |-> "idle"], once |-> "nobody",
                first |-> "", text |-> empty]
  BY DEF OutInit
<1>4. conn \in [at : {"idle"}, tx : {NoSpan}, open : {FALSE}, began : {NoSpan}, using : {NoSpan},
                skipped : {{}}, sqlite : BOOLEAN]
  BY DEF OutInit
<1> HIDE DEF root, empty
<1>5. out \in Seq(SpanRecord) /\ Len(out) = 1 /\ out[1].finished = 0
  BY <1>1, <1>2
<1>6. conn \in ConnType
  <2>1. PICK sqlite \in BOOLEAN : conn = [at |-> "idle", tx |-> NoSpan, open |-> FALSE,
            began |-> NoSpan, using |-> NoSpan, skipped |-> {}, sqlite |-> sqlite]
    BY <1>4
  <2>2. NoSpan \in Nat /\ {} \in SUBSET Nat
    BY DEF NoSpan
  <2> QED
    BY <2>1, <2>2 DEF ConnType
<1>r. conn.at = "idle" /\ conn.tx = NoSpan /\ conn.open = FALSE
      /\ conn.using = NoSpan /\ conn.skipped = {}
  BY <1>4
<1>7. trip \in TripType /\ trip.at = "idle" /\ trip.span = NoSpan
  BY <1>1, <1>2 DEF TripType, NoSpan
<1>8. stream \in StreamType
  <2>1. [u \in Users |-> "idle"] \in [Users -> Statuses] /\ "" \in Statuses
    BY DEF Statuses
  <2> QED
    BY <1>1, <1>3, <2>1 DEF StreamType, NoSpan
<1>9. /\ stream.at = "idle" /\ stream.span = NoSpan /\ stream.monitor = "none"
      /\ stream.once = "nobody" /\ \A u \in Users : stream.user[u] = "idle"
  BY <1>3
<1>10. OutType
  BY <1>5, <1>6, <1>7, <1>8, OutTypes
<1>11. HeldApart
  BY <1>r, <1>7, <1>9 DEF HeldApart, For
<1>12. Released
  BY <1>r, <1>7, <1>9 DEF Released
<1>13. Tidy /\ StreamOver
  <2>1. \A s \in 2 .. 1 : FALSE
    OBVIOUS
  <2> QED
    BY <1>5, <1>9, <2>1 DEF Tidy, StreamOver
<1> QED
  BY <1>5, <1>10, <1>11, <1>12, <1>13, OutParts

LEMMA SqlKeeps ==
  ASSUME OutInv, Sql
  PROVE  OutInv'
BY BeginTxKeeps, StartQueryKeeps, EndQueryKeeps, EndTxKeeps DEF Sql

LEMMA GrpcKeeps ==
  ASSUME OutInv, Grpc
  PROVE  OutInv'
<1>1. CASE StreamClientInterceptor
  <2>1. CASE out' = Append(out, [NewSpan("rpc.client", Root, stream.text)
                                   EXCEPT !.status = "failed", !.finished = 1])
             /\ UNCHANGED stream
    <3>1. "failed" \in Statuses /\ UNCHANGED <<conn, stream, trip>>
      BY <1>1, <2>1 DEF StreamClientInterceptor, Statuses
    <3> QED
      BY <2>1, <3>1, WholeKeeps
  <2>2. ASSUME NEW serverStreams \in BOOLEAN,
               out' = Append(out, NewSpan("rpc.client", Root, stream.text)),
               stream' = [stream EXCEPT !.at = "open", !.span = Len(out) + 1,
                                        !.serverStreams = serverStreams,
                                        !.monitor = IF stream.ended THEN "running" ELSE "armed"]
        PROVE  OutInv'
    <3>1. stream.at = "idle" /\ UNCHANGED <<conn, trip>>
      BY <1>1 DEF StreamClientInterceptor
    <3> QED
      BY <2>2, <3>1, OpenStreamKeeps
  <2> QED
    BY <1>1, <2>1, <2>2 DEF StreamClientInterceptor
<1>2. CASE Cancel
  BY <1>2, CancelKeeps
<1>3. CASE Monitor
  <2>1. /\ "canceled" \in Statuses /\ "monitor" \in Users /\ Wants("monitor", "canceled")
        /\ UNCHANGED <<out, conn, trip>> /\ stream.monitor = "running"
    BY <1>3 DEF Monitor, Statuses, Users
  <2>2. stream.at = "open"
    BY <2>1, StreamFacts DEF Released, StreamType
  <2> QED
    BY <2>1, <2>2, WantsKeeps
<1>4. CASE SendMsg("error")
  <2>1. /\ "failed" \in Statuses /\ "send" \in Users /\ Wants("send", "failed")
        /\ UNCHANGED <<out, conn, trip>> /\ stream.at = "open"
    BY <1>4 DEF SendMsg, Statuses, Users
  <2> QED
    BY <2>1, WantsKeeps
<1>5. ASSUME NEW status \in {"ok", "failed"}, UnaryClientInterceptor(status)
      PROVE  OutInv'
  <2>1. status \in Statuses
    BY DEF Statuses
  <2> QED
    BY <1>5, <2>1, WholeKeeps DEF UnaryClientInterceptor
<1>6. ASSUME NEW answer \in {"error", "EOF", "message"}, RecvMsg(answer)
      PROVE  OutInv'
  <2>1. stream.at = "open" /\ UNCHANGED <<out, conn, trip>> /\ "recv" \in Users
    BY <1>6 DEF RecvMsg, Users
  <2>2. Wants("recv", "failed") \/ Wants("recv", "ok")
    BY <1>6 DEF RecvMsg
  <2>3. "failed" \in Statuses /\ "ok" \in Statuses
    BY DEF Statuses
  <2> QED
    BY <2>1, <2>2, <2>3, WantsKeeps
<1>7. ASSUME NEW u \in Users, EnterFinish(u) \/ RunFinish(u) \/ LeaveFinish(u)
      PROVE  OutInv'
  BY <1>7, EnterFinishKeeps, RunFinishKeeps, LeaveFinishKeeps
<1> QED
  BY <1>1, <1>2, <1>3, <1>4, <1>5, <1>6, <1>7 DEF Grpc

LEMMA OutNextKeeps ==
  ASSUME OutInv, OutNext
  PROVE  OutInv'
<1>1. ASSUME Http PROVE OutInv'
  <2>1. {"ok", "internal_error", ""} \subseteq Statuses
    BY Zenon DEF Statuses
  <2> QED
    BY <1>1, <2>1, RoundTripKeeps, RespondKeeps DEF Http
<1> QED
  BY <1>1, SqlKeeps, GrpcKeeps DEF OutNext

\* Outgoing: the inductive invariant.  Who works on a span, the connection's transaction,
\* its query, the request and the stream, holds one of its own kind, so that no two hold
\* the same; what is over holds none; and a span is unfinished as long as it is held.
THEOREM OutInvariance == OutSpec => []OutInv
<1>1. OutInv /\ UNCHANGED outVars => OutInv'
  <2> SUFFICES ASSUME OutInv, UNCHANGED outVars PROVE OutInv'
    OBVIOUS
  <2> USE DEF outVars
  <2> QED
    BY DEF OutInv, OutType, HeldApart, For, Released, FinishedOnce, InUse
<1> QED
  BY <1>1, InitHolds, OutNextKeeps, PTL DEF OutSpec

\* Outgoing: no span is finished twice, none that nothing uses any more is left open but
\* for queries the driver skipped, a stream's has the status of whoever of its users and
\* its monitor came first, and no monitor stays behind, however many spans there are.
THEOREM SpansFinishedOnce == OutSpec => []FinishedOnce
<1>1. OutInv => FinishedOnce
  BY DEF OutInv
<1> QED
  BY <1>1, OutInvariance, PTL

-----------------------------------------------------------------------------
NewSpans == DOMAIN out' \ DOMAIN out

LEMMA NewIsLast ==
  ASSUME out \in Seq(SpanRecord), NEW n, Grown(n), NEW s \in NewSpans
  PROVE  out'[s] = n
<1>1. Len(out) \in Nat /\ DOMAIN out = 1 .. Len(out) /\ DOMAIN out' = 1 .. Len(out) + 1
  BY DEF Grown
<1>2. s = Len(out) + 1
  BY <1>1 DEF NewSpans
<1> QED
  BY <1>2 DEF Grown

LEMMA FinishAddsNone ==
  ASSUME OutInv, NEW s \in Nat, NEW op, For(s, op), NEW status \in Statuses, Finish(s, status)
  PROVE  NewSpans = {}
<1>1. out \in Seq(SpanRecord) /\ Len(out) \in Nat
  BY OutFacts
<1>2. s = NoSpan \/ s \in 1 .. Len(out)
  BY <1>1 DEF For
<1>3. Ends(s, status)
  BY <1>1, <1>2, Finishes
<1>4. DOMAIN out' = DOMAIN out
  BY <1>1, <1>3 DEF Ends
<1> QED
  BY <1>4 DEF NewSpans

LEMMA StartAddsOne ==
  ASSUME OutInv, NEW op \in Ops, NEW parent \in Nat, NEW text \in Text, StartSpan(op, parent, text)
  PROVE  \A s \in NewSpans : parent # NoSpan /\ out'[s].op = op /\ out'[s].parent = parent
<1>1. out \in Seq(SpanRecord)
  BY OutFacts
<1>2. CASE parent = NoSpan
  <2>1. UNCHANGED out
    BY <1>1, <1>2, Starts
  <2> QED
    BY <2>1 DEF NewSpans
<1>3. CASE parent # NoSpan
  <2>1. Grown(NewSpan(op, parent, text))
    BY <1>1, <1>3, Starts
  <2> QED
    BY <1>1, <1>3, <2>1, NewIsLast, NewSpanType
<1> QED
  BY <1>2, <1>3

\* The queries started by a step are children of what is not finished, and of the
\* transaction that is open.
AtHome ==
  \A s \in NewSpans : out'[s].op = "query" =>
    /\ out[out'[s].parent].finished = 0
    /\ conn.open /\ conn.began # NoSpan => out'[s].parent = conn.began

LEMMA StartQueryAtHome ==
  ASSUME OutInv, NEW ctx \in {NoSpan, Root}, NEW tokens \in Queries, StartQuery(ctx, tokens)
  PROVE  AtHome
<1> DEFINE text == [tokens |-> tokens, out |-> ObfuscateQuery(tokens, conn.sqlite), sqlite |-> conn.sqlite]
           parent == SpanParent(ctx)
<1>1. parent \in Nat /\ text \in Text /\ StartSpan("query", parent, text) /\ "query" \in Ops
  <2>1. parent \in Nat
    BY OutFacts DEF SpanParent, SpanOrNil, NoSpan, Root
  <2>2. text \in Text
    BY OutFacts DEF Text
  <2> QED
    BY <2>1, <2>2 DEF StartQuery, Ops
<1>2. ASSUME parent # NoSpan PROVE out[parent].finished = 0
  <2>1. CASE conn.tx # NoSpan
    <3>1. parent = conn.tx /\ conn.tx \in StillInHand
      BY <2>1 DEF SpanParent, SpanOrNil, StillInHand, InUse
    <3>2. conn.tx \in 2 .. Len(out) /\ Tidy
      BY <2>1, OutParts DEF HeldApart, For
    <3> QED
      BY <3>1, <3>2 DEF Tidy
  <2>2. CASE conn.tx = NoSpan
    <3>1. parent = 1
      BY <1>2, <2>2 DEF SpanParent, SpanOrNil, Root
    <3> QED
      BY <3>1 DEF OutInv
  <2> QED
    BY <2>1, <2>2
<1>3. conn.open /\ conn.began # NoSpan => parent = conn.began
  BY DEF OutInv, Released, SpanParent, SpanOrNil
<1> HIDE DEF text, parent
<1>4. \A s \in NewSpans : parent # NoSpan /\ out'[s].parent = parent
  BY <1>1, StartAddsOne
<1> QED
  BY <1>2, <1>3, <1>4 DEF AtHome

LEMMA SqlAtHome ==
  ASSUME OutInv, Sql
  PROVE  AtHome
<1>1. ASSUME NEW ctx \in {NoSpan, Root}, BeginTx(ctx) PROVE AtHome
  <2> DEFINE text == [tokens |-> <<>>, out |-> <<>>, sqlite |-> FALSE]
  <2>1. ctx \in Nat /\ text \in Text /\ "transaction" \in Ops /\ StartSpan("transaction", ctx, text)
    BY <1>1, EmptyText DEF BeginTx, NoSpan, Root, Ops
  <2> HIDE DEF text
  <2>2. \A s \in NewSpans : out'[s].op = "transaction"
    BY <2>1, StartAddsOne
  <2> QED
    BY <2>2 DEF AtHome
<1>2. ASSUME NEW outcome \in {"ok", "error", "skip"}, EndQuery(outcome) PROVE AtHome
  <2>1. CASE outcome = "skip"
    BY <1>2, <2>1 DEF EndQuery, AtHome, NewSpans
  <2>2. CASE outcome # "skip"
    <3> DEFINE status == IF outcome = "ok" THEN "ok" ELSE "internal_error"
    <3>1. Finish(conn.using, status) /\ status \in Statuses /\ For(conn.using, "query")
      BY <1>2, <2>2, OutParts DEF EndQuery, Statuses, HeldApart
    <3> HIDE DEF status
    <3> QED
      BY <3>1, FinishAddsNone, OutFacts DEF AtHome
  <2> QED
    BY <2>1, <2>2
<1>3. ASSUME NEW status \in {"ok", "aborted", "internal_error"}, EndTx(status) PROVE AtHome
  <2>1. Finish(conn.tx, status) /\ status \in Statuses /\ For(conn.tx, "transaction")
    BY <1>3, OutParts DEF EndTx, Statuses, HeldApart
  <2> QED
    BY <2>1, FinishAddsNone, OutFacts DEF AtHome
<1> QED
  BY <1>1, <1>2, <1>3, StartQueryAtHome DEF Sql

LEMMA HttpAtHome ==
  ASSUME OutInv, Http
  PROVE  AtHome
<1>1. ASSUME NEW ctx \in {NoSpan, Root}, NEW targets \in BOOLEAN, RoundTrip(ctx, targets) PROVE AtHome
  <2> DEFINE parent == IF targets THEN ctx ELSE NoSpan
  <2>1. parent \in Nat /\ "http.client" \in Ops /\ StartSpan("http.client", parent, trip.text)
    BY <1>1 DEF RoundTrip, NoSpan, Root, Ops
  <2> HIDE DEF parent
  <2>2. \A s \in NewSpans : out'[s].op = "http.client"
    BY <2>1, StartAddsOne, OutFacts
  <2> QED
    BY <2>2 DEF AtHome
<1>2. ASSUME NEW status \in Statuses, Respond(status) PROVE AtHome
  <2>1. Finish(trip.span, status) /\ For(trip.span, "http.client")
    BY <1>2, OutParts DEF Respond, HeldApart
  <2> QED
    BY <2>1, FinishAddsNone, OutFacts DEF AtHome
<1>3. {"ok", "internal_error", ""} \subseteq Statuses
  BY Zenon DEF Statuses
<1> QED
  BY <1>1, <1>2, <1>3 DEF Http

LEMMA GrpcAtHome ==
  ASSUME OutInv, Grpc
  PROVE  AtHome
<1> DEFINE new == NewSpan("rpc.client", Root, stream.text)
<1>1. new \in SpanRecord /\ new.op = "rpc.client" /\ out \in Seq(SpanRecord)
  BY NewSpanType, OutFacts DEF Root, Ops
<1>2. ASSUME NEW n \in SpanRecord, n.op = "rpc.client", out' = Append(out, n) PROVE AtHome
  <2>1. \A s \in NewSpans : out'[s] = n
    BY <1>1, <1>2, Grows, NewIsLast
  <2> QED
    BY <1>2, <2>1 DEF AtHome
<1>3. ASSUME NEW status \in Statuses,
             out' = Append(out, [new EXCEPT !.status = status, !.finished = 1])
      PROVE  AtHome
  <2> DEFINE n == [new EXCEPT !.status = status, !.finished = 1]
  <2> HIDE DEF new
  <2>1. n \in SpanRecord /\ n.op = "rpc.client"
    BY <1>1 DEF SpanRecord
  <2> QED
    BY <1>2, <1>3, <2>1
<1>4. ASSUME UNCHANGED out PROVE AtHome
  BY <1>4 DEF AtHome, NewSpans
<1>5. ASSUME StreamClientInterceptor PROVE AtHome
  <2>1. \/ out' = Append(out, [new EXCEPT !.status = "failed", !.finished = 1])
        \/ out' = Append(out, new)
    BY <1>5 DEF StreamClientInterceptor
  <2>2. "failed" \in Statuses
    BY DEF Statuses
  <2> QED
    BY <1>1, <1>2, <1>3, <2>1, <2>2
<1>6. ASSUME NEW status \in {"ok", "failed"}, UnaryClientInterceptor(status) PROVE AtHome
  <2>1. status \in Statuses
    BY DEF Statuses
  <2> QED
    BY <1>3, <1>6, <2>1 DEF UnaryClientInterceptor
<1>7. ASSUME NEW u \in Users, RunFinish(u) PROVE AtHome
  <2>1. Finish(stream.span, stream.user[u]) /\ stream.user[u] \in Statuses /\ For(stream.span, "rpc.client")
    BY <1>7, OutParts, StreamFacts DEF RunFinish, HeldApart
  <2> QED
    BY <2>1, FinishAddsNone, OutFacts DEF AtHome
<1>8. Cancel \/ Monitor \/ SendMsg("error") => UNCHANGED out
  BY DEF Cancel, Monitor, SendMsg
<1>9. \A answer \in {"error", "EOF", "message"} : RecvMsg(answer) => UNCHANGED out
  BY DEF RecvMsg
<1>10. \A u \in Users : EnterFinish(u) \/ LeaveFinish(u) => UNCHANGED out
  BY DEF EnterFinish, LeaveFinish
<1> HIDE DEF new
<1> QED
  BY <1>4, <1>5, <1>6, <1>7, <1>8, <1>9, <1>10 DEF Grpc

\* Outgoing: a query is a child of the transaction that is open on its connection, and of
\* nothing that is finished, whoever used the connection before.
THEOREM QueriesAtHome == OutSpec => QueryHome
<1> DEFINE Home == \A s \in DOMAIN out' \ DOMAIN out : Queried(s)' =>
                     /\ out[out'[s].parent].finished = 0
                     /\ conn.open /\ conn.began # NoSpan => out'[s].parent = conn.began
<1>1. OutInv /\ [OutNext]_outVars => [Home]_outVars
  <2>1. OutInv /\ OutNext => AtHome
    BY SqlAtHome, HttpAtHome, GrpcAtHome DEF OutNext
  <2>2. AtHome => Home
    BY DEF AtHome, NewSpans, Queried
  <2> QED
    BY <2>1, <2>2
<1>2. [][Home]_outVars => QueryHome
  BY DEF QueryHome
<1> HIDE DEF Home
<1> QED
  BY <1>1, <1>2, OutInvariance, PTL DEF OutSpec

-----------------------------------------------------------------------------
\* Outgoing: the text of a query shows no literal, keeps its other words in their order,
\* and every dot but those that SQLite's quoted words swallow, whatever its tokens are.
THEOREM TextsKept == OutSpec => []TextKept
<1>1. ASSUME NEW text \in Text
      PROVE  LET words == Without(text.tokens, {Comment})
                 lost == Literal \cup {Comment} \cup (IF text.sqlite THEN {"quoted"} ELSE {})
                 others == lost \cup {Mark, Dot}
             IN /\ ToSet(text.out) \cap lost = {}
                /\ Without(text.out, others) = Without(text.tokens, others)
                /\ Cardinality(DotsOf(text.out)) >= Cardinality(Due(words, Before(text.sqlite)))
  <2>1. PICK q \in Queries \cup {<<>>}, b \in BOOLEAN :
          text = [tokens |-> q, out |-> ObfuscateQuery(q, b), sqlite |-> b]
    BY DEF Text
  <2>2. q \in Seq(Words)
    <3>0. <<>> \in Seq(STRING) /\ Queries \subseteq Seq(STRING)
      BY QueriesAssumption DEF QueriesAssumption
    <3>1. q \in Seq(STRING)
      BY <3>0
    <3> QED
      BY <3>1 DEF Words
  <2>3. /\ ToSet(ObfuscateQuery(q, b)) \cap Lost(b) = {}
        /\ Without(ObfuscateQuery(q, b), Lost(b) \cup {Mark, Dot}) = Without(q, Lost(b) \cup {Mark, Dot})
        /\ Cardinality(DotsOf(ObfuscateQuery(q, b))) >= Cardinality(Due(Spoken(q), Before(b)))
    BY <2>2, QueryObfuscated
  <2> QED
    BY <2>1, <2>3 DEF Lost, Spoken
<1>2. OutInv => TextKept
  <2> SUFFICES ASSUME OutInv, NEW s \in DOMAIN out
               PROVE  LET text == out[s].text
                          words == Without(text.tokens, {Comment})
                          before == IF text.sqlite THEN {"quoted", "string", Dot} ELSE {}
                          lost == Literal \cup {Comment} \cup (IF text.sqlite THEN {"quoted"} ELSE {})
                          others == lost \cup {Mark, Dot}
                          joining == {i \in 1 .. (Len(words) - 1) : words[i] = Dot /\ words[i + 1] \in before}
                          dots(w) == {i \in DOMAIN w : w[i] = Dot}
                      IN /\ ToSet(text.out) \cap lost = {}
                         /\ Without(text.out, others) = Without(text.tokens, others)
                         /\ Cardinality(dots(text.out)) >= Cardinality(dots(words) \ joining)
    BY DEF TextKept
  <2>1. out[s] \in SpanRecord
    BY OutFacts
  <2>2. out[s].text \in Text
    BY <2>1 DEF SpanRecord
  <2> QED
    BY <2>2, <1>1 DEF DotsOf, Due, Joining, Before
<1> QED
  BY <1>2, OutInvariance, PTL

-----------------------------------------------------------------------------
(* The loggers.  What is still to be done with a record says how far the    *)
(* hooks have come with it, and so what has been captured.                  *)

\* What a goroutine does with a record.
Doing == {"gather", "log", "metric", "extract", "event", "invalid", "crumb", "flush", "panic", "exit"}

Push(x, s) == <<x>> \o s

\* u is s and then t.
IsJoin(X, s, t, u) ==
  /\ u \in Seq(X) /\ Len(u) = Len(s) + Len(t)
  /\ \A i \in 1 .. Len(s) : u[i] = s[i]
  /\ \A i \in 1 .. Len(t) : u[Len(s) + i] = t[i]

LEMMA JoinLaws ==
  ASSUME NEW X, NEW s \in Seq(X), NEW t \in Seq(X)
  PROVE  IsJoin(X, s, t, s \o t)
<1>1. s \o t \in Seq(X) /\ Len(s \o t) = Len(s) + Len(t)
  OBVIOUS
<1>2. \A i \in 1 .. Len(s) : (s \o t)[i] = s[i]
  OBVIOUS
<1>3. ASSUME NEW i \in 1 .. Len(t)
      PROVE  (s \o t)[Len(s) + i] = t[i]
  OBVIOUS
<1> QED
  BY <1>1, <1>2, <1>3 DEF IsJoin

IsPush(X, x, s, u) ==
  /\ u \in Seq(X) /\ Len(u) = Len(s) + 1 /\ u[1] = x
  /\ \A i \in 1 .. Len(s) : u[i + 1] = s[i]

LEMMA PushIs ==
  ASSUME NEW X, NEW x \in X, NEW s \in Seq(X)
  PROVE  IsPush(X, x, s, Push(x, s))
<1> DEFINE o == <<x>>
<1>1. o \in Seq(X) /\ Len(o) = 1 /\ o[1] = x
  OBVIOUS
<1>2. Push(x, s) = o \o s
  BY DEF Push
<1> HIDE DEF o
<1>3. IsJoin(X, o, s, o \o s)
  BY <1>1, JoinLaws
<1> DEFINE u == o \o s
<1> HIDE DEF u
<1>4. /\ u \in Seq(X) /\ Len(u) = Len(s) + 1 /\ u[1] = x
      /\ \A i \in 1 .. Len(s) : u[1 + i] = s[i]
  BY <1>1, <1>3 DEF IsJoin, u
<1> QED
  BY <1>2, <1>4 DEF IsPush, u

LEMMA PushLaws ==
  ASSUME NEW X, NEW x \in X, NEW s \in Seq(X)
  PROVE  /\ Push(x, s) \in Seq(X) /\ Push(x, s) # <<>>
         /\ Head(Push(x, s)) = x /\ Tail(Push(x, s)) = s
<1> DEFINE p == Push(x, s)
<1>1. /\ p \in Seq(X) /\ Len(p) = Len(s) + 1 /\ p[1] = x
      /\ \A i \in 1 .. Len(s) : p[i + 1] = s[i]
  BY PushIs DEF IsPush
<1> HIDE DEF p
<1>2. p # <<>> /\ Head(p) = x
  BY <1>1
<1>3. Tail(p) \in Seq(X) /\ Len(Tail(p)) = Len(s)
  BY <1>1, <1>2
<1>4. \A i \in 1 .. Len(s) : Tail(p)[i] = p[i + 1]
  BY <1>1, <1>2, <1>3
<1>5. Tail(p) = s
  BY <1>1, <1>3, <1>4
<1> QED
  BY <1>1, <1>2, <1>5 DEF p

LEMMA PushJoins ==
  ASSUME NEW X, NEW x \in X, NEW s \in Seq(X)
  PROVE  <<x>> \o s = Push(x, s) /\ <<>> \o s = s
<1> DEFINE o == <<>>
<1>1. o \in Seq(X) /\ Len(o) = 0
  OBVIOUS
<1>2. <<>> \o s = s
  <2> HIDE DEF o
  <2>1. IsJoin(X, o, s, o \o s)
    BY <1>1, JoinLaws
  <2>2. o \o s = s
    BY <1>1, <2>1 DEF IsJoin
  <2> QED
    BY <2>2 DEF o
<1> QED
  BY <1>2 DEF Push

LEMMA PushTwo ==
  ASSUME NEW X, NEW x \in X, NEW y \in X, NEW s \in Seq(X)
  PROVE  <<x, y>> \o s = Push(x, Push(y, s)) /\ <<x, y>> = Push(x, Push(y, <<>>)) /\ <<x>> = Push(x, <<>>)
<1> DEFINE o == <<x, y>>
<1>1. o \in Seq(X) /\ Len(o) = 2 /\ o[1] = x /\ o[2] = y
  OBVIOUS
<1>2. ASSUME NEW t \in Seq(X)
      PROVE  o \o t = Push(x, Push(y, t))
  <2> DEFINE a == o \o t
             c == Push(y, t)
             b == Push(x, c)
  <2>1. /\ c \in Seq(X) /\ Len(c) = Len(t) + 1 /\ c[1] = y
        /\ \A i \in 1 .. Len(t) : c[i + 1] = t[i]
    BY PushIs DEF IsPush
  <2> HIDE DEF o, c
  <2>0. IsPush(X, x, c, b)
    BY <2>1, PushIs
  <2>2. /\ b \in Seq(X) /\ Len(b) = Len(c) + 1 /\ b[1] = x
        /\ \A i \in 1 .. Len(c) : b[i + 1] = c[i]
    BY <2>0 DEF IsPush
  <2>9. IsJoin(X, o, t, a)
    BY <1>1, JoinLaws
  <2> HIDE DEF a, b
  <2>3. /\ a \in Seq(X) /\ Len(a) = 2 + Len(t)
        /\ \A i \in 1 .. 2 : a[i] = o[i]
        /\ \A i \in 1 .. Len(t) : a[2 + i] = t[i]
    BY <1>1, <2>9 DEF IsJoin
  <2>4. b[2] = y
    <3>1. 1 \in 1 .. Len(c) /\ 1 + 1 = 2
      BY <2>1
    <3> QED
      BY <2>1, <2>2, <3>1
  <2>5. ASSUME NEW i \in 1 .. Len(t)
        PROVE  b[2 + i] = t[i]
    <3>1. i + 1 \in 1 .. Len(c) /\ (i + 1) + 1 = 2 + i
      BY <2>1
    <3> QED
      BY <2>1, <2>2, <3>1
  <2>6. ASSUME NEW j \in 1 .. Len(a)
        PROVE  a[j] = b[j]
    <3>1. CASE j = 1
      BY <1>1, <2>2, <2>3, <3>1
    <3>2. CASE j = 2
      BY <1>1, <2>3, <2>4, <3>2
    <3>3. CASE j > 2
      <4>1. j - 2 \in 1 .. Len(t) /\ 2 + (j - 2) = j
        BY <2>3, <3>3
      <4> QED
        BY <2>3, <2>5, <4>1
    <3> QED
      BY <2>3, <3>1, <3>2, <3>3
  <2>7. a = b
    <3>1. Len(a) = Len(b)
      BY <2>1, <2>2, <2>3
    <3>2. a \in Seq(X) /\ b \in Seq(X)
      BY <2>2, <2>3
    <3> QED
      BY <2>6, <3>1, <3>2
  <2> QED
    BY <2>7 DEF a, b, c
<1> DEFINE n == <<>>
<1>3. n \in Seq(X) /\ Len(n) = 0
  OBVIOUS
<1>4. ASSUME NEW t \in Seq(X)
      PROVE  t \o n = t
  <2> HIDE DEF n
  <2>1. IsJoin(X, t, n, t \o n)
    BY <1>3, JoinLaws
  <2> QED
    BY <1>3, <2>1 DEF IsJoin
<1>5. <<x>> \in Seq(X)
  OBVIOUS
<1>6. <<x>> \o n = <<x>> /\ o \o n = o
  BY <1>1, <1>4, <1>5
<1>7. <<x>> = Push(x, <<>>)
  BY <1>6 DEF Push
<1>8. o = Push(x, Push(y, <<>>))
  BY <1>2, <1>3, <1>6
<1> QED
  BY <1>2, <1>7, <1>8

Setups ==
  [lib : Libraries, enabled : BOOLEAN, default : BOOLEAN, scoped : SUBSET {"context", "logger"},
   hooks : Seq([kind : {"event", "log"}, levels : SUBSET Level]), fallback : BOOLEAN,
   events : SUBSET Level, logs : SUBSET Level, crumbs : BOOLEAN]

LEMMA AfterHooksIs ==
  ASSUME NEW level
  PROVE  /\ AfterHooks(level) \in Seq(Doing)
         /\ level = "panic" => AfterHooks(level) = Push("panic", <<>>)
         /\ level = "fatal" =>
              AfterHooks(level) = IF setup.lib = "logrus" THEN Push("flush", Push("exit", <<>>)) ELSE Push("exit", <<>>)
         /\ level \notin Endings => AfterHooks(level) = <<>>
<1>0. /\ <<>> \in Seq(Doing) /\ <<"panic">> = Push("panic", <<>>) /\ <<"exit">> = Push("exit", <<>>)
      /\ Push("panic", <<>>) \in Seq(Doing) /\ Push("exit", <<>>) \in Seq(Doing)
  <2>1. <<>> \in Seq(Doing) /\ "panic" \in Doing /\ "exit" \in Doing
    BY DEF Doing
  <2> QED
    BY <2>1, PushTwo, PushLaws
<1>1. CASE level = "panic"
  <2>1. AfterHooks(level) = <<"panic">>
    BY <1>1 DEF AfterHooks
  <2> QED
    BY <1>1, <2>1, <1>0 DEF Endings
<1>2. CASE level = "fatal"
  <2>1. AfterHooks(level) = (IF setup.lib = "logrus" THEN <<"flush">> ELSE <<>>) \o <<"exit">>
    BY <1>2 DEF AfterHooks, Then
  <2>2. "flush" \in Doing
    BY DEF Doing
  <2>5. <<"flush">> \o <<"exit">> = Push("flush", Push("exit", <<>>)) /\ Push("flush", Push("exit", <<>>)) \in Seq(Doing)
    <3>1. <<"flush">> \o Push("exit", <<>>) = Push("flush", Push("exit", <<>>))
      BY DEF Push
    <3> QED
      BY <1>0, <2>2, <3>1, PushLaws
  <2>3. CASE setup.lib = "logrus"
    BY <1>2, <2>1, <2>3, <2>5 DEF Endings
  <2>4. CASE setup.lib # "logrus"
    <3>1. AfterHooks(level) = Push("exit", <<>>)
      BY <2>1, <1>0, <2>4, PushJoins
    <3> QED
      BY <1>2, <1>0, <2>4, <3>1 DEF Endings
  <2> QED
    BY <2>3, <2>4
<1>3. CASE level \notin Endings
  <2>1. AfterHooks(level) = <<>>
    BY <1>3 DEF AfterHooks, Endings
  <2> QED
    BY <1>0, <1>3, <2>1 DEF Endings
<1> QED
  BY <1>1, <1>2, <1>3 DEF Endings

LEMMA LogrusStagesIs ==
  ASSUME NEW hook, NEW level, hook.kind \in {"event", "log"}
  PROVE  /\ LogrusStages(hook, level) \in Seq(Doing)
         /\ level \notin hook.levels => LogrusStages(hook, level) = <<>>
         /\ level \in hook.levels /\ hook.kind = "event" => LogrusStages(hook, level) = <<"event">>
         /\ level \in hook.levels /\ hook.kind = "log" =>
              LogrusStages(hook, level) = IF level = "odd" THEN <<"invalid">> ELSE <<"gather", "log">>
<1>1. level \notin hook.levels \/ (level \in hook.levels /\ hook.kind = "event")
      \/ (level \in hook.levels /\ hook.kind # "event")
  OBVIOUS
<1>2. level \notin hook.levels => LogrusStages(hook, level) = <<>>
  BY DEF LogrusStages
<1>3. level \in hook.levels /\ hook.kind = "event" => LogrusStages(hook, level) = <<"event">>
  BY DEF LogrusStages
<1>4. level \in hook.levels /\ hook.kind # "event" =>
        LogrusStages(hook, level) = IF level = "odd" THEN <<"invalid">> ELSE <<"gather", "log">>
  BY DEF LogrusStages, LogStages
<1>5. LogrusStages(hook, level) \in Seq(Doing)
  <2>1. <<>> \in Seq(Doing) /\ <<"event">> \in Seq(Doing) /\ <<"invalid">> \in Seq(Doing)
        /\ <<"gather", "log">> \in Seq(Doing)
    <3>1. "event" \in Doing /\ "invalid" \in Doing /\ "gather" \in Doing /\ "log" \in Doing
      BY DEF Doing
    <3> QED
      BY <3>1
  <2> QED
    BY <2>1, <1>1, <1>2, <1>3, <1>4
<1> QED
  BY <1>2, <1>3, <1>4, <1>5

\* f has what the last hooks of logrus do, for up to n of them.
HooksFrom(level, f, n) ==
  /\ f[0] = AfterHooks(level)
  /\ \A i \in 1 .. n : f[i] = LogrusStages(setup.hooks[Len(setup.hooks) - i + 1], level) \o f[i - 1]

LEMMA HooksTyped ==
  ASSUME setup \in Setups, NEW level, NEW i \in 1 .. Len(setup.hooks)
  PROVE  /\ Len(setup.hooks) - i + 1 \in DOMAIN setup.hooks
         /\ setup.hooks[Len(setup.hooks) - i + 1].kind \in {"event", "log"}
         /\ LogrusStages(setup.hooks[Len(setup.hooks) - i + 1], level) \in Seq(Doing)
<1> DEFINE hs == setup.hooks
<1>1. hs \in Seq([kind : {"event", "log"}, levels : SUBSET Level])
  BY DEF Setups
<1> HIDE DEF hs
<1>2. Len(hs) - i + 1 \in 1 .. Len(hs)
  BY <1>1 DEF hs
<1>3. hs[Len(hs) - i + 1].kind \in {"event", "log"}
  <2>1. hs[Len(hs) - i + 1] \in [kind : {"event", "log"}, levels : SUBSET Level]
    <3> DEFINE K == [kind : {"event", "log"}, levels : SUBSET Level]
               j == Len(hs) - i + 1
    <3>1. hs \in Seq(K) /\ j \in 1 .. Len(hs)
      BY <1>1, <1>2
    <3> HIDE DEF K, j
    <3>2. hs[j] \in K
      BY <3>1
    <3> QED
      BY <3>2 DEF K, j
  <2> QED
    BY <2>1
<1>4. LogrusStages(hs[Len(hs) - i + 1], level) \in Seq(Doing)
  BY <1>3, LogrusStagesIs
<1> QED
  BY <1>1, <1>2, <1>3, <1>4 DEF hs

LEMMA HooksExist ==
  ASSUME setup \in Setups, NEW level, NEW n \in 0 .. Len(setup.hooks)
  PROVE  \E f : HooksFrom(level, f, n) /\ HooksLast(level, n) = f[n] /\ f \in [0 .. n -> Seq(Doing)]
<1> DEFINE hook(i) == LogrusStages(setup.hooks[Len(setup.hooks) - i + 1], level)
           step == [i \in 1 .. n |-> [x \in Seq(Doing) |-> hook(i) \o x]]
           Read(f) == f = [k \in 0 .. n |-> IF k = 0 THEN AfterHooks(level) ELSE hook(k) \o f[k - 1]]
           last == CHOOSE f : Read(f)
<1>0. Len(setup.hooks) \in Nat /\ n \in Nat /\ AfterHooks(level) \in Seq(Doing)
  BY AfterHooksIs DEF Setups
<1>1. ASSUME NEW i \in 1 .. n
      PROVE  hook(i) \in Seq(Doing)
  <2>1. i \in 1 .. Len(setup.hooks)
    BY <1>0
  <2> QED
    BY <2>1, HooksTyped
<1>2. HooksLast(level, n) = last[n]
  BY DEF HooksLast
<1> HIDE DEF hook
<1>3. \E f \in [0 .. n -> Seq(Doing)] : Read(f)
  <2>1. step \in [1 .. n -> [Seq(Doing) -> Seq(Doing)]]
    <3>1. ASSUME NEW i \in 1 .. n, NEW x \in Seq(Doing)
          PROVE  hook(i) \o x \in Seq(Doing)
      BY <1>1
    <3> QED
      BY <3>1
  <2>2. \A i \in 1 .. n, x \in Seq(Doing) : step[i][x] = hook(i) \o x
    OBVIOUS
  <2> HIDE DEF step
  <2>3. Recurs(Seq(Doing), n, AfterHooks(level), step)
    BY <1>0, <2>1, Recursion
  <2>4. PICK f \in [0 .. n -> Seq(Doing)] : Along(f, n, AfterHooks(level), step)
    BY <2>3 DEF Recurs
  <2>5. ASSUME NEW i \in 1 .. n
        PROVE  f[i] = hook(i) \o f[i - 1]
    <3>1. i - 1 \in 0 .. n
      BY <1>0
    <3>2. f[i - 1] \in Seq(Doing)
      BY <2>4, <3>1
    <3> QED
      BY <2>2, <2>4, <3>2 DEF Along
  <2>6. \A k \in 0 .. n : f[k] = IF k = 0 THEN AfterHooks(level) ELSE hook(k) \o f[k - 1]
    <3>1. f[0] = AfterHooks(level)
      BY <2>4 DEF Along
    <3>2. ASSUME NEW k \in 0 .. n
          PROVE  f[k] = IF k = 0 THEN AfterHooks(level) ELSE hook(k) \o f[k - 1]
      <4>1. CASE k = 0
        BY <3>1, <4>1
      <4>2. CASE k # 0
        <5>1. k \in 1 .. n
          BY <1>0, <4>2
        <5> QED
          BY <2>5, <4>2, <5>1
      <4> QED
        BY <4>1, <4>2
    <3> QED
      BY <3>2
  <2>7. Read(f)
    BY <2>4, <2>6
  <2> QED
    BY <2>7
<1>4. Read(last)
  BY <1>3
<1> HIDE DEF last
<1>5. last[0] = AfterHooks(level) /\ \A i \in 1 .. n : last[i] = hook(i) \o last[i - 1]
  <2>1. \A k \in 0 .. n : last[k] = IF k = 0 THEN AfterHooks(level) ELSE hook(k) \o last[k - 1]
    BY <1>4
  <2>2. 0 \in 0 .. n /\ \A i \in 1 .. n : i \in 0 .. n /\ i # 0
    BY <1>0
  <2> QED
    BY <2>1, <2>2
<1>6. HooksFrom(level, last, n)
  BY <1>5 DEF HooksFrom, hook
<1> DEFINE S == {k \in Nat : k <= n => last[k] \in Seq(Doing)}
<1>7. 0 \in S
  BY <1>0, <1>5
<1>8. ASSUME NEW k \in Nat, k \in S
      PROVE  k + 1 \in S
  <2>1. SUFFICES ASSUME k + 1 <= n
                 PROVE  last[k + 1] \in Seq(Doing)
    OBVIOUS
  <2>2. k + 1 \in 1 .. n /\ (k + 1) - 1 = k /\ last[k] \in Seq(Doing)
    BY <1>0, <1>8, <2>1
  <2>3. last[k + 1] = hook(k + 1) \o last[k] /\ hook(k + 1) \in Seq(Doing)
    BY <1>1, <1>5, <2>2
  <2> QED
    BY <2>2, <2>3
<1>9. Nat \subseteq S
  <2> HIDE DEF S
  <2> QED
    BY <1>7, <1>8, NatSetInduction
<1>10. last = [k \in 0 .. n |-> last[k]]
  BY <1>4
<1>11. \A k \in 0 .. n : last[k] \in Seq(Doing)
  BY <1>0, <1>9
<1>12. last \in [0 .. n -> Seq(Doing)]
  BY <1>10, <1>11
<1> QED
  BY <1>2, <1>6, <1>12

TwoFrom(level, f, n, g, m) ==
  n \in Nat /\ m \in Nat /\ n <= m /\ HooksFrom(level, f, n) /\ HooksFrom(level, g, m)
Agreeing(f, n, g) == \A i \in 0 .. n : f[i] = g[i]

LEMMA HooksSame ==
  ASSUME NEW level, NEW f, NEW n, NEW g, NEW m, TwoFrom(level, f, n, g, m)
  PROVE  Agreeing(f, n, g)
<1>0. n \in Nat /\ m \in Nat /\ n <= m /\ HooksFrom(level, f, n) /\ HooksFrom(level, g, m)
  BY DEF TwoFrom
<1> DEFINE S == {k \in Nat : k <= n => f[k] = g[k]}
<1>1. 0 \in S
  BY <1>0 DEF HooksFrom
<1>2. ASSUME NEW k \in Nat, k \in S
      PROVE  k + 1 \in S
  <2>1. SUFFICES ASSUME k + 1 <= n
                 PROVE  f[k + 1] = g[k + 1]
    OBVIOUS
  <2>2. k + 1 \in 1 .. n /\ k + 1 \in 1 .. m /\ (k + 1) - 1 = k /\ f[k] = g[k]
    BY <1>0, <1>2, <2>1
  <2> QED
    BY <1>0, <2>2 DEF HooksFrom
<1>3. Nat \subseteq S
  <2> HIDE DEF S
  <2> QED
    BY <1>1, <1>2, NatSetInduction
<1> QED
  BY <1>3 DEF Agreeing

\* The last n hooks are the first of them and then the others.
LEMMA HooksLastIs ==
  ASSUME setup \in Setups, NEW level, NEW n \in 0 .. Len(setup.hooks)
  PROVE  /\ HooksLast(level, n) \in Seq(Doing)
         /\ n = 0 => HooksLast(level, n) = AfterHooks(level)
         /\ n > 0 => HooksLast(level, n) =
                       LogrusStages(setup.hooks[Len(setup.hooks) - n + 1], level) \o HooksLast(level, n - 1)
<1>0. Len(setup.hooks) \in Nat /\ n \in Nat
  BY DEF Setups
<1>1. PICK f : HooksFrom(level, f, n) /\ HooksLast(level, n) = f[n] /\ f \in [0 .. n -> Seq(Doing)]
  BY HooksExist
<1>2. n = 0 => HooksLast(level, n) = AfterHooks(level)
  BY <1>1 DEF HooksFrom
<1>3. ASSUME n > 0
      PROVE  HooksLast(level, n) =
               LogrusStages(setup.hooks[Len(setup.hooks) - n + 1], level) \o HooksLast(level, n - 1)
  <2>1. n - 1 \in 0 .. Len(setup.hooks) /\ n - 1 \in Nat /\ n - 1 <= n /\ n - 1 \in 0 .. n - 1 /\ n \in 1 .. n
    BY <1>0, <1>3
  <2>2. PICK g : HooksFrom(level, g, n - 1) /\ HooksLast(level, n - 1) = g[n - 1]
    BY <2>1, HooksExist
  <2>3. g[n - 1] = f[n - 1]
    <3>1. \A i \in 0 .. n - 1 : g[i] = f[i]
      <4> DEFINE m == n - 1
      <4>1. m \in Nat /\ m <= n /\ HooksFrom(level, g, m)
        BY <2>1, <2>2
      <4> HIDE DEF m
      <4>2. TwoFrom(level, g, m, f, n)
        BY <1>0, <1>1, <4>1 DEF TwoFrom
      <4>3. Agreeing(g, m, f)
        BY <4>2, HooksSame
      <4> QED
        BY <4>3 DEF Agreeing, m
    <3> QED
      BY <2>1, <3>1
  <2>4. f[n] = LogrusStages(setup.hooks[Len(setup.hooks) - n + 1], level) \o f[n - 1]
    BY <1>1, <2>1 DEF HooksFrom
  <2> QED
    BY <1>1, <2>2, <2>3, <2>4
<1>4. HooksLast(level, n) \in Seq(Doing)
  BY <1>0, <1>1
<1> QED
  BY <1>2, <1>3, <1>4

LEMMA HooksStay ==
  ASSUME NEW level, NEW n, UNCHANGED setup
  PROVE  HooksLast(level, n)' = HooksLast(level, n)
BY DEF HooksLast, LogrusStages, LogStages, AfterHooks, Then

\* What is still to be done with a record of level, whose events and logs were captured
\* (event, log), its events before the last flush (done): how far each library has come.
CourseOfSentry(todo, record, log) ==
  \/ todo \in {Push("gather", Push("log", <<>>)), Push("log", <<>>)}
  \/ /\ todo = <<>> /\ record.level \notin Endings
     /\ record.text /\ setup.enabled => log

CourseOfMeter(todo, record) ==
  /\ record.level = "low"
  /\ todo \in {Push("gather", Push("metric", <<>>)), Push("metric", <<>>), <<>>}

CourseOfZap(todo, record, log) ==
  \/ /\ record.level \in setup.logs
     /\ todo \in {Push("gather", Push("log", AfterHooks(record.level))), Push("log", AfterHooks(record.level))}
  \/ /\ todo = AfterHooks(record.level)
     /\ record.level \in setup.logs /\ record.text /\ setup.enabled => log

\* The handler for events comes first, with the attributes of the context.
SlogLogs(level) == IF level \in setup.logs THEN Push("gather", Push("log", <<>>)) ELSE <<>>

CourseOfSlog(todo, record, event, log) ==
  /\ record.level # "panic"
  /\ \/ /\ record.level \in setup.events
        /\ todo \in {Push("extract", Push("event", SlogLogs(record.level))), Push("event", SlogLogs(record.level))}
     \/ /\ record.level \in setup.events => event
        /\ \/ todo = SlogLogs(record.level)
           \/ todo = Push("log", <<>>) /\ record.level \in setup.logs
           \/ /\ todo = <<>>
              /\ record.level \in setup.logs =>
                   record.level # "fatal" /\ (record.text /\ setup.enabled => log)

ZerologEvent(record) == record.level \in setup.events /\ record.level # "odd"

CourseOfZerolog(todo, record, event, done) ==
  LET rest == AfterHooks(record.level)
      flush == IF record.level \in Endings THEN Push("flush", rest) ELSE rest
  IN \/ ZerologEvent(record) /\ todo = Push("event", flush)
     \/ ZerologEvent(record) /\ event /\ todo = flush
     \/ todo = rest /\ (ZerologEvent(record) => event /\ (record.level \in Endings => done))
     \/ ~ZerologEvent(record) /\ todo = Push("crumb", rest)

\* The hooks of logrus but for the last k have done what they are for, or will never.
HooksDone(k, record, event, log) ==
  \A j \in 1 .. Len(setup.hooks) - k :
    record.level \in setup.hooks[j].levels =>
      IF setup.hooks[j].kind = "event" THEN event \/ Cut(record, "event")
      ELSE record.level # "odd" /\ record.text /\ setup.enabled => log \/ Cut(record, "log")

CourseOfLogrus(todo, record, event, log) ==
  \/ \E k \in 0 .. Len(setup.hooks) :
       todo = HooksLast(record.level, k) /\ HooksDone(k, record, event, log)
  \/ \E k \in 1 .. Len(setup.hooks) :
       LET hook == setup.hooks[Len(setup.hooks) - k + 1] IN
       /\ todo = Push("log", HooksLast(record.level, k - 1))
       /\ hook.kind = "log" /\ record.level \in hook.levels /\ record.level # "odd"
       /\ HooksDone(k, record, event, log)
  \/ /\ todo = Push("exit", <<>>) /\ record.level = "fatal"
     /\ HooksDone(0, record, event, log)

Course(todo, record, event, log, done) ==
  /\ event => IsEvent(record.level)
  /\ log => IsLog(record.level)
  /\ CASE setup.lib = "sentry" -> CourseOfSentry(todo, record, log)
       [] setup.lib = "meter" -> CourseOfMeter(todo, record)
       [] setup.lib = "zap" -> CourseOfZap(todo, record, log)
       [] setup.lib = "slog" -> CourseOfSlog(todo, record, event, log)
       [] setup.lib = "zerolog" -> CourseOfZerolog(todo, record, event, done)
       [] setup.lib = "logrus" -> CourseOfLogrus(todo, record, event, log)

\* What is to be true of a record that is done with, how being how.
Concluded(record, event, log, done, how) ==
  /\ event => IsEvent(record.level)
  /\ IsEvent(record.level) => event \/ Cut(record, "event")
  /\ log => IsLog(record.level)
  /\ IsLog(record.level) /\ record.text /\ setup.enabled => log \/ Cut(record, "log")
  /\ how # "none" <=> /\ record.level \in Endings /\ setup.lib # "meter"
                      /\ setup.lib = "slog" => "fatal" \in setup.logs
  /\ setup.lib = "zerolog" /\ how # "none" /\ event => done

\* The record once a hook of logrus has failed with it.
WithFailure(record) == [record EXCEPT !.failed = TRUE]

\* What follows when x is done next, and then rest.
Onward(x, rest, record, event, log, done) ==
  /\ x \in {"extract", "gather", "crumb", "metric"} => Course(rest, record, event, log, done)
  /\ x = "event" => \A d \in BOOLEAN : Course(rest, record, TRUE, log, d)
  /\ x = "event" /\ setup.lib = "logrus" =>
       \A d \in BOOLEAN : Course(AfterHooks(record.level), WithFailure(record), TRUE, log, d)
  /\ x = "invalid" =>
       /\ setup.fallback => Course(rest, record, event, log, done)
       /\ Course(AfterHooks(record.level), WithFailure(record), event, log, done)
  /\ x = "flush" => Course(rest, record, event, log, TRUE)
  /\ x = "log" =>
       \A l \in BOOLEAN : (log => l) /\ (record.text /\ setup.enabled => l) =>
         IF EndOfEmit(record.level) = "none" THEN Course(rest, record, event, l, done)
         ELSE Concluded(record, event, l, done, EndOfEmit(record.level))
  /\ x = "panic" => Concluded(record, event, log, done, "panic")
  /\ x = "exit" => Concluded(record, event, log, done, "fatal")

Progress(todo, record, event, log, done) ==
  \/ todo = <<>> /\ Concluded(record, event, log, done, "none")
  \/ \E x \in Doing, rest \in Seq(Doing) : todo = Push(x, rest) /\ Onward(x, rest, record, event, log, done)

Fields == [number : Nat \ {0}, level : Level, hub : BOOLEAN, entry : BOOLEAN, text : BOOLEAN, by : Nat,
           failed : BOOLEAN]

\* It is the same in all else, and what kept it from a hook still does.
LEMMA WithFailureIs ==
  ASSUME NEW record \in Fields
  PROVE  /\ WithFailure(record) \in Fields /\ WithFailure(record).failed = TRUE
         /\ WithFailure(record).number = record.number /\ WithFailure(record).level = record.level
         /\ WithFailure(record).text = record.text /\ WithFailure(record).by = record.by
         /\ WithFailure(record).hub = record.hub /\ WithFailure(record).entry = record.entry
         /\ \A kind : Cut(record, kind) => Cut(WithFailure(record), kind)
<1>1. /\ WithFailure(record) \in Fields /\ WithFailure(record).failed = TRUE
      /\ WithFailure(record).number = record.number /\ WithFailure(record).level = record.level
      /\ WithFailure(record).text = record.text /\ WithFailure(record).by = record.by
      /\ WithFailure(record).hub = record.hub /\ WithFailure(record).entry = record.entry
  BY DEF WithFailure, Fields
<1>2. ASSUME NEW kind, Cut(record, kind)
      PROVE  Cut(WithFailure(record), kind)
  BY <1>1, <1>2 DEF Cut
<1> QED
  BY <1>1, <1>2

LEMMA DoingNames ==
  /\ <<>> \in Seq(Doing)
  /\ "gather" \in Doing /\ "log" \in Doing /\ "metric" \in Doing /\ "extract" \in Doing /\ "event" \in Doing
  /\ "invalid" \in Doing /\ "crumb" \in Doing /\ "flush" \in Doing /\ "panic" \in Doing /\ "exit" \in Doing
BY DEF Doing

LEMMA EndOfEmitIs ==
  ASSUME NEW level \in Level
  PROVE  /\ setup.lib \in {"sentry", "logrus"} => EndOfEmit(level) = IF level \in Endings THEN level ELSE "none"
         /\ setup.lib = "slog" => EndOfEmit(level) = IF level = "fatal" THEN "fatal" ELSE "none"
         /\ setup.lib \in {"meter", "zap", "zerolog"} => EndOfEmit(level) = "none"
<1>1. CASE setup.lib \in {"sentry", "logrus"} /\ level \in Endings
  BY <1>1 DEF EndOfEmit
<1>2. CASE setup.lib = "slog" /\ level = "fatal"
  BY <1>2 DEF EndOfEmit
<1>3. CASE ~(setup.lib \in {"sentry", "logrus"} /\ level \in Endings) /\ ~(setup.lib = "slog" /\ level = "fatal")
  <2>1. EndOfEmit(level) = "none"
    BY <1>3 DEF EndOfEmit
  <2> QED
    BY <1>3, <2>1
<1> QED
  BY <1>1, <1>2, <1>3

LEMMA IsEventIs ==
  ASSUME NEW level
  PROVE  /\ setup.lib = "logrus" =>
              (IsEvent(level) <=> \E j \in DOMAIN setup.hooks : setup.hooks[j].kind = "event" /\ level \in setup.hooks[j].levels)
         /\ setup.lib = "slog" => (IsEvent(level) <=> level \in setup.events)
         /\ setup.lib = "zerolog" => (IsEvent(level) <=> level \in setup.events /\ level # "odd")
         /\ setup.lib \in {"sentry", "meter", "zap"} => ~IsEvent(level)
<1>1. setup.lib = "logrus" =>
        (IsEvent(level) <=> \E j \in DOMAIN setup.hooks : setup.hooks[j].kind = "event" /\ level \in setup.hooks[j].levels)
  BY DEF IsEvent, ToSet
<1>2. setup.lib = "slog" => (IsEvent(level) <=> level \in setup.events)
  BY DEF IsEvent
<1>3. setup.lib = "zerolog" => (IsEvent(level) <=> level \in setup.events /\ level # "odd")
  BY DEF IsEvent
<1>4. setup.lib \in {"sentry", "meter", "zap"} => ~IsEvent(level)
  BY DEF IsEvent
<1> QED
  BY <1>1, <1>2, <1>3, <1>4

LEMMA IsLogIs ==
  ASSUME NEW level
  PROVE  /\ setup.lib = "logrus" =>
              (IsLog(level) <=> /\ level # "odd"
                                /\ \E j \in DOMAIN setup.hooks : setup.hooks[j].kind = "log" /\ level \in setup.hooks[j].levels)
         /\ setup.lib \in {"slog", "zap"} => (IsLog(level) <=> level \in setup.logs)
         /\ setup.lib \in {"meter", "zerolog"} => ~IsLog(level)
         /\ setup.lib = "sentry" => IsLog(level)
<1>1. setup.lib = "logrus" =>
        (IsLog(level) <=> /\ level # "odd"
                          /\ \E j \in DOMAIN setup.hooks : setup.hooks[j].kind = "log" /\ level \in setup.hooks[j].levels)
  BY DEF IsLog, ToSet
<1>2. setup.lib \in {"slog", "zap"} => (IsLog(level) <=> level \in setup.logs)
  BY DEF IsLog
<1>3. setup.lib \in {"meter", "zerolog"} => ~IsLog(level)
  BY DEF IsLog
<1>4. setup.lib = "sentry" => IsLog(level)
  BY DEF IsLog
<1> QED
  BY <1>1, <1>2, <1>3, <1>4

LEMMA CourseIs ==
  ASSUME NEW todo, NEW record, NEW event, NEW log, NEW done
  PROVE  /\ setup.lib = "sentry" => (Course(todo, record, event, log, done) <=>
              (event => IsEvent(record.level)) /\ (log => IsLog(record.level)) /\ CourseOfSentry(todo, record, log))
         /\ setup.lib = "meter" => (Course(todo, record, event, log, done) <=>
              (event => IsEvent(record.level)) /\ (log => IsLog(record.level)) /\ CourseOfMeter(todo, record))
         /\ setup.lib = "zap" => (Course(todo, record, event, log, done) <=>
              (event => IsEvent(record.level)) /\ (log => IsLog(record.level)) /\ CourseOfZap(todo, record, log))
         /\ setup.lib = "slog" => (Course(todo, record, event, log, done) <=>
              (event => IsEvent(record.level)) /\ (log => IsLog(record.level)) /\ CourseOfSlog(todo, record, event, log))
         /\ setup.lib = "zerolog" => (Course(todo, record, event, log, done) <=>
              (event => IsEvent(record.level)) /\ (log => IsLog(record.level)) /\ CourseOfZerolog(todo, record, event, done))
         /\ setup.lib = "logrus" => (Course(todo, record, event, log, done) <=>
              (event => IsEvent(record.level)) /\ (log => IsLog(record.level)) /\ CourseOfLogrus(todo, record, event, log))
BY DEF Course

\* Done differs in nothing but what has been flushed.
LEMMA CourseGrows ==
  ASSUME setup.lib \in Libraries, NEW todo, NEW record, NEW event, NEW log, NEW done, NEW d \in BOOLEAN,
         Course(todo, record, event, log, done), done => d
  PROVE  Course(todo, record, event, log, d)
<1>1. CASE setup.lib = "zerolog"
  <2>1. CourseOfZerolog(todo, record, event, done) => CourseOfZerolog(todo, record, event, d)
    BY DEF CourseOfZerolog
  <2> QED
    BY <1>1, <2>1, CourseIs
<1>2. CASE setup.lib # "zerolog"
  BY <1>2, CourseIs DEF Libraries
<1> QED
  BY <1>1, <1>2

LEMMA CourseStays ==
  ASSUME NEW todo, NEW record, NEW event, NEW log, NEW done, UNCHANGED setup
  PROVE  Course(todo, record, event, log, done)' <=> Course(todo, record, event, log, done)
BY HooksStay DEF Course, CourseOfSentry, CourseOfMeter, CourseOfZap, CourseOfSlog, CourseOfZerolog, CourseOfLogrus,
     AfterHooks, Then, SlogLogs, ZerologEvent, HooksDone, Cut, IsEvent, IsLog

LEMMA ConcludedStays ==
  ASSUME NEW record, NEW event, NEW log, NEW done, NEW how, UNCHANGED setup
  PROVE  Concluded(record, event, log, done, how)' <=> Concluded(record, event, log, done, how)
BY DEF Concluded, Cut, IsEvent, IsLog

\* Each library, from one stage to the next.
LEMMA SentryGoesOn ==
  ASSUME setup \in Setups, setup.lib = "sentry", NEW record \in Fields, NEW todo,
         NEW event \in BOOLEAN, NEW log \in BOOLEAN, NEW done \in BOOLEAN,
         Course(todo, record, event, log, done)
  PROVE  Progress(todo, record, event, log, done)
<1> DEFINE level == record.level
<1>0. level \in Level /\ record.text \in BOOLEAN /\ setup.enabled \in BOOLEAN
  BY DEF Fields, Setups
<1>1. /\ event => IsEvent(level)
      /\ log => IsLog(level)
      /\ CourseOfSentry(todo, record, log)
  BY CourseIs
<1>2. ~IsEvent(level) /\ IsLog(level)
  BY IsEventIs, IsLogIs
<1>3. ASSUME NEW rest, NEW l \in BOOLEAN
      PROVE  Course(rest, record, event, l, done) <=> CourseOfSentry(rest, record, l)
  BY <1>1, <1>2, CourseIs
<1>4. EndOfEmit(level) = IF level \in Endings THEN level ELSE "none"
  BY <1>0, EndOfEmitIs
<1>5. CASE todo = Push("gather", Push("log", <<>>))
  <2>1. Push("log", <<>>) \in Seq(Doing)
    BY DoingNames, PushLaws
  <2>2. CourseOfSentry(Push("log", <<>>), record, log)
    BY DEF CourseOfSentry
  <2>3. Onward("gather", Push("log", <<>>), record, event, log, done)
    BY <1>3, <2>2 DEF Onward
  <2> QED
    BY <1>5, <2>1, <2>3, DoingNames DEF Progress
<1>6. CASE todo = Push("log", <<>>)
  <2>1. ASSUME NEW l \in BOOLEAN, record.text /\ setup.enabled => l, level \notin Endings
        PROVE  Course(<<>>, record, event, l, done)
    <3>1. CourseOfSentry(<<>>, record, l)
      BY <2>1 DEF CourseOfSentry
    <3> QED
      BY <1>3, <3>1
  <2>2. ASSUME NEW l \in BOOLEAN, record.text /\ setup.enabled => l, level \in Endings
        PROVE  Concluded(record, event, l, done, level)
    BY <1>0, <1>1, <1>2, <2>2 DEF Concluded, Endings
  <2>3. Onward("log", <<>>, record, event, log, done)
    <3>1. CASE level \in Endings
      BY <1>4, <2>2, <3>1 DEF Onward, Endings
    <3>2. CASE level \notin Endings
      BY <1>4, <2>1, <3>2 DEF Onward
    <3> QED
      BY <3>1, <3>2
  <2> QED
    BY <1>6, <2>3, DoingNames DEF Progress
<1>7. CASE todo = <<>> /\ level \notin Endings /\ (record.text /\ setup.enabled => log)
  BY <1>1, <1>2, <1>7 DEF Progress, Concluded
<1> QED
  BY <1>1, <1>5, <1>6, <1>7 DEF CourseOfSentry

LEMMA MeterGoesOn ==
  ASSUME setup \in Setups, setup.lib = "meter", NEW record \in Fields, NEW todo,
         NEW event \in BOOLEAN, NEW log \in BOOLEAN, NEW done \in BOOLEAN,
         Course(todo, record, event, log, done)
  PROVE  Progress(todo, record, event, log, done)
<1> DEFINE level == record.level
<1>0. level \in Level /\ record.text \in BOOLEAN /\ setup.enabled \in BOOLEAN
  BY DEF Fields, Setups
<1>1. /\ event => IsEvent(level)
      /\ log => IsLog(level)
      /\ CourseOfMeter(todo, record)
  BY CourseIs
<1>2. ~IsEvent(level) /\ ~IsLog(level) /\ level \notin Endings
  BY <1>1, IsEventIs, IsLogIs DEF CourseOfMeter, Endings
<1>3. ASSUME NEW rest
      PROVE  Course(rest, record, event, log, done) <=> CourseOfMeter(rest, record)
  BY <1>1, <1>2, CourseIs
<1>4. CASE todo = Push("gather", Push("metric", <<>>))
  <2>1. Push("metric", <<>>) \in Seq(Doing)
    BY DoingNames, PushLaws
  <2>2. CourseOfMeter(Push("metric", <<>>), record)
    BY <1>1 DEF CourseOfMeter
  <2>3. Onward("gather", Push("metric", <<>>), record, event, log, done)
    BY <1>3, <2>2 DEF Onward
  <2> QED
    BY <1>4, <2>1, <2>3, DoingNames DEF Progress
<1>5. CASE todo = Push("metric", <<>>)
  <2>1. CourseOfMeter(<<>>, record)
    BY <1>1 DEF CourseOfMeter
  <2>2. Onward("metric", <<>>, record, event, log, done)
    BY <1>3, <2>1 DEF Onward
  <2> QED
    BY <1>5, <2>2, DoingNames DEF Progress
<1>6. CASE todo = <<>>
  BY <1>1, <1>2, <1>6 DEF Progress, Concluded
<1> QED
  BY <1>1, <1>4, <1>5, <1>6 DEF CourseOfMeter

\* What a library does after its hooks, when all that was to be captured is.
LEMMA AfterGoesOn ==
  ASSUME setup \in Setups, setup.lib \in {"zap", "zerolog"}, NEW record \in Fields,
         NEW event \in BOOLEAN, NEW log \in BOOLEAN, NEW done \in BOOLEAN,
         \A how \in {"none", "panic", "fatal"} :
           (how # "none" <=> record.level \in Endings) => Concluded(record, event, log, done, how)
  PROVE  Progress(AfterHooks(record.level), record, event, log, done)
<1> DEFINE level == record.level
<1>1. CASE level = "panic"
  <2>1. AfterHooks(level) = Push("panic", <<>>)
    BY <1>1, AfterHooksIs
  <2>2. Concluded(record, event, log, done, "panic")
    BY <1>1 DEF Endings
  <2>3. Onward("panic", <<>>, record, event, log, done)
    BY <2>2 DEF Onward
  <2> QED
    BY <2>1, <2>3, DoingNames DEF Progress
<1>2. CASE level = "fatal"
  <2>1. AfterHooks(level) = Push("exit", <<>>)
    BY <1>2, AfterHooksIs
  <2>2. Concluded(record, event, log, done, "fatal")
    BY <1>2 DEF Endings
  <2>3. Onward("exit", <<>>, record, event, log, done)
    BY <2>2 DEF Onward
  <2> QED
    BY <2>1, <2>3, DoingNames DEF Progress
<1>3. CASE level \notin Endings
  <2>1. AfterHooks(level) = <<>>
    BY <1>3, AfterHooksIs
  <2>2. Concluded(record, event, log, done, "none")
    BY <1>3
  <2> QED
    BY <2>1, <2>2 DEF Progress
<1> QED
  BY <1>1, <1>2, <1>3 DEF Endings

LEMMA ZapGoesOn ==
  ASSUME setup \in Setups, setup.lib = "zap", NEW record \in Fields, NEW todo,
         NEW event \in BOOLEAN, NEW log \in BOOLEAN, NEW done \in BOOLEAN,
         Course(todo, record, event, log, done)
  PROVE  Progress(todo, record, event, log, done)
<1> DEFINE level == record.level
<1>0. level \in Level /\ record.text \in BOOLEAN /\ setup.enabled \in BOOLEAN
  BY DEF Fields, Setups
<1> DEFINE rest == AfterHooks(level)
<1>1. /\ event => IsEvent(level)
      /\ log => IsLog(level)
      /\ CourseOfZap(todo, record, log)
  BY CourseIs
<1>2. ~IsEvent(level) /\ (IsLog(level) <=> level \in setup.logs) /\ rest \in Seq(Doing)
  BY IsEventIs, IsLogIs, AfterHooksIs
<1>3. ASSUME NEW r, NEW l \in BOOLEAN, l => level \in setup.logs
      PROVE  Course(r, record, event, l, done) <=> CourseOfZap(r, record, l)
  BY <1>1, <1>2, <1>3, CourseIs
<1>4. EndOfEmit(level) = "none"
  BY <1>0, EndOfEmitIs
<1>5. CASE level \in setup.logs /\ todo = Push("gather", Push("log", rest))
  <2>1. Push("log", rest) \in Seq(Doing)
    BY <1>2, DoingNames, PushLaws
  <2>2. CourseOfZap(Push("log", rest), record, log)
    BY <1>5 DEF CourseOfZap
  <2>3. Onward("gather", Push("log", rest), record, event, log, done)
    BY <1>3, <1>5, <2>2 DEF Onward
  <2> QED
    BY <1>5, <2>1, <2>3, DoingNames DEF Progress
<1>6. CASE level \in setup.logs /\ todo = Push("log", rest)
  <2>1. ASSUME NEW l \in BOOLEAN, record.text /\ setup.enabled => l
        PROVE  Course(rest, record, event, l, done)
    <3>1. CourseOfZap(rest, record, l)
      BY <2>1 DEF CourseOfZap
    <3> QED
      BY <1>3, <1>6, <3>1
  <2>2. Onward("log", rest, record, event, log, done)
    BY <1>4, <2>1 DEF Onward
  <2> QED
    BY <1>2, <1>6, <2>2, DoingNames DEF Progress
<1>7. CASE todo = rest /\ (level \in setup.logs /\ record.text /\ setup.enabled => log)
  <2>1. ASSUME NEW how \in {"none", "panic", "fatal"}, how # "none" <=> level \in Endings
        PROVE  Concluded(record, event, log, done, how)
    BY <1>1, <1>2, <1>7, <2>1 DEF Concluded
  <2> QED
    BY <1>7, <2>1, AfterGoesOn
<1> QED
  BY <1>1, <1>5, <1>6, <1>7 DEF CourseOfZap

LEMMA SlogGoesOn ==
  ASSUME setup \in Setups, setup.lib = "slog", NEW record \in Fields, NEW todo,
         NEW event \in BOOLEAN, NEW log \in BOOLEAN, NEW done \in BOOLEAN,
         Course(todo, record, event, log, done)
  PROVE  Progress(todo, record, event, log, done)
<1> DEFINE level == record.level
<1>0. level \in Level /\ record.text \in BOOLEAN /\ setup.enabled \in BOOLEAN
  BY DEF Fields, Setups
<1> DEFINE logs == SlogLogs(level)
           tail == Push("log", <<>>)
<1>1. /\ event => IsEvent(level)
      /\ log => IsLog(level)
      /\ CourseOfSlog(todo, record, event, log)
  BY CourseIs
<1>2. (IsEvent(level) <=> level \in setup.events) /\ (IsLog(level) <=> level \in setup.logs)
  BY IsEventIs, IsLogIs
<1>3. tail \in Seq(Doing) /\ Push("gather", tail) \in Seq(Doing) /\ logs \in Seq(Doing)
  <2>1. tail \in Seq(Doing)
    BY DoingNames, PushLaws
  <2>2. Push("gather", tail) \in Seq(Doing)
    BY <2>1, DoingNames, PushLaws
  <2> QED
    BY <2>1, <2>2, DoingNames DEF SlogLogs
<1>4. level # "panic" /\ EndOfEmit(level) = IF level = "fatal" THEN "fatal" ELSE "none"
  BY <1>0, <1>1, EndOfEmitIs DEF CourseOfSlog
<1>5. ASSUME NEW r, NEW e \in BOOLEAN, NEW l \in BOOLEAN, NEW d \in BOOLEAN,
             e => level \in setup.events, l => level \in setup.logs, CourseOfSlog(r, record, e, l)
      PROVE  Course(r, record, e, l, d)
  BY <1>2, <1>5, CourseIs
<1>6. (event => level \in setup.events) /\ (log => level \in setup.logs)
  BY <1>1, <1>2
<1>7. CASE level \in setup.events /\ todo = Push("extract", Push("event", logs))
  <2>1. Push("event", logs) \in Seq(Doing)
    BY <1>3, DoingNames, PushLaws
  <2>2. CourseOfSlog(Push("event", logs), record, event, log)
    BY <1>4, <1>7 DEF CourseOfSlog
  <2>3. Onward("extract", Push("event", logs), record, event, log, done)
    BY <1>5, <1>6, <2>2 DEF Onward
  <2> QED
    BY <1>7, <2>1, <2>3, DoingNames DEF Progress
<1>8. CASE level \in setup.events /\ todo = Push("event", logs)
  <2>1. CourseOfSlog(logs, record, TRUE, log)
    BY <1>4 DEF CourseOfSlog
  <2>2. \A d \in BOOLEAN : Course(logs, record, TRUE, log, d)
    BY <1>5, <1>6, <1>8, <2>1
  <2>3. Onward("event", logs, record, event, log, done)
    BY <2>2 DEF Onward
  <2> QED
    BY <1>3, <1>8, <2>3, DoingNames DEF Progress
<1>9. ASSUME level \in setup.events => event, todo = Push("gather", tail), level \in setup.logs
      PROVE  Progress(todo, record, event, log, done)
  <2>1. CourseOfSlog(tail, record, event, log)
    BY <1>4, <1>9 DEF CourseOfSlog
  <2>2. Onward("gather", tail, record, event, log, done)
    BY <1>5, <1>6, <2>1 DEF Onward
  <2> QED
    BY <1>3, <1>9, <2>2, DoingNames DEF Progress
<1>10. ASSUME level \in setup.events => event, todo = <<>>,
              level \in setup.logs => level # "fatal" /\ (record.text /\ setup.enabled => log)
       PROVE  Progress(todo, record, event, log, done)
  <2>1. Concluded(record, event, log, done, "none")
    BY <1>1, <1>2, <1>4, <1>10 DEF Concluded, Endings
  <2> QED
    BY <1>10, <2>1 DEF Progress
<1>11. ASSUME level \in setup.events => event, todo = tail, level \in setup.logs
       PROVE  Progress(todo, record, event, log, done)
  <2>1. ASSUME NEW l \in BOOLEAN, record.text /\ setup.enabled => l, level # "fatal"
        PROVE  Course(<<>>, record, event, l, done)
    <3>1. CourseOfSlog(<<>>, record, event, l)
      BY <1>4, <1>11, <2>1 DEF CourseOfSlog
    <3> QED
      BY <1>5, <1>6, <1>11, <3>1
  <2>2. ASSUME NEW l \in BOOLEAN, record.text /\ setup.enabled => l, level = "fatal"
        PROVE  Concluded(record, event, l, done, "fatal")
    BY <1>1, <1>2, <1>11, <2>2 DEF Concluded, Endings
  <2>3. Onward("log", <<>>, record, event, log, done)
    <3>1. CASE level = "fatal"
      BY <1>4, <2>2, <3>1 DEF Onward
    <3>2. CASE level # "fatal"
      BY <1>4, <2>1, <3>2 DEF Onward
    <3> QED
      BY <3>1, <3>2
  <2> QED
    BY <1>11, <2>3, DoingNames DEF Progress
<1>12. CASE (level \in setup.events => event) /\ todo = logs
  <2>1. CASE level \in setup.logs
    BY <1>9, <1>12, <2>1 DEF SlogLogs
  <2>2. CASE level \notin setup.logs
    BY <1>10, <1>12, <2>2 DEF SlogLogs
  <2> QED
    BY <2>1, <2>2
<1> QED
  BY <1>1, <1>7, <1>8, <1>10, <1>11, <1>12 DEF CourseOfSlog

LEMMA ZerologGoesOn ==
  ASSUME setup \in Setups, setup.lib = "zerolog", NEW record \in Fields, NEW todo,
         NEW event \in BOOLEAN, NEW log \in BOOLEAN, NEW done \in BOOLEAN,
         Course(todo, record, event, log, done)
  PROVE  Progress(todo, record, event, log, done)
<1> DEFINE level == record.level
<1>0. level \in Level /\ record.text \in BOOLEAN /\ setup.enabled \in BOOLEAN
  BY DEF Fields, Setups
<1> DEFINE rest == AfterHooks(level)
           flush == IF level \in Endings THEN Push("flush", rest) ELSE rest
           isEvent == ZerologEvent(record)
<1>1. /\ event => IsEvent(level)
      /\ log => IsLog(level)
      /\ CourseOfZerolog(todo, record, event, done)
  BY CourseIs
<1>2. (IsEvent(level) <=> isEvent) /\ ~IsLog(level)
  BY IsEventIs, IsLogIs DEF ZerologEvent
<1>3. rest \in Seq(Doing) /\ flush \in Seq(Doing)
  <2>1. rest \in Seq(Doing)
    BY AfterHooksIs
  <2> QED
    BY <2>1, DoingNames, PushLaws
<1>4. \/ isEvent /\ todo = Push("event", flush)
      \/ isEvent /\ event /\ todo = flush
      \/ todo = rest /\ (isEvent => event /\ (level \in Endings => done))
      \/ ~isEvent /\ todo = Push("crumb", rest)
  BY <1>1 DEF CourseOfZerolog
<1>5. ASSUME NEW r, NEW e \in BOOLEAN, NEW d \in BOOLEAN, e => isEvent, CourseOfZerolog(r, record, e, d)
      PROVE  Course(r, record, e, log, d)
  BY <1>1, <1>2, <1>5, CourseIs
<1>6. ASSUME NEW d \in BOOLEAN, isEvent => event /\ (level \in Endings => d)
      PROVE  Course(rest, record, event, log, d)
  <2>1. CourseOfZerolog(rest, record, event, d)
    BY <1>6 DEF CourseOfZerolog
  <2> QED
    BY <1>1, <1>2, <1>5, <2>1
<1>7. CASE isEvent /\ todo = Push("event", flush)
  <2>1. ASSUME NEW d \in BOOLEAN
        PROVE  Course(flush, record, TRUE, log, d)
    <3>1. CourseOfZerolog(flush, record, TRUE, d)
      BY <1>7 DEF CourseOfZerolog
    <3> QED
      BY <1>5, <1>7, <3>1
  <2>2. Onward("event", flush, record, event, log, done)
    BY <2>1 DEF Onward
  <2> QED
    BY <1>3, <1>7, <2>2, DoingNames DEF Progress
<1>8. CASE todo = rest /\ (isEvent => event /\ (level \in Endings => done))
  <2>1. ASSUME NEW how \in {"none", "panic", "fatal"}, how # "none" <=> level \in Endings
        PROVE  Concluded(record, event, log, done, how)
    BY <1>1, <1>2, <1>8, <2>1 DEF Concluded
  <2> QED
    BY <1>8, <2>1, AfterGoesOn
<1>9. CASE isEvent /\ event /\ todo = flush
  <2>1. CASE level \in Endings
    <3>1. Course(rest, record, event, log, TRUE)
      BY <1>6, <1>9
    <3>2. Onward("flush", rest, record, event, log, done)
      BY <3>1 DEF Onward
    <3> QED
      BY <1>3, <1>9, <2>1, <3>2, DoingNames DEF Progress
  <2>2. CASE level \notin Endings
    BY <1>8, <1>9, <2>2
  <2> QED
    BY <2>1, <2>2
<1>10. CASE ~isEvent /\ todo = Push("crumb", rest)
  <2>1. Onward("crumb", rest, record, event, log, done)
    BY <1>6, <1>10 DEF Onward
  <2> QED
    BY <1>3, <1>10, <2>1, DoingNames DEF Progress
<1> QED
  BY <1>4, <1>7, <1>8, <1>9, <1>10

LEMMA HookTyped ==
  ASSUME setup \in Setups, NEW j \in DOMAIN setup.hooks
  PROVE  setup.hooks[j].kind \in {"event", "log"} /\ j \in 1 .. Len(setup.hooks) /\ Len(setup.hooks) \in Nat
<1> DEFINE K == [kind : {"event", "log"}, levels : SUBSET Level]
           hs == setup.hooks
<1>1. hs \in Seq(K)
  BY DEF Setups
<1> HIDE DEF K, hs
<1>2. Len(hs) \in Nat /\ DOMAIN hs = 1 .. Len(hs)
  BY <1>1
<1>3. hs[j] \in K
  BY <1>1, <1>2 DEF hs
<1>4. hs[j].kind \in {"event", "log"}
  BY <1>3 DEF K
<1> QED
  BY <1>2, <1>4 DEF hs

HooksLeft == 0 .. Len(setup.hooks)

\* Hooks that do not take the level are passed over.
LEMMA LogrusNormal ==
  ASSUME setup \in Setups, NEW record, NEW event, NEW log, NEW k \in HooksLeft, HooksDone(k, record, event, log)
  PROVE  \E m \in HooksLeft :
           /\ HooksLast(record.level, k) = HooksLast(record.level, m) /\ HooksDone(m, record, event, log)
           /\ m > 0 => record.level \in setup.hooks[Len(setup.hooks) - m + 1].levels
<1> DEFINE level == record.level
           Found(n) == \E m \in HooksLeft :
             /\ HooksLast(level, n) = HooksLast(level, m) /\ HooksDone(m, record, event, log)
             /\ m > 0 => level \in setup.hooks[Len(setup.hooks) - m + 1].levels
           S == {n \in Nat : n \in HooksLeft /\ HooksDone(n, record, event, log) => Found(n)}
<1>0. Len(setup.hooks) \in Nat /\ k \in Nat
  BY DEF HooksLeft, Setups
<1>1. 0 \in S
  BY DEF HooksLeft
<1>2. ASSUME NEW n \in Nat, n \in S
      PROVE  n + 1 \in S
  <2> DEFINE j == Len(setup.hooks) - (n + 1) + 1
             hook == setup.hooks[j]
  <2>1. SUFFICES ASSUME n + 1 \in HooksLeft, HooksDone(n + 1, record, event, log)
                 PROVE  Found(n + 1)
    OBVIOUS
  <2>2. CASE level \in hook.levels
    <3>1. n + 1 > 0
      OBVIOUS
    <3> QED
      BY <2>1, <2>2
  <2>3. CASE level \notin hook.levels
    <3>1. n \in HooksLeft /\ n + 1 > 0 /\ (n + 1) - 1 = n /\ n + 1 \in 1 .. Len(setup.hooks) /\ n + 1 \in 0 .. Len(setup.hooks)
      BY <1>0, <2>1 DEF HooksLeft
    <3>2. HooksLast(level, n + 1) = LogrusStages(hook, level) \o HooksLast(level, n) /\ HooksLast(level, n) \in Seq(Doing)
      BY <3>1, HooksLastIs DEF HooksLeft
    <3>3. hook.kind \in {"event", "log"}
      BY <3>1, HooksTyped
    <3>4. LogrusStages(hook, level) = <<>>
      BY <2>3, <3>3, LogrusStagesIs
    <3>5. HooksLast(level, n + 1) = HooksLast(level, n)
      BY <3>2, <3>4, PushJoins, DoingNames
    <3>6. HooksDone(n, record, event, log)
      <4>1. \A i \in 1 .. Len(setup.hooks) - n : i = j \/ i \in 1 .. Len(setup.hooks) - (n + 1)
        BY <1>0, <3>1
      <4> QED
        BY <2>1, <2>3, <4>1 DEF HooksDone
    <3>7. Found(n)
      BY <1>2, <3>1, <3>6
    <3> QED
      BY <3>5, <3>7
  <2> QED
    BY <2>2, <2>3
<1>3. Nat \subseteq S
  <2> HIDE DEF S
  <2> QED
    BY <1>1, <1>2, NatSetInduction
<1> QED
  BY <1>0, <1>3

\* What the hook that comes before the last k - 1 has done, and what it leaves undone
\* for good when it is the last that runs.
LEMMA HookDoes ==
  ASSUME setup \in Setups, setup.lib = "logrus", NEW record \in Fields, NEW event \in BOOLEAN, NEW log \in BOOLEAN,
         NEW k \in HooksLeft, k > 0, HooksDone(k, record, event, log),
         record.level \in setup.hooks[Len(setup.hooks) - k + 1].levels
  PROVE  LET hook == setup.hooks[Len(setup.hooks) - k + 1] IN
         /\ hook.kind = "event" =>
              HooksDone(k - 1, record, TRUE, log) /\ HooksDone(0, WithFailure(record), TRUE, log)
         /\ hook.kind = "log" /\ record.level = "odd" =>
              HooksDone(k - 1, record, event, log) /\ HooksDone(0, WithFailure(record), event, log)
         /\ hook.kind = "log" /\ record.level # "odd" =>
              \A l \in BOOLEAN : (log => l) /\ (record.text /\ setup.enabled => l) =>
                /\ HooksDone(k - 1, record, event, l)
                /\ record.level \in Endings => HooksDone(0, record, event, l)
<1> DEFINE N == Len(setup.hooks)
           p == N - k + 1
           level == record.level
           hook == setup.hooks[p]
           Good(x, j, e, l) == level \in setup.hooks[j].levels =>
             IF setup.hooks[j].kind = "event" THEN e \/ Cut(x, "event")
             ELSE level # "odd" /\ record.text /\ setup.enabled => l \/ Cut(x, "log")
<1>0. N \in Nat /\ k \in Nat /\ k <= N /\ DOMAIN setup.hooks = 1 .. N /\ p \in 1 .. N /\ N - k = p - 1 /\ N - (k - 1) = p /\ N - 0 = N
  BY DEF HooksLeft, Setups
<1>1. \A j \in 1 .. N : setup.hooks[j].kind \in {"event", "log"}
  BY <1>0, HookTyped
<1>2. \A j \in 1 .. p - 1, e \in BOOLEAN, l \in BOOLEAN :
        (event => e) /\ (log => l) => Good(record, j, e, l) /\ Good(WithFailure(record), j, e, l)
  <2>1. \A j \in 1 .. p - 1, e \in BOOLEAN, l \in BOOLEAN : (event => e) /\ (log => l) => Good(record, j, e, l)
    BY <1>0 DEF HooksDone
  <2>2. ASSUME NEW j, NEW e, NEW l, Good(record, j, e, l)
        PROVE  Good(WithFailure(record), j, e, l)
    BY <2>2, WithFailureIs
  <2> QED
    BY <2>1, <2>2
<1>3. ASSUME NEW e \in BOOLEAN, NEW l \in BOOLEAN, event => e, log => l, Good(record, p, e, l)
      PROVE  HooksDone(k - 1, record, e, l)
  <2>1. \A j \in 1 .. p : j = p \/ j \in 1 .. p - 1
    BY <1>0
  <2>2. \A j \in 1 .. p : Good(record, j, e, l)
    BY <1>2, <1>3, <2>1
  <2> QED
    BY <1>0, <2>2 DEF HooksDone
<1>4. ASSUME NEW x \in {record, WithFailure(record)}, NEW e \in BOOLEAN, NEW l \in BOOLEAN, event => e, log => l,
             Good(record, p, e, l), \A j \in 1 .. N : j > p => Cut(x, setup.hooks[j].kind)
      PROVE  HooksDone(0, x, e, l)
  <2>1. \A j \in 1 .. N : j = p \/ j \in 1 .. p - 1 \/ j > p
    BY <1>0
  <2>2. ASSUME NEW j \in 1 .. N, j > p
        PROVE  Good(x, j, e, l)
    BY <1>1, <1>4, <2>2
  <2>3. Good(x, p, e, l)
    BY <1>4, WithFailureIs
  <2>4. \A j \in 1 .. N : Good(x, j, e, l)
    BY <1>2, <1>4, <2>1, <2>2, <2>3
  <2>5. x.level = level /\ x.text = record.text
    BY <1>4, WithFailureIs
  <2> QED
    BY <1>0, <2>4, <2>5 DEF HooksDone
<1>5. ASSUME NEW j \in 1 .. N, j > p, hook.kind = "log", level \in Endings
      PROVE  Cut(record, setup.hooks[j].kind)
  BY <1>0, <1>5 DEF Cut
<1>6. ASSUME NEW j \in 1 .. N, j > p, hook.kind = "event" \/ level = "odd"
      PROVE  Cut(WithFailure(record), setup.hooks[j].kind)
  BY <1>0, <1>6, WithFailureIs DEF Cut
<1>7. CASE hook.kind = "event"
  <2>1. Good(record, p, TRUE, log)
    BY <1>7
  <2>2. HooksDone(k - 1, record, TRUE, log)
    BY <1>3, <2>1
  <2>3. HooksDone(0, WithFailure(record), TRUE, log)
    BY <1>4, <1>6, <1>7, <2>1
  <2> QED
    BY <1>7, <2>2, <2>3
<1>8. CASE hook.kind = "log" /\ level = "odd"
  <2>1. Good(record, p, event, log)
    BY <1>8
  <2>2. HooksDone(k - 1, record, event, log)
    BY <1>3, <2>1
  <2>3. HooksDone(0, WithFailure(record), event, log)
    BY <1>4, <1>6, <1>8, <2>1
  <2> QED
    BY <1>8, <2>2, <2>3
<1>9. CASE hook.kind = "log" /\ level # "odd"
  <2>1. ASSUME NEW l \in BOOLEAN, log => l, record.text /\ setup.enabled => l
        PROVE  HooksDone(k - 1, record, event, l) /\ (level \in Endings => HooksDone(0, record, event, l))
    <3>1. Good(record, p, event, l)
      BY <1>9, <2>1
    <3>2. HooksDone(k - 1, record, event, l)
      BY <1>3, <2>1, <3>1
    <3>3. level \in Endings => HooksDone(0, record, event, l)
      BY <1>4, <1>5, <1>9, <2>1, <3>1
    <3> QED
      BY <3>2, <3>3
  <2> QED
    BY <1>9, <2>1
<1> QED
  BY <1>0, <1>1, <1>7, <1>8, <1>9

LEMMA LogrusConcludes ==
  ASSUME setup \in Setups, setup.lib = "logrus", NEW record \in Fields,
         NEW event \in BOOLEAN, NEW log \in BOOLEAN, NEW done \in BOOLEAN, NEW how,
         event => IsEvent(record.level), log => IsLog(record.level), HooksDone(0, record, event, log),
         how # "none" <=> record.level \in Endings
  PROVE  Concluded(record, event, log, done, how)
<1> DEFINE level == record.level
<1>1. Len(setup.hooks) \in Nat /\ DOMAIN setup.hooks = 1 .. Len(setup.hooks) /\ Len(setup.hooks) - 0 = Len(setup.hooks)
  BY DEF Setups
<1>2. IsEvent(level) => event \/ Cut(record, "event")
  BY <1>1, IsEventIs DEF HooksDone
<1>3. IsLog(level) /\ record.text /\ setup.enabled => log \/ Cut(record, "log")
  BY <1>1, IsLogIs DEF HooksDone
<1> QED
  BY <1>2, <1>3 DEF Concluded

LEMMA LogrusEnds ==
  ASSUME setup \in Setups, setup.lib = "logrus", NEW record \in Fields,
         NEW event \in BOOLEAN, NEW log \in BOOLEAN, NEW done \in BOOLEAN,
         event => IsEvent(record.level), log => IsLog(record.level), HooksDone(0, record, event, log)
  PROVE  Progress(AfterHooks(record.level), record, event, log, done)
<1> DEFINE level == record.level
<1>1. CASE level = "panic"
  <2>1. AfterHooks(level) = Push("panic", <<>>)
    BY <1>1, AfterHooksIs
  <2>2. Concluded(record, event, log, done, "panic")
    BY <1>1, LogrusConcludes DEF Endings
  <2>3. Onward("panic", <<>>, record, event, log, done)
    BY <2>2 DEF Onward
  <2> QED
    BY <2>1, <2>3, DoingNames DEF Progress
<1>2. CASE level = "fatal"
  <2>1. AfterHooks(level) = Push("flush", Push("exit", <<>>)) /\ Push("exit", <<>>) \in Seq(Doing)
    BY <1>2, AfterHooksIs, DoingNames, PushLaws
  <2>2. CourseOfLogrus(Push("exit", <<>>), record, event, log)
    BY <1>2 DEF CourseOfLogrus
  <2>3. Course(Push("exit", <<>>), record, event, log, TRUE)
    BY <2>2, CourseIs
  <2>4. Onward("flush", Push("exit", <<>>), record, event, log, done)
    BY <2>3 DEF Onward
  <2> QED
    BY <2>1, <2>4, DoingNames DEF Progress
<1>3. CASE level \notin Endings
  <2>1. AfterHooks(level) = <<>>
    BY <1>3, AfterHooksIs
  <2>2. Concluded(record, event, log, done, "none")
    BY <1>3, LogrusConcludes
  <2> QED
    BY <2>1, <2>2 DEF Progress
<1> QED
  BY <1>1, <1>2, <1>3 DEF Endings

LEMMA LogrusGoesOn ==
  ASSUME setup \in Setups, setup.lib = "logrus", NEW record \in Fields, NEW todo,
         NEW event \in BOOLEAN, NEW log \in BOOLEAN, NEW done \in BOOLEAN,
         Course(todo, record, event, log, done)
  PROVE  Progress(todo, record, event, log, done)
<1> DEFINE level == record.level
           N == Len(setup.hooks)
<1>0. N \in Nat /\ level \in Level /\ record.text \in BOOLEAN /\ setup.enabled \in BOOLEAN /\ setup.fallback \in BOOLEAN
      /\ DOMAIN setup.hooks = 1 .. N
  BY DEF Fields, Setups
<1>1. /\ event => IsEvent(level)
      /\ log => IsLog(level)
      /\ CourseOfLogrus(todo, record, event, log)
  BY CourseIs
<1>2. ASSUME NEW r, NEW e \in BOOLEAN, NEW l \in BOOLEAN, NEW d \in BOOLEAN,
             e => IsEvent(level), l => IsLog(level), CourseOfLogrus(r, record, e, l)
      PROVE  Course(r, record, e, l, d)
  BY <1>2, CourseIs
<1>3. ASSUME NEW m \in HooksLeft, NEW e \in BOOLEAN, NEW l \in BOOLEAN, NEW d \in BOOLEAN,
             e => IsEvent(level), l => IsLog(level), HooksDone(m, record, e, l)
      PROVE  Course(HooksLast(level, m), record, e, l, d)
  <2>1. CourseOfLogrus(HooksLast(level, m), record, e, l)
    BY <1>3 DEF CourseOfLogrus, HooksLeft
  <2> QED
    BY <1>2, <1>3, <2>1
<1>4. ASSUME NEW e \in BOOLEAN, NEW l \in BOOLEAN, NEW d \in BOOLEAN,
             e => IsEvent(level), l => IsLog(level), HooksDone(0, WithFailure(record), e, l)
      PROVE  Course(AfterHooks(level), WithFailure(record), e, l, d)
  <2> DEFINE x == WithFailure(record)
  <2>1. 0 \in 0 .. N /\ HooksLast(level, 0) = AfterHooks(level)
    BY <1>0, HooksLastIs
  <2>2. x.level = level
    BY WithFailureIs
  <2>3. HooksDone(0, x, e, l)
    BY <1>4
  <2> HIDE DEF x
  <2>4. AfterHooks(level) = HooksLast(x.level, 0)
    BY <2>1, <2>2
  <2>5. CourseOfLogrus(AfterHooks(level), x, e, l)
    BY <2>1, <2>3, <2>4 DEF CourseOfLogrus
  <2>6. Course(AfterHooks(level), x, e, l, d)
    BY <1>4, <2>2, <2>5, CourseIs
  <2> QED
    BY <2>6 DEF x
<1>5. EndOfEmit(level) = IF level \in Endings THEN level ELSE "none"
  BY <1>0, EndOfEmitIs
<1>6. ASSUME NEW k \in HooksLeft, k > 0, HooksDone(k, record, event, log),
             level \in setup.hooks[N - k + 1].levels, setup.hooks[N - k + 1].kind = "log", level # "odd"
      PROVE  Onward("log", HooksLast(level, k - 1), record, event, log, done)
  <2>1. k - 1 \in HooksLeft /\ N - k + 1 \in DOMAIN setup.hooks
    BY <1>0, <1>6 DEF HooksLeft
  <2>2. IsLog(level)
    BY <1>6, <2>1, IsLogIs
  <2>3. \A l \in BOOLEAN : (log => l) /\ (record.text /\ setup.enabled => l) =>
          HooksDone(k - 1, record, event, l) /\ (level \in Endings => HooksDone(0, record, event, l))
    BY <1>6, HookDoes
  <2>4. ASSUME NEW l \in BOOLEAN, log => l, record.text /\ setup.enabled => l
        PROVE  IF EndOfEmit(level) = "none" THEN Course(HooksLast(level, k - 1), record, event, l, done)
               ELSE Concluded(record, event, l, done, EndOfEmit(level))
    <3>1. CASE level \in Endings
      <4>1. HooksDone(0, record, event, l) /\ EndOfEmit(level) = level /\ level # "none"
        BY <1>5, <2>3, <2>4, <3>1 DEF Endings
      <4>2. Concluded(record, event, l, done, level)
        BY <1>1, <2>2, <3>1, <4>1, LogrusConcludes
      <4> QED
        BY <4>1, <4>2
    <3>2. CASE level \notin Endings
      BY <1>1, <1>3, <1>5, <2>1, <2>2, <2>3, <2>4, <3>2
    <3> QED
      BY <3>1, <3>2
  <2> QED
    BY <2>4 DEF Onward
<1>7. ASSUME NEW k \in HooksLeft, todo = HooksLast(level, k), HooksDone(k, record, event, log),
             k > 0 => level \in setup.hooks[N - k + 1].levels
      PROVE  Progress(todo, record, event, log, done)
  <2>1. CASE k = 0
    <3>1. HooksLast(level, k) = AfterHooks(level)
      BY <1>0, <2>1, HooksLastIs DEF HooksLeft
    <3> QED
      BY <1>1, <1>7, <2>1, <3>1, LogrusEnds
  <2>2. CASE k > 0
    <3> DEFINE hook == setup.hooks[N - k + 1]
               rest == HooksLast(level, k - 1)
    <3>1. k - 1 \in HooksLeft /\ N - k + 1 \in DOMAIN setup.hooks /\ level \in hook.levels
          /\ k \in 1 .. N /\ k \in 0 .. N /\ k - 1 \in 0 .. N
      BY <1>0, <1>7, <2>2 DEF HooksLeft
    <3>2. todo = LogrusStages(hook, level) \o rest /\ rest \in Seq(Doing) /\ hook.kind \in {"event", "log"}
      <4>1. todo = LogrusStages(hook, level) \o rest
        BY <1>7, <2>2, <3>1, HooksLastIs
      <4>2. rest \in Seq(Doing)
        BY <3>1, HooksLastIs
      <4> QED
        BY <3>1, <4>1, <4>2, HooksTyped
    <3>3. CASE hook.kind = "event"
      <4>1. IsEvent(level)
        BY <3>1, <3>3, IsEventIs
      <4>2. todo = Push("event", rest)
        <5>1. LogrusStages(hook, level) = <<"event">>
          BY <3>1, <3>2, <3>3, LogrusStagesIs
        <5> QED
          BY <3>2, <5>1 DEF Push
      <4>3. HooksDone(k - 1, record, TRUE, log) /\ HooksDone(0, WithFailure(record), TRUE, log)
        BY <1>7, <2>2, <3>1, <3>3, HookDoes
      <4>4. \A d \in BOOLEAN : Course(rest, record, TRUE, log, d)
        BY <1>1, <1>3, <3>1, <4>1, <4>3
      <4>5. \A d \in BOOLEAN : Course(AfterHooks(level), WithFailure(record), TRUE, log, d)
        BY <1>1, <1>4, <4>1, <4>3
      <4>6. Onward("event", rest, record, event, log, done)
        BY <4>4, <4>5 DEF Onward
      <4> QED
        BY <3>2, <4>2, <4>6, DoingNames DEF Progress
    <3>4. CASE hook.kind = "log" /\ level = "odd"
      <4>1. todo = Push("invalid", rest)
        <5>1. LogrusStages(hook, level) = <<"invalid">>
          BY <3>1, <3>2, <3>4, LogrusStagesIs
        <5> QED
          BY <3>2, <5>1 DEF Push
      <4>2. HooksDone(k - 1, record, event, log) /\ HooksDone(0, WithFailure(record), event, log)
        BY <1>7, <2>2, <3>1, <3>4, HookDoes
      <4>3. Course(rest, record, event, log, done) /\ Course(AfterHooks(level), WithFailure(record), event, log, done)
        BY <1>1, <1>3, <1>4, <3>1, <4>2
      <4>4. Onward("invalid", rest, record, event, log, done)
        BY <4>3 DEF Onward
      <4> QED
        BY <3>2, <4>1, <4>4, DoingNames DEF Progress
    <3>5. CASE hook.kind = "log" /\ level # "odd"
      <4>1. todo = Push("gather", Push("log", rest)) /\ Push("log", rest) \in Seq(Doing)
        <5>1. LogrusStages(hook, level) = <<"gather", "log">>
          BY <3>1, <3>2, <3>5, LogrusStagesIs
        <5>2. <<"gather", "log">> \o rest = Push("gather", Push("log", rest))
          BY <3>2, PushTwo, DoingNames
        <5>3. Push("log", rest) \in Seq(Doing)
          BY <3>2, PushLaws, DoingNames
        <5> QED
          BY <3>2, <5>1, <5>2, <5>3
      <4>2. CourseOfLogrus(Push("log", rest), record, event, log)
        BY <1>7, <3>1, <3>5 DEF CourseOfLogrus, HooksLeft
      <4>3. Course(Push("log", rest), record, event, log, done)
        BY <1>1, <1>2, <4>2
      <4>4. Onward("gather", Push("log", rest), record, event, log, done)
        BY <4>3 DEF Onward
      <4> QED
        BY <4>1, <4>4, DoingNames DEF Progress
    <3> QED
      BY <3>2, <3>3, <3>4, <3>5
  <2> QED
    BY <1>0, <2>1, <2>2 DEF HooksLeft
<1>8. CASE \E k \in 0 .. N : todo = HooksLast(level, k) /\ HooksDone(k, record, event, log)
  <2>1. PICK k \in HooksLeft : todo = HooksLast(level, k) /\ HooksDone(k, record, event, log)
    BY <1>8 DEF HooksLeft
  <2>2. PICK m \in HooksLeft :
           /\ HooksLast(level, k) = HooksLast(level, m) /\ HooksDone(m, record, event, log)
           /\ m > 0 => level \in setup.hooks[N - m + 1].levels
    BY <2>1, LogrusNormal
  <2> QED
    BY <1>7, <2>1, <2>2
<1>9. CASE \E k \in 1 .. N :
             LET hook == setup.hooks[N - k + 1] IN
             /\ todo = Push("log", HooksLast(level, k - 1))
             /\ hook.kind = "log" /\ level \in hook.levels /\ level # "odd"
             /\ HooksDone(k, record, event, log)
  <2>1. PICK k \in 1 .. N :
             LET hook == setup.hooks[N - k + 1] IN
             /\ todo = Push("log", HooksLast(level, k - 1))
             /\ hook.kind = "log" /\ level \in hook.levels /\ level # "odd"
             /\ HooksDone(k, record, event, log)
    BY <1>9
  <2>2. k \in HooksLeft /\ k > 0 /\ k - 1 \in 0 .. N
    BY <1>0 DEF HooksLeft
  <2>3. HooksLast(level, k - 1) \in Seq(Doing)
    BY <2>2, HooksLastIs
  <2>4. Onward("log", HooksLast(level, k - 1), record, event, log, done)
    BY <1>6, <2>1, <2>2
  <2> QED
    BY <2>1, <2>3, <2>4, DoingNames DEF Progress
<1>10. CASE todo = Push("exit", <<>>) /\ level = "fatal" /\ HooksDone(0, record, event, log)
  <2>1. Concluded(record, event, log, done, "fatal")
    BY <1>1, <1>10, LogrusConcludes DEF Endings
  <2>2. Onward("exit", <<>>, record, event, log, done)
    BY <2>1 DEF Onward
  <2> QED
    BY <1>10, <2>2, DoingNames DEF Progress
<1> QED
  BY <1>1, <1>8, <1>9, <1>10 DEF CourseOfLogrus

LEMMA GoesOn ==
  ASSUME setup \in Setups, NEW record \in Fields, NEW todo,
         NEW event \in BOOLEAN, NEW log \in BOOLEAN, NEW done \in BOOLEAN,
         Course(todo, record, event, log, done)
  PROVE  Progress(todo, record, event, log, done)
<1>1. setup.lib \in Libraries
  BY DEF Setups
<1> QED
  BY <1>1, SentryGoesOn, MeterGoesOn, SlogGoesOn, LogrusGoesOn, ZapGoesOn, ZerologGoesOn DEF Libraries

\* A record starts with nothing captured.
LEMMA SetsOut ==
  ASSUME setup \in Setups, NEW record \in Fields, NEW done \in BOOLEAN,
         setup.lib = "slog" => record.level # "panic", setup.lib = "meter" => record.level = "low"
  PROVE  Course(Stages(record.level), record, FALSE, FALSE, done)
<1> DEFINE level == record.level
           rest == AfterHooks(level)
<1>0. setup.lib \in Libraries
  BY DEF Setups
<1>1. <<"gather", "log">> = Push("gather", Push("log", <<>>)) /\ <<"gather", "metric">> = Push("gather", Push("metric", <<>>))
      /\ <<"event">> = Push("event", <<>>) /\ <<"crumb">> = Push("crumb", <<>>)
      /\ <<"extract", "event">> = Push("extract", Push("event", <<>>)) /\ <<"flush">> = Push("flush", <<>>)
      /\ <<"event", "flush">> = Push("event", Push("flush", <<>>))
  BY PushTwo, DoingNames
<1>2. CASE setup.lib = "sentry"
  <2>1. Stages(level) = <<"gather", "log">>
    BY <1>2 DEF Stages, LogStages
  <2>2. CourseOfSentry(Stages(level), record, FALSE)
    BY <1>1, <2>1 DEF CourseOfSentry
  <2> QED
    BY <1>2, <2>2, CourseIs
<1>3. CASE setup.lib = "meter"
  <2>1. Stages(level) = <<"gather", "metric">>
    BY <1>3 DEF Stages
  <2>2. CourseOfMeter(Stages(level), record)
    BY <1>1, <1>3, <2>1 DEF CourseOfMeter
  <2> QED
    BY <1>3, <2>2, CourseIs
<1>4. CASE setup.lib = "slog"
  <2> DEFINE early == Then(<<"extract", "event">>, level \in setup.events)
             late == Then(LogStages, level \in setup.logs)
  <2>1. Stages(level) = early \o late
    BY <1>4 DEF Stages, SlogStages
  <2>2. late = SlogLogs(level) /\ late \in Seq(Doing)
    <3>1. late = SlogLogs(level)
      BY <1>1 DEF Then, LogStages, SlogLogs
    <3>2. Push("log", <<>>) \in Seq(Doing)
      BY DoingNames, PushLaws
    <3>3. Push("gather", Push("log", <<>>)) \in Seq(Doing)
      BY <3>2, DoingNames, PushLaws
    <3> QED
      BY <3>1, <3>3, DoingNames DEF SlogLogs
  <2>3. CASE level \in setup.events
    <3>1. early = <<"extract", "event">>
      BY <2>3 DEF Then
    <3>2. <<"extract", "event">> \o late = Push("extract", Push("event", late))
      BY <2>2, PushTwo, DoingNames
    <3>3. Stages(level) = Push("extract", Push("event", SlogLogs(level)))
      BY <2>1, <2>2, <3>1, <3>2
    <3>4. CourseOfSlog(Stages(level), record, FALSE, FALSE)
      BY <1>4, <2>3, <3>3 DEF CourseOfSlog
    <3> QED
      BY <1>4, <3>4, CourseIs
  <2>4. CASE level \notin setup.events
    <3>1. early = <<>>
      BY <2>4 DEF Then
    <3>2. <<>> \o late = late
      BY <2>2, PushJoins, DoingNames
    <3>3. Stages(level) = SlogLogs(level)
      BY <2>1, <2>2, <3>1, <3>2
    <3>4. CourseOfSlog(Stages(level), record, FALSE, FALSE)
      BY <1>4, <2>4, <3>3 DEF CourseOfSlog
    <3> QED
      BY <1>4, <3>4, CourseIs
  <2> QED
    BY <2>3, <2>4
<1>5. CASE setup.lib = "zap"
  <2> DEFINE early == Then(LogStages, level \in setup.logs)
  <2>1. Stages(level) = early \o rest /\ rest \in Seq(Doing)
    BY <1>5, AfterHooksIs DEF Stages
  <2>2. CASE level \in setup.logs
    <3>1. early = <<"gather", "log">>
      BY <2>2 DEF Then, LogStages
    <3>2. <<"gather", "log">> \o rest = Push("gather", Push("log", rest))
      BY <2>1, PushTwo, DoingNames
    <3>3. CourseOfZap(Stages(level), record, FALSE)
      BY <2>1, <2>2, <3>1, <3>2 DEF CourseOfZap
    <3> QED
      BY <1>5, <3>3, CourseIs
  <2>3. CASE level \notin setup.logs
    <3>1. early = <<>>
      BY <2>3 DEF Then
    <3>2. <<>> \o rest = rest
      BY <2>1, PushJoins, DoingNames
    <3>3. CourseOfZap(Stages(level), record, FALSE)
      BY <2>1, <2>3, <3>1, <3>2 DEF CourseOfZap
    <3> QED
      BY <1>5, <3>3, CourseIs
  <2> QED
    BY <2>2, <2>3
<1>6. CASE setup.lib = "zerolog"
  <2>1. Stages(level) = ZerologStages(level) \o rest /\ rest \in Seq(Doing)
    BY <1>6, AfterHooksIs DEF Stages
  <2>2. CASE level \in setup.events /\ level # "odd"
    <3>1. CASE level \in Endings
      <4>1. ZerologStages(level) = <<"event">> \o <<"flush">>
        BY <2>2, <3>1 DEF ZerologStages, Then
      <4>2. <<"event">> \o <<"flush">> = <<"event", "flush">>
        <5>1. <<"event">> \o Push("flush", <<>>) = Push("event", Push("flush", <<>>))
          BY DEF Push
        <5> QED
          BY <1>1, <5>1
      <4>3. <<"event", "flush">> \o rest = Push("event", Push("flush", rest))
        BY <2>1, PushTwo, DoingNames
      <4>4. CourseOfZerolog(Stages(level), record, FALSE, done)
        BY <2>1, <2>2, <3>1, <4>1, <4>2, <4>3 DEF CourseOfZerolog, ZerologEvent
      <4> QED
        BY <1>6, <4>4, CourseIs
    <3>2. CASE level \notin Endings
      <4>1. ZerologStages(level) = <<"event">> \o <<>>
        BY <2>2, <3>2 DEF ZerologStages, Then
      <4>2. <<"event">> \o <<>> = <<"event">>
        BY <1>1 DEF Push
      <4>3. <<"event">> \o rest = Push("event", rest)
        BY DEF Push
      <4>4. CourseOfZerolog(Stages(level), record, FALSE, done)
        BY <2>1, <2>2, <3>2, <4>1, <4>2, <4>3 DEF CourseOfZerolog, ZerologEvent
      <4> QED
        BY <1>6, <4>4, CourseIs
    <3> QED
      BY <3>1, <3>2
  <2>3. CASE ~(level \in setup.events /\ level # "odd")
    <3>1. ZerologStages(level) = <<>> \/ ZerologStages(level) = <<"crumb">>
      BY <2>3 DEF ZerologStages, Then
    <3>2. <<>> \o rest = rest
      BY <2>1, PushJoins, DoingNames
    <3>3. <<"crumb">> \o rest = Push("crumb", rest)
      BY DEF Push
    <3>4. CourseOfZerolog(Stages(level), record, FALSE, done)
      BY <2>1, <2>3, <3>1, <3>2, <3>3 DEF CourseOfZerolog, ZerologEvent
    <3> QED
      BY <1>6, <3>4, CourseIs
  <2> QED
    BY <2>2, <2>3
<1>7. CASE setup.lib = "logrus"
  <2> DEFINE N == Len(setup.hooks)
  <2>1. N \in Nat /\ N \in 0 .. N
    BY DEF Setups
  <2>2. Stages(level) = HooksLast(level, N)
    BY <1>7 DEF Stages
  <2>3. HooksDone(N, record, FALSE, FALSE)
    <3>1. \A j \in 1 .. N - N : FALSE
      BY <2>1
    <3> QED
      BY <3>1 DEF HooksDone
  <2>4. CourseOfLogrus(Stages(level), record, FALSE, FALSE)
    BY <2>1, <2>2, <2>3 DEF CourseOfLogrus
  <2> QED
    BY <1>7, <2>4, CourseIs
<1> QED
  BY <1>0, <1>2, <1>3, <1>4, <1>5, <1>6, <1>7 DEF Libraries

\* What a goroutine is to do is a sequence of stages.
LEMMA OnlyDoing ==
  ASSUME setup \in Setups, NEW record \in Fields, NEW todo,
         NEW event \in BOOLEAN, NEW log \in BOOLEAN, NEW done \in BOOLEAN,
         Course(todo, record, event, log, done)
  PROVE  todo = <<>> \/ \E x \in Doing, rest \in Seq(Doing) :
                          /\ todo = Push(x, rest) /\ todo # <<>> /\ Head(todo) = x /\ Tail(todo) = rest
                          /\ Onward(x, rest, record, event, log, done)
<1>1. Progress(todo, record, event, log, done)
  BY GoesOn
<1>2. CASE \E x \in Doing, rest \in Seq(Doing) : todo = Push(x, rest) /\ Onward(x, rest, record, event, log, done)
  <2>1. PICK x \in Doing, rest \in Seq(Doing) : todo = Push(x, rest) /\ Onward(x, rest, record, event, log, done)
    BY <1>2
  <2>2. todo # <<>> /\ Head(todo) = x /\ Tail(todo) = rest
    BY <2>1, PushLaws
  <2> QED
    BY <2>1, <2>2
<1> QED
  BY <1>1, <1>2 DEF Progress

\* The items of the record with that number, among the first n.
EventIn(hs, n, number) ==
  \E i \in 1 .. n : hs[i].number = number /\ hs[i].kind \in {"event", "dropped"}
LogIn(hs, n, number) ==
  \E i \in 1 .. n : hs[i].number = number /\ hs[i].kind = "log"
AllFlushed(hs, n, number, upto) ==
  \A i \in 1 .. n : hs[i].number = number /\ hs[i].kind = "event" => i <= upto

AttrWords == {Unset, "entry", "context", "logger", "default"}
Texts == AttrWords \cup {Values[k] : k \in DOMAIN Values}
Items ==
  [kind : {"event", "dropped", "crumb", "log", "metric"}, number : Nat, by : Nat, entry : BOOLEAN,
   hub : {"context", "hook", "logger"}, value : Texts, context : Nat]
Fates == [record : Fields, fate : {"none", "panic", "fatal"}, items : Nat, flushed : Nat]
Work == [record : {Nothing} \cup Fields, todo : Seq(Doing), scope : AttrWords \ {"entry"}]

HasRecord(g) == work[g].record # Nothing
Number(g) == work[g].record.number

TypedLog ==
  /\ setup \in Logging
  /\ instance \in Seq(Texts)
  /\ changes \in Seq([from : Nat, to : Nat]) /\ Len(changes) <= NumSets
  /\ \A n \in DOMAIN changes : changes[n].from \in DOMAIN instance
  /\ room \in Seq({Nothing} \cup Fields) /\ Len(room) = Len(instance)
  /\ work \in [Logger -> Work]
  /\ \A g \in Logger : HasRecord(g) => work[g].record.by \in DOMAIN instance
  /\ \A g \in Logger : ~HasRecord(g) => work[g].todo = <<>>
  /\ logged \in Seq(Items) /\ flushed \in 0 .. Len(logged)
  /\ fates \subseteq Fates /\ \A end \in fates : end.items <= Len(logged)

\* Records have numbers of their own.
Numbered ==
  /\ IsFiniteSet(fates)
  /\ \A g \in Logger : HasRecord(g) => Number(g) \in 1 .. Logged
  /\ \A end \in fates : end.record.number \in 1 .. Logged
  /\ \A i \in 1 .. Len(logged) : logged[i].number \in 1 .. Logged
  /\ \A g, h \in Logger : HasRecord(g) /\ HasRecord(h) /\ g # h => Number(g) # Number(h)
  /\ \A g \in Logger, end \in fates : HasRecord(g) => Number(g) # end.record.number

\* What is still to be done is what is left of the record's stages.
OnCourse ==
  \A g \in Logger : HasRecord(g) =>
    Course(work[g].todo, work[g].record, EventIn(logged, Len(logged), Number(g)), LogIn(logged, Len(logged), Number(g)),
           AllFlushed(logged, Len(logged), Number(g), flushed))

Ended ==
  \A end \in fates :
    Concluded(end.record, EventIn(logged, end.items, end.record.number), LogIn(logged, end.items, end.record.number),
              AllFlushed(logged, end.items, end.record.number, end.flushed), end.fate)

\* The attributes of i may have come from the n-th change.
Reached(n, i, all) ==
  \E line \in SUBSET (n .. Len(all)) :
    /\ n \in line
    /\ \A m \in line : \/ \A k \in line : k >= m
                       \/ \E k \in line : k < m /\ all[k].to = all[m].from
    /\ \E m \in line : all[m].to = i

SetValues(n) == {Values[k] : k \in 1 .. n}

\* Attributes are of those that have been set, and come from where they were set.
Owned ==
  \A i \in DOMAIN instance :
    /\ instance[i] \in {Unset} \cup SetValues(Len(changes))
    /\ \A n \in DOMAIN changes : instance[i] = Values[n] => Reached(n, i, changes)

Fair(one) ==
  /\ ~HasRoom(one.by) => one.context = one.number
  /\ one.kind \in {"log", "metric"} => (one.value = "entry" <=> one.entry)
  /\ one.value \in AttrWords \cup SetValues(Len(changes))
  /\ \A n \in DOMAIN changes : one.value = Values[n] => Reached(n, one.by, changes)

AllFair == \A i \in DOMAIN logged : Fair(logged[i])

LogInv == TypedLog /\ Numbered /\ OnCourse /\ Ended /\ Owned /\ AllFair

-----------------------------------------------------------------------------
\* Only the last of the items is new.
OneMore(hs, new, number, upto) ==
  LET r == Append(hs, new) IN
  /\ r \in Seq(Items) /\ Len(r) = Len(hs) + 1 /\ Len(hs) \in Nat
  /\ EventIn(r, Len(r), number) <=>
       EventIn(hs, Len(hs), number) \/ (new.number = number /\ new.kind \in {"event", "dropped"})
  /\ LogIn(r, Len(r), number) <=> LogIn(hs, Len(hs), number) \/ (new.number = number /\ new.kind = "log")
  /\ AllFlushed(r, Len(r), number, upto) <=>
       AllFlushed(hs, Len(hs), number, upto) /\ (new.number = number /\ new.kind = "event" => Len(r) <= upto)

LEMMA OneMoreItem ==
  ASSUME NEW hs \in Seq(Items), NEW new \in Items, NEW number, NEW upto \in Nat
  PROVE  OneMore(hs, new, number, upto)
<1> DEFINE r == Append(hs, new)
           n == Len(hs)
<1>1. r \in Seq(Items) /\ Len(r) = n + 1 /\ n \in Nat /\ r[n + 1] = new /\ \A i \in 1 .. n : r[i] = hs[i]
  OBVIOUS
<1> HIDE DEF r, n
<1>2. \A i \in 1 .. n + 1 : i = n + 1 \/ i \in 1 .. n
  BY <1>1
<1>3. n + 1 \in 1 .. n + 1 /\ \A i \in 1 .. n : i \in 1 .. n + 1
  BY <1>1
<1>4. EventIn(r, n + 1, number) <=> EventIn(hs, n, number) \/ (new.number = number /\ new.kind \in {"event", "dropped"})
  BY <1>1, <1>2, <1>3 DEF EventIn
<1>5. LogIn(r, n + 1, number) <=> LogIn(hs, n, number) \/ (new.number = number /\ new.kind = "log")
  BY <1>1, <1>2, <1>3 DEF LogIn
<1>6. AllFlushed(r, n + 1, number, upto) <=>
        AllFlushed(hs, n, number, upto) /\ (new.number = number /\ new.kind = "event" => n + 1 <= upto)
  BY <1>1, <1>2, <1>3 DEF AllFlushed
<1> QED
  BY <1>1, <1>4, <1>5, <1>6 DEF OneMore, r, n

\* What came before is as it was.
AsBefore(hs, r, m) ==
  \A number, upto :
    /\ EventIn(r, m, number) <=> EventIn(hs, m, number)
    /\ LogIn(r, m, number) <=> LogIn(hs, m, number)
    /\ AllFlushed(r, m, number, upto) <=> AllFlushed(hs, m, number, upto)

LEMMA BeforeAppend ==
  ASSUME NEW hs \in Seq(Items), NEW new \in Items, NEW m \in 0 .. Len(hs)
  PROVE  AsBefore(hs, Append(hs, new), m)
<1> DEFINE r == Append(hs, new)
<1>1. Len(hs) \in Nat /\ \A i \in 1 .. Len(hs) : r[i] = hs[i]
  OBVIOUS
<1> HIDE DEF r
<1>2. \A i \in 1 .. m : r[i] = hs[i]
  BY <1>1
<1>3. AsBefore(hs, r, m)
  BY <1>2 DEF AsBefore, EventIn, LogIn, AllFlushed
<1> QED
  BY <1>3 DEF r

LEMMA Booleans ==
  ASSUME NEW hs, NEW m, NEW number, NEW upto
  PROVE  EventIn(hs, m, number) \in BOOLEAN /\ LogIn(hs, m, number) \in BOOLEAN /\ AllFlushed(hs, m, number, upto) \in BOOLEAN
BY DEF EventIn, LogIn, AllFlushed

LEMMA FieldsHave ==
  ASSUME TypedLog, NEW g \in Logger, HasRecord(g)
  PROVE  /\ work[g] \in Work /\ work[g].record \in Fields /\ Number(g) \in Nat \ {0} /\ work[g].record.by \in DOMAIN instance
         /\ work[g].record.level \in Level /\ work[g].record.text \in BOOLEAN /\ work[g].record.entry \in BOOLEAN
         /\ work[g].record.hub \in BOOLEAN
<1>1. work[g] \in Work
  BY DEF TypedLog
<1>2. work[g].record \in Fields
  BY <1>1 DEF Work, HasRecord
<1> QED
  BY <1>1, <1>2 DEF Fields, Number, TypedLog

LEMMA SetupTyped ==
  ASSUME TypedLog
  PROVE  setup \in Setups
BY LoggingAssumption DEF TypedLog, Setups, LoggingAssumption

LEMMA OnCoursePrimed ==
  ASSUME NEW g, UNCHANGED setup
  PROVE  Course(work[g].todo, work[g].record, EventIn(logged, Len(logged), Number(g)), LogIn(logged, Len(logged), Number(g)),
                AllFlushed(logged, Len(logged), Number(g), flushed))'
         <=> Course(work'[g].todo, work'[g].record, EventIn(logged', Len(logged'), work'[g].record.number),
                    LogIn(logged', Len(logged'), work'[g].record.number),
                    AllFlushed(logged', Len(logged'), work'[g].record.number, flushed'))
BY CourseStays DEF EventIn, LogIn, AllFlushed, Number

LEMMA EndedPrimed ==
  ASSUME NEW end, UNCHANGED setup
  PROVE  Concluded(end.record, EventIn(logged, end.items, end.record.number), LogIn(logged, end.items, end.record.number),
                   AllFlushed(logged, end.items, end.record.number, end.flushed), end.fate)'
         <=> Concluded(end.record, EventIn(logged', end.items, end.record.number), LogIn(logged', end.items, end.record.number),
                       AllFlushed(logged', end.items, end.record.number, end.flushed), end.fate)
BY ConcludedStays DEF EventIn, LogIn, AllFlushed

\* r is hs, or one more for the record with that number.
Extends(hs, r, number) == r = hs \/ \E new \in Items : new.number = number /\ r = Append(hs, new)

SameFor(hs, r, other, upto) ==
  /\ EventIn(r, Len(r), other) = EventIn(hs, Len(hs), other)
  /\ LogIn(r, Len(r), other) = LogIn(hs, Len(hs), other)
  /\ AllFlushed(r, Len(r), other, upto) = AllFlushed(hs, Len(hs), other, upto)

Extended(hs, r, number) ==
  /\ r \in Seq(Items) /\ Len(hs) \in Nat /\ Len(r) \in Nat /\ Len(hs) <= Len(r)
  /\ \A m \in 0 .. Len(hs) : AsBefore(hs, r, m)
  /\ \A other, upto \in Nat : other # number => SameFor(hs, r, other, upto)
  /\ \A i \in 1 .. Len(r) : (i \in 1 .. Len(hs) /\ r[i] = hs[i]) \/ r[i].number = number

LEMMA ExtendsFacts ==
  ASSUME NEW hs \in Seq(Items), NEW r, NEW number, Extends(hs, r, number)
  PROVE  Extended(hs, r, number)
<1>1. CASE r = hs
  BY <1>1 DEF Extended, AsBefore, SameFor
<1>2. ASSUME NEW new \in Items, new.number = number, r = Append(hs, new)
      PROVE  Extended(hs, r, number)
  <2>1. r \in Seq(Items) /\ Len(r) = Len(hs) + 1 /\ Len(hs) \in Nat /\ r[Len(hs) + 1] = new
        /\ \A i \in 1 .. Len(hs) : r[i] = hs[i]
    BY <1>2
  <2>2. \A m \in 0 .. Len(hs) : AsBefore(hs, r, m)
    BY <1>2, BeforeAppend
  <2>3. ASSUME NEW other \in Nat, NEW upto \in Nat, other # number
        PROVE  SameFor(hs, r, other, upto)
    <3>1. OneMore(hs, new, other, upto)
      BY OneMoreItem
    <3> QED
      BY <1>2, <2>3, <3>1, Booleans DEF OneMore, SameFor
  <2>4. \A i \in 1 .. Len(r) : (i \in 1 .. Len(hs) /\ r[i] = hs[i]) \/ r[i].number = number
    <3>1. \A i \in 1 .. Len(r) : i \in 1 .. Len(hs) \/ i = Len(hs) + 1
      BY <2>1
    <3> QED
      BY <1>2, <2>1, <3>1
  <2> QED
    BY <2>1, <2>2, <2>3, <2>4 DEF Extended
<1> QED
  BY <1>1, <1>2 DEF Extends

\* The fates that were stay what they are.
LEMMA EndedStays ==
  ASSUME TypedLog, Ended, NEW number, Extends(logged, logged', number), UNCHANGED setup, NEW end \in fates
  PROVE  Concluded(end.record, EventIn(logged', end.items, end.record.number), LogIn(logged', end.items, end.record.number),
                   AllFlushed(logged', end.items, end.record.number, end.flushed), end.fate)
<1>1. end.items \in 0 .. Len(logged) /\ logged \in Seq(Items)
  BY DEF TypedLog, Fates
<1>2. AsBefore(logged, logged', end.items)
  BY <1>1, ExtendsFacts DEF Extended
<1>3. /\ EventIn(logged', end.items, end.record.number) = EventIn(logged, end.items, end.record.number)
      /\ LogIn(logged', end.items, end.record.number) = LogIn(logged, end.items, end.record.number)
      /\ AllFlushed(logged', end.items, end.record.number, end.flushed) = AllFlushed(logged, end.items, end.record.number, end.flushed)
  BY <1>2, Booleans DEF AsBefore
<1> QED
  BY <1>3 DEF Ended

\* Those of other goroutines stay on their course.
LEMMA OthersStay ==
  ASSUME TypedLog, Numbered, OnCourse, NEW g \in Logger, HasRecord(g), Extends(logged, logged', Number(g)),
         flushed' \in Nat, flushed' >= flushed, UNCHANGED setup,
         NEW h \in Logger, h # g, HasRecord(h), work'[h] = work[h]
  PROVE  Course(work'[h].todo, work'[h].record, EventIn(logged', Len(logged'), work'[h].record.number),
                LogIn(logged', Len(logged'), work'[h].record.number),
                AllFlushed(logged', Len(logged'), work'[h].record.number, flushed'))
<1> DEFINE n == Number(h)
<1>1. n # Number(g) /\ n \in Nat /\ logged \in Seq(Items) /\ flushed \in Nat
  <2>1. n \in Nat
    BY FieldsHave
  <2>2. logged \in Seq(Items) /\ flushed \in Nat
    BY DEF TypedLog
  <2> QED
    BY <2>1, <2>2 DEF Numbered
<1>2. SameFor(logged, logged', n, flushed')
  BY <1>1, ExtendsFacts DEF Extended
<1>3. Course(work[h].todo, work[h].record, EventIn(logged, Len(logged), n), LogIn(logged, Len(logged), n),
             AllFlushed(logged, Len(logged), n, flushed))
  BY DEF OnCourse
<1>4. AllFlushed(logged, Len(logged), n, flushed) => AllFlushed(logged, Len(logged), n, flushed')
  <2>1. \A i \in 1 .. Len(logged) : i \in Nat
    OBVIOUS
  <2> QED
    BY <1>1, <2>1 DEF AllFlushed
<1>5. setup.lib \in Libraries
  BY SetupTyped DEF Setups
<1>6. Course(work[h].todo, work[h].record, EventIn(logged, Len(logged), n), LogIn(logged, Len(logged), n),
             AllFlushed(logged, Len(logged), n, flushed'))
  BY <1>3, <1>4, <1>5, Booleans, CourseGrows
<1> QED
  BY <1>2, <1>6 DEF SameFor, Number

BusySet == {g \in Logger : HasRecord(g)}

LEMMA LoggedIs ==
  ASSUME Numbered
  PROVE  /\ IsFiniteSet(BusySet) /\ Logged = Cardinality(fates) + Cardinality(BusySet)
         /\ Cardinality(fates) \in Nat /\ Cardinality(BusySet) \in Nat /\ Logged \in Nat
<1>1. IsFiniteSet(BusySet)
  <2>1. BusySet \subseteq Logger
    BY DEF BusySet
  <2> QED
    BY <2>1, FS_Subset, LoggersAssumption DEF LoggersAssumption
<1>2. Cardinality(fates) \in Nat /\ Cardinality(BusySet) \in Nat
  BY <1>1, FS_CardinalityType DEF Numbered
<1>3. Logged = Cardinality(fates) + Cardinality(BusySet)
  BY DEF Logged, BusySet, HasRecord
<1> QED
  BY <1>1, <1>2, <1>3

\* A step of a goroutine with its record, which it has not done with.
LEMMA Advances ==
  ASSUME TypedLog, Numbered, OnCourse, Ended, NEW g \in Logger, HasRecord(g), NEW w \in Work,
         UNCHANGED <<setup, fates>>, w.record \in Fields, w.record.number = Number(g),
         work' = [work EXCEPT ![g] = w],
         Extends(logged, logged', Number(g)), flushed' \in Nat, flushed' >= flushed,
         Course(w.todo, w.record, EventIn(logged', Len(logged'), Number(g)), LogIn(logged', Len(logged'), Number(g)),
                AllFlushed(logged', Len(logged'), Number(g), flushed'))
  PROVE  Numbered' /\ OnCourse' /\ Ended'
<1>1. /\ work'[g] = w /\ \A h \in Logger : h # g => work'[h] = work[h]
  BY DEF TypedLog
<1>2. /\ \A h \in Logger : (HasRecord(h)' <=> HasRecord(h)) /\ Number(h)' = Number(h)
      /\ BusySet' = BusySet /\ Logged' = Logged
  <2>1. w.record # Nothing
    BY DEF Fields, Nothing
  <2>2. \A h \in Logger : (HasRecord(h)' <=> HasRecord(h)) /\ Number(h)' = Number(h)
    BY <1>1, <2>1 DEF HasRecord, Number
  <2>3. BusySet' = BusySet
    BY <2>2 DEF BusySet
  <2>4. Logged' = Logged
    BY <2>3 DEF Logged, BusySet, HasRecord
  <2> QED
    BY <2>2, <2>3, <2>4
<1>3. Numbered'
  <2>1. \A h \in Logger : (HasRecord(h)' <=> HasRecord(h)) /\ Number(h)' = Number(h)
    BY <1>2
  <2>2. \A i \in 1 .. Len(logged') : logged'[i].number \in 1 .. Logged
    <3>1. Extended(logged, logged', Number(g))
      BY ExtendsFacts DEF TypedLog
    <3> QED
      BY <3>1 DEF Numbered, Extended
  <2> QED
    BY <1>2, <2>1, <2>2 DEF Numbered
<1>4. OnCourse'
  <2>1. ASSUME NEW h \in Logger, HasRecord(h)'
        PROVE  Course(work[h].todo, work[h].record, EventIn(logged, Len(logged), Number(h)), LogIn(logged, Len(logged), Number(h)),
                      AllFlushed(logged, Len(logged), Number(h), flushed))'
    <3>1. HasRecord(h)
      BY <1>2, <2>1
    <3>2. CASE h = g
      BY <1>1, <3>2, OnCoursePrimed DEF Number
    <3>3. CASE h # g
      BY <1>1, <3>1, <3>3, OnCoursePrimed, OthersStay
    <3> QED
      BY <3>2, <3>3
  <2> QED
    BY <2>1 DEF OnCourse
<1>5. Ended'
  <2>1. ASSUME NEW end \in fates'
        PROVE  Concluded(end.record, EventIn(logged, end.items, end.record.number), LogIn(logged, end.items, end.record.number),
                         AllFlushed(logged, end.items, end.record.number, end.flushed), end.fate)'
    BY <2>1, EndedStays, EndedPrimed
  <2> QED
    BY <2>1 DEF Ended
<1> QED
  BY <1>3, <1>4, <1>5

\* A goroutine has done with its record.
LEMMA DoneWith ==
  ASSUME TypedLog, Numbered, OnCourse, Ended, NEW g \in Logger, HasRecord(g), NEW w \in Work, NEW end \in Fates,
         UNCHANGED setup, w.record = Nothing, work' = [work EXCEPT ![g] = w], fates' = fates \cup {end},
         end.record = work[g].record, Extends(logged, logged', Number(g)), flushed' = flushed,
         Concluded(end.record, EventIn(logged', end.items, Number(g)), LogIn(logged', end.items, Number(g)),
                   AllFlushed(logged', end.items, Number(g), end.flushed), end.fate)
  PROVE  Numbered' /\ OnCourse' /\ Ended'
<1>1. work'[g] = w /\ \A h \in Logger : h # g => work'[h] = work[h]
  BY DEF TypedLog
<1>2. BusySet' = BusySet \ {g} /\ g \in BusySet
  BY <1>1 DEF BusySet, HasRecord
<1>3. end \notin fates /\ IsFiniteSet(fates) /\ IsFiniteSet(fates')
  <2>1. end.record.number = Number(g)
    BY DEF Number
  <2>2. end \notin fates
    BY <2>1 DEF Numbered
  <2>3. IsFiniteSet(fates)
    BY DEF Numbered
  <2> QED
    BY <2>2, <2>3, FS_AddElement
<1>4. Logged' = Logged /\ Logged \in Nat
  <2>1. Cardinality(fates') = Cardinality(fates) + 1
    BY <1>3, FS_AddElement
  <2>2. Cardinality(BusySet \ {g}) = Cardinality(BusySet) - 1
    BY <1>2, LoggedIs, FS_RemoveElement
  <2>3. Logged' = Cardinality(fates') + Cardinality(BusySet')
    BY DEF Logged, BusySet, HasRecord
  <2>4. /\ Logged = Cardinality(fates) + Cardinality(BusySet)
        /\ Cardinality(fates) \in Nat /\ Cardinality(BusySet) \in Nat /\ Logged \in Nat
    BY LoggedIs
  <2>5. Logged' = (Cardinality(fates) + 1) + (Cardinality(BusySet) - 1)
    BY <1>2, <2>1, <2>2, <2>3
  <2> QED
    BY <2>4, <2>5
<1>5. \A h \in Logger : HasRecord(h)' => h # g /\ HasRecord(h) /\ Number(h)' = Number(h)
  BY <1>1 DEF HasRecord, Number
<1>6. Numbered'
  <2>1. Extended(logged, logged', Number(g))
    BY ExtendsFacts DEF TypedLog
  <2>2. \A i \in 1 .. Len(logged') : logged'[i].number \in 1 .. Logged
    BY <2>1 DEF Numbered, Extended
  <2>3. \A e \in fates' : e.record.number \in 1 .. Logged
    BY DEF Numbered, Number
  <2>4. \A h \in Logger, e \in fates' : HasRecord(h)' => Number(h)' # e.record.number
    BY <1>5 DEF Numbered, Number
  <2>5. \A h, k \in Logger : HasRecord(h)' /\ HasRecord(k)' /\ h # k => Number(h)' # Number(k)'
    BY <1>5 DEF Numbered
  <2>6. \A h \in Logger : HasRecord(h)' => Number(h)' \in 1 .. Logged
    BY <1>5 DEF Numbered
  <2> QED
    BY <1>3, <1>4, <2>2, <2>3, <2>4, <2>5, <2>6 DEF Numbered
<1>7. OnCourse'
  <2>1. ASSUME NEW h \in Logger, HasRecord(h)'
        PROVE  Course(work[h].todo, work[h].record, EventIn(logged, Len(logged), Number(h)), LogIn(logged, Len(logged), Number(h)),
                      AllFlushed(logged, Len(logged), Number(h), flushed))'
    <3>1. flushed' \in Nat /\ flushed' >= flushed
      BY DEF TypedLog
    <3> QED
      BY <1>1, <1>5, <2>1, <3>1, OnCoursePrimed, OthersStay
  <2> QED
    BY <2>1 DEF OnCourse
<1>8. Ended'
  <2>1. ASSUME NEW e \in fates'
        PROVE  Concluded(e.record, EventIn(logged, e.items, e.record.number), LogIn(logged, e.items, e.record.number),
                         AllFlushed(logged, e.items, e.record.number, e.flushed), e.fate)'
    <3>1. CASE e = end
      BY <3>1, EndedPrimed DEF Number
    <3>2. CASE e \in fates
      BY <3>2, EndedStays, EndedPrimed
    <3> QED
      BY <2>1, <3>1, <3>2
  <2> QED
    BY <2>1 DEF Ended
<1> QED
  BY <1>6, <1>7, <1>8

LEMMA ValuesApart ==
  ASSUME NEW n \in DOMAIN Values
  PROVE  /\ Values[n] \notin AttrWords /\ Values[n] \in Texts
         /\ \A m \in DOMAIN Values : Values[m] = Values[n] => m = n
<1> DEFINE S == STRING \ {"", "entry", "context", "logger", "default"}
<1>1. Values \in Seq(S) /\ \A i, j \in DOMAIN Values : Values[i] = Values[j] => i = j
  BY LoggersAssumption DEF LoggersAssumption
<1>2. Values[n] \in S
  <2> HIDE DEF S
  <2> QED
    BY <1>1
<1>3. Values[n] \notin AttrWords
  BY <1>2 DEF AttrWords, Unset
<1> QED
  BY <1>1, <1>3 DEF Texts

LEMMA ChangesCount ==
  ASSUME TypedLog
  PROVE  /\ Len(changes) \in Nat /\ DOMAIN changes = 1 .. Len(changes) /\ Len(Values) \in Nat
         /\ DOMAIN Values = 1 .. Len(Values) /\ Len(changes) <= Len(Values)
         /\ \A n \in 1 .. Len(changes) : n \in DOMAIN Values
<1> DEFINE S == STRING \ {"", "entry", "context", "logger", "default"}
<1>1. Values \in Seq(S) /\ NumSets \in Nat /\ Len(Values) >= NumSets
  BY LoggersAssumption DEF LoggersAssumption
<1>2. Len(Values) \in Nat /\ DOMAIN Values = 1 .. Len(Values)
  <2> HIDE DEF S
  <2> QED
    BY <1>1
<1>3. Len(changes) \in Nat /\ DOMAIN changes = 1 .. Len(changes) /\ Len(changes) <= NumSets
  BY DEF TypedLog
<1> HIDE DEF S
<1>4. Len(changes) <= Len(Values)
  BY <1>1, <1>2, <1>3
<1> QED
  BY <1>2, <1>3, <1>4

\* With no change of attributes, what was fair is.
LEMMA FairStays ==
  ASSUME TypedLog, Owned, AllFair, UNCHANGED <<setup, instance, changes>>,
         logged' = logged \/ \E new \in Items : Fair(new) /\ logged' = Append(logged, new)
  PROVE  Owned' /\ AllFair'
<1>1. Owned'
  BY DEF Owned, SetValues
<1>2. ASSUME NEW i
      PROVE  Fair(logged[i])' <=> Fair(logged'[i])
  BY DEF Fair, HasRoom, SetValues
<1>3. \A i \in DOMAIN logged' : Fair(logged'[i])
  <2>1. CASE logged' = logged
    BY <2>1 DEF AllFair
  <2>2. ASSUME NEW new \in Items, Fair(new), logged' = Append(logged, new)
        PROVE  \A i \in DOMAIN logged' : Fair(logged'[i])
    <3>1. /\ DOMAIN logged' = 1 .. Len(logged) + 1 /\ DOMAIN logged = 1 .. Len(logged) /\ Len(logged) \in Nat
          /\ logged'[Len(logged) + 1] = new /\ \A i \in 1 .. Len(logged) : logged'[i] = logged[i]
      BY <2>2 DEF TypedLog
    <3>2. \A i \in 1 .. Len(logged) + 1 : i = Len(logged) + 1 \/ i \in 1 .. Len(logged)
      BY <3>1
    <3> QED
      BY <2>2, <3>1, <3>2 DEF AllFair
  <2> QED
    BY <2>1, <2>2
<1>4. AllFair'
  <2>1. \A i \in DOMAIN logged' : Fair(logged[i])'
    BY <1>2, <1>3
  <2> QED
    BY <2>1 DEF AllFair
<1> QED
  BY <1>1, <1>4

AddsFair(number) ==
  logged' = logged \/ \E new \in Items : new.number = number /\ Fair(new) /\ logged' = Append(logged, new)

LEMMA AddsLaws ==
  ASSUME TypedLog, NEW number, AddsFair(number)
  PROVE  /\ Extends(logged, logged', number) /\ logged' \in Seq(Items)
         /\ Len(logged) \in Nat /\ Len(logged') \in Nat /\ Len(logged) <= Len(logged')
<1>1. Extends(logged, logged', number)
  BY DEF AddsFair, Extends
<1>2. logged \in Seq(Items)
  BY DEF TypedLog
<1> QED
  BY <1>1, <1>2, ExtendsFacts DEF Extended

\* A step of a goroutine with its record.
LEMMA Moves ==
  ASSUME LogInv, NEW g \in Logger, HasRecord(g), NEW w \in Work, w.record \in Fields,
         w.record.number = Number(g), w.record.by = work[g].record.by,
         UNCHANGED <<setup, instance, changes, fates>>, work' = [work EXCEPT ![g] = w],
         room' \in Seq({Nothing} \cup Fields), Len(room') = Len(room), AddsFair(Number(g)),
         flushed' \in flushed .. Len(logged'),
         Course(w.todo, w.record, EventIn(logged', Len(logged'), Number(g)), LogIn(logged', Len(logged'), Number(g)),
                AllFlushed(logged', Len(logged'), Number(g), flushed'))
  PROVE  LogInv'
<1>1. /\ Extends(logged, logged', Number(g)) /\ logged' \in Seq(Items)
      /\ Len(logged) \in Nat /\ Len(logged') \in Nat /\ Len(logged) <= Len(logged')
  BY AddsLaws DEF LogInv
<1>2. flushed' \in Nat /\ flushed' >= flushed /\ flushed' \in 0 .. Len(logged')
  BY <1>1 DEF LogInv, TypedLog
<1>3. work'[g] = w /\ \A h \in Logger : h # g => work'[h] = work[h]
  BY DEF LogInv, TypedLog
<1>4. TypedLog'
  <2>1. work' \in [Logger -> Work]
    BY DEF LogInv, TypedLog
  <2>2. \A h \in Logger : /\ HasRecord(h)' => work'[h].record.by \in DOMAIN instance'
                          /\ ~HasRecord(h)' => work'[h].todo = <<>>
    <3>1. w.record # Nothing
      BY DEF Fields, Nothing
    <3> QED
      BY <1>3, <3>1 DEF LogInv, TypedLog, HasRecord
  <2>3. fates' \subseteq Fates /\ \A end \in fates' : end.items <= Len(logged')
    <3>1. \A end \in fates : end.items \in Nat /\ end.items <= Len(logged)
      BY DEF LogInv, TypedLog, Fates
    <3> QED
      BY <1>1, <3>1 DEF LogInv, TypedLog
  <2> QED
    BY <1>1, <1>2, <2>1, <2>2, <2>3 DEF LogInv, TypedLog
<1>5. Numbered' /\ OnCourse' /\ Ended'
  BY <1>1, <1>2, Advances DEF LogInv
<1>6. Owned' /\ AllFair'
  BY FairStays DEF LogInv, AddsFair
<1> QED
  BY <1>4, <1>5, <1>6 DEF LogInv

\* A goroutine has done with its record.
LEMMA Leaves ==
  ASSUME LogInv, NEW g \in Logger, HasRecord(g), NEW w \in Work, w.record = Nothing, w.todo = <<>>, NEW how,
         how \in {"none", "panic", "fatal"}, UNCHANGED <<setup, instance, changes, room, flushed>>,
         work' = [work EXCEPT ![g] = w], AddsFair(Number(g)),
         fates' = fates \cup {[record |-> work[g].record, fate |-> how, items |-> Len(logged'), flushed |-> flushed]},
         Concluded(work[g].record, EventIn(logged', Len(logged'), Number(g)), LogIn(logged', Len(logged'), Number(g)),
                   AllFlushed(logged', Len(logged'), Number(g), flushed), how)
  PROVE  LogInv'
<1> DEFINE end == [record |-> work[g].record, fate |-> how, items |-> Len(logged'), flushed |-> flushed]
<1>1. /\ Extends(logged, logged', Number(g)) /\ logged' \in Seq(Items)
      /\ Len(logged) \in Nat /\ Len(logged') \in Nat /\ Len(logged) <= Len(logged')
  BY AddsLaws DEF LogInv
<1>2. flushed' = flushed /\ flushed \in Nat /\ flushed \in 0 .. Len(logged')
  BY <1>1 DEF LogInv, TypedLog
<1>3. work'[g] = w /\ \A h \in Logger : h # g => work'[h] = work[h]
  BY DEF LogInv, TypedLog
<1>4. end \in Fates
  <2>1. work[g].record \in Fields
    BY FieldsHave DEF LogInv
  <2> QED
    BY <1>1, <1>2, <2>1 DEF Fates
<1>5. TypedLog'
  <2>1. work' \in [Logger -> Work]
    BY DEF LogInv, TypedLog
  <2>2. \A h \in Logger : /\ HasRecord(h)' => work'[h].record.by \in DOMAIN instance'
                          /\ ~HasRecord(h)' => work'[h].todo = <<>>
    BY <1>3 DEF LogInv, TypedLog, HasRecord
  <2>3. fates' \subseteq Fates /\ \A e \in fates' : e.items <= Len(logged')
    <3>1. \A e \in fates : e.items \in Nat /\ e.items <= Len(logged)
      BY DEF LogInv, TypedLog, Fates
    <3> QED
      BY <1>1, <1>4, <3>1 DEF LogInv, TypedLog
  <2> QED
    BY <1>1, <1>2, <2>1, <2>2, <2>3 DEF LogInv, TypedLog
<1>6. Numbered' /\ OnCourse' /\ Ended'
  <2>1. end.record = work[g].record /\ end.items = Len(logged') /\ end.flushed = flushed /\ end.fate = how
    OBVIOUS
  <2>2. fates' = fates \cup {end}
    OBVIOUS
  <2> HIDE DEF end
  <2> QED
    BY <1>1, <1>2, <1>4, <2>1, <2>2, DoneWith DEF LogInv
<1>7. Owned' /\ AllFair'
  BY FairStays DEF LogInv, AddsFair
<1> QED
  BY <1>5, <1>6, <1>7 DEF LogInv

\* What is done next with a record, and what follows.
LEMMA StageOnward ==
  ASSUME LogInv, NEW g \in Logger, NEW stage, Stage(g, stage)
  PROVE  /\ HasRecord(g) /\ stage \in Doing /\ Tail(work[g].todo) \in Seq(Doing)
         /\ Onward(stage, Tail(work[g].todo), work[g].record, EventIn(logged, Len(logged), Number(g)),
                   LogIn(logged, Len(logged), Number(g)), AllFlushed(logged, Len(logged), Number(g), flushed))
<1>1. HasRecord(g)
  BY DEF LogInv, TypedLog, Stage
<1>2. work[g].record \in Fields /\ setup \in Setups
  BY <1>1, FieldsHave, SetupTyped DEF LogInv
<1>3. Course(work[g].todo, work[g].record, EventIn(logged, Len(logged), Number(g)), LogIn(logged, Len(logged), Number(g)),
             AllFlushed(logged, Len(logged), Number(g), flushed))
  BY <1>1 DEF LogInv, OnCourse
<1>4. PICK x \in Doing, rest \in Seq(Doing) :
        /\ Head(work[g].todo) = x /\ Tail(work[g].todo) = rest
        /\ Onward(x, rest, work[g].record, EventIn(logged, Len(logged), Number(g)),
                  LogIn(logged, Len(logged), Number(g)), AllFlushed(logged, Len(logged), Number(g), flushed))
  BY <1>2, <1>3, Booleans, OnlyDoing DEF Stage
<1> QED
  BY <1>1, <1>4 DEF Stage

\* The goroutine with its record and that to do.
LEMMA TodoWork ==
  ASSUME LogInv, NEW g \in Logger, HasRecord(g), NEW todo \in Seq(Doing), work' = [work EXCEPT ![g].todo = todo]
  PROVE  LET w == [work[g] EXCEPT !.todo = todo] IN
         /\ w \in Work /\ w.record = work[g].record /\ w.todo = todo /\ work' = [work EXCEPT ![g] = w]
         /\ w.record \in Fields /\ w.record.number = Number(g) /\ w.record.by = work[g].record.by
<1> DEFINE w == [work[g] EXCEPT !.todo = todo]
<1>1. work[g] \in Work /\ work \in [Logger -> Work]
  BY DEF LogInv, TypedLog
<1>2. w \in Work /\ w.record = work[g].record /\ w.todo = todo /\ work' = [work EXCEPT ![g] = w]
  BY <1>1 DEF Work
<1>3. work[g].record \in Fields
  BY FieldsHave DEF LogInv
<1> HIDE DEF w
<1>4. w.record \in Fields /\ w.record.number = Number(g) /\ w.record.by = work[g].record.by
  BY <1>2, <1>3 DEF Number
<1> QED
  BY <1>2, <1>4 DEF w

\* The goroutine when a hook of logrus has failed with its record.
LEMMA SkipWork ==
  ASSUME LogInv, NEW g \in Logger, HasRecord(g), SkipHooks(g)
  PROVE  \E w \in Work :
         /\ w.record = WithFailure(work[g].record) /\ w.todo = AfterHooks(work[g].record.level)
         /\ work' = [work EXCEPT ![g] = w]
         /\ w.record \in Fields /\ w.record.number = Number(g) /\ w.record.by = work[g].record.by
<1> DEFINE record == work[g].record
           todo == AfterHooks(record.level)
           w == [work[g] EXCEPT !.todo = todo, !.record = WithFailure(record)]
<1>1. work[g] \in Work /\ work \in [Logger -> Work] /\ record \in Fields
  BY FieldsHave DEF LogInv, TypedLog
<1>2. todo \in Seq(Doing)
  BY AfterHooksIs
<1>3. WithFailure(record) \in Fields /\ WithFailure(record).number = Number(g) /\ WithFailure(record).by = record.by
  BY <1>1, WithFailureIs DEF Number
<1>4. work' = [work EXCEPT ![g] = w]
  BY <1>1 DEF SkipHooks, WithFailure, Work
<1> HIDE DEF todo
<1>5. w \in Work /\ w.record = WithFailure(record) /\ w.todo = todo
  BY <1>1, <1>2, <1>3 DEF Work
<1> QED
  BY <1>3, <1>4, <1>5 DEF todo

LEMMA Todo ==
  ASSUME LogInv, NEW g \in Logger, HasRecord(g), NEW todo \in Seq(Doing), work' = [work EXCEPT ![g].todo = todo],
         UNCHANGED <<setup, instance, changes, fates>>,
         room' \in Seq({Nothing} \cup Fields), Len(room') = Len(room), AddsFair(Number(g)),
         flushed' \in flushed .. Len(logged'),
         Course(todo, work[g].record, EventIn(logged', Len(logged'), Number(g)), LogIn(logged', Len(logged'), Number(g)),
                AllFlushed(logged', Len(logged'), Number(g), flushed'))
  PROVE  LogInv'
<1> DEFINE w == [work[g] EXCEPT !.todo = todo]
<1>1. /\ w \in Work /\ w.record = work[g].record /\ w.todo = todo /\ work' = [work EXCEPT ![g] = w]
      /\ w.record \in Fields /\ w.record.number = Number(g) /\ w.record.by = work[g].record.by
  BY TodoWork
<1> HIDE DEF w
<1> QED
  BY <1>1, Moves

\* Nothing is captured on the way.
LEMMA QuietTodo ==
  ASSUME LogInv, NEW g \in Logger, HasRecord(g), NEW todo \in Seq(Doing), work' = [work EXCEPT ![g].todo = todo],
         UNCHANGED <<setup, instance, changes, fates, logged, flushed>>,
         room' \in Seq({Nothing} \cup Fields), Len(room') = Len(room),
         Course(todo, work[g].record, EventIn(logged, Len(logged), Number(g)), LogIn(logged, Len(logged), Number(g)),
                AllFlushed(logged, Len(logged), Number(g), flushed))
  PROVE  LogInv'
<1>1. flushed' \in flushed .. Len(logged') /\ AddsFair(Number(g))
  BY DEF LogInv, TypedLog, AddsFair
<1>2. Course(todo, work[g].record, EventIn(logged', Len(logged'), Number(g)), LogIn(logged', Len(logged'), Number(g)),
             AllFlushed(logged', Len(logged'), Number(g), flushed'))
  <2>1. logged' = logged /\ flushed' = flushed
    OBVIOUS
  <2> QED
    BY <2>1
<1> QED
  BY <1>1, <1>2, Todo

LEMMA RoomTyped ==
  ASSUME LogInv, UNCHANGED room
  PROVE  room' \in Seq({Nothing} \cup Fields) /\ Len(room') = Len(room)
BY DEF LogInv, TypedLog

LEMMA IdleWork ==
  [record |-> Nothing, todo |-> <<>>, scope |-> Unset] \in Work
BY DEF Work, AttrWords, Unset, Nothing

LEMMA ReturnKeeps ==
  ASSUME LogInv, NEW g \in Logger, ReturnFromLog(g)
  PROVE  LogInv'
<1> DEFINE w == [record |-> Nothing, todo |-> <<>>, scope |-> Unset]
<1>1. HasRecord(g) /\ work[g].todo = <<>> /\ logged' = logged /\ UNCHANGED <<setup, instance, changes, room, flushed>>
      /\ work' = [work EXCEPT ![g] = w]
      /\ fates' = fates \cup {[record |-> work[g].record, fate |-> "none", items |-> Len(logged'), flushed |-> flushed]}
  BY DEF ReturnFromLog, End, HasRecord
<1>2. w \in Work /\ w.record = Nothing /\ w.todo = <<>>
  BY IdleWork
<1> HIDE DEF w
<1>3. Course(work[g].todo, work[g].record, EventIn(logged, Len(logged), Number(g)), LogIn(logged, Len(logged), Number(g)),
             AllFlushed(logged, Len(logged), Number(g), flushed))
  BY <1>1 DEF LogInv, OnCourse
<1>4. Progress(work[g].todo, work[g].record, EventIn(logged, Len(logged), Number(g)), LogIn(logged, Len(logged), Number(g)),
               AllFlushed(logged, Len(logged), Number(g), flushed))
  <2>1. work[g].record \in Fields /\ setup \in Setups
    BY <1>1, FieldsHave, SetupTyped DEF LogInv
  <2> QED
    BY <1>3, <2>1, Booleans, GoesOn
<1>5. Concluded(work[g].record, EventIn(logged, Len(logged), Number(g)), LogIn(logged, Len(logged), Number(g)),
                AllFlushed(logged, Len(logged), Number(g), flushed), "none")
  <2>1. \A x \in Doing, rest \in Seq(Doing) : work[g].todo # Push(x, rest)
    BY <1>1, PushLaws
  <2> QED
    BY <1>4, <2>1 DEF Progress
<1>6. Concluded(work[g].record, EventIn(logged', Len(logged'), Number(g)), LogIn(logged', Len(logged'), Number(g)),
                AllFlushed(logged', Len(logged'), Number(g), flushed), "none")
  BY <1>1, <1>5
<1>7. AddsFair(Number(g))
  BY <1>1 DEF AddsFair
<1> QED
  BY <1>1, <1>2, <1>6, <1>7, Leaves

LEMMA ExtractKeeps ==
  ASSUME LogInv, NEW g \in Logger, Extract(g)
  PROVE  LogInv'
<1> DEFINE record == work[g].record
<1>1. /\ Stage(g, "extract") /\ Proceed(g) /\ UNCHANGED <<setup, instance, changes, logged, flushed, fates>>
      /\ room' = IF HasRoom(record.by) THEN [room EXCEPT ![record.by] = record] ELSE room
  BY DEF Extract
<1>2. /\ HasRecord(g) /\ Tail(work[g].todo) \in Seq(Doing)
      /\ Onward("extract", Tail(work[g].todo), work[g].record, EventIn(logged, Len(logged), Number(g)),
                LogIn(logged, Len(logged), Number(g)), AllFlushed(logged, Len(logged), Number(g), flushed))
  BY <1>1, StageOnward
<1>3. room' \in Seq({Nothing} \cup Fields) /\ Len(room') = Len(room)
  <2> DEFINE K == {Nothing} \cup Fields
             i == record.by
  <2>1. room \in Seq(K) /\ record \in K /\ i \in DOMAIN room
    BY <1>2, FieldsHave DEF LogInv, TypedLog
  <2>2. room' = room \/ room' = [room EXCEPT ![i] = record]
    BY <1>1
  <2> HIDE DEF K, i, record
  <2>3. room' \in Seq(K) /\ Len(room') = Len(room)
    BY <2>1, <2>2
  <2> QED
    BY <2>3 DEF K
<1>4. work' = [work EXCEPT ![g].todo = Tail(work[g].todo)]
  BY <1>1 DEF Proceed, LogInv, TypedLog
<1>5. Course(Tail(work[g].todo), work[g].record, EventIn(logged, Len(logged), Number(g)), LogIn(logged, Len(logged), Number(g)),
             AllFlushed(logged, Len(logged), Number(g), flushed))
  BY <1>2 DEF Onward
<1> QED
  BY <1>1, <1>2, <1>3, <1>4, <1>5, QuietTodo

LEMMA InvalidKeeps ==
  ASSUME LogInv, NEW g \in Logger, Invalid(g)
  PROVE  LogInv'
<1>1. /\ Stage(g, "invalid") /\ UNCHANGED <<setup, instance, changes, room, logged, flushed, fates>>
      /\ (setup.fallback /\ Proceed(g)) \/ SkipHooks(g)
  BY DEF Invalid
<1>2. /\ HasRecord(g) /\ Tail(work[g].todo) \in Seq(Doing)
      /\ Onward("invalid", Tail(work[g].todo), work[g].record, EventIn(logged, Len(logged), Number(g)),
                LogIn(logged, Len(logged), Number(g)), AllFlushed(logged, Len(logged), Number(g), flushed))
  BY <1>1, StageOnward
<1>3. room' \in Seq({Nothing} \cup Fields) /\ Len(room') = Len(room)
  BY <1>1, RoomTyped
<1>4. CASE setup.fallback /\ Proceed(g)
  <2>1. work' = [work EXCEPT ![g].todo = Tail(work[g].todo)]
    BY <1>1, <1>4 DEF Proceed, LogInv, TypedLog
  <2>2. Course(Tail(work[g].todo), work[g].record, EventIn(logged, Len(logged), Number(g)), LogIn(logged, Len(logged), Number(g)),
               AllFlushed(logged, Len(logged), Number(g), flushed))
    BY <1>2, <1>4 DEF Onward
  <2> QED
    BY <1>1, <1>2, <1>3, <2>1, <2>2, QuietTodo
<1>5. CASE SkipHooks(g)
  <2>1. PICK w \in Work :
          /\ w.record = WithFailure(work[g].record) /\ w.todo = AfterHooks(work[g].record.level)
          /\ work' = [work EXCEPT ![g] = w]
          /\ w.record \in Fields /\ w.record.number = Number(g) /\ w.record.by = work[g].record.by
    BY <1>2, <1>5, SkipWork
  <2>2. Course(w.todo, w.record, EventIn(logged, Len(logged), Number(g)), LogIn(logged, Len(logged), Number(g)),
               AllFlushed(logged, Len(logged), Number(g), flushed))
    BY <1>2, <2>1 DEF Onward
  <2>3. flushed' \in flushed .. Len(logged') /\ AddsFair(Number(g)) /\ logged' = logged /\ flushed' = flushed
    BY <1>1 DEF LogInv, TypedLog, AddsFair
  <2>4. Course(w.todo, w.record, EventIn(logged', Len(logged'), Number(g)), LogIn(logged', Len(logged'), Number(g)),
               AllFlushed(logged', Len(logged'), Number(g), flushed'))
    BY <2>2, <2>3
  <2> QED
    BY <1>1, <1>2, <1>3, <2>1, <2>3, <2>4, Moves
<1> QED
  BY <1>1, <1>4, <1>5

LEMMA GatherKeeps ==
  ASSUME LogInv, NEW g \in Logger, Gather(g)
  PROVE  LogInv'
<1> DEFINE hub == LogHub(work[g].record)
           given == IF hub \in setup.scoped THEN hub ELSE IF setup.default THEN "default" ELSE Unset
           w == [work[g] EXCEPT !.todo = Tail(work[g].todo), !.scope = given]
<1>1. /\ Stage(g, "gather") /\ UNCHANGED <<setup, instance, changes, room, logged, flushed, fates>>
      /\ work' = [work EXCEPT ![g].todo = Tail(@), ![g].scope = given]
  BY DEF Gather
<1>2. /\ HasRecord(g) /\ Tail(work[g].todo) \in Seq(Doing)
      /\ Onward("gather", Tail(work[g].todo), work[g].record, EventIn(logged, Len(logged), Number(g)),
                LogIn(logged, Len(logged), Number(g)), AllFlushed(logged, Len(logged), Number(g), flushed))
  BY <1>1, StageOnward
<1>3. room' \in Seq({Nothing} \cup Fields) /\ Len(room') = Len(room)
  BY <1>1, RoomTyped
<1>4. Course(Tail(work[g].todo), work[g].record, EventIn(logged, Len(logged), Number(g)), LogIn(logged, Len(logged), Number(g)),
             AllFlushed(logged, Len(logged), Number(g), flushed))
  BY <1>2 DEF Onward
<1>5. given \in AttrWords \ {"entry"}
  BY DEF LogHub, AttrWords, Unset
<1> HIDE DEF given
<1>6. w \in Work /\ w.record = work[g].record /\ w.todo = Tail(work[g].todo) /\ work' = [work EXCEPT ![g] = w]
  <2>1. work[g] \in Work /\ work \in [Logger -> Work]
    BY DEF LogInv, TypedLog
  <2>2. w \in Work /\ w.record = work[g].record /\ w.todo = Tail(work[g].todo)
    BY <1>2, <1>5, <2>1 DEF Work
  <2>3. work' = [work EXCEPT ![g] = w]
    BY <1>1, <2>1 DEF Work
  <2> QED
    BY <2>2, <2>3
<1> HIDE DEF w
<1>7. flushed' \in flushed .. Len(logged') /\ AddsFair(Number(g)) /\ logged' = logged /\ flushed' = flushed
  BY <1>1 DEF LogInv, TypedLog, AddsFair
<1>8. Course(w.todo, w.record, EventIn(logged', Len(logged'), Number(g)), LogIn(logged', Len(logged'), Number(g)),
             AllFlushed(logged', Len(logged'), Number(g), flushed'))
  BY <1>4, <1>6, <1>7
<1>9. w.record \in Fields /\ w.record.number = Number(g) /\ w.record.by = work[g].record.by
  BY <1>2, <1>6, FieldsHave DEF LogInv, Number
<1> QED
  BY <1>1, <1>2, <1>3, <1>6, <1>7, <1>8, <1>9, Moves

LEMMA FlushKeeps ==
  ASSUME LogInv, NEW g \in Logger, FlushLogs(g)
  PROVE  LogInv'
<1>1. /\ Stage(g, "flush") /\ Proceed(g) /\ UNCHANGED <<setup, instance, changes, room, logged, fates>>
      /\ flushed' = Len(logged) /\ logged' = logged
  BY DEF FlushLogs
<1>2. /\ HasRecord(g) /\ Tail(work[g].todo) \in Seq(Doing)
      /\ Onward("flush", Tail(work[g].todo), work[g].record, EventIn(logged, Len(logged), Number(g)),
                LogIn(logged, Len(logged), Number(g)), AllFlushed(logged, Len(logged), Number(g), flushed))
  BY <1>1, StageOnward
<1>3. room' \in Seq({Nothing} \cup Fields) /\ Len(room') = Len(room)
  BY <1>1, RoomTyped
<1>4. work' = [work EXCEPT ![g].todo = Tail(work[g].todo)]
  BY <1>1 DEF Proceed, LogInv, TypedLog
<1>5. Len(logged) \in Nat /\ flushed \in 0 .. Len(logged)
  BY DEF LogInv, TypedLog
<1>6. AllFlushed(logged', Len(logged'), Number(g), flushed') = TRUE
  <2>1. \A i \in 1 .. Len(logged) : i <= Len(logged)
    BY <1>5
  <2>2. AllFlushed(logged', Len(logged'), Number(g), flushed')
    BY <1>1, <2>1 DEF AllFlushed
  <2> QED
    BY <2>2, Booleans
<1>7. Course(Tail(work[g].todo), work[g].record, EventIn(logged', Len(logged'), Number(g)), LogIn(logged', Len(logged'), Number(g)),
             AllFlushed(logged', Len(logged'), Number(g), flushed'))
  BY <1>1, <1>2, <1>6 DEF Onward
<1>8. flushed' \in flushed .. Len(logged') /\ AddsFair(Number(g))
  BY <1>1, <1>5 DEF AddsFair
<1> QED
  BY <1>1, <1>2, <1>3, <1>4, <1>7, <1>8, Todo

LEMMA ItemTyped ==
  ASSUME NEW kind \in {"event", "dropped", "crumb", "log", "metric"}, NEW record \in Fields,
         NEW hub \in {"context", "hook", "logger"}, NEW value \in Texts, NEW context, context.number \in Nat
  PROVE  LET new == LogItem(kind, record, hub, value, context) IN
         /\ new \in Items /\ new.number = record.number /\ new.kind = kind /\ new.by = record.by
         /\ new.entry = record.entry /\ new.value = value /\ new.context = context.number
BY DEF LogItem, Items, Fields

LEMMA OwnedValue ==
  ASSUME LogInv, NEW i \in DOMAIN instance
  PROVE  /\ instance[i] \in Texts /\ instance[i] \in {Unset} \cup SetValues(Len(changes)) /\ instance[i] # "entry"
         /\ \A n \in DOMAIN changes : instance[i] = Values[n] => Reached(n, i, changes)
<1>1. instance[i] \in {Unset} \cup SetValues(Len(changes))
  BY DEF LogInv, Owned
<1>2. instance[i] \in Texts
  BY DEF LogInv, TypedLog
<1>3. instance[i] # "entry"
  <2>1. ASSUME instance[i] \in SetValues(Len(changes))
        PROVE  instance[i] \notin AttrWords
    <3>1. PICK k \in 1 .. Len(changes) : instance[i] = Values[k]
      BY <2>1 DEF SetValues
    <3>2. k \in DOMAIN Values
      BY ChangesCount DEF LogInv
    <3> QED
      BY <3>1, <3>2, ValuesApart
  <2> QED
    BY <1>1, <2>1 DEF AttrWords, Unset
<1> QED
  BY <1>1, <1>2, <1>3 DEF LogInv, Owned

\* A value that no call has set is fair for an event, and so is that of the handler.
LEMMA EventFair ==
  ASSUME LogInv, NEW new, new.kind \notin {"log", "metric"}, ~HasRoom(new.by) => new.context = new.number,
         new.value \in AttrWords \/ (new.by \in DOMAIN instance /\ new.value = instance[new.by])
  PROVE  Fair(new)
<1>1. CASE new.value \in AttrWords
  <2>1. \A n \in DOMAIN changes : new.value # Values[n]
    BY <1>1, ChangesCount, ValuesApart DEF LogInv
  <2> QED
    BY <1>1, <2>1 DEF Fair
<1>2. CASE new.by \in DOMAIN instance /\ new.value = instance[new.by]
  <2>1. new.value \in AttrWords \cup SetValues(Len(changes))
    BY <1>2, OwnedValue DEF AttrWords
  <2> QED
    BY <1>2, <2>1, OwnedValue DEF Fair
<1> QED
  BY <1>1, <1>2

LEMMA EventItem ==
  ASSUME LogInv, NEW g \in Logger, HasRecord(g), NEW kept \in BOOLEAN
  PROVE  LET record == work[g].record
             context == IF HasRoom(record.by) THEN room[record.by] ELSE record
             new == LogItem(IF kept THEN "event" ELSE "dropped", record, EventHub(record), OfHandler(record), context)
         IN new \in Items /\ new.number = Number(g) /\ new.kind \in {"event", "dropped"} /\ Fair(new)
<1> DEFINE record == work[g].record
           context == IF HasRoom(record.by) THEN room[record.by] ELSE record
           kind == IF kept THEN "event" ELSE "dropped"
           value == OfHandler(record)
           new == LogItem(kind, record, EventHub(record), value, context)
<1>1. record \in Fields /\ record.by \in DOMAIN instance /\ record.number \in Nat /\ record.entry \in BOOLEAN /\ record.number = Number(g)
  BY FieldsHave DEF LogInv, Number
<1>2. room[record.by].number \in Nat
  <2>1. record.by \in DOMAIN room /\ room \in Seq({Nothing} \cup Fields)
    BY <1>1 DEF LogInv, TypedLog
  <2>2. room[record.by] \in {Nothing} \cup Fields
    BY <2>1
  <2> QED
    BY <2>2 DEF Fields, Nothing
<1>3. context.number \in Nat /\ (~HasRoom(record.by) => context.number = record.number)
  BY <1>1, <1>2
<1>4. value \in {Unset, "entry"} \/ value = instance[record.by]
  <2>1. setup.lib # "slog" => value = Unset
    BY DEF OfHandler
  <2>2. setup.lib = "slog" /\ record.entry => value = "entry"
    BY DEF OfHandler
  <2>3. setup.lib = "slog" /\ ~record.entry => value = instance[record.by]
    BY DEF OfHandler
  <2> QED
    BY <2>1, <2>2, <2>3
<1>5. value \in Texts
  BY <1>1, <1>4, OwnedValue DEF Texts, AttrWords
<1>6. kind \in {"event", "dropped"} /\ EventHub(record) \in {"context", "hook", "logger"}
  BY DEF EventHub
<1> HIDE DEF record, context, kind, value
<1>7. /\ new \in Items /\ new.number = record.number /\ new.kind = kind /\ new.by = record.by
      /\ new.value = value /\ new.context = context.number
  BY <1>1, <1>3, <1>5, <1>6, ItemTyped
<1> HIDE DEF new
<1>8. Fair(new)
  <2>1. ~HasRoom(new.by) => new.context = new.number
    BY <1>3, <1>7
  <2>2. new.value \in AttrWords \/ (new.by \in DOMAIN instance /\ new.value = instance[new.by])
    BY <1>1, <1>4, <1>7 DEF AttrWords
  <2> QED
    BY <1>6, <1>7, <2>1, <2>2, EventFair
<1> QED
  BY <1>1, <1>6, <1>7, <1>8 DEF new, record, context, kind, value

\* What an event that is captured, or dropped, leaves to do.
LEMMA EventTodo ==
  ASSUME LogInv, NEW g \in Logger, HasRecord(g), NEW w \in Work, w.record \in Fields,
         w.record.number = Number(g), w.record.by = work[g].record.by, work' = [work EXCEPT ![g] = w],
         UNCHANGED <<setup, instance, changes, room, flushed, fates>>,
         NEW new \in Items, new.number = Number(g), new.kind \in {"event", "dropped"}, Fair(new),
         logged' = Append(logged, new),
         \A d \in BOOLEAN : Course(w.todo, w.record, TRUE, LogIn(logged, Len(logged), Number(g)), d)
  PROVE  LogInv'
<1>1. logged \in Seq(Items) /\ flushed \in 0 .. Len(logged) /\ Len(logged) \in Nat
  BY DEF LogInv, TypedLog
<1>2. Len(logged') = Len(logged) + 1 /\ flushed' \in flushed .. Len(logged') /\ flushed' \in Nat
  BY <1>1
<1>3. OneMore(logged, new, Number(g), flushed')
  BY <1>1, <1>2, OneMoreItem
<1>4. EventIn(logged', Len(logged'), Number(g)) = TRUE /\ LogIn(logged', Len(logged'), Number(g)) = LogIn(logged, Len(logged), Number(g))
  BY <1>3, Booleans DEF OneMore
<1>5. Course(w.todo, w.record, EventIn(logged', Len(logged'), Number(g)), LogIn(logged', Len(logged'), Number(g)),
             AllFlushed(logged', Len(logged'), Number(g), flushed'))
  BY <1>4, Booleans
<1>6. room' \in Seq({Nothing} \cup Fields) /\ Len(room') = Len(room) /\ AddsFair(Number(g))
  BY RoomTyped DEF AddsFair
<1> QED
  BY <1>2, <1>5, <1>6, Moves

LEMMA EventKeeps ==
  ASSUME LogInv, NEW g \in Logger, NEW kept \in BOOLEAN, LogEvent(g, kept)
  PROVE  LogInv'
<1> DEFINE record == work[g].record
           context == IF HasRoom(record.by) THEN room[record.by] ELSE record
           new == LogItem(IF kept THEN "event" ELSE "dropped", record, EventHub(record), OfHandler(record), context)
<1>1. /\ Stage(g, "event") /\ Proceed(g) /\ UNCHANGED <<setup, instance, changes, room, flushed, fates>>
      /\ logged' = Append(logged, new)
  BY DEF LogEvent
<1>2. /\ HasRecord(g) /\ Tail(work[g].todo) \in Seq(Doing)
      /\ Onward("event", Tail(work[g].todo), work[g].record, EventIn(logged, Len(logged), Number(g)),
                LogIn(logged, Len(logged), Number(g)), AllFlushed(logged, Len(logged), Number(g), flushed))
  BY <1>1, StageOnward
<1>3. new \in Items /\ new.number = Number(g) /\ new.kind \in {"event", "dropped"} /\ Fair(new)
  BY <1>2, EventItem
<1> HIDE DEF new
<1> DEFINE w == [work[g] EXCEPT !.todo = Tail(work[g].todo)]
<1>4. /\ w \in Work /\ w.record = work[g].record /\ w.todo = Tail(work[g].todo) /\ work' = [work EXCEPT ![g] = w]
      /\ w.record \in Fields /\ w.record.number = Number(g) /\ w.record.by = work[g].record.by
  <2>1. work' = [work EXCEPT ![g].todo = Tail(work[g].todo)]
    BY <1>1 DEF Proceed, LogInv, TypedLog
  <2> QED
    BY <1>2, <2>1, TodoWork
<1> HIDE DEF w
<1>5. \A d \in BOOLEAN : Course(w.todo, w.record, TRUE, LogIn(logged, Len(logged), Number(g)), d)
  BY <1>2, <1>4 DEF Onward
<1> QED
  BY <1>1, <1>2, <1>3, <1>4, <1>5, EventTodo

LEMMA EventFailsKeeps ==
  ASSUME LogInv, NEW g \in Logger, EventFails(g)
  PROVE  LogInv'
<1> DEFINE record == work[g].record
           new == LogItem("dropped", record, "hook", Unset, record)
<1>1. /\ Stage(g, "event") /\ SkipHooks(g) /\ UNCHANGED <<setup, instance, changes, room, flushed, fates>>
      /\ logged' = Append(logged, new) /\ setup.lib = "logrus"
  BY DEF EventFails
<1>2. /\ HasRecord(g)
      /\ Onward("event", Tail(work[g].todo), work[g].record, EventIn(logged, Len(logged), Number(g)),
                LogIn(logged, Len(logged), Number(g)), AllFlushed(logged, Len(logged), Number(g), flushed))
  BY <1>1, StageOnward
<1>3. new \in Items /\ new.number = Number(g) /\ new.kind = "dropped" /\ Fair(new)
  <2>1. record \in Fields /\ record.number \in Nat /\ record.number = Number(g)
    BY <1>2, FieldsHave DEF LogInv, Number
  <2>2. Unset \in Texts /\ Unset \in AttrWords
    BY DEF Texts, AttrWords
  <2>3. /\ new \in Items /\ new.number = record.number /\ new.kind = "dropped"
        /\ new.value = Unset /\ new.context = record.number
    BY <2>1, <2>2, ItemTyped
  <2> HIDE DEF new
  <2> QED
    BY <2>1, <2>2, <2>3, EventFair
<1> HIDE DEF new
<1>4. PICK w \in Work :
        /\ w.record = WithFailure(work[g].record) /\ w.todo = AfterHooks(work[g].record.level)
        /\ work' = [work EXCEPT ![g] = w]
        /\ w.record \in Fields /\ w.record.number = Number(g) /\ w.record.by = work[g].record.by
  BY <1>1, <1>2, SkipWork
<1>5. \A d \in BOOLEAN : Course(w.todo, w.record, TRUE, LogIn(logged, Len(logged), Number(g)), d)
  BY <1>1, <1>2, <1>4 DEF Onward
<1> QED
  BY <1>1, <1>2, <1>3, <1>4, <1>5, EventTodo

\* A breadcrumb or a metric is neither an event nor a log.
LEMMA OtherTodo ==
  ASSUME LogInv, NEW g \in Logger, HasRecord(g), NEW todo \in Seq(Doing), work' = [work EXCEPT ![g].todo = todo],
         UNCHANGED <<setup, instance, changes, room, flushed, fates>>,
         logged' = logged \/ \E new \in Items : /\ new.number = Number(g) /\ new.kind \in {"crumb", "metric"} /\ Fair(new)
                                                /\ logged' = Append(logged, new),
         Course(todo, work[g].record, EventIn(logged, Len(logged), Number(g)), LogIn(logged, Len(logged), Number(g)),
                AllFlushed(logged, Len(logged), Number(g), flushed))
  PROVE  LogInv'
<1>1. logged \in Seq(Items) /\ flushed \in 0 .. Len(logged) /\ Len(logged) \in Nat /\ flushed' = flushed /\ flushed \in Nat
  BY DEF LogInv, TypedLog
<1>2. AddsFair(Number(g))
  BY DEF AddsFair
<1>3. flushed' \in flushed .. Len(logged')
  BY <1>1, <1>2, AddsLaws DEF LogInv
<1>4. /\ EventIn(logged', Len(logged'), Number(g)) = EventIn(logged, Len(logged), Number(g))
      /\ LogIn(logged', Len(logged'), Number(g)) = LogIn(logged, Len(logged), Number(g))
      /\ AllFlushed(logged', Len(logged'), Number(g), flushed') = AllFlushed(logged, Len(logged), Number(g), flushed)
  <2>1. CASE logged' = logged
    BY <1>1, <2>1
  <2>2. ASSUME NEW new \in Items, new.number = Number(g), new.kind \in {"crumb", "metric"}, logged' = Append(logged, new)
        PROVE  /\ EventIn(logged', Len(logged'), Number(g)) = EventIn(logged, Len(logged), Number(g))
               /\ LogIn(logged', Len(logged'), Number(g)) = LogIn(logged, Len(logged), Number(g))
               /\ AllFlushed(logged', Len(logged'), Number(g), flushed') = AllFlushed(logged, Len(logged), Number(g), flushed)
    <3>1. OneMore(logged, new, Number(g), flushed)
      BY <1>1, OneMoreItem
    <3> QED
      BY <1>1, <2>2, <3>1, Booleans DEF OneMore
  <2> QED
    BY <2>1, <2>2
<1>5. room' \in Seq({Nothing} \cup Fields) /\ Len(room') = Len(room)
  BY RoomTyped
<1>6. Course(todo, work[g].record, EventIn(logged', Len(logged'), Number(g)), LogIn(logged', Len(logged'), Number(g)),
             AllFlushed(logged', Len(logged'), Number(g), flushed'))
  BY <1>4
<1> QED
  BY <1>2, <1>3, <1>5, <1>6, Todo

LEMMA CrumbKeeps ==
  ASSUME LogInv, NEW g \in Logger, Crumb(g)
  PROVE  LogInv'
<1> DEFINE record == work[g].record
           new == LogItem("crumb", record, "hook", Unset, record)
<1>1. /\ Stage(g, "crumb") /\ Proceed(g) /\ UNCHANGED <<setup, instance, changes, room, flushed, fates>>
      /\ logged' = Append(logged, new)
  BY DEF Crumb
<1>2. /\ HasRecord(g) /\ Tail(work[g].todo) \in Seq(Doing)
      /\ Onward("crumb", Tail(work[g].todo), work[g].record, EventIn(logged, Len(logged), Number(g)),
                LogIn(logged, Len(logged), Number(g)), AllFlushed(logged, Len(logged), Number(g), flushed))
  BY <1>1, StageOnward
<1>3. new \in Items /\ new.number = Number(g) /\ new.kind = "crumb" /\ Fair(new)
  <2>1. record \in Fields /\ record.number \in Nat /\ record.number = Number(g)
    BY <1>2, FieldsHave DEF LogInv, Number
  <2>2. Unset \in Texts /\ Unset \in AttrWords
    BY DEF Texts, AttrWords
  <2>3. /\ new \in Items /\ new.number = record.number /\ new.kind = "crumb"
        /\ new.value = Unset /\ new.context = record.number
    BY <2>1, <2>2, ItemTyped
  <2> HIDE DEF new
  <2> QED
    BY <2>1, <2>2, <2>3, EventFair
<1> HIDE DEF new
<1>4. work' = [work EXCEPT ![g].todo = Tail(work[g].todo)]
  BY <1>1 DEF Proceed, LogInv, TypedLog
<1>5. Course(Tail(work[g].todo), work[g].record, EventIn(logged, Len(logged), Number(g)), LogIn(logged, Len(logged), Number(g)),
             AllFlushed(logged, Len(logged), Number(g), flushed))
  BY <1>2 DEF Onward
<1> QED
  BY <1>1, <1>2, <1>3, <1>4, <1>5, OtherTodo

\* The attribute of a log or a metric is fair.
LEMMA EmittedItem ==
  ASSUME LogInv, NEW g \in Logger, HasRecord(g), NEW kind \in {"log", "metric"}
  PROVE  LET record == work[g].record
             new == LogItem(kind, record, LogHub(record), Nearest(g), record)
         IN new \in Items /\ new.number = Number(g) /\ new.kind = kind /\ Fair(new)
<1> DEFINE record == work[g].record
           value == Nearest(g)
           new == LogItem(kind, record, LogHub(record), value, record)
           mine == instance[record.by]
<1>1. record \in Fields /\ record.by \in DOMAIN instance /\ record.number \in Nat /\ record.entry \in BOOLEAN /\ record.number = Number(g)
  BY FieldsHave DEF LogInv, Number
<1>2. /\ record.entry => value = "entry"
      /\ ~record.entry /\ mine # Unset => value = mine
      /\ ~record.entry /\ mine = Unset => value = work[g].scope
  <2>1. record.entry => value = "entry"
    BY DEF Nearest
  <2>2. ~record.entry /\ mine # Unset => value = mine
    BY DEF Nearest
  <2>3. ~record.entry /\ mine = Unset => value = work[g].scope
    BY DEF Nearest
  <2> QED
    BY <2>1, <2>2, <2>3
<1>3. work[g].scope \in AttrWords \ {"entry"}
  BY DEF LogInv, TypedLog, Work
<1>4. /\ mine \in Texts /\ mine \in {Unset} \cup SetValues(Len(changes)) /\ mine # "entry"
      /\ \A n \in DOMAIN changes : mine = Values[n] => Reached(n, record.by, changes)
  BY <1>1, OwnedValue
<1>5. LogHub(record) \in {"context", "hook", "logger"}
  BY DEF LogHub
<1> HIDE DEF value, mine, record
<1>6. value \in Texts /\ (value = "entry" <=> record.entry) /\ (value \in AttrWords \/ value = mine)
  BY <1>1, <1>2, <1>3, <1>4 DEF Texts, AttrWords
<1>7. /\ new \in Items /\ new.number = record.number /\ new.kind = kind /\ new.by = record.by
      /\ new.entry = record.entry /\ new.value = value /\ new.context = record.number
  BY <1>1, <1>5, <1>6, ItemTyped
<1> HIDE DEF new
<1>8. Fair(new)
  <2>1. ~HasRoom(new.by) => new.context = new.number
    BY <1>7
  <2>2. new.value \in AttrWords \cup SetValues(Len(changes))
    BY <1>4, <1>6, <1>7 DEF AttrWords
  <2>3. ASSUME NEW n \in DOMAIN changes, new.value = Values[n]
        PROVE  Reached(n, new.by, changes)
    <3>1. Values[n] \notin AttrWords
      <4>1. n \in DOMAIN Values
        BY ChangesCount DEF LogInv
      <4> QED
        BY <4>1, ValuesApart
    <3> QED
      BY <1>4, <1>6, <1>7, <2>3, <3>1
  <2> QED
    BY <1>6, <1>7, <2>1, <2>2, <2>3 DEF Fair
<1> QED
  BY <1>1, <1>7, <1>8 DEF new, value, record

LEMMA EmitKeeps ==
  ASSUME LogInv, NEW g \in Logger, Emit(g)
  PROVE  LogInv'
<1> DEFINE record == work[g].record
           how == EndOfEmit(record.level)
           new == LogItem("log", record, LogHub(record), Nearest(g), record)
           full == record.text /\ setup.enabled
           l == LogIn(logged', Len(logged'), Number(g))
<1>1. /\ Stage(g, "log") /\ UNCHANGED <<setup, instance, changes, room, flushed>>
      /\ logged' = IF full THEN Append(logged, new) ELSE logged
      /\ IF how # "none" THEN End(g, how) ELSE Proceed(g) /\ UNCHANGED <<fates, process>>
  BY DEF Emit, Emitted
<1>2. /\ HasRecord(g) /\ Tail(work[g].todo) \in Seq(Doing)
      /\ Onward("log", Tail(work[g].todo), work[g].record, EventIn(logged, Len(logged), Number(g)),
                LogIn(logged, Len(logged), Number(g)), AllFlushed(logged, Len(logged), Number(g), flushed))
  BY <1>1, StageOnward
<1>3. new \in Items /\ new.number = Number(g) /\ new.kind = "log" /\ Fair(new)
  BY <1>2, EmittedItem
<1>4. full \in BOOLEAN /\ record.level \in Level
  <2>1. record.text \in BOOLEAN /\ record.level \in Level
    BY <1>2, FieldsHave DEF LogInv
  <2>2. setup.enabled \in BOOLEAN
    BY SetupTyped DEF LogInv, Setups
  <2> QED
    BY <2>1, <2>2
<1>5. logged \in Seq(Items) /\ flushed \in 0 .. Len(logged) /\ Len(logged) \in Nat /\ flushed' = flushed /\ flushed \in Nat
  BY <1>1 DEF LogInv, TypedLog
<1> HIDE DEF new, full
<1>6. (full /\ logged' = Append(logged, new)) \/ (~full /\ logged' = logged)
  BY <1>1, <1>4
<1>7. AddsFair(Number(g))
  BY <1>3, <1>6 DEF AddsFair
<1>8. flushed' \in flushed .. Len(logged')
  BY <1>5, <1>7, AddsLaws DEF LogInv
<1>9. /\ EventIn(logged', Len(logged'), Number(g)) = EventIn(logged, Len(logged), Number(g))
      /\ AllFlushed(logged', Len(logged'), Number(g), flushed) = AllFlushed(logged, Len(logged), Number(g), flushed)
      /\ LogIn(logged, Len(logged), Number(g)) => l
      /\ full => l
  <2>1. CASE full /\ logged' = Append(logged, new)
    <3>1. OneMore(logged, new, Number(g), flushed)
      BY <1>3, <1>5, OneMoreItem
    <3> QED
      BY <1>3, <2>1, <3>1, Booleans DEF OneMore
  <2>2. CASE ~full /\ logged' = logged
    BY <2>2
  <2> QED
    BY <1>6, <2>1, <2>2
<1>10. l \in BOOLEAN
  BY Booleans
<1> HIDE DEF l
<1>11. IF how = "none"
       THEN Course(Tail(work[g].todo), work[g].record, EventIn(logged, Len(logged), Number(g)), l,
                   AllFlushed(logged, Len(logged), Number(g), flushed))
       ELSE Concluded(work[g].record, EventIn(logged, Len(logged), Number(g)), l,
                      AllFlushed(logged, Len(logged), Number(g), flushed), how)
  BY <1>2, <1>9, <1>10 DEF Onward, full
<1>12. CASE how = "none"
  <2>1. Proceed(g) /\ UNCHANGED fates
    BY <1>1, <1>12
  <2>2. work' = [work EXCEPT ![g].todo = Tail(work[g].todo)]
    BY <2>1 DEF Proceed, LogInv, TypedLog
  <2>3. room' \in Seq({Nothing} \cup Fields) /\ Len(room') = Len(room)
    BY <1>1, RoomTyped
  <2>4. Course(Tail(work[g].todo), work[g].record, EventIn(logged', Len(logged'), Number(g)),
               LogIn(logged', Len(logged'), Number(g)), AllFlushed(logged', Len(logged'), Number(g), flushed'))
    BY <1>5, <1>9, <1>11, <1>12 DEF l
  <2> QED
    BY <1>1, <1>2, <1>7, <1>8, <2>1, <2>2, <2>3, <2>4, Todo
<1>13. CASE how # "none"
  <2> DEFINE w == [record |-> Nothing, todo |-> <<>>, scope |-> Unset]
  <2>1. work' = [work EXCEPT ![g] = w]
        /\ fates' = fates \cup {[record |-> work[g].record, fate |-> how, items |-> Len(logged'), flushed |-> flushed]}
    BY <1>1, <1>13 DEF End
  <2>2. w \in Work /\ w.record = Nothing /\ w.todo = <<>>
    BY IdleWork
  <2> HIDE DEF w
  <2>3. how \in {"none", "panic", "fatal"}
    <3>1. setup.lib \in Libraries
      BY SetupTyped DEF LogInv, Setups
    <3> QED
      BY <1>4, <3>1, EndOfEmitIs DEF Endings, Libraries
  <2>4. Concluded(work[g].record, EventIn(logged', Len(logged'), Number(g)), LogIn(logged', Len(logged'), Number(g)),
                  AllFlushed(logged', Len(logged'), Number(g), flushed), how)
    BY <1>9, <1>11, <1>13 DEF l
  <2> HIDE DEF how
  <2> QED
    BY <1>1, <1>2, <1>7, <2>1, <2>2, <2>3, <2>4, Leaves
<1> QED
  BY <1>12, <1>13

LEMMA MetricKeeps ==
  ASSUME LogInv, NEW g \in Logger, EmitMetric(g)
  PROVE  LogInv'
<1> DEFINE record == work[g].record
           new == LogItem("metric", record, LogHub(record), Nearest(g), record)
<1>1. /\ Stage(g, "metric") /\ Proceed(g) /\ UNCHANGED <<setup, instance, changes, room, flushed, fates>>
      /\ logged' = Append(logged, new) \/ logged' = logged
  BY DEF EmitMetric, Emitted
<1>2. /\ HasRecord(g) /\ Tail(work[g].todo) \in Seq(Doing)
      /\ Onward("metric", Tail(work[g].todo), work[g].record, EventIn(logged, Len(logged), Number(g)),
                LogIn(logged, Len(logged), Number(g)), AllFlushed(logged, Len(logged), Number(g), flushed))
  BY <1>1, StageOnward
<1>3. new \in Items /\ new.number = Number(g) /\ new.kind = "metric" /\ Fair(new)
  BY <1>2, EmittedItem
<1> HIDE DEF new
<1>4. work' = [work EXCEPT ![g].todo = Tail(work[g].todo)]
  BY <1>1 DEF Proceed, LogInv, TypedLog
<1>5. Course(Tail(work[g].todo), work[g].record, EventIn(logged, Len(logged), Number(g)), LogIn(logged, Len(logged), Number(g)),
             AllFlushed(logged, Len(logged), Number(g), flushed))
  BY <1>2 DEF Onward
<1> QED
  BY <1>1, <1>2, <1>3, <1>4, <1>5, OtherTodo

LEMMA EndKeeps ==
  ASSUME LogInv, NEW g \in Logger, EndProcess(g)
  PROVE  LogInv'
<1> DEFINE how == IF Stage(g, "panic") THEN "panic" ELSE "fatal"
           w == [record |-> Nothing, todo |-> <<>>, scope |-> Unset]
<1>1. /\ Stage(g, "panic") \/ Stage(g, "exit")
      /\ logged' = logged /\ UNCHANGED <<setup, instance, changes, room, flushed>>
      /\ work' = [work EXCEPT ![g] = w]
      /\ fates' = fates \cup {[record |-> work[g].record, fate |-> how, items |-> Len(logged'), flushed |-> flushed]}
  BY DEF EndProcess, End
<1>2. w \in Work /\ w.record = Nothing /\ w.todo = <<>>
  BY IdleWork
<1> HIDE DEF w
<1>3. HasRecord(g) /\ Concluded(work[g].record, EventIn(logged, Len(logged), Number(g)), LogIn(logged, Len(logged), Number(g)),
                                AllFlushed(logged, Len(logged), Number(g), flushed), how)
  <2>1. CASE Stage(g, "panic")
    BY <2>1, StageOnward DEF Onward
  <2>2. CASE ~Stage(g, "panic")
    <3>1. Stage(g, "exit")
      BY <1>1, <2>2
    <3> QED
      BY <2>2, <3>1, StageOnward DEF Onward
  <2> QED
    BY <2>1, <2>2
<1>4. AddsFair(Number(g)) /\ how \in {"none", "panic", "fatal"}
  BY <1>1 DEF AddsFair
<1> HIDE DEF how
<1>5. Concluded(work[g].record, EventIn(logged', Len(logged'), Number(g)), LogIn(logged', Len(logged'), Number(g)),
                AllFlushed(logged', Len(logged'), Number(g), flushed), how)
  BY <1>1, <1>3
<1> QED
  BY <1>1, <1>2, <1>3, <1>4, <1>5, Leaves

Change == [from : Nat, to : Nat]

LEMMA MoreChanges ==
  ASSUME NEW all \in Seq(Change), NEW c \in Change
  PROVE  /\ Len(all) \in Nat /\ Len(Append(all, c)) = Len(all) + 1 /\ Append(all, c)[Len(all) + 1] = c
         /\ \A k \in 1 .. Len(all) : Append(all, c)[k] = all[k]
OBVIOUS

LEMMA ReachedStays ==
  ASSUME NEW all \in Seq(Change), NEW c \in Change, NEW n \in Nat \ {0}, NEW i, Reached(n, i, all)
  PROVE  Reached(n, i, Append(all, c))
<1> DEFINE more == Append(all, c)
<1>1. /\ Len(all) \in Nat /\ Len(more) = Len(all) + 1 /\ \A k \in 1 .. Len(all) : more[k] = all[k]
  BY MoreChanges
<1> HIDE DEF more
<1>2. PICK line \in SUBSET (n .. Len(all)) :
        /\ n \in line
        /\ \A m \in line : (\A k \in line : k >= m) \/ (\E k \in line : k < m /\ all[k].to = all[m].from)
        /\ \E m \in line : all[m].to = i
  BY DEF Reached
<1>3. line \in SUBSET (n .. Len(more)) /\ \A k \in line : more[k] = all[k]
  BY <1>1, <1>2
<1>4. \A m \in line : (\A k \in line : k >= m) \/ (\E k \in line : k < m /\ more[k].to = more[m].from)
  BY <1>2, <1>3
<1>5. \E m \in line : more[m].to = i
  BY <1>2, <1>3
<1>6. Reached(n, i, more)
  BY <1>2, <1>3, <1>4, <1>5 DEF Reached
<1> QED
  BY <1>6 DEF more

LEMMA ReachedFirst ==
  ASSUME NEW all \in Seq(Change), NEW c \in Change
  PROVE  Reached(Len(all) + 1, c.to, Append(all, c))
<1> DEFINE more == Append(all, c)
           n == Len(all) + 1
           line == {n}
<1>1. Len(more) = n /\ n \in Nat /\ more[n] = c
  BY MoreChanges
<1> HIDE DEF more, n
<1>2. line \in SUBSET (n .. Len(more)) /\ n \in line
  BY <1>1
<1>3. \A m \in line : \A k \in line : k >= m
  BY <1>1
<1>4. \E m \in line : more[m].to = c.to
  BY <1>1
<1>5. Reached(n, c.to, more)
  BY <1>2, <1>3, <1>4 DEF Reached
<1> QED
  BY <1>5 DEF more, n

LEMMA ReachedOn ==
  ASSUME NEW all \in Seq(Change), NEW c \in Change, NEW n \in Nat \ {0}, Reached(n, c.from, all)
  PROVE  Reached(n, c.to, Append(all, c))
<1> DEFINE more == Append(all, c)
           last == Len(all) + 1
<1>1. /\ Len(all) \in Nat /\ last \in Nat /\ Len(more) = last /\ more[last] = c
      /\ \A k \in 1 .. Len(all) : more[k] = all[k] /\ k < last
  BY MoreChanges
<1>2. PICK line \in SUBSET (n .. Len(all)) :
        /\ n \in line
        /\ \A m \in line : (\A k \in line : k >= m) \/ (\E k \in line : k < m /\ all[k].to = all[m].from)
        /\ \E m \in line : all[m].to = c.from
  BY DEF Reached
<1>3. \A k \in line : k \in 1 .. Len(all) /\ k \in n .. Len(all)
  BY <1>1, <1>2
<1> HIDE DEF more, last
<1> DEFINE longer == line \cup {last}
<1>4. longer \in SUBSET (n .. Len(more)) /\ n \in longer
  <2>1. n \in n .. Len(all)
    BY <1>2, <1>3
  <2>2. last \in n .. last /\ \A k \in line : k \in n .. last
    BY <1>1, <1>3, <2>1 DEF last
  <2> QED
    BY <1>1, <1>2, <2>2
<1>5. ASSUME NEW m \in longer
      PROVE  (\A k \in longer : k >= m) \/ (\E k \in longer : k < m /\ more[k].to = more[m].from)
  <2>1. CASE m = last
    <3>1. PICK k \in line : all[k].to = c.from
      BY <1>2
    <3>2. k \in longer /\ k < last /\ more[k] = all[k]
      BY <1>1, <1>3, <3>1
    <3> QED
      BY <1>1, <2>1, <3>1, <3>2
  <2>2. CASE m \in line
    <3>1. CASE \A k \in line : k >= m
      <4>1. m < last /\ m \in Nat
        BY <1>1, <1>3, <2>2
      <4> QED
        BY <1>1, <3>1, <4>1
    <3>2. CASE \E k \in line : k < m /\ all[k].to = all[m].from
      BY <1>1, <1>3, <2>2, <3>2
    <3> QED
      BY <1>2, <2>2, <3>1, <3>2
  <2> QED
    BY <2>1, <2>2
<1>6. \E m \in longer : more[m].to = c.to
  BY <1>1
<1> HIDE DEF longer
<1>7. Reached(n, c.to, more)
  BY <1>4, <1>5, <1>6 DEF Reached
<1> QED
  BY <1>7 DEF more

\* How a change of attributes comes about: c of them, with the value of the call or
\* those of the one it was made from.
Comes(c, j) ==
  \/ j \in DOMAIN instance /\ instance'[j] = instance[j]
  \/ c.to = j /\ instance'[j] = Values[Len(changes) + 1]
  \/ c.to = j /\ c.from \in DOMAIN instance /\ instance'[j] = instance[c.from]

Changed(c) ==
  /\ UNCHANGED <<setup, work, logged, flushed, fates>>
  /\ changes' = Append(changes, c) /\ Len(changes) < NumSets
  /\ c.from \in DOMAIN instance
  /\ instance' \in Seq(Texts) /\ DOMAIN instance \subseteq DOMAIN instance'
  /\ room' \in Seq({Nothing} \cup Fields) /\ Len(room') = Len(instance')
  /\ setup.lib = "slog" => \A j \in DOMAIN instance : instance'[j] = instance[j]
  /\ \A j \in DOMAIN instance' : Comes(c, j)

LEMMA ChangeKeeps ==
  ASSUME LogInv, NEW c \in Change, Changed(c)
  PROVE  LogInv'
<1> DEFINE last == Len(changes) + 1
<1>1. /\ changes \in Seq(Change) /\ changes' \in Seq(Change) /\ Len(changes) \in Nat /\ Len(changes') = last
      /\ DOMAIN changes = 1 .. Len(changes) /\ DOMAIN changes' = 1 .. last /\ changes'[last] = c
      /\ \A n \in DOMAIN changes : changes'[n] = changes[n]
  BY MoreChanges DEF LogInv, TypedLog, Changed, Change
<1>2. \A n \in 1 .. last : n = last \/ n \in DOMAIN changes
  BY <1>1
<1>3. last <= NumSets /\ last \in DOMAIN Values /\ \A n \in DOMAIN changes : n \in DOMAIN Values /\ n # last /\ n \in Nat \ {0}
  <2>1. NumSets \in Nat /\ NumSets <= Len(Values)
    BY LoggersAssumption, ChangesCount DEF LoggersAssumption, LogInv
  <2>2. Len(Values) \in Nat /\ DOMAIN Values = 1 .. Len(Values)
    BY ChangesCount DEF LogInv
  <2> QED
    BY <1>1, <2>1, <2>2 DEF Changed
<1>4. TypedLog'
  <2>1. \A n \in DOMAIN changes' : changes'[n].from \in DOMAIN instance'
    BY <1>1, <1>2 DEF LogInv, TypedLog, Changed
  <2>2. \A g \in Logger : /\ HasRecord(g)' => work'[g].record.by \in DOMAIN instance'
                          /\ ~HasRecord(g)' => work'[g].todo = <<>>
    BY DEF LogInv, TypedLog, Changed, HasRecord
  <2>3. changes' \in Seq([from : Nat, to : Nat]) /\ Len(changes') <= NumSets
    BY <1>1, <1>3 DEF Change
  <2> QED
    BY <2>1, <2>2, <2>3 DEF LogInv, TypedLog, Changed
<1>5. Numbered'
  <2>1. Logged' = Logged
    BY DEF Logged, Changed
  <2> QED
    BY <2>1 DEF LogInv, Numbered, Changed, HasRecord, Number
<1>6. OnCourse'
  <2>1. ASSUME NEW h \in Logger, HasRecord(h)'
        PROVE  Course(work[h].todo, work[h].record, EventIn(logged, Len(logged), Number(h)), LogIn(logged, Len(logged), Number(h)),
                      AllFlushed(logged, Len(logged), Number(h), flushed))'
    BY <2>1, OnCoursePrimed DEF LogInv, OnCourse, Changed, HasRecord, Number
  <2> QED
    BY <2>1 DEF OnCourse
<1>7. Ended'
  <2>1. ASSUME NEW e \in fates'
        PROVE  Concluded(e.record, EventIn(logged, e.items, e.record.number), LogIn(logged, e.items, e.record.number),
                         AllFlushed(logged, e.items, e.record.number, e.flushed), e.fate)'
    BY <2>1, EndedPrimed DEF LogInv, Ended, Changed
  <2> QED
    BY <2>1 DEF Ended
<1>8. /\ SetValues(Len(changes)) \subseteq SetValues(last)
      /\ Values[last] \in SetValues(last)
      /\ \A v \in AttrWords \cup SetValues(Len(changes)) : v # Values[last]
  <2>1. \A k \in 1 .. Len(changes) : k \in 1 .. last /\ Values[k] # Values[last]
    BY <1>1, <1>3, ValuesApart
  <2>2. last \in 1 .. last
    BY <1>1
  <2>3. \A v \in AttrWords : v # Values[last]
    BY <1>3, ValuesApart
  <2> HIDE DEF last
  <2> QED
    BY <2>1, <2>2, <2>3 DEF SetValues
<1>9. \A n \in DOMAIN changes : \A i : Reached(n, i, changes) => Reached(n, i, changes')
  BY <1>1, <1>3, ReachedStays DEF Changed
<1>10. Reached(last, c.to, changes')
  BY <1>1, ReachedFirst DEF Changed
<1>11. \A n \in DOMAIN changes : Reached(n, c.from, changes) => Reached(n, c.to, changes')
  BY <1>1, <1>3, ReachedOn DEF Changed
<1>12. Owned'
  <2>1. ASSUME NEW j \in DOMAIN instance'
        PROVE  /\ instance'[j] \in {Unset} \cup SetValues(last)
               /\ \A n \in 1 .. last : instance'[j] = Values[n] => Reached(n, j, changes')
    <3>1. CASE j \in DOMAIN instance /\ instance'[j] = instance[j]
      <4>1. instance[j] \in {Unset} \cup SetValues(Len(changes))
            /\ \A n \in DOMAIN changes : instance[j] = Values[n] => Reached(n, j, changes)
        BY <3>1, OwnedValue
      <4>2. instance[j] # Values[last]
        BY <1>8, <4>1 DEF AttrWords
      <4> QED
        BY <1>2, <1>8, <1>9, <3>1, <4>1, <4>2
    <3>2. CASE c.to = j /\ instance'[j] = Values[last]
      <4>1. \A n \in DOMAIN changes : Values[n] # Values[last]
        BY <1>3, ValuesApart
      <4> QED
        BY <1>2, <1>8, <1>10, <3>2, <4>1
    <3>3. CASE c.to = j /\ c.from \in DOMAIN instance /\ instance'[j] = instance[c.from]
      <4>1. instance[c.from] \in {Unset} \cup SetValues(Len(changes))
            /\ \A n \in DOMAIN changes : instance[c.from] = Values[n] => Reached(n, c.from, changes)
        BY <3>3, OwnedValue
      <4>2. instance[c.from] # Values[last]
        BY <1>8, <4>1 DEF AttrWords
      <4> QED
        BY <1>2, <1>8, <1>11, <3>3, <4>1, <4>2
    <3> QED
      BY <3>1, <3>2, <3>3 DEF Changed, Comes
  <2>2. \A j \in DOMAIN instance' :
          /\ instance'[j] \in {Unset} \cup SetValues(Len(changes'))
          /\ \A n \in DOMAIN changes' : instance'[j] = Values[n] => Reached(n, j, changes')
    BY <1>1, <2>1
  <2> QED
    BY <2>2 DEF Owned, SetValues, Reached
<1>13. AllFair'
  <2>1. ASSUME NEW i \in DOMAIN logged
        PROVE  Fair(logged[i])'
    <3> DEFINE one == logged[i]
    <3>1. logged'[i] = one /\ Fair(one)
      BY DEF LogInv, AllFair, Changed
    <3>2. HasRoom(one.by) => HasRoom(one.by)'
      <4>1. ASSUME NEW n \in DOMAIN changes, setup.lib = "slog", changes[n].to = one.by, instance[changes[n].from] # Unset
            PROVE  HasRoom(one.by)'
        <5>1. n \in DOMAIN changes' /\ changes'[n] = changes[n]
          BY <1>1, <1>2
        <5>2. changes[n].from \in DOMAIN instance
          BY DEF LogInv, TypedLog
        <5>3. instance'[changes[n].from] = instance[changes[n].from] /\ setup' = setup
          BY <4>1, <5>2 DEF Changed
        <5> QED
          BY <3>1, <4>1, <5>1, <5>3 DEF HasRoom
      <4> QED
        BY <4>1 DEF HasRoom
    <3>3. one.value \in AttrWords \cup SetValues(last)
      BY <1>8, <3>1 DEF Fair
    <3>4. \A n \in 1 .. last : one.value = Values[n] => Reached(n, one.by, changes')
      <4>1. one.value # Values[last]
        BY <1>8, <3>1 DEF Fair
      <4> QED
        BY <1>2, <1>9, <3>1, <4>1 DEF Fair
    <3>5. Len(changes') = last /\ DOMAIN changes' = 1 .. last
      BY <1>1
    <3> HIDE DEF one
    <3>6. /\ ~HasRoom(logged[i].by)' => logged'[i].context = logged'[i].number
          /\ logged'[i].kind \in {"log", "metric"} => (logged'[i].value = "entry" <=> logged'[i].entry)
          /\ logged'[i].value \in AttrWords \cup SetValues(Len(changes'))
          /\ \A n \in DOMAIN changes' : logged'[i].value = Values[n] => Reached(n, logged'[i].by, changes')
      <4>1. HasRoom(one.by)' => HasRoom(logged[i].by)'
        BY <3>1 DEF HasRoom, one
      <4> QED
        BY <3>1, <3>2, <3>3, <3>4, <3>5, <4>1 DEF Fair
    <3> QED
      BY <3>6 DEF Fair, SetValues, Reached
  <2> QED
    BY <2>1 DEF AllFair, Changed
<1> QED
  BY <1>4, <1>5, <1>6, <1>7, <1>12, <1>13 DEF LogInv

\* A record is logged.
LEMMA NewNumber ==
  ASSUME LogInv
  PROVE  /\ Logged \in Nat /\ Logged + 1 \notin 1 .. Logged /\ 1 .. Logged \subseteq 1 .. Logged + 1
         /\ Logged + 1 \in 1 .. Logged + 1
         /\ EventIn(logged, Len(logged), Logged + 1) = FALSE /\ LogIn(logged, Len(logged), Logged + 1) = FALSE
<1>1. Logged \in Nat
  BY LoggedIs DEF LogInv
<1>2. Logged + 1 \notin 1 .. Logged /\ 1 .. Logged \subseteq 1 .. Logged + 1 /\ Logged + 1 \in 1 .. Logged + 1
  BY <1>1
<1>3. \A i \in 1 .. Len(logged) : logged[i].number # Logged + 1
  BY <1>2 DEF LogInv, Numbered
<1>4. ~EventIn(logged, Len(logged), Logged + 1) /\ ~LogIn(logged, Len(logged), Logged + 1)
  BY <1>3 DEF EventIn, LogIn
<1> QED
  BY <1>1, <1>2, <1>4, Booleans

LEMMA LogKeeps ==
  ASSUME LogInv, NEW g \in Logger, NEW record \in Records, NEW i \in DOMAIN instance, Log(g, record, i)
  PROVE  LogInv'
<1> DEFINE fresh == Logged + 1
           rec == [number |-> fresh, level |-> record.level, hub |-> record.hub, entry |-> record.entry,
                   text |-> record.text, by |-> i, failed |-> FALSE]
           todo == Stages(record.level)
           w == [record |-> rec, todo |-> todo, scope |-> Unset]
           done == AllFlushed(logged, Len(logged), fresh, flushed)
           none == FALSE
<1>1. /\ ~HasRecord(g) /\ UNCHANGED <<setup, instance, changes, room, logged, flushed, fates>>
      /\ setup.lib = "slog" => record.level # "panic"
      /\ setup.lib = "meter" => record.level = "low"
      /\ work' = [work EXCEPT ![g] = w]
  BY DEF Log, HasRecord
<1>2. rec \in Fields /\ rec # Nothing /\ rec.level = record.level /\ rec.number = fresh /\ rec.by = i
  <2>1. record \in [level : Level, hub : BOOLEAN, entry : BOOLEAN, text : BOOLEAN]
    BY LoggingAssumption DEF LoggingAssumption
  <2>2. i \in Nat
    BY DEF LogInv, TypedLog
  <2>3. fresh \in Nat \ {0}
    BY NewNumber
  <2>4. rec # Nothing
    BY DEF Nothing
  <2> HIDE DEF fresh
  <2> QED
    BY <2>1, <2>2, <2>3, <2>4 DEF Fields
<1>3. Course(todo, rec, FALSE, FALSE, done) /\ todo \in Seq(Doing)
  <2>1. setup \in Setups
    BY SetupTyped DEF LogInv
  <2>2. done \in BOOLEAN
    BY Booleans
  <2> HIDE DEF rec, done
  <2>3. Course(todo, rec, FALSE, FALSE, done)
    BY <1>1, <1>2, <2>1, <2>2, SetsOut
  <2>4. Course(todo, rec, none, none, done) /\ none \in BOOLEAN
    BY <2>3
  <2> HIDE DEF todo, none
  <2>5. todo = <<>> \/ \E x \in Doing, rest \in Seq(Doing) :
                         /\ todo = Push(x, rest) /\ todo # <<>> /\ Head(todo) = x /\ Tail(todo) = rest
                         /\ Onward(x, rest, rec, none, none, done)
    BY <1>2, <2>1, <2>2, <2>4, OnlyDoing
  <2>6. ASSUME NEW x \in Doing, NEW rest \in Seq(Doing), todo = Push(x, rest)
        PROVE  todo \in Seq(Doing)
    BY <2>6, PushLaws
  <2>7. <<>> \in Seq(Doing)
    BY DoingNames
  <2>8. todo \in Seq(Doing)
    BY <2>5, <2>6, <2>7
  <2> QED
    BY <2>3, <2>8
<1>4. w \in Work /\ w.record = rec /\ w.todo = todo
  <2>1. Unset \in AttrWords \ {"entry"}
    BY DEF AttrWords, Unset
  <2> HIDE DEF rec, todo
  <2> QED
    BY <1>2, <1>3, <2>1 DEF Work
<1>5. /\ Logged \in Nat /\ fresh \notin 1 .. Logged /\ 1 .. Logged \subseteq 1 .. fresh /\ fresh \in 1 .. fresh
      /\ EventIn(logged, Len(logged), fresh) = FALSE /\ LogIn(logged, Len(logged), fresh) = FALSE
  BY NewNumber
<1> HIDE DEF rec, todo, w, fresh
<1>6. work'[g] = w /\ \A h \in Logger : h # g => work'[h] = work[h]
  BY <1>1 DEF LogInv, TypedLog
<1>7. Logged' = fresh
  <2>1. BusySet' = BusySet \cup {g} /\ g \notin BusySet
    BY <1>1, <1>2, <1>4, <1>6 DEF BusySet, HasRecord
  <2>2. /\ IsFiniteSet(BusySet) /\ Logged = Cardinality(fates) + Cardinality(BusySet)
        /\ Cardinality(fates) \in Nat /\ Cardinality(BusySet) \in Nat
    BY LoggedIs DEF LogInv
  <2>3. Cardinality(BusySet') = Cardinality(BusySet) + 1
    BY <2>1, <2>2, FS_AddElement
  <2>4. Logged' = Cardinality(fates) + Cardinality(BusySet')
    BY <1>1 DEF Logged, BusySet, HasRecord
  <2> QED
    BY <2>2, <2>3, <2>4 DEF fresh
<1>8. TypedLog'
  <2>1. work' \in [Logger -> Work]
    BY <1>1, <1>4 DEF LogInv, TypedLog
  <2>2. \A h \in Logger : /\ HasRecord(h)' => work'[h].record.by \in DOMAIN instance'
                          /\ ~HasRecord(h)' => work'[h].todo = <<>>
    <3>1. /\ work'[g].record # Nothing /\ work'[g].record.by \in DOMAIN instance'
      BY <1>1, <1>2, <1>4, <1>6
    <3> QED
      BY <1>1, <1>6, <3>1 DEF LogInv, TypedLog, HasRecord
  <2> QED
    BY <1>1, <2>1, <2>2 DEF LogInv, TypedLog
<1>9. \A h \in Logger : HasRecord(h)' => (h = g /\ Number(h)' = fresh) \/ (h # g /\ HasRecord(h) /\ Number(h)' = Number(h))
  BY <1>2, <1>4, <1>6 DEF HasRecord, Number
<1>10. Numbered'
  <2>1. \A h \in Logger : HasRecord(h)' => Number(h)' \in 1 .. fresh
    BY <1>5, <1>9 DEF LogInv, Numbered
  <2>2. \A h, k \in Logger : HasRecord(h)' /\ HasRecord(k)' /\ h # k => Number(h)' # Number(k)'
    BY <1>5, <1>9 DEF LogInv, Numbered
  <2>3. \A h \in Logger, end \in fates' : HasRecord(h)' => Number(h)' # end.record.number
    BY <1>1, <1>5, <1>9 DEF LogInv, Numbered
  <2>4. (\A end \in fates' : end.record.number \in 1 .. fresh) /\ \A n \in 1 .. Len(logged') : logged'[n].number \in 1 .. fresh
    BY <1>1, <1>5 DEF LogInv, Numbered
  <2>5. IsFiniteSet(fates')
    BY <1>1 DEF LogInv, Numbered
  <2> QED
    BY <1>7, <2>1, <2>2, <2>3, <2>4, <2>5 DEF Numbered
<1>11. OnCourse'
  <2>1. ASSUME NEW h \in Logger, HasRecord(h)'
        PROVE  Course(work[h].todo, work[h].record, EventIn(logged, Len(logged), Number(h)), LogIn(logged, Len(logged), Number(h)),
                      AllFlushed(logged, Len(logged), Number(h), flushed))'
    <3>1. CASE h = g
      <4>1. work'[h].todo = todo /\ work'[h].record = rec /\ work'[h].record.number = fresh
        BY <1>2, <1>4, <1>6, <3>1
      <4>2. Course(work'[h].todo, work'[h].record, EventIn(logged', Len(logged'), work'[h].record.number),
                   LogIn(logged', Len(logged'), work'[h].record.number),
                   AllFlushed(logged', Len(logged'), work'[h].record.number, flushed'))
        BY <1>1, <1>3, <1>5, <4>1
      <4> QED
        BY <1>1, <4>2, OnCoursePrimed
    <3>2. CASE h # g
      BY <1>1, <1>6, <1>9, <2>1, <3>2, OnCoursePrimed DEF LogInv, OnCourse, Number
    <3> QED
      BY <3>1, <3>2
  <2> QED
    BY <2>1 DEF OnCourse
<1>12. Ended'
  <2>1. ASSUME NEW e \in fates'
        PROVE  Concluded(e.record, EventIn(logged, e.items, e.record.number), LogIn(logged, e.items, e.record.number),
                         AllFlushed(logged, e.items, e.record.number, e.flushed), e.fate)'
    BY <1>1, <2>1, EndedPrimed DEF LogInv, Ended
  <2> QED
    BY <2>1 DEF Ended
<1>13. Owned' /\ AllFair'
  BY <1>1, FairStays DEF LogInv
<1> QED
  BY <1>8, <1>10, <1>11, <1>12, <1>13 DEF LogInv

LEMMA NextValue ==
  ASSUME TypedLog, Len(changes) < NumSets
  PROVE  Values[Len(changes) + 1] \in Texts
<1>1. Len(changes) + 1 \in DOMAIN Values
  <2>1. NumSets \in Nat /\ NumSets <= Len(Values)
    BY LoggersAssumption, ChangesCount DEF LoggersAssumption
  <2>2. Len(Values) \in Nat /\ DOMAIN Values = 1 .. Len(Values) /\ Len(changes) \in Nat
    BY ChangesCount
  <2> QED
    BY <2>1, <2>2
<1> QED
  BY <1>1, ValuesApart

\* The attributes of one are changed.
LEMMA SetKeeps ==
  ASSUME LogInv, NEW i \in DOMAIN instance, NEW valid \in BOOLEAN, SetAttributes(i, valid)
  PROVE  LogInv'
<1> DEFINE c == [from |-> i, to |-> i]
           value == Values[Len(changes) + 1]
<1>1. /\ UNCHANGED <<setup, room, work, logged, flushed, fates>> /\ changes' = Append(changes, c) /\ Len(changes) < NumSets
      /\ instance' = IF valid THEN [instance EXCEPT ![i] = value] ELSE instance
      /\ setup.lib # "slog"
  BY DEF SetAttributes, CanChange
<1>2. instance \in Seq(Texts) /\ i \in Nat /\ Len(room) = Len(instance) /\ room \in Seq({Nothing} \cup Fields)
  BY DEF LogInv, TypedLog
<1>3. c \in Change /\ c.from = i /\ c.to = i
  BY <1>2 DEF Change
<1>4. value \in Texts
  BY <1>1, NextValue DEF LogInv
<1> HIDE DEF c
<1>5. /\ instance' \in Seq(Texts) /\ DOMAIN instance' = DOMAIN instance /\ Len(instance') = Len(instance)
      /\ \A j \in DOMAIN instance : instance'[j] = instance[j] \/ (j = i /\ instance'[j] = value)
  <2> DEFINE T == Texts
  <2> HIDE DEF value
  <2>1. CASE valid
    BY <1>1, <1>2, <1>4, <2>1
  <2>2. CASE ~valid
    BY <1>1, <1>2, <2>2
  <2> QED
    BY <2>1, <2>2
<1>6. \A j \in DOMAIN instance' : Comes(c, j)
  BY <1>3, <1>5 DEF Comes
<1>7. Changed(c)
  BY <1>1, <1>2, <1>3, <1>5, <1>6 DEF Changed
<1> QED
  BY <1>3, <1>7, ChangeKeeps

\* One is made from another.
LEMMA DeriveKeeps ==
  ASSUME LogInv, NEW i \in DOMAIN instance, NEW value, Derive(i, value), Len(changes) < NumSets,
         value = instance[i] \/ value = Values[Len(changes) + 1]
  PROVE  LogInv'
<1> DEFINE n == Len(instance)
           c == [from |-> i, to |-> n + 1]
<1>1. /\ UNCHANGED <<setup, work, logged, flushed, fates>> /\ changes' = Append(changes, c)
      /\ instance' = Append(instance, value) /\ room' = Append(room, Nothing)
  BY DEF Derive
<1>2. instance \in Seq(Texts) /\ i \in 1 .. n /\ n \in Nat /\ Len(room) = n /\ room \in Seq({Nothing} \cup Fields)
  BY DEF LogInv, TypedLog
<1>3. c \in Change /\ c.from = i /\ c.to = n + 1
  BY <1>2 DEF Change
<1> HIDE DEF c
<1>4. value \in Texts
  BY NextValue DEF LogInv, TypedLog
<1>5. /\ instance' \in Seq(Texts) /\ DOMAIN instance' = 1 .. n + 1 /\ Len(instance') = n + 1 /\ DOMAIN instance = 1 .. n
      /\ instance'[n + 1] = value /\ \A j \in 1 .. n : instance'[j] = instance[j]
  BY <1>1, <1>2, <1>4
<1>6. room' \in Seq({Nothing} \cup Fields) /\ Len(room') = n + 1
  <2> DEFINE K == {Nothing} \cup Fields
  <2>1. Nothing \in K
    OBVIOUS
  <2> HIDE DEF K
  <2>2. room' \in Seq(K) /\ Len(room') = n + 1
    <3>1. room \in Seq(K)
      BY <1>2 DEF K
    <3> QED
      BY <1>1, <1>2, <2>1, <3>1
  <2> QED
    BY <2>2 DEF K
<1>7. \A j \in 1 .. n + 1 : j = n + 1 \/ j \in 1 .. n
  BY <1>2
<1> HIDE DEF n
<1>8. \A j \in DOMAIN instance' : Comes(c, j)
  BY <1>2, <1>3, <1>5, <1>7 DEF Comes
<1>9. DOMAIN instance \subseteq DOMAIN instance'
  BY <1>2, <1>5
<1>10. Changed(c)
  BY <1>1, <1>2, <1>3, <1>5, <1>6, <1>8, <1>9 DEF Changed
<1> QED
  BY <1>3, <1>10, ChangeKeeps

\* Every step of a goroutine keeps the invariant.
LEMMA HandledKeeps ==
  ASSUME LogInv, NEW g \in Logger, Handled(g)
  PROVE  LogInv'
<1>1. CASE ReturnFromLog(g)
  BY <1>1, ReturnKeeps
<1>2. CASE Extract(g)
  BY <1>2, ExtractKeeps
<1>3. CASE EventFails(g)
  BY <1>3, EventFailsKeeps
<1>4. CASE Invalid(g)
  BY <1>4, InvalidKeeps
<1>5. CASE Crumb(g)
  BY <1>5, CrumbKeeps
<1>6. CASE FlushLogs(g)
  BY <1>6, FlushKeeps
<1>7. CASE Gather(g)
  BY <1>7, GatherKeeps
<1>8. CASE Emit(g)
  BY <1>8, EmitKeeps
<1>9. CASE EmitMetric(g)
  BY <1>9, MetricKeeps
<1>10. CASE EndProcess(g)
  BY <1>10, EndKeeps
<1>11. ASSUME NEW kept \in BOOLEAN, LogEvent(g, kept)
       PROVE  LogInv'
  BY <1>11, EventKeeps
<1>12. ASSUME NEW record \in Records, NEW i \in DOMAIN instance, Log(g, record, i)
       PROVE  LogInv'
  BY <1>12, LogKeeps
<1> QED
  BY <1>1, <1>2, <1>3, <1>4, <1>5, <1>6, <1>7, <1>8, <1>9, <1>10, <1>11, <1>12 DEF Handled

LEMMA LogStep ==
  ASSUME LogInv, [LogNext]_logVars
  PROVE  LogInv'
<1>1. CASE \E g \in Logger : Handled(g)
  BY <1>1, HandledKeeps
<1>2. ASSUME NEW i \in DOMAIN instance, WithCtx(i)
      PROVE  LogInv'
  BY <1>2, DeriveKeeps DEF WithCtx, CanChange
<1>3. ASSUME NEW i \in DOMAIN instance, WithAttrs(i) \/ With(i)
      PROVE  LogInv'
  BY <1>3, DeriveKeeps DEF WithAttrs, With, CanChange
<1>4. ASSUME NEW i \in DOMAIN instance, NEW valid \in BOOLEAN, SetAttributes(i, valid)
      PROVE  LogInv'
  BY <1>4, SetKeeps
<1>5. CASE UNCHANGED logVars
  <2>1. /\ UNCHANGED <<setup, instance, changes, room, work, logged, flushed, fates>>
    BY <1>5 DEF logVars
  <2>2. TypedLog'
    BY <2>1 DEF LogInv, TypedLog, HasRecord
  <2>3. Numbered'
    <3>1. Logged' = Logged
      BY <2>1 DEF Logged
    <3> QED
      BY <2>1, <3>1 DEF LogInv, Numbered, HasRecord, Number
  <2>4. OnCourse'
    <3>1. ASSUME NEW h \in Logger, HasRecord(h)'
          PROVE  Course(work[h].todo, work[h].record, EventIn(logged, Len(logged), Number(h)),
                        LogIn(logged, Len(logged), Number(h)), AllFlushed(logged, Len(logged), Number(h), flushed))'
      BY <2>1, <3>1, OnCoursePrimed DEF LogInv, OnCourse, HasRecord, Number
    <3> QED
      BY <3>1 DEF OnCourse
  <2>5. Ended'
    <3>1. ASSUME NEW e \in fates'
          PROVE  Concluded(e.record, EventIn(logged, e.items, e.record.number), LogIn(logged, e.items, e.record.number),
                           AllFlushed(logged, e.items, e.record.number, e.flushed), e.fate)'
      BY <2>1, <3>1, EndedPrimed DEF LogInv, Ended
    <3> QED
      BY <3>1 DEF Ended
  <2>6. Owned' /\ AllFair'
    BY <2>1, FairStays DEF LogInv
  <2> QED
    BY <2>2, <2>3, <2>4, <2>5, <2>6 DEF LogInv
<1> QED
  BY <1>1, <1>2, <1>3, <1>4, <1>5 DEF LogNext

LEMMA LogStart ==
  ASSUME LogInit
  PROVE  LogInv
<1>1. /\ setup \in Logging /\ instance = <<Unset>> /\ changes = <<>> /\ room = <<Nothing>> /\ logged = <<>> /\ flushed = 0
      /\ fates = {} /\ work = [g \in Logger |-> [record |-> Nothing, todo |-> <<>>, scope |-> Unset]]
  BY DEF LogInit
<1>2. \A g \in Logger : ~HasRecord(g) /\ work[g].todo = <<>>
  BY <1>1 DEF HasRecord
<1>3. TypedLog
  <2>1. work \in [Logger -> Work]
    BY <1>1, IdleWork
  <2>2. room \in Seq({Nothing} \cup Fields) /\ Len(room) = 1
    <3> DEFINE K == {Nothing} \cup Fields
    <3>1. Nothing \in K
      OBVIOUS
    <3> HIDE DEF K
    <3>2. room \in Seq(K) /\ Len(room) = 1
      BY <1>1, <3>1
    <3> QED
      BY <3>2 DEF K
  <2>3. instance \in Seq(Texts) /\ Len(instance) = 1
    <3>1. Unset \in Texts
      BY DEF Texts, AttrWords
    <3> QED
      BY <1>1, <3>1
  <2>4. changes \in Seq([from : Nat, to : Nat]) /\ Len(changes) = 0 /\ DOMAIN changes = {}
    BY <1>1
  <2>5. logged \in Seq(Items) /\ Len(logged) = 0
    BY <1>1
  <2>6. NumSets \in Nat
    BY LoggersAssumption DEF LoggersAssumption
  <2>7. fates \subseteq Fates /\ \A end \in fates : end.items <= Len(logged)
    BY <1>1
  <2> QED
    BY <1>1, <1>2, <2>1, <2>2, <2>3, <2>4, <2>5, <2>6, <2>7 DEF TypedLog
<1>4. Numbered
  <2>1. IsFiniteSet(fates)
    BY <1>1, FS_EmptySet
  <2> QED
    BY <1>1, <1>2, <2>1 DEF Numbered
<1>5. OnCourse /\ Ended
  BY <1>1, <1>2 DEF OnCourse, Ended
<1>6. Owned
  <2>1. DOMAIN changes = {} /\ \A i \in DOMAIN instance : instance[i] = Unset
    BY <1>1
  <2> QED
    BY <2>1 DEF Owned
<1>7. AllFair
  BY <1>1 DEF AllFair
<1> QED
  BY <1>3, <1>4, <1>5, <1>6, <1>7 DEF LogInv

LEMMA InvIsAttributed ==
  ASSUME LogInv
  PROVE  Attributed
<1> SUFFICES ASSUME NEW i \in DOMAIN logged
             PROVE  LET one == logged[i] IN
                    /\ ~HasRoom(one.by) => one.context = one.number
                    /\ one.kind \in {"log", "metric"} => (one.value = "entry" <=> one.entry)
                    /\ \A n \in DOMAIN changes : one.value = Values[n] =>
                         \E line \in SUBSET (n .. Len(changes)) :
                           n \in line /\ Descent(line) /\ \E m \in line : changes[m].to = one.by
  BY DEF Attributed
<1> DEFINE one == logged[i]
<1>1. Fair(one)
  BY DEF LogInv, AllFair
<1> HIDE DEF one
<1>2. \A n \in DOMAIN changes : one.value = Values[n] =>
        \E line \in SUBSET (n .. Len(changes)) :
          n \in line /\ Descent(line) /\ \E m \in line : changes[m].to = one.by
  BY <1>1 DEF Fair, Reached, Descent
<1>3. /\ ~HasRoom(one.by) => one.context = one.number
      /\ one.kind \in {"log", "metric"} => (one.value = "entry" <=> one.entry)
  BY <1>1 DEF Fair
<1> QED
  BY <1>2, <1>3 DEF one

LEMMA KindsLogged ==
  ASSUME NEW record, NEW n
  PROVE  /\ Kinds(record, n) \cap {"event", "dropped"} # {} <=> EventIn(logged, n, record.number)
         /\ "log" \in Kinds(record, n) <=> LogIn(logged, n, record.number)
<1>1. Kinds(record, n) \cap {"event", "dropped"} # {} <=> EventIn(logged, n, record.number)
  BY DEF Kinds, EventIn
<1>2. "log" \in Kinds(record, n) <=> LogIn(logged, n, record.number)
  BY DEF Kinds, LogIn
<1> QED
  BY <1>1, <1>2

LEMMA InvIsAsLogged ==
  ASSUME LogInv
  PROVE  AsLogged
<1>1. ASSUME NEW end \in fates
      PROVE  LET record == end.record
                 kinds == Kinds(record, end.items)
             IN /\ kinds \cap {"event", "dropped"} # {} => IsEvent(record.level)
                /\ IsEvent(record.level) => kinds \cap {"event", "dropped"} # {} \/ Cut(record, "event")
                /\ "log" \in kinds => IsLog(record.level)
                /\ IsLog(record.level) /\ record.text /\ setup.enabled => "log" \in kinds \/ Cut(record, "log")
                /\ end.fate # "none"
                     <=> /\ record.level \in Endings /\ setup.lib # "meter"
                         /\ setup.lib = "slog" => "fatal" \in setup.logs
                /\ setup.lib = "zerolog" /\ end.fate # "none" =>
                     \A i \in 1 .. end.items :
                       logged[i].number = record.number /\ logged[i].kind = "event" => i <= end.flushed
  <2> DEFINE record == end.record
             kinds == Kinds(record, end.items)
             event == EventIn(logged, end.items, record.number)
             log == LogIn(logged, end.items, record.number)
             done == AllFlushed(logged, end.items, record.number, end.flushed)
  <2>1. Concluded(record, event, log, done, end.fate)
    BY DEF LogInv, Ended
  <2>2. (kinds \cap {"event", "dropped"} # {} <=> event) /\ ("log" \in kinds <=> log)
    BY KindsLogged
  <2>3. done => \A i \in 1 .. end.items :
                  logged[i].number = record.number /\ logged[i].kind = "event" => i <= end.flushed
    BY DEF AllFlushed
  <2>4. ~event => \A i \in 1 .. end.items : ~(logged[i].number = record.number /\ logged[i].kind = "event")
    BY DEF EventIn
  <2> HIDE DEF record, kinds, event, log, done
  <2>5. /\ kinds \cap {"event", "dropped"} # {} => IsEvent(record.level)
        /\ IsEvent(record.level) => kinds \cap {"event", "dropped"} # {} \/ Cut(record, "event")
        /\ "log" \in kinds => IsLog(record.level)
        /\ IsLog(record.level) /\ record.text /\ setup.enabled => "log" \in kinds \/ Cut(record, "log")
    BY <2>1, <2>2 DEF Concluded
  <2>6. end.fate # "none" <=> /\ record.level \in Endings /\ setup.lib # "meter"
                              /\ setup.lib = "slog" => "fatal" \in setup.logs
    BY <2>1 DEF Concluded
  <2>7. setup.lib = "zerolog" /\ end.fate # "none" =>
          \A i \in 1 .. end.items :
            logged[i].number = record.number /\ logged[i].kind = "event" => i <= end.flushed
    BY <2>1, <2>3, <2>4 DEF Concluded
  <2> QED
    BY <2>5, <2>6, <2>7 DEF record, kinds
<1> QED
  BY <1>1, InvIsAttributed DEF AsLogged

\* Every record becomes what its level and the hooks before it let it become, ends the
\* goroutine or the process when it is to, and carries only attributes that were set on
\* what logged it or on what that was made from (log.go, metrics.go, logrus, slog, zap,
\* zerolog).
THEOREM RecordsAsLogged == LogSpec => []AsLogged
<1>1. LogInit => LogInv
  BY LogStart
<1>2. LogInv /\ [LogNext]_logVars => LogInv'
  BY LogStep
<1>3. LogInv => AsLogged
  BY InvIsAsLogged
<1> QED
  BY <1>1, <1>2, <1>3, PTL DEF LogSpec

(***************************************************************************)
(* Client: counts and their sums                                           *)
(***************************************************************************)

\* Arithmetic that is cited by name.
LEMMA SumOfFour ==
  ASSUME NEW a \in Nat, NEW b \in Nat, NEW c \in Nat, NEW d \in Nat
  PROVE  a + b + c + d \in Nat
OBVIOUS

LEMMA BothMore ==
  ASSUME NEW p \in Nat, NEW q \in Nat, NEW d \in Nat, NEW x \in Nat, NEW y \in Nat, p + x = q + y
  PROVE  (p + d) + x = (q + d) + y
OBVIOUS

LEMMA KindsApart == "span" \notin Kind /\ Kind \subseteq Category /\ "span" \in Category
BY DEF Kind, Batched, Category

LEMMA ZeroCounts == Zero \in Counts /\ \A c \in Category : Zero[c] = 0
BY DEF Zero, Counts

LEMMA PlusCounts ==
  ASSUME NEW a \in Counts, NEW b \in Counts
  PROVE  a ++ b \in Counts /\ \A c \in Category : (a ++ b)[c] = a[c] + b[c]
BY DEF ++, Counts

LEMMA CountNat == \A a \in Counts : \A c \in Category : a[c] \in Nat
BY DEF Counts

LEMMA SameCounts ==
  ASSUME NEW a \in Counts, NEW b \in Counts, \A c \in Category : a[c] = b[c]
  PROVE  a = b
BY DEF Counts

LEMMA OfCounts ==
  ASSUME NEW k \in Category, NEW n \in Nat
  PROVE  Of(k, n) \in Counts /\ \A c \in Category : Of(k, n)[c] = IF c = k THEN n ELSE 0
BY DEF Of, Zero, Counts

\* The sum over s of what w says of each of its elements, as a fold.
Adds(X, w) == [a \in Counts |-> [x \in X |-> a ++ w[x]]]
SumOf(X, w, s) == Folded(Counts, Zero, Adds(X, w), s)

SumLaws(X, w) ==
  /\ SumOf(X, w, <<>>) = Zero
  /\ \A s \in Seq(X) : SumOf(X, w, s) \in Counts
  /\ \A s \in Seq(X), x \in X : SumOf(X, w, Append(s, x)) = SumOf(X, w, s) ++ w[x]

LEMMA AddsType ==
  ASSUME NEW X, NEW w \in [X -> Counts]
  PROVE  /\ Adds(X, w) \in [Counts -> [X -> Counts]]
         /\ \A a \in Counts, x \in X : Adds(X, w)[a][x] = a ++ w[x]
<1>1. \A a \in Counts, x \in X : a ++ w[x] \in Counts
  BY PlusCounts
<1> QED
  BY <1>1 DEF Adds

LEMMA SumFacts ==
  ASSUME NEW X, NEW w \in [X -> Counts]
  PROVE  SumLaws(X, w)
<1> DEFINE G == Adds(X, w)
<1>1. G \in [Counts -> [X -> Counts]] /\ \A a \in Counts, x \in X : G[a][x] = a ++ w[x]
  BY AddsType
<1> HIDE DEF G
<1>2. FoldLaws(Counts, Zero, X, G)
  BY <1>1, ZeroCounts, FoldFacts
<1>3. \A s \in Seq(X), x \in X : Folded(Counts, Zero, G, Append(s, x)) = Folded(Counts, Zero, G, s) ++ w[x]
  BY <1>1, <1>2 DEF FoldLaws
<1> QED
  BY <1>2, <1>3 DEF FoldLaws, SumLaws, SumOf, G

\* Total is that sum.
LEMMA TotalIs ==
  ASSUME NEW X, NEW w \in [X -> Counts], NEW s \in Seq(X), NEW t, Len(t) = Len(s),
         \A i \in 1 .. Len(s) : t[i] = w[s[i]]
  PROVE  Total(t) = SumOf(X, w, s)
<1> DEFINE G == Adds(X, w)
           Read(f) == f = [i \in 0 .. Len(t) |-> IF i = 0 THEN Zero ELSE f[i - 1] ++ t[i]]
           upto == CHOOSE f : Read(f)
<1>0. Len(s) \in Nat /\ \A i \in 1 .. Len(s) : s[i] \in X
  OBVIOUS
<1>1. G \in [Counts -> [X -> Counts]] /\ \A a \in Counts, x \in X : G[a][x] = a ++ w[x]
  BY AddsType
<1> HIDE DEF G
<1>2. \E f : Read(f)
  <2>1. Folds(Counts, Zero, G, s) # {}
    BY <1>1, ZeroCounts, OverExists
  <2>2. PICK f \in Folds(Counts, Zero, G, s) : TRUE
    BY <2>1
  <2>3. f \in [0 .. Len(t) -> Counts] /\ f[0] = Zero
    BY <2>2 DEF Folds, Over
  <2>4. ASSUME NEW i \in 1 .. Len(s)
        PROVE  f[i] = f[i - 1] ++ t[i]
    <3>1. i - 1 \in 0 .. Len(t)
      BY <1>0
    <3>2. f[i - 1] \in Counts /\ s[i] \in X
      BY <1>0, <2>3, <3>1
    <3>3. f[i] = G[f[i - 1]][s[i]]
      BY <2>2 DEF Folds, Over
    <3>4. G[f[i - 1]][s[i]] = f[i - 1] ++ w[s[i]]
      BY <1>1, <3>2
    <3> QED
      BY <3>3, <3>4
  <2>5. \A i \in 0 .. Len(t) : f[i] = IF i = 0 THEN Zero ELSE f[i - 1] ++ t[i]
    BY <2>3, <2>4, <1>0
  <2> QED
    BY <2>3, <2>5
<1>3. Read(upto)
  BY <1>2
<1>4. Total(t) = upto[Len(t)]
  BY DEF Total
<1> HIDE DEF upto
<1>5. upto[0] = Zero /\ \A i \in 1 .. Len(s) : upto[i] = upto[i - 1] ++ t[i]
  BY <1>0, <1>3
<1>6. \A i \in 1 .. Len(s) : upto[i - 1] \in Counts => upto[i] = G[upto[i - 1]][s[i]]
  BY <1>0, <1>1, <1>5
<1>7. Over(upto, Zero, G, s)
  BY <1>1, <1>5, <1>6, ZeroCounts, OverTyped
<1>8. FoldLaws(Counts, Zero, X, G)
  BY <1>1, ZeroCounts, FoldFacts
<1> QED
  BY <1>4, <1>7, <1>8 DEF FoldLaws, SumOf, G

\* The sum over a sequence of one, and over a sequence that is cut in two.
LEMMA SumOfOne ==
  ASSUME NEW X, NEW w \in [X -> Counts], NEW x \in X
  PROVE  SumOf(X, w, <<x>>) = w[x]
<1>1. SumLaws(X, w) /\ <<>> \in Seq(X) /\ Append(<<>>, x) = <<x>>
  BY SumFacts
<1>2. SumOf(X, w, <<x>>) = Zero ++ w[x] /\ w[x] \in Counts
  BY <1>1 DEF SumLaws
<1> QED
  BY <1>2, ZeroCounts, PlusCounts, CountNat, SameCounts

LEMMA CutAppend ==
  ASSUME NEW X, NEW s \in Seq(X), NEW x \in X, NEW n \in 0 .. Len(s)
  PROVE  LET r == Append(s, x) IN
         /\ SubSeq(r, 1, n) = SubSeq(s, 1, n)
         /\ SubSeq(r, n + 1, Len(r)) = Append(SubSeq(s, n + 1, Len(s)), x)
         /\ SubSeq(r, 1, Len(r)) = r /\ SubSeq(r, Len(r) + 1, Len(r)) = <<>>
<1> DEFINE r == Append(s, x)
<1>1. r \in Seq(X) /\ Len(r) = Len(s) + 1 /\ Len(s) \in Nat /\ r[Len(r)] = x
      /\ \A i \in 1 .. Len(s) : r[i] = s[i]
  OBVIOUS
<1> HIDE DEF r
<1>2. SubSeq(r, 1, n) = SubSeq(s, 1, n)
  <2>1. \A i \in 1 .. n : r[i] = s[i]
    BY <1>1
  <2> QED
    BY <1>1, <2>1
<1>3. SubSeq(r, n + 1, Len(r)) = Append(SubSeq(s, n + 1, Len(s)), x)
  <2> DEFINE a == SubSeq(r, n + 1, Len(r))
             b == SubSeq(s, n + 1, Len(s))
             d == Append(b, x)
  <2>1. a \in Seq(X) /\ Len(a) = Len(r) - n /\ \A i \in 1 .. Len(a) : a[i] = r[n + i]
    BY <1>1
  <2>2. b \in Seq(X) /\ Len(b) = Len(s) - n /\ \A i \in 1 .. Len(b) : b[i] = s[n + i]
    OBVIOUS
  <2> HIDE DEF a, b
  <2>3. d \in Seq(X) /\ Len(d) = Len(b) + 1 /\ d[Len(b) + 1] = x /\ \A i \in 1 .. Len(b) : d[i] = b[i]
    BY <2>2
  <2> HIDE DEF d
  <2>4. ASSUME NEW i \in 1 .. Len(a)
        PROVE  a[i] = d[i]
    <3>1. CASE i = Len(a)
      BY <1>1, <2>1, <2>2, <2>3, <3>1
    <3>2. CASE i < Len(a)
      <4>1. i \in 1 .. Len(b) /\ n + i \in 1 .. Len(s)
        BY <1>1, <2>1, <2>2, <3>2
      <4> QED
        BY <1>1, <2>1, <2>2, <2>3, <4>1
    <3>3. Len(a) \in Nat
      BY <2>1
    <3> QED
      BY <3>1, <3>2, <3>3
  <2>5. a = d
    <3>1. Len(a) = Len(d) /\ a \in Seq(X) /\ d \in Seq(X)
      BY <1>1, <2>1, <2>2, <2>3
    <3> QED
      BY <2>4, <3>1
  <2> QED
    BY <2>5 DEF a, b, d
<1>4. SubSeq(r, 1, Len(r)) = r /\ SubSeq(r, Len(r) + 1, Len(r)) = <<>>
  BY <1>1
<1> QED
  BY <1>2, <1>3, <1>4 DEF r

LEMMA SumCut ==
  ASSUME NEW X, NEW w \in [X -> Counts]
  PROVE  \A s \in Seq(X) : \A n \in 0 .. Len(s), c \in Category :
           SumOf(X, w, s)[c] = SumOf(X, w, SubSeq(s, 1, n))[c] + SumOf(X, w, SubSeq(s, n + 1, Len(s)))[c]
<1> DEFINE Cuts(s, n) == \A c \in Category :
             SumOf(X, w, s)[c] = SumOf(X, w, SubSeq(s, 1, n))[c] + SumOf(X, w, SubSeq(s, n + 1, Len(s)))[c]
           S == {s \in Seq(X) : \A n \in 0 .. Len(s) : Cuts(s, n)}
<1>0. SumLaws(X, w)
  BY SumFacts
<1>1. <<>> \in S
  <2>1. SubSeq(<<>>, 1, 0) = <<>> /\ Len(<<>>) = 0 /\ <<>> \in Seq(X)
    OBVIOUS
  <2>2. Cuts(<<>>, 0)
    <3>1. SubSeq(<<>>, 0 + 1, Len(<<>>)) = <<>>
      OBVIOUS
    <3>2. SumOf(X, w, <<>>) = Zero /\ \A c \in Category : Zero[c] = 0
      BY <1>0, ZeroCounts DEF SumLaws
    <3>3. \A c \in Category : SumOf(X, w, <<>>)[c] = SumOf(X, w, <<>>)[c] + SumOf(X, w, <<>>)[c]
      BY <3>2
    <3> QED
      BY <2>1, <3>1, <3>3
  <2> HIDE DEF Cuts
  <2> QED
    BY <2>1, <2>2
<1>2. ASSUME NEW s \in Seq(X), NEW x \in X, s \in S
      PROVE  Append(s, x) \in S
  <2> DEFINE r == Append(s, x)
  <2>1. r \in Seq(X) /\ Len(r) = Len(s) + 1 /\ Len(s) \in Nat
    OBVIOUS
  <2>2. ASSUME NEW n \in 0 .. Len(s)
        PROVE  Cuts(r, n)
    <3> DEFINE a == SubSeq(s, 1, n)
               b == SubSeq(s, n + 1, Len(s))
    <3>1. a \in Seq(X) /\ b \in Seq(X)
      BY <2>1
    <3>2. SubSeq(r, 1, n) = a /\ SubSeq(r, n + 1, Len(r)) = Append(b, x)
      BY CutAppend
    <3>3. \A c \in Category : SumOf(X, w, s)[c] = SumOf(X, w, a)[c] + SumOf(X, w, b)[c]
      BY <1>2
    <3> HIDE DEF a, b, r
    <3>4. /\ SumOf(X, w, Append(b, x)) = SumOf(X, w, b) ++ w[x] /\ w[x] \in Counts
          /\ SumOf(X, w, b) \in Counts /\ SumOf(X, w, a) \in Counts /\ SumOf(X, w, s) \in Counts
      BY <1>0, <3>1 DEF SumLaws
    <3>5. SumOf(X, w, r) = SumOf(X, w, s) ++ w[x]
      BY <1>0 DEF SumLaws, r
    <3>6. ASSUME NEW c \in Category
          PROVE  SumOf(X, w, r)[c] = SumOf(X, w, a)[c] + SumOf(X, w, Append(b, x))[c]
      BY <3>3, <3>4, <3>5, PlusCounts, CountNat
    <3> QED
      BY <3>2, <3>6
  <2>3. Cuts(r, Len(r))
    <3>1. SubSeq(r, 1, Len(r)) = r /\ SubSeq(r, Len(r) + 1, Len(r)) = <<>>
      BY CutAppend, <2>1
    <3>2. SumOf(X, w, r) \in Counts /\ SumOf(X, w, <<>>) = Zero
      BY <1>0, <2>1 DEF SumLaws
    <3> HIDE DEF r
    <3>3. \A c \in Category : SumOf(X, w, r)[c] = SumOf(X, w, r)[c] + SumOf(X, w, <<>>)[c]
      BY <3>2, ZeroCounts, CountNat
    <3> QED
      BY <3>1, <3>3
  <2> HIDE DEF Cuts, r
  <2>4. \A n \in 0 .. Len(r) : n \in 0 .. Len(s) \/ n = Len(r)
    BY <2>1
  <2> QED
    BY <2>1, <2>2, <2>3, <2>4 DEF r
<1> HIDE DEF S
<1>3. Seq(X) \subseteq S
  BY <1>1, <1>2, AppendInduction
<1> QED
  BY <1>3 DEF S

\* What becomes of the sum over a sequence without repetition when w changes at x.
LEMMA SumChanged ==
  ASSUME NEW X, NEW w \in [X -> Counts], NEW v \in [X -> Counts], NEW x \in X,
         \A y \in X : y # x => w[y] = v[y]
  PROVE  \A s \in Seq(X) : (\A i, j \in 1 .. Len(s) : s[i] = s[j] => i = j) =>
           \A c \in Category :
             IF \E i \in 1 .. Len(s) : s[i] = x
             THEN SumOf(X, v, s)[c] + w[x][c] = SumOf(X, w, s)[c] + v[x][c]
             ELSE SumOf(X, v, s)[c] = SumOf(X, w, s)[c]
<1> DEFINE Once(s) == \A i, j \in 1 .. Len(s) : s[i] = s[j] => i = j
           Has(s) == \E i \in 1 .. Len(s) : s[i] = x
           More(s) == \A c \in Category : SumOf(X, v, s)[c] + w[x][c] = SumOf(X, w, s)[c] + v[x][c]
           Same(s) == \A c \in Category : SumOf(X, v, s)[c] = SumOf(X, w, s)[c]
           S == {s \in Seq(X) : Once(s) => (Has(s) => More(s)) /\ (~Has(s) => Same(s))}
<1>0. SumLaws(X, w) /\ SumLaws(X, v)
  BY SumFacts
<1>1. <<>> \in S
  <2>1. ~Has(<<>>) /\ Same(<<>>)
    BY <1>0 DEF SumLaws
  <2> HIDE DEF Has, Same
  <2> QED
    BY <2>1
<1>2. ASSUME NEW s \in Seq(X), NEW y \in X, s \in S
      PROVE  Append(s, y) \in S
  <2> DEFINE r == Append(s, y)
  <2>1. r \in Seq(X) /\ Len(r) = Len(s) + 1 /\ Len(s) \in Nat /\ r[Len(r)] = y
        /\ \A i \in 1 .. Len(s) : r[i] = s[i]
    OBVIOUS
  <2>2. /\ SumOf(X, w, r) = SumOf(X, w, s) ++ w[y] /\ SumOf(X, v, r) = SumOf(X, v, s) ++ v[y]
        /\ SumOf(X, w, s) \in Counts /\ SumOf(X, v, s) \in Counts
        /\ w[y] \in Counts /\ v[y] \in Counts /\ w[x] \in Counts /\ v[x] \in Counts
    BY <1>0 DEF SumLaws
  <2> HIDE DEF r
  <2>3. \A c \in Category :
          /\ SumOf(X, w, r)[c] = SumOf(X, w, s)[c] + w[y][c] /\ SumOf(X, v, r)[c] = SumOf(X, v, s)[c] + v[y][c]
          /\ SumOf(X, w, s)[c] \in Nat /\ SumOf(X, v, s)[c] \in Nat
          /\ w[y][c] \in Nat /\ v[y][c] \in Nat /\ w[x][c] \in Nat /\ v[x][c] \in Nat
    BY <2>2, PlusCounts, CountNat
  <2>4. ASSUME Once(r)
        PROVE  (Has(r) => More(r)) /\ (~Has(r) => Same(r))
    <3>1. Once(s)
      BY <2>1, <2>4
    <3>2. (Has(s) => More(s)) /\ (~Has(s) => Same(s))
      BY <1>2, <3>1
    <3>3. CASE y = x
      <4>1. ~Has(s) /\ Has(r)
        BY <2>1, <2>4, <3>3
      <4>2. Same(s)
        BY <3>2, <4>1
      <4>3. More(r)
        BY <2>3, <3>3, <4>2
      <4> HIDE DEF More, Has, Same
      <4> QED
        BY <4>1, <4>3
    <3>4. CASE y # x
      <4>1. Has(r) <=> Has(s)
        BY <2>1, <3>4
      <4>2. w[y] = v[y]
        BY <3>4
      <4>3. ASSUME More(s), NEW c \in Category
            PROVE  SumOf(X, v, r)[c] + w[x][c] = SumOf(X, w, r)[c] + v[x][c]
        <5> DEFINE p == SumOf(X, v, s)[c]
                   q == SumOf(X, w, s)[c]
                   d == w[y][c]
                   a == w[x][c]
                   b == v[x][c]
        <5>1. SumOf(X, w, r)[c] = q + d /\ SumOf(X, v, r)[c] = p + d
          BY <2>3, <4>2
        <5>2. p + a = q + b /\ p \in Nat /\ q \in Nat /\ d \in Nat /\ a \in Nat /\ b \in Nat
          BY <2>3, <4>3
        <5> HIDE DEF p, q, d, a, b
        <5>3. (p + d) + a = (q + d) + b
          BY <5>2, BothMore
        <5> QED
          BY <5>1, <5>3 DEF a, b
      <4>4. Same(s) => Same(r)
        BY <2>3, <4>2
      <4>5. More(s) => More(r)
        BY <4>3
      <4> HIDE DEF More, Has, Same
      <4> QED
        BY <3>2, <4>1, <4>4, <4>5
    <3> QED
      BY <3>3, <3>4
  <2> HIDE DEF More, Has, Same, Once
  <2> QED
    BY <2>1, <2>4 DEF r
<1>3. Seq(X) \subseteq S
  <2> HIDE DEF S
  <2> QED
    BY <1>1, <1>2, AppendInduction
<1> TAKE s \in Seq(X)
<1>4. Once(s) => (Has(s) => More(s)) /\ (~Has(s) => Same(s))
  BY <1>3
<1> QED
  BY <1>4

\* The sum is zero when all of it is.
LEMMA SumOfZero ==
  ASSUME NEW X, NEW w \in [X -> Counts], \A x \in X : w[x] = Zero
  PROVE  \A s \in Seq(X) : SumOf(X, w, s) = Zero
<1> DEFINE S == {s \in Seq(X) : SumOf(X, w, s) = Zero}
<1>0. SumLaws(X, w)
  BY SumFacts
<1>1. <<>> \in S
  BY <1>0 DEF SumLaws
<1>2. ASSUME NEW s \in Seq(X), NEW x \in X, s \in S
      PROVE  Append(s, x) \in S
  <2>1. SumOf(X, w, Append(s, x)) = Zero ++ Zero
    BY <1>0, <1>2 DEF SumLaws
  <2>2. Zero ++ Zero = Zero
    BY ZeroCounts, PlusCounts, SameCounts
  <2>3. Append(s, x) \in Seq(X)
    OBVIOUS
  <2> QED
    BY <2>1, <2>2, <2>3
<1>3. Seq(X) \subseteq S
  <2> HIDE DEF S
  <2> QED
    BY <1>1, <1>2, AppendInduction
<1> QED
  BY <1>3

\* The head of a sequence, cut off.
LEMMA HeadCut ==
  ASSUME NEW X, NEW s \in Seq(X), Len(s) > 0
  PROVE  /\ Head(s) \in X /\ Tail(s) \in Seq(X) /\ Len(Tail(s)) = Len(s) - 1
         /\ SubSeq(s, 1, 1) = <<Head(s)>> /\ SubSeq(s, 1 + 1, Len(s)) = Tail(s) /\ 1 \in 0 .. Len(s)
<1>1. Len(s) \in Nat /\ Len(s) >= 1 /\ Head(s) = s[1] /\ s[1] \in X
  OBVIOUS
<1>2. Tail(s) \in Seq(X) /\ Len(Tail(s)) = Len(s) - 1 /\ \A i \in 1 .. Len(s) - 1 : Tail(s)[i] = s[i + 1]
  BY <1>1
<1> DEFINE r == SubSeq(s, 2, Len(s))
           h == SubSeq(s, 1, 1)
<1>3. r \in Seq(X) /\ Len(r) = Len(s) - 1 /\ \A i \in 1 .. Len(s) - 1 : r[i] = s[i + 1]
  <2>1. r \in Seq(X) /\ Len(r) = Len(s) - 1
    <3>1. 2 \in 1 .. Len(s) + 1
      BY <1>1
    <3>2. \A i \in 2 .. Len(s) : s[i] \in X
      BY <1>1
    <3>3. Len(r) = IF 2 <= Len(s) THEN Len(s) - 2 + 1 ELSE 0
      BY <1>1
    <3> QED
      BY <1>1, <3>1, <3>2, <3>3
  <2>2. \A i \in 1 .. Len(s) - 1 : r[i] = s[2 + i - 1] /\ 2 + i - 1 = i + 1
    BY <1>1
  <2> QED
    BY <2>1, <2>2
<1>4. h \in Seq(X) /\ Len(h) = 1 /\ h[1] = s[1]
  BY <1>1
<1> HIDE DEF r, h
<1>5. r = Tail(s)
  BY <1>1, <1>2, <1>3
<1>6. h = <<Head(s)>>
  BY <1>1, <1>4
<1> QED
  BY <1>1, <1>2, <1>5, <1>6 DEF r, h

(***************************************************************************)
(* Client: items, envelopes and calls                                      *)
(***************************************************************************)

WItem == {x \in [id : Nat, kind : Kind, spans : Nat, match : STRING] : x.kind = "transaction" \/ x.spans = 0}

\* Items of one kind; more than one only of logs and metrics.
Parcel == {e \in Seq(WItem) : /\ Len(e) > 0
                              /\ \A i \in 1 .. Len(e) : e[i].kind = e[1].kind
                              /\ e[1].kind \in Batched \/ Len(e) = 1}

CallStage == {"sample", "chain", "hook", "add", "return"}
Call == {r \in [item : WItem, way : STRING, next : Nat, at : CallStage] :
           KeepsEventID(r.way) => r.item.kind \in {"error", "transaction"}}

ItemWeight == [x \in WItem |-> RecordItem(x)]
ParcelWeight == [e \in Parcel |-> Weight(e)]

ItemCounts(x) ==
  /\ RecordItem(x) \in Counts
  /\ \A c \in Category : RecordItem(x)[c] = IF c = x.kind THEN 1 ELSE IF c = "span" THEN GetSpanCount(x) ELSE 0

LEMMA RecordItemCounts == \A x \in WItem : ItemCounts(x)
<1> TAKE x \in WItem
<1> DEFINE a == Of(x.kind, 1)
           b == Of("span", GetSpanCount(x))
<1>1. x.kind \in Category /\ x.kind # "span" /\ "span" \in Category /\ GetSpanCount(x) \in Nat
  BY KindsApart DEF WItem, GetSpanCount
<1>2. a \in Counts /\ \A c \in Category : a[c] = IF c = x.kind THEN 1 ELSE 0
  BY <1>1, OfCounts
<1>3. b \in Counts /\ \A c \in Category : b[c] = IF c = "span" THEN GetSpanCount(x) ELSE 0
  BY <1>1, OfCounts
<1> HIDE DEF a, b
<1>4. a ++ b \in Counts /\ \A c \in Category : (a ++ b)[c] = a[c] + b[c]
  BY <1>2, <1>3, PlusCounts
<1> QED
  BY <1>1, <1>2, <1>3, <1>4 DEF ItemCounts, RecordItem, a, b

LEMMA ItemWeightType == ItemWeight \in [WItem -> Counts]
BY RecordItemCounts DEF ItemWeight, ItemCounts

LEMMA WeightIs == \A s \in Seq(WItem) : Weight(s) = SumOf(WItem, ItemWeight, s)
<1> TAKE s \in Seq(WItem)
<1> DEFINE t == [i \in DOMAIN s |-> Of(s[i].kind, 1) ++ Of("span", GetSpanCount(s[i]))]
<1>1. Len(s) \in Nat /\ DOMAIN s = 1 .. Len(s) /\ \A i \in 1 .. Len(s) : s[i] \in WItem
  OBVIOUS
<1>2. Len(t) = Len(s)
  BY <1>1
<1>3. \A i \in 1 .. Len(s) : t[i] = ItemWeight[s[i]]
  BY <1>1 DEF ItemWeight, RecordItem
<1>4. Weight(s) = Total(t)
  BY DEF Weight
<1> HIDE DEF t
<1> QED
  BY <1>2, <1>3, <1>4, ItemWeightType, TotalIs

\* What the scheduler records item by item is the weight too.
LEMMA RecordedOneByOne ==
  \A s \in Seq(WItem) : Total([i \in DOMAIN s |-> RecordItem(s[i])]) = Weight(s)
BY DEF Weight, RecordItem

WeightLaws ==
  /\ Weight(<<>>) = Zero
  /\ \A s \in Seq(WItem) : Weight(s) \in Counts
  /\ \A x \in WItem : Weight(<<x>>) = RecordItem(x)
  /\ \A s \in Seq(WItem), x \in WItem : Weight(Append(s, x)) = Weight(s) ++ RecordItem(x)

LEMMA WeightFacts == WeightLaws
<1>1. SumLaws(WItem, ItemWeight)
  BY ItemWeightType, SumFacts
<1>2. \A x \in WItem : ItemWeight[x] = RecordItem(x)
  BY DEF ItemWeight
<1>3. <<>> \in Seq(WItem)
  OBVIOUS
<1>4. ASSUME NEW x \in WItem
      PROVE  Weight(<<x>>) = RecordItem(x)
  <2>1. <<x>> \in Seq(WItem) /\ SumOf(WItem, ItemWeight, <<x>>) = ItemWeight[x]
    BY ItemWeightType, SumOfOne
  <2> QED
    BY <1>2, <2>1, WeightIs
<1>5. ASSUME NEW s \in Seq(WItem), NEW x \in WItem
      PROVE  Weight(Append(s, x)) = Weight(s) ++ RecordItem(x)
  <2>1. Append(s, x) \in Seq(WItem)
    OBVIOUS
  <2> QED
    BY <1>1, <1>2, <2>1, WeightIs DEF SumLaws
<1> QED
  BY <1>1, <1>3, <1>4, <1>5, WeightIs DEF WeightLaws, SumLaws

\* Cut in two, a sequence weighs what its parts do.
WeightOfParts(s, n) ==
  \A c \in Category : Weight(s)[c] = Weight(SubSeq(s, 1, n))[c] + Weight(SubSeq(s, n + 1, Len(s)))[c]

LEMMA WeightCut == \A s \in Seq(WItem) : \A n \in 0 .. Len(s) : WeightOfParts(s, n)
<1> TAKE s \in Seq(WItem)
<1> TAKE n \in 0 .. Len(s)
<1>1. SubSeq(s, 1, n) \in Seq(WItem) /\ SubSeq(s, n + 1, Len(s)) \in Seq(WItem)
  OBVIOUS
<1>2. ASSUME NEW c \in Category
      PROVE  SumOf(WItem, ItemWeight, s)[c] = SumOf(WItem, ItemWeight, SubSeq(s, 1, n))[c]
                                                + SumOf(WItem, ItemWeight, SubSeq(s, n + 1, Len(s)))[c]
  BY ItemWeightType, SumCut
<1>3. /\ Weight(s) = SumOf(WItem, ItemWeight, s)
      /\ Weight(SubSeq(s, 1, n)) = SumOf(WItem, ItemWeight, SubSeq(s, 1, n))
      /\ Weight(SubSeq(s, n + 1, Len(s))) = SumOf(WItem, ItemWeight, SubSeq(s, n + 1, Len(s)))
  BY <1>1, WeightIs
<1> QED
  BY <1>2, <1>3 DEF WeightOfParts

LEMMA WeightHead ==
  ASSUME NEW s \in Seq(WItem), Len(s) > 0
  PROVE  /\ Head(s) \in WItem /\ Tail(s) \in Seq(WItem) /\ Len(Tail(s)) = Len(s) - 1
         /\ \A c \in Category : Weight(s)[c] = RecordItem(Head(s))[c] + Weight(Tail(s))[c]
<1>1. /\ Head(s) \in WItem /\ Tail(s) \in Seq(WItem) /\ Len(Tail(s)) = Len(s) - 1
      /\ SubSeq(s, 1, 1) = <<Head(s)>> /\ SubSeq(s, 1 + 1, Len(s)) = Tail(s) /\ 1 \in 0 .. Len(s)
  BY HeadCut
<1>2. WeightOfParts(s, 1)
  BY <1>1, WeightCut
<1>3. Weight(<<Head(s)>>) = RecordItem(Head(s))
  BY <1>1, WeightFacts DEF WeightLaws
<1> QED
  BY <1>1, <1>2, <1>3 DEF WeightOfParts

\* Logs or metrics together weigh what there are of them.
LEMMA WeightOfBatch ==
  ASSUME NEW k \in Batched
  PROVE  \A s \in Seq(WItem) : (\A i \in 1 .. Len(s) : s[i].kind = k) =>
           \A c \in Category : Weight(s)[c] = IF c = k THEN Len(s) ELSE 0
<1> DEFINE Of1(s) == \A i \in 1 .. Len(s) : s[i].kind = k
           Right(s) == \A c \in Category : Weight(s)[c] = IF c = k THEN Len(s) ELSE 0
           S == {s \in Seq(WItem) : Of1(s) => Right(s)}
<1>0. WeightLaws
  BY WeightFacts
<1>1. <<>> \in S
  BY <1>0, ZeroCounts DEF WeightLaws
<1>2. ASSUME NEW s \in Seq(WItem), NEW x \in WItem, s \in S
      PROVE  Append(s, x) \in S
  <2> DEFINE r == Append(s, x)
  <2>1. r \in Seq(WItem) /\ Len(r) = Len(s) + 1 /\ Len(s) \in Nat /\ r[Len(r)] = x
        /\ \A i \in 1 .. Len(s) : r[i] = s[i]
    OBVIOUS
  <2>2. Weight(r) = Weight(s) ++ RecordItem(x) /\ Weight(s) \in Counts /\ ItemCounts(x)
    BY <1>0, RecordItemCounts DEF WeightLaws
  <2> HIDE DEF r
  <2>3. ASSUME Of1(r)
        PROVE  Right(r)
    <3>1. Of1(s) /\ x.kind = k
      BY <2>1, <2>3
    <3>2. Right(s)
      BY <1>2, <3>1
    <3>3. GetSpanCount(x) = 0
      BY <3>1 DEF GetSpanCount, Batched
    <3>4. \A c \in Category : RecordItem(x)[c] = IF c = k THEN 1 ELSE 0
      BY <2>2, <3>1, <3>3 DEF ItemCounts
    <3>5. \A c \in Category : Weight(r)[c] = Weight(s)[c] + RecordItem(x)[c]
      BY <2>2, PlusCounts DEF ItemCounts
    <3> QED
      BY <2>1, <3>2, <3>4, <3>5
  <2> HIDE DEF Of1, Right
  <2> QED
    BY <2>1, <2>3 DEF r
<1>3. Seq(WItem) \subseteq S
  <2> HIDE DEF S
  <2> QED
    BY <1>1, <1>2, AppendInduction
<1> QED
  BY <1>3

-----------------------------------------------------------------------------
\* counts tells of what weighs w: all of it, but for metrics less may do.
Tells(counts, w) ==
  /\ counts \in Counts /\ w \in Counts
  /\ \A c \in Category : counts[c] <= w[c] /\ (c # "trace_metric" => counts[c] = w[c])

LEMMA TellsItself == \A w \in Counts : Tells(w, w)
BY CountNat DEF Tells

LEMMA ParcelType ==
  ASSUME NEW e \in Parcel
  PROVE  /\ e \in Seq(WItem) /\ Len(e) \in Nat \ {0} /\ Head(e) \in WItem /\ Head(e) = e[1]
         /\ Head(e).kind \in Kind /\ GetSpanCount(Head(e)) \in Nat /\ Weight(e) \in Counts
         /\ Head(e).kind \in Batched => GetSpanCount(Head(e)) = 0
         /\ Head(e).kind \notin Batched => e = <<Head(e)>>
<1>1. e \in Seq(WItem) /\ Len(e) \in Nat \ {0}
  BY DEF Parcel
<1>2. e \in Seq(WItem) /\ Len(e) > 0 /\ Len(e) \in Nat
  BY DEF Parcel
<1>3. Head(e) \in WItem /\ Head(e) = e[1]
  BY <1>2
<1>4. Head(e).kind \notin Batched => Len(e) = 1
  BY <1>3 DEF Parcel
<1>5. Len(e) = 1 => e = <<Head(e)>>
  BY <1>2
<1> QED
  BY <1>2, <1>3, <1>4, <1>5, WeightFacts DEF WItem, GetSpanCount, Batched, WeightLaws

LEMMA WeightOfParcel ==
  ASSUME NEW e \in Parcel
  PROVE  IF Head(e).kind \in Batched
         THEN \A c \in Category : Weight(e)[c] = IF c = Head(e).kind THEN Len(e) ELSE 0
         ELSE Weight(e) = RecordItem(Head(e))
<1>1. CASE Head(e).kind \in Batched
  <2>1. e \in Seq(WItem) /\ \A i \in 1 .. Len(e) : e[i].kind = Head(e).kind
    BY ParcelType DEF Parcel
  <2> QED
    BY <1>1, <2>1, WeightOfBatch
<1>2. CASE Head(e).kind \notin Batched
  <2>1. Head(e) \in WItem /\ e = <<Head(e)>>
    BY <1>2, ParcelType
  <2>2. Weight(<<Head(e)>>) = RecordItem(Head(e))
    BY <2>1, WeightFacts DEF WeightLaws
  <2> QED
    BY <1>2, <2>1, <2>2
<1> QED
  BY <1>1, <1>2

\* One of a kind that is not of the batches, of a batch of logs, of a batch of metrics.
LEMMA TellsOfOne ==
  ASSUME NEW e \in Parcel, Head(e).kind \notin Batched
  PROVE  Tells(Of(Head(e).kind, 1) ++ Of("span", SpansOf(e)), Weight(e))
<1>1. Of(Head(e).kind, 1) ++ Of("span", SpansOf(e)) = Weight(e)
  BY WeightOfParcel DEF RecordItem, SpansOf
<1> QED
  BY <1>1, ParcelType, TellsItself

LEMMA TellsOfLogs ==
  ASSUME NEW e \in Parcel, Head(e).kind = "log"
  PROVE  Tells(Of("log", Len(e)), Weight(e))
<1>1. \A c \in Category : Weight(e)[c] = IF c = "log" THEN Len(e) ELSE 0
  BY WeightOfParcel DEF Batched
<1>2. "log" \in Category /\ Len(e) \in Nat /\ Weight(e) \in Counts
  BY ParcelType DEF Category, Kind, Batched
<1>3. Of("log", Len(e)) \in Counts /\ \A c \in Category : Of("log", Len(e))[c] = IF c = "log" THEN Len(e) ELSE 0
  BY <1>2, OfCounts
<1> QED
  BY <1>1, <1>2, <1>3 DEF Tells

LEMMA TellsOfMetrics ==
  ASSUME NEW e \in Parcel, Head(e).kind = "trace_metric"
  PROVE  Tells(Of("trace_metric", 1), Weight(e))
<1>1. \A c \in Category : Weight(e)[c] = IF c = "trace_metric" THEN Len(e) ELSE 0
  BY WeightOfParcel DEF Batched
<1>2. "trace_metric" \in Category /\ Len(e) \in Nat \ {0} /\ Weight(e) \in Counts
  BY ParcelType DEF Category, Kind, Batched
<1>3. /\ Of("trace_metric", 1) \in Counts
      /\ \A c \in Category : Of("trace_metric", 1)[c] = IF c = "trace_metric" THEN 1 ELSE 0
  BY <1>2, OfCounts
<1> QED
  BY <1>1, <1>2, <1>3 DEF Tells

\* Nothing added to a count is that count.
LEMMA AndNoSpans ==
  ASSUME NEW k \in Kind
  PROVE  Of(k, 1) ++ Of("span", 0) = Of(k, 1)
<1>1. k \in Category /\ "span" \in Category
  BY KindsApart
<1>2. /\ Of(k, 1) \in Counts /\ Of("span", 0) \in Counts
      /\ \A c \in Category : Of("span", 0)[c] = 0
  BY <1>1, OfCounts
<1>3. /\ Of(k, 1) ++ Of("span", 0) \in Counts
      /\ \A c \in Category : (Of(k, 1) ++ Of("span", 0))[c] = Of(k, 1)[c] + Of("span", 0)[c]
  BY <1>2, PlusCounts
<1>4. \A c \in Category : (Of(k, 1) ++ Of("span", 0))[c] = Of(k, 1)[c]
  BY <1>2, <1>3, CountNat
<1> QED
  BY <1>2, <1>3, <1>4, SameCounts

\* All the ways to derive the counts of an envelope tell of it.
LEMMA ParcelsTold ==
  ASSUME NEW e \in Parcel
  PROVE  /\ Tells(RecordForEvent(e), Weight(e))
         /\ Tells(RecordForBatchItem(e), Weight(e))
         /\ Tells(RecordForEnvelope(e), Weight(e))
<1>0. Head(e).kind \in Kind /\ Len(e) \in Nat \ {0}
  BY ParcelType
<1>1. CASE Head(e).kind = "log"
  <2>1. Tells(Of("log", Len(e)), Weight(e))
    BY <1>1, TellsOfLogs
  <2>2. RecordForEvent(e) = Of("log", Len(e))
    BY <1>1 DEF RecordForEvent
  <2>3. RecordForBatchItem(e) = Of("log", Len(e))
    BY <1>0, <1>1 DEF RecordForBatchItem
  <2>4. RecordForEnvelope(e) = Of("log", Len(e))
    BY <1>1 DEF RecordForEnvelope
  <2> QED
    BY <2>1, <2>2, <2>3, <2>4
<1>2. CASE Head(e).kind = "trace_metric"
  <2>1. Tells(Of("trace_metric", 1), Weight(e))
    BY <1>2, TellsOfMetrics
  <2>2. SpansOf(e) = 0
    BY <1>2, ParcelType DEF SpansOf, Batched
  <2>3. Of("trace_metric", 1) ++ Of("span", SpansOf(e)) = Of("trace_metric", 1)
    BY <1>0, <1>2, <2>2, AndNoSpans
  <2>4. RecordForEvent(e) = Of("trace_metric", 1)
    BY <1>2, <2>3 DEF RecordForEvent
  <2>5. RecordForBatchItem(e) = Of("trace_metric", 1)
    BY <1>2, <2>3 DEF RecordForBatchItem
  <2>6. RecordForEnvelope(e) = Of("trace_metric", 1)
    BY <1>2 DEF RecordForEnvelope
  <2> QED
    BY <2>1, <2>4, <2>5, <2>6
<1>3. CASE Head(e).kind \notin Batched
  <2>1. Tells(Of(Head(e).kind, 1) ++ Of("span", SpansOf(e)), Weight(e))
    BY <1>3, TellsOfOne
  <2>2. RecordForEvent(e) = Of(Head(e).kind, 1) ++ Of("span", SpansOf(e))
    BY <1>3 DEF RecordForEvent, Batched
  <2>3. RecordForBatchItem(e) = Of(Head(e).kind, 1) ++ Of("span", SpansOf(e))
    BY <1>3 DEF RecordForBatchItem, Batched
  <2>4. RecordForEnvelope(e) = Of(Head(e).kind, 1) ++ Of("span", SpansOf(e))
    <3>1. CASE Head(e).kind = "transaction"
      BY <3>1 DEF RecordForEnvelope
    <3>2. CASE Head(e).kind # "transaction"
      <4>1. SpansOf(e) = 0
        BY <3>2 DEF SpansOf, GetSpanCount
      <4>2. RecordForEnvelope(e) = Of(Head(e).kind, 1)
        BY <1>3, <3>2 DEF RecordForEnvelope, Batched
      <4> QED
        BY <1>0, <4>1, <4>2, AndNoSpans
    <3> QED
      BY <3>1, <3>2
  <2> QED
    BY <2>1, <2>2, <2>3, <2>4
<1> QED
  BY <1>1, <1>2, <1>3 DEF Batched

-----------------------------------------------------------------------------
(* Client: what a step adds to what has been told, sent or queued.          *)

Waiting(q) == SumOf(Parcel, ParcelWeight, q)

WaitingLaws ==
  /\ Waiting(<<>>) = Zero
  /\ \A q \in Seq(Parcel) : Waiting(q) \in Counts
  /\ \A q \in Seq(Parcel), e \in Parcel, c \in Category :
       Waiting(Append(q, e))[c] = Waiting(q)[c] + Weight(e)[c]
  /\ \A q \in Seq(Parcel), c \in Category :
       q # <<>> => Waiting(q)[c] = Weight(Head(q))[c] + Waiting(Tail(q))[c]

LEMMA ParcelWeightType ==
  ParcelWeight \in [Parcel -> Counts] /\ \A e \in Parcel : ParcelWeight[e] = Weight(e)
BY ParcelType DEF ParcelWeight

LEMMA WaitingFacts == WaitingLaws
<1>1. SumLaws(Parcel, ParcelWeight)
  BY ParcelWeightType, SumFacts
<1>2. Waiting(<<>>) = Zero /\ \A q \in Seq(Parcel) : Waiting(q) \in Counts
  BY <1>1 DEF SumLaws, Waiting
<1>3. ASSUME NEW q \in Seq(Parcel), NEW e \in Parcel, NEW c \in Category
      PROVE  Waiting(Append(q, e))[c] = Waiting(q)[c] + Weight(e)[c]
  <2>1. Waiting(Append(q, e)) = Waiting(q) ++ Weight(e)
    BY <1>1, ParcelWeightType DEF SumLaws, Waiting
  <2>2. Weight(e) \in Counts
    BY ParcelType
  <2> QED
    BY <1>2, <2>1, <2>2, PlusCounts
<1>4. ASSUME NEW q \in Seq(Parcel), NEW c \in Category, q # <<>>
      PROVE  Waiting(q)[c] = Weight(Head(q))[c] + Waiting(Tail(q))[c]
  <2>1. /\ Head(q) \in Parcel /\ SubSeq(q, 1, 1) = <<Head(q)>> /\ SubSeq(q, 1 + 1, Len(q)) = Tail(q)
        /\ 1 \in 0 .. Len(q)
    <3>1. Len(q) > 0
      BY <1>4
    <3> QED
      BY <3>1, HeadCut
  <2>2. Waiting(q)[c] = SumOf(Parcel, ParcelWeight, SubSeq(q, 1, 1))[c]
                          + SumOf(Parcel, ParcelWeight, SubSeq(q, 1 + 1, Len(q)))[c]
    BY <2>1, ParcelWeightType, SumCut DEF Waiting
  <2>3. SumOf(Parcel, ParcelWeight, <<Head(q)>>) = Weight(Head(q))
    BY <2>1, ParcelWeightType, SumOfOne
  <2> QED
    BY <2>1, <2>2, <2>3 DEF Waiting
<1> QED
  BY <1>2, <1>3, <1>4 DEF WaitingLaws

TypedPast ==
  /\ queue \in Seq(Parcel)
  /\ left \in Counts /\ outcomes \in Counts /\ reported \in Counts

\* To the counters and the reports w is added, but for what metrics lack.
Noted(w) ==
  /\ outcomes' \in Counts /\ reported' \in Counts
  /\ \A c \in Category :
       /\ outcomes'[c] + reported'[c] <= outcomes[c] + reported[c] + w[c]
       /\ client.reports /\ c # "trace_metric" =>
            outcomes'[c] + reported'[c] = outcomes[c] + reported[c] + w[c]

\* What is in the queue, has left, is counted or reported.
Past(q, l, o, r, c) == Waiting(q)[c] + l[c] + o[c] + r[c]

Took(w) ==
  /\ TypedPast'
  /\ \A c \in Category :
       /\ Past(queue', left', outcomes', reported', c) <= Past(queue, left, outcomes, reported, c) + w[c]
       /\ client.reports /\ c # "trace_metric" =>
            Past(queue', left', outcomes', reported', c) = Past(queue, left, outcomes, reported, c) + w[c]

LEMMA NothingNoted ==
  ASSUME TypedPast, UNCHANGED <<outcomes, reported>>
  PROVE  Noted(Zero)
BY ZeroCounts, CountNat DEF Noted, TypedPast

LEMMA CountedIs ==
  ASSUME TypedPast, NEW counts \in Counts
  PROVE  /\ Counted(counts) \in Counts
         /\ \A c \in Category : Counted(counts)[c] = outcomes[c] + counts[c] \/ Counted(counts)[c] = outcomes[c]
         /\ client.reports => \A c \in Category : Counted(counts)[c] = outcomes[c] + counts[c]
<1>1. outcomes ++ counts \in Counts /\ \A c \in Category : (outcomes ++ counts)[c] = outcomes[c] + counts[c]
  BY PlusCounts DEF TypedPast
<1>2. CASE client.reports
  BY <1>1, <1>2 DEF Counted
<1>3. CASE ~client.reports
  BY <1>3 DEF Counted, TypedPast
<1> QED
  BY <1>2, <1>3

LEMMA RecordNotes ==
  ASSUME TypedPast, NEW counts, NEW w, Tells(counts, w), Record(counts)
  PROVE  Noted(w)
<1>1. counts \in Counts /\ w \in Counts /\ outcomes \in Counts /\ reported \in Counts
  BY DEF Tells, TypedPast
<1>2. outcomes' = Counted(counts) /\ reported' = reported
  BY DEF Record
<1>3. outcomes' \in Counts
  BY <1>1, <1>2, CountedIs
<1>4. ASSUME NEW c \in Category
      PROVE  /\ outcomes'[c] + reported'[c] <= outcomes[c] + reported[c] + w[c]
             /\ client.reports /\ c # "trace_metric" =>
                  outcomes'[c] + reported'[c] = outcomes[c] + reported[c] + w[c]
  <2>1. /\ counts[c] \in Nat /\ w[c] \in Nat /\ outcomes[c] \in Nat /\ reported[c] \in Nat
        /\ counts[c] <= w[c] /\ (c # "trace_metric" => counts[c] = w[c])
    BY <1>1, CountNat DEF Tells
  <2>2. outcomes'[c] = outcomes[c] + counts[c] \/ outcomes'[c] = outcomes[c]
    BY <1>1, <1>2, CountedIs
  <2>3. client.reports => outcomes'[c] = outcomes[c] + counts[c]
    BY <1>1, <1>2, CountedIs
  <2> QED
    BY <1>2, <2>1, <2>2, <2>3
<1> QED
  BY <1>1, <1>2, <1>3, <1>4 DEF Noted

LEMMA TakeReportNotes ==
  ASSUME TypedPast, TakeReport
  PROVE  Noted(Zero)
<1>1. /\ outcomes' = Zero /\ Zero \in Counts /\ reported' \in Counts
      /\ \A c \in Category : Zero[c] = 0 /\ reported'[c] = reported[c] + outcomes[c]
  BY ZeroCounts, PlusCounts DEF TypedPast, TakeReport
<1>2. \A c \in Category : outcomes[c] \in Nat /\ reported[c] \in Nat
  BY CountNat DEF TypedPast
<1> QED
  BY <1>1, <1>2 DEF Noted

LEMMA ReportThenRecordNotes ==
  ASSUME TypedPast, NEW counts, NEW w, Tells(counts, w), TakeReportThenRecord(counts)
  PROVE  Noted(w)
<1>1. counts \in Counts /\ w \in Counts /\ outcomes \in Counts /\ reported \in Counts
  BY DEF Tells, TypedPast
<1>2. reported' \in Counts /\ \A c \in Category : reported'[c] = reported[c] + outcomes[c]
  BY <1>1, PlusCounts DEF TakeReportThenRecord
<1>3. /\ outcomes' \in Counts /\ (client.reports => outcomes' = counts)
      /\ \A c \in Category : outcomes'[c] = counts[c] \/ outcomes'[c] = 0
  <2>1. CASE client.reports
    BY <1>1, <2>1 DEF TakeReportThenRecord
  <2>2. CASE ~client.reports
    BY <2>2, ZeroCounts DEF TakeReportThenRecord
  <2> QED
    BY <2>1, <2>2
<1>4. ASSUME NEW c \in Category
      PROVE  /\ outcomes'[c] + reported'[c] <= outcomes[c] + reported[c] + w[c]
             /\ client.reports /\ c # "trace_metric" =>
                  outcomes'[c] + reported'[c] = outcomes[c] + reported[c] + w[c]
  <2>1. /\ counts[c] \in Nat /\ w[c] \in Nat /\ outcomes[c] \in Nat /\ reported[c] \in Nat
        /\ counts[c] <= w[c] /\ (c # "trace_metric" => counts[c] = w[c])
    BY <1>1, CountNat DEF Tells
  <2> QED
    BY <1>2, <1>3, <2>1
<1> QED
  BY <1>2, <1>3, <1>4 DEF Noted

\* Noted, with the queue and what has left as they were; sent, or queued.
LEMMA NotedIsTaken ==
  ASSUME TypedPast, NEW w \in Counts, Noted(w), UNCHANGED <<queue, left>>
  PROVE  Took(w)
<1>1. \A c \in Category : /\ Waiting(queue)[c] \in Nat /\ left[c] \in Nat /\ outcomes[c] \in Nat /\ reported[c] \in Nat
                          /\ outcomes'[c] \in Nat /\ reported'[c] \in Nat /\ w[c] \in Nat
  BY WaitingFacts, CountNat DEF TypedPast, Noted, WaitingLaws
<1>2. TypedPast'
  BY DEF TypedPast, Noted
<1>3. ASSUME NEW c \in Category
      PROVE  /\ Past(queue', left', outcomes', reported', c) <= Past(queue, left, outcomes, reported, c) + w[c]
             /\ client.reports /\ c # "trace_metric" =>
                  Past(queue', left', outcomes', reported', c) = Past(queue, left, outcomes, reported, c) + w[c]
  BY <1>1 DEF Noted, Past
<1> QED
  BY <1>2, <1>3 DEF Took

LEMMA LeftIsTaken ==
  ASSUME TypedPast, NEW w \in Counts, Noted(Zero), left' = left ++ w, UNCHANGED queue
  PROVE  Took(w)
<1>1. \A c \in Category : /\ Waiting(queue)[c] \in Nat /\ left[c] \in Nat /\ outcomes[c] \in Nat /\ reported[c] \in Nat
                          /\ outcomes'[c] \in Nat /\ reported'[c] \in Nat /\ w[c] \in Nat
  BY WaitingFacts, CountNat DEF TypedPast, Noted, WaitingLaws
<1>2. left' \in Counts /\ \A c \in Category : left'[c] = left[c] + w[c]
  BY PlusCounts DEF TypedPast
<1>3. \A c \in Category : Zero[c] = 0
  BY ZeroCounts
<1>4. TypedPast'
  BY <1>2 DEF TypedPast, Noted
<1>5. ASSUME NEW c \in Category
      PROVE  /\ Past(queue', left', outcomes', reported', c) <= Past(queue, left, outcomes, reported, c) + w[c]
             /\ client.reports /\ c # "trace_metric" =>
                  Past(queue', left', outcomes', reported', c) = Past(queue, left, outcomes, reported, c) + w[c]
  BY <1>1, <1>2, <1>3 DEF Noted, Past
<1> QED
  BY <1>4, <1>5 DEF Took

LEMMA QueuedIsTaken ==
  ASSUME TypedPast, NEW e \in Parcel, queue' = Append(queue, e), UNCHANGED <<left, outcomes, reported>>
  PROVE  Took(Weight(e))
<1>1. \A c \in Category : /\ Waiting(queue)[c] \in Nat /\ left[c] \in Nat /\ outcomes[c] \in Nat /\ reported[c] \in Nat
                          /\ Weight(e)[c] \in Nat
  BY WaitingFacts, CountNat, ParcelType DEF TypedPast, WaitingLaws
<1>2. queue' \in Seq(Parcel) /\ \A c \in Category : Waiting(queue')[c] = Waiting(queue)[c] + Weight(e)[c]
  BY WaitingFacts DEF TypedPast, WaitingLaws
<1> QED
  BY <1>1, <1>2 DEF Took, Past, TypedPast

\* What weighed W leaves the queue, and is told of or has left.
MovesOut(W, q, l, o, r, p, s) ==
  /\ p + s <= o + r + W => q + l + p + s <= W + q + l + o + r
  /\ p + s = o + r + W => q + l + p + s = W + q + l + o + r
  /\ p + s <= o + r + 0 => q + (l + W) + p + s <= W + q + l + o + r
  /\ p + s = o + r + 0 => q + (l + W) + p + s = W + q + l + o + r

LEMMA MovingOut ==
  ASSUME NEW W \in Nat, NEW q \in Nat, NEW l \in Nat, NEW o \in Nat, NEW r \in Nat, NEW p \in Nat, NEW s \in Nat
  PROVE  MovesOut(W, q, l, o, r, p, s)
BY DEF MovesOut

\* The head of the queue is sent.
LEMMA DeliveredIsTaken ==
  ASSUME TypedPast, queue # <<>>, NEW e, e = Head(queue), queue' = Tail(queue),
         \/ Noted(Weight(e)) /\ UNCHANGED left
         \/ Noted(Zero) /\ left' = left ++ Weight(e)
  PROVE  Took(Zero)
<1>1. e \in Parcel /\ queue' \in Seq(Parcel)
  BY DEF TypedPast
<1>2. Weight(e) \in Counts
  BY <1>1, ParcelType
<1>3. left' \in Counts /\ outcomes' \in Counts /\ reported' \in Counts
  BY <1>2, PlusCounts DEF TypedPast, Noted
<1>4. ASSUME NEW c \in Category
      PROVE  /\ Past(queue', left', outcomes', reported', c) <= Past(queue, left, outcomes, reported, c) + 0
             /\ client.reports /\ c # "trace_metric" =>
                  Past(queue', left', outcomes', reported', c) = Past(queue, left, outcomes, reported, c) + 0
  <2>1. /\ Waiting(queue)[c] \in Nat /\ Waiting(queue')[c] \in Nat
        /\ Waiting(queue)[c] = Weight(e)[c] + Waiting(queue')[c]
    BY <1>1, WaitingFacts, CountNat DEF TypedPast, WaitingLaws
  <2>2. /\ left[c] \in Nat /\ outcomes[c] \in Nat /\ reported[c] \in Nat /\ outcomes'[c] \in Nat /\ reported'[c] \in Nat
        /\ Weight(e)[c] \in Nat /\ Zero[c] = 0
    BY <1>2, <1>3, CountNat, ZeroCounts DEF TypedPast
  <2> DEFINE W == Weight(e)[c]
             q == Waiting(queue')[c]
             l == left[c]
             o == outcomes[c]
             r == reported[c]
             p == outcomes'[c]
             s == reported'[c]
  <2>3. MovesOut(W, q, l, o, r, p, s)
    <3>1. W \in Nat /\ q \in Nat /\ l \in Nat /\ o \in Nat /\ r \in Nat /\ p \in Nat /\ s \in Nat
      BY <2>1, <2>2
    <3> HIDE DEF W, q, l, o, r, p, s
    <3> QED
      BY <3>1, MovingOut
  <2>4. Past(queue, left, outcomes, reported, c) + 0 = W + q + l + o + r
    <3>1. Past(queue, left, outcomes, reported, c) = W + q + l + o + r
      BY <2>1 DEF Past
    <3>2. W + q \in Nat /\ l \in Nat /\ o \in Nat /\ r \in Nat
      BY <2>1, <2>2
    <3> HIDE DEF W, q, l, o, r
    <3> QED
      BY <3>1, <3>2, SumOfFour
  <2>5. CASE Noted(Weight(e)) /\ left' = left
    <3>1. p + s <= o + r + W /\ (client.reports /\ c # "trace_metric" => p + s = o + r + W)
      BY <2>5 DEF Noted
    <3>2. Past(queue', left', outcomes', reported', c) = q + l + p + s
      BY <2>5 DEF Past
    <3> HIDE DEF W, q, l, o, r, p, s
    <3> QED
      BY <2>3, <2>4, <3>1, <3>2 DEF MovesOut
  <2>6. CASE Noted(Zero) /\ left' = left ++ Weight(e)
    <3>1. p + s <= o + r + 0 /\ (client.reports /\ c # "trace_metric" => p + s = o + r + 0)
      BY <2>2, <2>6 DEF Noted
    <3>2. left'[c] = l + W
      BY <1>2, <2>6, PlusCounts DEF TypedPast
    <3>3. Past(queue', left', outcomes', reported', c) = q + (l + W) + p + s
      BY <3>2 DEF Past
    <3> HIDE DEF W, q, l, o, r, p, s
    <3> QED
      BY <2>3, <2>4, <3>1, <3>3 DEF MovesOut
  <2> QED
    BY <2>5, <2>6
<1> QED
  BY <1>1, <1>3, <1>4, ZeroCounts DEF Took, TypedPast

\* Whatever the transport, an envelope that it is given is sent, queued or told of.
LEMMA EnqueueTakes ==
  ASSUME TypedPast, NEW e \in Parcel, NEW counts, Tells(counts, Weight(e)), Enqueue(e, counts)
  PROVE  Took(Weight(e))
<1>1. Weight(e) \in Counts
  BY ParcelType
<1>2. CASE Record(counts) /\ UNCHANGED <<queue, left>>
  BY <1>1, <1>2, RecordNotes, NotedIsTaken
<1>3. CASE queue' = Append(queue, e) /\ UNCHANGED <<outcomes, reported, left>>
  BY <1>3, QueuedIsTaken
<1> QED
  BY <1>2, <1>3 DEF Enqueue

LEMMA SendTakes ==
  ASSUME TypedPast, NEW e \in Parcel, Send(e)
  PROVE  Took(Weight(e))
<1>0. Weight(e) \in Counts
  BY ParcelType
<1>1. Tells(RecordForEvent(e), Weight(e)) /\ Tells(RecordForEnvelope(e), Weight(e))
  BY ParcelsTold
<1>2. CASE SendElsewhere(e)
  BY <1>0, <1>2, NothingNoted, LeftIsTaken DEF SendElsewhere
<1>3. CASE SendSync(e)
  <2>1. UNCHANGED queue
    BY <1>3 DEF SendSync
  <2>2. CASE Record(RecordForEvent(e)) /\ UNCHANGED left
    BY <1>0, <1>1, <2>1, <2>2, RecordNotes, NotedIsTaken
  <2>3. CASE TakeReportThenRecord(RecordForEvent(e)) /\ UNCHANGED left
    BY <1>0, <1>1, <2>1, <2>3, ReportThenRecordNotes, NotedIsTaken
  <2>4. CASE TakeReport /\ left' = left ++ Weight(e)
    BY <1>0, <2>1, <2>4, TakeReportNotes, LeftIsTaken
  <2> QED
    BY <1>3, <2>2, <2>3, <2>4 DEF SendSync
<1>4. CASE Enqueue(e, RecordForEnvelope(e))
  BY <1>1, <1>4, EnqueueTakes
<1>5. CASE Enqueue(e, RecordForEvent(e))
  BY <1>1, <1>5, EnqueueTakes
<1>6. CASE Record(RecordForEvent(e)) /\ UNCHANGED <<queue, left>>
  BY <1>0, <1>1, <1>6, RecordNotes, NotedIsTaken
<1>7. \/ SendElsewhere(e) \/ SendSync(e)
      \/ Enqueue(e, RecordForEnvelope(e)) \/ Enqueue(e, RecordForEvent(e))
      \/ Record(RecordForEvent(e)) /\ UNCHANGED <<queue, left>>
  <2>1. CASE client.transport \in {"noop", "custom"} \/ ~client.dsn
    BY <2>1 DEF Send
  <2>2. CASE ~(client.transport \in {"noop", "custom"} \/ ~client.dsn)
    <3>1. CASE client.transport = "sync"
      BY <2>2, <3>1 DEF Send
    <3>2. CASE client.transport = "async"
      BY <2>2, <3>2 DEF Send
    <3>3. CASE client.transport = "adapter"
      BY <2>2, <3>3 DEF Send
    <3>4. CASE client.transport \notin {"sync", "async", "adapter"}
      BY <2>2, <3>4 DEF Send
    <3> QED
      BY <3>1, <3>2, <3>3, <3>4
  <2> QED
    BY <2>1, <2>2
<1> QED
  BY <1>2, <1>3, <1>4, <1>5, <1>6, <1>7

LEMMA DeliverTakes ==
  ASSUME TypedPast, Deliver
  PROVE  Took(Zero)
<1> DEFINE e == Head(queue)
<1>1. queue # <<>> /\ queue' = Tail(queue) /\ e \in Parcel
  BY DEF Deliver, TypedPast
<1>2. Tells(Failed(e), Weight(e))
  BY <1>1, ParcelsTold DEF Failed
<1>3. \/ Record(Failed(e)) /\ UNCHANGED left
      \/ TakeReportThenRecord(Failed(e)) /\ UNCHANGED left
      \/ TakeReport /\ left' = left ++ Weight(e)
  BY DEF Deliver
<1> HIDE DEF e
<1>4. \/ Noted(Weight(e)) /\ UNCHANGED left
      \/ Noted(Zero) /\ left' = left ++ Weight(e)
  BY <1>2, <1>3, RecordNotes, ReportThenRecordNotes, TakeReportNotes
<1> QED
  BY <1>1, <1>4, DeliveredIsTaken DEF e

-----------------------------------------------------------------------------
(* Client: what is held in buffers and in the hands of callers.             *)

Buffered(b) ==
  Weight(b["error"]) ++ Weight(b["transaction"]) ++ Weight(b["check_in"])
    ++ Weight(b["log"]) ++ Weight(b["trace_metric"])

BufferSet == {b \in [Kind -> Seq(WItem)] :
                \A k \in Kind : Len(b[k]) <= Room[k] /\ \A i \in 1 .. Len(b[k]) : b[k][i].kind = k}

LEMMA BufferedIs ==
  ASSUME NEW b \in [Kind -> Seq(WItem)]
  PROVE  /\ Buffered(b) \in Counts
         /\ \A c \in Category :
              Buffered(b)[c] = Weight(b["error"])[c] + Weight(b["transaction"])[c] + Weight(b["check_in"])[c]
                                 + Weight(b["log"])[c] + Weight(b["trace_metric"])[c]
<1> DEFINE e == Weight(b["error"])
           t == Weight(b["transaction"])
           i == Weight(b["check_in"])
           l == Weight(b["log"])
           m == Weight(b["trace_metric"])
<1>1. Kind = {"error", "transaction", "check_in", "log", "trace_metric"}
  BY DEF Kind, Batched
<1>2. e \in Counts /\ t \in Counts /\ i \in Counts /\ l \in Counts /\ m \in Counts
  BY <1>1, WeightFacts DEF WeightLaws
<1> HIDE DEF e, t, i, l, m
<1>3. e ++ t \in Counts /\ \A c \in Category : (e ++ t)[c] = e[c] + t[c]
  BY <1>2, PlusCounts
<1> DEFINE et == e ++ t
<1>4. et ++ i \in Counts /\ \A c \in Category : (et ++ i)[c] = et[c] + i[c]
  BY <1>2, <1>3, PlusCounts
<1> DEFINE eti == et ++ i
<1>5. eti ++ l \in Counts /\ \A c \in Category : (eti ++ l)[c] = eti[c] + l[c]
  BY <1>2, <1>4, PlusCounts
<1> DEFINE etil == eti ++ l
<1>6. etil ++ m \in Counts /\ \A c \in Category : (etil ++ m)[c] = etil[c] + m[c]
  BY <1>2, <1>5, PlusCounts
<1>7. Buffered(b) = etil ++ m
  BY DEF Buffered, e, t, i, l, m
<1> QED
  BY <1>3, <1>4, <1>5, <1>6, <1>7 DEF e, t, i, l, m

BufferMoves(b, k, s) ==
  \A c \in Category : Buffered([b EXCEPT ![k] = s])[c] + Weight(b[k])[c] = Buffered(b)[c] + Weight(s)[c]

LEMMA BufferChanged ==
  ASSUME NEW b \in [Kind -> Seq(WItem)], NEW k \in Kind, NEW s \in Seq(WItem)
  PROVE  BufferMoves(b, k, s)
<1> DEFINE d == [b EXCEPT ![k] = s]
<1>1. d \in [Kind -> Seq(WItem)] /\ d[k] = s /\ \A j \in Kind : j # k => d[j] = b[j]
  OBVIOUS
<1> HIDE DEF d
<1>2. Kind = {"error", "transaction", "check_in", "log", "trace_metric"}
  BY DEF Kind, Batched
<1>3. ASSUME NEW c \in Category
      PROVE  Buffered(d)[c] + Weight(b[k])[c] = Buffered(b)[c] + Weight(s)[c]
  <2> DEFINE W(j) == Weight(b[j])[c]
             V(j) == Weight(d[j])[c]
             x == Weight(s)[c]
  <2>1. \A j \in Kind : W(j) \in Nat
    BY WeightFacts, CountNat DEF WeightLaws
  <2>2. x \in Nat
    BY WeightFacts, CountNat DEF WeightLaws
  <2>3. Buffered(b)[c] = W("error") + W("transaction") + W("check_in") + W("log") + W("trace_metric")
    BY BufferedIs
  <2>4. Buffered(d)[c] = V("error") + V("transaction") + V("check_in") + V("log") + V("trace_metric")
    BY <1>1, BufferedIs
  <2>5. \A j \in Kind : V(j) = IF j = k THEN x ELSE W(j)
    BY <1>1
  <2> HIDE DEF W, V, x
  <2>6. CASE k = "error"
    <3>1. V("error") = x /\ V("transaction") = W("transaction") /\ V("check_in") = W("check_in") /\ V("log") = W("log") /\ V("trace_metric") = W("trace_metric")
      BY <1>2, <2>5, <2>6
    <3>2. W("error") \in Nat /\ W("transaction") \in Nat /\ W("check_in") \in Nat /\ W("log") \in Nat /\ W("trace_metric") \in Nat
      BY <1>2, <2>1
    <3>3. Buffered(d)[c] + W(k) = Buffered(b)[c] + x
      BY <2>2, <2>3, <2>4, <2>6, <3>1, <3>2
    <3> QED
      BY <3>3 DEF W, x
  <2>7. CASE k = "transaction"
    <3>1. V("transaction") = x /\ V("error") = W("error") /\ V("check_in") = W("check_in") /\ V("log") = W("log") /\ V("trace_metric") = W("trace_metric")
      BY <1>2, <2>5, <2>7
    <3>2. W("error") \in Nat /\ W("transaction") \in Nat /\ W("check_in") \in Nat /\ W("log") \in Nat /\ W("trace_metric") \in Nat
      BY <1>2, <2>1
    <3>3. Buffered(d)[c] + W(k) = Buffered(b)[c] + x
      BY <2>2, <2>3, <2>4, <2>7, <3>1, <3>2
    <3> QED
      BY <3>3 DEF W, x
  <2>8. CASE k = "check_in"
    <3>1. V("check_in") = x /\ V("error") = W("error") /\ V("transaction") = W("transaction") /\ V("log") = W("log") /\ V("trace_metric") = W("trace_metric")
      BY <1>2, <2>5, <2>8
    <3>2. W("error") \in Nat /\ W("transaction") \in Nat /\ W("check_in") \in Nat /\ W("log") \in Nat /\ W("trace_metric") \in Nat
      BY <1>2, <2>1
    <3>3. Buffered(d)[c] + W(k) = Buffered(b)[c] + x
      BY <2>2, <2>3, <2>4, <2>8, <3>1, <3>2
    <3> QED
      BY <3>3 DEF W, x
  <2>9. CASE k = "log"
    <3>1. V("log") = x /\ V("error") = W("error") /\ V("transaction") = W("transaction") /\ V("check_in") = W("check_in") /\ V("trace_metric") = W("trace_metric")
      BY <1>2, <2>5, <2>9
    <3>2. W("error") \in Nat /\ W("transaction") \in Nat /\ W("check_in") \in Nat /\ W("log") \in Nat /\ W("trace_metric") \in Nat
      BY <1>2, <2>1
    <3>3. Buffered(d)[c] + W(k) = Buffered(b)[c] + x
      BY <2>2, <2>3, <2>4, <2>9, <3>1, <3>2
    <3> QED
      BY <3>3 DEF W, x
  <2>10. CASE k = "trace_metric"
    <3>1. V("trace_metric") = x /\ V("error") = W("error") /\ V("transaction") = W("transaction") /\ V("check_in") = W("check_in") /\ V("log") = W("log")
      BY <1>2, <2>5, <2>10
    <3>2. W("error") \in Nat /\ W("transaction") \in Nat /\ W("check_in") \in Nat /\ W("log") \in Nat /\ W("trace_metric") \in Nat
      BY <1>2, <2>1
    <3>3. Buffered(d)[c] + W(k) = Buffered(b)[c] + x
      BY <2>2, <2>3, <2>4, <2>10, <3>1, <3>2
    <3> QED
      BY <3>3 DEF W, x
  <2> QED
    BY <1>2, <2>6, <2>7, <2>8, <2>9, <2>10
<1> QED
  BY <1>3 DEF BufferMoves, d

-----------------------------------------------------------------------------
CallSet == {NoCall} \cup {r \in Call : r.item.id \in 0 .. NumItems}

\* What a goroutine with the call r has in its hands.
Hand(r) == IF r # NoCall /\ r.at # "return" THEN Weight(<<r.item>>) ELSE Zero
Hands(cl) == [g \in Goroutine |-> Hand(cl[g])]
Called(cl) == SumOf(Goroutine, Hands(cl), SetToSeq(Goroutine))

LEMMA GoroutinesInLine ==
  /\ SetToSeq(Goroutine) \in Seq(Goroutine)
  /\ \A i, j \in 1 .. Len(SetToSeq(Goroutine)) : SetToSeq(Goroutine)[i] = SetToSeq(Goroutine)[j] => i = j
  /\ \A g \in Goroutine : \E i \in 1 .. Len(SetToSeq(Goroutine)) : SetToSeq(Goroutine)[i] = g
<1> DEFINE n == Cardinality(Goroutine)
           s == SetToSeq(Goroutine)
<1>1. IsFiniteSet(Goroutine)
  BY ClientAssumption DEF ClientAssumption
<1>2. n \in Nat /\ ExistsBijection(1 .. n, Goroutine)
  BY <1>1, FS_CardinalityType
<1>3. \E f \in [1 .. n -> Goroutine] : IsInjective(f)
  BY <1>2 DEF ExistsBijection, Bijection, Injection
<1>4. s \in [1 .. n -> Goroutine] /\ IsInjective(s)
  BY <1>3 DEF SetToSeq
<1>5. s \in Injection(1 .. n, Goroutine)
  BY <1>4 DEF Injection
<1>6. Cardinality(1 .. n) = n
  <2>1. Cardinality(1 .. n) = IF 1 > n THEN 0 ELSE n - 1 + 1
    BY <1>2, FS_Interval
  <2> QED
    BY <1>2, <2>1
<1>7. s \in Surjection(1 .. n, Goroutine)
  <2> HIDE DEF s
  <2>1. Cardinality(1 .. n) = Cardinality(Goroutine) <=> s \in Surjection(1 .. n, Goroutine)
    BY <1>1, <1>5, FS_Injection
  <2> QED
    BY <1>6, <2>1
<1> HIDE DEF s, n
<1>8. s \in Seq(Goroutine) /\ Len(s) = n
  BY <1>2, <1>4
<1>9. \A i, j \in 1 .. n : s[i] = s[j] => i = j
  BY <1>4 DEF IsInjective
<1>10. \A g \in Goroutine : \E i \in 1 .. n : s[i] = g
  BY <1>7 DEF Surjection
<1> QED
  BY <1>8, <1>9, <1>10 DEF s

LEMMA HandType == \A r \in CallSet : Hand(r) \in Counts
<1> TAKE r \in CallSet
<1>1. CASE r = NoCall
  BY <1>1, ZeroCounts DEF Hand
<1>2. CASE r # NoCall
  <2>1. r.item \in WItem
    BY <1>2 DEF CallSet, Call
  <2>2. Weight(<<r.item>>) \in Counts
    BY <2>1, WeightFacts, RecordItemCounts DEF WeightLaws, ItemCounts
  <2> QED
    BY <2>2, ZeroCounts DEF Hand
<1> QED
  BY <1>1, <1>2

CallMoves(cl, g, r) ==
  \A c \in Category : Called([cl EXCEPT ![g] = r])[c] + Hand(cl[g])[c] = Called(cl)[c] + Hand(r)[c]

LEMMA CallChanged ==
  ASSUME NEW cl \in [Goroutine -> CallSet], NEW g \in Goroutine, NEW r \in CallSet
  PROVE  CallMoves(cl, g, r)
<1> DEFINE d == [cl EXCEPT ![g] = r]
<1>1. d \in [Goroutine -> CallSet] /\ d[g] = r /\ \A h \in Goroutine : h # g => d[h] = cl[h]
  OBVIOUS
<1> HIDE DEF d
<1>2. Hands(cl) \in [Goroutine -> Counts] /\ Hands(d) \in [Goroutine -> Counts]
  BY <1>1, HandType DEF Hands
<1>3. Hands(cl)[g] = Hand(cl[g]) /\ Hands(d)[g] = Hand(r) /\ \A h \in Goroutine : h # g => Hands(cl)[h] = Hands(d)[h]
  BY <1>1 DEF Hands
<1> DEFINE s == SetToSeq(Goroutine)
           w == Hands(cl)
           v == Hands(d)
<1>4. /\ s \in Seq(Goroutine) /\ (\A i, j \in 1 .. Len(s) : s[i] = s[j] => i = j)
      /\ \E i \in 1 .. Len(s) : s[i] = g
  BY GoroutinesInLine
<1>5. Called(cl) = SumOf(Goroutine, w, s) /\ Called(d) = SumOf(Goroutine, v, s)
  BY DEF Called
<1>6. w \in [Goroutine -> Counts] /\ v \in [Goroutine -> Counts] /\ \A h \in Goroutine : h # g => w[h] = v[h]
  BY <1>2, <1>3
<1> HIDE DEF s, w, v
<1>7. \A c \in Category : SumOf(Goroutine, v, s)[c] + w[g][c] = SumOf(Goroutine, w, s)[c] + v[g][c]
  <2>1. \A c \in Category :
             IF \E i \in 1 .. Len(s) : s[i] = g
             THEN SumOf(Goroutine, v, s)[c] + w[g][c] = SumOf(Goroutine, w, s)[c] + v[g][c]
             ELSE SumOf(Goroutine, v, s)[c] = SumOf(Goroutine, w, s)[c]
    BY <1>4, <1>6, SumChanged
  <2> QED
    BY <1>4, <2>1
<1> QED
  BY <1>3, <1>5, <1>7 DEF CallMoves, d, w, v

LEMMA CalledType == \A cl \in [Goroutine -> CallSet] : Called(cl) \in Counts
<1> TAKE cl \in [Goroutine -> CallSet]
<1>1. Hands(cl) \in [Goroutine -> Counts]
  BY HandType DEF Hands
<1>2. SumLaws(Goroutine, Hands(cl))
  BY <1>1, SumFacts
<1> QED
  BY <1>2, GoroutinesInLine DEF SumLaws, Called

\* What is held, taken apart.
LEMMA HeldIs ==
  ASSUME buffer \in [Kind -> Seq(WItem)], queue \in Seq(Parcel), call \in [Goroutine -> CallSet]
  PROVE  Held \in Counts /\ \A c \in Category : Held[c] = Buffered(buffer)[c] + Waiting(queue)[c] + Called(call)[c]
<1> DEFINE gs == SetToSeq(Goroutine)
           t == [i \in DOMAIN gs |-> InHand(gs[i])]
           u == [i \in DOMAIN queue |-> Weight(queue[i])]
<1>1. Held = (Buffered(buffer) ++ Total(u)) ++ Total(t)
  BY DEF Held, Buffered
<1>2. Total(u) = Waiting(queue)
  <2>1. DOMAIN queue = 1 .. Len(queue) /\ Len(queue) \in Nat /\ \A i \in 1 .. Len(queue) : queue[i] \in Parcel
    OBVIOUS
  <2>2. Len(u) = Len(queue) /\ \A i \in 1 .. Len(queue) : u[i] = ParcelWeight[queue[i]]
    BY <2>1, ParcelWeightType
  <2> HIDE DEF u
  <2> QED
    BY <2>2, ParcelWeightType, TotalIs DEF Waiting
<1>3. Total(t) = Called(call)
  <2>1. gs \in Seq(Goroutine)
    BY GoroutinesInLine
  <2> HIDE DEF gs
  <2>2. DOMAIN gs = 1 .. Len(gs) /\ Len(gs) \in Nat /\ \A i \in 1 .. Len(gs) : gs[i] \in Goroutine
    BY <2>1
  <2>3. \A g \in Goroutine : InHand(g) = Hand(call[g])
    BY DEF InHand, Hand, Capturing, Is, item
  <2>4. Len(t) = Len(gs) /\ \A i \in 1 .. Len(gs) : t[i] = Hands(call)[gs[i]]
    BY <2>2, <2>3 DEF Hands
  <2> HIDE DEF t
  <2>5. Hands(call) \in [Goroutine -> Counts]
    BY HandType DEF Hands
  <2>6. Total(t) = SumOf(Goroutine, Hands(call), gs)
    BY <2>1, <2>4, <2>5, TotalIs
  <2> QED
    BY <2>6 DEF Called, gs
<1> HIDE DEF t, u
<1>4. Buffered(buffer) \in Counts /\ Waiting(queue) \in Counts /\ Called(call) \in Counts
  BY BufferedIs, CalledType, WaitingFacts DEF WaitingLaws
<1> DEFINE x == Buffered(buffer)
           y == Waiting(queue)
           z == Called(call)
<1>5. Held = (x ++ y) ++ z
  BY <1>1, <1>2, <1>3
<1>6. x \in Counts /\ y \in Counts /\ z \in Counts
  BY <1>4
<1> HIDE DEF x, y, z
<1>7. x ++ y \in Counts /\ \A c \in Category : (x ++ y)[c] = x[c] + y[c]
  BY <1>6, PlusCounts
<1> DEFINE xy == x ++ y
<1>8. xy ++ z \in Counts /\ \A c \in Category : (xy ++ z)[c] = xy[c] + z[c]
  BY <1>6, <1>7, PlusCounts
<1> QED
  BY <1>5, <1>7, <1>8 DEF x, y, z

-----------------------------------------------------------------------------
(* Client: the invariant.                                                   *)

TypedClient ==
  /\ TypedPast
  /\ buffer \in BufferSet
  /\ call \in [Goroutine -> CallSet]
  /\ made \in Counts
  /\ captured \in 0 .. NumItems /\ lastEventID \in 0 .. NumItems

\* Who is about to return an id has handed the event over.
IdsHanded ==
  \A g \in Goroutine : Is(g, "return") =>
    KeepsEventID(call[g].way) /\ (item(g).kind # "transaction" => item(g).id \in handed)

Everywhere(c) == Buffered(buffer)[c] + Called(call)[c] + Past(queue, left, outcomes, reported, c)

Balanced ==
  \A c \in Category :
    /\ Everywhere(c) <= made[c]
    /\ client.reports /\ c # "trace_metric" => Everywhere(c) = made[c]

ClientInv == TypedClient /\ IdsHanded /\ LastWasHanded /\ Balanced

LEMMA KindsAre == Kind = {"error", "transaction", "check_in", "log", "trace_metric"}
BY DEF Kind, Batched

LEMMA ClientInitHolds == ClientInit => ClientInv
<1> SUFFICES ASSUME ClientInit
             PROVE  ClientInv
  OBVIOUS
<1> USE DEF ClientInit
<1>1. NumItems \in Nat /\ Room \in [Kind -> Nat \ {0}]
  BY ClientAssumption DEF ClientAssumption
<1>2. TypedPast
  BY ZeroCounts DEF TypedPast
<1>3. buffer \in BufferSet
  BY <1>1 DEF BufferSet
<1>4. call \in [Goroutine -> CallSet] /\ \A g \in Goroutine : call[g] = NoCall
  BY DEF CallSet
<1>5. TypedClient
  BY <1>1, <1>2, <1>3, <1>4, ZeroCounts DEF TypedClient
<1>6. IdsHanded /\ LastWasHanded
  BY <1>4 DEF IdsHanded, Is, NoCall, LastWasHanded
<1>7. ASSUME NEW c \in Category
      PROVE  Everywhere(c) = 0 /\ made[c] = 0
  <2>1. Buffered(buffer)[c] = 0
    <3>1. \A k \in Kind : Weight(buffer[k])[c] = 0
      BY WeightFacts, ZeroCounts DEF WeightLaws
    <3>2. buffer \in [Kind -> Seq(WItem)]
      BY <1>3 DEF BufferSet
    <3>3. Buffered(buffer)[c] = Weight(buffer["error"])[c] + Weight(buffer["transaction"])[c]
            + Weight(buffer["check_in"])[c] + Weight(buffer["log"])[c] + Weight(buffer["trace_metric"])[c]
      BY <3>2, BufferedIs
    <3>4. /\ Weight(buffer["error"])[c] = 0 /\ Weight(buffer["transaction"])[c] = 0
          /\ Weight(buffer["check_in"])[c] = 0 /\ Weight(buffer["log"])[c] = 0
          /\ Weight(buffer["trace_metric"])[c] = 0
      BY <3>1, KindsAre
    <3> QED
      BY <3>3, <3>4
  <2>2. Called(call)[c] = 0
    <3>1. Hands(call) \in [Goroutine -> Counts] /\ \A g \in Goroutine : Hands(call)[g] = Zero
      BY <1>4, ZeroCounts DEF Hands, Hand
    <3> DEFINE w == Hands(call)
               s == SetToSeq(Goroutine)
    <3>2. w \in [Goroutine -> Counts] /\ (\A g \in Goroutine : w[g] = Zero) /\ s \in Seq(Goroutine)
      BY <3>1, GoroutinesInLine
    <3>3. Called(call) = SumOf(Goroutine, w, s)
      BY DEF Called
    <3> HIDE DEF w, s
    <3>4. SumOf(Goroutine, w, s) = Zero
      BY <3>2, SumOfZero
    <3> QED
      BY <3>3, <3>4, ZeroCounts
  <2>3. Waiting(queue)[c] = 0 /\ left[c] = 0 /\ outcomes[c] = 0 /\ reported[c] = 0 /\ made[c] = 0
    BY WaitingFacts, ZeroCounts DEF WaitingLaws
  <2> QED
    BY <2>1, <2>2, <2>3 DEF Everywhere, Past
<1>8. Balanced
  BY <1>7 DEF Balanced
<1> QED
  BY <1>5, <1>6, <1>8 DEF ClientInv

-----------------------------------------------------------------------------
\* A step that moves counts without making any: g's call becomes r, the buffers
\* give up or take what they do, and the rest has taken w.
BufferTook(w, v) ==
  \A c \in Category : Buffered(buffer')[c] + w[c] = Buffered(buffer)[c] + v[c]

MadeOf(w) == made' \in Counts /\ \A c \in Category : made'[c] = made[c] + w[c]

LEMMA NothingMade ==
  ASSUME made \in Counts, UNCHANGED made
  PROVE  MadeOf(Zero)
BY ZeroCounts, CountNat DEF MadeOf

LEMMA BufferStays ==
  ASSUME buffer \in BufferSet, UNCHANGED buffer
  PROVE  buffer' \in BufferSet /\ BufferTook(Zero, Zero)
BY DEF BufferTook

Traded(a, b, t, v, w, m) ==
  /\ a \in Counts /\ b \in Counts /\ t \in Counts /\ v \in Counts /\ w \in Counts /\ m \in Counts
  /\ Took(t) /\ buffer' \in BufferSet /\ BufferTook(w, v) /\ MadeOf(m) /\ call' \in [Goroutine -> CallSet]
  /\ \A c \in Category : Called(call')[c] + b[c] = Called(call)[c] + a[c]
  /\ \A c \in Category : a[c] + v[c] + t[c] = b[c] + w[c] + m[c]

\* The sums: what is given up is b in hand, and given is a; the buffers give up w and take v; the
\* rest takes t; and m is made.
LEMMA BalanceMoves ==
  ASSUME TypedClient, Balanced, UNCHANGED client,
         NEW a, NEW b, NEW t, NEW v, NEW w, NEW m, Traded(a, b, t, v, w, m)
  PROVE  Balanced'
<1>0. /\ a \in Counts /\ b \in Counts /\ t \in Counts /\ v \in Counts /\ w \in Counts /\ m \in Counts
      /\ Took(t) /\ buffer' \in BufferSet /\ BufferTook(w, v) /\ MadeOf(m) /\ call' \in [Goroutine -> CallSet]
      /\ \A c \in Category : Called(call')[c] + b[c] = Called(call)[c] + a[c]
      /\ \A c \in Category : a[c] + v[c] + t[c] = b[c] + w[c] + m[c]
  BY DEF Traded
<1>1. ASSUME NEW c \in Category
      PROVE  /\ Everywhere(c)' <= made'[c]
             /\ client.reports /\ c # "trace_metric" => Everywhere(c)' = made'[c]
  <2>1. /\ a[c] \in Nat /\ b[c] \in Nat /\ t[c] \in Nat /\ v[c] \in Nat /\ w[c] \in Nat /\ m[c] \in Nat
        /\ made[c] \in Nat
    BY <1>0, CountNat DEF TypedClient
  <2>2. /\ Buffered(buffer)[c] \in Nat /\ Buffered(buffer')[c] \in Nat
        /\ Called(call)[c] \in Nat /\ Called(call')[c] \in Nat
    BY <1>0, BufferedIs, CalledType, CountNat DEF TypedClient, BufferSet
  <2>3. Past(queue, left, outcomes, reported, c) \in Nat /\ Past(queue', left', outcomes', reported', c) \in Nat
    <3>1. \A q \in Seq(Parcel) : Waiting(q)[c] \in Nat
      BY WaitingFacts, CountNat DEF WaitingLaws
    <3>2. /\ queue \in Seq(Parcel) /\ left[c] \in Nat /\ outcomes[c] \in Nat /\ reported[c] \in Nat
          /\ queue' \in Seq(Parcel) /\ left'[c] \in Nat /\ outcomes'[c] \in Nat /\ reported'[c] \in Nat
      BY <1>0, CountNat DEF TypedClient, TypedPast, Took
    <3>3. Waiting(queue)[c] \in Nat /\ Waiting(queue')[c] \in Nat
      BY <3>1, <3>2
    <3>4. /\ Waiting(queue)[c] + left[c] + outcomes[c] + reported[c] \in Nat
          /\ Waiting(queue')[c] + left'[c] + outcomes'[c] + reported'[c] \in Nat
      BY <3>2, <3>3, SumOfFour
    <3> QED
      BY <3>4 DEF Past
  <2>4. Everywhere(c)' = Buffered(buffer')[c] + Called(call')[c] + Past(queue', left', outcomes', reported', c)
    BY DEF Everywhere
  <2>5. Everywhere(c) = Buffered(buffer)[c] + Called(call)[c] + Past(queue, left, outcomes, reported, c)
    BY DEF Everywhere
  <2>6. /\ Buffered(buffer')[c] + w[c] = Buffered(buffer)[c] + v[c]
        /\ Called(call')[c] + b[c] = Called(call)[c] + a[c]
        /\ a[c] + v[c] + t[c] = b[c] + w[c] + m[c]
        /\ made'[c] = made[c] + m[c]
        /\ Past(queue', left', outcomes', reported', c) <= Past(queue, left, outcomes, reported, c) + t[c]
        /\ Everywhere(c) <= made[c]
    BY <1>0 DEF BufferTook, MadeOf, Took, Balanced
  <2>7. ASSUME client.reports, c # "trace_metric"
        PROVE  /\ Past(queue', left', outcomes', reported', c) = Past(queue, left, outcomes, reported, c) + t[c]
               /\ Everywhere(c) = made[c]
    BY <1>0, <2>7 DEF Took, Balanced
  <2> DEFINE p == Past(queue, left, outcomes, reported, c)
             q == Past(queue', left', outcomes', reported', c)
             e == Everywhere(c)
             d == Everywhere(c)'
  <2> HIDE DEF p, q, e, d
  <2>8. d <= made'[c]
    BY <2>1, <2>2, <2>3, <2>4, <2>5, <2>6 DEF p, q, e, d
  <2>9. ASSUME client.reports, c # "trace_metric"
        PROVE  d = made'[c]
    <3>1. q = p + t[c] /\ e = made[c]
      BY <2>7, <2>9 DEF p, q, e
    <3> QED
      BY <2>1, <2>2, <2>3, <2>4, <2>5, <2>6, <3>1 DEF p, q, e, d
  <2> QED
    BY <2>8, <2>9 DEF d
<1> QED
  BY <1>1 DEF Balanced

-----------------------------------------------------------------------------
(* Client: the steps.                                                       *)

\* A step of g: its call becomes r.
Steps(g, r, t, v, w, m) ==
  /\ UNCHANGED client
  /\ r \in CallSet /\ call' = [call EXCEPT ![g] = r]
  /\ r # NoCall /\ r.at = "return" =>
       KeepsEventID(r.way) /\ (r.item.kind # "transaction" => r.item.id \in handed')
  /\ handed \subseteq handed' /\ lastEventID' \in handed' \cup {0}
  /\ lastEventID' \in 0 .. NumItems /\ captured' \in 0 .. NumItems
  /\ t \in Counts /\ v \in Counts /\ w \in Counts /\ m \in Counts
  /\ Took(t) /\ buffer' \in BufferSet /\ BufferTook(w, v) /\ MadeOf(m)
  /\ \A c \in Category : Hand(r)[c] + v[c] + t[c] = Hand(call[g])[c] + w[c] + m[c]

LEMMA StepHolds ==
  ASSUME ClientInv, NEW g \in Goroutine, NEW r, NEW t, NEW v, NEW w, NEW m, Steps(g, r, t, v, w, m)
  PROVE  ClientInv'
<1>0. /\ UNCHANGED client /\ r \in CallSet /\ call' = [call EXCEPT ![g] = r]
      /\ r # NoCall /\ r.at = "return" =>
           KeepsEventID(r.way) /\ (r.item.kind # "transaction" => r.item.id \in handed')
      /\ handed \subseteq handed' /\ lastEventID' \in handed' \cup {0}
      /\ lastEventID' \in 0 .. NumItems /\ captured' \in 0 .. NumItems
      /\ t \in Counts /\ v \in Counts /\ w \in Counts /\ m \in Counts
      /\ Took(t) /\ buffer' \in BufferSet /\ BufferTook(w, v) /\ MadeOf(m)
      /\ \A c \in Category : Hand(r)[c] + v[c] + t[c] = Hand(call[g])[c] + w[c] + m[c]
  BY DEF Steps
<1>1. TypedClient /\ IdsHanded /\ Balanced /\ call \in [Goroutine -> CallSet]
  BY DEF ClientInv, TypedClient
<1>2. call' \in [Goroutine -> CallSet] /\ call'[g] = r /\ \A h \in Goroutine : h # g => call'[h] = call[h]
  BY <1>0, <1>1
<1>3. Hand(r) \in Counts /\ Hand(call[g]) \in Counts
  BY <1>0, <1>1, HandType
<1>4. \A c \in Category : Called(call')[c] + Hand(call[g])[c] = Called(call)[c] + Hand(r)[c]
  <2>1. CallMoves(call, g, r)
    BY <1>0, <1>1, CallChanged
  <2> QED
    BY <1>0, <2>1 DEF CallMoves
<1>5. Balanced'
  <2> DEFINE a == Hand(r)
             b == Hand(call[g])
  <2>1. /\ a \in Counts /\ b \in Counts
        /\ \A c \in Category : Called(call')[c] + b[c] = Called(call)[c] + a[c]
        /\ \A c \in Category : a[c] + v[c] + t[c] = b[c] + w[c] + m[c]
    BY <1>0, <1>3, <1>4
  <2> HIDE DEF a, b
  <2>2. Traded(a, b, t, v, w, m)
    BY <1>0, <1>2, <2>1 DEF Traded
  <2> QED
    BY <1>0, <1>1, <2>2, BalanceMoves
<1>6. TypedClient'
  BY <1>0, <1>2 DEF TypedClient, Took, MadeOf
<1>7. IdsHanded'
  <2>1. ASSUME NEW h \in Goroutine, call'[h].at = "return"
        PROVE  /\ KeepsEventID(call'[h].way)
               /\ call'[h].item.kind # "transaction" => call'[h].item.id \in handed'
    <3>1. CASE h = g
      BY <1>0, <1>2, <2>1, <3>1 DEF NoCall
    <3>2. CASE h # g
      BY <1>0, <1>1, <1>2, <2>1, <3>2 DEF IdsHanded, Is, item
    <3> QED
      BY <3>1, <3>2
  <2> QED
    BY <2>1 DEF IdsHanded, Is, item
<1> QED
  BY <1>0, <1>5, <1>6, <1>7 DEF ClientInv, LastWasHanded

\* A step of what runs behind the callers.
LEMMA RestHolds ==
  ASSUME ClientInv, UNCHANGED Rest,
         NEW t \in Counts, NEW v \in Counts, NEW w \in Counts,
         Took(t), buffer' \in BufferSet, BufferTook(w, v),
         \A c \in Category : v[c] + t[c] = w[c]
  PROVE  ClientInv'
<1>1. TypedClient /\ IdsHanded /\ Balanced /\ LastWasHanded /\ made \in Counts
  BY DEF ClientInv, TypedClient
<1>2. UNCHANGED <<client, captured, call, made, handed, lastEventID>>
  BY DEF Rest
<1>3. MadeOf(Zero)
  BY <1>1, <1>2, NothingMade
<1>4. call' \in [Goroutine -> CallSet]
  BY <1>1, <1>2 DEF TypedClient
<1>5. \A c \in Category : Called(call')[c] + Zero[c] = Called(call)[c] + Zero[c]
  BY <1>2
<1>6. \A c \in Category : Zero[c] + v[c] + t[c] = Zero[c] + w[c] + Zero[c]
  BY ZeroCounts, CountNat
<1>7. Balanced'
  <2> DEFINE z == Zero
  <2>1. /\ z \in Counts /\ MadeOf(z)
        /\ \A c \in Category : Called(call')[c] + z[c] = Called(call)[c] + z[c]
        /\ \A c \in Category : z[c] + v[c] + t[c] = z[c] + w[c] + z[c]
    BY <1>3, <1>5, <1>6, ZeroCounts
  <2> HIDE DEF z
  <2>2. Traded(z, z, t, v, w, z)
    BY <1>4, <2>1 DEF Traded
  <2> QED
    BY <1>1, <1>2, <2>2, BalanceMoves
<1>8. TypedClient'
  BY <1>1, <1>2, <1>4 DEF TypedClient, Took
<1>9. IdsHanded' /\ LastWasHanded'
  BY <1>1, <1>2 DEF IdsHanded, LastWasHanded, Is, item
<1> QED
  BY <1>7, <1>8, <1>9 DEF ClientInv

-----------------------------------------------------------------------------
LEMMA CallIs ==
  ASSUME ClientInv, NEW g \in Goroutine, call[g] # NoCall
  PROVE  /\ call[g] \in Call /\ call[g].item \in WItem /\ call[g].item.id \in 0 .. NumItems
         /\ call[g].item.kind \in Kind /\ call[g].next \in Nat /\ call[g].at \in CallStage
         /\ KeepsEventID(call[g].way) => call[g].item.kind \in {"error", "transaction"}
         /\ GetSpanCount(call[g].item) \in Nat
         /\ call[g].at # "return" => Hand(call[g]) = RecordItem(call[g].item)
         /\ Weight(<<call[g].item>>) = RecordItem(call[g].item) /\ RecordItem(call[g].item) \in Counts
<1>1. /\ call[g] \in Call /\ call[g].item \in WItem /\ call[g].item.id \in 0 .. NumItems
      /\ call[g].item.kind \in Kind /\ call[g].next \in Nat /\ call[g].at \in CallStage
      /\ KeepsEventID(call[g].way) => call[g].item.kind \in {"error", "transaction"}
  BY DEF ClientInv, TypedClient, CallSet, Call, WItem
<1>2. GetSpanCount(call[g].item) \in Nat
  BY <1>1 DEF GetSpanCount, WItem
<1>3. Weight(<<call[g].item>>) = RecordItem(call[g].item) /\ RecordItem(call[g].item) \in Counts
  BY <1>1, WeightFacts, RecordItemCounts DEF WeightLaws, ItemCounts
<1> QED
  BY <1>1, <1>2, <1>3 DEF Hand

LEMMA DropHolds ==
  ASSUME ClientInv, NEW g \in Goroutine, call[g] # NoCall, call[g].at # "return",
         NEW counts, Tells(counts, RecordItem(call[g].item)), Drop(g, counts)
  PROVE  ClientInv'
<1> DEFINE t == RecordItem(call[g].item)
           r == NoCall
<1>1. /\ UNCHANGED <<captured, client, buffer, queue, made, left, handed, lastEventID>>
      /\ call' = [call EXCEPT ![g] = r] /\ Record(counts)
  BY DEF Drop
<1>2. t \in Counts /\ Hand(call[g]) = t
  BY CallIs
<1>3. TypedPast /\ buffer \in BufferSet /\ made \in Counts /\ LastWasHanded
      /\ captured \in 0 .. NumItems /\ lastEventID \in 0 .. NumItems
  BY DEF ClientInv, TypedClient
<1>4. Tells(counts, t)
  OBVIOUS
<1> HIDE DEF t
<1>5. Took(t)
  BY <1>1, <1>2, <1>3, <1>4, RecordNotes, NotedIsTaken
<1>6. buffer' \in BufferSet /\ BufferTook(Zero, Zero) /\ MadeOf(Zero)
  BY <1>1, <1>3, BufferStays, NothingMade
<1>7. r \in CallSet /\ Hand(r) = Zero
  BY DEF CallSet, Hand
<1>8. \A c \in Category : Hand(r)[c] + Zero[c] + t[c] = Hand(call[g])[c] + Zero[c] + Zero[c]
  BY <1>2, <1>7, ZeroCounts, CountNat
<1>9. r # NoCall /\ r.at = "return" =>
           KeepsEventID(r.way) /\ (r.item.kind # "transaction" => r.item.id \in handed')
  OBVIOUS
<1>10. handed \subseteq handed' /\ lastEventID' \in handed' \cup {0} /\ lastEventID' \in 0 .. NumItems
       /\ captured' \in 0 .. NumItems
  BY <1>1, <1>3 DEF LastWasHanded
<1> HIDE DEF r
<1>20. Steps(g, r, t, Zero, Zero, Zero)
  BY <1>1, <1>2, <1>5, <1>6, <1>7, <1>8, <1>9, <1>10, ZeroCounts DEF Steps
<1> QED
  BY <1>20, StepHolds

\* What an item weighs with another number of spans.
LEMMA SpansWeigh ==
  ASSUME NEW x \in WItem, NEW n \in Nat, x.kind = "transaction" \/ n = x.spans,
         NEW y, y = [x EXCEPT !.spans = n],
         NEW lost, lost = IF GetSpanCount(x) > n THEN GetSpanCount(x) - n ELSE 0,
         NEW gained, gained = IF n > GetSpanCount(x) THEN n - GetSpanCount(x) ELSE 0
  PROVE  /\ y \in WItem /\ y.id = x.id /\ y.kind = x.kind
         /\ Of("span", lost) \in Counts /\ Of("span", gained) \in Counts
         /\ \A c \in Category : RecordItem(y)[c] + Of("span", lost)[c] = RecordItem(x)[c] + Of("span", gained)[c]
<1>1. y \in WItem /\ y.id = x.id /\ y.kind = x.kind /\ y.spans = n
  BY DEF WItem
<1>2. /\ GetSpanCount(x) \in Nat /\ GetSpanCount(y) \in Nat
      /\ GetSpanCount(x) = IF x.kind = "transaction" THEN x.spans ELSE 0
      /\ GetSpanCount(y) = IF x.kind = "transaction" THEN n ELSE 0
  BY <1>1 DEF GetSpanCount, WItem
<1>3. x.kind # "transaction" => n = 0
  BY DEF WItem
<1>4. lost \in Nat /\ gained \in Nat /\ GetSpanCount(y) + lost = GetSpanCount(x) + gained
  BY <1>2, <1>3
<1>5. /\ Of("span", lost) \in Counts /\ Of("span", gained) \in Counts
      /\ \A c \in Category : /\ Of("span", lost)[c] = IF c = "span" THEN lost ELSE 0
                             /\ Of("span", gained)[c] = IF c = "span" THEN gained ELSE 0
  BY <1>4, OfCounts, KindsApart
<1>6. ItemCounts(x) /\ ItemCounts(y) /\ x.kind # "span"
  BY <1>1, RecordItemCounts, KindsApart DEF WItem
<1>7. ASSUME NEW c \in Category
      PROVE  RecordItem(y)[c] + Of("span", lost)[c] = RecordItem(x)[c] + Of("span", gained)[c]
  <2>1. CASE c = "span"
    BY <1>1, <1>2, <1>4, <1>5, <1>6, <2>1 DEF ItemCounts
  <2>2. CASE c # "span"
    BY <1>1, <1>5, <1>6, <2>2 DEF ItemCounts
  <2> QED
    BY <2>1, <2>2
<1> QED
  BY <1>1, <1>5, <1>7

LEMMA KeepHolds ==
  ASSUME ClientInv, NEW g \in Goroutine, call[g] # NoCall, call[g].at # "return",
         NEW n \in Nat, call[g].item.kind = "transaction" \/ n = call[g].item.spans,
         NEW stage \in CallStage \ {"return"}, NEW next \in Nat, KeepWith(g, n, stage, next)
  PROVE  ClientInv'
<1> DEFINE x == call[g].item
           y == [x EXCEPT !.spans = n]
           lost == IF GetSpanCount(x) > n THEN GetSpanCount(x) - n ELSE 0
           gained == IF n > GetSpanCount(x) THEN n - GetSpanCount(x) ELSE 0
           r == [call[g] EXCEPT !.item = y, !.at = stage, !.next = next]
           t == Of("span", lost)
           m == Of("span", gained)
<1>1. call \in [Goroutine -> CallSet]
  BY DEF ClientInv, TypedClient
<1>2. /\ UNCHANGED <<client, captured, buffer, queue, left, handed, lastEventID>>
      /\ Record(t) /\ made' = made ++ m
  BY DEF KeepWith, item
<1>3. call' = [call EXCEPT ![g] = r]
  BY <1>1 DEF KeepWith
<1>4. x \in WItem /\ Hand(call[g]) = RecordItem(x) /\ call[g] \in Call /\ x.id \in 0 .. NumItems
      /\ (KeepsEventID(call[g].way) => x.kind \in {"error", "transaction"})
  BY CallIs
<1>5. /\ y \in WItem /\ y.id = x.id /\ y.kind = x.kind
      /\ t \in Counts /\ m \in Counts
      /\ \A c \in Category : RecordItem(y)[c] + t[c] = RecordItem(x)[c] + m[c]
  <2> HIDE DEF x, y, lost, gained
  <2> QED
    BY <1>4, SpansWeigh DEF x, y, lost, gained
<1> HIDE DEF x, y, t, m
<1>6. r \in CallSet /\ r.item = y /\ r.at = stage /\ r # NoCall
  <2>1. r \in [item : WItem, way : STRING, next : Nat, at : CallStage] /\ r.item = y /\ r.at = stage /\ r.way = call[g].way
    BY <1>4, <1>5 DEF Call
  <2> HIDE DEF r
  <2>2. r # NoCall
    BY <2>1 DEF NoCall, CallStage
  <2> QED
    BY <1>4, <1>5, <2>1, <2>2 DEF CallSet, Call
<1> HIDE DEF r
<1>7. Hand(r) = RecordItem(y)
  BY <1>5, <1>6, WeightFacts DEF Hand, WeightLaws
<1>8. TypedPast /\ buffer \in BufferSet /\ made \in Counts /\ LastWasHanded
      /\ captured \in 0 .. NumItems /\ lastEventID \in 0 .. NumItems
  BY DEF ClientInv, TypedClient
<1>9. Took(t)
  BY <1>2, <1>5, <1>8, TellsItself, RecordNotes, NotedIsTaken
<1>10. MadeOf(m)
  BY <1>2, <1>5, <1>8, PlusCounts DEF MadeOf
<1>11. buffer' \in BufferSet /\ BufferTook(Zero, Zero)
  BY <1>2, <1>8, BufferStays
<1>12. \A c \in Category : Hand(r)[c] + Zero[c] + t[c] = Hand(call[g])[c] + Zero[c] + m[c]
  <2>1. RecordItem(x) \in Counts /\ RecordItem(y) \in Counts
    BY <1>4, <1>5, RecordItemCounts DEF ItemCounts
  <2> QED
    BY <1>4, <1>5, <1>7, <2>1, ZeroCounts, CountNat
<1>13. handed \subseteq handed' /\ lastEventID' \in handed' \cup {0} /\ lastEventID' \in 0 .. NumItems
       /\ captured' \in 0 .. NumItems
  BY <1>2, <1>8 DEF LastWasHanded
<1>14. r # NoCall /\ r.at = "return" =>
           KeepsEventID(r.way) /\ (r.item.kind # "transaction" => r.item.id \in handed')
  BY <1>6
<1>20. Steps(g, r, t, Zero, Zero, m)
  BY <1>2, <1>3, <1>5, <1>6, <1>9, <1>10, <1>11, <1>12, <1>13, <1>14, ZeroCounts DEF Steps
<1> QED
  BY <1>20, StepHolds

LEMMA ItsSpans ==
  ASSUME ClientInv, NEW g \in Goroutine, call[g] # NoCall
  PROVE  /\ \A n \in SpansAfter(g) : n \in Nat /\ (call[g].item.kind = "transaction" \/ n = call[g].item.spans)
         /\ call[g].item.spans \in Nat
<1>1. call[g].item \in WItem /\ MaxSpans \in Nat
  BY CallIs, ClientAssumption DEF ClientAssumption
<1>2. call[g].item.spans \in Nat
  BY <1>1 DEF WItem
<1> QED
  BY <1>1, <1>2 DEF SpansAfter, item

LEMMA ItemTold ==
  ASSUME ClientInv, NEW g \in Goroutine, call[g] # NoCall
  PROVE  /\ Tells(Dropped(item(g)), RecordItem(call[g].item))
         /\ item(g).kind # "transaction" => Tells(Of(item(g).kind, 1), RecordItem(call[g].item))
<1>1. RecordItem(call[g].item) \in Counts /\ call[g].item.kind \in Kind
  BY CallIs
<1>2. Dropped(item(g)) = RecordItem(call[g].item)
  BY DEF Dropped, RecordItem, item
<1>3. ASSUME item(g).kind # "transaction"
      PROVE  Of(item(g).kind, 1) = RecordItem(call[g].item)
  <2>1. GetSpanCount(call[g].item) = 0
    BY <1>3 DEF GetSpanCount, item
  <2> QED
    BY <1>1, <2>1, AndNoSpans DEF RecordItem, item
<1> QED
  BY <1>1, <1>2, <1>3, TellsItself

LEMMA SampleHolds ==
  ASSUME ClientInv, NEW g \in Goroutine, Sample(g)
  PROVE  ClientInv'
<1>1. call[g] # NoCall /\ call[g].at = "sample"
  BY DEF Sample, Is, NoCall
<1>2. CASE item(g).kind \notin {"transaction", "check_in"} /\ Drop(g, Of(item(g).kind, 1))
  BY <1>1, <1>2, ItemTold, DropHolds
<1>3. CASE /\ Goto(g, "chain")
           /\ UNCHANGED <<client, captured, buffer, queue, outcomes, reported, made, left,
                          handed, lastEventID>>
  <2> DEFINE r == [call[g] EXCEPT !.at = "chain"]
  <2>1. call \in [Goroutine -> CallSet]
    BY DEF ClientInv, TypedClient
  <2>2. call' = [call EXCEPT ![g] = r]
    BY <1>3, <2>1 DEF Goto
  <2>3. call[g] \in Call /\ call[g].item \in WItem /\ call[g].item.id \in 0 .. NumItems
        /\ Hand(call[g]) = RecordItem(call[g].item)
    BY <1>1, CallIs
  <2>4. r \in CallSet /\ r.item = call[g].item /\ r.at = "chain" /\ r # NoCall
    <3>1. r \in Call /\ r.item = call[g].item /\ r.at = "chain"
      BY <2>3 DEF Call, CallStage
    <3> HIDE DEF r
    <3>2. r # NoCall
      BY <3>1 DEF NoCall
    <3> QED
      BY <2>3, <3>1, <3>2 DEF CallSet
  <2> HIDE DEF r
  <2>5. Hand(r) = RecordItem(call[g].item)
    BY <2>3, <2>4, WeightFacts DEF Hand, WeightLaws
  <2>6. TypedPast /\ buffer \in BufferSet /\ made \in Counts /\ LastWasHanded
        /\ captured \in 0 .. NumItems /\ lastEventID \in 0 .. NumItems
    BY DEF ClientInv, TypedClient
  <2>7. Took(Zero)
    BY <1>3, <2>6, NothingNoted, NotedIsTaken, ZeroCounts
  <2>8. buffer' \in BufferSet /\ BufferTook(Zero, Zero) /\ MadeOf(Zero)
    BY <1>3, <2>6, BufferStays, NothingMade
  <2>9. \A c \in Category : Hand(r)[c] + Zero[c] + Zero[c] = Hand(call[g])[c] + Zero[c] + Zero[c]
    BY <2>3, <2>5
  <2>10. handed \subseteq handed' /\ lastEventID' \in handed' \cup {0} /\ lastEventID' \in 0 .. NumItems
         /\ captured' \in 0 .. NumItems
    BY <1>3, <2>6 DEF LastWasHanded
  <2>11. r # NoCall /\ r.at = "return" =>
             KeepsEventID(r.way) /\ (r.item.kind # "transaction" => r.item.id \in handed')
    BY <2>4
  <2>20. Steps(g, r, Zero, Zero, Zero, Zero)
    BY <1>3, <2>2, <2>4, <2>7, <2>8, <2>9, <2>10, <2>11, ZeroCounts DEF Steps
  <2> QED
    BY <2>20, StepHolds
<1> QED
  BY <1>2, <1>3 DEF Sample

LEMMA CallbackHolds ==
  ASSUME ClientInv, NEW g \in Goroutine, Is(g, "chain"), Callback(g)
  PROVE  ClientInv'
<1>0. call[g] # NoCall /\ call[g].at = "chain" /\ After(g) \in CallStage \ {"return"}
  BY DEF Is, NoCall, After, CallStage
<1>1. call[g] # NoCall /\ call[g].at # "return" /\ call[g].next \in Nat /\ After(g) \in CallStage \ {"return"}
  BY <1>0, CallIs
<1>2. CASE Drop(g, Dropped(item(g)))
  BY <1>1, <1>2, ItemTold, DropHolds
<1>3. CASE \E n \in SpansAfter(g) : KeepWith(g, n, After(g), call[g].next + 1)
  <2>1. PICK n \in SpansAfter(g) : KeepWith(g, n, After(g), call[g].next + 1)
    BY <1>3
  <2>2. n \in Nat /\ (call[g].item.kind = "transaction" \/ n = call[g].item.spans)
    BY <1>1, ItsSpans
  <2>3. call[g].next + 1 \in Nat /\ call[g].at # "return"
    BY <1>1
  <2> QED
    BY <1>1, <2>1, <2>2, <2>3, KeepHolds
<1> QED
  BY <1>2, <1>3 DEF Callback

LEMMA IntegrationHolds ==
  ASSUME ClientInv, NEW g \in Goroutine, Integration(g)
  PROVE  ClientInv'
<1>0. call[g] # NoCall /\ call[g].at = "chain" /\ After(g) \in CallStage \ {"return"}
  BY DEF Integration, Meets, Is, NoCall, After, CallStage
<1>1. call[g] # NoCall /\ call[g].next + 1 \in Nat /\ After(g) \in CallStage \ {"return"} /\ call[g].at # "return"
  <2>1. call[g].next \in Nat
    BY <1>0, CallIs
  <2> QED
    BY <1>0, <2>1
<1>2. CASE Drop(g, Dropped(item(g)))
  BY <1>1, <1>2, ItemTold, DropHolds
<1>3. CASE KeepWith(g, item(g).spans, After(g), call[g].next + 1)
  <2>1. call[g].item.spans \in Nat
    BY <1>1, ItsSpans
  <2> QED
    BY <1>1, <1>3, <2>1, KeepHolds DEF item
<1> QED
  BY <1>2, <1>3 DEF Integration

LEMMA HookHolds ==
  ASSUME ClientInv, NEW g \in Goroutine, Hook(g)
  PROVE  ClientInv'
<1>0. call[g] # NoCall /\ call[g].at = "hook" /\ "add" \in CallStage \ {"return"}
  BY DEF Hook, Is, NoCall, CallStage
<1>1. call[g] # NoCall /\ call[g].next \in Nat /\ "add" \in CallStage \ {"return"} /\ call[g].at # "return"
  BY <1>0, CallIs
<1>2. CASE Drop(g, Dropped(item(g)))
  BY <1>1, <1>2, ItemTold, DropHolds
<1>3. CASE KeepWith(g, item(g).spans, "add", call[g].next)
  <2>1. call[g].item.spans \in Nat
    BY <1>1, ItsSpans
  <2> QED
    BY <1>1, <1>3, <2>1, KeepHolds DEF item
<1>4. CASE \E n \in SpansAfter(g) : KeepWith(g, n, "add", call[g].next)
  <2>1. PICK n \in SpansAfter(g) : KeepWith(g, n, "add", call[g].next)
    BY <1>4
  <2>2. n \in Nat /\ (call[g].item.kind = "transaction" \/ n = call[g].item.spans)
    BY <1>1, ItsSpans
  <2> QED
    BY <1>1, <2>1, <2>2, KeepHolds
<1> QED
  BY <1>2, <1>3, <1>4 DEF Hook

-----------------------------------------------------------------------------
\* g hands its item over: what it had in hand is taken by the buffers or the rest.
LEMMA HandOverHolds ==
  ASSUME ClientInv, NEW g \in Goroutine, Is(g, "add"), GiveId(g),
         NEW t \in Counts, NEW v \in Counts, NEW w \in Counts,
         Took(t), buffer' \in BufferSet, BufferTook(w, v),
         \A c \in Category : v[c] + t[c] = RecordItem(item(g))[c] + w[c]
  PROVE  ClientInv'
<1> DEFINE r == IF KeepsEventID(call[g].way) THEN [call[g] EXCEPT !.at = "return"] ELSE NoCall
<1>1. call[g] # NoCall /\ call[g].at = "add"
  BY DEF Is, NoCall
<1>2. /\ call[g] \in Call /\ call[g].item \in WItem /\ call[g].item.id \in 0 .. NumItems
      /\ KeepsEventID(call[g].way) => call[g].item.kind \in {"error", "transaction"}
      /\ Hand(call[g]) = RecordItem(call[g].item) /\ RecordItem(call[g].item) \in Counts
  BY <1>1, CallIs
<1>3. call \in [Goroutine -> CallSet]
  BY DEF ClientInv, TypedClient
<1>4. call' = [call EXCEPT ![g] = r]
  BY <1>3 DEF GiveId
<1>5. handed' = IF call[g].item.kind = "error" THEN handed \cup {call[g].item.id} ELSE handed
  BY DEF GiveId, item
<1>6. /\ r \in CallSet /\ (r # NoCall => r.at = "return")
      /\ r # NoCall /\ r.at = "return" =>
           KeepsEventID(r.way) /\ (r.item.kind # "transaction" => r.item.id \in handed')
  <2>1. CASE KeepsEventID(call[g].way)
    <3>1. r = [call[g] EXCEPT !.at = "return"]
      BY <2>1
    <3> HIDE DEF r
    <3>2. r \in Call /\ r.item = call[g].item /\ r.at = "return" /\ r.way = call[g].way
      BY <1>2, <3>1 DEF Call, CallStage
    <3> QED
      BY <1>2, <1>5, <2>1, <3>2 DEF CallSet
  <2>2. CASE ~KeepsEventID(call[g].way)
    <3>1. r = NoCall
      BY <2>2
    <3> HIDE DEF r
    <3> QED
      BY <3>1 DEF CallSet
  <2> QED
    BY <2>1, <2>2
<1> HIDE DEF r
<1>7. Hand(r) = Zero
  BY <1>6 DEF Hand
<1>8. made \in Counts /\ LastWasHanded /\ captured \in 0 .. NumItems /\ lastEventID \in 0 .. NumItems
  BY DEF ClientInv, TypedClient
<1>9. UNCHANGED <<client, captured, made, lastEventID>>
  BY DEF GiveId
<1>10. handed \subseteq handed' /\ lastEventID' \in handed' \cup {0} /\ lastEventID' \in 0 .. NumItems
       /\ captured' \in 0 .. NumItems
  BY <1>5, <1>8, <1>9 DEF LastWasHanded
<1>11. MadeOf(Zero)
  BY <1>8, <1>9, NothingMade
<1>12. \A c \in Category : Hand(r)[c] + v[c] + t[c] = Hand(call[g])[c] + w[c] + Zero[c]
  <2>1. item(g) = call[g].item
    BY DEF item
  <2> QED
    BY <1>2, <1>7, <2>1, ZeroCounts, CountNat
<1>20. Steps(g, r, t, v, w, Zero)
  BY <1>4, <1>6, <1>9, <1>10, <1>11, <1>12, ZeroCounts DEF Steps
<1> QED
  BY <1>20, StepHolds

\* A buffer that gives up what weighs w and has what weighs v instead.
LEMMA BufferIsChanged ==
  ASSUME buffer \in BufferSet, NEW k \in Kind, NEW s \in Seq(WItem), buffer' = [buffer EXCEPT ![k] = s],
         Len(s) <= Room[k], \A i \in 1 .. Len(s) : s[i].kind = k
  PROVE  /\ buffer' \in BufferSet /\ BufferTook(Weight(buffer[k]), Weight(s))
         /\ Weight(s) \in Counts /\ Weight(buffer[k]) \in Counts
<1>1. buffer \in [Kind -> Seq(WItem)]
  BY DEF BufferSet
<1>2. BufferMoves(buffer, k, s)
  BY <1>1, BufferChanged
<1>3. buffer' \in BufferSet
  BY <1>1 DEF BufferSet
<1> QED
  BY <1>1, <1>2, <1>3, WeightFacts DEF BufferTook, BufferMoves, WeightLaws

LEMMA AppendKinds ==
  ASSUME NEW s \in Seq(WItem), NEW x \in WItem, \A i \in 1 .. Len(s) : s[i].kind = x.kind
  PROVE  /\ Append(s, x) \in Seq(WItem) /\ Len(Append(s, x)) = Len(s) + 1
         /\ \A i \in 1 .. Len(Append(s, x)) : Append(s, x)[i].kind = x.kind
OBVIOUS

LEMMA AddHolds ==
  ASSUME ClientInv, NEW g \in Goroutine, Add(g)
  PROVE  ClientInv'
<1> DEFINE x == item(g)
           ring == buffer[x.kind]
<1>1. Is(g, "add") /\ GiveId(g) /\ UNCHANGED <<queue, left>> /\ OfferItem(x) /\ UNCHANGED client
  BY DEF Add, GiveId
<1>2. call[g] # NoCall
  BY <1>1 DEF Is, NoCall
<1>3. x \in WItem /\ x.kind \in Kind /\ RecordItem(x) \in Counts
  BY <1>2, CallIs DEF item
<1>4. TypedPast /\ buffer \in BufferSet
  BY DEF ClientInv, TypedClient
<1>5. ring \in Seq(WItem) /\ Len(ring) <= Room[x.kind] /\ Room[x.kind] \in Nat \ {0}
      /\ \A i \in 1 .. Len(ring) : ring[i].kind = x.kind
  BY <1>3, <1>4, ClientAssumption DEF BufferSet, ClientAssumption
<1> DEFINE w == Weight(ring)
<1>6. CASE Len(ring) = Room[x.kind]
  <2> DEFINE s == Append(Tail(ring), x)
             v == Weight(s)
             t == RecordItem(Head(ring))
  <2>1. buffer' = [buffer EXCEPT ![x.kind] = s] /\ Record(t)
    BY <1>1, <1>6 DEF OfferItem
  <2>2. Tail(ring) \in Seq(WItem) /\ Head(ring) \in WItem /\ Len(Tail(ring)) = Len(ring) - 1
        /\ \A i \in 1 .. Len(Tail(ring)) : Tail(ring)[i].kind = x.kind
    BY <1>5, <1>6
  <2>3. s \in Seq(WItem) /\ Len(s) = Len(ring) /\ \A i \in 1 .. Len(s) : s[i].kind = x.kind
    <3>1. Len(s) = Len(Tail(ring)) + 1
      BY <1>3, <2>2, AppendKinds
    <3>2. Len(ring) \in Nat
      BY <1>5
    <3> QED
      BY <1>3, <2>2, <3>1, <3>2, AppendKinds
  <2>4. v = Weight(Tail(ring)) ++ RecordItem(x) /\ Weight(Tail(ring)) \in Counts
    BY <1>3, <2>2, WeightFacts DEF WeightLaws
  <2>5. \A c \in Category : w[c] = t[c] + Weight(Tail(ring))[c]
    BY <1>5, <1>6, WeightHead
  <2>6. t \in Counts
    BY <2>2, RecordItemCounts DEF ItemCounts
  <2>7. buffer' \in BufferSet /\ BufferTook(w, v) /\ v \in Counts /\ w \in Counts
    <3> HIDE DEF s, x
    <3> QED
      BY <1>3, <1>4, <1>5, <2>1, <2>3, BufferIsChanged
  <2>8. Took(t)
    BY <1>1, <1>4, <2>1, <2>6, TellsItself, RecordNotes, NotedIsTaken
  <2>9. \A c \in Category : v[c] + t[c] = RecordItem(x)[c] + w[c]
    <3> HIDE DEF v, w, t
    <3>1. \A c \in Category : v[c] = Weight(Tail(ring))[c] + RecordItem(x)[c]
      BY <1>3, <2>4, PlusCounts
    <3>2. \A c \in Category : Weight(Tail(ring))[c] \in Nat /\ RecordItem(x)[c] \in Nat /\ t[c] \in Nat
      BY <1>3, <2>4, <2>6, CountNat
    <3> QED
      BY <2>5, <3>1, <3>2
  <2> HIDE DEF v, w, t
  <2> QED
    BY <1>1, <2>6, <2>7, <2>8, <2>9, HandOverHolds
<1>7. CASE Len(ring) # Room[x.kind]
  <2> DEFINE s == Append(ring, x)
             v == Weight(s)
  <2>1. buffer' = [buffer EXCEPT ![x.kind] = s] /\ UNCHANGED <<outcomes, reported>>
    BY <1>1, <1>7 DEF OfferItem
  <2>2. s \in Seq(WItem) /\ Len(s) = Len(ring) + 1 /\ \A i \in 1 .. Len(s) : s[i].kind = x.kind
    BY <1>3, <1>5, AppendKinds
  <2>3. Len(s) <= Room[x.kind]
    <3> HIDE DEF s
    <3>1. Len(ring) \in Nat
      BY <1>5
    <3> QED
      BY <1>5, <1>7, <2>2, <3>1
  <2>4. v = w ++ RecordItem(x)
    BY <1>3, <1>5, WeightFacts DEF WeightLaws
  <2>5. buffer' \in BufferSet /\ BufferTook(w, v) /\ v \in Counts /\ w \in Counts
    <3> HIDE DEF s, x
    <3> QED
      BY <1>3, <1>4, <2>1, <2>2, <2>3, BufferIsChanged
  <2>6. Took(Zero)
    BY <1>1, <1>4, <2>1, NothingNoted, NotedIsTaken, ZeroCounts
  <2>7. \A c \in Category : v[c] + Zero[c] = RecordItem(x)[c] + w[c]
    <3> HIDE DEF v, w
    <3>1. \A c \in Category : v[c] = w[c] + RecordItem(x)[c]
      BY <1>3, <2>4, <2>5, PlusCounts
    <3>2. \A c \in Category : w[c] \in Nat /\ RecordItem(x)[c] \in Nat
      BY <1>3, <2>5, CountNat
    <3> QED
      BY <3>1, <3>2, ZeroCounts
  <2> HIDE DEF v, w
  <2> QED
    BY <1>1, <2>5, <2>6, <2>7, HandOverHolds, ZeroCounts
<1> QED
  BY <1>6, <1>7

LEMMA AddToBatchHolds ==
  ASSUME ClientInv, NEW g \in Goroutine, AddToBatch(g)
  PROVE  ClientInv'
<1> DEFINE x == item(g)
           ring == buffer[x.kind]
<1>1. Is(g, "add") /\ x.kind \in Batched
  BY DEF AddToBatch
<1>2. call[g] # NoCall /\ call[g].at # "return"
  BY <1>1 DEF Is, NoCall
<1>3. x \in WItem /\ x.kind \in Kind /\ RecordItem(x) \in Counts
  BY <1>2, CallIs DEF item
<1>4. TypedPast /\ buffer \in BufferSet
  BY DEF ClientInv, TypedClient
<1>5. ring \in Seq(WItem) /\ Len(ring) <= Room[x.kind] /\ Room[x.kind] \in Nat \ {0}
      /\ \A i \in 1 .. Len(ring) : ring[i].kind = x.kind
  BY <1>3, <1>4, ClientAssumption DEF BufferSet, ClientAssumption
<1>6. CASE Len(ring) = Room[x.kind]
  <2>1. Drop(g, Of(x.kind, 1))
    BY <1>6 DEF AddToBatch
  <2>2. Tells(Of(x.kind, 1), RecordItem(call[g].item))
    BY <1>1, <1>2, ItemTold DEF Batched
  <2> HIDE DEF x
  <2> QED
    BY <1>2, <2>1, <2>2, DropHolds
<1>7. CASE Len(ring) # Room[x.kind]
  <2> DEFINE s == Append(ring, x)
             v == Weight(s)
             w == Weight(ring)
  <2>1. buffer' = [buffer EXCEPT ![x.kind] = s] /\ UNCHANGED <<queue, outcomes, reported, left>> /\ GiveId(g)
    <3>1. buffer' = [buffer EXCEPT ![x.kind] = Append(@, x)] /\ UNCHANGED <<queue, outcomes, reported, left>> /\ GiveId(g)
      BY <1>7 DEF AddToBatch
    <3>2. buffer \in [Kind -> Seq(WItem)]
      BY <1>4 DEF BufferSet
    <3> QED
      BY <1>3, <3>1, <3>2
  <2>2. s \in Seq(WItem) /\ Len(s) = Len(ring) + 1 /\ \A i \in 1 .. Len(s) : s[i].kind = x.kind
    BY <1>3, <1>5, AppendKinds
  <2>3. Len(s) <= Room[x.kind]
    <3> HIDE DEF s
    <3>1. Len(ring) \in Nat
      BY <1>5
    <3> QED
      BY <1>5, <1>7, <2>2, <3>1
  <2>4. v = w ++ RecordItem(x)
    BY <1>3, <1>5, WeightFacts DEF WeightLaws
  <2>5. buffer' \in BufferSet /\ BufferTook(w, v) /\ v \in Counts /\ w \in Counts
    <3> HIDE DEF s, x
    <3> QED
      BY <1>3, <1>4, <2>1, <2>2, <2>3, BufferIsChanged
  <2>6. Took(Zero)
    BY <1>4, <2>1, NothingNoted, NotedIsTaken, ZeroCounts
  <2>7. \A c \in Category : v[c] + Zero[c] = RecordItem(x)[c] + w[c]
    <3> HIDE DEF v, w
    <3>1. \A c \in Category : v[c] = w[c] + RecordItem(x)[c]
      BY <1>3, <2>4, <2>5, PlusCounts
    <3>2. \A c \in Category : w[c] \in Nat /\ RecordItem(x)[c] \in Nat
      BY <1>3, <2>5, CountNat
    <3> QED
      BY <3>1, <3>2, ZeroCounts
  <2> HIDE DEF v, w
  <2> QED
    BY <1>1, <2>1, <2>5, <2>6, <2>7, HandOverHolds, ZeroCounts
<1> QED
  BY <1>6, <1>7

LEMMA SendEventHolds ==
  ASSUME ClientInv, NEW g \in Goroutine, SendEvent(g)
  PROVE  ClientInv'
<1> DEFINE x == item(g)
<1>1. Is(g, "add") /\ x.kind \notin Batched /\ Send(<<x>>) /\ UNCHANGED buffer /\ GiveId(g)
  BY DEF SendEvent
<1>2. call[g] # NoCall /\ call[g].at # "return"
  BY <1>1 DEF Is, NoCall
<1>3. x \in WItem /\ RecordItem(x) \in Counts /\ Weight(<<x>>) = RecordItem(x)
  BY <1>2, CallIs DEF item
<1>4. TypedPast /\ buffer \in BufferSet
  BY DEF ClientInv, TypedClient
<1> HIDE DEF x
<1>5. <<x>> \in Parcel
  <2>1. <<x>> \in Seq(WItem) /\ Len(<<x>>) = 1 /\ <<x>>[1] = x
    BY <1>3
  <2> QED
    BY <2>1 DEF Parcel
<1>6. Took(RecordItem(x))
  BY <1>1, <1>3, <1>4, <1>5, SendTakes
<1>7. buffer' \in BufferSet /\ BufferTook(Zero, Zero)
  BY <1>1, <1>4, BufferStays
<1>8. \A c \in Category : Zero[c] + RecordItem(x)[c] = RecordItem(item(g))[c] + Zero[c]
  <2>1. \A c \in Category : RecordItem(x)[c] \in Nat
    BY <1>3, CountNat
  <2> QED
    BY <2>1, ZeroCounts DEF x
<1> QED
  BY <1>1, <1>3, <1>6, <1>7, <1>8, HandOverHolds, ZeroCounts

LEMMA ReturnIdHolds ==
  ASSUME ClientInv, NEW g \in Goroutine, ReturnId(g)
  PROVE  ClientInv'
<1> DEFINE r == NoCall
<1>1. /\ call' = [call EXCEPT ![g] = r]
      /\ UNCHANGED <<client, captured, made, handed, buffer, queue, outcomes, reported, left>>
      /\ lastEventID' = IF item(g).kind = "transaction" THEN lastEventID ELSE item(g).id
  BY DEF ReturnId
<1>2. call[g] # NoCall /\ call[g].at = "return" /\ item(g).id \in 0 .. NumItems
      /\ (item(g).kind # "transaction" => item(g).id \in handed)
  <2>1. Is(g, "return") /\ call[g] # NoCall
    BY DEF ReturnId, Is, NoCall
  <2> QED
    BY <2>1, CallIs DEF ClientInv, IdsHanded, Is, item
<1>3. TypedPast /\ buffer \in BufferSet /\ made \in Counts /\ LastWasHanded
      /\ captured \in 0 .. NumItems /\ lastEventID \in 0 .. NumItems
  BY DEF ClientInv, TypedClient
<1>4. r \in CallSet /\ Hand(r) = Zero /\ Hand(call[g]) = Zero
  BY <1>2 DEF CallSet, Hand
<1>5. Took(Zero)
  BY <1>1, <1>3, NothingNoted, NotedIsTaken, ZeroCounts
<1>6. buffer' \in BufferSet /\ BufferTook(Zero, Zero) /\ MadeOf(Zero)
  BY <1>1, <1>3, BufferStays, NothingMade
<1>7. \A c \in Category : Hand(r)[c] + Zero[c] + Zero[c] = Hand(call[g])[c] + Zero[c] + Zero[c]
  BY <1>4
<1>8. handed \subseteq handed' /\ lastEventID' \in handed' \cup {0} /\ lastEventID' \in 0 .. NumItems
      /\ captured' \in 0 .. NumItems
  BY <1>1, <1>2, <1>3 DEF LastWasHanded
<1>9. r # NoCall /\ r.at = "return" =>
           KeepsEventID(r.way) /\ (r.item.kind # "transaction" => r.item.id \in handed')
  OBVIOUS
<1> HIDE DEF r
<1>20. Steps(g, r, Zero, Zero, Zero, Zero)
  BY <1>1, <1>4, <1>5, <1>6, <1>7, <1>8, <1>9, ZeroCounts DEF Steps
<1> QED
  BY <1>20, StepHolds

LEMMA BeginHolds ==
  ASSUME ClientInv, NEW g \in Goroutine, NEW capture \in Captures, Begin(g, capture)
  PROVE  ClientInv'
<1> DEFINE x == NewItem(capture)
           r == [item |-> x, way |-> capture.way, next |-> 1,
                 at |-> IF capture.kind \in Batched THEN "hook" ELSE "sample"]
           m == RecordItem(x)
<1>1. /\ Is(g, "idle") /\ captured < NumItems /\ captured' = captured + 1
      /\ call' = [call EXCEPT ![g] = r] /\ made' = made ++ Weight(<<x>>)
      /\ UNCHANGED <<client, buffer, queue, outcomes, reported, left, handed, lastEventID>>
  BY DEF Begin
<1>2. TypedPast /\ buffer \in BufferSet /\ made \in Counts /\ LastWasHanded
      /\ captured \in 0 .. NumItems /\ lastEventID \in 0 .. NumItems /\ call[g] \in CallSet
  BY DEF ClientInv, TypedClient
<1>3. call[g] = NoCall
  BY <1>1, <1>2 DEF Is, CallSet, Call, CallStage
<1>4. /\ capture \in [kind : Kind, way : STRING, spans : Nat, match : STRING]
      /\ capture.kind = "transaction" \/ capture.spans = 0
      /\ KeepsEventID(capture.way) => capture.kind \in {"error", "transaction"}
      /\ NumItems \in Nat
  BY ClientAssumption, CapturesAssumption DEF ClientAssumption, CapturesAssumption
<1>5. x \in WItem /\ x.id \in 0 .. NumItems /\ x.kind = capture.kind
  BY <1>1, <1>2, <1>4 DEF NewItem, WItem
<1>6. m \in Counts /\ Weight(<<x>>) = m
  BY <1>5, RecordItemCounts, WeightFacts DEF ItemCounts, WeightLaws
<1> HIDE DEF x
<1>7. r \in CallSet /\ r.item = x /\ r.at # "return" /\ r # NoCall
  <2>1. r \in Call /\ r.item = x /\ r.at \in CallStage \ {"return"}
    BY <1>4, <1>5 DEF Call, CallStage
  <2> HIDE DEF r
  <2>2. r # NoCall
    BY <2>1 DEF NoCall, CallStage
  <2> QED
    BY <1>5, <2>1, <2>2 DEF CallSet
<1> HIDE DEF r, m
<1>8. Hand(r) = m /\ Hand(call[g]) = Zero
  BY <1>3, <1>6, <1>7 DEF Hand
<1>9. Took(Zero)
  BY <1>1, <1>2, NothingNoted, NotedIsTaken, ZeroCounts
<1>10. buffer' \in BufferSet /\ BufferTook(Zero, Zero)
  BY <1>1, <1>2, BufferStays
<1>11. MadeOf(m)
  BY <1>1, <1>2, <1>6, PlusCounts DEF MadeOf
<1>12. \A c \in Category : Hand(r)[c] + Zero[c] + Zero[c] = Hand(call[g])[c] + Zero[c] + m[c]
  BY <1>6, <1>8, ZeroCounts, CountNat
<1>13. handed \subseteq handed' /\ lastEventID' \in handed' \cup {0} /\ lastEventID' \in 0 .. NumItems
       /\ captured' \in 0 .. NumItems
  BY <1>1, <1>2, <1>4 DEF LastWasHanded
<1>14. r # NoCall /\ r.at = "return" =>
           KeepsEventID(r.way) /\ (r.item.kind # "transaction" => r.item.id \in handed')
  BY <1>7
<1>20. Steps(g, r, Zero, Zero, Zero, m)
  BY <1>1, <1>6, <1>7, <1>9, <1>10, <1>11, <1>12, <1>13, <1>14, ZeroCounts DEF Steps
<1> QED
  BY <1>20, StepHolds

-----------------------------------------------------------------------------
LEMMA ForwardHolds ==
  ASSUME ClientInv, NEW k \in Kind, NEW n \in 1 .. Room[k], Forward(k, n)
  PROVE  ClientInv'
<1> DEFINE ring == buffer[k]
           batch == SubSeq(ring, 1, n)
           s == SubSeq(ring, n + 1, Len(ring))
<1>1. /\ n <= Len(ring) /\ (k \notin Batched => n = 1)
      /\ buffer' = [buffer EXCEPT ![k] = SubSeq(@, n + 1, Len(@))]
      /\ \/ Send(batch)
         \/ Record(Total([i \in DOMAIN batch |-> RecordItem(batch[i])])) /\ UNCHANGED <<queue, left>>
      /\ UNCHANGED Rest
  BY DEF Forward
<1>2. TypedPast /\ buffer \in BufferSet /\ buffer \in [Kind -> Seq(WItem)]
  BY DEF ClientInv, TypedClient, BufferSet
<1>3. ring \in Seq(WItem) /\ Len(ring) <= Room[k] /\ Room[k] \in Nat \ {0} /\ Len(ring) \in Nat /\ n \in Nat \ {0}
      /\ \A i \in 1 .. Len(ring) : ring[i].kind = k
  BY <1>2, ClientAssumption DEF BufferSet, ClientAssumption
<1>4. buffer' = [buffer EXCEPT ![k] = s]
  BY <1>1, <1>2
<1> HIDE DEF ring
<1>5. batch \in Seq(WItem) /\ Len(batch) = n /\ \A i \in 1 .. n : batch[i] = ring[i]
  BY <1>1, <1>3
<1>6. s \in Seq(WItem) /\ Len(s) = Len(ring) - n /\ \A i \in 1 .. Len(s) : s[i] = ring[n + i]
  BY <1>1, <1>3
<1>7. \A c \in Category : Weight(ring)[c] = Weight(batch)[c] + Weight(s)[c]
  <2>1. n \in 0 .. Len(ring)
    BY <1>1, <1>3
  <2> QED
    BY <1>3, <2>1, WeightCut DEF WeightOfParts
<1> HIDE DEF batch, s
<1>8. batch \in Parcel
  <2>1. \A i \in 1 .. n : batch[i].kind = k
    BY <1>1, <1>3, <1>5
  <2>2. batch[1].kind = k
    BY <1>3, <2>1
  <2> QED
    BY <1>1, <1>3, <1>5, <2>1, <2>2 DEF Parcel
<1>9. Weight(batch) \in Counts
  BY <1>5, WeightFacts DEF WeightLaws
<1>10. Took(Weight(batch))
  <2>1. CASE Send(batch)
    BY <1>2, <1>8, <2>1, SendTakes
  <2>2. CASE Record(Total([i \in DOMAIN batch |-> RecordItem(batch[i])])) /\ UNCHANGED <<queue, left>>
    <3>1. Record(Weight(batch))
      BY <1>5, <2>2, RecordedOneByOne
    <3> QED
      BY <1>2, <1>9, <2>2, <3>1, TellsItself, RecordNotes, NotedIsTaken
  <2> QED
    BY <1>1, <2>1, <2>2
<1>11. buffer' \in BufferSet /\ BufferTook(Weight(ring), Weight(s)) /\ Weight(s) \in Counts /\ Weight(ring) \in Counts
  <2>1. Len(s) <= Room[k]
    BY <1>3, <1>6
  <2>2. \A i \in 1 .. Len(s) : s[i].kind = k
    <3>1. \A i \in 1 .. Len(s) : n + i \in 1 .. Len(ring)
      BY <1>1, <1>3, <1>6
    <3> QED
      BY <1>3, <1>6, <3>1
  <2> QED
    BY <1>2, <1>4, <1>6, <2>1, <2>2, BufferIsChanged DEF ring
<1>12. \A c \in Category : Weight(s)[c] + Weight(batch)[c] = Weight(ring)[c]
  BY <1>7, <1>9, <1>11, CountNat
<1> DEFINE t == Weight(batch)
           v == Weight(s)
           w == Weight(ring)
<1>13. t \in Counts /\ v \in Counts /\ w \in Counts /\ Took(t) /\ BufferTook(w, v)
       /\ \A c \in Category : v[c] + t[c] = w[c]
  BY <1>9, <1>10, <1>11, <1>12
<1> HIDE DEF t, v, w
<1> QED
  BY <1>1, <1>11, <1>13, RestHolds

LEMMA DeliverHolds ==
  ASSUME ClientInv, Deliver
  PROVE  ClientInv'
<1>1. TypedPast /\ buffer \in BufferSet /\ UNCHANGED <<buffer, Rest>>
  BY DEF ClientInv, TypedClient, Deliver
<1>2. Took(Zero)
  BY <1>1, DeliverTakes
<1>3. buffer' \in BufferSet /\ BufferTook(Zero, Zero)
  BY <1>1, BufferStays
<1>4. \A c \in Category : Zero[c] + Zero[c] = Zero[c]
  BY ZeroCounts
<1> QED
  BY <1>1, <1>2, <1>3, <1>4, RestHolds, ZeroCounts

LEMMA SendReportHolds ==
  ASSUME ClientInv, SendClientReport
  PROVE  ClientInv'
<1>1. TypedPast /\ buffer \in BufferSet /\ UNCHANGED <<buffer, queue, left>> /\ UNCHANGED Rest /\ TakeReport
  BY DEF ClientInv, TypedClient, SendClientReport
<1>2. Took(Zero)
  BY <1>1, TakeReportNotes, NotedIsTaken, ZeroCounts
<1>3. buffer' \in BufferSet /\ BufferTook(Zero, Zero)
  BY <1>1, BufferStays
<1>4. \A c \in Category : Zero[c] + Zero[c] = Zero[c]
  BY ZeroCounts
<1> QED
  BY <1>1, <1>2, <1>3, <1>4, RestHolds, ZeroCounts

LEMMA ClientStays ==
  ASSUME ClientInv, UNCHANGED clientVars
  PROVE  ClientInv'
<1>1. /\ UNCHANGED <<client, captured, call, buffer, queue, outcomes, reported, made, left, handed, lastEventID>>
  BY DEF clientVars
<1>2. TypedPast /\ buffer \in BufferSet /\ UNCHANGED Rest
  BY <1>1 DEF ClientInv, TypedClient, Rest
<1>3. Took(Zero)
  BY <1>1, <1>2, NothingNoted, NotedIsTaken, ZeroCounts
<1>4. buffer' \in BufferSet /\ BufferTook(Zero, Zero)
  BY <1>1, <1>2, BufferStays
<1>5. \A c \in Category : Zero[c] + Zero[c] = Zero[c]
  BY ZeroCounts
<1> QED
  BY <1>2, <1>3, <1>4, <1>5, RestHolds, ZeroCounts

LEMMA ClientStepHolds == ClientInv /\ [ClientNext]_clientVars => ClientInv'
<1> SUFFICES ASSUME ClientInv, [ClientNext]_clientVars
             PROVE  ClientInv'
  OBVIOUS
<1>1. ASSUME NEW g \in Goroutine, Step(g)
      PROVE  ClientInv'
  <2>1. CASE Sample(g)
    BY <2>1, SampleHolds
  <2>2. CASE ApplyToEvent(g)
    BY <2>2, CallbackHolds DEF ApplyToEvent, Meets
  <2>3. CASE Integration(g)
    BY <2>3, IntegrationHolds
  <2>4. CASE PrepareEvent(g)
    BY <2>4, CallbackHolds DEF PrepareEvent, Meets
  <2>5. CASE Hook(g)
    BY <2>5, HookHolds
  <2>6. CASE Add(g)
    BY <2>6, AddHolds
  <2>7. CASE AddToBatch(g)
    BY <2>7, AddToBatchHolds
  <2>8. CASE SendEvent(g)
    BY <2>8, SendEventHolds
  <2>9. CASE ReturnId(g)
    BY <2>9, ReturnIdHolds
  <2> QED
    BY <1>1, <2>1, <2>2, <2>3, <2>4, <2>5, <2>6, <2>7, <2>8, <2>9 DEF Step
<1>2. ASSUME NEW g \in Goroutine, NEW capture \in Captures, Begin(g, capture)
      PROVE  ClientInv'
  BY <1>2, BeginHolds
<1>3. ASSUME NEW k \in Kind, NEW n \in 1 .. Room[k], Forward(k, n)
      PROVE  ClientInv'
  BY <1>3, ForwardHolds
<1>4. CASE Deliver
  BY <1>4, DeliverHolds
<1>5. CASE SendClientReport
  BY <1>5, SendReportHolds
<1>6. CASE UNCHANGED clientVars
  BY <1>6, ClientStays
<1> QED
  BY <1>1, <1>2, <1>3, <1>4, <1>5, <1>6 DEF ClientNext

LEMMA ClientInvSays == ClientInv => ClientAccounted /\ LastWasHanded
<1> SUFFICES ASSUME ClientInv
             PROVE  ClientAccounted /\ LastWasHanded
  OBVIOUS
<1>1. TypedClient /\ Balanced /\ LastWasHanded
  BY DEF ClientInv
<1>2. ClientTypeOK
  BY <1>1 DEF ClientTypeOK, TypedClient, TypedPast, BufferSet, CallSet, Call, CallStage, Capturing
<1> DEFINE h == Held
           accounted == h ++ left ++ outcomes ++ reported
<1>3. /\ h \in Counts
      /\ \A c \in Category : h[c] = Buffered(buffer)[c] + Waiting(queue)[c] + Called(call)[c]
  BY <1>1, HeldIs DEF TypedClient, TypedPast, BufferSet
<1> HIDE DEF h
<1>4. left \in Counts /\ outcomes \in Counts /\ reported \in Counts /\ made \in Counts
  BY <1>1 DEF TypedClient, TypedPast
<1>5. \A c \in Category : accounted[c] = h[c] + left[c] + outcomes[c] + reported[c]
  <2>1. h ++ left \in Counts /\ \A c \in Category : (h ++ left)[c] = h[c] + left[c]
    BY <1>3, <1>4, PlusCounts
  <2> DEFINE hl == h ++ left
  <2>2. hl ++ outcomes \in Counts /\ \A c \in Category : (hl ++ outcomes)[c] = hl[c] + outcomes[c]
    BY <1>4, <2>1, PlusCounts
  <2> DEFINE hlo == hl ++ outcomes
  <2>3. hlo ++ reported \in Counts /\ \A c \in Category : (hlo ++ reported)[c] = hlo[c] + reported[c]
    BY <1>4, <2>2, PlusCounts
  <2> QED
    BY <2>1, <2>2, <2>3
<1>6. \A c \in Category : accounted[c] = Everywhere(c)
  <2>1. \A c \in Category : /\ Buffered(buffer)[c] \in Nat /\ Waiting(queue)[c] \in Nat /\ Called(call)[c] \in Nat
                            /\ left[c] \in Nat /\ outcomes[c] \in Nat /\ reported[c] \in Nat
    BY <1>1, <1>4, BufferedIs, CalledType, WaitingFacts, CountNat
    DEF TypedClient, TypedPast, BufferSet, WaitingLaws
  <2> HIDE DEF accounted
  <2> QED
    BY <1>3, <1>5, <2>1 DEF Everywhere, Past
<1>7. "trace_metric" \in Category
  BY DEF Category, Kind, Batched
<1>8. /\ client.reports => \A c \in Category \ {"trace_metric"} : made[c] = accounted[c]
      /\ accounted["trace_metric"] <= made["trace_metric"]
  <2> HIDE DEF accounted
  <2> QED
    BY <1>1, <1>6, <1>7 DEF Balanced
<1>9. ClientAccounted
  BY <1>2, <1>8 DEF ClientAccounted, h
<1> QED
  BY <1>1, <1>9

\* Whatever the options, the transport and the callbacks, and however many goroutines capture:
\* what was captured is on its way, has left, is counted or has been reported, each item and
\* each span once, whichever of the ways to derive the counts was taken (client.go, scope.go,
\* integrations.go, report/aggregator.go).
THEOREM CapturesAccounted == ClientSpec => []ClientAccounted
<1>1. ClientInit => ClientInv
  BY ClientInitHolds
<1>2. ClientInv /\ [ClientNext]_clientVars => ClientInv'
  BY ClientStepHolds
<1>3. ClientInv => ClientAccounted
  BY ClientInvSays
<1> QED
  BY <1>1, <1>2, <1>3, PTL DEF ClientSpec

\* LastEventID is never the id of a transaction or of an event that was dropped on its way to
\* the hand-over (hub.go's captures).
THEOREM LastIdsHanded == ClientSpec => []LastWasHanded
<1>1. ClientInit => ClientInv
  BY ClientInitHolds
<1>2. ClientInv /\ [ClientNext]_clientVars => ClientInv'
  BY ClientStepHolds
<1>3. ClientInv => LastWasHanded
  BY ClientInvSays
<1> QED
  BY <1>1, <1>2, <1>3, PTL DEF ClientSpec

===============================================================================
