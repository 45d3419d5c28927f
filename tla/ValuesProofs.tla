----------------------------- MODULE ValuesProofs -----------------------------
(***************************************************************************)
(* Proofs about Values: lists are the pages that were asked for and the     *)
(* proxy's are its server's; a PATCH changes what it names, and once; what  *)
(* goes to SCIM 1.1 comes back.                                            *)
(*                                                                         *)
(* The recursive functions of the model are loops: Iteration gives each a   *)
(* run, Induction says what it computes.                                   *)
(***************************************************************************)
EXTENDS Values, FiniteSetTheorems, WellFoundedInduction, TLAPS

-----------------------------------------------------------------------------
(* Induction and recursion on numbers.                                      *)

\* A set of natural numbers has a least one.
LEMMA Least ==
  ASSUME NEW S \in SUBSET Nat, S # {}
  PROVE  \E m \in S : \A n \in S : m <= n
<1>1. PICK R : R = {ss \in Nat \X Nat : ss[1] < ss[2]}
  OBVIOUS
<1>2. IsWellFoundedOn(R, Nat)
  BY <1>1, NatLessThanWellFounded DEF OpToRel
<1>3. PICK m \in S : \A y \in S : ~ (<<y, m>> \in R)
  BY <1>2, WFMin
<1>4. ASSUME NEW n \in S PROVE m <= n
  <2>1. ~ (<<n, m>> \in R)
    BY <1>3
  <2>2. n \in Nat /\ m \in Nat /\ <<n, m>> \in Nat \X Nat
    OBVIOUS
  <2>3. ~ (n < m)
    BY <1>1, <2>1, <2>2
  <2> QED
    BY <2>2, <2>3
<1> QED
  BY <1>4

\* What is true of 0, and of n + 1 if it is of n, is true of every number.
LEMMA Induction ==
  ASSUME NEW S, 0 \in S, \A n \in Nat : n \in S => n + 1 \in S
  PROVE  Nat \subseteq S
<1> SUFFICES ASSUME Nat \ S # {} PROVE FALSE
  OBVIOUS
<1>1. PICK m \in Nat \ S : \A n \in Nat \ S : m <= n
  BY Least
<1>2. m - 1 \in Nat /\ m - 1 \in S
  BY <1>1
<1> QED
  BY <1>1, <1>2

\* A loop of N rounds, each of which takes a value of V to one of V.
Rounds(f, N, V, b, h) ==
  /\ f \in [0 .. N -> V]
  /\ f[0] = b
  /\ \A n \in 1 .. N : f[n] = h[n][f[n - 1]]

\* Such a loop has a run.
LEMMA Iteration ==
  ASSUME NEW N \in Nat, NEW V, NEW b \in V, NEW h \in [1 .. N -> [V -> V]]
  PROVE  \E f : Rounds(f, N, V, b, h)
<1> DEFINE S == {n \in Nat : n <= N => \E f : Rounds(f, n, V, b, h)}
<1>1. 0 \in S
  <2>1. PICK f : f = [k \in 0 .. 0 |-> b]
    OBVIOUS
  <2>2. f \in [0 .. 0 -> V] /\ f[0] = b /\ \A k \in 1 .. 0 : f[k] = h[k][f[k - 1]]
    BY <2>1
  <2>3. Rounds(f, 0, V, b, h)
    BY <2>2 DEF Rounds
  <2> QED
    BY <2>3
<1>2. ASSUME NEW n \in Nat, n \in S PROVE n + 1 \in S
  <2> SUFFICES ASSUME n + 1 <= N PROVE \E f : Rounds(f, n + 1, V, b, h)
    OBVIOUS
  <2>1. PICK f : Rounds(f, n, V, b, h)
    BY <1>2
  <2>2. f \in [0 .. n -> V] /\ f[0] = b /\ \A k \in 1 .. n : f[k] = h[k][f[k - 1]]
    BY <2>1 DEF Rounds
  <2>3. PICK v \in V : v = h[n + 1][f[n]]
    BY <2>2
  <2>4. PICK g : g = [k \in 0 .. n + 1 |-> IF k <= n THEN f[k] ELSE v]
    OBVIOUS
  <2>5. g \in [0 .. n + 1 -> V] /\ g[0] = b
    BY <2>2, <2>4
  <2>6. ASSUME NEW k \in 1 .. n + 1 PROVE g[k] = h[k][g[k - 1]]
    <3>1. CASE k <= n
      BY <2>2, <2>4, <3>1
    <3>2. CASE k = n + 1
      <4>1. g[k] = v /\ g[k - 1] = f[n]
        BY <2>4, <3>2
      <4> QED
        BY <2>3, <3>2, <4>1
    <3> QED
      BY <3>1, <3>2
  <2> QED
    BY <2>5, <2>6 DEF Rounds
<1>3. N \in S
  <2> HIDE DEF S
  <2> QED
    BY <1>1, <1>2, Induction
<1> QED
  BY <1>3

-----------------------------------------------------------------------------
(* What Kept keeps.                                                         *)

\* f[n] is what the loop has kept of the first n elements.
Keeps(f, T, s, K) ==
  /\ f \in [0 .. Len(s) -> Seq(T)]
  /\ f[0] = <<>>
  /\ \A n \in 1 .. Len(s) : f[n] = IF n \in K THEN Append(f[n - 1], s[n]) ELSE f[n - 1]
  /\ Kept(s, K) = f[Len(s)]

\* The recursive function of Kept is that loop.
LEMMA KeptLoop ==
  ASSUME NEW T, NEW s \in Seq(T), NEW K
  PROVE  \E f : Keeps(f, T, s, K)
<1>1. PICK N, V, b, h : /\ N = Len(s) /\ V = Seq(T) /\ b = <<>>
                        /\ h = [n \in 1 .. N |-> [v \in V |-> IF n \in K THEN Append(v, s[n]) ELSE v]]
  OBVIOUS
<1>2. N \in Nat /\ b \in V /\ h \in [1 .. N -> [V -> V]]
  BY <1>1
<1>3. PICK f : Rounds(f, N, V, b, h)
  BY <1>2, Iteration
<1>4. f \in [0 .. N -> V] /\ f[0] = <<>>
  BY <1>1, <1>3 DEF Rounds
<1>5. ASSUME NEW n \in 1 .. N
      PROVE  f[n] = IF n \in K THEN Append(f[n - 1], s[n]) ELSE f[n - 1]
  <2>1. f[n] = h[n][f[n - 1]] /\ f[n - 1] \in V
    BY <1>2, <1>3 DEF Rounds
  <2> QED
    BY <1>1, <2>1
<1> DEFINE Loop(g) == g = [n \in 0 .. Len(s) |->
                             IF n = 0 THEN <<>>
                             ELSE IF n \in K THEN Append(g[n - 1], s[n]) ELSE g[n - 1]]
<1>6. Loop(f)
  <2>1. \A n \in 0 .. N : f[n] = IF n = 0 THEN <<>>
                               ELSE IF n \in K THEN Append(f[n - 1], s[n]) ELSE f[n - 1]
    <3>1. ASSUME NEW n \in 0 .. N, n # 0 PROVE n \in 1 .. N
      <4>1. n \in Int /\ 0 <= n /\ n <= N
        BY <1>2
      <4> QED
        BY <1>2, <3>1, <4>1
    <3> QED
      BY <1>4, <1>5, <3>1
  <2>2. DOMAIN f = 0 .. N /\ f = [n \in DOMAIN f |-> f[n]]
    BY <1>4
  <2>3. f = [n \in 0 .. N |-> f[n]]
    BY <2>2
  <2> QED
    BY <1>1, <2>1, <2>3
<1>7. PICK g : g = CHOOSE x : Loop(x)
  OBVIOUS
<1>8. Loop(g)
  <2> HIDE DEF Loop
  <2> QED
    BY <1>6, <1>7
<1>9. Kept(s, K) = g[Len(s)]
  BY <1>7 DEF Kept
<1>10. /\ g[0] = <<>>
       /\ \A n \in 1 .. N : g[n] = IF n \in K THEN Append(g[n - 1], s[n]) ELSE g[n - 1]
       /\ DOMAIN g = 0 .. N
  <2>1. /\ DOMAIN g = 0 .. N
        /\ \A n \in 0 .. N : g[n] = IF n = 0 THEN <<>>
                                 ELSE IF n \in K THEN Append(g[n - 1], s[n]) ELSE g[n - 1]
    BY <1>1, <1>8
  <2>2. 0 \in 0 .. N /\ \A n \in 1 .. N : n \in 0 .. N /\ n # 0
    BY <1>2
  <2> QED
    BY <2>1, <2>2
<1>11. \A n \in 0 .. N : g[n] = f[n]
  <2> DEFINE S == {n \in Nat : n <= N => g[n] = f[n]}
  <2>1. 0 \in S
    BY <1>4, <1>10
  <2>2. ASSUME NEW n \in Nat, n \in S PROVE n + 1 \in S
    <3> SUFFICES ASSUME n + 1 <= N PROVE g[n + 1] = f[n + 1]
      OBVIOUS
    <3>1. g[n] = f[n] /\ n + 1 \in 1 .. N /\ (n + 1) - 1 = n
      BY <1>2, <2>2
    <3> QED
      BY <1>5, <1>10, <3>1
  <2>3. Nat \subseteq S
    <3> HIDE DEF S
    <3> QED
      BY <2>1, <2>2, Induction
  <2> QED
    BY <1>2, <2>3
<1>12. Kept(s, K) = f[Len(s)]
  BY <1>1, <1>2, <1>9, <1>11
<1>13. Keeps(f, T, s, K)
  BY <1>1, <1>4, <1>5, <1>12 DEF Keeps
<1> QED
  BY <1>13

\* The elements at the positions in K, each once, in their order: from tells
\* where the elements of r are from.
Picks(from, r, s, K) ==
  /\ from \in [1 .. Len(r) -> K]
  /\ \A i, j \in 1 .. Len(r) : i < j => from[i] < from[j]
  /\ \A i \in 1 .. Len(r) : r[i] = s[from[i]]
  /\ \A k \in K : \E i \in 1 .. Len(r) : from[i] = k

\* Kept keeps the elements at the positions in K, in their order, and no other.
LEMMA KeptIs ==
  ASSUME NEW T, NEW s \in Seq(T), NEW K \in SUBSET (1 .. Len(s))
  PROVE  Kept(s, K) \in Seq(T) /\ \E from : Picks(from, Kept(s, K), s, K)
<1>1. PICK f : Keeps(f, T, s, K)
  BY KeptLoop
<1>2. /\ f \in [0 .. Len(s) -> Seq(T)] /\ f[0] = <<>>
      /\ \A n \in 1 .. Len(s) : f[n] = IF n \in K THEN Append(f[n - 1], s[n]) ELSE f[n - 1]
      /\ Kept(s, K) = f[Len(s)] /\ Len(s) \in Nat
  BY <1>1 DEF Keeps
<1> DEFINE P(n) == n <= Len(s) => \E from : Picks(from, f[n], s, K \cap 1 .. n)
           S == {n \in Nat : P(n)}
<1>3. P(0)
  <2>1. PICK from : from = [i \in 1 .. 0 |-> 0]
    OBVIOUS
  <2>2. from \in [1 .. 0 -> K \cap 1 .. 0] /\ Len(f[0]) = 0
    BY <1>2, <2>1
  <2>3. Picks(from, f[0], s, K \cap 1 .. 0)
    BY <2>2 DEF Picks
  <2> QED
    BY <2>3
<1>4. ASSUME NEW n \in Nat, P(n) PROVE P(n + 1)
  <2> SUFFICES ASSUME n + 1 <= Len(s) PROVE \E from : Picks(from, f[n + 1], s, K \cap 1 .. (n + 1))
    OBVIOUS
  <2>1. PICK m : m = n + 1
    OBVIOUS
  <2>2. PICK r : r = f[n]
    OBVIOUS
  <2>3. PICK q : q = f[m]
    OBVIOUS
  <2>4. m \in Nat /\ m - 1 = n /\ m \in 1 .. Len(s) /\ n \in 0 .. Len(s)
    BY <1>2, <2>1
  <2>5. r \in Seq(T) /\ Len(r) \in Nat
    <3>1. r \in Seq(T)
      BY <1>2, <2>2, <2>4
    <3> QED
      BY <3>1
  <2>6. q = IF m \in K THEN Append(r, s[m]) ELSE r
    BY <1>2, <2>2, <2>3, <2>4
  <2>7. PICK from : Picks(from, r, s, K \cap 1 .. n)
    <3>1. n <= Len(s)
      BY <1>2, <2>4
    <3> QED
      BY <1>4, <2>2, <3>1
  <2>8. CASE m \notin K
    <3>1. K \cap 1 .. n = K \cap 1 .. m /\ q = r
      BY <2>4, <2>6, <2>8
    <3>2. Picks(from, q, s, K \cap 1 .. m)
      BY <2>7, <3>1
    <3> QED
      BY <2>1, <2>3, <3>2
  <2>9. CASE m \in K
    <3>1. PICK l : l = Len(r)
      OBVIOUS
    <3>2. l \in Nat /\ Len(q) = l + 1 /\ q[l + 1] = s[m] /\ \A i \in 1 .. l : q[i] = r[i]
      BY <2>5, <2>6, <2>9, <3>1
    <3>3. PICK to : to = [i \in 1 .. l + 1 |-> IF i = l + 1 THEN m ELSE from[i]]
      OBVIOUS
    <3>4. \A i \in 1 .. l : from[i] \in K \cap 1 .. n /\ r[i] = s[from[i]]
      BY <2>7, <3>1 DEF Picks
    <3>5. /\ \A i, j \in 1 .. l : i < j => from[i] < from[j]
          /\ \A k \in K \cap 1 .. n : \E i \in 1 .. l : from[i] = k
      BY <2>7, <3>1 DEF Picks
    <3>6. /\ to[l + 1] = m
          /\ \A i \in 1 .. l : to[i] = from[i] /\ to[i] \in K /\ to[i] \in 1 .. n /\ to[i] < m
      BY <2>4, <3>2, <3>3, <3>4
    <3>7. to \in [1 .. l + 1 -> K \cap 1 .. m]
      <4>1. ASSUME NEW i \in 1 .. l + 1 PROVE to[i] \in K \cap 1 .. m
        BY <2>4, <2>9, <3>2, <3>6
      <4> QED
        BY <3>3, <4>1
    <3>8. ASSUME NEW i \in 1 .. l + 1, NEW j \in 1 .. l + 1, i < j PROVE to[i] < to[j]
      <4>1. i \in 1 .. l
        BY <3>2, <3>8
      <4>2. CASE j = l + 1
        BY <3>6, <4>1, <4>2
      <4>3. CASE j # l + 1
        <5>1. j \in 1 .. l
          BY <3>2, <4>3
        <5> QED
          BY <3>5, <3>6, <3>8, <4>1, <5>1
      <4> QED
        BY <4>2, <4>3
    <3>9. ASSUME NEW i \in 1 .. l + 1 PROVE q[i] = s[to[i]]
      BY <3>2, <3>4, <3>6
    <3>10. ASSUME NEW k \in K \cap 1 .. m PROVE \E i \in 1 .. l + 1 : to[i] = k
      <4>1. CASE k = m
        BY <3>2, <3>6, <4>1
      <4>2. CASE k # m
        <5>1. k \in K \cap 1 .. n
          BY <2>4, <4>2
        <5>2. PICK i \in 1 .. l : from[i] = k
          BY <3>5, <5>1
        <5> QED
          BY <3>2, <3>6, <5>2
      <4> QED
        BY <4>1, <4>2
    <3>11. Picks(to, q, s, K \cap 1 .. m)
      BY <3>2, <3>7, <3>8, <3>9, <3>10 DEF Picks
    <3> QED
      BY <2>1, <2>3, <3>11
  <2> QED
    BY <2>8, <2>9
<1>5. P(Len(s))
  <2> HIDE DEF P
  <2>1. 0 \in S /\ \A n \in Nat : n \in S => n + 1 \in S
    BY <1>3, <1>4
  <2>2. Nat \subseteq S
    <3> HIDE DEF S
    <3> QED
      BY <2>1, Induction
  <2> QED
    BY <1>2, <2>2
<1>6. PICK N, r : N = Len(s) /\ r = f[N]
  OBVIOUS
<1>7. PICK L : L = K \cap 1 .. N
  OBVIOUS
<1>8. L = K /\ N <= N
  <2>1. K \subseteq 1 .. N /\ N \in Nat
    BY <1>2, <1>6
  <2>2. L = K
    BY <1>7, <2>1, Zenon
  <2> QED
    BY <2>1, <2>2
<1>9. \E from : Picks(from, r, s, L)
  BY <1>5, <1>6, <1>7, <1>8
<1>10. r = Kept(s, K) /\ r \in Seq(T)
  BY <1>2, <1>6, <1>8
<1> QED
  BY <1>8, <1>9, <1>10

-----------------------------------------------------------------------------
(* Answers are of the inputs.                                               *)

ListAnswer(l) ==
  [direct |-> HandleList(l.all, l.query, l.body, l.sizes),
   proxied |-> ThroughProxy(l.all, l.query, l.body, l.sizes)]

PatchAnswer(p) ==
  LET parsed == ParsePatchRequest(p.ops)
      once == Applied(Done(p.attrs), parsed)
  IN  [parsed |-> parsed, upstream |-> Forwarded(parsed), once |-> once, twice |-> Applied(once, parsed)]

ConvertAnswer(r) == [v1 |-> FromV2(r), v2 |-> ToV2(FromV2(r), "User")]

AnswersAreRight ==
  \/ answer = NoAnswer /\ \E t \in FilterTexts : input = Case("filter", t)
  \/ answer = NoAnswer /\ \E s \in Selections : input = Case("select", s)
  \/ answer.kind \in {"filter", "select"}
  \/ \E p \in Patches :
       input = Case("patch", p) /\ answer \in {NoAnswer, [kind |-> "patch", is |-> PatchAnswer(p)]}
  \/ \E l \in Lists :
       input = Case("list", l) /\ answer \in {NoAnswer, [kind |-> "list", is |-> ListAnswer(l)]}
  \/ \E r \in V2Resources :
       input = Case("convert", r) /\ answer \in {NoAnswer, [kind |-> "convert", is |-> ConvertAnswer(r)]}

\* Each call is answered once, with what its functions make of its input.
LEMMA AnswersOfInputs == Spec => []AnswersAreRight
<1>1. Init => AnswersAreRight
  BY DEF Init, AnswersAreRight
<1>2. ASSUME AnswersAreRight, [Next]_vars PROVE AnswersAreRight'
  <2>1. CASE UNCHANGED vars
    BY <1>2, <2>1 DEF AnswersAreRight, vars
  <2>2. CASE Filter
    <3>1. answer'.kind = "filter"
      BY <2>2 DEF Filter, Asked, Answer
    <3> QED
      BY <3>1 DEF AnswersAreRight
  <2>3. CASE Select
    <3>1. answer'.kind = "select"
      BY <2>3 DEF Select, Asked, Answer
    <3> QED
      BY <3>1 DEF AnswersAreRight
  <2>4. CASE Patch
    <3>1. answer = NoAnswer /\ input.kind = "patch" /\ input' = input
      BY <2>4 DEF Patch, Asked, Answer
    <3>2. PICK p \in Patches : input = Case("patch", p)
      BY <1>2, <3>1 DEF AnswersAreRight, Case, NoAnswer
    <3>3. input.of = p
      BY <3>2 DEF Case
    <3>4. answer' = [kind |-> "patch", is |-> PatchAnswer(p)]
      BY <2>4, <3>1, <3>3 DEF Patch, Answer, PatchAnswer
    <3> QED
      BY <3>1, <3>2, <3>4 DEF AnswersAreRight
  <2>5. CASE List
    <3>1. answer = NoAnswer /\ input.kind = "list" /\ input' = input
      BY <2>5 DEF List, Asked, Answer
    <3>2. PICK l \in Lists : input = Case("list", l)
      BY <1>2, <3>1 DEF AnswersAreRight, Case, NoAnswer
    <3>3. input.of = l
      BY <3>2 DEF Case
    <3>4. answer' = [kind |-> "list", is |-> ListAnswer(l)]
      BY <2>5, <3>1, <3>3 DEF List, Answer, ListAnswer
    <3> QED
      BY <3>1, <3>2, <3>4 DEF AnswersAreRight
  <2>6. CASE Convert
    <3>1. answer = NoAnswer /\ input.kind = "convert" /\ input' = input
      BY <2>6 DEF Convert, Asked, Answer
    <3>2. PICK r \in V2Resources : input = Case("convert", r)
      BY <1>2, <3>1 DEF AnswersAreRight, Case, NoAnswer
    <3>3. input.of = r
      BY <3>2 DEF Case
    <3>4. answer' = [kind |-> "convert", is |-> ConvertAnswer(r)]
      BY <2>6, <3>1, <3>3 DEF Convert, Answer, ConvertAnswer
    <3> QED
      BY <3>1, <3>2, <3>4 DEF AnswersAreRight
  <2> QED
    BY <1>2, <2>1, <2>2, <2>3, <2>4, <2>5, <2>6 DEF Next
<1> QED
  BY <1>1, <1>2, PTL DEF Spec

\* What an answer to a list says is what the functions make of an input.
LEMMA ListAnswers ==
  ASSUME AnswersAreRight, Answered("list")
  PROVE  input.of \in Lists /\ answer.is = ListAnswer(input.of)
<1>1. PICK l \in Lists : input = Case("list", l) /\ answer = [kind |-> "list", is |-> ListAnswer(l)]
  BY DEF AnswersAreRight, Answered, NoAnswer, Case
<1>2. input.of = l /\ answer.is = ListAnswer(l)
  BY <1>1 DEF Case
<1> QED
  BY <1>2

-----------------------------------------------------------------------------
(* Lists.                                                                   *)

\* What a filter that was read is good for.
Readable(e) == e # None /\ e # BadFilter /\ FilterToText(e) # <<>> /\ FilterFrom(FilterToText(e)) = e

\* What ListParams asks of the store.
AskedFor(params, sizes) ==
  /\ params = [filter |-> params.filter, sortBy |-> params.sortBy, descending |-> params.descending,
               start |-> params.start, count |-> params.count]
  /\ params.filter = None \/ Readable(params.filter)
  /\ params.descending \in BOOLEAN
  /\ params.start \in Nat /\ params.start >= 1
  /\ params.count \in 0 .. MaxInt
  /\ sizes.max > 0 => params.count <= sizes.max

\* The numbers of parsed parameters.
Numbers(p) ==
  p.start \in Nat /\ p.start >= 1 /\ p.count \in 0 .. MaxInt

\* Parsing clamps the numbers of a query, also after a POST body was made one, and
\* leaves its filter and its sort path.
LEMMA Parsed ==
  ASSUME NEW q, IsQuery(q)
  PROVE  /\ Numbers(ParseListParams(q)) /\ Numbers(ParseListParams(bodyToURLValues(q)))
         /\ ParseListParams(q).filter = q.filter
         /\ ParseListParams(bodyToURLValues(q)).filter = q.filter
         /\ ParseListParams(q).sortBy = q.sortBy
         /\ ParseListParams(bodyToURLValues(q)).sortBy = q.sortBy
<1>1. PICK start, count, filter, sortBy, sortOrder :
        /\ q = Query(start, count, filter, sortBy, sortOrder)
        /\ IsNumber(start) /\ IsNumber(count)
  BY DEF IsQuery
<1>2. ASSUME NEW n, IsNumber(n)
      PROVE  IsNumber(Legible(n)) /\ (Given(n) => Amount(n) \in Int /\ Amount(n) <= MaxInt)
  BY <1>2, PagesAssumption DEF IsNumber, Legible, Given, Amount, Number, Absent, Zeros, Garbage
<1>3. ASSUME NEW c, NEW d, NEW f, NEW sb, NEW so, IsNumber(c), IsNumber(d)
      PROVE  LET p == ParseListParams(Query(c, d, f, sb, so))
             IN  Numbers(p) /\ p.filter = f /\ p.sortBy = sb
  BY <1>2, <1>3, PagesAssumption DEF ParseListParams, Query, Numbers, AtLeast
<1>4. bodyToURLValues(q) = Query(Legible(start), Legible(count), filter, sortBy, sortOrder)
  <2>1. q = [start |-> start, count |-> count, filter |-> filter, sortBy |-> sortBy, sortOrder |-> sortOrder]
    BY <1>1 DEF Query
  <2>2. bodyToURLValues(q) = [start |-> Legible(start), count |-> Legible(count), filter |-> filter,
                              sortBy |-> sortBy, sortOrder |-> sortOrder]
    <3>1. PICK s, c : s = Legible(start) /\ c = Legible(count)
      OBVIOUS
    <3>2. bodyToURLValues(q) = [[q EXCEPT !.start = s] EXCEPT !.count = c]
      BY <2>1, <3>1 DEF bodyToURLValues
    <3> QED
      BY <2>1, <3>1, <3>2
  <2> QED
    BY <2>2 DEF Query
<1> QED
  BY <1>1, <1>2, <1>3, <1>4 DEF Query

\* What a list asks of the store is in range, and its filter can be sent on.
LEMMA Parameters ==
  ASSUME NEW l \in Lists, ListParams(l.query, l.body, l.sizes) # BadFilter
  PROVE  AskedFor(ListParams(l.query, l.body, l.sizes), l.sizes)
<1>1. PICK q, body, sizes : q = l.query /\ body = l.body /\ sizes = l.sizes
  OBVIOUS
<1>2. /\ IsQuery(q) /\ (body # None => IsQuery(body.query))
      /\ sizes.default \in 0 .. MaxInt /\ sizes.max \in 0 .. MaxInt /\ MaxInt \in Nat
  BY <1>1, ListsAssumption, PagesAssumption
<1>3. PICK p : p = ParseListParams(q)
  OBVIOUS
<1>4. Numbers(p) /\ p.filter = q.filter
  BY <1>2, <1>3, Parsed
<1>5. PICK all : all = IF body = None THEN p ELSE Overriding(p, ParseListParams(bodyToURLValues(body.query)))
  OBVIOUS
<1>6. Numbers(all) /\ (all.filter = q.filter \/ (body # None /\ all.filter = body.query.filter))
  <2>1. CASE body = None
    BY <1>4, <1>5, <2>1
  <2>2. CASE body # None
    <3>1. PICK b : b = ParseListParams(bodyToURLValues(body.query))
      OBVIOUS
    <3>2. Numbers(b) /\ b.filter = body.query.filter
      BY <1>2, <2>2, <3>1, Parsed
    <3> QED
      BY <1>4, <1>5, <2>2, <3>1, <3>2 DEF Overriding, Numbers
  <2> QED
    BY <2>1, <2>2
<1>7. PICK filter, count : filter = (IF all.filter = <<>> THEN None ELSE FilterFrom(all.filter))
                           /\ count = PageSize(all.count, q, sizes)
  OBVIOUS
<1>8. ListParams(q, body, sizes) = Filtered(all, filter, count)
  BY <1>3, <1>5, <1>7 DEF ListParams
<1>9. filter # BadFilter
  BY <1>1, <1>8 DEF Filtered
<1>10. ListParams(q, body, sizes)
       = [filter |-> filter, sortBy |-> all.sortBy, descending |-> all.sortOrder = "descending",
          start |-> all.start, count |-> count]
  BY <1>8, <1>9 DEF Filtered
<1>11. filter = None \/ Readable(filter)
  BY <1>1, <1>6, <1>7, <1>9, FiltersAssumption DEF Readable
<1>12. count \in 0 .. MaxInt /\ (sizes.max > 0 => count <= sizes.max)
  BY <1>2, <1>6, <1>7 DEF PageSize, Numbers
<1>13. AskedFor(ListParams(q, body, sizes), sizes)
  BY <1>6, <1>10, <1>11, <1>12 DEF AskedFor, Numbers
<1> QED
  BY <1>1, <1>13

\* Resources are sorted by a path of the request: of its body, or of its query.
LEMMA SortByIsGiven ==
  ASSUME NEW l \in Lists, ListParams(l.query, l.body, l.sizes) # BadFilter
  PROVE  ListParams(l.query, l.body, l.sizes).sortBy
           \in {l.query.sortBy} \cup IF l.body = None THEN {} ELSE {l.body.query.sortBy}
<1>1. PICK q, body, sizes : q = l.query /\ body = l.body /\ sizes = l.sizes
  OBVIOUS
<1>2. IsQuery(q) /\ (body # None => IsQuery(body.query))
  BY <1>1, ListsAssumption
<1>3. PICK p : p = ParseListParams(q)
  OBVIOUS
<1>4. p.sortBy = q.sortBy
  BY <1>2, <1>3, Parsed
<1>5. PICK all : all = IF body = None THEN p ELSE Overriding(p, ParseListParams(bodyToURLValues(body.query)))
  OBVIOUS
<1>6. all.sortBy = q.sortBy \/ (body # None /\ all.sortBy = body.query.sortBy)
  <2>1. CASE body = None
    BY <1>4, <1>5, <2>1
  <2>2. CASE body # None
    <3>1. PICK b : b = ParseListParams(bodyToURLValues(body.query))
      OBVIOUS
    <3>2. b.sortBy = body.query.sortBy
      BY <1>2, <2>2, <3>1, Parsed
    <3> QED
      BY <1>4, <1>5, <2>2, <3>1, <3>2 DEF Overriding
  <2> QED
    BY <2>1, <2>2
<1>7. PICK filter, count : ListParams(q, body, sizes) = Filtered(all, filter, count)
  BY <1>3, <1>5 DEF ListParams
<1>8. ListParams(q, body, sizes).sortBy = all.sortBy
  BY <1>1, <1>7 DEF Filtered
<1> QED
  BY <1>1, <1>6, <1>8

\* The upstream server asks its store what the gateway asked of the proxy, but for
\* the direction in which nothing is sorted.
LEMMA SameParameters ==
  ASSUME NEW params, NEW sizes, AskedFor(params, sizes), params.count # 0,
         sizes.max \in 0 .. MaxInt, MaxInt \in Nat
  PROVE  ListParams(ProxyQuery(params), None, sizes)
         = [filter |-> params.filter, sortBy |-> params.sortBy,
            descending |-> params.descending /\ params.sortBy # <<>>,
            start |-> params.start, count |-> params.count]
<1>1. PICK filter, sortBy, descending, start, count :
        /\ params = [filter |-> filter, sortBy |-> sortBy, descending |-> descending,
                     start |-> start, count |-> count]
        /\ filter = None \/ Readable(filter)
        /\ descending \in BOOLEAN
        /\ start \in Nat /\ start >= 1 /\ count \in Nat /\ count > 0
        /\ sizes.max > 0 => count <= sizes.max
  BY DEF AskedFor
<1>2. PICK text : text = (IF filter = None THEN <<>> ELSE FilterToText(filter))
  OBVIOUS
<1>3. PICK order : order = (IF sortBy = <<>> THEN "" ELSE IF descending THEN "descending" ELSE "ascending")
  OBVIOUS
<1>4. ProxyQuery(params) = Query(Number(start), Number(count), text, sortBy, order)
  <2>1. /\ params.filter = filter /\ params.sortBy = sortBy /\ params.descending = descending
        /\ params.start = start /\ params.count = count
    BY <1>1
  <2>2. params.start > 0 /\ params.count > 0
    BY <1>1, <2>1
  <2> QED
    BY <1>2, <1>3, <2>1, <2>2 DEF ProxyQuery
<1>5. PICK q : q = ProxyQuery(params)
  OBVIOUS
<1>6. ParseListParams(q) = [filter |-> text, sortBy |-> sortBy, sortOrder |-> order, start |-> start, count |-> count]
  <2>1. /\ q.start = Number(start) /\ q.count = Number(count) /\ q.filter = text
        /\ q.sortBy = sortBy /\ q.sortOrder = order
    BY <1>4, <1>5 DEF Query
  <2>2. ASSUME NEW n \in Nat PROVE Given(Number(n)) /\ Amount(Number(n)) = n
    BY DEF Given, Amount, Number
  <2>3. AtLeast(start, 1) = start /\ AtLeast(count, 0) = count
    BY <1>1 DEF AtLeast
  <2>4. (IF order \in {"ascending", "descending"} THEN order ELSE "") = order
    BY <1>3
  <2>5. start \in Nat /\ count \in Nat
    BY <1>1
  <2> QED
    BY <2>1, <2>2, <2>3, <2>4, <2>5 DEF ParseListParams
<1>7. PageSize(count, q, sizes) = count
  BY <1>1 DEF PageSize
<1>8. (IF text = <<>> THEN None ELSE FilterFrom(text)) = filter /\ filter # BadFilter
  <2>1. None # BadFilter
    BY DEF None, BadFilter
  <2>2. CASE filter = None
    BY <1>2, <2>1, <2>2
  <2>3. CASE Readable(filter) /\ filter # None
    BY <1>2, <2>3 DEF Readable
  <2> QED
    BY <1>1, <2>2, <2>3
<1>9. ListParams(q, None, sizes)
      = [filter |-> filter, sortBy |-> sortBy, descending |-> order = "descending",
         start |-> start, count |-> count]
  BY <1>6, <1>7, <1>8 DEF ListParams, Filtered
<1>10. (order = "descending") = (descending /\ sortBy # <<>>)
  BY <1>1, <1>3
<1> QED
  BY <1>1, <1>5, <1>9, <1>10

\* The same parameters but for that direction give the same page.
LEMMA SamePage ==
  ASSUME NEW all, NEW filter, NEW sortBy, NEW d, NEW e, NEW start, NEW count, sortBy # <<>> => d = e
  PROVE  LET params(x) == [filter |-> filter, sortBy |-> sortBy, descending |-> x, start |-> start, count |-> count]
         IN  MemoryList(all, params(d)) = MemoryList(all, params(e))
<1> DEFINE params(x) == [filter |-> filter, sortBy |-> sortBy, descending |-> x, start |-> start, count |-> count]
<1>1. \A rs : SortResources(rs, sortBy, d) = SortResources(rs, sortBy, e)
  BY DEF SortResources
<1>2. \A rs : Cut(rs, params(d)) = Cut(rs, params(e))
  BY DEF Cut
<1> QED
  BY <1>1, <1>2 DEF MemoryList

\* A page says where it starts.
LEMMA ReturnedAsItIs ==
  ASSUME NEW all, NEW params, params.start \in Nat
  PROVE  Returned(MemoryList(all, params)) = MemoryList(all, params)
<1>1. PICK found : MemoryList(all, params) = Cut(found, params)
  BY DEF MemoryList
<1>2. PICK page : page = Cut(found, params)
  OBVIOUS
<1>3. CASE page = Internal
  BY <1>1, <1>2, <1>3 DEF Returned
<1>4. CASE page # Internal
  <2>1. PICK rs, total : page = Page(rs, total, AtLeast(params.start, 1))
    BY <1>2, <1>4 DEF Cut
  <2>2. PICK start : start = AtLeast(params.start, 1)
    OBVIOUS
  <2>3. start # 0
    BY <2>2 DEF AtLeast
  <2>4. page = [resources |-> rs, total |-> total, start |-> start, items |-> Len(rs)]
    BY <2>1, <2>2 DEF Page
  <2>5. page \notin {BadFilter, Internal}
    BY <1>4, <2>4 DEF BadFilter
  <2>6. Returned(page) = page
    BY <2>3, <2>4, <2>5 DEF Returned
  <2> QED
    BY <1>1, <1>2, <2>6
<1> QED
  BY <1>3, <1>4

\* A gateway answers a list like its upstream server, unless it is asked for no
\* resources.
THEOREM GatewayIsTransparent == Spec => []ProxyIsTransparent
<1>1. ASSUME AnswersAreRight, Answered("list"),
             ListParams(input.of.query, input.of.body, input.of.sizes) # BadFilter,
             ListParams(input.of.query, input.of.body, input.of.sizes).count # 0
      PROVE  answer.is.proxied = answer.is.direct
  <2>1. PICK l \in Lists : l = input.of /\ answer.is = ListAnswer(l)
    BY <1>1, ListAnswers
  <2>2. PICK all, sizes : all = l.all /\ sizes = l.sizes
    OBVIOUS
  <2>3. PICK params : params = ListParams(l.query, l.body, l.sizes)
    OBVIOUS
  <2>4. params # BadFilter /\ params.count # 0 /\ AskedFor(params, sizes)
    BY <1>1, <2>1, <2>2, <2>3, Parameters
  <2>5. sizes.max \in 0 .. MaxInt /\ MaxInt \in Nat
    BY <2>2, ListsAssumption, PagesAssumption
  <2>6. answer.is.direct = MemoryList(all, params)
    BY <2>1, <2>2, <2>3, <2>4 DEF ListAnswer, HandleList, PageOrRefusal
  <2>7. PICK upstream : upstream = ListParams(ProxyQuery(params), None, sizes)
    OBVIOUS
  <2>8. upstream = [filter |-> params.filter, sortBy |-> params.sortBy,
                    descending |-> params.descending /\ params.sortBy # <<>>,
                    start |-> params.start, count |-> params.count]
    BY <2>4, <2>5, <2>7, SameParameters
  <2>9. upstream # BadFilter
    BY <2>8 DEF BadFilter
  <2>10. MemoryList(all, upstream) = MemoryList(all, params)
    <3>1. PICK d, e : d = (params.descending /\ params.sortBy # <<>>) /\ e = params.descending
      OBVIOUS
    <3>2. params.sortBy # <<>> => d = e
      BY <2>4, <3>1 DEF AskedFor
    <3> QED
      BY <2>4, <2>8, <3>1, <3>2, SamePage DEF AskedFor
  <2>11. answer.is.proxied = Returned(MemoryList(all, upstream))
    BY <2>1, <2>2, <2>3, <2>4, <2>7, <2>9 DEF ListAnswer, ThroughProxy, ProxyList, HandleList, PageOrRefusal
  <2>12. params.start \in Nat
    BY <2>4 DEF AskedFor
  <2> QED
    BY <2>6, <2>10, <2>11, <2>12, ReturnedAsItIs
<1>2. AnswersAreRight => ProxyIsTransparent
  BY <1>1 DEF ProxyIsTransparent
<1> QED
  BY <1>2, AnswersOfInputs, PTL

-----------------------------------------------------------------------------
(* The order of texts and of keys.                                          *)

\* a and b differ first at k, where a ends or has the lesser byte.
LessAt(a, b, k) ==
  /\ \A i \in 1 .. k - 1 : i <= Len(a) /\ i <= Len(b) /\ a[i] = b[i]
  /\ \/ k = Len(a) + 1 /\ k <= Len(b)
     \/ k <= Len(a) /\ k <= Len(b) /\ a[k] < b[k]

Less(a, b) == \E k \in Nat \ {0} : LessAt(a, b, k)

\* Min is the least.
LEMMA MinIs ==
  ASSUME NEW S \in SUBSET Nat, S # {}
  PROVE  Min(S) \in S /\ \A n \in S : Min(S) <= n
BY Least DEF Min

\* TextOrder is the lexicographic order.
LEMMA TextOrderIs ==
  ASSUME NEW a \in Seq(Nat), NEW b \in Seq(Nat)
  PROVE  \/ TextOrder(a, b) = -1 /\ TextOrder(b, a) = 1 /\ Less(a, b)
         \/ TextOrder(a, b) = 1 /\ TextOrder(b, a) = -1 /\ Less(b, a)
         \/ TextOrder(a, b) = 0 /\ TextOrder(b, a) = 0 /\ a = b
<1>1. PICK la, lb : la = Len(a) /\ lb = Len(b)
  OBVIOUS
<1>2. /\ la \in Nat /\ lb \in Nat /\ DOMAIN a = 1 .. la /\ DOMAIN b = 1 .. lb
      /\ \A i \in 1 .. la : a[i] \in Nat
      /\ \A i \in 1 .. lb : b[i] \in Nat
  BY <1>1
<1>3. PICK differ : differ = {i \in DOMAIN a \cap DOMAIN b : a[i] # b[i]}
  OBVIOUS
<1>4. differ = {i \in DOMAIN b \cap DOMAIN a : b[i] # a[i]}
  BY <1>3
<1>5. /\ TextOrder(a, b) = IF differ = {} THEN Order(la, lb) ELSE Order(a[Min(differ)], b[Min(differ)])
      /\ TextOrder(b, a) = IF differ = {} THEN Order(lb, la) ELSE Order(b[Min(differ)], a[Min(differ)])
  <2>1. TextOrder(a, b) = IF differ = {} THEN Order(la, lb) ELSE Order(a[Min(differ)], b[Min(differ)])
    BY <1>1, <1>3 DEF TextOrder
  <2>2. TextOrder(b, a) = IF differ = {} THEN Order(lb, la) ELSE Order(b[Min(differ)], a[Min(differ)])
    BY <1>1, <1>4 DEF TextOrder
  <2> QED
    BY <2>1, <2>2
<1>6. ASSUME NEW m \in Int, NEW n \in Int
      PROVE  /\ m < n => Order(m, n) = -1 /\ Order(n, m) = 1
             /\ m = n => Order(m, n) = 0 /\ Order(n, m) = 0
  BY DEF Order
<1>7. CASE differ = {}
  <2>0. TextOrder(a, b) = Order(la, lb) /\ TextOrder(b, a) = Order(lb, la)
    BY <1>5, <1>7
  <2>1. ASSUME NEW i \in Nat \ {0}, i <= la, i <= lb PROVE a[i] = b[i]
    <3>1. i \in DOMAIN a \cap DOMAIN b
      BY <1>2, <2>1
    <3>2. ~ (i \in differ)
      BY <1>7
    <3> QED
      BY <1>3, <3>1, <3>2
  <2>2. CASE la < lb
    <3>1. LessAt(a, b, la + 1)
      BY <1>1, <1>2, <2>1, <2>2 DEF LessAt
    <3>2. Less(a, b)
      BY <1>2, <3>1 DEF Less
    <3>3. Order(la, lb) = -1 /\ Order(lb, la) = 1
      BY <1>2, <1>6, <2>2
    <3> QED
      BY <2>0, <3>2, <3>3
  <2>3. CASE lb < la
    <3>1. LessAt(b, a, lb + 1)
      BY <1>1, <1>2, <2>1, <2>3 DEF LessAt
    <3>2. Less(b, a)
      BY <1>2, <3>1 DEF Less
    <3>3. Order(la, lb) = 1 /\ Order(lb, la) = -1
      BY <1>2, <1>6, <2>3
    <3> QED
      BY <2>0, <3>2, <3>3
  <2>4. CASE la = lb
    <3>1. a = b
      BY <1>1, <1>2, <2>1, <2>4
    <3>2. Order(la, lb) = 0 /\ Order(lb, la) = 0
      BY <1>2, <1>6, <2>4
    <3> QED
      BY <2>0, <3>1, <3>2
  <2> QED
    BY <1>2, <2>2, <2>3, <2>4
<1>8. CASE differ # {}
  <2>1. PICK m : m = Min(differ)
    OBVIOUS
  <2>2. m \in differ /\ \A i \in differ : m <= i
    <3>1. differ \in SUBSET Nat
      BY <1>2, <1>3
    <3> QED
      BY <1>8, <2>1, <3>1, MinIs
  <2>3. /\ m \in Nat \ {0} /\ m <= la /\ m <= lb /\ a[m] # b[m] /\ a[m] \in Nat /\ b[m] \in Nat
        /\ \A i \in 1 .. m - 1 : i <= la /\ i <= lb /\ a[i] = b[i]
    <3>1. m \in 1 .. la /\ m \in 1 .. lb /\ a[m] # b[m]
      BY <1>2, <1>3, <2>2
    <3>2. ASSUME NEW i \in 1 .. m - 1 PROVE i <= la /\ i <= lb /\ a[i] = b[i]
      <4>1. i \in 1 .. la /\ i \in 1 .. lb /\ ~ (m <= i)
        BY <1>2, <3>1
      <4>2. i \notin differ
        BY <2>2, <4>1
      <4> QED
        BY <1>2, <1>3, <4>1, <4>2
    <3> QED
      BY <1>2, <3>1, <3>2
  <2>4. CASE a[m] < b[m]
    <3>1. LessAt(a, b, m)
      BY <1>1, <2>3, <2>4 DEF LessAt
    <3>2. Less(a, b)
      BY <2>3, <3>1 DEF Less
    <3> QED
      BY <1>5, <1>6, <1>8, <2>1, <2>3, <2>4, <3>2
  <2>5. CASE b[m] < a[m]
    <3>1. LessAt(b, a, m)
      BY <1>1, <2>3, <2>5 DEF LessAt
    <3>2. Less(b, a)
      BY <2>3, <3>1 DEF Less
    <3> QED
      BY <1>5, <1>6, <1>8, <2>1, <2>3, <2>5, <3>2
  <2> QED
    BY <2>3, <2>4, <2>5
<1> QED
  BY <1>7, <1>8

\* The lexicographic order is transitive.
LEMMA LessIsTransitive ==
  ASSUME NEW a \in Seq(Nat), NEW b \in Seq(Nat), NEW c \in Seq(Nat), Less(a, b), Less(b, c)
  PROVE  Less(a, c)
<1>1. PICK k \in Nat \ {0} : LessAt(a, b, k)
  BY DEF Less
<1>2. PICK n \in Nat \ {0} : LessAt(b, c, n)
  BY DEF Less
<1>3. PICK la, lb, lc : la = Len(a) /\ lb = Len(b) /\ lc = Len(c)
  OBVIOUS
<1>4. /\ la \in Nat /\ lb \in Nat /\ lc \in Nat
      /\ \A i \in 1 .. la : a[i] \in Nat
      /\ \A i \in 1 .. lb : b[i] \in Nat
      /\ \A i \in 1 .. lc : c[i] \in Nat
  <2>1. la \in Nat /\ \A i \in 1 .. la : a[i] \in Nat
    BY <1>3
  <2>2. lb \in Nat /\ \A i \in 1 .. lb : b[i] \in Nat
    BY <1>3
  <2>3. lc \in Nat /\ \A i \in 1 .. lc : c[i] \in Nat
    BY <1>3
  <2> QED
    BY <2>1, <2>2, <2>3
<1>5. /\ \A i \in 1 .. k - 1 : i <= la /\ i <= lb /\ a[i] = b[i]
      /\ (k = la + 1 /\ k <= lb) \/ (k <= la /\ k <= lb /\ a[k] < b[k])
  BY <1>1, <1>3 DEF LessAt
<1>6. /\ \A i \in 1 .. n - 1 : i <= lb /\ i <= lc /\ b[i] = c[i]
      /\ (n = lb + 1 /\ n <= lc) \/ (n <= lb /\ n <= lc /\ b[n] < c[n])
  BY <1>2, <1>3 DEF LessAt
<1>7. CASE k < n
  <2>1. b[k] = c[k] /\ k <= lc
    BY <1>6, <1>7
  <2>2. \A i \in 1 .. k - 1 : i <= la /\ i <= lc /\ a[i] = c[i]
    BY <1>5, <1>6, <1>7
  <2>3. (k = la + 1 /\ k <= lc) \/ (k <= la /\ k <= lc /\ a[k] < c[k])
    BY <1>5, <2>1
  <2>4. LessAt(a, c, k)
    BY <1>3, <2>2, <2>3 DEF LessAt
  <2> QED
    BY <2>4 DEF Less
<1>8. CASE n < k
  <2>1. a[n] = b[n] /\ n <= la /\ n <= lb
    BY <1>5, <1>8
  <2>2. \A i \in 1 .. n - 1 : i <= la /\ i <= lc /\ a[i] = c[i]
    BY <1>5, <1>6, <1>8
  <2>3. n <= la /\ n <= lc /\ a[n] < c[n]
    BY <1>4, <1>6, <2>1
  <2>4. LessAt(a, c, n)
    BY <1>3, <2>2, <2>3 DEF LessAt
  <2> QED
    BY <2>4 DEF Less
<1>9. CASE k = n
  <2>1. \A i \in 1 .. k - 1 : i <= la /\ i <= lc /\ a[i] = c[i]
    BY <1>5, <1>6, <1>9
  <2>2. k <= lb /\ k <= lc /\ b[k] < c[k]
    BY <1>4, <1>5, <1>6, <1>9
  <2>3. (k = la + 1 /\ k <= lc) \/ (k <= la /\ k <= lc /\ a[k] < c[k])
    <3>1. CASE k = la + 1
      BY <2>2, <3>1
    <3>2. CASE k <= la /\ a[k] < b[k]
      <4>1. a[k] \in Nat /\ b[k] \in Nat /\ c[k] \in Nat
        BY <1>4, <2>2, <3>2
      <4> QED
        BY <2>2, <3>2, <4>1
    <3> QED
      BY <1>5, <3>1, <3>2
  <2>4. LessAt(a, c, k)
    BY <1>3, <2>1, <2>3 DEF LessAt
  <2> QED
    BY <2>4 DEF Less
<1> QED
  BY <1>7, <1>8, <1>9

\* TextOrder is a total order.
LEMMA TextOrderTotal ==
  ASSUME NEW a \in Seq(Nat), NEW b \in Seq(Nat), NEW c \in Seq(Nat)
  PROVE  /\ TextOrder(a, b) \in {-1, 0, 1} /\ TextOrder(b, a) = 0 - TextOrder(a, b)
         /\ TextOrder(a, b) <= 0 /\ TextOrder(b, c) <= 0 => TextOrder(a, c) <= 0
<1>1. TextOrder(a, b) \in {-1, 0, 1} /\ TextOrder(b, a) = 0 - TextOrder(a, b)
  BY TextOrderIs
<1>2. ASSUME TextOrder(a, b) <= 0, TextOrder(b, c) <= 0 PROVE TextOrder(a, c) <= 0
  <2>1. Less(a, b) \/ a = b
    BY <1>2, TextOrderIs
  <2>2. Less(b, c) \/ b = c
    BY <1>2, TextOrderIs
  <2>3. ASSUME NEW x \in Seq(Nat), NEW y \in Seq(Nat), Less(x, y) PROVE TextOrder(x, y) = -1
    <3>1. ~ Less(y, x) /\ x # y
      <4>1. ASSUME Less(x, x) PROVE FALSE
        <5>1. PICK k \in Nat \ {0} : LessAt(x, x, k)
          BY <4>1 DEF Less
        <5>2. Len(x) \in Nat /\ \A i \in 1 .. Len(x) : x[i] \in Nat
          OBVIOUS
        <5> QED
          BY <5>1, <5>2 DEF LessAt
      <4>2. x # y
        BY <2>3, <4>1
      <4>3. ~ Less(y, x)
        BY <2>3, <4>1, LessIsTransitive
      <4> QED
        BY <4>2, <4>3
    <3> QED
      BY <3>1, TextOrderIs
  <2>4. Less(a, c) \/ a = c
    BY <2>1, <2>2, LessIsTransitive
  <2>5. CASE Less(a, c)
    BY <2>3, <2>5
  <2>6. CASE a = c
    <3>1. TextOrder(a, a) = 0
      BY TextOrderIs
    <3> QED
      BY <2>6, <3>1
  <2> QED
    BY <2>4, <2>5, <2>6
<1> QED
  BY <1>1, <1>2

\* Keys are compared by texts: sequences of bytes.
LEMMA LowerTextIs ==
  ASSUME NEW v, IsKey(v), v # Nil
  PROVE  LowerText(v) \in Seq(Nat) /\ (v.t = "num" => v.n \in 0 .. 9 /\ LowerText(v) = <<48 + v.n>>)
<1>1. ASSUME NEW s \in Seq(Nat) PROVE Lower(s) \in Seq(Nat)
  <2>1. PICK n \in Nat : n = Len(s)
    OBVIOUS
  <2>2. PICK g : g = Lower(s)
    OBVIOUS
  <2>3. g = [i \in 1 .. n |-> IF s[i] \in 65 .. 90 THEN s[i] + 32 ELSE s[i]]
    BY <2>1, <2>2 DEF Lower
  <2>4. \A i \in 1 .. n : s[i] \in Nat
    BY <2>1
  <2>5. g \in [1 .. n -> Nat]
    BY <2>3, <2>4
  <2>6. g \in Seq(Nat)
    BY <2>1, <2>5
  <2> QED
    BY <2>2, <2>6
<1>2. CASE v = Bool(TRUE)
  <2>1. Text(v) = <<116, 114, 117, 101>>
    BY <1>2 DEF Text, Bool
  <2>2. <<116, 114, 117, 101>> \in Seq(Nat)
    OBVIOUS
  <2> QED
    BY <1>1, <1>2, <2>1, <2>2 DEF LowerText, Bool
<1>3. CASE v = Bool(FALSE)
  <2>1. Text(v) = <<102, 97, 108, 115, 101>>
    BY <1>3 DEF Text, Bool
  <2>2. <<102, 97, 108, 115, 101>> \in Seq(Nat)
    OBVIOUS
  <2> QED
    BY <1>1, <1>3, <2>1, <2>2 DEF LowerText, Bool
<1>4. CASE v.t = "str" /\ v = Str(v.s) /\ v.s \in Seq(Nat)
  <2>1. Text(v) = v.s /\ v.t # "num"
    BY <1>4 DEF Text
  <2> QED
    BY <1>1, <1>4, <2>1 DEF LowerText
<1>5. CASE v.t = "num" /\ v = Num(v.n) /\ v.n \in 0 .. 9
  <2>1. PICK d : d = 48 + v.n
    OBVIOUS
  <2>2. d \in Nat /\ d \notin 65 .. 90
    BY <1>5, <2>1
  <2>3. Text(v) = <<d>>
    BY <1>5, <2>1 DEF Text
  <2>4. Lower(<<d>>) = <<d>> /\ <<d>> \in Seq(Nat)
    BY <2>2 DEF Lower
  <2> QED
    BY <1>5, <2>1, <2>3, <2>4 DEF LowerText
<1> QED
  BY <1>2, <1>3, <1>4, <1>5 DEF IsKey

\* Keys that are not missing are ordered as their texts are.
LEMMA CompareIs ==
  ASSUME NEW a, NEW b, IsKey(a), IsKey(b), a # Nil, b # Nil
  PROVE  compareForSort(a, b) = TextOrder(LowerText(a), LowerText(b))
<1>1. CASE a.t = "num" /\ b.t = "num"
  <2>1. PICK m, n : m = a.n /\ n = b.n
    OBVIOUS
  <2>2. m \in 0 .. 9 /\ n \in 0 .. 9 /\ LowerText(a) = <<48 + m>> /\ LowerText(b) = <<48 + n>>
    BY <1>1, <2>1, LowerTextIs
  <2>3. PICK s, t : s = <<48 + m>> /\ t = <<48 + n>>
    OBVIOUS
  <2>4. DOMAIN s = {1} /\ DOMAIN t = {1} /\ Len(s) = 1 /\ Len(t) = 1 /\ s[1] = 48 + m /\ t[1] = 48 + n
    BY <2>3
  <2>5. PICK differ : differ = {i \in DOMAIN s \cap DOMAIN t : s[i] # t[i]}
    OBVIOUS
  <2>6. TextOrder(s, t) = IF differ = {} THEN Order(1, 1) ELSE Order(s[Min(differ)], t[Min(differ)])
    BY <2>4, <2>5 DEF TextOrder
  <2>7. compareForSort(a, b) = Order(m, n)
    BY <1>1, <2>1 DEF compareForSort
  <2>8. CASE m = n
    <3>1. differ = {}
      BY <2>4, <2>5, <2>8
    <3> QED
      BY <2>2, <2>3, <2>6, <2>7, <2>8, <3>1 DEF Order
  <2>9. CASE m # n
    <3>1. differ = {1}
      BY <2>2, <2>4, <2>5, <2>9
    <3>2. Min(differ) = 1
      BY <3>1, MinIs
    <3> QED
      BY <2>2, <2>3, <2>4, <2>6, <2>7, <3>1, <3>2 DEF Order
  <2> QED
    BY <2>8, <2>9
<1>2. CASE ~ (a.t = "num" /\ b.t = "num")
  BY <1>2 DEF compareForSort
<1> QED
  BY <1>1, <1>2

\* Keys are totally ordered, those that are missing first.
LEMMA KeysAreOrdered ==
  ASSUME NEW a, NEW b, NEW c, IsKey(a), IsKey(b), IsKey(c)
  PROVE  /\ compareForSort(a, b) \in {-1, 0, 1} /\ compareForSort(b, a) = 0 - compareForSort(a, b)
         /\ compareForSort(a, b) <= 0 /\ compareForSort(b, c) <= 0 => compareForSort(a, c) <= 0
<1>1. ASSUME NEW x, NEW y, IsKey(x), IsKey(y)
      PROVE  /\ x = Nil /\ y = Nil => compareForSort(x, y) = 0
             /\ x = Nil /\ y # Nil => compareForSort(x, y) = -1
             /\ x # Nil /\ y = Nil => compareForSort(x, y) = 1
             /\ x # Nil /\ y # Nil => /\ compareForSort(x, y) = TextOrder(LowerText(x), LowerText(y))
                                      /\ LowerText(x) \in Seq(Nat) /\ LowerText(y) \in Seq(Nat)
  <2>1. x = Nil \/ y = Nil =>
          compareForSort(x, y) = Order(IF x = Nil THEN 0 ELSE 1, IF y = Nil THEN 0 ELSE 1)
    BY DEF compareForSort
  <2>2. Order(0, 0) = 0 /\ Order(0, 1) = -1 /\ Order(1, 0) = 1
    BY DEF Order
  <2> QED
    BY <1>1, <2>1, <2>2, CompareIs, LowerTextIs
<1>2. PICK ab, bc, ac, ba : /\ ab = compareForSort(a, b) /\ bc = compareForSort(b, c)
                            /\ ac = compareForSort(a, c) /\ ba = compareForSort(b, a)
  OBVIOUS
<1>3. CASE a # Nil /\ b # Nil /\ c # Nil
  BY <1>1, <1>3, TextOrderTotal
<1>4. CASE a = Nil
  BY <1>1, <1>4
<1>5. CASE b = Nil
  BY <1>1, <1>5
<1>6. CASE c = Nil /\ a # Nil /\ b # Nil
  <2>1. compareForSort(b, c) = 1
    BY <1>1, <1>6
  <2> QED
    BY <1>1, <1>6, <2>1, TextOrderTotal
<1> QED
  BY <1>3, <1>4, <1>5, <1>6

\* How the resources of a set are sorted: nothing goes before what goes before it,
\* and what is not before a resource is not before one that is.
Ordered(T, path, descending) ==
  /\ \A r, s \in T : SortsBefore(r, s, path, descending) => ~ SortsBefore(s, r, path, descending)
  /\ \A r, s, t \in T :
       ~ SortsBefore(r, s, path, descending) /\ ~ SortsBefore(s, t, path, descending) =>
         ~ SortsBefore(r, t, path, descending)

\* What SortBy compares by is such an order, ascending or descending.
LEMMA SortsBeforeIsOrdered ==
  ASSUME NEW T, NEW path, NEW descending \in BOOLEAN, \A r \in T : IsKey(sortValue(r, path))
  PROVE  Ordered(T, path, descending)
<1>1. ASSUME NEW r \in T, NEW s \in T
      PROVE  LET c == compareForSort(sortValue(r, path), sortValue(s, path))
             IN  /\ SortsBefore(r, s, path, descending) <=> c = (IF descending THEN 1 ELSE -1)
                 /\ c \in {-1, 0, 1}
                 /\ compareForSort(sortValue(s, path), sortValue(r, path)) = 0 - c
  BY KeysAreOrdered DEF SortsBefore
<1>2. ASSUME NEW r \in T, NEW s \in T, SortsBefore(r, s, path, descending)
      PROVE  ~ SortsBefore(s, r, path, descending)
  BY <1>1, <1>2
<1>3. ASSUME NEW r \in T, NEW s \in T, NEW t \in T,
             ~ SortsBefore(r, s, path, descending), ~ SortsBefore(s, t, path, descending)
      PROVE  ~ SortsBefore(r, t, path, descending)
  <2>1. PICK a, b, c : a = sortValue(r, path) /\ b = sortValue(s, path) /\ c = sortValue(t, path)
    OBVIOUS
  <2>2. IsKey(a) /\ IsKey(b) /\ IsKey(c)
    BY <2>1
  <2>3. /\ compareForSort(a, b) \in {-1, 0, 1} /\ compareForSort(b, a) = 0 - compareForSort(a, b)
        /\ compareForSort(b, c) \in {-1, 0, 1} /\ compareForSort(c, b) = 0 - compareForSort(b, c)
        /\ compareForSort(a, c) \in {-1, 0, 1} /\ compareForSort(c, a) = 0 - compareForSort(a, c)
    BY <2>2, KeysAreOrdered
  <2>4. /\ compareForSort(a, b) <= 0 /\ compareForSort(b, c) <= 0 => compareForSort(a, c) <= 0
        /\ compareForSort(c, b) <= 0 /\ compareForSort(b, a) <= 0 => compareForSort(c, a) <= 0
    BY <2>2, KeysAreOrdered
  <2>5. /\ compareForSort(a, b) # IF descending THEN 1 ELSE -1
        /\ compareForSort(b, c) # IF descending THEN 1 ELSE -1
    BY <1>3, <2>1 DEF SortsBefore
  <2>6. compareForSort(a, c) # IF descending THEN 1 ELSE -1
    BY <2>3, <2>4, <2>5
  <2> QED
    BY <2>1, <2>6 DEF SortsBefore
<1> QED
  BY <1>2, <1>3 DEF Ordered

-----------------------------------------------------------------------------
(* The insertion sort.                                                      *)

\* Max is the greatest.
LEMMA MaxIs ==
  ASSUME NEW N \in Nat, NEW S \in SUBSET (0 .. N), S # {}
  PROVE  Max(S) \in S /\ \A n \in S : n <= Max(S)
<1>1. PICK D : D = {N - n : n \in S}
  OBVIOUS
<1>2. D \in SUBSET Nat /\ D # {}
  <2>1. ASSUME NEW n \in S PROVE N - n \in Nat
    <3>1. n \in 0 .. N
      OBVIOUS
    <3> QED
      BY <3>1
  <2>2. PICK n \in S : TRUE
    OBVIOUS
  <2>3. N - n \in D
    BY <1>1
  <2> QED
    BY <1>1, <2>1, <2>3
<1>3. PICK d \in D : \A e \in D : d <= e
  BY <1>2, Least
<1>4. PICK m \in S : d = N - m
  BY <1>1
<1>5. ASSUME NEW n \in S PROVE m >= n
  <2>1. N - n \in D /\ m \in Int /\ n \in Int
    BY <1>1
  <2>2. d <= N - n
    BY <1>3, <2>1
  <2> QED
    BY <1>4, <2>1, <2>2
<1>6. Max(S) \in S /\ \A n \in S : Max(S) >= n
  BY <1>5 DEF Max
<1>7. S \subseteq Int
  OBVIOUS
<1> QED
  BY <1>6, <1>7

\* w is s with r after its first m elements.
Inserted(w, s, r, m) ==
  /\ Len(w) = Len(s) + 1
  /\ \A i \in 1 .. m : w[i] = s[i]
  /\ w[m + 1] = r
  /\ \A i \in m + 1 .. Len(s) : w[i + 1] = s[i]

\* InsertAt moves what is behind by one.
LEMMA InsertAtIs ==
  ASSUME NEW T, NEW s \in Seq(T), NEW r \in T, NEW m \in 0 .. Len(s)
  PROVE  InsertAt(s, m + 1, r) \in Seq(T) /\ Inserted(InsertAt(s, m + 1, r), s, r, m)
<1>1. PICK l : l = Len(s)
  OBVIOUS
<1>2. PICK x, y : x = SubSeq(s, 1, m) /\ y = SubSeq(s, m + 1, l)
  OBVIOUS
<1>3. l \in Nat /\ m \in Nat /\ m <= l
  BY <1>1
<1>4. x \in Seq(T) /\ Len(x) = m /\ \A i \in 1 .. m : x[i] = s[i]
  BY <1>1, <1>2, <1>3
<1>5. y \in Seq(T) /\ Len(y) = l - m /\ \A i \in 1 .. l - m : y[i] = s[m + i]
  BY <1>1, <1>2, <1>3
<1>6. PICK u : u = x \o <<r>>
  OBVIOUS
<1>7. u \in Seq(T) /\ Len(u) = m + 1 /\ u[m + 1] = r /\ \A i \in 1 .. m : u[i] = x[i]
  BY <1>3, <1>4, <1>6
<1>8. PICK w : w = u \o y
  OBVIOUS
<1>9. /\ w \in Seq(T) /\ Len(w) = l + 1
      /\ \A i \in 1 .. m + 1 : w[i] = u[i]
      /\ \A i \in 1 .. l - m : w[m + 1 + i] = y[i]
  BY <1>3, <1>5, <1>7, <1>8
<1>10. InsertAt(s, m + 1, r) = w
  <2>1. (m + 1) - 1 = m
    BY <1>3
  <2> QED
    BY <1>1, <1>2, <1>6, <1>8, <2>1 DEF InsertAt
<1>11. ASSUME NEW i \in m + 1 .. l PROVE w[i + 1] = s[i]
  <2>1. i - m \in 1 .. l - m /\ m + 1 + (i - m) = i + 1 /\ m + (i - m) = i
    BY <1>3
  <2> QED
    BY <1>5, <1>9, <2>1
<1>12. Inserted(w, s, r, m)
  BY <1>1, <1>3, <1>4, <1>7, <1>9, <1>11 DEF Inserted
<1> QED
  BY <1>9, <1>10, <1>12

\* The place of r is after the last element that it does not go before.
Placed(w, s, r, m, path, descending) ==
  /\ m \in 0 .. Len(s) /\ Inserted(w, s, r, m)
  /\ m # 0 => ~ SortsBefore(r, s[m], path, descending)
  /\ \A i \in m + 1 .. Len(s) : SortsBefore(r, s[i], path, descending)

\* Insert finds such a place.
LEMMA InsertPlaces ==
  ASSUME NEW T, NEW path, NEW descending, NEW r \in T, NEW s \in Seq(T)
  PROVE  /\ Insert(s, r, path, descending) \in Seq(T)
         /\ \E m : Placed(Insert(s, r, path, descending), s, r, m, path, descending)
<1>1. PICK l : l = Len(s)
  OBVIOUS
<1>2. l \in Nat /\ DOMAIN s = 1 .. l
  BY <1>1
<1>3. PICK stay : stay = {i \in DOMAIN s : ~ SortsBefore(r, s[i], path, descending)}
  OBVIOUS
<1>4. PICK m : m = Max(stay \cup {0})
  OBVIOUS
<1>5. m \in stay \cup {0} /\ \A i \in stay : i <= m
  <2>1. stay \cup {0} \in SUBSET (0 .. l) /\ stay \cup {0} # {}
    BY <1>2, <1>3
  <2> QED
    BY <1>2, <1>4, <2>1, MaxIs
<1>6. m \in 0 .. l
  BY <1>2, <1>3, <1>5
<1>7. PICK w : w = Insert(s, r, path, descending)
  OBVIOUS
<1>8. w = InsertAt(s, m + 1, r)
  BY <1>3, <1>4, <1>7 DEF Insert
<1>9. w \in Seq(T) /\ Inserted(w, s, r, m)
  BY <1>1, <1>6, <1>8, InsertAtIs
<1>10. m # 0 => ~ SortsBefore(r, s[m], path, descending)
  BY <1>3, <1>5
<1>11. ASSUME NEW i \in m + 1 .. l PROVE SortsBefore(r, s[i], path, descending)
  <2>1. i \in DOMAIN s /\ i \notin stay
    BY <1>2, <1>5, <1>6
  <2> QED
    BY <1>3, <2>1
<1>12. Placed(w, s, r, m, path, descending)
  BY <1>1, <1>6, <1>9, <1>10, <1>11 DEF Placed
<1> QED
  BY <1>7, <1>9, <1>12

\* z has the elements of S, each once, none before one that goes before it.
SortedSet(z, S, path, descending) ==
  /\ IsInjective(z) /\ ToSet(z) = S
  /\ \A i, j \in 1 .. Len(z) : i < j => ~ SortsBefore(z[j], z[i], path, descending)

\* Inserting into what is sorted leaves it sorted, with one element more.
LEMMA InsertIs ==
  ASSUME NEW T, NEW path, NEW descending, Ordered(T, path, descending),
         NEW S \in SUBSET T, NEW r \in T \ S, NEW s \in Seq(T), SortedSet(s, S, path, descending)
  PROVE  /\ Insert(s, r, path, descending) \in Seq(T)
         /\ Len(Insert(s, r, path, descending)) = Len(s) + 1
         /\ SortedSet(Insert(s, r, path, descending), S \cup {r}, path, descending)
<1> DEFINE B(x, y) == SortsBefore(x, y, path, descending)
<1>1. PICK l : l = Len(s)
  OBVIOUS
<1>2. l \in Nat /\ DOMAIN s = 1 .. l /\ \A i \in 1 .. l : s[i] \in T
  BY <1>1
<1>3. PICK w : w = Insert(s, r, path, descending)
  OBVIOUS
<1>4. w \in Seq(T) /\ \E m : Placed(w, s, r, m, path, descending)
  BY <1>3, InsertPlaces
<1>5. PICK m : Placed(w, s, r, m, path, descending)
  BY <1>4
<1>6. /\ m \in 0 .. l /\ Inserted(w, s, r, m)
      /\ m # 0 => ~ SortsBefore(r, s[m], path, descending)
      /\ \A i \in m + 1 .. l : SortsBefore(r, s[i], path, descending)
  BY <1>1, <1>5 DEF Placed
<1>10. /\ Len(w) = l + 1
       /\ \A i \in 1 .. m : w[i] = s[i]
       /\ w[m + 1] = r
       /\ \A i \in m + 1 .. l : w[i + 1] = s[i]
  BY <1>1, <1>6 DEF Inserted
<1>11. ASSUME NEW i \in 1 .. l + 1
       PROVE  \/ i <= m /\ i \in 1 .. l /\ w[i] = s[i]
              \/ i = m + 1 /\ w[i] = r
              \/ i > m + 1 /\ i - 1 \in 1 .. l /\ w[i] = s[i - 1]
  <2>1. CASE i <= m
    BY <1>2, <1>6, <1>10, <2>1
  <2>2. CASE i = m + 1
    BY <1>10, <2>2
  <2>3. CASE i > m + 1
    <3>1. i - 1 \in m + 1 .. l /\ (i - 1) + 1 = i
      BY <1>2, <1>6, <2>3
    <3>2. w[(i - 1) + 1] = s[i - 1]
      BY <1>10, <3>1
    <3> QED
      BY <1>2, <1>6, <2>3, <3>1, <3>2
  <2> QED
    BY <1>6, <2>1, <2>2, <2>3
<1>12. /\ \A i, j \in 1 .. l : s[i] = s[j] => i = j
       /\ \A i \in 1 .. l : s[i] \in S
       /\ \A x \in S : \E i \in 1 .. l : s[i] = x
       /\ \A i, j \in 1 .. l : i < j => ~ B(s[j], s[i])
  BY <1>1, <1>2 DEF SortedSet, IsInjective, ToSet
<1>13. IsInjective(w)
  <2>1. ASSUME NEW i \in 1 .. l + 1, NEW j \in 1 .. l + 1, w[i] = w[j] PROVE i = j
    <3>1. r \notin S
      OBVIOUS
    <3>2. CASE i = m + 1
      BY <1>2, <1>6, <1>11, <1>12, <2>1, <3>1, <3>2
    <3>3. CASE j = m + 1
      BY <1>2, <1>6, <1>11, <1>12, <2>1, <3>1, <3>3
    <3>4. CASE i # m + 1 /\ j # m + 1
      <4>1. PICK p \in 1 .. l : w[i] = s[p] /\ ((i <= m /\ p = i) \/ (i > m + 1 /\ p = i - 1))
        BY <1>11, <3>4
      <4>2. PICK q \in 1 .. l : w[j] = s[q] /\ ((j <= m /\ q = j) \/ (j > m + 1 /\ q = j - 1))
        BY <1>11, <3>4
      <4>3. p = q
        BY <1>12, <2>1, <4>1, <4>2
      <4> QED
        BY <1>2, <1>6, <4>1, <4>2, <4>3
    <3> QED
      BY <3>2, <3>3, <3>4
  <2>2. DOMAIN w = 1 .. l + 1
    BY <1>4, <1>10
  <2> QED
    BY <2>1, <2>2 DEF IsInjective
<1>14. ToSet(w) = S \cup {r}
  <2>1. DOMAIN w = 1 .. l + 1
    BY <1>4, <1>10
  <2>2. ASSUME NEW i \in 1 .. l + 1 PROVE w[i] \in S \cup {r}
    BY <1>11, <1>12
  <2>3. m + 1 \in 1 .. l + 1
    BY <1>2, <1>6
  <2>4. ASSUME NEW x \in S PROVE \E i \in 1 .. l + 1 : w[i] = x
    <3>1. PICK i \in 1 .. l : s[i] = x
      BY <1>12
    <3>2. CASE i <= m
      <4>1. i \in 1 .. m /\ i \in 1 .. l + 1
        BY <1>2, <1>6, <3>2
      <4> QED
        BY <1>10, <3>1, <4>1
    <3>3. CASE i > m
      <4>1. i \in m + 1 .. l /\ i + 1 \in 1 .. l + 1
        BY <1>2, <1>6, <3>3
      <4> QED
        BY <1>10, <3>1, <4>1
    <3> QED
      BY <1>6, <3>2, <3>3
  <2> QED
    BY <1>10, <2>1, <2>2, <2>3, <2>4 DEF ToSet
<1>15. ASSUME NEW i \in 1 .. l + 1, NEW j \in 1 .. l + 1, i < j PROVE ~ B(w[j], w[i])
  <2> HIDE DEF B
  <2>1. /\ \A x, y \in T : B(x, y) => ~ B(y, x)
        /\ \A x, y, z \in T : ~ B(x, y) /\ ~ B(y, z) => ~ B(x, z)
    BY DEF Ordered, B
  <2>2. CASE i # m + 1 /\ j # m + 1
    <3>1. PICK p \in 1 .. l : w[i] = s[p] /\ ((i <= m /\ p = i) \/ (i > m + 1 /\ p = i - 1))
      BY <1>11, <2>2
    <3>2. PICK q \in 1 .. l : w[j] = s[q] /\ ((j <= m /\ q = j) \/ (j > m + 1 /\ q = j - 1))
      BY <1>11, <2>2
    <3>3. p < q
      BY <1>2, <1>6, <1>15, <3>1, <3>2
    <3> QED
      BY <1>12, <3>1, <3>2, <3>3
  <2>3. CASE j = m + 1
    <3>1. i \in 1 .. m /\ i \in 1 .. l /\ m \in 1 .. l /\ w[i] = s[i] /\ w[j] = r
      BY <1>2, <1>6, <1>10, <1>15, <2>3
    <3>2. ~ B(r, s[m])
      BY <1>6, <3>1 DEF B
    <3>3. s[i] \in T /\ s[m] \in T /\ r \in T
      BY <1>2, <3>1
    <3>4. CASE i = m
      BY <3>1, <3>2, <3>4
    <3>5. CASE i # m
      <4>1. i < m
        BY <1>6, <3>1, <3>5
      <4>2. ~ B(s[m], s[i])
        BY <1>12, <3>1, <4>1
      <4>3. ~ B(r, s[i])
        BY <2>1, <3>2, <3>3, <4>2
      <4> QED
        BY <3>1, <4>3
    <3> QED
      BY <3>4, <3>5
  <2>4. CASE i = m + 1
    <3>1. j > m + 1
      BY <1>15, <2>4
    <3>2. PICK q : q = j - 1
      OBVIOUS
    <3>3. q \in 1 .. l /\ q > m /\ w[j] = s[q] /\ w[i] = r
      BY <1>2, <1>6, <1>11, <2>4, <3>1, <3>2
    <3>4. q \in m + 1 .. l
      BY <1>6, <3>3
    <3>5. B(r, s[q])
      BY <1>6, <3>4 DEF B
    <3>6. s[q] \in T /\ r \in T
      BY <1>2, <3>3
    <3>7. ~ B(s[q], r)
      BY <2>1, <3>5, <3>6
    <3> QED
      BY <3>3, <3>7
  <2> QED
    BY <2>2, <2>3, <2>4
<1>16. SortedSet(w, S \cup {r}, path, descending)
  BY <1>10, <1>13, <1>14, <1>15 DEF SortedSet
<1> QED
  BY <1>1, <1>3, <1>4, <1>10, <1>16

\* A recursive function is the loop that it describes.
LEMMA SameRounds ==
  ASSUME NEW N \in Nat, NEW V, NEW b, NEW h, NEW f, Rounds(f, N, V, b, h),
         NEW g, g[0] = b, \A n \in 1 .. N : g[n - 1] \in V => g[n] = h[n][g[n - 1]]
  PROVE  \A n \in 0 .. N : g[n] = f[n]
<1>1. /\ \A n \in 0 .. N : f[n] \in V
      /\ f[0] = b /\ \A n \in 1 .. N : f[n] = h[n][f[n - 1]]
  BY DEF Rounds
<1> DEFINE S == {n \in Nat : n <= N => g[n] = f[n]}
<1>2. 0 \in S
  BY <1>1
<1>3. ASSUME NEW n \in Nat, n \in S PROVE n + 1 \in S
  <2> SUFFICES ASSUME n + 1 <= N PROVE g[n + 1] = f[n + 1]
    OBVIOUS
  <2>1. PICK m : m = n + 1
    OBVIOUS
  <2>2. m \in 1 .. N /\ m - 1 = n /\ n \in 0 .. N
    BY <2>1
  <2>3. g[n] = f[n] /\ f[n] \in V
    BY <1>1, <1>3, <2>2
  <2>4. g[m] = h[m][g[n]] /\ f[m] = h[m][f[n]]
    BY <1>1, <2>2, <2>3
  <2> QED
    BY <2>1, <2>3, <2>4
<1>4. Nat \subseteq S
  <2> HIDE DEF S
  <2> QED
    BY <1>2, <1>3, Induction
<1> QED
  BY <1>4

\* f[n] is what the sort has made of the first n elements.
Sorts(f, T, rs, path, descending) ==
  /\ f \in [0 .. Len(rs) -> Seq(T)]
  /\ f[0] = <<>>
  /\ \A n \in 1 .. Len(rs) : f[n] = Insert(f[n - 1], rs[n], path, descending)
  /\ SortBy(rs, path, descending) = f[Len(rs)]

\* The recursive function of SortBy is that loop.
LEMMA SortLoop ==
  ASSUME NEW T, NEW rs \in Seq(T), NEW path, NEW descending, path # BadPath
  PROVE  \E f : Sorts(f, T, rs, path, descending)
<1>1. PICK N, V, b, h :
        /\ N = Len(rs) /\ V = Seq(T) /\ b = <<>>
        /\ h = [n \in 1 .. N |-> [v \in V |-> Insert(v, rs[n], path, descending)]]
  OBVIOUS
<1>2. N \in Nat /\ b \in V /\ \A n \in 1 .. N : rs[n] \in T
  BY <1>1
<1>3. \A n \in 1 .. N : \A v \in V : Insert(v, rs[n], path, descending) \in V
  BY <1>1, <1>2, InsertPlaces
<1>4. h \in [1 .. N -> [V -> V]]
  BY <1>1, <1>3
<1>5. PICK f : Rounds(f, N, V, b, h)
  BY <1>2, <1>4, Iteration
<1>6. f \in [0 .. N -> V] /\ f[0] = <<>>
  BY <1>1, <1>5 DEF Rounds
<1>7. ASSUME NEW n \in 1 .. N PROVE f[n] = Insert(f[n - 1], rs[n], path, descending)
  <2>1. f[n] = h[n][f[n - 1]] /\ f[n - 1] \in V
    BY <1>2, <1>5 DEF Rounds
  <2> QED
    BY <1>1, <2>1
<1> DEFINE Loop(g) == g = [n \in 0 .. Len(rs) |->
                             IF n = 0 THEN <<>> ELSE Insert(g[n - 1], rs[n], path, descending)]
<1>8. Loop(f)
  <2>1. \A n \in 0 .. N : f[n] = IF n = 0 THEN <<>> ELSE Insert(f[n - 1], rs[n], path, descending)
    <3>1. ASSUME NEW n \in 0 .. N, n # 0 PROVE n \in 1 .. N
      <4>1. n \in Int /\ 0 <= n /\ n <= N
        BY <1>2
      <4> QED
        BY <1>2, <3>1, <4>1
    <3> QED
      BY <1>6, <1>7, <3>1
  <2>2. DOMAIN f = 0 .. N /\ f = [n \in DOMAIN f |-> f[n]]
    BY <1>6
  <2>3. f = [n \in 0 .. N |-> f[n]]
    BY <2>2
  <2> QED
    BY <1>1, <2>1, <2>3
<1>9. PICK g : g = CHOOSE x : Loop(x)
  OBVIOUS
<1>10. Loop(g)
  <2> HIDE DEF Loop
  <2> QED
    BY <1>8, <1>9
<1>11. SortBy(rs, path, descending) = g[Len(rs)]
  BY <1>9 DEF SortBy
<1>12. g[0] = b /\ \A n \in 1 .. N : g[n - 1] \in V => g[n] = h[n][g[n - 1]]
  <2>1. \A n \in 0 .. N : g[n] = IF n = 0 THEN <<>> ELSE Insert(g[n - 1], rs[n], path, descending)
    BY <1>1, <1>10
  <2>2. 0 \in 0 .. N /\ \A n \in 1 .. N : n \in 0 .. N /\ n # 0
    BY <1>2
  <2> QED
    BY <1>1, <2>1, <2>2
<1>13. \A n \in 0 .. N : g[n] = f[n]
  BY <1>2, <1>5, <1>12, SameRounds
<1>14. SortBy(rs, path, descending) = f[Len(rs)]
  BY <1>1, <1>2, <1>11, <1>13
<1>15. Sorts(f, T, rs, path, descending)
  BY <1>1, <1>6, <1>7, <1>14 DEF Sorts
<1> QED
  BY <1>15

\* SortBy sorts: each resource is there once, none before one that goes before it.
LEMMA SortByIs ==
  ASSUME NEW T, NEW rs \in Seq(T), IsInjective(rs), NEW path, path # BadPath, NEW descending,
         Ordered(T, path, descending)
  PROVE  /\ SortBy(rs, path, descending) \in Seq(T)
         /\ Len(SortBy(rs, path, descending)) = Len(rs)
         /\ SortedSet(SortBy(rs, path, descending), ToSet(rs), path, descending)
<1>1. PICK f : Sorts(f, T, rs, path, descending)
  BY SortLoop
<1>2. PICK N : N = Len(rs)
  OBVIOUS
<1>3. /\ N \in Nat /\ f \in [0 .. N -> Seq(T)] /\ f[0] = <<>>
      /\ \A n \in 1 .. N : f[n] = Insert(f[n - 1], rs[n], path, descending)
      /\ SortBy(rs, path, descending) = f[N]
  BY <1>1, <1>2 DEF Sorts
<1>4. /\ DOMAIN rs = 1 .. N /\ \A n \in 1 .. N : rs[n] \in T
      /\ \A i, j \in 1 .. N : rs[i] = rs[j] => i = j
  BY <1>2 DEF IsInjective
<1> DEFINE First(n) == {rs[k] : k \in 1 .. n}
           P(n) == n <= N => Len(f[n]) = n /\ SortedSet(f[n], First(n), path, descending)
           S == {n \in Nat : P(n)}
<1>5. P(0)
  <2>1. Len(f[0]) = 0 /\ DOMAIN f[0] = {} /\ First(0) = {}
    BY <1>3
  <2>2. IsInjective(f[0]) /\ ToSet(f[0]) = {}
    BY <2>1 DEF IsInjective, ToSet
  <2> HIDE DEF First
  <2> QED
    BY <2>1, <2>2 DEF SortedSet
<1>6. ASSUME NEW n \in Nat, P(n) PROVE P(n + 1)
  <2> SUFFICES ASSUME n + 1 <= N
               PROVE Len(f[n + 1]) = n + 1 /\ SortedSet(f[n + 1], First(n + 1), path, descending)
    OBVIOUS
  <2>1. PICK m : m = n + 1
    OBVIOUS
  <2>2. m \in 1 .. N /\ m - 1 = n /\ n \in 0 .. N /\ n <= N
    BY <1>3, <2>1
  <2>3. PICK s, r : s = f[n] /\ r = rs[m]
    OBVIOUS
  <2>4. PICK F : F = First(n)
    OBVIOUS
  <2>5. F \in SUBSET T /\ r \in T \ F
    <3>1. ASSUME NEW k \in 1 .. n PROVE rs[k] \in T /\ rs[k] # r
      <4>1. k \in 1 .. N /\ k # m
        BY <1>3, <2>1, <2>2
      <4> QED
        BY <1>4, <2>2, <2>3, <4>1
    <3> QED
      BY <1>4, <2>2, <2>3, <2>4, <3>1
  <2>6. s \in Seq(T) /\ Len(s) = n /\ SortedSet(s, F, path, descending)
    BY <1>3, <1>6, <2>2, <2>3, <2>4
  <2>7. f[m] = Insert(s, r, path, descending)
    BY <1>3, <2>2, <2>3
  <2>8. Len(f[m]) = n + 1 /\ SortedSet(f[m], F \cup {r}, path, descending)
    BY <2>5, <2>6, <2>7, InsertIs
  <2>9. F \cup {r} = First(m)
    <3>1. 1 .. m = (1 .. n) \cup {m}
      BY <2>1
    <3> QED
      BY <2>3, <2>4, <3>1
  <2> HIDE DEF First
  <2> QED
    BY <2>1, <2>8, <2>9
<1>7. P(N)
  <2> HIDE DEF P
  <2>1. 0 \in S /\ \A n \in Nat : n \in S => n + 1 \in S
    BY <1>5, <1>6
  <2>2. Nat \subseteq S
    <3> HIDE DEF S
    <3> QED
      BY <2>1, Induction
  <2> QED
    BY <1>3, <2>2
<1>8. First(N) = ToSet(rs)
  BY <1>4 DEF ToSet
<1>9. N <= N /\ f[N] \in Seq(T)
  BY <1>3
<1> QED
  <2> HIDE DEF First
  <2> QED
    BY <1>2, <1>3, <1>7, <1>8, <1>9

-----------------------------------------------------------------------------
(* Pages.                                                                   *)

\* The elements that Matching keeps are those that match, each once.
LEMMA MatchingIs ==
  ASSUME NEW all, IsListOf(all), IsInjective(all), NEW filter
  PROVE  /\ Matching(all, filter) \in Seq(ToSet(all)) /\ IsInjective(Matching(all, filter))
         /\ ToSet(Matching(all, filter)) = {r \in ToSet(all) : Selects(filter, r)}
<1>1. PICK T, K, m : /\ T = ToSet(all) /\ m = Matching(all, filter)
                     /\ K = {i \in DOMAIN all : Selects(filter, all[i])}
  OBVIOUS
<1>2. all \in Seq(T) /\ DOMAIN all = 1 .. Len(all) /\ K \in SUBSET (1 .. Len(all))
  BY <1>1 DEF IsListOf
<1>3. m = Kept(all, K)
  BY <1>1 DEF Matching
<1>4. m \in Seq(T) /\ \E from : Picks(from, m, all, K)
  BY <1>2, <1>3, KeptIs
<1>5. PICK from : Picks(from, m, all, K)
  BY <1>4
<1>6. DOMAIN m = 1 .. Len(m) /\ Len(m) \in Nat
  BY <1>4
<1>7. /\ from \in [1 .. Len(m) -> K]
      /\ \A i, j \in 1 .. Len(m) : i < j => from[i] < from[j]
      /\ \A i \in 1 .. Len(m) : m[i] = all[from[i]]
      /\ \A k \in K : \E i \in 1 .. Len(m) : from[i] = k
  BY <1>5 DEF Picks
<1>8. ASSUME NEW i \in DOMAIN m, NEW j \in DOMAIN m, m[i] = m[j] PROVE i = j
  <2>1. from[i] \in DOMAIN all /\ from[j] \in DOMAIN all /\ all[from[i]] = all[from[j]]
    BY <1>1, <1>6, <1>7, <1>8
  <2>2. from[i] = from[j] /\ from[i] \in Nat
    BY <1>2, <2>1 DEF IsInjective
  <2>3. ~ (i < j) /\ ~ (j < i)
    BY <1>6, <1>7, <2>2
  <2> QED
    BY <1>6, <2>3
<1>9. IsInjective(m)
  BY <1>8 DEF IsInjective
<1>10. ASSUME NEW i \in DOMAIN m PROVE m[i] \in T /\ Selects(filter, m[i])
  BY <1>1, <1>6, <1>7 DEF ToSet
<1>11. ASSUME NEW r \in T, Selects(filter, r) PROVE \E i \in DOMAIN m : m[i] = r
  <2>1. PICK k \in DOMAIN all : all[k] = r
    BY <1>1 DEF ToSet
  <2>2. k \in K
    BY <1>1, <1>11, <2>1
  <2> QED
    BY <1>6, <1>7, <2>1, <2>2
<1>12. ToSet(m) = {r \in T : Selects(filter, r)}
  BY <1>10, <1>11 DEF ToSet
<1> QED
  BY <1>1, <1>4, <1>9, <1>12

\* The elements of z from lo to hi.
Part(z, lo, hi) == {z[k] : k \in lo .. hi}

\* A segment of a sequence with no element twice has as many as it is long.
LEMMA Segment ==
  ASSUME NEW T, NEW z \in Seq(T), IsInjective(z),
         NEW lo \in Nat \ {0}, NEW hi \in Nat, hi <= Len(z), lo <= hi + 1
  PROVE  IsFiniteSet(Part(z, lo, hi)) /\ Cardinality(Part(z, lo, hi)) = hi - lo + 1
<1>1. PICK S, f : S = Part(z, lo, hi) /\ f = [k \in lo .. hi |-> z[k]]
  OBVIOUS
<1>2. \A i, j \in lo .. hi : z[i] = z[j] => i = j
  BY DEF IsInjective
<1>3. f \in Surjection(lo .. hi, S)
  BY <1>1 DEF Surjection, Part
<1>4. f \in Injection(lo .. hi, S)
  BY <1>1, <1>2 DEF Injection, IsInjective, Part
<1>5. IsFiniteSet(lo .. hi) /\ Cardinality(lo .. hi) = hi - lo + 1
  <2>1. lo \in Int /\ hi \in Int
    OBVIOUS
  <2>2. IsFiniteSet(lo .. hi) /\ Cardinality(lo .. hi) = IF lo > hi THEN 0 ELSE hi - lo + 1
    BY <2>1, FS_Interval
  <2> QED
    BY <2>2
<1>6. IsFiniteSet(S) /\ Cardinality(S) = Cardinality(lo .. hi)
  BY <1>3, <1>4, <1>5, FS_Surjection
<1> QED
  BY <1>1, <1>5, <1>6

\* So has all of it.
LEMMA CountsAll ==
  ASSUME NEW T, NEW z \in Seq(T), IsInjective(z)
  PROVE  IsFiniteSet(ToSet(z)) /\ Cardinality(ToSet(z)) = Len(z)
<1>1. PICK lo, n, S : lo = 1 /\ n = Len(z) /\ S = Part(z, lo, n)
  OBVIOUS
<1>2. lo \in Nat \ {0} /\ n \in Nat /\ lo <= n + 1 /\ n <= Len(z) /\ n - lo + 1 = n
  BY <1>1
<1>3. IsFiniteSet(S) /\ Cardinality(S) = n - lo + 1
  BY <1>1, <1>2, Segment
<1>4. S = ToSet(z)
  BY <1>1 DEF ToSet, Part
<1> QED
  BY <1>1, <1>2, <1>3, <1>4

\* R: what goes before what.  Where nothing is before what goes before it, the
\* position of an element is right.
LEMMA Ranked ==
  ASSUME NEW T, NEW z \in Seq(T), IsInjective(z), NEW R,
         \A i, j \in 1 .. Len(z) : i <= j => <<z[j], z[i]>> \notin R,
         NEW p \in 1 .. Len(z)
  PROVE  /\ Cardinality({s \in ToSet(z) : <<s, z[p]>> \in R}) < p
         /\ Cardinality({s \in ToSet(z) : <<z[p], s>> \in R}) <= Len(z) - p
<1>1. PICK n : n = Len(z)
  OBVIOUS
<1>2. n \in Nat /\ p \in 1 .. n /\ \A s \in ToSet(z) : \E k \in 1 .. n : z[k] = s
  BY <1>1 DEF ToSet
<1>3. PICK A, B, C, D : /\ A = {s \in ToSet(z) : <<s, z[p]>> \in R}
                        /\ B = {s \in ToSet(z) : <<z[p], s>> \in R}
                        /\ C = {z[k] : k \in 1 .. p - 1}
                        /\ D = {z[k] : k \in p + 1 .. n}
  OBVIOUS
<1>4. IsFiniteSet(C) /\ Cardinality(C) = p - 1
  <2>1. PICK lo, hi : lo = 1 /\ hi = p - 1
    OBVIOUS
  <2>2. lo \in Nat \ {0} /\ hi \in Nat /\ hi <= Len(z) /\ lo <= hi + 1 /\ hi - lo + 1 = p - 1
    BY <1>1, <1>2, <2>1
  <2>3. C = Part(z, lo, hi)
    BY <1>3, <2>1 DEF Part
  <2>4. IsFiniteSet(C) /\ Cardinality(C) = hi - lo + 1
    BY <2>2, <2>3, Segment
  <2> QED
    BY <2>2, <2>4
<1>5. IsFiniteSet(D) /\ Cardinality(D) = n - p
  <2>1. PICK lo : lo = p + 1
    OBVIOUS
  <2>2. lo \in Nat \ {0} /\ n <= Len(z) /\ lo <= n + 1 /\ n - lo + 1 = n - p
    BY <1>1, <1>2, <2>1
  <2>3. D = Part(z, lo, n)
    BY <1>3, <2>1 DEF Part
  <2>4. IsFiniteSet(D) /\ Cardinality(D) = n - lo + 1
    BY <1>2, <2>2, <2>3, Segment
  <2> QED
    BY <2>2, <2>4
<1>6. A \in SUBSET C
  <2>1. ASSUME NEW s \in A PROVE s \in C
    <3>1. PICK k \in 1 .. n : z[k] = s
      BY <1>2, <1>3
    <3>2. ~ (p <= k)
      BY <1>1, <1>3, <3>1
    <3>3. k \in 1 .. p - 1
      BY <1>2, <3>2
    <3> QED
      BY <1>3, <3>1, <3>3
  <2> QED
    BY <2>1
<1>7. B \in SUBSET D
  <2>1. ASSUME NEW s \in B PROVE s \in D
    <3>1. PICK k \in 1 .. n : z[k] = s
      BY <1>2, <1>3
    <3>2. ~ (k <= p)
      BY <1>1, <1>3, <3>1
    <3>3. k \in p + 1 .. n
      BY <1>2, <3>2
    <3> QED
      BY <1>3, <3>1, <3>3
  <2> QED
    BY <2>1
<1>8. Cardinality(A) <= Cardinality(C) /\ Cardinality(B) <= Cardinality(D)
  BY <1>4, <1>5, <1>6, <1>7, FS_Subset
<1>9. Cardinality(A) \in Nat /\ Cardinality(B) \in Nat
  BY <1>4, <1>5, <1>6, <1>7, FS_Subset, FS_CardinalityType
<1> QED
  BY <1>1, <1>2, <1>3, <1>4, <1>5, <1>8, <1>9

\* The page of z from start that a client asks for.
PageOf(page, z, T, start, count) ==
  /\ page.resources \in Seq(T)
  /\ page.total = Len(z) /\ page.start = start
  /\ page.items = AtLeast(AtMost(count, Len(z) - (start - 1)), 0)
  /\ DOMAIN page.resources = 1 .. page.items
  /\ \A i \in 1 .. page.items : start - 1 + i \in 1 .. Len(z) /\ page.resources[i] = z[start - 1 + i]

\* Cut takes that page, and fails only where start and count overflow.
LEMMA CutIs ==
  ASSUME NEW T, NEW z \in Seq(T), MaxInt \in Nat, Len(z) <= MaxInt,
         NEW params, params.start \in Nat, params.start >= 1, params.count \in 0 .. MaxInt
  PROVE  /\ Len(z) + params.count <= MaxInt => Cut(z, params) # Internal
         /\ Cut(z, params) # Internal => PageOf(Cut(z, params), z, T, params.start, params.count)
<1>1. PICK total, begin, count : total = Len(z) /\ begin = params.start /\ count = params.count
  OBVIOUS
<1>2. /\ total \in Nat /\ total <= MaxInt /\ begin \in Nat /\ begin >= 1
      /\ count \in Nat /\ count <= MaxInt
  BY <1>1
<1>3. PICK start : start = AtMost(begin - 1, total)
  OBVIOUS
<1>4. start \in Nat /\ start <= total /\ start <= begin - 1 /\ (start = begin - 1 \/ start = total)
  BY <1>2, <1>3 DEF AtMost
<1>5. PICK end : end = AtMost(Plus(start, count), total)
  OBVIOUS
<1>6. AtLeast(begin, 1) = begin /\ (IF count < 0 THEN total ELSE count) = count
  BY <1>2 DEF AtLeast
<1>7. Cut(z, params) = IF end < start THEN Internal ELSE Page(SubSeq(z, start + 1, end), total, begin)
  BY <1>1, <1>3, <1>5, <1>6 DEF Cut
<1>8. CASE start + count <= MaxInt
  <2>1. end = AtMost(start + count, total)
    <3>1. ~ (start + count > MaxInt)
      BY <1>2, <1>4, <1>8
    <3> QED
      BY <1>5, <3>1 DEF Plus
  <2>2. end \in Nat /\ start <= end /\ end <= total /\ (end = start + count \/ end = total) /\ end <= start + count
    BY <1>2, <1>4, <2>1 DEF AtMost
  <2>3. PICK rs : rs = SubSeq(z, start + 1, end)
    OBVIOUS
  <2>4. /\ rs \in Seq(T) /\ Len(rs) = end - start
        /\ \A i \in 1 .. end - start : rs[i] = z[start + i]
    BY <1>1, <1>2, <1>4, <2>2, <2>3
  <2>5. PICK page : page = Cut(z, params)
    OBVIOUS
  <2>6. page = [resources |-> rs, total |-> total, start |-> begin, items |-> end - start]
    <3>1. ~ (end < start)
      BY <1>4, <2>2
    <3> QED
      BY <1>7, <2>3, <2>4, <2>5, <3>1 DEF Page
  <2>7. page # Internal
    BY <2>6 DEF Internal
  <2>8. end - start = AtLeast(AtMost(count, total - (begin - 1)), 0)
    BY <1>2, <1>4, <2>2 DEF AtMost, AtLeast
  <2>9. ASSUME NEW i \in 1 .. end - start PROVE begin - 1 + i \in 1 .. total /\ rs[i] = z[begin - 1 + i]
    <3>1. start = begin - 1
      BY <1>2, <1>4, <2>2, <2>9
    <3>2. begin - 1 + i = start + i
      BY <1>2, <1>4, <2>2, <3>1
    <3>3. start + i \in 1 .. total
      BY <1>2, <1>4, <2>2
    <3>4. rs[i] = z[start + i]
      BY <2>4
    <3> QED
      BY <3>2, <3>3, <3>4
  <2>10. DOMAIN rs = 1 .. end - start
    BY <2>4
  <2>11. PageOf(page, z, T, begin, count)
    BY <1>1, <2>4, <2>6, <2>8, <2>9, <2>10 DEF PageOf
  <2> QED
    BY <1>1, <2>5, <2>7, <2>11
<1>9. CASE start + count > MaxInt
  <2>1. end < start
    BY <1>2, <1>4, <1>5, <1>9 DEF Plus, AtMost
  <2> QED
    BY <1>1, <1>2, <1>4, <1>7, <1>9, <2>1
<1> QED
  BY <1>2, <1>4, <1>8, <1>9

\* What is sorted before what.
Precedence(T, params) ==
  {rs \in T \X T :
     /\ params.sortBy # <<>> /\ ParsePath(params.sortBy) # BadPath
     /\ SortsBefore(rs[1], rs[2], ParsePath(params.sortBy), params.descending)}

\* z is what matches, in the order that was asked for.
InOrder(z, l, params) ==
  /\ z \in Seq(ToSet(l.all)) /\ IsInjective(z)
  /\ ToSet(z) = {r \in ToSet(l.all) : Selects(params.filter, r)}
  /\ \A i, j \in 1 .. Len(z) : i <= j => <<z[j], z[i]>> \notin Precedence(ToSet(l.all), params)

\* The store puts what matches in that order, or leaves it as it is held.
LEMMA SortResourcesIs ==
  ASSUME NEW l \in Lists, NEW params, params = ListParams(l.query, l.body, l.sizes), params # BadFilter
  PROVE  InOrder(SortResources(Matching(l.all, params.filter), params.sortBy, params.descending), l, params)
<1>1. PICK all, T, m, z : /\ all = l.all /\ T = ToSet(all) /\ m = Matching(all, params.filter)
                          /\ z = SortResources(m, params.sortBy, params.descending)
  OBVIOUS
<1>2. PICK path, text, descending :
        text = params.sortBy /\ path = ParsePath(text) /\ descending = params.descending
  OBVIOUS
<1>3. PICK found : found = {r \in T : Selects(params.filter, r)}
  OBVIOUS
<1>4. IsListOf(all) /\ IsInjective(all)
  BY <1>1, ListsAssumption
<1>5. m \in Seq(T) /\ IsInjective(m) /\ ToSet(m) = found
  BY <1>1, <1>3, <1>4, MatchingIs
<1>6. CASE text = <<>> \/ path = BadPath
  <2>1. z = m
    BY <1>1, <1>2, <1>6 DEF SortResources, SortBy
  <2>2. Precedence(T, params) = {}
    BY <1>2, <1>6 DEF Precedence
  <2> QED
    BY <1>1, <1>3, <1>5, <2>1, <2>2 DEF InOrder
<1>7. CASE text # <<>> /\ path # BadPath
  <2>1. z = SortBy(m, path, descending)
    BY <1>1, <1>2, <1>7 DEF SortResources
  <2>2. \A r \in T : IsKey(sortValue(r, path))
    <3>1. text \in {l.query.sortBy} \cup IF l.body = None THEN {} ELSE {l.body.query.sortBy}
      BY <1>2, SortByIsGiven
    <3>2. \A i \in DOMAIN all : IsKey(sortValue(all[i], path))
      BY <1>1, <1>2, <1>7, <3>1, ListsAssumption
    <3> QED
      BY <1>1, <3>2 DEF ToSet
  <2>3. descending \in BOOLEAN
    BY <1>2, Parameters DEF AskedFor
  <2>4. Ordered(T, path, descending)
    BY <2>2, <2>3, SortsBeforeIsOrdered
  <2>5. z \in Seq(T) /\ SortedSet(z, found, path, descending)
    BY <1>5, <1>7, <2>1, <2>4, SortByIs
  <2>6. IsInjective(z) /\ ToSet(z) = found
    BY <2>5 DEF SortedSet
  <2>7. ASSUME NEW i \in 1 .. Len(z), NEW j \in 1 .. Len(z), i <= j
        PROVE  ~ SortsBefore(z[j], z[i], path, descending)
    <3>1. CASE i < j
      BY <2>5, <3>1 DEF SortedSet
    <3>2. CASE i = j
      <4>1. z[i] \in T
        BY <2>5
      <4> QED
        BY <2>4, <3>2, <4>1 DEF Ordered
    <3> QED
      BY <2>7, <3>1, <3>2
  <2>8. ASSUME NEW i \in 1 .. Len(z), NEW j \in 1 .. Len(z), i <= j
        PROVE  <<z[j], z[i]>> \notin Precedence(T, params)
    BY <1>2, <2>7, <2>8 DEF Precedence
  <2> QED
    BY <1>1, <1>3, <2>5, <2>6, <2>8 DEF InOrder
<1> QED
  BY <1>6, <1>7

\* What PageIsAsked says of a page.
RightPage(page, l, params, found, R) ==
  /\ l.sizes.max > 0 => page # Internal
  /\ IsPage(page) =>
       /\ l.sizes.max > 0 => page.items <= l.sizes.max
       /\ page.total = Cardinality(found)
       /\ page.items = Cardinality(ToSet(page.resources))
       /\ page.items = AtLeast(AtMost(params.count, page.total - (params.start - 1)), 0)
       /\ \A i \in DOMAIN page.resources :
            LET r == page.resources[i]
                position == page.start - 1 + i
            IN  /\ r \in found
                /\ Cardinality({s \in found : <<s, r>> \in R}) < position
                /\ Cardinality({s \in found : <<r, s>> \in R}) <= page.total - position

\* The page of the in-memory store is the one that was asked for.
LEMMA MemoryListIs ==
  ASSUME NEW l \in Lists, NEW params, params = ListParams(l.query, l.body, l.sizes), params # BadFilter
  PROVE  RightPage(MemoryList(l.all, params), l, params,
                   {r \in ToSet(l.all) : Selects(params.filter, r)}, Precedence(ToSet(l.all), params))
<1>1. PICK all, T, z, found, R :
        /\ all = l.all /\ T = ToSet(all)
        /\ z = SortResources(Matching(all, params.filter), params.sortBy, params.descending)
        /\ found = {r \in T : Selects(params.filter, r)} /\ R = Precedence(T, params)
  OBVIOUS
<1>2. PICK page : page = MemoryList(all, params)
  OBVIOUS
<1>3. page = Cut(z, params)
  BY <1>1, <1>2 DEF MemoryList
<1>4. /\ z \in Seq(T) /\ IsInjective(z) /\ ToSet(z) = found
      /\ \A i, j \in 1 .. Len(z) : i <= j => <<z[j], z[i]>> \notin R
  BY <1>1, SortResourcesIs DEF InOrder
<1>5. IsFiniteSet(found) /\ Cardinality(found) = Len(z) /\ Len(z) \in Nat
  BY <1>4, CountsAll
<1>6. PICK max : max = l.sizes.max
  OBVIOUS
<1>7. MaxInt \in Nat /\ max \in 0 .. MaxInt /\ Len(z) + max <= MaxInt
  <2>1. MaxInt \in Nat /\ max \in 0 .. MaxInt
    BY <1>6, ListsAssumption, PagesAssumption
  <2>2. all \in Seq(T) /\ IsInjective(all) /\ Len(all) + max <= MaxInt
    BY <1>1, <1>6, ListsAssumption DEF IsListOf
  <2>3. IsFiniteSet(T) /\ Cardinality(T) = Len(all) /\ Len(all) \in Nat
    BY <1>1, <2>2, CountsAll
  <2>4. found \in SUBSET T
    BY <1>1
  <2>5. Cardinality(found) <= Cardinality(T)
    BY <2>3, <2>4, FS_Subset
  <2> QED
    BY <1>5, <2>1, <2>2, <2>3, <2>5
<1>8. PICK start, count : start = params.start /\ count = params.count
  OBVIOUS
<1>9. start \in Nat /\ start >= 1 /\ count \in 0 .. MaxInt /\ (max > 0 => count <= max)
  BY <1>6, <1>8, Parameters DEF AskedFor
<1>10. Len(z) <= MaxInt
  BY <1>5, <1>7
<1>11. /\ Len(z) + count <= MaxInt => page # Internal
       /\ page # Internal => PageOf(page, z, T, start, count)
  BY <1>3, <1>4, <1>7, <1>8, <1>9, <1>10, CutIs
<1>12. max > 0 => page # Internal
  BY <1>5, <1>7, <1>9, <1>11
<1>13. ASSUME IsPage(page)
       PROVE  /\ max > 0 => page.items <= max
              /\ page.total = Cardinality(found)
              /\ page.items = Cardinality(ToSet(page.resources))
              /\ page.items = AtLeast(AtMost(count, page.total - (start - 1)), 0)
              /\ \A i \in DOMAIN page.resources :
                   LET r == page.resources[i]
                       position == page.start - 1 + i
                   IN  /\ r \in found
                       /\ Cardinality({s \in found : <<s, r>> \in R}) < position
                       /\ Cardinality({s \in found : <<r, s>> \in R}) <= page.total - position
  <2>1. page # Internal
    BY <1>13 DEF IsPage, Internal
  <2>2. PICK rs, items, n : rs = page.resources /\ items = page.items /\ n = Len(z)
    OBVIOUS
  <2>3. /\ rs \in Seq(T) /\ page.total = n /\ page.start = start
        /\ items = AtLeast(AtMost(count, n - (start - 1)), 0)
        /\ DOMAIN rs = 1 .. items
        /\ \A i \in 1 .. items : start - 1 + i \in 1 .. n /\ rs[i] = z[start - 1 + i]
    BY <1>11, <2>1, <2>2 DEF PageOf
  <2>4. items \in Nat /\ items <= count
    BY <1>5, <1>9, <2>2, <2>3 DEF AtLeast, AtMost
  <2>5. items = Cardinality(ToSet(rs))
    <3>1. IsInjective(rs)
      <4>1. ASSUME NEW i \in 1 .. items, NEW j \in 1 .. items, rs[i] = rs[j] PROVE i = j
        <5>1. PICK p, q : p = start - 1 + i /\ q = start - 1 + j
          OBVIOUS
        <5>2. p \in 1 .. n /\ q \in 1 .. n /\ z[p] = z[q]
          BY <2>3, <4>1, <5>1
        <5>3. p = q
          BY <1>4, <2>2, <5>2 DEF IsInjective
        <5> QED
          BY <1>9, <2>4, <5>1, <5>3
      <4> QED
        BY <2>3, <4>1 DEF IsInjective
    <3>2. Cardinality(ToSet(rs)) = Len(rs)
      BY <2>3, <3>1, CountsAll
    <3>3. Len(rs) = items
      BY <2>3, <2>4
    <3> QED
      BY <3>2, <3>3
  <2>6. ASSUME NEW i \in 1 .. items
        PROVE  /\ rs[i] \in found
               /\ Cardinality({s \in found : <<s, rs[i]>> \in R}) < start - 1 + i
               /\ Cardinality({s \in found : <<rs[i], s>> \in R}) <= n - (start - 1 + i)
    <3>1. PICK p : p = start - 1 + i
      OBVIOUS
    <3>2. p \in 1 .. n /\ rs[i] = z[p]
      BY <2>3, <3>1
    <3>3. z[p] \in found
      BY <1>4, <2>2, <3>2 DEF ToSet
    <3>4. /\ Cardinality({s \in ToSet(z) : <<s, z[p]>> \in R}) < p
          /\ Cardinality({s \in ToSet(z) : <<z[p], s>> \in R}) <= Len(z) - p
      BY <1>4, <2>2, <3>2, Ranked
    <3> QED
      BY <1>4, <2>2, <3>1, <3>2, <3>3, <3>4
  <2>7. max > 0 => items <= max
    BY <1>7, <1>9, <2>4
  <2>8. page.start - 1 = start - 1 /\ page.total = Cardinality(found) /\ DOMAIN page.resources = 1 .. items
    BY <1>5, <2>2, <2>3
  <2>9. ASSUME NEW i \in DOMAIN page.resources
        PROVE  /\ page.resources[i] \in found
               /\ Cardinality({s \in found : <<s, page.resources[i]>> \in R}) < page.start - 1 + i
               /\ Cardinality({s \in found : <<page.resources[i], s>> \in R}) <= page.total - (page.start - 1 + i)
    <3>1. i \in 1 .. items /\ page.resources[i] = rs[i] /\ page.total = n /\ page.start = start
      BY <2>2, <2>3
    <3> QED
      BY <2>6, <3>1
  <2> QED
    BY <2>2, <2>3, <2>5, <2>7, <2>8, <2>9
<1>14. RightPage(page, l, params, found, R)
  BY <1>6, <1>8, <1>12, <1>13 DEF RightPage
<1> QED
  BY <1>1, <1>2, <1>14

\* The page of a list is the page that was asked for, in every store that has
\* each resource once and is sorted by values that compare.
THEOREM ListsArePages == Spec => []PageIsAsked
<1>1. ASSUME AnswersAreRight PROVE PageIsAsked
  <2> SUFFICES ASSUME Answered("list") PROVE PageIsAsked
    BY DEF PageIsAsked
  <2>1. PICK l \in Lists : l = input.of /\ answer.is = ListAnswer(l)
    BY <1>1, ListAnswers
  <2>2. PICK page, params : page = answer.is.direct /\ params = ListParams(l.query, l.body, l.sizes)
    OBVIOUS
  <2>3. page = PageOrRefusal(l.all, params)
    BY <2>1, <2>2 DEF ListAnswer, HandleList
  <2>4. CASE params = BadFilter
    <3>1. page = BadFilter
      BY <2>3, <2>4 DEF PageOrRefusal
    <3>2. page # Internal /\ ~ IsPage(page)
      BY <3>1 DEF BadFilter, Internal, IsPage
    <3> QED
      BY <2>1, <2>2, <3>2 DEF PageIsAsked
  <2>5. CASE params # BadFilter
    <3>1. PICK T, found, path :
            /\ T = ToSet(l.all) /\ found = {r \in T : Selects(params.filter, r)}
            /\ path = ParsePath(params.sortBy)
      OBVIOUS
    <3>2. PICK R : R = Precedence(T, params)
      OBVIOUS
    <3>3. page = MemoryList(l.all, params)
      BY <2>3, <2>5 DEF PageOrRefusal
    <3>4. RightPage(page, l, params, found, R)
      BY <2>2, <2>5, <3>1, <3>2, <3>3, MemoryListIs
    <3>5. ASSUME NEW r \in found, NEW s \in found
          PROVE  (params.sortBy # <<>> /\ path # BadPath /\ SortsBefore(r, s, path, params.descending))
                 <=> <<r, s>> \in R
      BY <3>1, <3>2 DEF Precedence
    <3>6. ASSUME NEW r \in found
          PROVE  /\ {s \in found : params.sortBy # <<>> /\ path # BadPath /\ SortsBefore(s, r, path, params.descending)}
                    = {s \in found : <<s, r>> \in R}
                 /\ {s \in found : params.sortBy # <<>> /\ path # BadPath /\ SortsBefore(r, s, path, params.descending)}
                    = {s \in found : <<r, s>> \in R}
      BY <3>5
    <3> DEFINE B(r, s) == params.sortBy # <<>> /\ path # BadPath /\ SortsBefore(r, s, path, params.descending)
    <3>7. l.sizes.max > 0 => page # Internal
      BY <3>4 DEF RightPage
    <3>8. IsPage(page) =>
            /\ l.sizes.max > 0 => page.items <= l.sizes.max
            /\ page.total = Cardinality(found)
            /\ page.items = Cardinality(ToSet(page.resources))
            /\ page.items = AtLeast(AtMost(params.count, page.total - (params.start - 1)), 0)
      BY <3>4 DEF RightPage
    <3>9. ASSUME IsPage(page), NEW i \in DOMAIN page.resources
          PROVE  LET r == page.resources[i]
                     position == page.start - 1 + i
                 IN  /\ r \in found
                     /\ Cardinality({s \in found : B(s, r)}) < position
                     /\ Cardinality({s \in found : B(r, s)}) <= page.total - position
      <4>1. PICK r : r = page.resources[i]
        OBVIOUS
      <4>2. /\ r \in found
            /\ Cardinality({s \in found : <<s, r>> \in R}) < page.start - 1 + i
            /\ Cardinality({s \in found : <<r, s>> \in R}) <= page.total - (page.start - 1 + i)
        BY <3>4, <3>9, <4>1 DEF RightPage
      <4>3. {s \in found : B(s, r)} = {s \in found : <<s, r>> \in R} /\ {s \in found : B(r, s)} = {s \in found : <<r, s>> \in R}
        BY <3>6, <4>2
      <4> QED
        BY <4>1, <4>2, <4>3
    <3>10. input.of = l /\ answer.is.direct = page /\ ListParams(l.query, l.body, l.sizes) = params
      BY <2>1, <2>2
    <3>11. {r \in ToSet(l.all) : Selects(params.filter, r)} = found /\ ParsePath(params.sortBy) = path
      BY <3>1
    <3> QED
      BY <3>7, <3>8, <3>9, <3>10, <3>11 DEF PageIsAsked
  <2> QED
    BY <2>4, <2>5
<1> QED
  BY <1>1, AnswersOfInputs, PTL

-----------------------------------------------------------------------------
(* PATCH.                                                                   *)

\* result[n] is what the first n operations have made of attrs.
Results(result, attrs, ops, n) ==
  /\ result = [k \in 0 .. n |-> result[k]]
  /\ result[0] = Done(attrs)
  /\ \A k \in 1 .. n : result[k] = AfterOp(result[k - 1], ops[k])

\* The recursive function of ApplyPatch is that loop.
LEMMA ApplyPatchIs ==
  ASSUME NEW attrs, NEW ops, Len(ops) \in Nat
  PROVE  \E result : Results(result, attrs, ops, Len(ops)) /\ ApplyPatch(attrs, ops) = result[Len(ops)]
<1>1. PICK N : N = Len(ops)
  OBVIOUS
<1> DEFINE P(n) == \E f : Results(f, attrs, ops, n)
           S == {n \in Nat : P(n)}
<1>2. P(0)
  <2>1. PICK f : f = [k \in 0 .. 0 |-> Done(attrs)]
    OBVIOUS
  <2>2. Results(f, attrs, ops, 0)
    BY <2>1 DEF Results
  <2> QED
    BY <2>2
<1>3. ASSUME NEW n \in Nat, P(n) PROVE P(n + 1)
  <2>1. PICK f : Results(f, attrs, ops, n)
    BY <1>3
  <2>2. PICK m, v : m = n + 1 /\ v = AfterOp(f[n], ops[n + 1])
    OBVIOUS
  <2>3. PICK g : g = [k \in 0 .. m |-> IF k <= n THEN f[k] ELSE v]
    OBVIOUS
  <2>4. g = [k \in 0 .. m |-> g[k]] /\ g[0] = Done(attrs)
    BY <2>1, <2>2, <2>3 DEF Results
  <2>5. ASSUME NEW k \in 1 .. m PROVE g[k] = AfterOp(g[k - 1], ops[k])
    <3>1. CASE k <= n
      <4>1. k \in 1 .. n /\ k \in 0 .. m /\ k - 1 \in 0 .. m /\ k - 1 <= n
        BY <2>2, <3>1
      <4>2. g[k] = f[k] /\ g[k - 1] = f[k - 1]
        BY <2>3, <3>1, <4>1
      <4> QED
        BY <2>1, <4>1, <4>2 DEF Results
    <3>2. CASE k = m
      <4>1. k - 1 = n /\ n \in 0 .. m /\ m \in 0 .. m /\ ~ (m <= n)
        BY <2>2, <3>2
      <4>2. g[k] = v /\ g[k - 1] = f[n]
        BY <2>3, <3>2, <4>1
      <4> QED
        BY <2>2, <3>2, <4>2
    <3> QED
      BY <2>2, <3>1, <3>2
  <2>6. Results(g, attrs, ops, m)
    BY <2>4, <2>5 DEF Results
  <2> QED
    BY <2>2, <2>6
<1>4. P(N)
  <2> HIDE DEF P
  <2>1. 0 \in S /\ \A n \in Nat : n \in S => n + 1 \in S
    BY <1>2, <1>3
  <2>2. Nat \subseteq S
    <3> HIDE DEF S
    <3> QED
      BY <2>1, Induction
  <2> QED
    BY <1>1, <2>2
<1> DEFINE Loop(g) == g = [n \in 0 .. Len(ops) |-> IF n = 0 THEN Done(attrs) ELSE AfterOp(g[n - 1], ops[n])]
<1>5. \E g : Loop(g)
  <2>1. PICK f : Results(f, attrs, ops, N)
    BY <1>4
  <2>2. \A n \in 0 .. N : f[n] = IF n = 0 THEN Done(attrs) ELSE AfterOp(f[n - 1], ops[n])
    <3>1. ASSUME NEW n \in 0 .. N, n # 0 PROVE n \in 1 .. N
      <4>1. n \in Int /\ 0 <= n /\ n <= N
        BY <1>1
      <4> QED
        BY <1>1, <3>1, <4>1
    <3> QED
      BY <2>1, <3>1 DEF Results
  <2>3. f = [n \in 0 .. N |-> f[n]]
    BY <2>1 DEF Results
  <2>4. Loop(f)
    BY <1>1, <2>2, <2>3
  <2> QED
    BY <2>4
<1>6. PICK g : g = CHOOSE x : Loop(x)
  OBVIOUS
<1>7. Loop(g)
  <2> HIDE DEF Loop
  <2> QED
    BY <1>5, <1>6
<1>8. ApplyPatch(attrs, ops) = g[N]
  BY <1>1, <1>6 DEF ApplyPatch
<1>9. \A n \in 0 .. N : g[n] = IF n = 0 THEN Done(attrs) ELSE AfterOp(g[n - 1], ops[n])
  BY <1>1, <1>7
<1>10. g = [n \in 0 .. N |-> g[n]]
  BY <1>1, <1>7
<1>11. 0 \in 0 .. N /\ \A n \in 1 .. N : n \in 0 .. N /\ n # 0
  BY <1>1
<1>12. Results(g, attrs, ops, N)
  BY <1>9, <1>10, <1>11 DEF Results
<1> QED
  BY <1>1, <1>8, <1>12

\* A request of one operation.
LEMMA ApplyOne ==
  ASSUME NEW attrs, NEW ops, Len(ops) = 1
  PROVE  ApplyPatch(attrs, ops) = applyOp(attrs, ops[1])
<1>1. PICK result : Results(result, attrs, ops, Len(ops)) /\ ApplyPatch(attrs, ops) = result[Len(ops)]
  <2>1. Len(ops) \in Nat
    OBVIOUS
  <2> QED
    BY <2>1, ApplyPatchIs
<1>2. result[0] = Done(attrs) /\ result[1] = AfterOp(result[1 - 1], ops[1])
  BY <1>1 DEF Results
<1>3. ~ Fails(Done(attrs)) /\ Done(attrs).attrs = attrs
  BY DEF Fails, Done
<1>4. result[1] = AfterOp(Done(attrs), ops[1])
  BY <1>2
<1> QED
  BY <1>1, <1>3, <1>4 DEF AfterOp

\* FieldsFrame, over all names.
FieldsKept(before, after, names) ==
  \/ after = before
  \/ /\ IsMap(after) /\ \E n : n \in names
     /\ \A n : n \notin names => lookupAttr(after.m, n) = lookupAttr(Fields(before), n)

FieldsOf(n, places) == {place[2] : place \in {x \in places : x[1] = n}}

\* after has the attributes of before, and their fields, but for the places named.
SameBut(after, before, places) ==
  \A n : <<n, "">> \notin places =>
    FieldsKept(lookupAttr(before, n), lookupAttr(after, n), FieldsOf(n, places))

LEMMA KeptTwice ==
  ASSUME NEW u, NEW v, NEW w, NEW S, NEW T, NEW U, S \subseteq U, T \subseteq U,
         FieldsKept(u, v, S), FieldsKept(v, w, T)
  PROVE  FieldsKept(u, w, U)
<1>1. CASE v = u
  BY <1>1 DEF FieldsKept
<1>2. CASE v # u /\ w = v
  BY <1>2 DEF FieldsKept
<1>3. CASE v # u /\ w # v
  <2>1. /\ IsMap(v) /\ \A n : n \notin S => lookupAttr(v.m, n) = lookupAttr(Fields(u), n)
        /\ IsMap(w) /\ \E n : n \in T
        /\ \A n : n \notin T => lookupAttr(w.m, n) = lookupAttr(Fields(v), n)
    BY <1>3 DEF FieldsKept
  <2>2. Fields(v) = v.m
    BY <2>1 DEF Fields
  <2>3. ASSUME NEW n, n \notin U PROVE lookupAttr(w.m, n) = lookupAttr(Fields(u), n)
    BY <2>1, <2>2, <2>3
  <2>4. \E n : n \in U
    BY <2>1
  <2> QED
    BY <2>1, <2>3, <2>4 DEF FieldsKept
<1> QED
  BY <1>1, <1>2, <1>3

LEMMA SameTwice ==
  ASSUME NEW first, NEW second, NEW third, NEW S, NEW T, NEW U, S \subseteq U, T \subseteq U,
         SameBut(second, first, S), SameBut(third, second, T)
  PROVE  SameBut(third, first, U)
<1> SUFFICES ASSUME NEW n, <<n, "">> \notin U
             PROVE  FieldsKept(lookupAttr(first, n), lookupAttr(third, n), FieldsOf(n, U))
  BY DEF SameBut
<1> <<n, "">> \notin S /\ <<n, "">> \notin T
  OBVIOUS
<1>1. /\ FieldsKept(lookupAttr(first, n), lookupAttr(second, n), FieldsOf(n, S))
      /\ FieldsKept(lookupAttr(second, n), lookupAttr(third, n), FieldsOf(n, T))
  BY DEF SameBut
<1>2. FieldsOf(n, S) \subseteq FieldsOf(n, U) /\ FieldsOf(n, T) \subseteq FieldsOf(n, U)
  BY DEF FieldsOf
<1>3. PICK u, v, w : u = lookupAttr(first, n) /\ v = lookupAttr(second, n) /\ w = lookupAttr(third, n)
  OBVIOUS
<1>4. PICK A, B, C : A = FieldsOf(n, S) /\ B = FieldsOf(n, T) /\ C = FieldsOf(n, U)
  OBVIOUS
<1>5. A \subseteq C /\ B \subseteq C /\ FieldsKept(u, v, A) /\ FieldsKept(v, w, B)
  BY <1>1, <1>2, <1>3, <1>4
<1>6. FieldsKept(u, w, C)
  BY <1>5, KeptTwice
<1> QED
  BY <1>3, <1>4, <1>6

\* Writing a whole attribute, writing one field of it.
LEMMA OneAttr ==
  ASSUME NEW attrs, NEW attr, NEW v
  PROVE  /\ SameBut(setAttr(attrs, attr, v), attrs, {<<attr, "">>})
         /\ SameBut(deleteAttr(attrs, attr), attrs, {<<attr, "">>})
         /\ \A places : SameBut(attrs, attrs, places)
<1>1. ASSUME NEW n, n # attr
      PROVE  /\ lookupAttr(setAttr(attrs, attr, v), n) = lookupAttr(attrs, n)
             /\ lookupAttr(deleteAttr(attrs, attr), n) = lookupAttr(attrs, n)
  BY <1>1 DEF setAttr, deleteAttr, lookupAttr, Restrict
<1> QED
  BY <1>1 DEF SameBut, FieldsKept

LEMMA OneField ==
  ASSUME NEW attrs, NEW attr, NEW sub, NEW fields, NEW places, places = {<<attr, sub>>},
         \A n : n # sub => lookupAttr(fields, n) = lookupAttr(Fields(lookupAttr(attrs, attr)), n)
  PROVE  SameBut(setAttr(attrs, attr, Map(fields)), attrs, places)
<1> SUFFICES ASSUME NEW n
             PROVE  FieldsKept(lookupAttr(attrs, n), lookupAttr(setAttr(attrs, attr, Map(fields)), n),
                               FieldsOf(n, places))
  BY DEF SameBut
<1>1. CASE n # attr
  <2>1. lookupAttr(setAttr(attrs, attr, Map(fields)), n) = lookupAttr(attrs, n)
    BY <1>1 DEF setAttr, lookupAttr
  <2> QED
    BY <2>1 DEF FieldsKept
<1>2. CASE n = attr
  <2>1. lookupAttr(setAttr(attrs, attr, Map(fields)), n) = Map(fields)
    BY <1>2 DEF setAttr, lookupAttr
  <2>2. Map(fields).m = fields /\ IsMap(Map(fields))
    BY DEF Map, IsMap
  <2>3. FieldsOf(n, places) = {sub}
    <3>1. PICK place : place = <<attr, sub>>
      OBVIOUS
    <3>2. place[1] = n /\ place[2] = sub
      BY <1>2, <3>1
    <3>3. places = {place}
      BY <3>1
    <3>4. {x \in places : x[1] = n} = {place}
      BY <3>2, <3>3
    <3> QED
      BY <3>2, <3>4 DEF FieldsOf
  <2> QED
    BY <1>2, <2>1, <2>2, <2>3 DEF FieldsKept
<1> QED
  BY <1>1, <1>2

\* SetAttr and DeleteAttr touch one attribute, or one field of it.
LEMMA SetKeeps ==
  ASSUME NEW attrs, NEW p, NEW v, NEW places, places = {<<p.attr, p.sub>>}
  PROVE  SameBut(SetAttr(attrs, p, v), attrs, places) /\ SameBut(DeleteAttr(attrs, p), attrs, places)
<1>1. PICK attr, sub, parent : attr = p.attr /\ sub = p.sub /\ parent = lookupAttr(attrs, attr)
  OBVIOUS
<1>2. PICK fields : fields = Fields(parent)
  OBVIOUS
<1>3. CASE sub = ""
  <2>1. SetAttr(attrs, p, v) = setAttr(attrs, attr, v) /\ DeleteAttr(attrs, p) = deleteAttr(attrs, attr)
    BY <1>1, <1>3 DEF SetAttr, DeleteAttr
  <2>2. places = {<<attr, "">>}
    BY <1>1, <1>3
  <2>3. SameBut(setAttr(attrs, attr, v), attrs, places) /\ SameBut(deleteAttr(attrs, attr), attrs, places)
    BY ONLY <2>2, OneAttr
  <2> QED
    BY ONLY <2>1, <2>3
<1>4. CASE sub # ""
  <2>1. SetAttr(attrs, p, v) = setAttr(attrs, attr, Map(setAttr(fields, sub, v)))
    BY <1>1, <1>2, <1>4 DEF SetAttr, Fields
  <2>2. IsMap(parent) => DeleteAttr(attrs, p) = setAttr(attrs, attr, Map(deleteAttr(fields, sub)))
    BY <1>1, <1>2, <1>4 DEF DeleteAttr, Fields
  <2>3. ~ IsMap(parent) => DeleteAttr(attrs, p) = attrs
    BY <1>1, <1>4 DEF DeleteAttr
  <2> HIDE <1>4
  <2>4. /\ \A n : n # sub => lookupAttr(setAttr(fields, sub, v), n) = lookupAttr(fields, n)
        /\ \A n : n # sub => lookupAttr(deleteAttr(fields, sub), n) = lookupAttr(fields, n)
    BY DEF setAttr, deleteAttr, lookupAttr, Restrict
  <2>5. places = {<<attr, sub>>}
    BY <1>1
  <2>6. SameBut(SetAttr(attrs, p, v), attrs, places)
    BY <1>1, <1>2, <2>1, <2>4, <2>5, OneField
  <2>7. SameBut(DeleteAttr(attrs, p), attrs, places)
    <3>1. CASE IsMap(parent)
      BY <1>1, <1>2, <2>2, <2>4, <2>5, <3>1, OneField
    <3>2. CASE ~ IsMap(parent)
      BY <2>3, <3>2, OneAttr
    <3> QED
      BY <3>1, <3>2
  <2> QED
    BY <2>6, <2>7
<1> QED
  BY <1>3, <1>4

\* What is true of every result of an operation: an error, or what Done holds.
Outcome(r, attrs, names) ==
  Fails(r) \/ (r = Done(r.attrs) /\ SameBut(r.attrs, attrs, names))

\* An error changes nothing; a result is as good as its attributes.
LEMMA Outcomes ==
  ASSUME NEW attrs, NEW names
  PROVE  /\ \A e : Outcome(Err(e), attrs, names)
         /\ \A after : SameBut(after, attrs, names) => Outcome(Done(after), attrs, names)
BY DEF Outcome, Err, Done, Fails

\* An operation that was parsed.
IsOp(op) == op.op \in {"add", "remove", "replace"}

\* An operation changes the attributes it names, or fails.
LEMMA OpKeeps ==
  ASSUME NEW attrs, NEW op, IsOp(op)
  PROVE  Outcome(applyOp(attrs, op), attrs, Named(op))
<1>1. CASE op.path = None
  <2>1. CASE op.op = "remove"
    BY <1>1, <2>1, Outcomes DEF applyOp
  <2>2. CASE op.op # "remove"
    <3>1. applyOp(attrs, op) = Merge(attrs, op.value)
      BY <1>1, <2>2 DEF applyOp
    <3>2. CASE IsMap(op.value)
      <4>1. PICK m : m = op.value.m
        OBVIOUS
      <4>2. SameBut(Merged(attrs, m), attrs, Named(op))
        <5>1. Named(op) = {<<n, "">> : n \in DOMAIN m}
          BY <1>1, <3>2, <4>1 DEF Named
        <5>2. ASSUME NEW n, n \notin DOMAIN m PROVE lookupAttr(Merged(attrs, m), n) = lookupAttr(attrs, n)
          BY <5>2 DEF Merged, lookupAttr
        <5> QED
          BY <5>1, <5>2 DEF SameBut, FieldsKept
      <4> QED
        BY <3>1, <3>2, <4>1, <4>2, Outcomes DEF Merge
    <3>3. CASE ~ IsMap(op.value)
      BY <3>1, <3>3, Outcomes DEF Merge
    <3> QED
      BY <3>2, <3>3
  <2> QED
    BY <2>1, <2>2
<1>2. CASE op.path # None
  <2>1. PICK p, value, names : p = op.path /\ value = op.value /\ names = {<<p.attr.attr, p.attr.sub>>}
    OBVIOUS
  <2>2. Named(op) = names
    BY <1>2, <2>1 DEF Named
  <2>3. ASSUME NEW v PROVE Outcome(Done(SetAttr(attrs, p.attr, v)), attrs, names)
    BY <2>1, SetKeeps, Outcomes
  <2>4. Outcome(Done(DeleteAttr(attrs, p.attr)), attrs, names)
    BY <2>1, SetKeeps, Outcomes
  <2>5. Outcome(Done(attrs), attrs, names)
    BY OneAttr, Outcomes
  <2>6. Outcome(applyAdd(attrs, p, value), attrs, names)
    BY <2>3, Outcomes DEF applyAdd
  <2>7. Outcome(applyRemove(attrs, p), attrs, names)
    BY <2>3, <2>4, <2>5 DEF applyRemove
  <2>8. Outcome(applyReplace(attrs, p, value), attrs, names)
    BY <2>3 DEF applyReplace
  <2>9. applyOp(attrs, op) \in {applyAdd(attrs, p, value), applyRemove(attrs, p), applyReplace(attrs, p, value)}
    BY <1>2, <2>1 DEF applyOp, IsOp
  <2> QED
    BY <2>2, <2>6, <2>7, <2>8, <2>9
<1> QED
  BY <1>1, <1>2

\* A whole request changes what its operations name, or nothing.
LEMMA PatchKeeps ==
  ASSUME NEW attrs, NEW ops, Len(ops) \in Nat, \A i \in 1 .. Len(ops) : IsOp(ops[i])
  PROVE  Outcome(ApplyPatch(attrs, ops), attrs, UNION {Named(ops[i]) : i \in 1 .. Len(ops)})
<1>1. PICK result : Results(result, attrs, ops, Len(ops)) /\ ApplyPatch(attrs, ops) = result[Len(ops)]
  BY ApplyPatchIs
<1>2. PICK N : N = Len(ops)
  OBVIOUS
<1>3. N \in Nat /\ result[0] = Done(attrs) /\ \A k \in 1 .. N : result[k] = AfterOp(result[k - 1], ops[k])
  BY <1>1, <1>2 DEF Results
<1> DEFINE First(n) == UNION {Named(ops[i]) : i \in 1 .. n}
           P(n) == n <= N => Outcome(result[n], attrs, First(n))
           S == {n \in Nat : P(n)}
<1>4. P(0)
  <2>1. SameBut(attrs, attrs, First(0))
    BY OneAttr
  <2> HIDE DEF First
  <2> QED
    BY <1>3, <2>1, Outcomes
<1>5. ASSUME NEW n \in Nat, P(n) PROVE P(n + 1)
  <2> SUFFICES ASSUME n + 1 <= N PROVE Outcome(result[n + 1], attrs, First(n + 1))
    OBVIOUS
  <2>1. PICK m, r, op, F, G : m = n + 1 /\ r = result[n] /\ op = ops[m] /\ F = First(n) /\ G = First(m)
    OBVIOUS
  <2>2. m \in 1 .. N /\ m - 1 = n /\ n <= N
    BY <1>3, <2>1
  <2>3. Outcome(r, attrs, F)
    BY <1>5, <2>1, <2>2
  <2>4. result[m] = AfterOp(r, op) /\ IsOp(op)
    BY <1>2, <1>3, <2>1, <2>2
  <2>5. F \subseteq G /\ Named(op) \subseteq G
    <3>1. 1 .. n \subseteq 1 .. m /\ m \in 1 .. m
      BY <2>1
    <3> QED
      BY <2>1, <3>1
  <2>6. CASE Fails(r)
    <3>1. result[m] = r
      BY <2>4, <2>6 DEF AfterOp
    <3>2. Outcome(r, attrs, G)
      BY <2>6 DEF Outcome
    <3> QED
      BY <2>1, <3>1, <3>2
  <2>7. CASE ~ Fails(r)
    <3>1. PICK after : after = r.attrs
      OBVIOUS
    <3>2. SameBut(after, attrs, F)
      BY <2>3, <2>7, <3>1 DEF Outcome
    <3>3. result[m] = applyOp(after, op)
      BY <2>4, <2>7, <3>1 DEF AfterOp
    <3>4. Outcome(result[m], after, Named(op))
      BY <2>4, <3>3, OpKeeps
    <3>5. Outcome(result[m], attrs, G)
      BY <2>5, <3>2, <3>4, SameTwice DEF Outcome
    <3> QED
      BY <2>1, <3>5
  <2> QED
    BY <2>6, <2>7
<1>6. P(N)
  <2> HIDE DEF P
  <2>1. 0 \in S /\ \A n \in Nat : n \in S => n + 1 \in S
    BY <1>4, <1>5
  <2>2. Nat \subseteq S
    <3> HIDE DEF S
    <3> QED
      BY <2>1, Induction
  <2> QED
    BY <1>3, <2>2
<1>7. N <= N
  BY <1>3
<1> QED
  BY <1>1, <1>2, <1>6, <1>7

\* What an answer to a PATCH says is what the functions make of an input.
LEMMA PatchAnswers ==
  ASSUME AnswersAreRight, Answered("patch")
  PROVE  input.of \in Patches /\ answer.is = PatchAnswer(input.of)
<1>1. PICK p \in Patches : input = Case("patch", p) /\ answer = [kind |-> "patch", is |-> PatchAnswer(p)]
  BY DEF AnswersAreRight, Answered, NoAnswer, Case
<1>2. input.of = p /\ answer.is = PatchAnswer(p)
  BY <1>1 DEF Case
<1> QED
  BY <1>2

\* What parsing a request yields.
LEMMA ParsedOps ==
  ASSUME NEW raw, raw # None => IsListOf(raw.a), ~ Fails(ParsePatchRequest(raw))
  PROVE  LET ops == ParsePatchRequest(raw).ops
         IN  Len(ops) \in Nat /\ DOMAIN ops = 1 .. Len(ops) /\ \A i \in DOMAIN ops : IsOp(ops[i])
<1>1. raw # None
  BY DEF ParsePatchRequest, Fails, Err
<1>2. PICK list, n : list = raw.a /\ n = Len(list)
  OBVIOUS
<1>3. n \in Nat /\ DOMAIN list = 1 .. n
  BY <1>1, <1>2 DEF IsListOf
<1>4. PICK ops : ops = [i \in DOMAIN list |-> parsePatchOp(list[i])]
  OBVIOUS
<1>5. ParsePatchRequest(raw) = AllOrNone(ops)
  BY <1>1, <1>2, <1>4 DEF ParsePatchRequest
<1>6. (\A i \in DOMAIN ops : ~ Fails(ops[i])) /\ AllOrNone(ops) = [ops |-> ops]
  BY <1>5 DEF AllOrNone, Fails, Err
<1>7. ASSUME NEW i \in 1 .. n PROVE IsOp(ops[i])
  <2>1. PICK r : r = list[i]
    OBVIOUS
  <2>2. ops[i] = parsePatchOp(r) /\ ~ Fails(ops[i])
    BY <1>3, <1>4, <1>6, <2>1
  <2>3. r.op \in {"add", "remove", "replace"}
    BY <2>2 DEF parsePatchOp, Fails, Err
  <2>4. PICK path : parsePatchOp(r) = AtPath(r, path)
    BY <2>3 DEF parsePatchOp
  <2>5. AtPath(r, path) = PatchOp(r.op, path, r.value)
    BY <2>2, <2>4 DEF AtPath, Fails, Err
  <2> QED
    BY <2>2, <2>3, <2>4, <2>5 DEF IsOp, PatchOp
<1>8. Len(ops) = n /\ DOMAIN ops = 1 .. n
  <2>1. PICK V : V = {ops[i] : i \in 1 .. n}
    OBVIOUS
  <2>2. ops \in [1 .. n -> V]
    BY <1>3, <1>4, <2>1
  <2>3. ops \in Seq(V)
    BY <1>3, <2>2
  <2> QED
    BY <1>3, <2>2, <2>3
<1> QED
  BY <1>3, <1>5, <1>6, <1>7, <1>8

\* GetAttr finds what SetAttr has put.
LEMMA GetSet ==
  ASSUME NEW attrs, NEW p, NEW v
  PROVE  GetAttr(SetAttr(attrs, p, v), p) = v
<1>1. ASSUME NEW m, NEW name, NEW w PROVE lookupAttr(setAttr(m, name, w), name) = w
  BY DEF lookupAttr, setAttr
<1>2. ASSUME NEW m PROVE IsMap(Map(m)) /\ Map(m).m = m
  BY DEF IsMap, Map
<1> QED
  <2>1. PICK name, sub : name = p.attr /\ sub = p.sub
    OBVIOUS
  <2>2. CASE sub = ""
    <3>1. SetAttr(attrs, p, v) = setAttr(attrs, name, v)
      BY <2>1, <2>2 DEF SetAttr
    <3>2. lookupAttr(SetAttr(attrs, p, v), name) = v
      BY <1>1, <3>1
    <3> QED
      BY <2>1, <2>2, <3>2 DEF GetAttr
  <2>3. CASE sub # ""
    <3>1. PICK m : m = (IF IsMap(lookupAttr(attrs, name)) THEN lookupAttr(attrs, name).m ELSE <<>>)
      OBVIOUS
    <3>2. PICK w : w = Map(setAttr(m, sub, v))
      OBVIOUS
    <3>3. SetAttr(attrs, p, v) = setAttr(attrs, name, w)
      BY <2>1, <2>3, <3>1, <3>2 DEF SetAttr
    <3>4. lookupAttr(SetAttr(attrs, p, v), name) = w
      BY <1>1, <3>3
    <3>5. IsMap(w) /\ w.m = setAttr(m, sub, v) /\ lookupAttr(w.m, sub) = v
      BY <1>1, <1>2, <3>2
    <3> QED
      BY <2>1, <2>3, <3>4, <3>5 DEF GetAttr
  <2> QED
    BY <2>2, <2>3

\* The elements of an attribute are a list.
LEMMA ElementsAreAList ==
  ASSUME NEW attrs, ListsIn(attrs), NEW p
  PROVE  IsListOf(getMultiValued(GetAttr(attrs, p)))
<1>1. PICK val : val = GetAttr(attrs, p)
  OBVIOUS
<1>2. ~ IsArr(Nil)
  BY DEF IsArr, Nil
<1>3. CASE IsArr(val)
  <2>1. IsListOf(val.a)
    <3>1. PICK parent : parent = lookupAttr(attrs, p.attr)
      OBVIOUS
    <3>2. CASE p.sub = ""
      <4>1. val = parent
        BY <1>1, <3>1, <3>2 DEF GetAttr
      <4>2. p.attr \in DOMAIN attrs /\ val = attrs[p.attr]
        BY <1>2, <1>3, <3>1, <4>1 DEF lookupAttr
      <4> QED
        BY <1>3, <4>2 DEF ListsIn
    <3>3. CASE p.sub # ""
      <4>1. IsMap(parent) /\ val = lookupAttr(parent.m, p.sub)
        BY <1>1, <1>2, <1>3, <3>1, <3>3 DEF GetAttr
      <4>2. p.sub \in DOMAIN parent.m /\ val = parent.m[p.sub]
        BY <1>2, <1>3, <4>1 DEF lookupAttr
      <4>3. p.attr \in DOMAIN attrs /\ parent = attrs[p.attr]
        BY <3>1, <4>1 DEF lookupAttr, IsMap, Nil
      <4> QED
        BY <1>3, <4>1, <4>2, <4>3 DEF ListsIn
    <3> QED
      BY <3>2, <3>3
  <2> QED
    BY <1>1, <1>3, <2>1 DEF getMultiValued
<1>4. CASE ~ IsArr(val)
  <2>1. getMultiValued(val) = <<val>>
    BY <1>4 DEF getMultiValued
  <2>2. ToSet(<<val>>) = {val}
    BY DEF ToSet
  <2> QED
    BY <1>1, <2>1, <2>2 DEF IsListOf
<1> QED
  BY <1>3, <1>4

\* A list has its length, and its positions.
LEMMA ListIs ==
  ASSUME NEW s, IsListOf(s)
  PROVE  Len(s) \in Nat /\ DOMAIN s = 1 .. Len(s)
BY DEF IsListOf

\* A list of the same length, element by element.
LEMMA MappedLength ==
  ASSUME NEW s, IsListOf(s), NEW t, t = [i \in DOMAIN s |-> t[i]]
  PROVE  Len(t) = Len(s)
<1>1. PICK n, V : n = Len(s) /\ V = {t[i] : i \in 1 .. Len(s)}
  OBVIOUS
<1>2. n \in Nat /\ DOMAIN s = 1 .. n
  BY <1>1, ListIs
<1>3. t \in [1 .. n -> V]
  <2>1. \A i \in 1 .. n : t[i] \in V
    BY <1>1
  <2>2. t = [i \in 1 .. n |-> t[i]]
    BY <1>2
  <2> QED
    BY <2>1, <2>2
<1>4. t \in Seq(V)
  BY <1>2, <1>3
<1> QED
  BY <1>1, <1>2, <1>3, <1>4

\* What add and replace leave of the elements.
LEMMA WriteFrame ==
  ASSUME NEW elems, IsListOf(elems), NEW op, op.path # None, op.op # "remove"
  PROVE  ElementsFrame(op, elems, WriteElements(elems, op.path.filter, op.path.sub, op.value))
<1>1. PICK filter, sub, value, after :
        /\ filter = op.path.filter /\ sub = op.path.sub /\ value = op.value
        /\ after = WriteElements(elems, filter, sub, value)
  OBVIOUS
<1>2. after = [i \in DOMAIN elems |->
                 IF Matched(elems[i], filter) THEN Written(elems[i], sub, value) ELSE elems[i]]
  BY <1>1 DEF WriteElements
<1>3. Len(after) = Len(elems)
  <2>1. after = [i \in DOMAIN elems |-> after[i]]
    BY <1>2
  <2> QED
    BY <2>1, MappedLength
<1>4. ASSUME NEW i \in DOMAIN elems, ~ Matched(elems[i], filter) PROVE after[i] = elems[i]
  BY <1>2, <1>4
<1>5. ASSUME NEW i \in DOMAIN elems, Matched(elems[i], filter), IsMap(after[i]),
             NEW n \in DOMAIN elems[i].m \ WrittenNames(op)
      PROVE  lookupAttr(after[i].m, n) = elems[i].m[n]
  <2>1. PICK elem, m : elem = elems[i] /\ m = elem.m
    OBVIOUS
  <2>2. after[i] = Written(elem, sub, value)
    BY <1>2, <1>5, <2>1
  <2>3. CASE sub # ""
    <3>1. after[i] = Map(setAttr(m, sub, value)) /\ n # sub
      BY <1>1, <1>5, <2>1, <2>2, <2>3 DEF Written, WrittenNames
    <3>2. after[i].m = setAttr(m, sub, value)
      BY <3>1 DEF Map
    <3>3. lookupAttr(setAttr(m, sub, value), n) = m[n]
      BY <1>5, <2>1, <3>1 DEF lookupAttr, setAttr
    <3> QED
      BY <2>1, <3>2, <3>3
  <2>4. CASE sub = "" /\ IsMap(value)
    <3>1. after[i] = Map(Merged(m, value.m)) /\ n \notin DOMAIN value.m
      BY <1>1, <1>5, <2>1, <2>2, <2>4 DEF Written, WrittenNames
    <3>2. after[i].m = Merged(m, value.m)
      BY <3>1 DEF Map
    <3>3. lookupAttr(Merged(m, value.m), n) = m[n]
      BY <1>5, <2>1, <3>1 DEF lookupAttr, Merged
    <3> QED
      BY <2>1, <3>2, <3>3
  <2>5. CASE sub = "" /\ ~ IsMap(value)
    BY <1>5, <2>2, <2>5 DEF Written
  <2> QED
    BY <2>3, <2>4, <2>5
<1> QED
  BY <1>1, <1>3, <1>4, <1>5 DEF ElementsFrame

\* What remove leaves of the elements.
LEMMA RemoveFrame ==
  ASSUME NEW elems, IsListOf(elems), NEW op, op.path # None, op.op = "remove"
  PROVE  ElementsFrame(op, elems, RemoveElements(elems, op.path.filter, op.path.sub))
<1>1. PICK filter, sub, after :
        /\ filter = op.path.filter /\ sub = op.path.sub
        /\ after = RemoveElements(elems, filter, sub)
  OBVIOUS
<1>2. CASE sub = ""
  <2>1. PICK K, T : K = {i \in DOMAIN elems : ~ Matched(elems[i], filter)} /\ T = ToSet(elems)
    OBVIOUS
  <2>2. after = Kept(elems, K)
    BY <1>1, <1>2, <2>1 DEF RemoveElements
  <2>3. elems \in Seq(T) /\ DOMAIN elems = 1 .. Len(elems) /\ K \in SUBSET (1 .. Len(elems))
    BY <2>1, ListIs DEF IsListOf
  <2>4. after \in Seq(T) /\ \E from : Picks(from, after, elems, K)
    BY <2>2, <2>3, KeptIs
  <2>5. PICK from : Picks(from, after, elems, K)
    BY <2>4
  <2>6. DOMAIN after = 1 .. Len(after)
    BY <2>4
  <2>7. /\ from \in [DOMAIN after -> K]
        /\ \A i, j \in DOMAIN after : i < j => from[i] < from[j]
        /\ \A i \in DOMAIN after : after[i] = elems[from[i]]
        /\ \A k \in K : \E i \in DOMAIN after : from[i] = k
    BY <2>5, <2>6 DEF Picks
  <2>8. \A k \in DOMAIN elems : ~ Matched(elems[k], filter) => \E i \in DOMAIN after : from[i] = k
    BY <2>1, <2>7
  <2> QED
    <3>1. from \in [DOMAIN after -> {i \in DOMAIN elems : ~ Matched(elems[i], op.path.filter)}]
      BY <1>1, <2>1, <2>7
    <3>2. \E g \in [DOMAIN after -> {i \in DOMAIN elems : ~ Matched(elems[i], op.path.filter)}] :
            /\ \A i, j \in DOMAIN after : i < j => g[i] < g[j]
            /\ \A i \in DOMAIN after : after[i] = elems[g[i]]
            /\ \A k \in DOMAIN elems : ~ Matched(elems[k], op.path.filter) => \E i \in DOMAIN after : g[i] = k
      <4> from \in [DOMAIN after -> {i \in DOMAIN elems : ~ Matched(elems[i], op.path.filter)}]
        BY <3>1
      <4> WITNESS from \in [DOMAIN after -> {i \in DOMAIN elems : ~ Matched(elems[i], op.path.filter)}]
      <4> QED
        BY <1>1, <2>7, <2>8
    <3>3. ElementsFrame(op, elems, after)
      BY <1>1, <1>2, <3>2 DEF ElementsFrame
    <3> QED
      BY <1>1, <3>3
<1>3. CASE sub # ""
  <2>1. after = [i \in DOMAIN elems |->
                   IF Matched(elems[i], filter) THEN Map(deleteAttr(elems[i].m, sub)) ELSE elems[i]]
    BY <1>1, <1>3 DEF RemoveElements
  <2>2. Len(after) = Len(elems)
    <3>1. after = [i \in DOMAIN elems |-> after[i]]
      BY <2>1
    <3> QED
      BY <3>1, MappedLength
  <2>3. ASSUME NEW i \in DOMAIN elems, ~ Matched(elems[i], filter) PROVE after[i] = elems[i]
    BY <2>1, <2>3
  <2>4. ASSUME NEW i \in DOMAIN elems, Matched(elems[i], filter), NEW n \in DOMAIN elems[i].m \ WrittenNames(op)
        PROVE  lookupAttr(after[i].m, n) = elems[i].m[n]
    <3>1. PICK m : m = elems[i].m
      OBVIOUS
    <3>2. after[i].m = deleteAttr(m, sub) /\ n # sub
      <4>1. after[i] = Map(deleteAttr(m, sub))
        BY <2>1, <2>4, <3>1
      <4>2. WrittenNames(op) = {sub}
        BY <1>1, <1>3 DEF WrittenNames
      <4> QED
        BY <2>4, <4>1, <4>2 DEF Map
    <3>3. lookupAttr(deleteAttr(m, sub), n) = m[n]
      BY <2>4, <3>1, <3>2 DEF lookupAttr, deleteAttr, Restrict
    <3> QED
      BY <3>1, <3>2, <3>3
  <2> QED
    BY <1>1, <1>3, <2>2, <2>3, <2>4 DEF ElementsFrame
<1> QED
  BY <1>2, <1>3

\* An operation with a filter keeps the frame of the elements of its attribute.
LEMMA OpFrame ==
  ASSUME NEW attrs, ListsIn(attrs), NEW op, IsOp(op), op.path # None, op.path.filter # None,
         GetAttr(attrs, op.path.attr) # Nil, ~ Fails(applyOp(attrs, op))
  PROVE  ElementsFrame(op, getMultiValued(GetAttr(attrs, op.path.attr)),
                       GetAttr(applyOp(attrs, op).attrs, op.path.attr).a)
<1>1. PICK p, value, val : p = op.path /\ value = op.value /\ val = GetAttr(attrs, p.attr)
  OBVIOUS
<1>2. PICK elems : elems = getMultiValued(val)
  OBVIOUS
<1>3. IsListOf(elems)
  BY <1>1, <1>2, ElementsAreAList
<1>4. ASSUME NEW w PROVE GetAttr(Done(SetAttr(attrs, p.attr, Arr(w))).attrs, p.attr).a = w
  <2>1. Done(SetAttr(attrs, p.attr, Arr(w))).attrs = SetAttr(attrs, p.attr, Arr(w))
    BY DEF Done
  <2>2. GetAttr(SetAttr(attrs, p.attr, Arr(w)), p.attr) = Arr(w)
    BY GetSet
  <2> QED
    BY <2>1, <2>2 DEF Arr
<1>5. CASE op.op = "remove"
  <2>1. applyOp(attrs, op) = applyRemove(attrs, p)
    BY <1>1, <1>5 DEF applyOp
  <2>2. applyRemove(attrs, p) = Done(SetAttr(attrs, p.attr, Arr(RemoveElements(elems, p.filter, p.sub))))
    BY <1>1, <1>2 DEF applyRemove
  <2>3. ElementsFrame(op, elems, RemoveElements(elems, p.filter, p.sub))
    BY <1>1, <1>3, <1>5, RemoveFrame
  <2> QED
    BY <1>1, <1>2, <1>4, <2>1, <2>2, <2>3
<1>6. CASE op.op # "remove"
  <2>1. applyOp(attrs, op) \in {applyAdd(attrs, p, value), applyReplace(attrs, p, value)}
    BY <1>1, <1>6 DEF applyOp, IsOp
  <2>2. applyAdd(attrs, p, value) = Done(SetAttr(attrs, p.attr, Arr(WriteElements(elems, p.filter, p.sub, value))))
    BY <1>1, <1>2 DEF applyAdd
  <2>3. applyReplace(attrs, p, value) = Done(SetAttr(attrs, p.attr, Arr(WriteElements(elems, p.filter, p.sub, value))))
    BY <1>1, <1>2 DEF applyReplace
  <2>4. ElementsFrame(op, elems, WriteElements(elems, p.filter, p.sub, value))
    BY <1>1, <1>3, <1>6, WriteFrame
  <2> QED
    BY <1>1, <1>2, <1>4, <2>1, <2>2, <2>3, <2>4
<1> QED
  BY <1>5, <1>6

\* PatchFrame, of any operations and attributes.
Framed(ops, before, after, named) ==
  /\ \A n \in DOMAIN before \cup DOMAIN after : <<n, "">> \notin named =>
       FieldsFrame(lookupAttr(before, n), lookupAttr(after, n),
                   {place[2] : place \in {x \in named : x[1] = n}})
  /\ Len(ops) = 1 /\ ops[1].path # None =>
       (ops[1].path.filter # None /\ GetAttr(before, ops[1].path.attr) # Nil =>
          ElementsFrame(ops[1], getMultiValued(GetAttr(before, ops[1].path.attr)),
                        GetAttr(after, ops[1].path.attr).a))

\* A PATCH of any length changes what its paths name and nothing else.
THEOREM PatchesKeepTheRest == Spec => []PatchFrame
<1>1. ASSUME AnswersAreRight PROVE PatchFrame
  <2> SUFFICES ASSUME Answered("patch"), ~ Fails(answer.is.once) PROVE PatchFrame
    BY DEF PatchFrame
  <2>1. PICK p \in Patches : p = input.of /\ answer.is = PatchAnswer(p)
    BY <1>1, PatchAnswers
  <2>2. PICK parsed, once, before : parsed = answer.is.parsed /\ once = answer.is.once /\ before = p.attrs
    OBVIOUS
  <2>3. parsed = ParsePatchRequest(p.ops) /\ once = Applied(Done(before), parsed)
    BY <2>1, <2>2 DEF PatchAnswer
  <2>4. ~ Fails(once)
    BY <2>2
  <2>5. ~ Fails(parsed)
    BY <2>3, <2>4 DEF Applied
  <2>6. PICK ops : ops = parsed.ops
    OBVIOUS
  <2>7. once = ApplyPatch(before, ops)
    <3>1. ~ Fails(Done(before)) /\ Done(before).attrs = before
      BY DEF Fails, Done
    <3> QED
      BY <2>3, <2>5, <2>6, <3>1 DEF Applied
  <2>8. ListsIn(before) /\ (p.ops # None => IsListOf(p.ops.a))
    BY <2>2, PatchesAssumption
  <2>9. Len(ops) \in Nat /\ DOMAIN ops = 1 .. Len(ops) /\ \A i \in DOMAIN ops : IsOp(ops[i])
    BY <2>3, <2>5, <2>6, <2>8, ParsedOps
  <2>10. PICK named, after : named = UNION {Named(ops[i]) : i \in DOMAIN ops} /\ after = once.attrs
    OBVIOUS
  <2>11. SameBut(after, before, named)
    <3>1. Outcome(once, before, named)
      BY <2>7, <2>9, <2>10, PatchKeeps
    <3> QED
      BY <2>4, <2>10, <3>1 DEF Outcome
  <2>12. ASSUME Len(ops) = 1, ops[1].path # None, ops[1].path.filter # None,
                GetAttr(before, ops[1].path.attr) # Nil
         PROVE  ElementsFrame(ops[1], getMultiValued(GetAttr(before, ops[1].path.attr)),
                              GetAttr(after, ops[1].path.attr).a)
    <3>1. PICK op : op = ops[1]
      OBVIOUS
    <3>2. once = applyOp(before, op)
      BY <2>7, <2>12, <3>1, ApplyOne
    <3>3. IsOp(op)
      <4>1. 1 \in DOMAIN ops
        BY <2>9, <2>12
      <4> QED
        BY <2>9, <3>1, <4>1
    <3> QED
      BY <2>4, <2>8, <2>10, <2>12, <3>1, <3>2, <3>3, OpFrame
  <2>13. ASSUME NEW n, <<n, "">> \notin named
         PROVE  FieldsFrame(lookupAttr(before, n), lookupAttr(after, n), FieldsOf(n, named))
    <3>1. FieldsKept(lookupAttr(before, n), lookupAttr(after, n), FieldsOf(n, named))
      BY <2>11, <2>13 DEF SameBut
    <3> QED
      BY <3>1 DEF FieldsKept, FieldsFrame
  <2>14. answer.is.parsed.ops = ops /\ input.of.attrs = before /\ answer.is.once.attrs = after
    BY <2>1, <2>2, <2>6, <2>10
  <2>15. Framed(ops, before, after, named)
    BY <2>12, <2>13 DEF Framed, FieldsOf
  <2>16. Framed(answer.is.parsed.ops, input.of.attrs, answer.is.once.attrs,
                UNION {Named(answer.is.parsed.ops[i]) : i \in DOMAIN answer.is.parsed.ops})
    BY <2>10, <2>14, <2>15
  <2> QED
    BY <2>16, Zenon DEF PatchFrame, Framed
<1> QED
  BY <1>1, AnswersOfInputs, PTL

-----------------------------------------------------------------------------
(* A PATCH that is applied twice.                                           *)

\* r has the elements of s after the first d.
Remains(r, T, s, d) == r \in Seq(T) /\ Len(r) = Len(s) - d /\ \A i \in 1 .. Len(s) - d : r[i] = s[i + d]

\* All the elements after the first d, kept, are the rest of the sequence.
LEMMA KeptAfter ==
  ASSUME NEW T, NEW s \in Seq(T), NEW d \in 0 .. Len(s)
  PROVE  Remains(Kept(s, d + 1 .. Len(s)), T, s, d)
<1>1. PICK N, K : N = Len(s) /\ K = d + 1 .. Len(s)
  OBVIOUS
<1>2. N \in Nat /\ d \in Nat /\ d <= N
  BY <1>1
<1>3. PICK f : Keeps(f, T, s, K)
  BY KeptLoop
<1>4. /\ \A n \in 0 .. N : f[n] \in Seq(T)
      /\ f[0] = <<>> /\ Kept(s, K) = f[N]
      /\ \A n \in 1 .. N : f[n] = IF n \in K THEN Append(f[n - 1], s[n]) ELSE f[n - 1]
  BY <1>1, <1>3 DEF Keeps
<1> DEFINE Rest(r, n) == IF n <= d THEN r = <<>> ELSE Len(r) = n - d /\ \A i \in 1 .. n - d : r[i] = s[i + d]
           P(n) == n <= N => Rest(f[n], n)
           S == {n \in Nat : P(n)}
<1>5. P(0)
  BY <1>2, <1>4
<1>6. ASSUME NEW n \in Nat, P(n) PROVE P(n + 1)
  <2> SUFFICES ASSUME n + 1 <= N PROVE Rest(f[n + 1], n + 1)
    OBVIOUS
  <2>1. PICK m, r, q : m = n + 1 /\ r = f[n] /\ q = f[m]
    OBVIOUS
  <2>2. m \in 1 .. N /\ m - 1 = n /\ n \in 0 .. N /\ n <= N
    BY <1>2, <2>1
  <2>3. r \in Seq(T) /\ Rest(r, n)
    BY <1>4, <1>6, <2>1, <2>2
  <2>4. CASE m <= d
    <3>1. m \notin K /\ n <= d
      BY <1>1, <1>2, <2>2, <2>4
    <3>2. q = r
      BY <1>4, <2>1, <2>2, <3>1
    <3> QED
      BY <2>1, <2>3, <2>4, <3>1, <3>2
  <2>5. CASE m > d
    <3>1. m \in K
      BY <1>1, <1>2, <2>2, <2>5
    <3>2. q = Append(r, s[m])
      BY <1>4, <2>1, <2>2, <3>1
    <3>3. Len(r) = n - d /\ \A i \in 1 .. n - d : r[i] = s[i + d]
      <4>1. CASE n <= d
        <5>1. n = d /\ r = <<>>
          BY <1>2, <2>1, <2>3, <2>5, <4>1
        <5> QED
          BY <1>2, <5>1
      <4>2. CASE n > d
        BY <1>2, <2>3, <4>2
      <4> QED
        BY <1>2, <4>1, <4>2
    <3>4. PICK k : k = n - d
      OBVIOUS
    <3>5. k \in Nat /\ m - d = k + 1 /\ (k + 1) + d = m
      BY <1>2, <2>1, <2>5, <3>4
    <3>6. Len(q) = k + 1 /\ q[k + 1] = s[m] /\ \A i \in 1 .. k : q[i] = r[i]
      BY <2>3, <3>2, <3>3, <3>4, <3>5
    <3>7. ASSUME NEW i \in 1 .. k + 1 PROVE q[i] = s[i + d]
      <4>1. CASE i \in 1 .. k
        <5>1. q[i] = r[i] /\ r[i] = s[i + d]
          BY <3>3, <3>4, <3>6, <4>1
        <5> QED
          BY <5>1
      <4>2. CASE i = k + 1
        BY <3>5, <3>6, <4>2
      <4>3. i \in 1 .. k \/ i = k + 1
        BY <3>5
      <4> QED
        BY <4>1, <4>2, <4>3
    <3> QED
      BY <1>2, <2>1, <2>5, <3>5, <3>6, <3>7
  <2> QED
    BY <1>2, <2>2, <2>4, <2>5
<1>7. P(N)
  <2> HIDE DEF P
  <2>1. 0 \in S /\ \A n \in Nat : n \in S => n + 1 \in S
    BY <1>5, <1>6
  <2>2. Nat \subseteq S
    <3> HIDE DEF S
    <3> QED
      BY <2>1, Induction
  <2> QED
    BY <1>2, <2>2
<1>8. PICK r : r = Kept(s, K)
  OBVIOUS
<1>9. r \in Seq(T) /\ Rest(r, N)
  BY <1>2, <1>4, <1>7, <1>8
<1>10. Len(r) = N - d /\ \A i \in 1 .. N - d : r[i] = s[i + d]
  BY <1>2, <1>9
<1>11. Remains(r, T, s, d)
  BY <1>1, <1>9, <1>10 DEF Remains
<1> QED
  BY <1>1, <1>8, <1>11

\* All the elements, kept, are the sequence.
LEMMA KeptAll ==
  ASSUME NEW T, NEW s \in Seq(T)
  PROVE  Kept(s, DOMAIN s) = s
<1>1. PICK N, r : N = Len(s) /\ r = Kept(s, DOMAIN s)
  OBVIOUS
<1>2. N \in Nat /\ 0 \in 0 .. N /\ DOMAIN s = 0 + 1 .. N /\ N - 0 = N
  BY <1>1
<1>3. r \in Seq(T) /\ Len(r) = N /\ \A i \in 1 .. N : r[i] = s[i + 0]
  <2>1. r = Kept(s, 0 + 1 .. Len(s)) /\ 0 \in 0 .. Len(s)
    BY <1>1, <1>2
  <2>2. r \in Seq(T) /\ Len(r) = Len(s) - 0 /\ \A i \in 1 .. Len(s) - 0 : r[i] = s[i + 0]
    BY <2>1, KeptAfter DEF Remains
  <2> QED
    BY <1>1, <1>2, <2>2
<1>4. \A i \in 1 .. N : r[i] = s[i]
  BY <1>2, <1>3
<1> QED
  BY <1>1, <1>3, <1>4

\* Putting the same value again changes nothing.
LEMMA SetTwice ==
  ASSUME NEW attrs, NEW p, NEW v
  PROVE  SetAttr(SetAttr(attrs, p, v), p, v) = SetAttr(attrs, p, v)
<1>1. ASSUME NEW m, NEW name, NEW w PROVE setAttr(setAttr(m, name, w), name, w) = setAttr(m, name, w)
  BY DEF setAttr
<1>2. ASSUME NEW m, NEW name, NEW w PROVE lookupAttr(setAttr(m, name, w), name) = w
  BY DEF lookupAttr, setAttr
<1>3. PICK name, sub : name = p.attr /\ sub = p.sub
  OBVIOUS
<1>4. CASE sub = ""
  <2>1. ASSUME NEW m PROVE SetAttr(m, p, v) = setAttr(m, name, v)
    BY <1>3, <1>4 DEF SetAttr
  <2> QED
    BY <1>1, <2>1
<1>5. CASE sub # ""
  <2>1. PICK m : m = (IF IsMap(lookupAttr(attrs, name)) THEN lookupAttr(attrs, name).m ELSE <<>>)
    OBVIOUS
  <2>2. PICK g, w : g = setAttr(m, sub, v) /\ w = Map(g)
    OBVIOUS
  <2>3. PICK after : after = SetAttr(attrs, p, v)
    OBVIOUS
  <2>4. after = setAttr(attrs, name, w)
    BY <1>3, <1>5, <2>1, <2>2, <2>3 DEF SetAttr
  <2>5. lookupAttr(after, name) = w
    BY <1>2, <2>4
  <2>6. IsMap(w) /\ w.m = g /\ setAttr(g, sub, v) = g
    BY <1>1, <2>2 DEF IsMap, Map
  <2>7. SetAttr(after, p, v) = setAttr(after, name, w)
    BY <1>3, <1>5, <2>2, <2>5, <2>6 DEF SetAttr
  <2> QED
    BY <1>1, <2>3, <2>4, <2>7
<1> QED
  BY <1>4, <1>5

\* Deleting again changes nothing.
LEMMA DeleteTwice ==
  ASSUME NEW attrs, NEW p
  PROVE  DeleteAttr(DeleteAttr(attrs, p), p) = DeleteAttr(attrs, p)
<1>1. ASSUME NEW m, NEW name PROVE deleteAttr(deleteAttr(m, name), name) = deleteAttr(m, name)
  BY DEF deleteAttr, Restrict
<1>2. ASSUME NEW m, NEW name, NEW w
      PROVE  lookupAttr(setAttr(m, name, w), name) = w /\ setAttr(setAttr(m, name, w), name, w) = setAttr(m, name, w)
  BY DEF lookupAttr, setAttr
<1>3. PICK name, sub, parent : name = p.attr /\ sub = p.sub /\ parent = lookupAttr(attrs, name)
  OBVIOUS
<1>4. CASE sub = ""
  <2>1. ASSUME NEW m PROVE DeleteAttr(m, p) = deleteAttr(m, name)
    BY <1>3, <1>4 DEF DeleteAttr
  <2> QED
    BY <1>1, <2>1
<1>5. CASE sub # "" /\ IsMap(parent)
  <2>1. PICK g, w, after : g = deleteAttr(parent.m, sub) /\ w = Map(g) /\ after = setAttr(attrs, name, w)
    OBVIOUS
  <2>2. DeleteAttr(attrs, p) = after
    BY <1>3, <1>5, <2>1 DEF DeleteAttr
  <2>3. lookupAttr(after, name) = w /\ setAttr(after, name, w) = after
    BY <1>2, <2>1
  <2>4. IsMap(w) /\ w.m = g /\ deleteAttr(g, sub) = g
    BY <1>1, <2>1 DEF IsMap, Map
  <2>5. DeleteAttr(after, p) = setAttr(after, name, w)
    BY <1>3, <1>5, <2>1, <2>3, <2>4 DEF DeleteAttr
  <2> QED
    BY <2>2, <2>3, <2>5
<1>6. CASE sub # "" /\ ~ IsMap(parent)
  <2>1. DeleteAttr(attrs, p) = attrs
    BY <1>3, <1>6 DEF DeleteAttr
  <2> QED
    BY <2>1
<1> QED
  BY <1>4, <1>5, <1>6

\* An element that was written is as it would be written, or is not matched.
LEMMA WrittenTwice ==
  ASSUME NEW elem, NEW sub, NEW value, NEW filter, NEW w, w = Written(elem, sub, value), Matched(w, filter)
  PROVE  Written(w, sub, value) = w
<1>1. IsMap(w)
  BY DEF Matched
<1>2. CASE sub # ""
  <2>1. PICK g : g = setAttr(elem.m, sub, value)
    OBVIOUS
  <2>2. w = Map(g)
    BY <1>2, <2>1 DEF Written
  <2>3. w.m = g /\ setAttr(g, sub, value) = g
    BY <2>1, <2>2 DEF Map, setAttr
  <2> QED
    BY <1>2, <2>2, <2>3 DEF Written
<1>3. CASE sub = "" /\ IsMap(value)
  <2>1. PICK g : g = Merged(elem.m, value.m)
    OBVIOUS
  <2>2. w = Map(g)
    BY <1>3, <2>1 DEF Written
  <2>3. w.m = g /\ Merged(g, value.m) = g
    BY <2>1, <2>2 DEF Map, Merged
  <2> QED
    BY <1>3, <2>2, <2>3 DEF Written
<1>4. CASE sub = "" /\ ~ IsMap(value)
  BY <1>1, <1>4 DEF Written
<1> QED
  BY <1>2, <1>3, <1>4

\* Writing the elements again changes nothing.
LEMMA WriteTwice ==
  ASSUME NEW elems, NEW filter, NEW sub, NEW value
  PROVE  WriteElements(WriteElements(elems, filter, sub, value), filter, sub, value)
         = WriteElements(elems, filter, sub, value)
<1>1. PICK w : w = WriteElements(elems, filter, sub, value)
  OBVIOUS
<1>2. w = [i \in DOMAIN elems |->
             IF Matched(elems[i], filter) THEN Written(elems[i], sub, value) ELSE elems[i]]
  BY <1>1 DEF WriteElements
<1>3. DOMAIN w = DOMAIN elems
  BY <1>2
<1>4. ASSUME NEW i \in DOMAIN elems
      PROVE  (IF Matched(w[i], filter) THEN Written(w[i], sub, value) ELSE w[i]) = w[i]
  BY <1>2, WrittenTwice
<1>5. WriteElements(w, filter, sub, value)
      = [i \in DOMAIN elems |-> IF Matched(w[i], filter) THEN Written(w[i], sub, value) ELSE w[i]]
  BY <1>3 DEF WriteElements
<1>6. WriteElements(w, filter, sub, value) = [i \in DOMAIN elems |-> w[i]]
  BY <1>4, <1>5
<1>7. w = [i \in DOMAIN elems |-> w[i]]
  BY <1>2
<1> QED
  BY <1>1, <1>6, <1>7

\* Removing from the elements again removes nothing.
LEMMA RemoveTwice ==
  ASSUME NEW elems, IsListOf(elems), NEW filter, NEW sub
  PROVE  RemoveElements(RemoveElements(elems, filter, sub), filter, sub) = RemoveElements(elems, filter, sub)
<1>1. PICK w : w = RemoveElements(elems, filter, sub)
  OBVIOUS
<1>2. CASE sub = ""
  <2>1. PICK K, T : K = {i \in DOMAIN elems : ~ Matched(elems[i], filter)} /\ T = ToSet(elems)
    OBVIOUS
  <2>2. w = Kept(elems, K)
    BY <1>1, <1>2, <2>1 DEF RemoveElements
  <2>3. elems \in Seq(T) /\ K \in SUBSET (1 .. Len(elems))
    BY <2>1, ListIs DEF IsListOf
  <2>4. w \in Seq(T) /\ \E from : Picks(from, w, elems, K)
    BY <2>2, <2>3, KeptIs
  <2>5. PICK from : Picks(from, w, elems, K)
    BY <2>4
  <2>6. DOMAIN w = 1 .. Len(w)
    BY <2>4
  <2>7. ASSUME NEW i \in DOMAIN w PROVE ~ Matched(w[i], filter)
    <3>1. from[i] \in K /\ w[i] = elems[from[i]]
      BY <2>5, <2>6 DEF Picks
    <3> QED
      BY <2>1, <3>1
  <2>8. {i \in DOMAIN w : ~ Matched(w[i], filter)} = DOMAIN w
    BY <2>7
  <2>9. RemoveElements(w, filter, sub) = Kept(w, DOMAIN w)
    BY <1>2, <2>8 DEF RemoveElements
  <2> QED
    BY <1>1, <2>4, <2>9, KeptAll
<1>3. CASE sub # ""
  <2>1. w = [i \in DOMAIN elems |->
               IF Matched(elems[i], filter) THEN Map(deleteAttr(elems[i].m, sub)) ELSE elems[i]]
    BY <1>1, <1>3 DEF RemoveElements
  <2>2. DOMAIN w = DOMAIN elems
    BY <2>1
  <2>3. ASSUME NEW i \in DOMAIN elems
        PROVE  (IF Matched(w[i], filter) THEN Map(deleteAttr(w[i].m, sub)) ELSE w[i]) = w[i]
    <3>1. CASE Matched(elems[i], filter)
      <4>1. PICK g : g = deleteAttr(elems[i].m, sub)
        OBVIOUS
      <4>2. w[i] = Map(g)
        BY <2>1, <3>1, <4>1
      <4>3. w[i].m = g /\ deleteAttr(g, sub) = g
        BY <4>1, <4>2 DEF Map, deleteAttr, Restrict
      <4> QED
        BY <4>2, <4>3
    <3>2. CASE ~ Matched(elems[i], filter)
      <4>1. w[i] = elems[i]
        BY <2>1, <3>2
      <4> QED
        BY <3>2, <4>1
    <3> QED
      BY <3>1, <3>2
  <2>4. RemoveElements(w, filter, sub)
        = [i \in DOMAIN elems |-> IF Matched(w[i], filter) THEN Map(deleteAttr(w[i].m, sub)) ELSE w[i]]
    BY <1>3, <2>2 DEF RemoveElements
  <2>5. RemoveElements(w, filter, sub) = [i \in DOMAIN elems |-> w[i]]
    BY <2>3, <2>4
  <2>6. w = [i \in DOMAIN elems |-> w[i]]
    BY <2>1
  <2> QED
    BY <1>1, <2>5, <2>6
<1> QED
  BY <1>2, <1>3

\* The kinds of a value exclude each other, and each holds what it was made of.
LEMMA Kinds ==
  ASSUME NEW v
  PROVE  /\ IsArr(Arr(v)) /\ Arr(v).a = v /\ ~ IsMap(Arr(v)) /\ Arr(v) # Nil
         /\ IsMap(Map(v)) /\ Map(v).m = v /\ ~ IsArr(Map(v)) /\ Map(v) # Nil
BY DEF IsArr, IsMap, Arr, Map, Nil

\* A sub-attribute that was written is written already.
LEMMA WriteSubTwice ==
  ASSUME NEW val, NEW sub, NEW value
  PROVE  WriteSub(WriteSub(val, sub, value), sub, value) = WriteSub(val, sub, value)
<1>1. PICK w : w = WriteSub(val, sub, value)
  OBVIOUS
<1>2. CASE IsArr(val)
  <2>1. PICK elems, g : elems = val.a /\ g = WriteElements(elems, None, sub, value)
    OBVIOUS
  <2>2. w = Arr(g) /\ IsArr(w) /\ w.a = g
    BY <1>1, <1>2, <2>1, Kinds DEF WriteSub
  <2>3. WriteElements(g, None, sub, value) = g
    BY <2>1, WriteTwice
  <2>4. WriteSub(w, sub, value) = w
    BY <2>1, <2>2, <2>3 DEF WriteSub
  <2> QED
    BY <1>1, <2>4
<1>3. CASE ~ IsArr(val)
  <2>1. PICK m, g : m = (IF IsMap(val) THEN val.m ELSE <<>>) /\ g = setAttr(m, sub, value)
    OBVIOUS
  <2>2. w = Map(g) /\ IsMap(w) /\ ~ IsArr(w) /\ w.m = g
    BY <1>1, <1>3, <2>1, Kinds DEF WriteSub
  <2>3. setAttr(g, sub, value) = g
    BY <2>1 DEF setAttr
  <2>4. WriteSub(w, sub, value) = w
    BY <2>2, <2>3 DEF WriteSub
  <2> QED
    BY <1>1, <2>4
<1> QED
  BY <1>2, <1>3

\* A sub-attribute that was removed is not there to remove.
LEMMA RemoveSubTwice ==
  ASSUME NEW val, val # Nil, IsListOf(getMultiValued(val)), NEW sub
  PROVE  RemoveSub(RemoveSub(val, sub), sub) = RemoveSub(val, sub) /\ RemoveSub(val, sub) # Nil
<1>1. PICK w : w = RemoveSub(val, sub)
  OBVIOUS
<1>2. CASE IsArr(val)
  <2>1. PICK elems, g : elems = val.a /\ g = RemoveElements(elems, None, sub)
    OBVIOUS
  <2>2. w = Arr(g) /\ IsArr(w) /\ w.a = g /\ w # Nil
    BY <1>1, <1>2, <2>1, Kinds DEF RemoveSub
  <2>3. IsListOf(elems)
    BY <1>2, <2>1 DEF getMultiValued
  <2>4. RemoveElements(g, None, sub) = g
    BY <2>1, <2>3, RemoveTwice
  <2>5. RemoveSub(w, sub) = w
    BY <2>2, <2>4 DEF RemoveSub
  <2> QED
    BY <1>1, <2>2, <2>5
<1>3. CASE ~ IsArr(val) /\ IsMap(val)
  <2>1. PICK g : g = deleteAttr(val.m, sub)
    OBVIOUS
  <2>2. w = Map(g) /\ IsMap(w) /\ ~ IsArr(w) /\ w.m = g /\ w # Nil
    BY <1>1, <1>3, <2>1, Kinds DEF RemoveSub
  <2>3. deleteAttr(g, sub) = g
    BY <2>1 DEF deleteAttr, Restrict
  <2>4. RemoveSub(w, sub) = w
    BY <2>2, <2>3 DEF RemoveSub
  <2> QED
    BY <1>1, <2>2, <2>4
<1>4. CASE ~ IsArr(val) /\ ~ IsMap(val)
  <2>1. w = val
    BY <1>1, <1>4 DEF RemoveSub
  <2> QED
    BY <1>1, <2>1
<1> QED
  BY <1>2, <1>3, <1>4

\* An operation whose repetition is harmless leaves nothing for it to do.
LEMMA OpSettles ==
  ASSUME NEW attrs, ListsIn(attrs), NEW op, IsOp(op), Repeatable(attrs, op), ~ Fails(applyOp(attrs, op))
  PROVE  applyOp(applyOp(attrs, op).attrs, op) = applyOp(attrs, op)
<1>1. ASSUME NEW m PROVE Done(m).attrs = m /\ ~ Fails(Done(m))
  BY DEF Done, Fails
<1>2. ASSUME NEW e PROVE Fails(Err(e))
  BY DEF Err, Fails
<1>3. CASE op.path = None
  <2>1. op.op # "remove"
    BY <1>2, <1>3 DEF applyOp
  <2>2. ASSUME NEW m PROVE applyOp(m, op) = Merge(m, op.value)
    BY <1>3, <2>1 DEF applyOp
  <2>3. IsMap(op.value)
    BY <1>2, <2>2 DEF Merge
  <2>4. PICK m, after : m = op.value.m /\ after = Merged(attrs, m)
    OBVIOUS
  <2>5. Merged(after, m) = after
    BY <2>4 DEF Merged
  <2>6. Merge(attrs, op.value) = Done(after) /\ Merge(after, op.value) = Done(after)
    BY <2>3, <2>4, <2>5 DEF Merge
  <2> QED
    BY <1>1, <2>2, <2>6
<1>4. CASE op.path # None
  <2>1. PICK p, path, value, val :
          p = op.path /\ path = op.path.attr /\ value = op.value /\ val = GetAttr(attrs, op.path.attr)
    OBVIOUS
  <2>2. PICK elems : elems = getMultiValued(val)
    OBVIOUS
  <2>3. IsListOf(elems)
    BY <2>1, <2>2, ElementsAreAList
  <2>4. ASSUME NEW w PROVE getMultiValued(Arr(w)) = w
    BY Kinds DEF getMultiValued
  <2>5. ASSUME NEW w PROVE GetAttr(SetAttr(attrs, path, w), path) = w
    BY GetSet
  <2>6. ASSUME NEW w, applyOp(attrs, op) = Done(SetAttr(attrs, path, w)),
               applyOp(SetAttr(attrs, path, w), op) = Done(SetAttr(SetAttr(attrs, path, w), path, w))
        PROVE  applyOp(applyOp(attrs, op).attrs, op) = applyOp(attrs, op)
    BY <1>1, <2>6, SetTwice
  <2>7. CASE op.op = "add"
    <3>1. ASSUME NEW m PROVE applyOp(m, op) = applyAdd(m, p, value)
      BY <1>4, <2>1, <2>7 DEF applyOp
    <3>2. CASE p.filter = None /\ p.sub = ""
      <4>1. ~ IsArr(val) /\ ~ IsArr(value)
        BY <1>4, <2>1, <2>7, <3>2 DEF Repeatable
      <4>2. ASSUME NEW m, ~ IsArr(GetAttr(m, path)) PROVE applyAdd(m, p, value) = Done(SetAttr(m, path, value))
        BY <2>1, <3>2, <4>2 DEF applyAdd
      <4>3. GetAttr(SetAttr(attrs, path, value), path) = value
        BY <2>5
      <4> QED
        BY <2>1, <2>6, <3>1, <4>1, <4>2, <4>3
    <3>3. CASE p.filter = None /\ p.sub # ""
      <4>1. PICK w : w = WriteSub(val, p.sub, value)
        OBVIOUS
      <4>2. ASSUME NEW m PROVE applyAdd(m, p, value) = Done(SetAttr(m, path, WriteSub(GetAttr(m, path), p.sub, value)))
        BY <2>1, <3>3 DEF applyAdd
      <4>3. GetAttr(SetAttr(attrs, path, w), path) = w
        BY <2>5
      <4>4. WriteSub(w, p.sub, value) = w
        BY <3>3, <4>1, WriteSubTwice
      <4> QED
        BY <2>1, <2>6, <3>1, <4>1, <4>2, <4>3, <4>4
    <3>4. CASE p.filter # None
      <4>1. PICK w : w = WriteElements(elems, p.filter, p.sub, value)
        OBVIOUS
      <4>2. ASSUME NEW m, GetAttr(m, path) # Nil
            PROVE  applyAdd(m, p, value)
                   = Done(SetAttr(m, path, Arr(WriteElements(getMultiValued(GetAttr(m, path)), p.filter, p.sub, value))))
        BY <2>1, <3>4, <4>2 DEF applyAdd
      <4>3. val # Nil
        <5>1. applyAdd(attrs, p, value) = Err("noTarget") \/ val # Nil
          BY <2>1, <3>4 DEF applyAdd
        <5> QED
          BY <1>2, <3>1, <5>1
      <4>4. GetAttr(SetAttr(attrs, path, Arr(w)), path) = Arr(w) /\ Arr(w) # Nil
        BY <2>5, Kinds
      <4>5. WriteElements(w, p.filter, p.sub, value) = w
        BY <4>1, WriteTwice
      <4>6. applyAdd(attrs, p, value) = Done(SetAttr(attrs, path, Arr(w)))
        BY <2>1, <2>2, <4>1, <4>2, <4>3
      <4>7. applyAdd(SetAttr(attrs, path, Arr(w)), p, value) = Done(SetAttr(SetAttr(attrs, path, Arr(w)), path, Arr(w)))
        BY <2>4, <4>2, <4>4, <4>5
      <4> QED
        BY <2>6, <3>1, <4>6, <4>7
    <3> QED
      BY <3>2, <3>3, <3>4
  <2>8. CASE op.op = "replace"
    <3>1. ASSUME NEW m PROVE applyOp(m, op) = applyReplace(m, p, value)
      BY <1>4, <2>1, <2>8 DEF applyOp
    <3>2. CASE p.filter = None /\ p.sub = ""
      <4>1. ASSUME NEW m PROVE applyReplace(m, p, value) = Done(SetAttr(m, path, value))
        BY <2>1, <3>2 DEF applyReplace
      <4> QED
        BY <2>6, <3>1, <4>1
    <3>3. CASE p.filter = None /\ p.sub # ""
      <4>1. PICK w : w = WriteSub(val, p.sub, value)
        OBVIOUS
      <4>2. ASSUME NEW m
            PROVE  applyReplace(m, p, value) = Done(SetAttr(m, path, WriteSub(GetAttr(m, path), p.sub, value)))
        BY <2>1, <3>3 DEF applyReplace
      <4>3. GetAttr(SetAttr(attrs, path, w), path) = w
        BY <2>5
      <4>4. WriteSub(w, p.sub, value) = w
        BY <3>3, <4>1, WriteSubTwice
      <4> QED
        BY <2>1, <2>6, <3>1, <4>1, <4>2, <4>3, <4>4
    <3>4. CASE p.filter # None
      <4>1. PICK w : w = WriteElements(elems, p.filter, p.sub, value)
        OBVIOUS
      <4>2. ASSUME NEW m, GetAttr(m, path) # Nil
            PROVE  applyReplace(m, p, value)
                   = Done(SetAttr(m, path, Arr(WriteElements(getMultiValued(GetAttr(m, path)), p.filter, p.sub, value))))
        BY <2>1, <3>4, <4>2 DEF applyReplace
      <4>3. val # Nil
        BY <1>4, <2>1, <2>8, <3>4 DEF Repeatable
      <4>4. GetAttr(SetAttr(attrs, path, Arr(w)), path) = Arr(w) /\ Arr(w) # Nil
        BY <2>5, Kinds
      <4>5. WriteElements(w, p.filter, p.sub, value) = w
        BY <4>1, WriteTwice
      <4>6. applyReplace(attrs, p, value) = Done(SetAttr(attrs, path, Arr(w)))
        BY <2>1, <2>2, <4>1, <4>2, <4>3
      <4>7. applyReplace(SetAttr(attrs, path, Arr(w)), p, value) = Done(SetAttr(SetAttr(attrs, path, Arr(w)), path, Arr(w)))
        BY <2>4, <4>2, <4>4, <4>5
      <4> QED
        BY <2>6, <3>1, <4>6, <4>7
    <3> QED
      BY <3>2, <3>3, <3>4
  <2>9. CASE op.op = "remove"
    <3>1. ASSUME NEW m PROVE applyOp(m, op) = applyRemove(m, p)
      BY <1>4, <2>1, <2>9 DEF applyOp
    <3>2. CASE p.filter = None /\ p.sub = ""
      <4>1. ASSUME NEW m PROVE applyRemove(m, p) = Done(DeleteAttr(m, path))
        BY <2>1, <3>2 DEF applyRemove
      <4> QED
        BY <1>1, <3>1, <4>1, DeleteTwice
    <3>3. CASE ~ (p.filter = None /\ p.sub = "") /\ val = Nil
      <4>1. applyRemove(attrs, p) = Done(attrs)
        BY <2>1, <3>3 DEF applyRemove
      <4> QED
        BY <1>1, <3>1, <4>1
    <3>4. CASE p.filter = None /\ p.sub # "" /\ val # Nil
      <4>1. PICK w : w = RemoveSub(val, p.sub)
        OBVIOUS
      <4>2. ASSUME NEW m, GetAttr(m, path) # Nil
            PROVE  applyRemove(m, p) = Done(SetAttr(m, path, RemoveSub(GetAttr(m, path), p.sub)))
        BY <2>1, <3>4, <4>2 DEF applyRemove
      <4>3. GetAttr(SetAttr(attrs, path, w), path) = w
        BY <2>5
      <4>4. RemoveSub(w, p.sub) = w /\ w # Nil
        BY <2>2, <2>3, <3>4, <4>1, RemoveSubTwice
      <4>5. applyRemove(attrs, p) = Done(SetAttr(attrs, path, w))
        BY <2>1, <3>4, <4>1, <4>2
      <4>6. applyRemove(SetAttr(attrs, path, w), p) = Done(SetAttr(SetAttr(attrs, path, w), path, w))
        BY <4>2, <4>3, <4>4
      <4> QED
        BY <2>6, <3>1, <4>5, <4>6
    <3>5. CASE p.filter # None /\ val # Nil
      <4>1. PICK w : w = RemoveElements(elems, p.filter, p.sub)
        OBVIOUS
      <4>2. ASSUME NEW m, GetAttr(m, path) # Nil
            PROVE  applyRemove(m, p)
                   = Done(SetAttr(m, path, Arr(RemoveElements(getMultiValued(GetAttr(m, path)), p.filter, p.sub))))
        BY <2>1, <3>5, <4>2 DEF applyRemove
      <4>3. GetAttr(SetAttr(attrs, path, Arr(w)), path) = Arr(w) /\ Arr(w) # Nil
        BY <2>5, Kinds
      <4>4. RemoveElements(w, p.filter, p.sub) = w
        BY <2>3, <4>1, RemoveTwice
      <4>5. applyRemove(attrs, p) = Done(SetAttr(attrs, path, Arr(w)))
        BY <2>1, <2>2, <3>5, <4>1, <4>2
      <4>6. applyRemove(SetAttr(attrs, path, Arr(w)), p) = Done(SetAttr(SetAttr(attrs, path, Arr(w)), path, Arr(w)))
        BY <2>4, <4>2, <4>3, <4>4
      <4> QED
        BY <2>6, <3>1, <4>5, <4>6
    <3> QED
      BY <3>2, <3>3, <3>4, <3>5
  <2> QED
    BY <2>7, <2>8, <2>9 DEF IsOp
<1> QED
  BY <1>3, <1>4

\* A PATCH of one operation that is sent again, after an answer that was lost,
\* finds nothing left to change.
THEOREM PatchesSettle == Spec => []PatchSettles
<1>1. ASSUME AnswersAreRight PROVE PatchSettles
  <2> SUFFICES ASSUME Answered("patch"), ~ Fails(answer.is.once) PROVE PatchSettles
    BY DEF PatchSettles
  <2>1. PICK p \in Patches : p = input.of /\ answer.is = PatchAnswer(p)
    BY <1>1, PatchAnswers
  <2>2. PICK parsed, once, before :
          parsed = answer.is.parsed /\ once = answer.is.once /\ before = p.attrs
    OBVIOUS
  <2>3. /\ parsed = ParsePatchRequest(p.ops) /\ once = Applied(Done(before), parsed)
        /\ answer.is.twice = Applied(once, parsed)
    BY <2>1, <2>2 DEF PatchAnswer
  <2>4. ~ Fails(once)
    BY <2>2
  <2>5. ~ Fails(parsed)
    BY <2>3, <2>4 DEF Applied
  <2>6. PICK ops : ops = parsed.ops
    OBVIOUS
  <2>7. once = ApplyPatch(before, ops)
    <3>1. ~ Fails(Done(before)) /\ Done(before).attrs = before
      BY DEF Fails, Done
    <3> QED
      BY <2>3, <2>5, <2>6, <3>1 DEF Applied
  <2>8. Applied(once, parsed) = ApplyPatch(once.attrs, ops)
    BY <2>4, <2>5, <2>6 DEF Applied
  <2>9. ListsIn(before) /\ (p.ops # None => IsListOf(p.ops.a))
    BY <2>2, PatchesAssumption
  <2>10. Len(ops) \in Nat /\ DOMAIN ops = 1 .. Len(ops) /\ \A i \in DOMAIN ops : IsOp(ops[i])
    BY <2>3, <2>5, <2>6, <2>9, ParsedOps
  <2>11. ASSUME Len(ops) = 1, Repeatable(before, ops[1]) PROVE Applied(once, parsed) = once
    <3>1. PICK op : op = ops[1]
      OBVIOUS
    <3>2. once = applyOp(before, op) /\ ApplyPatch(once.attrs, ops) = applyOp(once.attrs, op)
      BY <2>7, <2>11, <3>1, ApplyOne
    <3>3. IsOp(op)
      <4>1. 1 \in DOMAIN ops
        BY <2>10, <2>11
      <4> QED
        BY <2>10, <3>1, <4>1
    <3>4. applyOp(once.attrs, op) = once
      BY <2>4, <2>9, <2>11, <3>1, <3>2, <3>3, OpSettles
    <3> QED
      BY <2>8, <3>2, <3>4
  <2>12. answer.is.parsed.ops = ops /\ input.of.attrs = before
    BY <2>1, <2>2, <2>6
  <2> QED
    BY <2>2, <2>3, <2>11, <2>12 DEF PatchSettles
<1> QED
  BY <1>1, AnswersOfInputs, PTL

-----------------------------------------------------------------------------
(* SCIM 1.1.                                                                *)

\* r is uris with first in the place of its first.
Headed(r, T, first, uris) ==
  /\ r \in Seq(T \cup {first}) /\ Len(r) = Len(uris) /\ r[1] = first
  /\ \A i \in 2 .. Len(uris) : r[i] = uris[i]

\* A list of schemas with nothing to drop but its first, and none twice: the new
\* first takes its place.
LEMMA RemappedIs ==
  ASSUME NEW T, NEW uris \in Seq(T), Len(uris) >= 1, NEW first, NEW dropped,
         uris[1] \in dropped \cup {first},
         \A i \in 2 .. Len(uris) : uris[i] \notin dropped \cup {first},
         \A i, j \in 1 .. Len(uris) : i # j => uris[i] # uris[j]
  PROVE  Headed(Remapped(first, uris, dropped), T, first, uris)
<1>1. PICK N, K : /\ N = Len(uris)
                  /\ K = {i \in DOMAIN uris : /\ uris[i] \notin dropped \cup {first}
                                              /\ \A j \in 1 .. i - 1 : uris[j] # uris[i]}
  OBVIOUS
<1>2. N \in Nat /\ N >= 1 /\ DOMAIN uris = 1 .. N
  BY <1>1
<1>3. K = 2 .. N
  <2>1. ASSUME NEW i \in K PROVE i \in 2 .. N
    <3>1. i \in 1 .. N /\ i # 1
      BY <1>1, <1>2
    <3> QED
      BY <1>2, <3>1
  <2>2. ASSUME NEW i \in 2 .. N PROVE i \in K
    <3>1. i \in 1 .. N /\ uris[i] \notin dropped \cup {first}
      BY <1>1, <1>2
    <3>2. ASSUME NEW j \in 1 .. i - 1 PROVE uris[j] # uris[i]
      <4>1. j \in 1 .. N /\ j # i
        BY <1>2
      <4> QED
        BY <1>1, <3>1, <4>1
    <3> QED
      BY <1>1, <1>2, <3>1, <3>2
  <2> QED
    BY <2>1, <2>2
<1>4. PICK rest, r : rest = Kept(uris, K) /\ r = <<first>> \o rest
  OBVIOUS
<1>5. r = Remapped(first, uris, dropped)
  BY <1>1, <1>4 DEF Remapped
<1>6. rest \in Seq(T) /\ Len(rest) = N - 1 /\ \A i \in 1 .. N - 1 : rest[i] = uris[i + 1]
  <2>1. PICK d : d = 1
    OBVIOUS
  <2>2. d \in 0 .. Len(uris) /\ d + 1 = 2
    BY <1>1, <1>2, <2>1
  <2>3. rest = Kept(uris, d + 1 .. Len(uris))
    BY <1>1, <1>3, <1>4, <2>2
  <2>4. Remains(rest, T, uris, d)
    BY <2>2, <2>3, KeptAfter
  <2> QED
    BY <1>1, <2>1, <2>4 DEF Remains
<1>7. PICK U : U = T \cup {first}
  OBVIOUS
<1>8. <<first>> \in Seq(U) /\ rest \in Seq(U) /\ Len(<<first>>) = 1
  BY <1>6, <1>7
<1>9. r \in Seq(U) /\ Len(r) = N
  BY <1>2, <1>4, <1>6, <1>8
<1>10. r[1] = first
  BY <1>4, <1>6
<1>11. ASSUME NEW i \in 2 .. N PROVE r[i] = uris[i]
  <2>1. i - 1 \in 1 .. N - 1 /\ (i - 1) + 1 = i /\ i > 1
    BY <1>2
  <2>2. r[i] = rest[i - 1]
    BY <1>2, <1>4, <1>6, <2>1
  <2> QED
    BY <1>6, <2>1, <2>2
<1>12. Headed(r, T, first, uris)
  BY <1>1, <1>7, <1>9, <1>10, <1>11 DEF Headed
<1> QED
  BY <1>5, <1>12

\* What Remapped drops is not there.
LEMMA RemappedDrops ==
  ASSUME NEW T, NEW uris \in Seq(T), NEW first, NEW dropped
  PROVE  LET r == Remapped(first, uris, dropped)
         IN  \A x \in ToSet(r) : x = first \/ (x \in ToSet(uris) /\ x \notin dropped)
<1>1. PICK K : K = {i \in DOMAIN uris : /\ uris[i] \notin dropped \cup {first}
                                        /\ \A j \in 1 .. i - 1 : uris[j] # uris[i]}
  OBVIOUS
<1>2. PICK rest, r : rest = Kept(uris, K) /\ r = <<first>> \o rest
  OBVIOUS
<1>3. r = Remapped(first, uris, dropped)
  BY <1>1, <1>2 DEF Remapped
<1>4. K \in SUBSET (1 .. Len(uris)) /\ DOMAIN uris = 1 .. Len(uris)
  BY <1>1
<1>5. rest \in Seq(T) /\ \E from : Picks(from, rest, uris, K)
  BY <1>2, <1>4, KeptIs
<1>6. PICK from : Picks(from, rest, uris, K)
  BY <1>5
<1>7. ASSUME NEW i \in 1 .. Len(rest)
      PROVE  rest[i] \in ToSet(uris) /\ rest[i] \notin dropped
  <2>1. from[i] \in K /\ rest[i] = uris[from[i]]
    BY <1>6 DEF Picks
  <2>2. from[i] \in DOMAIN uris /\ uris[from[i]] \notin dropped
    BY <1>1, <2>1
  <2> QED
    BY <2>1, <2>2 DEF ToSet
<1>8. ASSUME NEW x \in ToSet(r) PROVE x = first \/ (x \in ToSet(uris) /\ x \notin dropped)
  <2>1. PICK U : U = T \cup {first}
    OBVIOUS
  <2>2. <<first>> \in Seq(U) /\ rest \in Seq(U) /\ Len(<<first>>) = 1 /\ Len(rest) \in Nat
    BY <1>5, <2>1
  <2>3. r \in Seq(U) /\ Len(r) = 1 + Len(rest)
    BY <1>2, <2>2
  <2>4. PICK i \in 1 .. Len(r) : x = r[i]
    BY <2>3 DEF ToSet
  <2>5. CASE i = 1
    <3>1. r[1] = first
      BY <1>2, <2>2
    <3> QED
      BY <2>4, <2>5, <3>1
  <2>6. CASE i # 1
    <3>1. i - 1 \in 1 .. Len(rest) /\ i > 1
      BY <2>2, <2>3, <2>6
    <3>2. r[i] = rest[i - 1]
      BY <1>2, <2>2, <3>1
    <3> QED
      BY <1>7, <2>4, <3>1, <3>2
  <2> QED
    BY <2>5, <2>6
<1> QED
  BY <1>3, <1>8

\* The schemas of a resource are URIs, and some.
IsSchemas(v) ==
  /\ IsArr(v) /\ v = Arr(v.a) /\ IsListOf(v.a) /\ v.a # <<>>
  /\ \A i \in DOMAIN v.a : v.a[i].t = "uri"

\* Nothing of them is lost when they are read.
LEMMA UrisAre ==
  ASSUME NEW v, IsSchemas(v)
  PROVE  Uris(v) = v.a
<1>1. PICK s, T : s = v.a /\ T = ToSet(s)
  OBVIOUS
<1>2. s \in Seq(T)
  BY <1>1 DEF IsSchemas, IsListOf
<1>3. {i \in DOMAIN s : s[i].t = "uri"} = DOMAIN s
  BY <1>1 DEF IsSchemas
<1>4. Uris(v) = Kept(s, DOMAIN s)
  BY <1>1, <1>3 DEF Uris, IsSchemas
<1> QED
  BY <1>1, <1>2, <1>4, KeptAll

\* No two of the schemas are the same.
LEMMA DifferentUris ==
  /\ Core1 # User2 /\ Core1 # Group2 /\ Core1 # Enterprise1 /\ Core1 # Enterprise2
  /\ Enterprise1 # User2 /\ Enterprise1 # Group2 /\ Enterprise1 # Enterprise2
  /\ Enterprise2 # User2 /\ Enterprise2 # Group2
  /\ Core1.t = "uri" /\ Enterprise1.t = "uri" /\ Enterprise2.t = "uri" /\ User2.t = "uri"
BY DEF Core1, User2, Group2, Enterprise1, Enterprise2, Uri

\* A list with an element renamed.
LEMMA RenamedIs ==
  ASSUME NEW s, IsListOf(s), NEW from, NEW to
  PROVE  LET r == Renamed(s, from, to)
         IN  /\ r \in Seq(ToSet(s) \cup {to}) /\ Len(r) = Len(s)
             /\ \A i \in 1 .. Len(s) : r[i] = IF s[i] = from THEN to ELSE s[i]
<1>1. PICK r, V, N : r = Renamed(s, from, to) /\ V = ToSet(s) \cup {to} /\ N = Len(s)
  OBVIOUS
<1>2. N \in Nat /\ DOMAIN s = 1 .. N
  BY <1>1, ListIs
<1>3. r = [i \in 1 .. N |-> IF s[i] = from THEN to ELSE s[i]]
  BY <1>1, <1>2 DEF Renamed
<1>4. \A i \in 1 .. N : s[i] \in V
  BY <1>1, <1>2 DEF ToSet
<1>5. \A i \in 1 .. N : r[i] = (IF s[i] = from THEN to ELSE s[i]) /\ r[i] \in V
  BY <1>1, <1>3, <1>4
<1>6. r \in [1 .. N -> V]
  BY <1>3, <1>5
<1>7. r \in Seq(V) /\ Len(r) = N
  BY <1>2, <1>6
<1> QED
  BY <1>1, <1>5, <1>7

\* A SCIM 1.1 client sees no schema of SCIM 2.0.
LEMMA NoneOfV2 ==
  ASSUME NEW v, IsSchemas(v)
  PROVE  ToSet(remapSchemasToV1(v).a) \cap {User2, Group2, Enterprise2} = {}
<1>1. PICK s, T, A, r :
        /\ s = v.a /\ T = ToSet(s) \cup {Enterprise1}
        /\ A = Renamed(s, Enterprise2, Enterprise1) /\ r = Remapped(Core1, A, {User2, Group2})
  OBVIOUS
<1>2. remapSchemasToV1(v) = Arr(r) /\ Arr(r).a = r
  <2>1. Uris(v) = s
    BY <1>1, UrisAre
  <2>2. remapSchemasToV1(v) = Arr(r)
    BY <1>1, <2>1 DEF remapSchemasToV1
  <2> QED
    BY <2>2, Kinds
<1>3. IsListOf(s)
  BY <1>1 DEF IsSchemas
<1>4. /\ A \in Seq(T) /\ Len(A) = Len(s)
      /\ \A i \in 1 .. Len(s) : A[i] = IF s[i] = Enterprise2 THEN Enterprise1 ELSE s[i]
  BY <1>1, <1>3, RenamedIs
<1>5. ASSUME NEW x \in ToSet(A) PROVE x # Enterprise2
  <2>1. PICK i \in 1 .. Len(s) : x = A[i]
    BY <1>4 DEF ToSet
  <2> QED
    BY <1>4, <2>1, DifferentUris
<1>6. ASSUME NEW x \in ToSet(r) PROVE x = Core1 \/ (x \in ToSet(A) /\ x \notin {User2, Group2})
  <2>1. PICK first, dropped : first = Core1 /\ dropped = {User2, Group2}
    OBVIOUS
  <2>2. r = Remapped(first, A, dropped)
    BY <1>1, <2>1
  <2>3. x = first \/ (x \in ToSet(A) /\ x \notin dropped)
    BY <1>4, <2>2, RemappedDrops
  <2> QED
    BY <2>1, <2>3
<1>7. ASSUME NEW x \in ToSet(r) PROVE x \notin {User2, Group2, Enterprise2}
  BY <1>5, <1>6, DifferentUris
<1> QED
  BY <1>2, <1>7

\* A sequence is a list of its elements.
LEMMA SequencesAreLists ==
  ASSUME NEW T, NEW s \in Seq(T)
  PROVE  IsListOf(s)
<1>1. PICK N, V : N = Len(s) /\ V = ToSet(s)
  OBVIOUS
<1>2. N \in Nat /\ DOMAIN s = 1 .. N /\ s = [i \in 1 .. N |-> s[i]]
  BY <1>1
<1>3. \A i \in 1 .. N : s[i] \in V
  BY <1>1, <1>2 DEF ToSet
<1>4. s \in [1 .. N -> V]
  BY <1>2, <1>3
<1>5. s \in Seq(V)
  BY <1>2, <1>4
<1> QED
  BY <1>1, <1>5 DEF IsListOf

\* The schemas of a user, from which nothing need be dropped.
UserSchemas(s) ==
  /\ s[1] = User2 /\ IsInjective(s)
  /\ ToSet(s) \cap {Core1, Enterprise1, Group2} = {}

\* Schemas that went to SCIM 1.1 come back as they were.
LEMMA SchemasReturn ==
  ASSUME NEW v, IsSchemas(v), UserSchemas(v.a)
  PROVE  remapSchemasToV2(remapSchemasToV1(v), "User") = v
<1>1. PICK s, T, N : s = v.a /\ T = ToSet(s) /\ N = Len(s)
  OBVIOUS
<1>2. IsListOf(s) /\ s \in Seq(T) /\ N \in Nat /\ DOMAIN s = 1 .. N /\ s # <<>>
  BY <1>1 DEF IsSchemas, IsListOf
<1>3. N >= 1 /\ 1 \in 1 .. N
  BY <1>1, <1>2
<1>4. s[1] = User2 /\ \A i, j \in 1 .. N : i # j => s[i] # s[j]
  BY <1>1, <1>2 DEF UserSchemas, IsInjective
<1>5. \A i \in 1 .. N : s[i] \notin {Core1, Enterprise1, Group2} /\ s[i].t = "uri"
  BY <1>1, <1>2 DEF UserSchemas, IsSchemas, ToSet
<1>6. \A i \in 2 .. N : i \in 1 .. N /\ s[i] # User2
  <2>1. \A i \in 2 .. N : i \in 1 .. N /\ i # 1
    BY <1>2
  <2> QED
    BY <1>3, <1>4, <2>1
<1>7. PICK A : A = Renamed(s, Enterprise2, Enterprise1)
  OBVIOUS
<1>8. /\ A \in Seq(T \cup {Enterprise1}) /\ Len(A) = N
      /\ \A i \in 1 .. N : A[i] = IF s[i] = Enterprise2 THEN Enterprise1 ELSE s[i]
  BY <1>1, <1>2, <1>7, RenamedIs
<1>9. PICK s1, T1 : s1 = Remapped(Core1, A, {User2, Group2}) /\ T1 = T \cup {Enterprise1, Core1}
  OBVIOUS
<1>10. s1 \in Seq(T1) /\ Len(s1) = N /\ s1[1] = Core1 /\ \A i \in 2 .. N : s1[i] = A[i]
  <2>1. PICK first, dropped, V : first = Core1 /\ dropped = {User2, Group2} /\ V = T \cup {Enterprise1}
    OBVIOUS
  <2>2. A[1] \in dropped \cup {first}
    BY <1>3, <1>4, <1>8, <2>1, DifferentUris
  <2>3. \A i \in 2 .. N : A[i] \notin dropped \cup {first}
    BY <1>5, <1>6, <1>8, <2>1, DifferentUris
  <2>4. \A i, j \in 1 .. N : i # j => A[i] # A[j]
    BY <1>4, <1>5, <1>8
  <2>5. A \in Seq(V) /\ Len(A) >= 1 /\ Len(A) = N
    BY <1>3, <1>8, <2>1
  <2>6. PICK r : r = Remapped(first, A, dropped)
    OBVIOUS
  <2>7. r \in Seq(V \cup {first}) /\ Len(r) = Len(A) /\ r[1] = first /\ \A i \in 2 .. Len(A) : r[i] = A[i]
    <3>1. Headed(r, V, first, A)
      BY <2>2, <2>3, <2>4, <2>5, <2>6, RemappedIs
    <3> QED
      BY <3>1 DEF Headed
  <2>8. r = s1 /\ V \cup {first} = T1
    BY <1>9, <2>1, <2>6
  <2> QED
    BY <2>1, <2>5, <2>7, <2>8
<1>11. PICK v1 : v1 = Arr(s1)
  OBVIOUS
<1>12. v1 = remapSchemasToV1(v)
  BY <1>1, <1>7, <1>9, <1>11, UrisAre DEF remapSchemasToV1
<1>13. IsSchemas(v1) /\ v1.a = s1
  <2>1. IsArr(v1) /\ v1.a = s1
    BY <1>11, Kinds
  <2>2. IsListOf(s1) /\ s1 # <<>> /\ DOMAIN s1 = 1 .. N
    BY <1>3, <1>10, SequencesAreLists
  <2>3. ASSUME NEW i \in 1 .. N PROVE s1[i].t = "uri"
    <3>1. CASE i = 1
      BY <1>10, <3>1, DifferentUris
    <3>2. CASE i # 1
      <4>1. i \in 2 .. N
        BY <1>2, <3>2
      <4>2. s1[i] \in {Enterprise1, s[i]}
        BY <1>8, <1>10, <4>1
      <4> QED
        BY <1>5, <4>2, DifferentUris
    <3> QED
      BY <3>1, <3>2
  <2> QED
    BY <1>11, <2>1, <2>2, <2>3 DEF IsSchemas
<1>14. PICK B, T2 : B = Renamed(s1, Enterprise1, Enterprise2) /\ T2 = ToSet(s1) \cup {Enterprise2}
  OBVIOUS
<1>15. /\ B \in Seq(T2) /\ Len(B) = N
       /\ \A i \in 1 .. N : B[i] = IF s1[i] = Enterprise1 THEN Enterprise2 ELSE s1[i]
  <2>1. IsListOf(s1)
    BY <1>10, SequencesAreLists
  <2> QED
    BY <1>10, <1>14, <2>1, RenamedIs
<1>16. B[1] = Core1 /\ \A i \in 2 .. N : B[i] = s[i]
  <2>1. B[1] = Core1
    BY <1>3, <1>10, <1>15, DifferentUris
  <2>2. \A i \in 2 .. N : B[i] = s[i]
    BY <1>5, <1>6, <1>8, <1>10, <1>15
  <2> QED
    BY <2>1, <2>2
<1>17. PICK s2 : s2 = Remapped(User2, B, {Core1})
  OBVIOUS
<1>18. s2 \in Seq(T2 \cup {User2}) /\ Len(s2) = N /\ s2[1] = User2 /\ \A i \in 2 .. N : s2[i] = B[i]
  <2>1. PICK first, dropped : first = User2 /\ dropped = {Core1}
    OBVIOUS
  <2>2. B[1] \in dropped \cup {first}
    BY <1>16, <2>1
  <2>3. \A i \in 2 .. N : B[i] \notin dropped \cup {first}
    BY <1>5, <1>6, <1>16, <2>1
  <2>4. ASSUME NEW i \in 1 .. N, NEW j \in 1 .. N, i # j PROVE B[i] # B[j]
    <3>1. \A k \in 1 .. N : k = 1 \/ k \in 2 .. N
      BY <1>2
    <3>2. \A k \in 2 .. N : B[k] = s[k] /\ s[k] # Core1
      BY <1>5, <1>6, <1>16
    <3>3. CASE i \in 2 .. N /\ j \in 2 .. N
      BY <1>4, <2>4, <3>2, <3>3
    <3>4. CASE i = 1 \/ j = 1
      BY <1>16, <2>4, <3>1, <3>2, <3>4
    <3> QED
      BY <3>1, <3>3, <3>4
  <2>5. Len(B) >= 1
    BY <1>3, <1>15
  <2>6. PICK r : r = Remapped(first, B, dropped)
    OBVIOUS
  <2>7. r \in Seq(T2 \cup {first}) /\ Len(r) = Len(B) /\ r[1] = first /\ \A i \in 2 .. Len(B) : r[i] = B[i]
    <3>1. Headed(r, T2, first, B)
      BY <1>15, <2>2, <2>3, <2>4, <2>5, <2>6, RemappedIs
    <3> QED
      BY <3>1 DEF Headed
  <2> QED
    BY <1>15, <1>17, <2>1, <2>6, <2>7
<1>19. s2 = s
  <2>1. ASSUME NEW i \in 1 .. N PROVE s2[i] = s[i]
    <3>1. i = 1 \/ i \in 2 .. N
      BY <1>2
    <3> QED
      BY <1>4, <1>16, <1>18, <3>1
  <2>2. DOMAIN s2 = 1 .. N /\ s2 = [i \in 1 .. N |-> s2[i]] /\ s = [i \in 1 .. N |-> s[i]]
    BY <1>1, <1>2, <1>18
  <2> QED
    BY <2>1, <2>2
<1>20. remapSchemasToV2(v1, "User") = Arr(s2)
  <2>1. Uris(v1) = s1 /\ V2Uri("User") = User2
    BY <1>13, UrisAre DEF V2Uri
  <2> QED
    BY <1>14, <1>17, <2>1 DEF remapSchemasToV2
<1>21. v = Arr(s)
  BY <1>1 DEF IsSchemas
<1> QED
  BY <1>12, <1>19, <1>20, <1>21

\* A field is renamed, and no field of the old name is left.
LEMMA RenameIs ==
  ASSUME NEW x, NEW from, NEW to, from # to
  PROVE  /\ IsMap(Rename(x, from, to)) <=> IsMap(x)
         /\ IsMap(x) => from \notin DOMAIN Rename(x, from, to).m
<1>1. CASE IsMap(x) /\ from \in DOMAIN x.m
  <2>1. PICK fields : fields = setAttr(deleteAttr(x.m, from), to, x.m[from])
    OBVIOUS
  <2>2. Rename(x, from, to) = Map(fields)
    BY <1>1, <2>1 DEF Rename
  <2>3. from \notin DOMAIN fields
    BY <2>1 DEF setAttr, deleteAttr, Restrict
  <2>4. IsMap(Map(fields)) /\ Map(fields).m = fields
    BY Kinds
  <2> QED
    BY <1>1, <2>2, <2>3, <2>4
<1>2. CASE ~ (IsMap(x) /\ from \in DOMAIN x.m)
  BY <1>2 DEF Rename
<1> QED
  BY <1>1, <1>2

\* What was renamed and renamed back is what it was.
LEMMA RenameBack ==
  ASSUME NEW x, WellFormed(x), NEW from, NEW to, from # to, IsMap(x) => to \notin DOMAIN x.m
  PROVE  Rename(Rename(x, from, to), to, from) = x
<1>1. CASE IsMap(x) /\ from \in DOMAIN x.m
  <2>1. PICK m : m = x.m
    OBVIOUS
  <2>2. x = Map(m) /\ m = [n \in DOMAIN m |-> m[n]] /\ from \in DOMAIN m /\ to \notin DOMAIN m
    BY <1>1, <2>1 DEF WellFormed, IsFields
  <2>3. PICK g : g = setAttr(deleteAttr(m, from), to, m[from])
    OBVIOUS
  <2>4. g = [n \in (DOMAIN m \ {from}) \cup {to} |-> IF n = to THEN m[from] ELSE m[n]]
    BY <2>3 DEF setAttr, deleteAttr, Restrict
  <2>5. Rename(x, from, to) = Map(g)
    BY <1>1, <2>1, <2>3 DEF Rename
  <2>6. IsMap(Map(g)) /\ Map(g).m = g
    BY Kinds
  <2>7. to \in DOMAIN g /\ g[to] = m[from]
    BY <2>4
  <2>8. PICK h : h = setAttr(deleteAttr(g, to), from, g[to])
    OBVIOUS
  <2>9. h = [n \in (DOMAIN g \ {to}) \cup {from} |-> IF n = from THEN m[from] ELSE g[n]]
    BY <2>7, <2>8 DEF setAttr, deleteAttr, Restrict
  <2>10. (DOMAIN g \ {to}) \cup {from} = DOMAIN m
    BY <2>2, <2>4
  <2>11. ASSUME NEW n \in DOMAIN m PROVE h[n] = m[n]
    BY <2>2, <2>4, <2>9, <2>10
  <2>12. h = m
    BY <2>2, <2>9, <2>10, <2>11
  <2>13. Rename(Map(g), to, from) = Map(h)
    BY <2>6, <2>7, <2>8 DEF Rename
  <2> QED
    BY <2>2, <2>5, <2>12, <2>13
<1>2. CASE ~ (IsMap(x) /\ from \in DOMAIN x.m)
  <2>1. Rename(x, from, to) = x
    BY <1>2 DEF Rename
  <2>2. Rename(x, to, from) = x
    BY DEF Rename
  <2> QED
    BY <2>1, <2>2
<1> QED
  BY <1>1, <1>2

\* What a SCIM 1.1 resource is made of: the attributes of r, its schemas replaced,
\* and those of its extension, named in X.
Flat(f, r, schemas, X, ext) ==
  f = [n \in (DOMAIN r \ {Enterprise}) \cup X |->
         IF n \in X THEN ext[n] ELSE IF n = "schemas" THEN schemas ELSE r[n]]

\* v1 is f with the manager as SCIM 1.1 has it.
Managed(v1, f) ==
  v1 = [n \in DOMAIN f |-> IF n = "manager" THEN Rename(f[n], "value", "managerid") ELSE f[n]]

\* The extension of r, when it has one.
Extension(r, X, ext) ==
  \/ X = {} /\ Enterprise \notin DOMAIN r
  \/ Enterprise \in DOMAIN r /\ IsMap(r[Enterprise]) /\ ext = r[Enterprise].m /\ X = DOMAIN ext

\* fixManagerFieldToV1 renames a field of the manager, if there is one.
LEMMA ManagedIs ==
  ASSUME NEW f, IsFields(f)
  PROVE  Managed(fixManagerFieldToV1(f), f)
<1>1. CASE "manager" \in DOMAIN f
  <2>1. fixManagerFieldToV1(f) = [f EXCEPT !["manager"] = Rename(f["manager"], "value", "managerid")]
    BY <1>1 DEF fixManagerFieldToV1, Adapt
  <2> QED
    BY <1>1, <2>1 DEF Managed, IsFields
<1>2. CASE "manager" \notin DOMAIN f
  <2>1. fixManagerFieldToV1(f) = f
    BY <1>2 DEF fixManagerFieldToV1, Adapt
  <2>2. f = [n \in DOMAIN f |-> IF n = "manager" THEN Rename(f[n], "value", "managerid") ELSE f[n]]
    BY <1>2 DEF IsFields
  <2> QED
    BY <2>1, <2>2 DEF Managed
<1> QED
  BY <1>1, <1>2

\* A resource in SCIM 1.1.
LEMMA FromV2Is ==
  ASSUME NEW r \in V2Resources
  PROVE  \E f, X, ext : /\ Flat(f, r, remapSchemasToV1(r["schemas"]), X, ext)
                        /\ Extension(r, X, ext) /\ X \cap {"schemas", Enterprise} = {}
                        /\ Managed(FromV2(r), f)
<1>1. PICK schemas, r1 : schemas = remapSchemasToV1(r["schemas"]) /\ r1 = setAttr(r, "schemas", schemas)
  OBVIOUS
<1>2. IsFields(r) /\ "schemas" \in DOMAIN r
  BY ResourcesAssumption
<1>3. r1 = [n \in DOMAIN r |-> IF n = "schemas" THEN schemas ELSE r[n]]
  BY <1>1, <1>2 DEF setAttr
<1>4. PICK f : f = flattenEnterpriseExtension(r1)
  OBVIOUS
<1>5. FromV2(r) = fixManagerFieldToV1(f)
  BY <1>1, <1>2, <1>4 DEF FromV2, WithSchemas
<1>6. Enterprise # "schemas"
  BY DEF Enterprise
<1>7. ASSUME NEW X, NEW ext, Flat(f, r, schemas, X, ext) PROVE Managed(FromV2(r), f)
  <2>1. IsFields(f)
    BY <1>7 DEF Flat, IsFields
  <2> QED
    BY <1>5, <2>1, ManagedIs
<1>8. CASE Enterprise \in DOMAIN r
  <2>1. PICK e, m : e = r[Enterprise] /\ m = e.m
    OBVIOUS
  <2>2. IsMap(e) /\ DOMAIN m \cap {"schemas", Enterprise} = {}
    BY <1>8, <2>1, ResourcesAssumption
  <2>3. lookupAttr(r1, Enterprise) = e
    BY <1>3, <1>6, <1>8, <2>1 DEF lookupAttr
  <2>4. f = Merged(deleteAttr(r1, Enterprise), m)
    BY <1>4, <2>1, <2>2, <2>3 DEF flattenEnterpriseExtension
  <2>5. deleteAttr(r1, Enterprise) = [n \in DOMAIN r \ {Enterprise} |-> IF n = "schemas" THEN schemas ELSE r[n]]
    BY <1>3 DEF deleteAttr, Restrict
  <2>6. PICK g : g = deleteAttr(r1, Enterprise)
    OBVIOUS
  <2>7. DOMAIN g = DOMAIN r \ {Enterprise} /\ \A n \in DOMAIN g : g[n] = IF n = "schemas" THEN schemas ELSE r[n]
    BY <2>5, <2>6
  <2>8. f = [n \in DOMAIN g \cup DOMAIN m |-> IF n \in DOMAIN m THEN m[n] ELSE g[n]]
    BY <2>4, <2>6 DEF Merged
  <2>9. Flat(f, r, schemas, DOMAIN m, m)
    BY <2>7, <2>8 DEF Flat
  <2>10. Extension(r, DOMAIN m, m)
    BY <1>8, <2>1, <2>2 DEF Extension
  <2> QED
    BY <1>1, <1>7, <2>2, <2>9, <2>10
<1>9. CASE Enterprise \notin DOMAIN r
  <2>1. lookupAttr(r1, Enterprise) = Nil /\ ~ IsMap(Nil)
    BY <1>3, <1>9 DEF lookupAttr, IsMap, Nil
  <2>2. f = r1
    BY <1>4, <2>1 DEF flattenEnterpriseExtension
  <2>3. PICK X, ext : X = {} /\ ext = r
    OBVIOUS
  <2>4. (DOMAIN r \ {Enterprise}) \cup X = DOMAIN r
    BY <1>9, <2>3
  <2>5. Flat(f, r, schemas, X, ext)
    BY <1>3, <2>2, <2>3, <2>4 DEF Flat
  <2>6. Extension(r, X, ext)
    BY <1>9, <2>3 DEF Extension
  <2> QED
    BY <1>1, <1>7, <2>3, <2>5, <2>6
<1> QED
  BY <1>8, <1>9

\* Groups whose members have no id stay as they are.
LEMMA GroupsStay ==
  ASSUME NEW r \in V2Resources, Canonical(r)
  PROVE  fixGroupsMembership(r) = r
<1>1. PICK v : v = r["groups"]
  OBVIOUS
<1>2. IsFields(r)
  BY ResourcesAssumption
<1>3. CASE "groups" \in DOMAIN r /\ IsArr(v)
  <2>1. PICK a : a = v.a
    OBVIOUS
  <2>2. WellFormed(v)
    BY <1>1, <1>3, ResourcesAssumption
  <2>3. v = Arr(a) /\ IsListOf(a)
    BY <1>3, <2>1, <2>2 DEF WellFormed
  <2>4. lookupAttr(r, "groups") = v /\ getMultiValued(v) = a
    BY <1>1, <1>3, <2>1 DEF lookupAttr, getMultiValued
  <2>5. ASSUME NEW i \in DOMAIN a PROVE Rename(a[i], "id", "value") = a[i]
    <3>1. a[i] \in ToSet(a)
      BY DEF ToSet
    <3>2. IsMap(a[i]) => "id" \notin DOMAIN a[i].m
      BY <2>4, <3>1 DEF Canonical
    <3> QED
      BY <3>2 DEF Rename
  <2>6. [i \in DOMAIN a |-> Rename(a[i], "id", "value")] = [i \in DOMAIN a |-> a[i]]
    BY <2>5
  <2>7. a = [i \in DOMAIN a |-> a[i]]
    BY <2>3 DEF IsListOf
  <2>8. fixGroupsMembership(r) = [r EXCEPT !["groups"] = Arr([i \in DOMAIN a |-> Rename(a[i], "id", "value")])]
    BY <1>1, <1>3, <2>1 DEF fixGroupsMembership, Adapt
  <2>9. fixGroupsMembership(r) = [r EXCEPT !["groups"] = v]
    BY <2>3, <2>6, <2>7, <2>8
  <2> QED
    BY <1>1, <1>2, <1>3, <2>9 DEF IsFields
<1>4. CASE "groups" \in DOMAIN r /\ ~ IsArr(v)
  <2>1. fixGroupsMembership(r) = [r EXCEPT !["groups"] = v]
    BY <1>1, <1>4 DEF fixGroupsMembership, Adapt
  <2> QED
    BY <1>1, <1>2, <1>4, <2>1 DEF IsFields
<1>5. CASE "groups" \notin DOMAIN r
  BY <1>5 DEF fixGroupsMembership, Adapt
<1> QED
  BY <1>3, <1>4, <1>5

\* The manager in the extension, when it comes back.
LEMMA ManagerReturns ==
  ASSUME NEW E, IsFields(E), \A n \in DOMAIN E : WellFormed(E[n]),
         "manager" \in DOMAIN E /\ IsMap(E["manager"]) => "managerid" \notin DOMAIN E["manager"].m,
         NEW F, F = [n \in DOMAIN E |-> IF n = "manager" THEN Rename(E[n], "value", "managerid") ELSE E[n]]
  PROVE  Adapt(F, "manager", LAMBDA v : Rename(v, "managerid", "value")) = E
<1>1. CASE "manager" \in DOMAIN E
  <2>1. PICK x, y : x = E["manager"] /\ y = F["manager"]
    OBVIOUS
  <2>2. y = Rename(x, "value", "managerid")
    BY <1>1, <2>1
  <2>3. Rename(y, "managerid", "value") = x
    <3>1. WellFormed(x) /\ (IsMap(x) => "managerid" \notin DOMAIN x.m)
      BY <1>1, <2>1
    <3>2. PICK from, to : from = "value" /\ to = "managerid"
      OBVIOUS
    <3>3. from # to /\ (IsMap(x) => to \notin DOMAIN x.m)
      BY <3>1, <3>2
    <3>4. Rename(Rename(x, from, to), to, from) = x
      BY <3>1, <3>3, RenameBack
    <3> QED
      BY <2>2, <3>2, <3>4
  <2>4. Adapt(F, "manager", LAMBDA v : Rename(v, "managerid", "value")) = [F EXCEPT !["manager"] = x]
    BY <1>1, <2>1, <2>3 DEF Adapt
  <2>5. [F EXCEPT !["manager"] = x] = [n \in DOMAIN E |-> E[n]]
    BY <2>1
  <2> QED
    BY <2>4, <2>5 DEF IsFields
<1>2. CASE "manager" \notin DOMAIN E
  <2>1. Adapt(F, "manager", LAMBDA v : Rename(v, "managerid", "value")) = F
    BY <1>2 DEF Adapt
  <2>2. F = [n \in DOMAIN E |-> E[n]]
    BY <1>2
  <2> QED
    BY <2>1, <2>2 DEF IsFields
<1> QED
  BY <1>1, <1>2

\* A user that went to SCIM 1.1 comes back as it was.
LEMMA UserReturns ==
  ASSUME NEW r \in V2Resources, Canonical(r)
  PROVE  ToV2(FromV2(r), "User") = r
<1>1. PICK schemas, v1 : schemas = remapSchemasToV1(r["schemas"]) /\ v1 = FromV2(r)
  OBVIOUS
<1>2. PICK f, X, ext : /\ Flat(f, r, schemas, X, ext) /\ Extension(r, X, ext)
                       /\ X \cap {"schemas", Enterprise} = {} /\ Managed(v1, f)
  BY <1>1, FromV2Is
<1>3. PICK D : D = DOMAIN r
  OBVIOUS
<1>4. r = [n \in D |-> r[n]] /\ "schemas" \in D
  BY <1>3, ResourcesAssumption DEF IsFields
<1>5. D \cap EnterpriseAttrs = {}
  BY <1>3 DEF Canonical
<1>6. X \subseteq EnterpriseAttrs /\ (Enterprise \in D => X # {})
  <2>1. CASE Enterprise \in D
    <3>1. IsMap(r[Enterprise]) /\ ext = r[Enterprise].m /\ X = DOMAIN ext
      BY <1>2, <1>3, <2>1 DEF Extension
    <3>2. lookupAttr(r, Enterprise) = r[Enterprise]
      BY <1>3, <2>1 DEF lookupAttr
    <3>3. ext # <<>> /\ DOMAIN ext \subseteq EnterpriseAttrs
      BY <3>1, <3>2 DEF Canonical
    <3>4. IsFields(ext)
      BY <1>3, <2>1, <3>1, ResourcesAssumption DEF WellFormed
    <3>5. DOMAIN ext # {}
      BY <3>3, <3>4 DEF IsFields
    <3> QED
      BY <3>1, <3>3, <3>5
  <2>2. CASE Enterprise \notin D
    BY <1>2, <1>3, <2>2 DEF Extension
  <2> QED
    BY <2>1, <2>2
<1>7. /\ {"schemas", Enterprise} \cap EnterpriseAttrs = {} /\ "manager" \in EnterpriseAttrs
      /\ Enterprise # "schemas" /\ "manager" # "schemas"
  BY DEF EnterpriseAttrs, Enterprise
<1>8. /\ f = [n \in (D \ {Enterprise}) \cup X |->
                IF n \in X THEN ext[n] ELSE IF n = "schemas" THEN schemas ELSE r[n]]
      /\ v1 = [n \in (D \ {Enterprise}) \cup X |->
                 IF n = "manager" THEN Rename(f[n], "value", "managerid") ELSE f[n]]
  <2>1. f = [n \in (D \ {Enterprise}) \cup X |->
                IF n \in X THEN ext[n] ELSE IF n = "schemas" THEN schemas ELSE r[n]]
    BY <1>2, <1>3 DEF Flat
  <2>2. DOMAIN f = (D \ {Enterprise}) \cup X
    BY <2>1
  <2> QED
    BY <1>2, <2>1, <2>2 DEF Managed
<1>9. "schemas" \in DOMAIN v1 /\ v1["schemas"] = schemas
  <2>1. "schemas" \in (D \ {Enterprise}) \cup X /\ "schemas" \notin X /\ "schemas" # "manager"
    BY <1>2, <1>4, <1>7
  <2> QED
    BY <1>8, <2>1
<1>10. remapSchemasToV2(schemas, "User") = r["schemas"]
  <2>1. PICK v : v = r["schemas"]
    OBVIOUS
  <2>2. IsSchemas(v)
    BY <1>3, <1>4, <2>1, ResourcesAssumption DEF IsSchemas, WellFormed
  <2>3. UserSchemas(v.a)
    BY <2>1 DEF Canonical, UserSchemas
  <2> QED
    BY <1>1, <2>1, <2>2, <2>3, SchemasReturn
<1>11. PICK m2 : m2 = setAttr(v1, "schemas", r["schemas"])
  OBVIOUS
<1>12. ToV2(v1, "User") = fixGroupsMembership(fixManagerField(promoteEnterpriseExtension(m2)))
  BY <1>9, <1>10, <1>11 DEF ToV2, WithSchemas
<1>13. m2 = [n \in (D \ {Enterprise}) \cup X |-> IF n = "schemas" THEN r["schemas"] ELSE v1[n]]
  <2>1. DOMAIN v1 = (D \ {Enterprise}) \cup X
    BY <1>8
  <2>2. DOMAIN v1 \cup {"schemas"} = (D \ {Enterprise}) \cup X
    BY <1>9, <2>1
  <2> QED
    BY <1>11, <2>2 DEF setAttr
<1>14. ASSUME NEW n \in D \ {Enterprise} PROVE m2[n] = r[n]
  <2>1. n \notin X /\ n # "manager"
    BY <1>5, <1>6, <1>7
  <2>2. f[n] = IF n = "schemas" THEN schemas ELSE r[n]
    BY <1>8, <2>1
  <2>3. v1[n] = f[n]
    BY <1>8, <2>1
  <2> QED
    BY <1>13, <2>2, <2>3
<1>15. EnterpriseAttrs \cap DOMAIN m2 = X /\ DOMAIN m2 \ X = D \ {Enterprise}
  BY <1>5, <1>6, <1>7, <1>13
<1>16. fixManagerField(promoteEnterpriseExtension(m2)) = r
  <2>1. CASE X = {}
    <3>1. promoteEnterpriseExtension(m2) = m2
      BY <1>15, <2>1 DEF promoteEnterpriseExtension
    <3>2. Enterprise \notin D /\ D \ {Enterprise} = D /\ (D \ {Enterprise}) \cup X = D
      BY <1>6, <2>1
    <3>3. m2 = [n \in D |-> m2[n]] /\ \A n \in D : m2[n] = r[n]
      BY <1>13, <1>14, <3>2
    <3>4. m2 = r
      BY <1>4, <3>3
    <3>5. fixManagerField(r) = r
      BY <1>3, <3>2 DEF fixManagerField, Adapt
    <3> QED
      BY <3>1, <3>4, <3>5
  <2>2. CASE X # {}
    <3>1. Enterprise \in D /\ IsMap(r[Enterprise]) /\ ext = r[Enterprise].m /\ X = DOMAIN ext
      BY <1>2, <1>3, <2>2 DEF Extension
    <3>2. r[Enterprise] = Map(ext) /\ IsFields(ext) /\ \A n \in X : WellFormed(ext[n])
      BY <1>3, <3>1, ResourcesAssumption DEF WellFormed
    <3>3. PICK F : F = Restrict(m2, X)
      OBVIOUS
    <3>4. F = [n \in X |-> IF n = "manager" THEN Rename(ext[n], "value", "managerid") ELSE ext[n]]
      <4>1. ASSUME NEW n \in X
            PROVE  m2[n] = IF n = "manager" THEN Rename(ext[n], "value", "managerid") ELSE ext[n]
        <5>1. n # "schemas" /\ n \in (D \ {Enterprise}) \cup X
          BY <1>2
        <5>2. f[n] = ext[n]
          BY <1>8, <5>1
        <5> QED
          BY <1>8, <1>13, <5>1, <5>2
      <4>2. F = [n \in X |-> m2[n]]
        BY <3>3 DEF Restrict
      <4> QED
        BY <4>1, <4>2
    <3>5. PICK p : p = setAttr(Restrict(m2, D \ {Enterprise}), Enterprise, Map(F))
      OBVIOUS
    <3>6. promoteEnterpriseExtension(m2) = p
      BY <1>15, <2>2, <3>3, <3>5 DEF promoteEnterpriseExtension
    <3>7. p = [n \in D |-> IF n = Enterprise THEN Map(F) ELSE r[n]]
      <4>1. (D \ {Enterprise}) \cup {Enterprise} = D
        BY <3>1
      <4>2. PICK rest : rest = Restrict(m2, D \ {Enterprise})
        OBVIOUS
      <4>3. DOMAIN rest = D \ {Enterprise} /\ \A n \in D \ {Enterprise} : rest[n] = r[n]
        BY <1>14, <4>2 DEF Restrict
      <4>4. p = [n \in D |-> IF n = Enterprise THEN Map(F) ELSE rest[n]]
        BY <3>5, <4>1, <4>2, <4>3 DEF setAttr
      <4> QED
        BY <4>3, <4>4
    <3>8. IsMap(Map(F)) /\ Map(F).m = F
      BY Kinds
    <3>9. Adapt(F, "manager", LAMBDA v : Rename(v, "managerid", "value")) = ext
      <4>1. "manager" \in DOMAIN ext /\ IsMap(ext["manager"]) => "managerid" \notin DOMAIN ext["manager"].m
        <5>1. lookupAttr(r, Enterprise) = r[Enterprise]
          BY <1>3, <3>1 DEF lookupAttr
        <5>2. "manager" \in DOMAIN ext => lookupAttr(ext, "manager") = ext["manager"]
          BY DEF lookupAttr
        <5> QED
          BY <3>1, <5>1, <5>2 DEF Canonical
      <4> QED
        BY <3>1, <3>2, <3>4, <4>1, ManagerReturns
    <3>10. fixManagerField(p) = [p EXCEPT ![Enterprise] = Map(ext)]
      <4>1. Enterprise \in DOMAIN p /\ p[Enterprise] = Map(F)
        BY <3>1, <3>7
      <4> QED
        BY <3>8, <3>9, <4>1 DEF fixManagerField, Adapt
    <3>11. [p EXCEPT ![Enterprise] = Map(ext)] = [n \in D |-> r[n]]
      BY <3>1, <3>2, <3>7
    <3> QED
      BY <1>4, <3>6, <3>10, <3>11
  <2> QED
    BY <2>1, <2>2
<1> QED
  BY <1>1, <1>12, <1>16, GroupsStay

\* A SCIM 1.1 client sees nothing of SCIM 2.0 in a resource, and a user that it
\* sends back is the user that it was given.
THEOREM V1IsFaithful == Spec => []V1Agrees
<1>1. ASSUME AnswersAreRight PROVE V1Agrees
  <2> SUFFICES ASSUME Answered("convert") PROVE V1Agrees
    BY DEF V1Agrees
  <2>1. PICK r \in V2Resources : input = Case("convert", r) /\ answer = [kind |-> "convert", is |-> ConvertAnswer(r)]
    BY <1>1 DEF AnswersAreRight, Answered, NoAnswer, Case
  <2>2. PICK v1, schemas : v1 = FromV2(r) /\ schemas = remapSchemasToV1(r["schemas"])
    OBVIOUS
  <2>3. input.of = r /\ answer.is.v1 = v1 /\ answer.is.v2 = ToV2(v1, "User")
    BY <2>1, <2>2 DEF Case, ConvertAnswer
  <2>4. PICK f, X, ext : /\ Flat(f, r, schemas, X, ext)
                         /\ X \cap {"schemas", Enterprise} = {} /\ Managed(v1, f)
    BY <2>2, FromV2Is
  <2>5. /\ f = [n \in (DOMAIN r \ {Enterprise}) \cup X |->
                  IF n \in X THEN ext[n] ELSE IF n = "schemas" THEN schemas ELSE r[n]]
        /\ v1 = [n \in DOMAIN f |-> IF n = "manager" THEN Rename(f[n], "value", "managerid") ELSE f[n]]
    BY <2>4 DEF Flat, Managed
  <2>6. Enterprise \notin DOMAIN v1
    BY <2>4, <2>5
  <2>7. v1["schemas"] = schemas
    <3>1. "schemas" \in DOMAIN r /\ "schemas" # Enterprise /\ "schemas" # "manager"
      BY ResourcesAssumption DEF Enterprise
    <3>2. "schemas" \in DOMAIN f /\ f["schemas"] = schemas
      BY <2>4, <2>5, <3>1
    <3> QED
      BY <2>5, <3>1, <3>2
  <2>8. ToSet(schemas.a) \cap {User2, Group2, Enterprise2} = {}
    <3>1. PICK v : v = r["schemas"]
      OBVIOUS
    <3>2. IsSchemas(v)
      BY <3>1, ResourcesAssumption DEF IsSchemas, WellFormed
    <3> QED
      BY <2>2, <3>1, <3>2, NoneOfV2
  <2>9. ASSUME IsMap(lookupAttr(v1, "manager")) PROVE "value" \notin DOMAIN v1["manager"].m
    <3>1. "manager" \in DOMAIN v1 /\ lookupAttr(v1, "manager") = v1["manager"]
      BY <2>9 DEF lookupAttr, IsMap, Nil
    <3>2. PICK x : x = f["manager"]
      OBVIOUS
    <3>3. v1["manager"] = Rename(x, "value", "managerid")
      BY <2>5, <3>1, <3>2
    <3>4. PICK from, to : from = "value" /\ to = "managerid"
      OBVIOUS
    <3>5. from # to /\ v1["manager"] = Rename(x, from, to)
      BY <3>3, <3>4
    <3>6. IsMap(x) /\ from \notin DOMAIN Rename(x, from, to).m
      BY <2>9, <3>1, <3>5, RenameIs
    <3> QED
      BY <3>4, <3>5, <3>6
  <2>10. Canonical(r) => ToV2(v1, "User") = r
    BY <2>2, UserReturns
  <2> QED
    BY <2>3, <2>6, <2>7, <2>8, <2>9, <2>10 DEF V1Agrees
<1> QED
  BY <1>1, AnswersOfInputs, PTL

=============================================================================
