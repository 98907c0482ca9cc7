------------------------------ MODULE TextProofs ------------------------------
(***************************************************************************)
(* Proofs about the texts the library cuts apart and puts together.        *)
(*                                                                         *)
(* SqlUtils: a script of any length is executed word for word, without its *)
(* comments, or not at all.                                                *)
(*                                                                         *)
(* Conditions: the WHERE clause that is made of conditions, nested to any  *)
(* depth, reads as one condition and selects the rows that were meant.     *)
(***************************************************************************)
EXTENDS SqlUtils, Conditions, SequenceTheorems, WellFoundedInduction, TLAPS

-----------------------------------------------------------------------------
(* Recursion *)

\* Induction over natural numbers, for a set.
LEMMA SetInduction ==
    ASSUME NEW T, 0 \in T, \A n \in Nat : n \in T => n + 1 \in T
    PROVE  \A n \in Nat : n \in T
  <1> DEFINE U == {n \in Nat : n \notin T}
  <1> SUFFICES ASSUME U # {} PROVE FALSE
    OBVIOUS
  <1>1. PICK x \in U : \A y \in U : ~ (<<y, x>> \in OpToRel(<, Nat))
    BY NatLessThanWellFounded, WFMin
  <1>2. x \in Nat /\ x # 0
    OBVIOUS
  <1>3. x - 1 \in Nat /\ <<x - 1, x>> \in OpToRel(<, Nat)
    BY <1>2 DEF OpToRel
  <1>4. x - 1 \in T
    BY <1>1, <1>3
  <1>5. x - 1 + 1 \in T
    BY <1>3, <1>4
  <1>6. QED
    BY <1>2, <1>5

\* There is a function that takes value v first, and each next one by step G.
LEMMA RecursionExists ==
    ASSUME NEW V, NEW v \in V, NEW N \in Nat, NEW G \in [(1 .. N) \X V -> V]
    PROVE  \E f \in [0 .. N -> V] : f[0] = v /\ \A b \in 1 .. N : f[b] = G[<<b, f[b - 1]>>]
  <1> DEFINE Is(f, n) == f[0] = v /\ \A b \in 1 .. n : f[b] = G[<<b, f[b - 1]>>]
             T == {n \in Nat : n <= N => \E f \in [0 .. n -> V] : Is(f, n)}
  <1>1. 0 \in T
    <2>1. [b \in 0 .. 0 |-> v] \in [0 .. 0 -> V] /\ Is([b \in 0 .. 0 |-> v], 0)
      OBVIOUS
    <2>2. QED
      BY <2>1
  <1>2. ASSUME NEW n \in Nat, n \in T PROVE n + 1 \in T
    <2> SUFFICES ASSUME n + 1 <= N PROVE \E f \in [0 .. n + 1 -> V] : Is(f, n + 1)
      OBVIOUS
    <2>1. PICK f \in [0 .. n -> V] : Is(f, n)
      BY <1>2
    <2> DEFINE w == G[<<n + 1, f[n]>>]
               g == [b \in 0 .. n + 1 |-> IF b = n + 1 THEN w ELSE f[b]]
    <2>2. n + 1 \in 1 .. N /\ f[n] \in V
      OBVIOUS
    <2>3. w \in V
      BY <2>2
    <2>4. g \in [0 .. n + 1 -> V] /\ g[0] = v
      BY <2>1, <2>3
    <2>5. ASSUME NEW b \in 1 .. n + 1 PROVE g[b] = G[<<b, g[b - 1]>>]
      <3>1. b - 1 \in 0 .. n /\ g[b - 1] = f[b - 1]
        OBVIOUS
      <3>2. CASE b = n + 1
        <4>1. g[b] = w /\ b - 1 = n
          BY <3>2
        <4> HIDE DEF g
        <4>2. QED
          BY <3>1, <3>2, <4>1
      <3>3. CASE b # n + 1
        <4>1. b \in 1 .. n /\ g[b] = f[b]
          BY <3>3
        <4>2. f[b] = G[<<b, f[b - 1]>>]
          BY <2>1, <4>1
        <4> HIDE DEF g
        <4>3. QED
          BY <3>1, <4>1, <4>2
      <3>4. QED
        BY <3>2, <3>3
    <2> HIDE DEF g
    <2>6. QED
      BY <2>4, <2>5
  <1>3. \A n \in Nat : n \in T
    <2> HIDE DEF T
    <2> QED
      BY <1>1, <1>2, SetInduction
  <1>4. N \in T
    BY <1>3
  <1>5. QED
    BY <1>4

\* The states of a script whose literals do not matter: in a comment from its
\* sign on, up to the end of the line.
LEMMA StateIs ==
    ASSUME NEW s, Len(s) \in Nat
    PROVE  /\ State(s)[0] = "sql"
           /\ \A i \in 1 .. Len(s) : s[i] # "quote" =>
                 /\ State(s)[i - 1] = "sql" =>
                       State(s)[i] = IF s[i] = "--" THEN "comment" ELSE "sql"
                 /\ State(s)[i - 1] = "comment" =>
                       State(s)[i] = IF s[i] = "nl" THEN "sql" ELSE "comment"
  <1> DEFINE N == Len(s)
             V == {"sql", "literal", "comment"}
             S(i, x) == CASE x = "sql" /\ s[i] = "quote" -> "literal"
                          [] x = "literal" /\ s[i] = "quote" -> "sql"
                          [] x = "sql" /\ s[i] = "--" -> "comment"
                          [] x = "comment" /\ s[i] = "nl" -> "sql"
                          [] OTHER -> x
             G == [y \in (1 .. N) \X V |-> S(y[1], y[2])]
             D(h) == h = [i \in 0 .. N |-> IF i = 0 THEN "sql" ELSE S(i, h[i - 1])]
             c == CHOOSE h : D(h)
  <1>1. "sql" \in V /\ \A i \in 1 .. N, x \in V : S(i, x) \in V
    OBVIOUS
  <1>2. G \in [(1 .. N) \X V -> V] /\ \A i \in 1 .. N, x \in V : G[<<i, x>>] = S(i, x)
    <2> HIDE DEF S, V
    <2> QED
      BY <1>1
  <1>3. PICK f \in [0 .. N -> V] : f[0] = "sql" /\ \A i \in 1 .. N : f[i] = G[<<i, f[i - 1]>>]
    <2>1. N \in Nat
      OBVIOUS
    <2> HIDE DEF G, V, N, S
    <2>2. QED
      BY <1>1, <1>2, <2>1, RecursionExists
  <1>4. D(f)
    <2>1. \A i \in 1 .. N : f[i] = S(i, f[i - 1])
      <3> SUFFICES ASSUME NEW i \in 1 .. N PROVE f[i] = S(i, f[i - 1])
        OBVIOUS
      <3>1. f[i - 1] \in V
        OBVIOUS
      <3> HIDE DEF S, V, G
      <3>2. QED
        BY <1>2, <1>3, <3>1
    <2> HIDE DEF S
    <2>2. QED
      BY <1>3, <2>1
  <1>5. D(c)
    <2> HIDE DEF D
    <2> QED
      BY <1>4
  <1>6. State(s) = c
    BY DEF State
  <1> HIDE DEF c
  <1>7. c[0] = "sql" /\ \A i \in 1 .. N : c[i] = S(i, c[i - 1])
    <2> HIDE DEF S
    <2> QED
      BY <1>5
  <1>8. QED
    BY <1>6, <1>7

-----------------------------------------------------------------------------
(* Splitting and stripping *)

\* What is removed are comments that begin in the part, and those that begin at
\* a sign that is not in one before.
LEMMA StrippedIs ==
    ASSUME NEW s, Len(s) \in Nat, NEW p \in SUBSET (1 .. Len(s))
    PROVE  /\ \A x \in Stripped(s, p) : \E d \in p : s[d] = "--" /\ x \in CommentFrom(s, p, d)
           /\ \A x \in p : s[x] = "--" =>
                 \E d \in p : /\ s[d] = "--" /\ CommentFrom(s, p, d) \subseteq Stripped(s, p)
                              /\ x = d \/ x \in CommentFrom(s, p, d)
  <1> DEFINE N == Len(s)
             V == SUBSET p
             none == {}
             C(d) == CommentFrom(s, p, d)
             S(b, r) == IF b \in p /\ b \notin r /\ s[b] = "--" THEN r \cup C(b) ELSE r
             G == [y \in (1 .. N) \X V |-> S(y[1], y[2])]
             D(h) == h = [b \in 0 .. N |-> IF b = 0 THEN none ELSE S(b, h[b - 1])]
             c == CHOOSE h : D(h)
  <1>1. none \in V /\ \A b \in 1 .. N, r \in V : S(b, r) \in V
    BY DEF CommentFrom
  <1>2. G \in [(1 .. N) \X V -> V] /\ \A b \in 1 .. N, r \in V : G[<<b, r>>] = S(b, r)
    <2> HIDE DEF S, V
    <2> QED
      BY <1>1
  <1>3. PICK f \in [0 .. N -> V] : f[0] = none /\ \A b \in 1 .. N : f[b] = G[<<b, f[b - 1]>>]
    <2>1. N \in Nat
      OBVIOUS
    <2> HIDE DEF G, V, N, S, none
    <2>2. QED
      BY <1>1, <1>2, <2>1, RecursionExists
  <1>4. D(f)
    <2>1. \A b \in 1 .. N : f[b] = S(b, f[b - 1])
      <3> SUFFICES ASSUME NEW b \in 1 .. N PROVE f[b] = S(b, f[b - 1])
        OBVIOUS
      <3>1. f[b - 1] \in V
        OBVIOUS
      <3> HIDE DEF S, V, G
      <3>2. QED
        BY <1>2, <1>3, <3>1
    <2> HIDE DEF S, none
    <2>2. QED
      BY <1>3, <2>1
  <1>5. D(c)
    <2> HIDE DEF D
    <2> QED
      BY <1>4
  <1>6. Stripped(s, p) = c[N]
    BY DEF Stripped
  <1> HIDE DEF c
  <1>7. c[0] = none /\ \A b \in 1 .. N : c[b] = S(b, c[b - 1])
    <2> HIDE DEF S, none
    <2> QED
      BY <1>5
  <1> DEFINE From(r, x) == \E d \in p : s[d] = "--" /\ x \in C(d) /\ C(d) \subseteq r
             T == {n \in Nat : n <= N => \A x \in c[n] : From(c[n], x)}
  <1> HIDE DEF C
  <1>8. \A n \in Nat : n \in T
    <2>1. 0 \in T
      BY <1>7
    <2>2. ASSUME NEW n \in Nat, n \in T PROVE n + 1 \in T
      <3> SUFFICES ASSUME n + 1 <= N, NEW x \in c[n + 1] PROVE From(c[n + 1], x)
        OBVIOUS
      <3>1. n <= N /\ n + 1 \in 1 .. N /\ c[n + 1] = S(n + 1, c[n])
        <4>1. n <= N /\ n + 1 \in 1 .. N /\ (n + 1) - 1 = n
          OBVIOUS
        <4> HIDE DEF S
        <4>2. QED
          BY <1>7, <4>1
      <3>2. \A y \in c[n] : From(c[n], y)
        BY <2>2, <3>1
      <3>3. CASE x \in c[n]
        BY <3>1, <3>2, <3>3
      <3>4. CASE x \notin c[n]
        BY <3>1, <3>4
      <3>5. QED
        BY <3>3, <3>4
    <2> HIDE DEF T
    <2>3. QED
      BY <2>1, <2>2, SetInduction
  <1>9. ASSUME NEW b \in 0 .. N PROVE c[b] \subseteq c[N]
    <2> DEFINE M == {n \in Nat : b + n <= N => c[b] \subseteq c[b + n]}
    <2>1. 0 \in M
      OBVIOUS
    <2>2. ASSUME NEW n \in Nat, n \in M PROVE n + 1 \in M
      <3> SUFFICES ASSUME b + (n + 1) <= N PROVE c[b] \subseteq c[b + (n + 1)]
        OBVIOUS
      <3>1. c[b] \subseteq c[b + n] /\ b + (n + 1) \in 1 .. N /\ (b + (n + 1)) - 1 = b + n
        BY <2>2
      <3>2. c[b + (n + 1)] = S(b + (n + 1), c[b + n])
        BY <1>7, <3>1
      <3>3. QED
        BY <3>1, <3>2
    <2> HIDE DEF M
    <2>3. \A n \in Nat : n \in M
      BY <2>1, <2>2, SetInduction
    <2>4. N - b \in Nat /\ b + (N - b) = N
      OBVIOUS
    <2>5. QED
      BY <2>3, <2>4 DEF M
  <1>10. \A x \in c[N] : From(c[N], x)
    BY <1>8
  <1>11. ASSUME NEW x \in p, s[x] = "--"
         PROVE  \E d \in p : s[d] = "--" /\ C(d) \subseteq c[N] /\ (x = d \/ x \in C(d))
    <2>1. x \in 1 .. N /\ x - 1 \in 0 .. N /\ x - 1 <= N
      OBVIOUS
    <2>2. c[x] = S(x, c[x - 1])
      <3> HIDE DEF S
      <3> QED
        BY <1>7, <2>1
    <2>3. c[x] \subseteq c[N] /\ c[x - 1] \subseteq c[N]
      BY <1>9, <2>1
    <2>4. CASE x \in c[x - 1]
      BY <1>8, <2>1, <2>3, <2>4
    <2>5. CASE x \notin c[x - 1]
      BY <1>11, <2>1, <2>3, <2>5, <2>2
    <2>6. QED
      BY <2>4, <2>5
  <1>12. QED
    BY <1>6, <1>10, <1>11 DEF C

\* The parts of a script: each one that is not empty is there.
LEMMA PartsAre ==
    ASSUME NEW s, Len(s) \in Nat
    PROVE  LET q == SplitQueries(s)
           IN  /\ q \in Seq(SUBSET (1 .. Len(s)))
               /\ \A k \in 1 .. Len(q) : \E b \in Starts(s) \cap (1 .. Len(s)) : q[k] = Part(s, b)
               /\ \A b \in Starts(s) \cap (1 .. Len(s)) :
                     Part(s, b) # {} => \E k \in 1 .. Len(q) : q[k] = Part(s, b)
  <1> DEFINE N == Len(s)
             P == SUBSET (1 .. N)
             V == Seq(P)
             none == <<>>
             Is(b) == b \in Starts(s) /\ Part(s, b) # {}
             S(b, r) == IF Is(b) THEN Append(r, Part(s, b)) ELSE r
             G == [y \in (1 .. N) \X V |-> S(y[1], y[2])]
             D(h) == h = [b \in 0 .. N |-> IF b = 0 THEN none ELSE S(b, h[b - 1])]
             c == CHOOSE h : D(h)
  <1>1. none \in V /\ \A b \in 1 .. N : Part(s, b) \in P
    BY DEF Part
  <1>2. \A b \in 1 .. N, r \in V : S(b, r) \in V
    <2> HIDE DEF P, Is
    <2> QED
      BY <1>1
  <1>3. G \in [(1 .. N) \X V -> V] /\ \A b \in 1 .. N, r \in V : G[<<b, r>>] = S(b, r)
    <2> HIDE DEF S, V
    <2> QED
      BY <1>2
  <1>4. PICK f \in [0 .. N -> V] : f[0] = none /\ \A b \in 1 .. N : f[b] = G[<<b, f[b - 1]>>]
    <2>1. N \in Nat
      OBVIOUS
    <2> HIDE DEF G, V, N, S, none
    <2>2. QED
      BY <1>1, <1>3, <2>1, RecursionExists
  <1>5. D(f)
    <2>1. \A b \in 1 .. N : f[b] = S(b, f[b - 1])
      <3> SUFFICES ASSUME NEW b \in 1 .. N PROVE f[b] = S(b, f[b - 1])
        OBVIOUS
      <3>1. f[b - 1] \in V
        OBVIOUS
      <3> HIDE DEF S, V, G
      <3>2. QED
        BY <1>3, <1>4, <3>1
    <2> HIDE DEF S, none
    <2>2. QED
      BY <1>4, <2>1
  <1>6. D(c)
    <2> HIDE DEF D
    <2> QED
      BY <1>5
  <1>7. SplitQueries(s) = c[N]
    BY DEF SplitQueries
  <1> HIDE DEF c
  <1>8. c[0] = none /\ \A b \in 1 .. N : c[b] = S(b, c[b - 1])
    <2> HIDE DEF S, none
    <2> QED
      BY <1>6
  <1> DEFINE Has(q, n) ==
                /\ q \in V
                /\ \A k \in 1 .. Len(q) : \E b \in 1 .. n : b \in Starts(s) /\ q[k] = Part(s, b)
                /\ \A b \in 1 .. n : Is(b) => \E k \in 1 .. Len(q) : q[k] = Part(s, b)
             T == {n \in Nat : n <= N => Has(c[n], n)}
  <1>9. \A n \in Nat : n \in T
    <2>1. 0 \in T
      <3>1. c[0] \in V /\ Len(c[0]) = 0
        BY <1>1, <1>8
      <3>2. Has(c[0], 0)
        <4> HIDE DEF V, Is
        <4> QED
          BY <3>1
      <3> HIDE DEF Has
      <3>3. QED
        BY <3>2
    <2>2. ASSUME NEW n \in Nat, n \in T PROVE n + 1 \in T
      <3> HIDE DEF Has
      <3> SUFFICES ASSUME n + 1 <= N PROVE Has(c[n + 1], n + 1)
        OBVIOUS
      <3> USE DEF Has
      <3>1. n <= N /\ n + 1 \in 1 .. N /\ (n + 1) - 1 = n
        OBVIOUS
      <3>2. c[n + 1] = S(n + 1, c[n])
        <4> HIDE DEF S
        <4> QED
          BY <1>8, <3>1
      <3>3. Has(c[n], n)
        <4> HIDE DEF Has
        <4> QED
          BY <2>2, <3>1
      <3> DEFINE p == Part(s, n + 1)
                 q == c[n]
                 r == c[n + 1]
      <3> HIDE DEF p, q, r, P
      <3>4. CASE Is(n + 1)
        <4>1. r = Append(q, p) /\ q \in Seq(P) /\ p \in P
          BY <1>1, <3>1, <3>2, <3>3, <3>4 DEF p, q, r
        <4>2. /\ Len(q) \in Nat /\ r \in V /\ Len(r) = Len(q) + 1 /\ r[Len(q) + 1] = p
              /\ \A k \in 1 .. Len(q) : r[k] = q[k]
          BY <4>1
        <4>3. ASSUME NEW k \in 1 .. Len(r)
              PROVE  \E b \in 1 .. n + 1 : b \in Starts(s) /\ r[k] = Part(s, b)
          <5>1. CASE k = Len(q) + 1
            BY <3>4, <4>2, <5>1 DEF p
          <5>2. CASE k # Len(q) + 1
            <6>1. k \in 1 .. Len(q)
              BY <4>2, <5>2
            <6>2. PICK b \in 1 .. n : b \in Starts(s) /\ q[k] = Part(s, b)
              BY <3>3, <6>1 DEF q
            <6>3. QED
              BY <4>2, <6>1, <6>2
          <5>3. QED
            BY <5>1, <5>2
        <4>4. ASSUME NEW b \in 1 .. n + 1, Is(b)
              PROVE  \E k \in 1 .. Len(r) : r[k] = Part(s, b)
          <5>1. CASE b = n + 1
            BY <4>2, <5>1 DEF p
          <5>2. CASE b # n + 1
            <6> HIDE DEF Is
            <6>1. b \in 1 .. n /\ Is(b)
              BY <4>4, <5>2
            <6>2. \A y \in 1 .. n : Is(y) => \E k \in 1 .. Len(q) : q[k] = Part(s, y)
              BY <3>3 DEF q
            <6>3. PICK k \in 1 .. Len(q) : q[k] = Part(s, b)
              BY <6>1, <6>2
            <6>4. k \in 1 .. Len(r) /\ r[k] = Part(s, b)
              BY <4>2, <6>3
            <6>5. QED
              BY <6>4
          <5>3. QED
            BY <5>1, <5>2
        <4>5. QED
          BY <4>2, <4>3, <4>4 DEF r
      <3>5. CASE ~Is(n + 1)
        <4>1. r = q
          BY <3>2, <3>5 DEF r, q
        <4>2. \A b \in 1 .. n + 1 : Is(b) => b \in 1 .. n
          BY <3>5
        <4> HIDE DEF Is
        <4>3. QED
          BY <3>3, <4>1, <4>2 DEF r, q
      <3>6. QED
        BY <3>4, <3>5
    <2> HIDE DEF T
    <2>3. QED
      BY <2>1, <2>2, SetInduction
  <1>10. Has(c[N], N)
    <2> HIDE DEF Has
    <2> QED
      BY <1>9
  <1>11. QED
    BY <1>7, <1>10

\* A position of a script without literals is in a comment from its sign on, up
\* to the end of the line.
LEMMA CommentedIs ==
    ASSUME NEW s, Len(s) \in Nat, \A i \in 1 .. Len(s) : s[i] # "quote", NEW i \in 1 .. Len(s)
    PROVE  i \in Commented(s) <=> \E d \in 1 .. i : s[d] = "--" /\ \A m \in d .. i : s[m] # "nl"
  <1> DEFINE N == Len(s)
             c == State(s)
             In == {n \in 0 .. N : \E d \in 1 .. n : s[d] = "--" /\ \A m \in d .. n : s[m] # "nl"}
             T == {n \in Nat : n <= N => \/ c[n] = "sql" /\ n \notin In
                                         \/ c[n] = "comment" /\ n \in In}
  <1>1. /\ c[0] = "sql"
        /\ \A n \in 1 .. N :
              /\ c[n - 1] = "sql" => c[n] = IF s[n] = "--" THEN "comment" ELSE "sql"
              /\ c[n - 1] = "comment" => c[n] = IF s[n] = "nl" THEN "sql" ELSE "comment"
    BY StateIs
  <1> HIDE DEF c
  <1>2. 0 \in T
    BY <1>1
  <1>3. ASSUME NEW n \in Nat, n \in T PROVE n + 1 \in T
    <2> SUFFICES ASSUME n + 1 <= N
                 PROVE  (c[n + 1] = "sql" /\ n + 1 \notin In) \/ (c[n + 1] = "comment" /\ n + 1 \in In)
      OBVIOUS
    <2>1. n <= N /\ n + 1 \in 1 .. N /\ (n + 1) - 1 = n
      OBVIOUS
    <2>2. (c[n] = "sql" /\ n \notin In) \/ (c[n] = "comment" /\ n \in In)
      <3> HIDE DEF In
      <3> QED
        BY <1>3, <2>1
    <2>3. /\ c[n] = "sql" => c[n + 1] = IF s[n + 1] = "--" THEN "comment" ELSE "sql"
          /\ c[n] = "comment" => c[n + 1] = IF s[n + 1] = "nl" THEN "sql" ELSE "comment"
      BY <1>1, <2>1
    <2>4. n + 1 \in In <=> s[n + 1] = "--" \/ (n \in In /\ s[n + 1] # "nl")
      <3>1. ASSUME n + 1 \in In, s[n + 1] # "--" PROVE n \in In /\ s[n + 1] # "nl"
        <4>1. PICK d \in 1 .. n + 1 : s[d] = "--" /\ \A m \in d .. n + 1 : s[m] # "nl"
          BY <3>1
        <4>2. d \in 1 .. n /\ n + 1 \in d .. n + 1
          BY <3>1, <4>1
        <4>3. QED
          BY <4>1, <4>2
      <3>2. ASSUME s[n + 1] = "--" PROVE n + 1 \in In
        <4>1. n + 1 \in 1 .. n + 1 /\ \A m \in n + 1 .. n + 1 : s[m] # "nl"
          BY <3>2
        <4>2. QED
          BY <3>2, <4>1
      <3>3. ASSUME n \in In, s[n + 1] # "nl" PROVE n + 1 \in In
        <4>1. PICK d \in 1 .. n : s[d] = "--" /\ \A m \in d .. n : s[m] # "nl"
          BY <3>3
        <4>2. d \in 1 .. n + 1 /\ \A m \in d .. n + 1 : m \in d .. n \/ m = n + 1
          OBVIOUS
        <4>3. QED
          BY <3>3, <4>1, <4>2
      <3>4. QED
        BY <3>1, <3>2, <3>3
    <2>5. s[n + 1] = "--" => s[n + 1] # "nl"
      OBVIOUS
    <2>6. CASE c[n] = "sql" /\ n \notin In
      <3> HIDE DEF In
      <3> QED
        BY <2>3, <2>4, <2>6
    <2>7. CASE c[n] = "comment" /\ n \in In
      <3> HIDE DEF In
      <3> QED
        BY <2>3, <2>4, <2>5, <2>7
    <2>8. QED
      BY <2>2, <2>6, <2>7
  <1>4. i \in T
    <2> HIDE DEF T
    <2> QED
      BY <1>2, <1>3, SetInduction
  <1>5. c[i] = "comment" <=> i \in In
    <2> HIDE DEF In
    <2> QED
      BY <1>4
  <1>6. QED
    BY <1>5 DEF Commented, c

\* Of a part's words, those in comments are removed.
LEMMA StrippedWords ==
    ASSUME NEW s, Len(s) \in Nat, \A i \in 1 .. Len(s) : s[i] # "quote",
           \A i \in 1 .. Len(s) - 1 : s[i] = "--" => s[i + 1] # "nl",
           NEW b \in Starts(s), NEW i \in Part(s, b), s[i] = "word"
    PROVE  i \in Stripped(s, Part(s, b)) <=> i \in Commented(s)
  <1> DEFINE N == Len(s)
             p == Part(s, b)
             Clear(d) == s[d] = "--" /\ \A m \in d .. i : s[m] # "nl"
  <1>1. \A e \in Ends(s) : e \in 1 .. N - 1 /\ s[e + 1] = "nl"
    BY DEF Ends
  <1>2. b \in Nat /\ b # 0 /\ (b # 1 => s[b - 1] = "nl")
    <2>1. CASE b = 1
      BY <2>1
    <2>2. CASE b # 1
      <3>1. PICK e \in Ends(s) : b = e + 2
        BY <2>2 DEF Starts
      <3>2. e \in Nat /\ b - 1 = e + 1 /\ b \in Nat /\ b # 0
        BY <1>1, <3>1
      <3>3. QED
        BY <1>1, <3>1, <3>2
    <2>3. QED
      BY <2>1, <2>2
  <1>3. i \in b .. N /\ \A e \in Ends(s) : b <= e => i < e
    BY DEF Part
  <1>4. \A d \in b .. i : d \in p
    <2> SUFFICES ASSUME NEW d \in b .. i PROVE d \in b .. N /\ \A e \in Ends(s) : b <= e => d < e
      BY DEF Part
    <2>1. d \in b .. N
      BY <1>2, <1>3
    <2>2. QED
      BY <1>1, <1>2, <1>3, <2>1
  <1>5. i \in p /\ p \in SUBSET (1 .. N) /\ \A d \in p : d \in Nat /\ b <= d
    BY <1>2 DEF Part
  <1>6. i \in Commented(s) <=> \E d \in 1 .. i : Clear(d)
    BY <1>5, CommentedIs
  <1> HIDE DEF p
  <1>7. ASSUME NEW d \in 1 .. i, Clear(d) PROVE d \in p
    <2>1. CASE d < b
      <3>1. b - 1 \in d .. i /\ b # 1
        BY <1>2, <1>3, <2>1
      <3>2. QED
        BY <1>2, <1>7, <3>1
    <2>2. CASE d >= b
      <3>1. d \in b .. i
        BY <1>2, <1>3, <2>2
      <3>2. QED
        BY <1>4, <3>1
    <2>3. QED
      BY <1>2, <2>1, <2>2
  <1>8. ASSUME NEW d \in p, d <= i, Clear(d), NEW x \in p, d = x \/ d \in CommentFrom(s, p, x)
        PROVE  i \in CommentFrom(s, p, x)
    <2>1. d \in Nat /\ x \in Nat /\ i \in Nat /\ x <= d /\ d < i
      BY <1>3, <1>5, <1>8 DEF CommentFrom
    <2>2. x + 1 \in p
      <3>1. CASE d = x
        <4>1. x + 1 \in b .. i
          BY <1>2, <1>5, <2>1, <3>1
        <4>2. QED
          BY <1>4, <4>1
      <3>2. CASE d # x
        BY <1>8, <3>2 DEF CommentFrom
      <3>3. QED
        BY <3>1, <3>2
    <2>3. ASSUME NEW e \in p, e > x + 1, s[e] = "nl" PROVE i <= e
      <3>1. d <= e
        <4>1. CASE d = x
          BY <1>5, <2>1, <2>3, <4>1
        <4>2. CASE d # x
          BY <1>8, <2>3, <4>2 DEF CommentFrom
        <4>3. QED
          BY <4>1, <4>2
      <3>2. ~(e \in d .. i)
        BY <1>8, <2>3
      <3>3. QED
        BY <1>5, <2>1, <3>1, <3>2
    <2>4. QED
      BY <1>5, <2>1, <2>2, <2>3 DEF CommentFrom
  <1>9. ASSUME i \in Commented(s) PROVE i \in Stripped(s, p)
    <2>1. PICK d \in 1 .. i : Clear(d)
      BY <1>6, <1>9
    <2>2. d \in p /\ s[d] = "--" /\ d <= i
      BY <1>7, <2>1
    <2>3. PICK x \in p : /\ CommentFrom(s, p, x) \subseteq Stripped(s, p)
                         /\ d = x \/ d \in CommentFrom(s, p, x)
      BY <1>5, <2>2, StrippedIs
    <2> HIDE DEF Clear
    <2>4. QED
      BY <1>8, <2>1, <2>2, <2>3
  <1>10. ASSUME i \in Stripped(s, p) PROVE i \in Commented(s)
    <2>1. PICK x \in p : s[x] = "--" /\ i \in CommentFrom(s, p, x)
      BY <1>5, <1>10, StrippedIs
    <2>2. /\ x + 1 \in p /\ x \in Nat /\ x <= i /\ x \in 1 .. i
          /\ \A e \in p : e > x + 1 /\ s[e] = "nl" => i <= e
      BY <1>5, <2>1 DEF CommentFrom
    <2>3. ASSUME NEW m \in x .. i PROVE s[m] # "nl"
      <3>1. m \in p
        <4>1. m \in b .. i
          BY <1>2, <1>5, <2>2
        <4>2. QED
          BY <1>4, <4>1
      <3>2. CASE m = i
        BY <3>2
      <3>3. CASE m = x
        BY <2>1, <3>3
      <3>4. CASE m = x + 1
        <4>1. x \in 1 .. N - 1
          BY <1>5, <2>2
        <4>2. QED
          BY <2>1, <3>4, <4>1
      <3>5. CASE m # i /\ m # x /\ m # x + 1
        <4>1. m > x + 1 /\ ~(i <= m)
          BY <1>5, <2>2, <3>5
        <4>2. QED
          BY <2>2, <3>1, <4>1
      <3>6. QED
        BY <3>2, <3>3, <3>4, <3>5
    <2>4. Clear(x)
      BY <2>1, <2>3
    <2> HIDE DEF Clear
    <2>5. QED
      BY <1>6, <2>2, <2>4
  <1>11. QED
    BY <1>9, <1>10 DEF p

\* Every word is in a part.
LEMMA WordsInParts ==
    ASSUME NEW s, Len(s) \in Nat, NEW i \in 1 .. Len(s), s[i] = "word"
    PROVE  \E b \in Starts(s) \cap (1 .. Len(s)) : i \in Part(s, b)
  <1> DEFINE Latest(b, n) == b \in Starts(s) /\ b <= n /\ \A a \in Starts(s) : a <= n => a <= b
             T == {n \in Nat : n # 0 => \E b \in 1 .. n : Latest(b, n)}
  <1>1. \A e \in Ends(s) : e \in 1 .. Len(s) - 1 /\ s[e] # "word" /\ s[e + 1] = "nl"
    BY DEF Ends
  <1>2. \A e \in Ends(s) : /\ e \in 1 .. Len(s) /\ e + 2 \in Starts(s)
                           /\ s[e] # "word" /\ s[e + 1] = "nl"
    BY <1>1 DEF Starts
  <1>3. 1 \in Starts(s) /\ \A a \in Starts(s) : a \in Nat /\ a # 0
    BY <1>2 DEF Starts
  <1>4. 0 \in T
    OBVIOUS
  <1>5. ASSUME NEW n \in Nat, n \in T PROVE n + 1 \in T
    <2> SUFFICES \E b \in 1 .. n + 1 : Latest(b, n + 1)
      OBVIOUS
    <2>1. CASE n + 1 \in Starts(s)
      BY <1>3, <2>1
    <2>2. CASE n + 1 \notin Starts(s)
      <3>1. n # 0
        BY <1>3, <2>2
      <3>2. PICK b \in 1 .. n : Latest(b, n)
        BY <1>5, <3>1
      <3>3. \A a \in Starts(s) : a <= n + 1 => a <= n
        BY <1>3, <2>2
      <3>4. Latest(b, n + 1)
        BY <3>2, <3>3
      <3>5. QED
        BY <3>4
    <2>3. QED
      BY <2>1, <2>2
  <1>6. i \in T
    <2> HIDE DEF T
    <2> QED
      BY <1>5, <1>4, SetInduction
  <1>7. PICK b \in 1 .. i : Latest(b, i)
    BY <1>6
  <1>8. ASSUME NEW e \in Ends(s), b <= e PROVE i < e
    <2>1. ~(e + 2 <= i)
      BY <1>2, <1>7, <1>8
    <2>2. i # e /\ i # e + 1
      BY <1>2
    <2>3. QED
      BY <1>2, <2>1, <2>2
  <1>9. QED
    BY <1>7, <1>8 DEF Part

\* Trimming leaves words alone.
LEMMA TrimmedWords ==
    ASSUME NEW s, Len(s) \in Nat, NEW p \in SUBSET (1 .. Len(s))
    PROVE  Words(s, StripComments(s, p)) = Words(s, p) \ Stripped(s, p)
  <1> DEFINE kept == p \ Stripped(s, p)
  <1>1. ASSUME NEW i \in kept, s[i] = "word" PROVE i \in StripComments(s, p)
    <2>1. i \in Nat /\ i <= i /\ s[i] # "nl"
      BY <1>1
    <2>2. QED
      BY <2>1 DEF StripComments
  <1>2. StripComments(s, p) \subseteq kept
    BY DEF StripComments
  <1>3. QED
    BY <1>1, <1>2 DEF Words

\* All parts together have the words that are SQL.
LEMMA AllWords ==
    ASSUME NEW s \in Seq(Token), "quote" \notin Token, Regular(s)
    PROVE  WordsOf(s, Len(SplitQueries(s))) = SqlWords(s)
  <1> DEFINE q == SplitQueries(s)
             N == Len(s)
  <1>1. N \in Nat /\ \A i \in 1 .. N : s[i] # "quote"
    OBVIOUS
  <1>2. \A i \in 1 .. N - 1 : s[i] = "--" => s[i + 1] # "nl"
    BY DEF Regular
  <1>3. /\ \A k \in 1 .. Len(q) : \E b \in Starts(s) \cap (1 .. N) : q[k] = Part(s, b)
        /\ \A b \in Starts(s) \cap (1 .. N) : Part(s, b) # {} => \E k \in 1 .. Len(q) : q[k] = Part(s, b)
    BY <1>1, PartsAre
  <1>4. ASSUME NEW b \in Starts(s) \cap (1 .. N), NEW i
        PROVE  i \in Words(s, StripComments(s, Part(s, b))) <=>
               i \in Part(s, b) /\ s[i] = "word" /\ i \notin Commented(s)
    <2>1. Part(s, b) \in SUBSET (1 .. N)
      BY <1>1 DEF Part
    <2>2. i \in Words(s, StripComments(s, Part(s, b))) <=>
            i \in Part(s, b) /\ s[i] = "word" /\ i \notin Stripped(s, Part(s, b))
      BY <1>1, <2>1, TrimmedWords DEF Words
    <2>3. i \in Part(s, b) /\ s[i] = "word" =>
            (i \in Stripped(s, Part(s, b)) <=> i \in Commented(s))
      BY <1>1, <1>2, StrippedWords
    <2>4. QED
      BY <2>2, <2>3
  <1> HIDE DEF q
  <1>5. ASSUME NEW i \in WordsOf(s, Len(q)) PROVE i \in SqlWords(s)
    <2>1. PICK k \in 1 .. Len(q) : i \in Words(s, StripComments(s, q[k]))
      BY DEF WordsOf, q
    <2>2. PICK b \in Starts(s) \cap (1 .. N) : q[k] = Part(s, b)
      BY <1>3
    <2>3. i \in Part(s, b) /\ s[i] = "word" /\ i \notin Commented(s)
      BY <1>4, <2>1, <2>2
    <2>4. i \in 1 .. N
      BY <1>1, <2>3 DEF Part
    <2>5. QED
      BY <2>3, <2>4 DEF SqlWords, Words
  <1>6. ASSUME NEW i \in SqlWords(s) PROVE i \in WordsOf(s, Len(q))
    <2>1. i \in 1 .. N /\ s[i] = "word" /\ i \notin Commented(s)
      BY DEF SqlWords, Words
    <2>2. PICK b \in Starts(s) \cap (1 .. N) : i \in Part(s, b)
      BY <1>1, <2>1, WordsInParts
    <2>3. PICK k \in 1 .. Len(q) : q[k] = Part(s, b)
      BY <1>3, <2>2
    <2>4. i \in Words(s, StripComments(s, q[k]))
      BY <1>4, <2>1, <2>2, <2>3
    <2>5. QED
      BY <2>4 DEF WordsOf, q
  <1>7. QED
    BY <1>5, <1>6 DEF q

-----------------------------------------------------------------------------
(* The inductive invariant *)

\* Until COMMIT is sent, the transaction has the words of the statements before
\* the next one, and nothing is committed.  COMMIT is sent behind the last one.
BatchInv ==
    /\ TypeOK
    /\ open /\ ~resent => applied = WordsOf(script, index - 1) /\ durable = {}
    /\ open /\ resent => AtEnd
    /\ AllOrNothing

\* One more statement.
LEMMA NextWords ==
    ASSUME NEW s, NEW n \in Nat
    PROVE  WordsOf(s, n + 1) =
              WordsOf(s, n) \cup Words(s, StripComments(s, SplitQueries(s)[n + 1]))
  <1> DEFINE W(k) == Words(s, StripComments(s, SplitQueries(s)[k]))
  <1> HIDE DEF W
  <1>1. UNION {W(k) : k \in 1 .. n + 1} = (UNION {W(k) : k \in 1 .. n}) \cup W(n + 1)
    <2>1. \A k \in 1 .. n + 1 : k \in 1 .. n \/ k = n + 1
      OBVIOUS
    <2>2. n + 1 \in 1 .. n + 1 /\ \A k \in 1 .. n : k \in 1 .. n + 1
      OBVIOUS
    <2>3. QED
      BY <2>1, <2>2
  <1>2. QED
    BY <1>1 DEF WordsOf, W

\* The statements of the script, which stay the same.
LEMMA StatementsAre ==
    ASSUME TypeOK
    PROVE  /\ Len(script) \in Nat /\ Len(Statements) \in Nat
           /\ Statements = <<>> <=> Len(Statements) = 0
           /\ \A k \in 1 .. Len(Statements) :
                 Words(script, StripComments(script, Statements[k])) \subseteq 1 .. MaxLen
           /\ script' = script => Statements' = Statements
  <1>1. Len(script) \in Nat /\ Len(script) <= MaxLen
    BY DEF TypeOK
  <1>2. Statements \in Seq(SUBSET (1 .. Len(script)))
    BY <1>1, PartsAre DEF Statements
  <1>3. Len(Statements) \in Nat /\ (Statements = <<>> <=> Len(Statements) = 0)
    BY <1>2
  <1>4. \A k \in 1 .. Len(Statements) :
           Words(script, StripComments(script, Statements[k])) \subseteq Statements[k]
    BY DEF Words, StripComments
  <1>5. \A k \in 1 .. Len(Statements) : Statements[k] \subseteq 1 .. Len(script)
    BY <1>2
  <1>6. 1 .. Len(script) \subseteq 1 .. MaxLen
    BY <1>1, LenAssumption
  <1>7. script' = script => Statements' = Statements
    BY DEF Statements
  <1>8. QED
    BY <1>1, <1>3, <1>4, <1>5, <1>6, <1>7

\* The first state.
LEMMA InitBatch == Init => BatchInv
  <1> SUFFICES ASSUME Init PROVE BatchInv
    OBVIOUS
  <1>1. PICK n \in 0 .. MaxLen : script \in [1 .. n -> Token]
    BY DEF Init, Scripts
  <1>2. script \in Seq(Token) /\ Len(script) <= MaxLen
    BY <1>1, LenAssumption
  <1>3. Len(Statements) \in Nat
    BY <1>2, PartsAre DEF Statements
  <1>4. TypeOK
    <2>1. index \in 1 .. Len(Statements) + 1
      BY <1>3 DEF Init
    <2>2. open = TRUE /\ resent = FALSE /\ result = "none" /\ applied = {} /\ durable = {}
      BY DEF Init
    <2>3. QED
      BY <1>2, <2>1, <2>2 DEF TypeOK
  <1>5. WordsOf(script, index - 1) = {}
    BY DEF WordsOf, Init
  <1>6. QED
    BY <1>4, <1>5 DEF Init, BatchInv, AllOrNothing

\* Any step.
LEMMA NextBatch == BatchInv /\ [Next]_vars => BatchInv'
  <1> SUFFICES ASSUME BatchInv, [Next]_vars PROVE BatchInv'
    OBVIOUS
  <1>1. /\ TypeOK /\ index \in 1 .. Len(Statements) + 1 /\ index \in Nat /\ index - 1 \in Nat
        /\ Len(script) \in Nat /\ Len(Statements) \in Nat
    <2>1. TypeOK
      BY DEF BatchInv
    <2>2. QED
      BY <2>1, StatementsAre DEF TypeOK
  <1>2. CASE Empty
    BY <1>1, <1>2, StatementsAre DEF BatchInv, TypeOK, AllOrNothing, Empty, AtEnd, Return
  <1>3. CASE NoStatements
    BY <1>1, <1>3, StatementsAre DEF BatchInv, TypeOK, AllOrNothing, NoStatements, Return
  <1>4. CASE Exec
    <2>1. /\ open /\ index <= Len(Statements) /\ index \in 1 .. Len(Statements)
          /\ applied' = applied \cup Words(script, Statement)
          /\ index' = index + 1 /\ script' = script /\ open' = open /\ durable' = durable
          /\ resent' = resent /\ result' = result
      BY <1>1, <1>4 DEF Exec, More
    <2>a. resent = FALSE
      BY <1>1, <1>4, <2>1 DEF Exec, BatchInv, TypeOK, AtEnd
    <2>2. Statements' = Statements /\ Words(script, Statement) \subseteq 1 .. MaxLen
      BY <1>1, <2>1, StatementsAre DEF Statement
    <2>3. TypeOK'
      <3>1. index' \in 1 .. Len(Statements) + 1
        BY <1>1, <2>1
      <3>2. applied' \subseteq 1 .. MaxLen /\ durable' \subseteq 1 .. MaxLen
        BY <1>1, <2>1, <2>2 DEF TypeOK
      <3>3. QED
        BY <1>1, <2>1, <2>2, <3>1, <3>2 DEF TypeOK
    <2>4. applied' = WordsOf(script', index' - 1)
      <3>1. (index - 1) + 1 = index /\ index' - 1 = index
        BY <1>1, <2>1
      <3>2. WordsOf(script, index) = WordsOf(script, index - 1) \cup Words(script, Statement)
        BY <1>1, <3>1, NextWords DEF Statement, Statements
      <3>3. QED
        BY <2>1, <2>a, <3>1, <3>2 DEF BatchInv
    <2>5. AllOrNothing'
      <3>1. durable' = {} /\ result' # "error"
        BY <1>1, <2>1, <2>a DEF BatchInv, TypeOK
      <3>2. QED
        BY <3>1 DEF AllOrNothing
    <2>6. QED
      BY <2>1, <2>a, <2>3, <2>4, <2>5 DEF BatchInv, AllOrNothing
  <1>5. CASE ExecFails \/ Interrupted
    BY <1>1, <1>5, StatementsAre DEF BatchInv, TypeOK, AllOrNothing, ExecFails, Interrupted, More,
       AtEnd, Return
  <1>6. CASE Commit \/ CommitFails \/ CommitAgain
    BY <1>1, <1>6, StatementsAre DEF BatchInv, TypeOK, AllOrNothing, Commit, CommitFails,
       CommitAgain, AtEnd, Statement, Return
  <1>7. CASE Done \/ UNCHANGED vars
    <2>1. /\ script' = script /\ open' = open /\ index' = index /\ applied' = applied
          /\ durable' = durable /\ resent' = resent /\ result' = result
      BY <1>7 DEF Done, vars
    <2>2. Statements' = Statements
      BY <1>1, <2>1, StatementsAre
    <2>3. TypeOK'
      BY <1>1, <2>1, <2>2 DEF TypeOK
    <2>4. QED
      BY <2>1, <2>2, <2>3 DEF BatchInv, AllOrNothing, AtEnd, Statement
  <1>8. QED
    BY <1>2, <1>3, <1>4, <1>5, <1>6, <1>7 DEF Next

\* A regular script that is reported as executed is.
LEMMA InitRegular == Init => RegularExecuted
  BY DEF Init, RegularExecuted

\* commit() comes behind the last statement of a regular script, and there is
\* one unless it has no words.
LEMMA NextRegular ==
    ASSUME "quote" \notin Token, BatchInv, RegularExecuted, [Next]_vars
    PROVE  RegularExecuted'
  <1>1. /\ TypeOK /\ script \in Seq(Token) /\ index \in 1 .. Len(Statements) + 1
        /\ Len(Statements) \in Nat /\ (Statements = <<>> <=> Len(Statements) = 0)
        /\ open => result = "none"
        /\ (open /\ ~resent => applied = WordsOf(script, index - 1) /\ durable = {})
        /\ (open /\ resent => AtEnd)
    BY StatementsAre DEF BatchInv, TypeOK
  <1>2. script' = script
    BY DEF Next, Empty, NoStatements, Exec, ExecFails, Commit, CommitFails, CommitAgain,
           Interrupted, Done, Return, vars
  <1> SUFFICES ASSUME result' = "ok", Regular(script)
               PROVE  durable' = SqlWords(script) \/ (resent' /\ durable' = {})
    BY <1>2 DEF RegularExecuted
  <1>3. WordsOf(script, Len(Statements)) = SqlWords(script)
    BY <1>1, AllWords DEF Statements
  <1>4. CASE Empty \/ ExecFails \/ Interrupted
    BY <1>4 DEF Empty, ExecFails, Interrupted, Return
  <1>5. CASE NoStatements
    <2>1. WordsOf(script, 0) = {}
      BY DEF WordsOf
    <2>2. durable = {}
      <3>1. index = 1
        BY <1>1, <1>5 DEF NoStatements
      <3>2. QED
        BY <2>1, <3>1 DEF BatchInv, AllOrNothing
    <2>3. QED
      BY <1>1, <1>3, <1>5, <2>1, <2>2 DEF NoStatements
  <1>6. CASE Exec \/ CommitFails
    BY <1>1, <1>6 DEF Exec, CommitFails, AtEnd, More
  <1>7. AtEnd => WordsOf(script, index - 1) = SqlWords(script)
    <2> SUFFICES ASSUME AtEnd PROVE index - 1 = Len(Statements)
      BY <1>3
    <2>1. ~(index <= Len(Statements))
      <3>1. index <= Len(Statements) => index \in DOMAIN SplitQueries(script)
        BY <1>1 DEF Statements
      <3>2. QED
        BY <3>1 DEF AtEnd, Regular, Statement, Statements
    <2>2. QED
      BY <1>1, <2>1
  <1>9. CASE Commit
    BY <1>1, <1>7, <1>9 DEF Commit, AtEnd
  <1>10. CASE CommitAgain
    BY <1>1, <1>7, <1>10 DEF CommitAgain, BatchInv, AllOrNothing, Return
  <1>8. CASE Done \/ UNCHANGED vars
    BY <1>8 DEF Done, vars, RegularExecuted
  <1>11. QED
    BY <1>4, <1>5, <1>6, <1>8, <1>9, <1>10 DEF Next

-----------------------------------------------------------------------------
(* The theorems *)

\* The inductive invariant holds, for scripts of any length.
THEOREM BatchInvariant == Spec => []BatchInv
  BY InitBatch, NextBatch, PTL DEF Spec

\* A statement that fails leaves nothing of its script in the database: the
\* transaction of batchExec is destroyed, and never committed, on the error's way.
\* Also where COMMIT fails, or the process ends, a script is there as far as it
\* was executed, or not at all.
THEOREM FailureLeavesNothing == Spec => []AllOrNothing
  <1>1. BatchInv => AllOrNothing
    BY DEF BatchInv
  <1>2. QED
    BY <1>1, BatchInvariant, PTL

\* A regular script without literals, of any length, that is reported as executed
\* is in the database, word for word and without its comments: splitting and
\* stripping agree with the rules of SQL.  If a COMMIT was not acknowledged and
\* sent again, nothing of it may be there instead.
THEOREM RegularScripts == "quote" \notin Token => (Spec => []RegularExecuted)
  <1> SUFFICES ASSUME "quote" \notin Token PROVE Spec => []RegularExecuted
    OBVIOUS
  <1>1. BatchInv /\ RegularExecuted /\ [Next]_vars => RegularExecuted'
    BY NextRegular
  <1>2. QED
    BY <1>1, InitRegular, BatchInvariant, PTL DEF Spec

-----------------------------------------------------------------------------
(* Conditions are what their recursive definitions say *)

\* The conditions of each depth are leaves and what is nested of less depth.
LEMMA ConditionIs ==
    /\ DOMAIN Condition = 0 .. Depth
    /\ Condition[0] = LeafCondition
    /\ \A d \in 1 .. Depth : Condition[d] = LeafCondition \cup Nested(Condition[d - 1])
  <1> DEFINE E(d, x) == IF d = 0 THEN LeafCondition ELSE LeafCondition \cup Nested(x)
             Is(f, n) == f = [d \in 0 .. n |-> E(d, f[d - 1])]
             T == {n \in Nat : \E f : Is(f, n)}
  <1>1. \A x, y : E(0, x) = E(0, y)
    OBVIOUS
  <1>2. 0 \in T
    <2> DEFINE f == [d \in 0 .. 0 |-> E(d, {})]
    <2>1. Is(f, 0)
      <3> HIDE DEF E
      <3> QED
        BY <1>1
    <2> QED
      BY <2>1
  <1>3. ASSUME NEW n \in Nat, n \in T PROVE n + 1 \in T
    <2> HIDE DEF E
    <2>1. PICK f : Is(f, n)
      BY <1>3
    <2> DEFINE g == [d \in 0 .. n + 1 |-> IF d = n + 1 THEN E(n + 1, f[n]) ELSE f[d]]
    <2>2. \A d \in 0 .. n : f[d] = E(d, f[d - 1])
      BY <2>1
    <2>3. ASSUME NEW d \in 0 .. n + 1 PROVE g[d] = E(d, g[d - 1])
      <3>1. CASE d = n + 1
        BY <3>1
      <3>2. CASE d = 0
        BY <1>1, <2>2, <3>2
      <3>3. CASE d \in 1 .. n
        BY <2>2, <3>3
      <3>4. QED
        BY <3>1, <3>2, <3>3
    <2>4. Is(g, n + 1)
      <3> SUFFICES g = [d \in 0 .. n + 1 |-> E(d, g[d - 1])]
        OBVIOUS
      <3>1. g = [d \in 0 .. n + 1 |-> g[d]]
        OBVIOUS
      <3> HIDE DEF g
      <3>2. QED
        BY <2>3, <3>1
    <2>5. \E h : Is(h, n + 1)
      <3> HIDE DEF g, Is
      <3> QED
        BY <2>4
    <2>6. QED
      BY <2>5
  <1>4. Depth \in T
    <2>1. Depth \in Nat
      BY BoundsAssumption DEF Depth
    <2>2. \A n \in Nat : n \in T
      <3> HIDE DEF T
      <3> QED
        BY <1>2, <1>3, SetInduction
    <2>3. QED
      BY <2>1, <2>2
  <1>5. Is(Condition, Depth)
    <2>1. Condition = CHOOSE f : Is(f, Depth)
      BY DEF Condition
    <2>2. QED
      BY <1>4, <2>1
  <1>6. Depth \in Nat
    BY BoundsAssumption DEF Depth
  <1>7. \A d \in 0 .. Depth : Condition[d] = E(d, Condition[d - 1])
    BY <1>5
  <1>8. DOMAIN Condition = 0 .. Depth
    BY <1>5
  <1>9. Condition[0] = LeafCondition
    <2>1. Condition[0] = E(0, Condition[0 - 1])
      <3>1. 0 \in 0 .. Depth
        BY <1>6
      <3> HIDE DEF E
      <3> QED
        BY <1>7, <3>1
    <2>2. QED
      BY <2>1
  <1>10. ASSUME NEW d \in 1 .. Depth PROVE Condition[d] = LeafCondition \cup Nested(Condition[d - 1])
    <2>1. d \in 0 .. Depth /\ d # 0
      BY <1>6
    <2>2. Condition[d] = E(d, Condition[d - 1])
      <3> HIDE DEF E
      <3> QED
        BY <1>7, <2>1
    <2>3. QED
      BY <2>1, <2>2
  <1>11. QED
    BY <1>8, <1>9, <1>10

-----------------------------------------------------------------------------
(* Reading *)

\* r has the levels at which the words of a text are read.
ReadBy(r, level, text, row, binds, given) ==
    /\ r[0] = level
    /\ \A i \in 1 .. Len(text) : r[i] = Read(r[i - 1], text[i], row, binds, given)
    /\ ReadAll(level, text, row, binds, given) = r[Len(text)]

\* The words of a text are read one after the other.
LEMMA ReadSteps ==
    ASSUME NEW level, NEW text, Len(text) \in Nat, NEW row, NEW binds, NEW given
    PROVE  \E r : ReadBy(r, level, text, row, binds, given)
  <1> DEFINE N == Len(text)
             E(i, x) == IF i = 0 THEN level ELSE Read(x, text[i], row, binds, given)
             Is(f, n) == f = [i \in 0 .. n |-> E(i, f[i - 1])]
             T == {n \in Nat : \E f : Is(f, n)}
             c == CHOOSE f : Is(f, N)
  <1>1. \A x, y : E(0, x) = E(0, y)
    OBVIOUS
  <1>2. 0 \in T
    <2> DEFINE f == [i \in 0 .. 0 |-> E(i, {})]
    <2>1. Is(f, 0)
      <3> HIDE DEF E
      <3> QED
        BY <1>1
    <2> QED
      BY <2>1
  <1>3. ASSUME NEW n \in Nat, n \in T PROVE n + 1 \in T
    <2> HIDE DEF E
    <2>1. PICK f : Is(f, n)
      BY <1>3
    <2> DEFINE g == [i \in 0 .. n + 1 |-> IF i = n + 1 THEN E(n + 1, f[n]) ELSE f[i]]
    <2>2. \A i \in 0 .. n : f[i] = E(i, f[i - 1])
      BY <2>1
    <2>3. ASSUME NEW i \in 0 .. n + 1 PROVE g[i] = E(i, g[i - 1])
      <3>1. CASE i = n + 1
        BY <3>1
      <3>2. CASE i = 0
        BY <1>1, <2>2, <3>2
      <3>3. CASE i \in 1 .. n
        BY <2>2, <3>3
      <3>4. QED
        BY <3>1, <3>2, <3>3
    <2>4. Is(g, n + 1)
      <3> SUFFICES g = [i \in 0 .. n + 1 |-> E(i, g[i - 1])]
        OBVIOUS
      <3>1. g = [i \in 0 .. n + 1 |-> g[i]]
        OBVIOUS
      <3> HIDE DEF g
      <3>2. QED
        BY <2>3, <3>1
    <2>5. \E h : Is(h, n + 1)
      <3> HIDE DEF g, Is
      <3> QED
        BY <2>4
    <2>6. QED
      BY <2>5
  <1>4. N \in T
    <2>1. \A n \in Nat : n \in T
      <3> HIDE DEF T
      <3> QED
        BY <1>2, <1>3, SetInduction
    <2>2. QED
      BY <2>1
  <1>5. Is(c, N)
    <2> HIDE DEF Is
    <2> QED
      BY <1>4
  <1>6. ReadAll(level, text, row, binds, given) = c[N]
    BY DEF ReadAll
  <1>7. \A i \in 0 .. N : c[i] = E(i, c[i - 1])
    <2> HIDE DEF E, c
    <2> QED
      BY <1>5
  <1>8. c[0] = level
    <2>1. 0 \in 0 .. N
      OBVIOUS
    <2>2. c[0] = E(0, c[0 - 1])
      <3> HIDE DEF E, c
      <3> QED
        BY <1>7, <2>1
    <2> HIDE DEF c
    <2>3. QED
      BY <2>2
  <1>9. ASSUME NEW i \in 1 .. N PROVE c[i] = Read(c[i - 1], text[i], row, binds, given)
    <2>1. i \in 0 .. N /\ i # 0
      OBVIOUS
    <2>2. c[i] = E(i, c[i - 1])
      <3> HIDE DEF E, c
      <3> QED
        BY <1>7, <2>1
    <2> HIDE DEF c
    <2>3. QED
      BY <2>1, <2>2
  <1>10. ReadBy(c, level, text, row, binds, given)
    <2> HIDE DEF c, E
    <2> QED
      BY <1>6, <1>8, <1>9 DEF ReadBy
  <1>11. QED
    BY <1>10

\* A text without words leaves the level as it is, and one word is read.
LEMMA ReadFew ==
    ASSUME NEW level, NEW w, NEW row, NEW binds, NEW given
    PROVE  /\ ReadAll(level, <<>>, row, binds, given) = level
           /\ ReadAll(level, <<w>>, row, binds, given) = Read(level, w, row, binds, given)
  <1> DEFINE t == <<w>>
             e == <<>>
  <1>1. Len(e) = 0 /\ Len(e) \in Nat /\ Len(t) = 1 /\ t[1] = w
    OBVIOUS
  <1> HIDE DEF t, e
  <1>2. Len(e) \in Nat
    BY <1>1
  <1>3. PICK q : ReadBy(q, level, e, row, binds, given)
    BY <1>2, ReadSteps
  <1>4. Len(t) \in Nat
    BY <1>1
  <1>5. PICK r : ReadBy(r, level, t, row, binds, given)
    BY <1>4, ReadSteps
  <1>6. r[1] = Read(r[0], t[1], row, binds, given)
    BY <1>1, <1>5 DEF ReadBy
  <1>7. ReadAll(level, t, row, binds, given) = Read(level, w, row, binds, given)
    BY <1>1, <1>5, <1>6 DEF ReadBy
  <1>8. ReadAll(level, e, row, binds, given) = level
    BY <1>1, <1>3 DEF ReadBy
  <1>9. QED
    BY <1>7, <1>8 DEF t, e

\* The second of two texts is read from where the first one ends.
LEMMA ReadJoined ==
    ASSUME NEW S, NEW t \in Seq(S), NEW u \in Seq(S), NEW level, NEW row, NEW binds, NEW given
    PROVE  ReadAll(level, t \o u, row, binds, given)
           = ReadAll(ReadAll(level, t, row, binds, given), u, row, binds, given)
  <1> DEFINE R(x, w) == Read(x, w, row, binds, given)
             tu == t \o u
             m == ReadAll(level, t, row, binds, given)
  <1>1. /\ Len(t) \in Nat /\ Len(u) \in Nat /\ Len(tu) = Len(t) + Len(u)
        /\ \A i \in 1 .. Len(t) : tu[i] = t[i]
        /\ \A i \in 1 .. Len(u) : tu[Len(t) + i] = u[i]
    OBVIOUS
  <1> HIDE DEF tu
  <1>2. Len(u) \in Nat /\ Len(tu) \in Nat
    BY <1>1
  <1>3. PICK p : ReadBy(p, level, t, row, binds, given)
    BY <1>1, ReadSteps
  <1> HIDE DEF m
  <1>4. PICK q : ReadBy(q, m, u, row, binds, given)
    BY <1>2, ReadSteps
  <1>5. PICK r : ReadBy(r, level, tu, row, binds, given)
    BY <1>2, ReadSteps
  <1>6. /\ p[0] = level /\ m = p[Len(t)]
        /\ \A i \in 1 .. Len(t) : p[i] = R(p[i - 1], t[i])
    BY <1>3 DEF ReadBy, m
  <1>7. /\ q[0] = m /\ ReadAll(m, u, row, binds, given) = q[Len(u)]
        /\ \A i \in 1 .. Len(u) : q[i] = R(q[i - 1], u[i])
    BY <1>4 DEF ReadBy
  <1>8. /\ r[0] = level /\ ReadAll(level, tu, row, binds, given) = r[Len(tu)]
        /\ \A i \in 1 .. Len(tu) : r[i] = R(r[i - 1], tu[i])
    BY <1>5 DEF ReadBy
  <1> HIDE DEF R
  <1>9. \A i \in Nat : i \in {j \in Nat : j <= Len(t) => r[j] = p[j]}
    <2> DEFINE T == {j \in Nat : j <= Len(t) => r[j] = p[j]}
    <2>1. 0 \in T
      BY <1>6, <1>8
    <2>2. ASSUME NEW j \in Nat, j \in T PROVE j + 1 \in T
      <3> SUFFICES ASSUME j + 1 <= Len(t) PROVE r[j + 1] = p[j + 1]
        OBVIOUS
      <3>1. j + 1 \in 1 .. Len(t) /\ j + 1 \in 1 .. Len(tu) /\ j + 1 - 1 = j
        BY <1>1
      <3>2. r[j] = p[j] /\ tu[j + 1] = t[j + 1]
        BY <1>1, <2>2, <3>1
      <3>3. r[j + 1] = R(r[j], tu[j + 1]) /\ p[j + 1] = R(p[j], t[j + 1])
        BY <1>6, <1>8, <3>1
      <3>4. QED
        BY <3>2, <3>3
    <2> HIDE DEF T
    <2>3. \A j \in Nat : j \in T
      BY <2>1, <2>2, SetInduction
    <2>4. QED
      BY <2>3 DEF T
  <1>10. r[Len(t)] = m
    BY <1>1, <1>6, <1>9
  <1>11. \A i \in Nat : i \in {j \in Nat : j <= Len(u) => r[Len(t) + j] = q[j]}
    <2> DEFINE T == {j \in Nat : j <= Len(u) => r[Len(t) + j] = q[j]}
    <2>1. 0 \in T
      BY <1>1, <1>7, <1>10
    <2>2. ASSUME NEW j \in Nat, j \in T PROVE j + 1 \in T
      <3> SUFFICES ASSUME j + 1 <= Len(u) PROVE r[Len(t) + (j + 1)] = q[j + 1]
        OBVIOUS
      <3>1. /\ j + 1 \in 1 .. Len(u) /\ Len(t) + (j + 1) \in 1 .. Len(tu)
            /\ j + 1 - 1 = j /\ Len(t) + (j + 1) - 1 = Len(t) + j
        BY <1>1
      <3>2. r[Len(t) + j] = q[j] /\ tu[Len(t) + (j + 1)] = u[j + 1]
        BY <1>1, <2>2, <3>1
      <3>3. r[Len(t) + (j + 1)] = R(r[Len(t) + j], tu[Len(t) + (j + 1)]) /\ q[j + 1] = R(q[j], u[j + 1])
        BY <1>7, <1>8, <3>1
      <3>4. QED
        BY <3>2, <3>3
    <2> HIDE DEF T
    <2>3. \A j \in Nat : j \in T
      BY <2>1, <2>2, SetInduction
    <2>4. QED
      BY <2>3 DEF T
  <1>12. r[Len(tu)] = q[Len(u)]
    BY <1>1, <1>11
  <1>13. QED
    BY <1>7, <1>8, <1>12 DEF tu, m
-----------------------------------------------------------------------------
(* Texts and meanings of conditions *)

\* Sub-conditions are joined one after the other.
LEMMA JoinedSteps ==
    ASSUME NEW string, NEW condition, Len(condition.subs) \in Nat, NEW binds
    PROVE  \E j : /\ j[0].binds = binds
                  /\ \A i \in 1 .. Len(condition.subs) : j[i] = JoinSub(string, condition, j[i - 1], i)
                  /\ Joined(string, condition, binds) = j[Len(condition.subs)]
  <1> DEFINE N == Len(condition.subs)
             first == [text |-> <<>>, binds |-> binds]
             E(i, x) == IF i = 0 THEN first ELSE JoinSub(string, condition, x, i)
             Is(f, n) == f = [i \in 0 .. n |-> E(i, f[i - 1])]
             T == {n \in Nat : \E f : Is(f, n)}
             c == CHOOSE f : Is(f, N)
  <1>1. \A x, y : E(0, x) = E(0, y)
    OBVIOUS
  <1>2. 0 \in T
    <2> DEFINE f == [i \in 0 .. 0 |-> E(i, {})]
    <2>1. Is(f, 0)
      <3> HIDE DEF E
      <3> QED
        BY <1>1
    <2> QED
      BY <2>1
  <1>3. ASSUME NEW n \in Nat, n \in T PROVE n + 1 \in T
    <2> HIDE DEF E
    <2>1. PICK f : Is(f, n)
      BY <1>3
    <2> DEFINE g == [i \in 0 .. n + 1 |-> IF i = n + 1 THEN E(n + 1, f[n]) ELSE f[i]]
    <2>2. \A i \in 0 .. n : f[i] = E(i, f[i - 1])
      BY <2>1
    <2>3. ASSUME NEW i \in 0 .. n + 1 PROVE g[i] = E(i, g[i - 1])
      <3>1. CASE i = n + 1
        BY <3>1
      <3>2. CASE i = 0
        BY <1>1, <2>2, <3>2
      <3>3. CASE i \in 1 .. n
        BY <2>2, <3>3
      <3>4. QED
        BY <3>1, <3>2, <3>3
    <2>4. Is(g, n + 1)
      <3> SUFFICES g = [i \in 0 .. n + 1 |-> E(i, g[i - 1])]
        OBVIOUS
      <3>1. g = [i \in 0 .. n + 1 |-> g[i]]
        OBVIOUS
      <3> HIDE DEF g
      <3>2. QED
        BY <2>3, <3>1
    <2>5. \E h : Is(h, n + 1)
      <3> HIDE DEF g, Is
      <3> QED
        BY <2>4
    <2>6. QED
      BY <2>5
  <1>4. N \in T
    <2>1. \A n \in Nat : n \in T
      <3> HIDE DEF T
      <3> QED
        BY <1>2, <1>3, SetInduction
    <2>2. QED
      BY <2>1
  <1>5. Is(c, N)
    <2> HIDE DEF Is
    <2> QED
      BY <1>4
  <1>6. Joined(string, condition, binds) = c[N]
    BY DEF Joined
  <1>7. \A i \in 0 .. N : c[i] = E(i, c[i - 1])
    <2> HIDE DEF E, c
    <2> QED
      BY <1>5
  <1>8. c[0] = first
    <2>1. 0 \in 0 .. N
      OBVIOUS
    <2>2. c[0] = E(0, c[0 - 1])
      <3> HIDE DEF E, c
      <3> QED
        BY <1>7, <2>1
    <2> HIDE DEF c
    <2>3. QED
      BY <2>2
  <1>9. ASSUME NEW i \in 1 .. N PROVE c[i] = JoinSub(string, condition, c[i - 1], i)
    <2>1. i \in 0 .. N /\ i # 0
      OBVIOUS
    <2>2. c[i] = E(i, c[i - 1])
      <3> HIDE DEF E, c
      <3> QED
        BY <1>7, <2>1
    <2> HIDE DEF c
    <2>3. QED
      BY <2>1, <2>2
  <1>10. c[0].binds = binds
    <2>1. first.binds = binds
      OBVIOUS
    <2> HIDE DEF c, first
    <2>2. QED
      BY <1>8, <2>1
  <1>11. QED
    <2> HIDE DEF c, E
    <2> QED
      BY <1>6, <1>9, <1>10

\* The text of a condition is that of its term, or of its sub-conditions.
LEMMA StringsAre ==
    ASSUME NEW d \in 0 .. Depth, NEW condition \in Condition[d], NEW binds \in Seq(Text)
    PROVE  Strings[d][condition][binds] =
              IF d = 0 \/ condition.subs = <<>> THEN TermToString(condition.term, binds)
              ELSE LET joined == Joined(Strings[d - 1], condition, binds)
                   IN  [joined EXCEPT !.text = Parenthesized(Len(condition.subs), @)]
  <1> DEFINE N == Depth
             S(i, x, c, b) ==
               IF i = 0 \/ c.subs = <<>> THEN TermToString(c.term, b)
               ELSE LET joined == Joined(x, c, b)
                    IN  [joined EXCEPT !.text = Parenthesized(Len(c.subs), @)]
             E(i, x) == [c \in Condition[i] |-> [b \in Seq(Text) |-> S(i, x, c, b)]]
             Is(f, n) == f = [i \in 0 .. n |-> E(i, f[i - 1])]
             T == {n \in Nat : \E f : Is(f, n)}
  <1>1. \A x, y : E(0, x) = E(0, y)
    OBVIOUS
  <1>2. 0 \in T
    <2> DEFINE f == [i \in 0 .. 0 |-> E(i, {})]
    <2>1. Is(f, 0)
      <3> HIDE DEF E
      <3> QED
        BY <1>1
    <2> QED
      BY <2>1
  <1>3. ASSUME NEW n \in Nat, n \in T PROVE n + 1 \in T
    <2> HIDE DEF E
    <2>1. PICK f : Is(f, n)
      BY <1>3
    <2> DEFINE g == [i \in 0 .. n + 1 |-> IF i = n + 1 THEN E(n + 1, f[n]) ELSE f[i]]
    <2>2. \A i \in 0 .. n : f[i] = E(i, f[i - 1])
      BY <2>1
    <2>3. ASSUME NEW i \in 0 .. n + 1 PROVE g[i] = E(i, g[i - 1])
      <3>1. CASE i = n + 1
        BY <3>1
      <3>2. CASE i = 0
        BY <1>1, <2>2, <3>2
      <3>3. CASE i \in 1 .. n
        BY <2>2, <3>3
      <3>4. QED
        BY <3>1, <3>2, <3>3
    <2>4. Is(g, n + 1)
      <3> SUFFICES g = [i \in 0 .. n + 1 |-> E(i, g[i - 1])]
        OBVIOUS
      <3>1. g = [i \in 0 .. n + 1 |-> g[i]]
        OBVIOUS
      <3> HIDE DEF g
      <3>2. QED
        BY <2>3, <3>1
    <2>5. \E h : Is(h, n + 1)
      <3> HIDE DEF g, Is
      <3> QED
        BY <2>4
    <2>6. QED
      <3> HIDE DEF Is
      <3> QED
        BY <2>5
  <1>4. Depth \in T
    <2>1. Depth \in Nat
      BY BoundsAssumption DEF Depth
    <2>2. \A n \in Nat : n \in T
      <3> HIDE DEF T
      <3> QED
        BY <1>2, <1>3, SetInduction
    <2>3. QED
      BY <2>1, <2>2
  <1>5. Is(Strings, Depth)
    <2>1. Strings = CHOOSE f : Is(f, Depth)
      BY DEF Strings
    <2> HIDE DEF Is
    <2>2. QED
      BY <1>4, <2>1
  <1>6. Strings[d] = E(d, Strings[d - 1])
    <2> HIDE DEF E
    <2> QED
      BY <1>5
  <1>7. Strings[d][condition][binds] = S(d, Strings[d - 1], condition, binds)
    <2> HIDE DEF S
    <2> QED
      BY <1>6
  <1>8. QED
    BY <1>7

\* m has the meanings of the conditions of each depth.
AreMeanings(m, row, given) ==
    \A d \in 0 .. Depth : \A c \in Condition[d] :
        m[d][c] = IF d = 0 \/ c.subs = <<>> THEN LeafMeans(c.meant, row, given)
                  ELSE IF c.logic = "And"
                  THEN \A i \in DOMAIN c.subs : m[d - 1][c.subs[i]]
                  ELSE \E i \in DOMAIN c.subs : m[d - 1][c.subs[i]]

\* What a condition means, its leaf or its sub-conditions say.
LEMMA MeaningsAre ==
    ASSUME NEW row, NEW given
    PROVE  \E m : Meanings(row, given) = m[Depth] /\ AreMeanings(m, row, given)
  <1> DEFINE N == Depth
             S(i, x, c) ==
               IF i = 0 \/ c.subs = <<>> THEN LeafMeans(c.meant, row, given)
               ELSE IF c.logic = "And" THEN \A k \in DOMAIN c.subs : x[c.subs[k]]
               ELSE \E k \in DOMAIN c.subs : x[c.subs[k]]
             E(i, x) == [c \in Condition[i] |-> S(i, x, c)]
             Is(f, n) == f = [i \in 0 .. n |-> E(i, f[i - 1])]
             T == {n \in Nat : \E f : Is(f, n)}
             h == CHOOSE f : Is(f, N)
  <1>1. \A x, y : E(0, x) = E(0, y)
    OBVIOUS
  <1>2. 0 \in T
    <2> DEFINE f == [i \in 0 .. 0 |-> E(i, {})]
    <2>1. Is(f, 0)
      <3> HIDE DEF E
      <3> QED
        BY <1>1
    <2> QED
      BY <2>1
  <1>3. ASSUME NEW n \in Nat, n \in T PROVE n + 1 \in T
    <2> HIDE DEF E
    <2>1. PICK f : Is(f, n)
      BY <1>3
    <2> DEFINE g == [i \in 0 .. n + 1 |-> IF i = n + 1 THEN E(n + 1, f[n]) ELSE f[i]]
    <2>2. \A i \in 0 .. n : f[i] = E(i, f[i - 1])
      BY <2>1
    <2>3. ASSUME NEW i \in 0 .. n + 1 PROVE g[i] = E(i, g[i - 1])
      <3>1. CASE i = n + 1
        BY <3>1
      <3>2. CASE i = 0
        BY <1>1, <2>2, <3>2
      <3>3. CASE i \in 1 .. n
        BY <2>2, <3>3
      <3>4. QED
        BY <3>1, <3>2, <3>3
    <2>4. Is(g, n + 1)
      <3> SUFFICES g = [i \in 0 .. n + 1 |-> E(i, g[i - 1])]
        OBVIOUS
      <3>1. g = [i \in 0 .. n + 1 |-> g[i]]
        OBVIOUS
      <3> HIDE DEF g
      <3>2. QED
        BY <2>3, <3>1
    <2>5. \E k : Is(k, n + 1)
      <3> HIDE DEF g, Is
      <3> QED
        BY <2>4
    <2>6. QED
      BY <2>5
  <1>4. Depth \in T
    <2>1. Depth \in Nat
      BY BoundsAssumption DEF Depth
    <2>2. \A n \in Nat : n \in T
      <3> HIDE DEF T
      <3> QED
        BY <1>2, <1>3, SetInduction
    <2>3. QED
      BY <2>1, <2>2
  <1>5. Is(h, Depth)
    <2> HIDE DEF Is
    <2> QED
      BY <1>4
  <1>6. Meanings(row, given) = h[Depth]
    BY DEF Meanings
  <1>7. \A d \in 0 .. Depth : h[d] = E(d, h[d - 1])
    <2> HIDE DEF E, h
    <2> QED
      BY <1>5
  <1>8. \A d \in 0 .. Depth : \A c \in Condition[d] : h[d][c] = S(d, h[d - 1], c)
    <2> HIDE DEF S, h
    <2> QED
      BY <1>7
  <1> HIDE DEF h
  <1>9. AreMeanings(h, row, given)
    BY <1>8 DEF AreMeanings
  <1>10. QED
    BY <1>6, <1>9

-----------------------------------------------------------------------------
(* A text says what its condition means *)

\* The words of texts: terms of leaves, with the number of a placeholder for
\* a value, and those without a term.
LeafTerm == {l.term : l \in LeafCondition} \cup {NoTerm}
NumberTerm == {[t EXCEPT !.with = With("number", n)] : t \in LeafTerm, n \in Nat}
TextWord ==
    [word : {"term", "(", ")", "And", "Or"},
     term : LeafTerm \cup NumberTerm]

\* More values are bound behind those of binds.
Extends(more, binds) == Len(binds) <= Len(more) /\ \A i \in 1 .. Len(binds) : more[i] = binds[i]

\* sql, made when binds were bound, is read as an operand that has value v,
\* whatever is around it and bound later.
Says(sql, binds, v, row, given) ==
    /\ sql.text \in Seq(TextWord) /\ sql.binds \in Seq(Text)
    /\ Extends(sql.binds, binds)
    /\ v \in BOOLEAN
    /\ \A more \in Seq(Text) : Extends(more, sql.binds) =>
          \A x, y \in BOOLEAN : \A z :
             ReadAll(Level(x, y, "operand", z), sql.text, row, more, given)
             = Level(x, y /\ v, "operator", z)

\* What a text says is read behind an operator, with all the values behind its own.
LEMMA SaysOperand ==
    ASSUME NEW row, NEW given, NEW binds, NEW v, NEW sql, Says(sql, binds, v, row, given),
           NEW more \in Seq(Text), Extends(more, sql.binds),
           NEW x \in BOOLEAN, NEW y \in BOOLEAN, NEW z
    PROVE  ReadAll(Level(x, y, "operand", z), sql.text, row, more, given)
           = Level(x, y /\ v, "operator", z)
  BY DEF Says

LEMMA ExtendsMore ==
    ASSUME NEW a \in Seq(Text), NEW b \in Seq(Text), NEW c \in Seq(Text),
           Extends(b, a), Extends(c, b)
    PROVE  Extends(c, a)
  BY DEF Extends

LEMMA ExtendsSelf == ASSUME NEW a \in Seq(Text) PROVE Extends(a, a)
  BY DEF Extends

\* A leaf compares what the program asked for: in lower case, either both
\* operands are or the comparison is with NULL, which has no case.
LEMMA LeafCompares ==
    ASSUME "lowered" \notin Ops, "empty" \notin Ops, NEW l \in LeafCondition,
           NEW row \in Row, NEW given \in [Placeholder -> Text], NEW binds \in Seq(Text),
           NEW more \in Seq(Text), Extends(more, TermToString(l.term, binds).binds)
    PROVE  /\ TermSelects(TermToString(l.term, binds).text[1].term, row, more, given)
              <=> LeafMeans(l.meant, row, given)
           /\ LeafMeans(l.meant, row, given) \in BOOLEAN
           /\ TermSelects(TermToString(l.term, binds).text[1].term, row, more, given) \in BOOLEAN
  <1>1. PICK sensitive \in BOOLEAN : l \in Leaves(sensitive)
    BY DEF LeafCondition
  <1>2. Compare \subseteq {"Equals", "NotEquals", "Is", "IsNot"}
    BY CompareAssumption
  <1>3. \A c \in Column : row[c] \in Text \cup {Null}
    BY DEF Row
  <1>4. \A cmp \in Compare : \A x, y : Holds(x, cmp, y) \in BOOLEAN
    BY <1>2 DEF Holds
  <1>5. CASE \E c \in Column, cmp \in WithValue, v \in Text : l = ValueLeaf(sensitive, c, cmp, v)
    <2>1. PICK c \in Column, cmp \in WithValue, v \in Text : l = ValueLeaf(sensitive, c, cmp, v)
      BY <1>5
    <2> DEFINE u == IF sensitive THEN v ELSE Lowered[v]
               t == [col |-> c, lower |-> ~sensitive, cmp |-> cmp, with |-> With("value", u)]
    <2>2. u \in Text /\ u # Null /\ v # Null
      BY LoweredAssumption, NullAssumption
    <2>3. l.term = t /\ l.meant = [t EXCEPT !.with = With("value", v)]
      BY <2>1 DEF ValueLeaf, Leaf, SqlCondition, Meant, ValueLowered
    <2> HIDE DEF u
    <2>4. /\ TermToString(l.term, binds).text[1].term = [t EXCEPT !.with = With("number", Len(binds))]
          /\ TermToString(l.term, binds).binds = Append(binds, u)
      BY <2>2, <2>3 DEF TermToString, TermWord, With
    <2>5. more[Len(binds) + 1] = u
      BY <2>2, <2>4 DEF Extends
    <2>6. Compared(With("number", Len(binds)), row, more, given) = u
      BY <2>5 DEF Compared, With
    <2>7. Compared(With("value", v), row, <<>>, given) = v
      BY DEF Compared, With
    <2>8. TermSelects(TermToString(l.term, binds).text[1].term, row, more, given)
          = Holds(IF ~sensitive THEN LowerOf(row[c]) ELSE row[c], cmp, u)
      BY <2>4, <2>6 DEF TermSelects
    <2>9. LeafMeans(l.meant, row, given)
          = Holds(IF ~sensitive THEN LowerOf(row[c]) ELSE row[c], cmp,
                  IF ~sensitive THEN LowerOf(v) ELSE v)
      BY <2>3, <2>7 DEF LeafMeans
    <2>10. u = IF ~sensitive THEN LowerOf(v) ELSE v
      BY <2>2 DEF u, LowerOf
    <2>11. cmp \in Compare
      BY DEF WithValue
    <2>12. QED
      BY <1>4, <2>8, <2>9, <2>10, <2>11
  <1>6. CASE \E c \in Column, cmp \in WithNull : l = ValueLeaf(sensitive, c, cmp, Null)
    <2>1. PICK c \in Column, cmp \in WithNull : l = ValueLeaf(sensitive, c, cmp, Null)
      BY <1>6
    <2>2. /\ l.term.col = c /\ l.term.cmp = cmp /\ l.term.with = With("value", Null)
          /\ ~l.term.lower
          /\ l.meant = [col |-> c, lower |-> ~sensitive, cmp |-> cmp, with |-> With("value", Null)]
      BY <2>1, NullAssumption DEF ValueLeaf, Leaf, SqlCondition, Meant
    <2>3. TermToString(l.term, binds).text[1].term = l.term
      BY <2>2 DEF TermToString, TermWord, With
    <2>4. \A all : Compared(With("value", Null), row, all, given) = Null
      BY DEF Compared, With
    <2>5. TermSelects(TermToString(l.term, binds).text[1].term, row, more, given)
          = Holds(row[c], cmp, Null)
      BY <2>2, <2>3, <2>4 DEF TermSelects
    <2>6. LeafMeans(l.meant, row, given)
          = Holds(IF ~sensitive THEN LowerOf(row[c]) ELSE row[c], cmp,
                  IF ~sensitive THEN LowerOf(Null) ELSE Null)
      <3>1. l.meant.col = c /\ l.meant.cmp = cmp /\ l.meant.with = With("value", Null)
        BY <2>2
      <3>2. l.meant.lower = ~sensitive
        BY <2>2
      <3>3. QED
        BY <2>4, <3>1, <3>2 DEF LeafMeans
    <2>7. LowerOf(Null) = Null /\ (LowerOf(row[c]) = Null <=> row[c] = Null)
      BY <1>3, LoweredAssumption, NullAssumption DEF LowerOf
    <2>8. cmp \in Compare /\ cmp \in {"Is", "IsNot"}
      BY DEF WithNull
    <2>9. Holds(LowerOf(row[c]), cmp, Null) <=> Holds(row[c], cmp, Null)
      BY <2>7, <2>8 DEF Holds
    <2>10. QED
      BY <1>4, <2>5, <2>6, <2>7, <2>8, <2>9
  <1>7. CASE \E c \in Column, cmp \in WithValue, p \in Placeholder :
                sensitive /\ l = PlaceholderLeaf(sensitive, c, cmp, p)
    <2>1. PICK c \in Column, cmp \in WithValue, p \in Placeholder :
                sensitive /\ l = PlaceholderLeaf(sensitive, c, cmp, p)
      BY <1>7
    <2> DEFINE t == [col |-> c, lower |-> FALSE, cmp |-> cmp, with |-> With("placeholder", p)]
    <2>2. l.term = t /\ l.meant = t
      BY <2>1 DEF PlaceholderLeaf, Leaf, SqlCondition, Meant
    <2>3. TermToString(l.term, binds).text[1].term = t
      BY <2>2 DEF TermToString, TermWord, With
    <2>4. \A all : Compared(With("placeholder", p), row, all, given) = given[p]
      BY DEF Compared, With
    <2>5. TermSelects(TermToString(l.term, binds).text[1].term, row, more, given)
          = Holds(row[c], cmp, given[p])
      BY <2>3, <2>4 DEF TermSelects
    <2>6. LeafMeans(l.meant, row, given) = Holds(row[c], cmp, given[p])
      BY <2>2, <2>4 DEF LeafMeans
    <2>7. cmp \in Compare
      BY DEF WithValue
    <2>8. QED
      BY <1>4, <2>5, <2>6, <2>7
  <1>8. CASE \E c \in Column, cmp \in WithValue, c2 \in Column :
                sensitive /\ l = ColumnLeaf(sensitive, c, cmp, c2)
    <2>1. PICK c \in Column, cmp \in WithValue, c2 \in Column :
                sensitive /\ l = ColumnLeaf(sensitive, c, cmp, c2)
      BY <1>8
    <2> DEFINE t == [col |-> c, lower |-> FALSE, cmp |-> cmp, with |-> With("column", c2)]
    <2>2. l.term = t /\ l.meant = t
      BY <2>1 DEF ColumnLeaf, Leaf, SqlCondition, Meant
    <2>3. TermToString(l.term, binds).text[1].term = t
      BY <2>2 DEF TermToString, TermWord, With
    <2>4. \A all : Compared(With("column", c2), row, all, given) = row[c2]
      BY DEF Compared, With
    <2>5. TermSelects(TermToString(l.term, binds).text[1].term, row, more, given)
          = Holds(row[c], cmp, row[c2])
      BY <2>3, <2>4 DEF TermSelects
    <2>6. LeafMeans(l.meant, row, given) = Holds(row[c], cmp, row[c2])
      BY <2>2, <2>4 DEF LeafMeans
    <2>7. cmp \in Compare
      BY DEF WithValue
    <2>8. QED
      BY <1>4, <2>5, <2>6, <2>7
  <1>9. \/ \E c \in Column, cmp \in WithValue, v \in Text : l = ValueLeaf(sensitive, c, cmp, v)
        \/ \E c \in Column, cmp \in WithNull : l = ValueLeaf(sensitive, c, cmp, Null)
        \/ \E c \in Column, cmp \in WithValue, p \in Placeholder :
              sensitive /\ l = PlaceholderLeaf(sensitive, c, cmp, p)
        \/ \E c \in Column, cmp \in WithValue, c2 \in Column :
              sensitive /\ l = ColumnLeaf(sensitive, c, cmp, c2)
    BY <1>1 DEF Leaves
  <1>10. QED
    BY <1>5, <1>6, <1>7, <1>8, <1>9

\* The values of leaves are texts.
LEMMA LeafValue ==
    ASSUME "empty" \notin Ops, NEW l \in LeafCondition,
           l.term.with.kind = "value", l.term.with.what # Null
    PROVE  l.term.with.what \in Text
  <1>1. PICK sensitive \in BOOLEAN : l \in Leaves(sensitive)
    BY DEF LeafCondition
  <1>2. CASE \E c \in Column, cmp \in WithValue, v \in Text : l = ValueLeaf(sensitive, c, cmp, v)
    <2>1. PICK c \in Column, cmp \in WithValue, v \in Text : l = ValueLeaf(sensitive, c, cmp, v)
      BY <1>2
    <2>2. l.term.with.what = IF ~sensitive /\ v \in Text THEN Lowered[v] ELSE v
      BY <2>1 DEF ValueLeaf, Leaf, SqlCondition, With, ValueLowered
    <2>3. QED
      BY <2>2, LoweredAssumption
  <1>3. CASE \E c \in Column, cmp \in WithNull : l = ValueLeaf(sensitive, c, cmp, Null)
    <2>1. PICK c \in Column, cmp \in WithNull : l = ValueLeaf(sensitive, c, cmp, Null)
      BY <1>3
    <2>2. l.term.with.what = Null
      BY <2>1, NullAssumption DEF ValueLeaf, Leaf, SqlCondition, With
    <2>3. QED
      BY <2>2
  <1>4. CASE \E c \in Column, cmp \in WithValue, p \in Placeholder : l = PlaceholderLeaf(sensitive, c, cmp, p)
    BY <1>4 DEF PlaceholderLeaf, Leaf, SqlCondition, With
  <1>5. CASE \E c \in Column, cmp \in WithValue, c2 \in Column : l = ColumnLeaf(sensitive, c, cmp, c2)
    BY <1>5 DEF ColumnLeaf, Leaf, SqlCondition, With
  <1>6. QED
    BY <1>1, <1>2, <1>3, <1>4, <1>5 DEF Leaves

\* An operand that holds or not.
LEMMA OperandIs ==
    ASSUME NEW x, NEW y \in BOOLEAN, NEW h \in BOOLEAN, NEW z
    PROVE  Operand(Level(x, y, "operand", z), h) = Level(x, y /\ h, "operator", z)
  BY DEF Operand, Level

\* How each word is read.
LEMMA ReadAnd ==
    ASSUME NEW x \in BOOLEAN, NEW y \in BOOLEAN, NEW z, NEW row, NEW binds, NEW given
    PROVE  Read(Level(x, y, "operator", z), Word("And"), row, binds, given) = Level(x, y, "operand", z)
  BY DEF Read, Level, Word

LEMMA ReadOpening ==
    ASSUME NEW x \in BOOLEAN, NEW y \in BOOLEAN, NEW z, NEW row, NEW binds, NEW given
    PROVE  Read(Level(x, y, "operand", z), Word("("), row, binds, given)
           = Opened(<<Level(x, y, "operand", z)>>)
  BY DEF Read, Level, Word

\* What is in parentheses is an operand.
LEMMA ReadClosing ==
    ASSUME NEW x \in BOOLEAN, NEW y \in BOOLEAN, NEW z, NEW row, NEW binds, NEW given,
           NEW a \in BOOLEAN, NEW b \in BOOLEAN
    PROVE  Read(Level(a, b, "operator", <<Level(x, y, "operand", z)>>), Word(")"), row, binds, given)
           = Level(x, y /\ (a \/ b), "operator", z)
  <1> DEFINE w == Word(")")
             l == Level(a, b, "operator", <<Level(x, y, "operand", z)>>)
  <1>1. w.word = ")" /\ l.next = "operator" /\ l.around # <<>> /\ l.around[1] = Level(x, y, "operand", z)
    BY DEF Word, Level
  <1>2. Read(l, w, row, binds, given) = Operand(l.around[1], l.any \/ l.all)
    BY <1>1 DEF Read
  <1>3. l.any = a /\ l.all = b
    BY DEF Level
  <1>4. Operand(Level(x, y, "operand", z), a \/ b) = Level(x, y /\ (a \/ b), "operator", z)
    <2> DEFINE h == a \/ b
    <2>1. h \in BOOLEAN
      OBVIOUS
    <2> HIDE DEF h
    <2>2. Operand(Level(x, y, "operand", z), h) = Level(x, y /\ h, "operator", z)
      BY <2>1, OperandIs
    <2>3. QED
      BY <2>2 DEF h
  <1>5. QED
    BY <1>1, <1>2, <1>3, <1>4

LEMMA ReadTerm ==
    ASSUME NEW x \in BOOLEAN, NEW y \in BOOLEAN, NEW z, NEW row, NEW binds, NEW given,
           NEW t, TermSelects(t, row, binds, given) \in BOOLEAN
    PROVE  Read(Level(x, y, "operand", z), TermWord(t), row, binds, given)
           = Level(x, y /\ TermSelects(t, row, binds, given), "operator", z)
  <1>1. TermWord(t).word = "term" /\ TermWord(t).term = t
    BY DEF TermWord
  <1> DEFINE h == TermSelects(t, row, binds, given)
  <1>2. Read(Level(x, y, "operand", z), TermWord(t), row, binds, given) = Operand(Level(x, y, "operand", z), h)
    BY <1>1 DEF Read, Level
  <1>3. h \in BOOLEAN
    OBVIOUS
  <1> HIDE DEF h
  <1>4. Operand(Level(x, y, "operand", z), h) = Level(x, y /\ h, "operator", z)
    BY <1>3, OperandIs
  <1>5. QED
    BY <1>2, <1>4 DEF h

\* The text of a leaf says what the leaf means.
LEMMA LeafSays ==
    ASSUME "lowered" \notin Ops, "empty" \notin Ops, NEW l \in LeafCondition,
           NEW row \in Row, NEW given \in [Placeholder -> Text], NEW binds \in Seq(Text)
    PROVE  Says(TermToString(l.term, binds), binds, LeafMeans(l.meant, row, given), row, given)
  <1> DEFINE sql == TermToString(l.term, binds)
             t == sql.text[1].term
             v == LeafMeans(l.meant, row, given)
  <1>1. l.term \in LeafTerm
    BY DEF LeafTerm
  <1>2. ASSUME l.term.with.kind = "value" /\ l.term.with.what # Null
        PROVE  /\ sql.text = <<TermWord(t)>> /\ TermWord(t) \in TextWord
               /\ sql.binds \in Seq(Text) /\ Extends(sql.binds, binds)
    <2> DEFINE u == [l.term EXCEPT !.with = With("number", Len(binds))]
    <2>1. sql = [text |-> <<TermWord(u)>>, binds |-> Append(binds, l.term.with.what)]
      BY <1>2 DEF TermToString
    <2>2. l.term.with.what \in Text
      BY <1>2, LeafValue
    <2> HIDE DEF u
    <2>3. sql.text = <<TermWord(t)>> /\ t = u
      <3>1. sql.text = <<TermWord(u)>>
        BY <2>1
      <3>2. TermWord(u).term = u
        BY DEF TermWord
      <3>3. t = u
        BY <3>1, <3>2
      <3>4. QED
        BY <3>1, <3>3
    <2>4. TermWord(u) \in TextWord
      <3>1. Len(binds) \in Nat
        OBVIOUS
      <3>2. u \in NumberTerm
        BY <1>1, <3>1 DEF u, NumberTerm
      <3>3. QED
        BY <3>2 DEF TermWord, TextWord
    <2>5. sql.binds \in Seq(Text) /\ Extends(sql.binds, binds)
      BY <2>1, <2>2 DEF Extends
    <2>6. QED
      <3> HIDE DEF sql, t, v
      <3> QED
        BY <2>3, <2>4, <2>5
  <1>3. ASSUME ~(l.term.with.kind = "value" /\ l.term.with.what # Null)
        PROVE  /\ sql.text = <<TermWord(t)>> /\ TermWord(t) \in TextWord
               /\ sql.binds \in Seq(Text) /\ Extends(sql.binds, binds)
    <2>1. sql = [text |-> <<TermWord(l.term)>>, binds |-> binds]
      BY <1>3 DEF TermToString
    <2>2. sql.text = <<TermWord(t)>> /\ t = l.term
      <3>1. sql.text = <<TermWord(l.term)>>
        BY <2>1
      <3>2. TermWord(l.term).term = l.term
        BY DEF TermWord
      <3>3. t = l.term
        BY <3>1, <3>2
      <3>4. QED
        BY <3>1, <3>3
    <2>3. TermWord(l.term) \in TextWord
      <3>1. l.term \in LeafTerm \cup NumberTerm
        BY <1>1
      <3> HIDE DEF t, sql, v
      <3>2. QED
        BY <3>1 DEF TermWord, TextWord
    <2>4. sql.binds \in Seq(Text) /\ Extends(sql.binds, binds)
      BY <2>1, ExtendsSelf
    <2>5. QED
      <3> HIDE DEF sql, t, v
      <3> QED
        BY <2>2, <2>3, <2>4
  <1>4. /\ sql.text = <<TermWord(t)>> /\ TermWord(t) \in TextWord
        /\ sql.binds \in Seq(Text) /\ Extends(sql.binds, binds)
    <2> HIDE DEF sql, t, v
    <2> QED
      BY <1>2, <1>3
  <1>5. v \in BOOLEAN
    BY LeafCompares, <1>4, ExtendsSelf
  <1>6. ASSUME NEW more \in Seq(Text), Extends(more, sql.binds),
               NEW x \in BOOLEAN, NEW y \in BOOLEAN, NEW z
        PROVE  ReadAll(Level(x, y, "operand", z), sql.text, row, more, given)
               = Level(x, y /\ v, "operator", z)
    <2> DEFINE h == TermSelects(t, row, more, given)
    <2>1. (h <=> v) /\ h \in BOOLEAN
      BY <1>6, LeafCompares
    <2>2. h = v
      <3> HIDE DEF h, v
      <3> QED
        BY <1>5, <2>1
    <2>3. Read(Level(x, y, "operand", z), TermWord(t), row, more, given) = Level(x, y /\ h, "operator", z)
      <3> HIDE DEF t
      <3> QED
        BY <2>1, ReadTerm
    <2>4. ReadAll(Level(x, y, "operand", z), <<TermWord(t)>>, row, more, given)
          = Read(Level(x, y, "operand", z), TermWord(t), row, more, given)
      <3> HIDE DEF t
      <3> QED
        BY ReadFew
    <2> HIDE DEF h, v
    <2>5. QED
      BY <1>4, <2>2, <2>3, <2>4
  <1>7. sql.text \in Seq(TextWord)
    <2> HIDE DEF sql, t
    <2> QED
      BY <1>4
  <1>8. QED
    <2>1. \A more \in Seq(Text) : Extends(more, sql.binds) =>
             \A x, y \in BOOLEAN : \A z :
                ReadAll(Level(x, y, "operand", z), sql.text, row, more, given)
                = Level(x, y /\ v, "operator", z)
      <3> HIDE DEF sql, v
      <3> QED
        BY <1>6
    <2>2. Says(sql, binds, v, row, given)
      <3> HIDE DEF sql, v
      <3> QED
        BY <1>4, <1>5, <1>7, <2>1 DEF Says
    <2>3. QED
      BY <2>2

\* What sub-conditions that have values v mean together, the first k of them.
Together(op, v, k) == IF op = "And" THEN \A i \in 1 .. k : v[i] ELSE \E i \in 1 .. k : v[i]

\* The first texts joined are read, at the start of a level, as the first
\* sub-conditions together.
SaysTogether(sql, binds, op, v, k, row, given) ==
    /\ sql.text \in Seq(TextWord) /\ sql.binds \in Seq(Text)
    /\ Extends(sql.binds, binds)
    /\ \A more \in Seq(Text) : Extends(more, sql.binds) =>
          \A z : \E x, y \in BOOLEAN :
             /\ ReadAll(Opened(z), sql.text, row, more, given) = Level(x, y, "operator", z)
             /\ x \/ y <=> Together(op, v, k)
             /\ op = "And" => ~x

\* The words between operands are words of texts.
LEMMA WordsAre == \A w \in {"(", ")", "And", "Or"} : Word(w) \in TextWord /\ <<Word(w)>> \in Seq(TextWord)
  <1>1. NoTerm \in LeafTerm
    BY DEF LeafTerm
  <1>2. \A w \in {"(", ")", "And", "Or"} : Word(w) \in TextWord
    BY <1>1 DEF Word, TextWord
  <1>3. QED
    BY <1>2

\* One more sub-condition is joined.
LEMMA OneMore ==
    ASSUME NEW row, NEW given, NEW binds \in Seq(Text), NEW op \in LogicOperator,
           NEW k \in Nat, k >= 1, NEW v, \A i \in 1 .. k + 1 : v[i] \in BOOLEAN,
           NEW string, NEW c, c.logic = op,
           NEW before, SaysTogether(before, binds, op, v, k, row, given),
           Says(string[c.subs[k + 1]][before.binds], before.binds, v[k + 1], row, given),
           NEW after, after = JoinSub(string, c, before, k + 1)
    PROVE  SaysTogether(after, binds, op, v, k + 1, row, given)
  <1> DEFINE t == before.text
             sub == string[c.subs[k + 1]][before.binds]
             u == sub.text
             w == Word(op)
             last == v[k + 1]
             n == k + 1
  <1>1. n \in Nat /\ n # 1 /\ sub = string[c.subs[n]][before.binds] /\ after = JoinSub(string, c, before, n)
    OBVIOUS
  <1>2. after.binds = sub.binds /\ after.text = before.text \o <<Word(c.logic)>> \o sub.text
    <2> DEFINE joined == before.text \o <<Word(c.logic)>> \o sub.text
    <2> HIDE DEF n, sub
    <2>1. after = [text |-> joined, binds |-> sub.binds]
      BY <1>1 DEF JoinSub
    <2> HIDE DEF joined
    <2>2. after.binds = sub.binds /\ after.text = joined
      BY <2>1
    <2>3. QED
      BY <2>2 DEF joined
  <1> HIDE DEF sub, n
  <1>3. Says(sub, before.binds, v[k + 1], row, given)
    BY DEF sub
  <1>4. /\ t \in Seq(TextWord) /\ u \in Seq(TextWord) /\ <<w>> \in Seq(TextWord)
        /\ before.binds \in Seq(Text) /\ sub.binds \in Seq(Text)
        /\ Extends(before.binds, binds) /\ Extends(sub.binds, before.binds)
        /\ last \in BOOLEAN
    BY <1>3, WordsAre DEF SaysTogether, Says, LogicOperator
  <1>5. t \o <<w>> \in Seq(TextWord) /\ t \o <<w>> \o u \in Seq(TextWord)
    <2> HIDE DEF t, u, w
    <2> QED
      BY <1>4, ConcatProperties
  <1>6. Extends(after.binds, binds)
    BY <1>4, <1>2, ExtendsMore
  <1>7. ASSUME NEW more \in Seq(Text), Extends(more, after.binds), NEW z
        PROVE  \E x, y \in BOOLEAN :
             /\ ReadAll(Opened(z), after.text, row, more, given) = Level(x, y, "operator", z)
             /\ x \/ y <=> Together(op, v, k + 1)
             /\ op = "And" => ~x
    <2>1. Extends(more, before.binds)
      BY <1>4, <1>2, <1>7, ExtendsMore
    <2>2. PICK x, y \in BOOLEAN :
             /\ ReadAll(Opened(z), t, row, more, given) = Level(x, y, "operator", z)
             /\ x \/ y <=> Together(op, v, k)
             /\ op = "And" => ~x
      BY <2>1 DEF SaysTogether
    <2> DEFINE a == IF op = "And" THEN x ELSE x \/ y
               b == IF op = "And" THEN y ELSE TRUE
    <2>3. a \in BOOLEAN /\ b \in BOOLEAN
      OBVIOUS
    <2>4. Read(Level(x, y, "operator", z), w, row, more, given) = Level(a, b, "operand", z)
      <3>1. CASE op = "And"
        <4>1. w = Word("And") /\ a = x /\ b = y
          BY <3>1
        <4> HIDE DEF a, b, w
        <4>2. QED
          BY <4>1, ReadAnd
      <3>2. CASE op = "Or"
        <4>1. w = Word("Or") /\ a = (x \/ y) /\ b = TRUE
          BY <3>2
        <4> HIDE DEF a, b, w
        <4>2. Read(Level(x, y, "operator", z), Word("Or"), row, more, given)
              = Level(x \/ y, TRUE, "operand", z)
          BY DEF Read, Level, Word
        <4>3. QED
          BY <4>1, <4>2
      <3>3. QED
        BY <3>1, <3>2 DEF LogicOperator
    <2> HIDE DEF a, b
    <2>5. ReadAll(Opened(z), t \o <<w>>, row, more, given) = Level(a, b, "operand", z)
      <3>1. ReadAll(Opened(z), t \o <<w>>, row, more, given)
            = ReadAll(ReadAll(Opened(z), t, row, more, given), <<w>>, row, more, given)
        <4> DEFINE s == <<w>>
        <4>1. t \in Seq(TextWord) /\ s \in Seq(TextWord)
          BY <1>4
        <4> HIDE DEF t, w, s
        <4>2. ReadAll(Opened(z), t \o s, row, more, given)
              = ReadAll(ReadAll(Opened(z), t, row, more, given), s, row, more, given)
          BY <4>1, ReadJoined
        <4>3. QED
          BY <4>2 DEF s
      <3> HIDE DEF t, w
      <3>2. ReadAll(Level(x, y, "operator", z), <<w>>, row, more, given)
            = Read(Level(x, y, "operator", z), w, row, more, given)
        BY ReadFew
      <3>3. QED
        BY <2>2, <2>4, <3>1, <3>2
    <2>6. ReadAll(Level(a, b, "operand", z), u, row, more, given) = Level(a, b /\ last, "operator", z)
      <3>1. Extends(more, sub.binds)
        BY <1>2, <1>7
      <3> HIDE DEF a, b
      <3>2. ReadAll(Level(a, b, "operand", z), sub.text, row, more, given)
            = Level(a, b /\ v[k + 1], "operator", z)
        BY <1>3, <2>3, <3>1, SaysOperand
      <3>3. QED
        BY <3>2
    <2>7. ReadAll(Opened(z), t \o <<w>> \o u, row, more, given) = Level(a, b /\ last, "operator", z)
      <3> DEFINE tw == t \o <<w>>
      <3>1. ReadAll(Opened(z), tw \o u, row, more, given)
            = ReadAll(ReadAll(Opened(z), tw, row, more, given), u, row, more, given)
        <4>1. tw \in Seq(TextWord) /\ u \in Seq(TextWord)
          BY <1>4, <1>5
        <4> HIDE DEF tw, u
        <4>2. QED
          BY <4>1, ReadJoined
      <3>2. QED
        BY <2>5, <2>6, <3>1
    <2>8. a \/ (b /\ last) <=> Together(op, v, k + 1)
      <3>1. 1 .. k + 1 = 1 .. k \cup {k + 1}
        OBVIOUS
      <3>2. CASE op = "And"
        BY <2>2, <3>1, <3>2 DEF a, b, Together
      <3>3. CASE op = "Or"
        BY <2>2, <3>1, <3>3 DEF a, b, Together
      <3>4. QED
        BY <3>2, <3>3 DEF LogicOperator
    <2>9. op = "And" => ~a
      BY <2>2 DEF a
    <2> DEFINE e == b /\ last
    <2>10. e \in BOOLEAN
      BY <1>4, <2>3
    <2>11. /\ ReadAll(Opened(z), after.text, row, more, given) = Level(a, e, "operator", z)
           /\ a \/ e <=> Together(op, v, k + 1)
      BY <1>2, <2>7, <2>8
    <2> HIDE DEF e
    <2>12. QED
      BY <2>3, <2>9, <2>10, <2>11
  <1>8. after.text \in Seq(TextWord) /\ after.binds \in Seq(Text)
    BY <1>4, <1>5, <1>2
  <1>9. QED
    BY <1>6, <1>7, <1>8 DEF SaysTogether

\* The first one is as it was.
LEMMA FirstOne ==
    ASSUME NEW row, NEW given, NEW binds, NEW v, NEW string, NEW c, NEW before, before.binds = binds,
           Says(string[c.subs[1]][binds], binds, v, row, given),
           NEW after, after = JoinSub(string, c, before, 1)
    PROVE  Says(after, binds, v, row, given)
  <1> DEFINE sub == string[c.subs[1]][before.binds]
  <1>1. after.binds = sub.binds /\ after.text = sub.text
    <2> HIDE DEF sub
    <2>1. after = [text |-> sub.text, binds |-> sub.binds]
      BY DEF JoinSub, sub
    <2>2. QED
      BY <2>1
  <1>2. Says(sub, binds, v, row, given)
    OBVIOUS
  <1> HIDE DEF sub
  <1>3. QED
    BY <1>1, <1>2 DEF Says

\* The text of a condition with sub-conditions says what they mean together.
LEMMA JoinedSays ==
    ASSUME NEW row, NEW given, NEW binds \in Seq(Text), NEW string, NEW c, NEW v,
           c.logic \in LogicOperator, NEW n \in Nat, n >= 1,
           \A i \in 1 .. n : \A b \in Seq(Text) :
              Says(string[c.subs[i]][b], b, v[i], row, given),
           NEW j, j[0].binds = binds,
           \A i \in 1 .. n : j[i] = JoinSub(string, c, j[i - 1], i),
           NEW sql, sql.binds = j[n].binds, sql.text = Parenthesized(n, j[n].text)
    PROVE  Says(sql, binds, Together(c.logic, v, n), row, given)
  <1> DEFINE op == c.logic
             D == j[n]
             S(i, b) == string[c.subs[i]][b]
  <1>1. \A i \in 1 .. n : \A b \in Seq(Text) : Says(S(i, b), b, v[i], row, given)
    OBVIOUS
  <1>2. \A i \in 1 .. n : v[i] \in BOOLEAN
    BY <1>1 DEF Says
  <1>3. j[1] = JoinSub(string, c, j[0], 1)
    <2>1. 1 \in 1 .. n /\ 1 - 1 = 0
      OBVIOUS
    <2>2. QED
      BY <2>1
  <1>4. ASSUME NEW k \in Nat, k >= 1, k + 1 \in 1 .. n
        PROVE  j[k + 1] = JoinSub(string, c, j[k], k + 1)
    <2>1. k + 1 - 1 = k
      BY <1>4
    <2>2. QED
      BY <1>4, <2>1
  <1>5. Says(string[c.subs[1]][binds], binds, v[1], row, given)
    BY <1>1
  <1> HIDE DEF D
  <1>6. Says(j[1], binds, v[1], row, given)
    <2> DEFINE before == j[0]
               after == j[1]
    <2>1. before.binds = binds /\ after = JoinSub(string, c, before, 1)
      BY <1>3
    <2> HIDE DEF before, after
    <2>2. Says(after, binds, v[1], row, given)
      BY <1>5, <2>1, FirstOne
    <2>3. QED
      BY <2>2 DEF after
  <1>7. CASE n = 1
    <2>1. sql.binds = j[1].binds /\ sql.text = j[1].text
      BY <1>7 DEF Parenthesized
    <2>2. Together(op, v, 1) <=> v[1]
      BY DEF Together
    <2>3. Together(op, v, 1) = v[1]
      <3>1. Together(op, v, 1) \in BOOLEAN
        BY DEF Together
      <3>2. QED
        BY <1>2, <2>2, <3>1
    <2>4. Says(sql, binds, v[1], row, given)
      BY <1>6, <2>1 DEF Says
    <2>5. QED
      BY <1>7, <2>3, <2>4
  <1>8. CASE n # 1
    <2> DEFINE P(k) == SaysTogether(j[k], binds, op, v, k, row, given)
               T == {k \in Nat : k \in 1 .. n => P(k)}
    <2>1. P(1)
      <3> SUFFICES ASSUME NEW more \in Seq(Text), Extends(more, j[1].binds), NEW z
                   PROVE  \E x, y \in BOOLEAN :
                             /\ ReadAll(Opened(z), j[1].text, row, more, given) = Level(x, y, "operator", z)
                             /\ x \/ y <=> Together(op, v, 1)
                             /\ op = "And" => ~x
        BY <1>6 DEF Says, SaysTogether
      <3>1. ReadAll(Opened(z), j[1].text, row, more, given) = Level(FALSE, TRUE /\ v[1], "operator", z)
        <4> DEFINE no == FALSE
                   yes == TRUE
                   sqlOf == j[1]
        <4>1. no \in BOOLEAN /\ yes \in BOOLEAN /\ Says(sqlOf, binds, v[1], row, given)
          BY <1>6
        <4> HIDE DEF no, yes, sqlOf
        <4>2. Extends(more, sqlOf.binds)
          BY DEF sqlOf
        <4>3. ReadAll(Level(no, yes, "operand", z), sqlOf.text, row, more, given)
              = Level(no, yes /\ v[1], "operator", z)
          BY <4>1, <4>2, SaysOperand
        <4>4. QED
          BY <4>3 DEF Opened, no, yes, sqlOf
      <3>2. FALSE \/ v[1] <=> Together(op, v, 1)
        BY DEF Together
      <3> DEFINE y == TRUE /\ v[1]
      <3>3. y \in BOOLEAN /\ (FALSE \/ y <=> Together(op, v, 1))
        BY <1>2, <3>2
      <3>4. ReadAll(Opened(z), j[1].text, row, more, given) = Level(FALSE, y, "operator", z)
        BY <3>1
      <3> HIDE DEF y
      <3>5. QED
        BY <3>3, <3>4
    <2>2. 0 \in T
      OBVIOUS
    <2>3. ASSUME NEW k \in Nat, k \in T PROVE k + 1 \in T
      <3> SUFFICES ASSUME k + 1 \in 1 .. n PROVE P(k + 1)
        OBVIOUS
      <3>1. CASE k = 0
        BY <2>1, <3>1
      <3>2. CASE k # 0
        <4>1. k \in 1 .. n /\ k >= 1 /\ k + 1 # 1 /\ k + 1 - 1 = k
          BY <3>2
        <4>2. P(k)
          BY <2>3, <4>1
        <4>3. j[k].binds \in Seq(Text)
          BY <4>2 DEF SaysTogether
        <4>4. Says(string[c.subs[k + 1]][j[k].binds], j[k].binds, v[k + 1], row, given)
          BY <1>1, <4>3
        <4>5. j[k + 1] = JoinSub(string, c, j[k], k + 1)
          BY <1>4, <4>1
        <4>6. \A i \in 1 .. k + 1 : v[i] \in BOOLEAN
          BY <1>2
        <4> DEFINE before == j[k]
                   after == j[k + 1]
        <4>7. /\ SaysTogether(before, binds, op, v, k, row, given)
              /\ Says(string[c.subs[k + 1]][before.binds], before.binds, v[k + 1], row, given)
              /\ after = JoinSub(string, c, before, k + 1)
          BY <4>2, <4>4, <4>5
        <4>8. SaysTogether(after, binds, op, v, k + 1, row, given)
          <5> HIDE DEF before, after, op
          <5> QED
            BY <4>1, <4>6, <4>7, OneMore DEF op
        <4>9. QED
          BY <4>8
      <3>3. QED
        BY <3>1, <3>2
    <2>4. \A k \in Nat : k \in T
      <3> HIDE DEF T
      <3> QED
        BY <2>2, <2>3, SetInduction
    <2>5. P(n)
      BY <2>4
    <2>6. j[n] = D
      BY DEF D
    <2> DEFINE t == D.text
               l == <<Word("(")>>
               r == <<Word(")")>>
               e == Together(op, v, n)
    <2>7. sql.text = l \o t \o r /\ sql.binds = D.binds
      BY <1>8 DEF Parenthesized, D
    <2>8. l \in Seq(TextWord) /\ r \in Seq(TextWord) /\ t \in Seq(TextWord)
          /\ D.binds \in Seq(Text) /\ Extends(D.binds, binds)
      BY <2>5, <2>6, WordsAre DEF SaysTogether
    <2>9. l \o t \in Seq(TextWord) /\ l \o t \o r \in Seq(TextWord)
      <3> HIDE DEF l, t, r
      <3> QED
        BY <2>8, ConcatProperties
    <2>10. e \in BOOLEAN
      BY DEF Together
    <2>11. ASSUME NEW more \in Seq(Text), Extends(more, sql.binds),
                  NEW x \in BOOLEAN, NEW y \in BOOLEAN, NEW z
           PROVE  ReadAll(Level(x, y, "operand", z), sql.text, row, more, given)
                  = Level(x, y /\ e, "operator", z)
      <3> DEFINE q == Level(x, y, "operand", z)
      <3>1. PICK a, b \in BOOLEAN :
               /\ ReadAll(Opened(<<q>>), t, row, more, given) = Level(a, b, "operator", <<q>>)
               /\ a \/ b <=> e
        BY <2>5, <2>6, <2>7, <2>11 DEF SaysTogether
      <3>2. ReadAll(q, l, row, more, given) = Opened(<<q>>)
        <4>1. ReadAll(q, l, row, more, given) = Read(q, Word("("), row, more, given)
          BY ReadFew
        <4>2. QED
          BY <4>1, ReadOpening
      <3>3. ReadAll(Level(a, b, "operator", <<q>>), r, row, more, given) = Level(x, y /\ (a \/ b), "operator", z)
        <4>1. ReadAll(Level(a, b, "operator", <<q>>), r, row, more, given)
              = Read(Level(a, b, "operator", <<q>>), Word(")"), row, more, given)
          BY ReadFew
        <4>2. QED
          BY <4>1, ReadClosing
      <3> HIDE DEF l, t, r, q
      <3> DEFINE lt == l \o t
      <3>4. ReadAll(q, lt, row, more, given) = Level(a, b, "operator", <<q>>)
        BY <2>8, <3>1, <3>2, ReadJoined
      <3>5. ReadAll(q, lt \o r, row, more, given) = Level(x, y /\ (a \/ b), "operator", z)
        <4>1. lt \in Seq(TextWord)
          BY <2>9
        <4> HIDE DEF lt
        <4>2. QED
          BY <2>8, <3>3, <3>4, <4>1, ReadJoined
      <3>6. (a \/ b) = e
        BY <2>10, <3>1
      <3>7. QED
        BY <2>7, <3>5, <3>6 DEF q
    <2>12. \A more \in Seq(Text) : Extends(more, sql.binds) =>
             \A x, y \in BOOLEAN : \A z :
                ReadAll(Level(x, y, "operand", z), sql.text, row, more, given)
                = Level(x, y /\ e, "operator", z)
      <3> HIDE DEF e
      <3> QED
        BY <2>11
    <2>13. Says(sql, binds, e, row, given)
      <3> HIDE DEF e, t, l, r
      <3> QED
        BY <2>7, <2>8, <2>9, <2>10, <2>12 DEF Says
    <2>14. QED
      BY <2>13
  <1>9. QED
    BY <1>7, <1>8

\* What has no sub-conditions is a leaf.
LEMMA LeafHasNone == ASSUME "empty" \notin Ops, NEW l \in LeafCondition PROVE l.subs = <<>>
  <1>1. PICK sensitive \in BOOLEAN : l \in Leaves(sensitive)
    BY DEF LeafCondition
  <1>2. \A c, w, cmp, lower, with : Leaf(c, w, cmp, lower, with).subs = <<>>
    BY DEF Leaf, SqlCondition
  <1>3. \E c, w, cmp, lower, with : l = Leaf(c, w, cmp, lower, with)
    <2>1. CASE \E c \in Column, cmp \in Compare, v \in Text \cup {Null} : l = ValueLeaf(sensitive, c, cmp, v)
      BY <2>1 DEF ValueLeaf
    <2>2. CASE \E c \in Column, cmp \in Compare, p \in Placeholder : l = PlaceholderLeaf(sensitive, c, cmp, p)
      BY <2>2 DEF PlaceholderLeaf
    <2>3. CASE \E c \in Column, cmp \in Compare, c2 \in Column : l = ColumnLeaf(sensitive, c, cmp, c2)
      BY <2>3 DEF ColumnLeaf
    <2>4. QED
      BY <1>1, <2>1, <2>2, <2>3 DEF Leaves, WithValue, WithNull
  <1>4. QED
    BY <1>2, <1>3

\* The text of every condition says what the condition means.
LEMMA ConditionsSay ==
    ASSUME "lowered" \notin Ops, "empty" \notin Ops,
           NEW row \in Row, NEW given \in [Placeholder -> Text], NEW m,
           AreMeanings(m, row, given)
    PROVE  \A d \in 0 .. Depth : \A c \in Condition[d], b \in Seq(Text) :
              Says(Strings[d][c][b], b, m[d][c], row, given)
  <1> DEFINE P(d) == \A c \in Condition[d], b \in Seq(Text) :
                        Says(Strings[d][c][b], b, m[d][c], row, given)
             T == {d \in Nat : d <= Depth => P(d)}
  <1>1. Depth \in Nat
    BY BoundsAssumption DEF Depth
  <1>2. ASSUME NEW d \in 0 .. Depth, NEW c \in Condition[d], c \in LeafCondition, NEW b \in Seq(Text)
        PROVE  Says(Strings[d][c][b], b, m[d][c], row, given)
    <2>1. c.subs = <<>>
      BY <1>2, LeafHasNone
    <2>2. Strings[d][c][b] = TermToString(c.term, b)
      BY <2>1, StringsAre
    <2>3. m[d][c] = LeafMeans(c.meant, row, given)
      BY <2>1 DEF AreMeanings
    <2>4. Says(TermToString(c.term, b), b, LeafMeans(c.meant, row, given), row, given)
      BY <1>2, LeafSays
    <2>5. QED
      BY <2>2, <2>3, <2>4
  <1>3. 0 \in T
    <2>1. 0 \in 0 .. Depth /\ Condition[0] = LeafCondition
      BY <1>1, ConditionIs
    <2>2. P(0)
      BY <1>2, <2>1
    <2>3. QED
      BY <2>2
  <1>4. ASSUME NEW e \in Nat, e \in T PROVE e + 1 \in T
    <2> DEFINE d == e + 1
    <2> SUFFICES ASSUME d <= Depth, NEW c \in Condition[d], NEW b \in Seq(Text)
                 PROVE  Says(Strings[d][c][b], b, m[d][c], row, given)
      OBVIOUS
    <2>1. d \in 1 .. Depth /\ d \in 0 .. Depth /\ d - 1 = e /\ d # 0
      BY <1>1
    <2>2. P(e)
      BY <1>1, <1>4
    <2>3. Condition[d] = LeafCondition \cup Nested(Condition[e])
      BY <2>1, ConditionIs
    <2> HIDE DEF d
    <2>4. CASE c \in LeafCondition
      BY <1>2, <2>1, <2>4
    <2>5. CASE c \in Nested(Condition[e])
      <3> DEFINE n == Len(c.subs)
                 v == [i \in 1 .. n |-> m[e][c.subs[i]]]
                 sql == Strings[d][c][b]
                 D == Joined(Strings[e], c, b)
      <3>1. /\ c.subs \in Seq(Condition[e]) /\ c.subs # <<>> /\ c.logic \in LogicOperator
            /\ n \in Nat /\ n >= 1 /\ DOMAIN c.subs = 1 .. n
            /\ \A i \in 1 .. n : c.subs[i] \in Condition[e]
        BY <2>5 DEF Nested
      <3>2. sql = [D EXCEPT !.text = Parenthesized(n, @)]
        <4>1. sql = LET joined == Joined(Strings[d - 1], c, b)
                    IN  [joined EXCEPT !.text = Parenthesized(Len(c.subs), @)]
          BY <2>1, <3>1, StringsAre
        <4>2. QED
          BY <2>1, <4>1
      <3> HIDE DEF sql, D
      <3>3. m[d][c] = Together(c.logic, v, n)
        <4>1. m[d][c] = IF c.logic = "And"
                        THEN \A i \in 1 .. n : m[e][c.subs[i]]
                        ELSE \E i \in 1 .. n : m[e][c.subs[i]]
          BY <2>1, <3>1 DEF AreMeanings
        <4>2. QED
          BY <4>1 DEF Together
      <3>4. \A i \in 1 .. n : \A a \in Seq(Text) : Says(Strings[e][c.subs[i]][a], a, v[i], row, given)
        BY <2>2, <3>1
      <3> HIDE DEF v, n
      <3>5. PICK j : /\ j[0].binds = b
                     /\ \A i \in 1 .. n : j[i] = JoinSub(Strings[e], c, j[i - 1], i)
                     /\ D = j[n]
        <4>1. Len(c.subs) \in Nat
          BY <3>1 DEF n
        <4> DEFINE s == Strings[e]
                   J == Joined(s, c, b)
        <4>2. \E j : /\ j[0].binds = b
                     /\ \A i \in 1 .. Len(c.subs) : j[i] = JoinSub(s, c, j[i - 1], i)
                     /\ Joined(s, c, b) = j[Len(c.subs)]
          <5> HIDE DEF s
          <5> QED
            BY <4>1, JoinedSteps
        <4>3. QED
          BY <4>2 DEF D, n
      <3>6. sql.binds = j[n].binds /\ sql.text = Parenthesized(n, j[n].text)
        <4>1. D = JoinSub(Strings[e], c, j[n - 1], n)
          BY <3>1, <3>5
        <4>2. \E x, y : D = [text |-> x, binds |-> y]
          BY <4>1 DEF JoinSub
        <4>3. sql.binds = D.binds /\ sql.text = Parenthesized(n, D.text)
          BY <3>2, <4>2
        <4>4. QED
          BY <3>5, <4>3
      <3>7. Says(sql, b, Together(c.logic, v, n), row, given)
        <4> DEFINE s == Strings[e]
        <4>1. \A i \in 1 .. n : \A a \in Seq(Text) : Says(s[c.subs[i]][a], a, v[i], row, given)
          BY <3>4
        <4>2. \A i \in 1 .. n : j[i] = JoinSub(s, c, j[i - 1], i)
          BY <3>5
        <4> HIDE DEF s
        <4>3. QED
          BY <3>1, <3>5, <3>6, <4>1, <4>2, JoinedSays
      <3>8. QED
        BY <3>3, <3>7 DEF sql
    <2>6. QED
      BY <2>3, <2>4, <2>5
  <1>5. \A d \in Nat : d \in T
    <2> HIDE DEF T
    <2> QED
      BY <1>3, <1>4, SetInduction
  <1>6. \A d \in 0 .. Depth : P(d)
    <2> HIDE DEF P
    <2> QED
      BY <1>1, <1>5
  <1>7. QED
    BY <1>6

-----------------------------------------------------------------------------
(* The objects of the program *)

Object(S) == [logic : LogicOperator, sensitive : BOOLEAN, subs : Seq(S),
              term : {NoTerm}, meant : {NoTerm}]

\* Every object has sub-conditions no deeper than what was nested so far.
ConditionsInv ==
    /\ nests \in 0 .. MaxNests
    /\ conds \in [Name -> Object(Condition[nests])]

\* Deeper conditions may be nested wherever less deep ones may.
LEMMA ConditionGrows ==
    \A d \in Nat : d + 1 <= Depth => Condition[d] \subseteq Condition[d + 1]
  <1> DEFINE T == {d \in Nat : d + 1 <= Depth => Condition[d] \subseteq Condition[d + 1]}
  <1>1. Depth \in Nat
    BY BoundsAssumption DEF Depth
  <1>2. \A d \in Nat : d + 1 <= Depth => Condition[d + 1] = LeafCondition \cup Nested(Condition[d])
    <2> SUFFICES ASSUME NEW d \in Nat, d + 1 <= Depth
                 PROVE  Condition[d + 1] = LeafCondition \cup Nested(Condition[d])
      OBVIOUS
    <2>1. d + 1 \in 1 .. Depth /\ d + 1 - 1 = d
      BY <1>1
    <2>2. QED
      BY <2>1, ConditionIs
  <1>3. 0 \in T
    <2>1. Condition[0] = LeafCondition
      BY ConditionIs
    <2>2. QED
      BY <1>2, <2>1
  <1>4. ASSUME NEW d \in Nat, d \in T PROVE d + 1 \in T
    <2> SUFFICES ASSUME d + 1 + 1 <= Depth PROVE Condition[d + 1] \subseteq Condition[d + 1 + 1]
      OBVIOUS
    <2> DEFINE e == d + 1
    <2>1. Condition[d] \subseteq Condition[e]
      BY <1>1, <1>4
    <2>2. Condition[e] = LeafCondition \cup Nested(Condition[d])
      BY <1>1, <1>2
    <2>3. Condition[e + 1] = LeafCondition \cup Nested(Condition[e])
      BY <1>2
    <2>4. Nested(Condition[d]) \subseteq Nested(Condition[e])
      <3>1. Seq(Condition[d]) \subseteq Seq(Condition[e])
        BY <2>1
      <3> HIDE DEF e
      <3>2. QED
        BY <3>1 DEF Nested
    <2>5. QED
      BY <2>2, <2>3, <2>4
  <1>5. \A d \in Nat : d \in T
    <2> HIDE DEF T
    <2> QED
      BY <1>3, <1>4, SetInduction
  <1>6. QED
    BY <1>5

LEMMA ConditionWithin ==
    ASSUME NEW n \in Nat, n <= Depth PROVE Condition[n] \subseteq Condition[Depth]
  <1> DEFINE T == {k \in Nat : n + k <= Depth => Condition[n] \subseteq Condition[n + k]}
  <1>1. Depth \in Nat
    BY BoundsAssumption DEF Depth
  <1>2. 0 \in T
    OBVIOUS
  <1>3. ASSUME NEW k \in Nat, k \in T PROVE k + 1 \in T
    <2> SUFFICES ASSUME n + (k + 1) <= Depth PROVE Condition[n] \subseteq Condition[n + (k + 1)]
      OBVIOUS
    <2>1. Condition[n] \subseteq Condition[n + k]
      BY <1>1, <1>3
    <2>2. n + k \in Nat /\ n + k + 1 <= Depth /\ n + (k + 1) = n + k + 1
      BY <1>1
    <2>3. Condition[n + k] \subseteq Condition[n + k + 1]
      BY <2>2, ConditionGrows
    <2>4. QED
      BY <2>1, <2>2, <2>3
  <1>4. \A k \in Nat : k \in T
    <2> HIDE DEF T
    <2> QED
      BY <1>2, <1>3, SetInduction
  <1>5. Depth - n \in Nat /\ n + (Depth - n) = Depth
    BY <1>1
  <1>6. QED
    BY <1>4, <1>5

\* Objects with sub-conditions may be nested.
LEMMA ObjectNests ==
    ASSUME NEW n \in 0 .. MaxNests, NEW c \in Object(Condition[n]), c.subs # <<>>
    PROVE  c \in Condition[n + 1]
  <1>1. n + 1 \in 1 .. Depth /\ n + 1 - 1 = n
    BY BoundsAssumption DEF Depth
  <1>2. c \in Nested(Condition[n])
    BY DEF Object, Nested
  <1>3. QED
    BY <1>1, <1>2, ConditionIs

\* Leaves may be nested at any depth.
LEMMA LeafWithin == ASSUME NEW n \in 0 .. Depth PROVE LeafCondition \subseteq Condition[n]
  <1>1. CASE n = 0
    BY <1>1, ConditionIs
  <1>2. CASE n # 0
    <2>1. n \in 1 .. Depth
      BY <1>2, BoundsAssumption DEF Depth
    <2>2. QED
      BY <2>1, ConditionIs
  <1>3. QED
    BY <1>1, <1>2

LEMMA InitConditions == ConditionsInit => ConditionsInv
  <1> SUFFICES ASSUME ConditionsInit PROVE ConditionsInv
    OBVIOUS
  <1>1. 0 \in 0 .. MaxNests
    BY BoundsAssumption
  <1>2. \A op \in LogicOperator : SqlCondition(op) \in Object(Condition[0])
    BY DEF SqlCondition, Object
  <1>3. "And" \in LogicOperator /\ "Or" \in LogicOperator
    BY DEF LogicOperator
  <1>4. QED
    BY <1>1, <1>2, <1>3 DEF ConditionsInit, ConditionsInv

\* A condition is added behind the sub-conditions an object has.
LEMMA AddedObject ==
    ASSUME NEW S, NEW o \in Object(S), NEW c \in S
    PROVE  [o EXCEPT !.subs = Append(@, c)] \in Object(S)
  <1>1. o.subs \in Seq(S)
    BY DEF Object
  <1>2. Append(o.subs, c) \in Seq(S)
    BY <1>1
  <1> DEFINE subs == Append(o.subs, c)
  <1> HIDE DEF subs
  <1>3. [o EXCEPT !.subs = subs] \in Object(S)
    BY <1>2 DEF Object, subs
  <1>4. QED
    BY <1>3 DEF subs

LEMMA NextConditions ==
    "empty" \notin Ops => (ConditionsInv /\ [ConditionsNext]_conditionVars => ConditionsInv')
  <1> SUFFICES ASSUME "empty" \notin Ops, ConditionsInv, [ConditionsNext]_conditionVars
               PROVE  ConditionsInv'
    OBVIOUS
  <1> DEFINE C == Condition[nests]
  <1>1. nests \in 0 .. MaxNests /\ conds \in [Name -> Object(C)]
    BY DEF ConditionsInv
  <1>2. LeafCondition \subseteq C
    <2>1. nests \in 0 .. Depth
      BY <1>1, BoundsAssumption DEF Depth
    <2>2. QED
      BY <2>1, LeafWithin
  <1>3. Leaves(TRUE) \subseteq LeafCondition /\ Leaves(FALSE) \subseteq LeafCondition
    BY DEF LeafCondition
  <1>4. CASE UNCHANGED conditionVars
    BY <1>1, <1>4 DEF conditionVars, counts, ConditionsInv
  <1>5. ASSUME NEW o \in Name, AddLeaf(o) PROVE ConditionsInv'
    <2>1. nests' = nests
      BY <1>5 DEF AddLeaf
    <2>2. PICK l \in Leaves(conds[o].sensitive) : Add(o, l)
      BY <1>5 DEF AddLeaf
    <2>3. conds[o] \in Object(C) /\ conds[o].sensitive \in BOOLEAN
      BY <1>1 DEF Object
    <2>4. l \in C
      <3>1. CASE conds[o].sensitive = TRUE
        BY <1>2, <1>3, <2>2, <3>1
      <3>2. CASE conds[o].sensitive = FALSE
        BY <1>2, <1>3, <2>2, <3>2
      <3>3. QED
        BY <2>3, <3>1, <3>2
    <2> HIDE DEF C
    <2>5. [conds[o] EXCEPT !.subs = Append(@, l)] \in Object(C)
      BY <2>3, <2>4, AddedObject
    <2>6. conds' \in [Name -> Object(C)]
      BY <1>1, <2>2, <2>5 DEF Add
    <2>7. QED
      BY <1>1, <2>1, <2>6 DEF ConditionsInv, C
  <1>6. ASSUME NEW o \in Name, NEW p \in Name, AddCondition(o, p) PROVE ConditionsInv'
    <2> DEFINE B == Condition[nests + 1]
    <2>1. /\ nests' = nests + 1 /\ nests + 1 \in 0 .. MaxNests
          /\ conds[p].subs # <<>> /\ Add(o, conds[p])
      BY <1>1, <1>6, BoundsAssumption DEF AddCondition
    <2>2. conds[p] \in B
      BY <1>1, <2>1, ObjectNests
    <2>3. C \subseteq B
      <3>1. nests \in Nat /\ nests + 1 <= Depth
        BY <1>1, BoundsAssumption DEF Depth
      <3>2. QED
        BY <3>1, ConditionGrows
    <2>4. \A n \in Name : conds[n] \in Object(B)
      <3> HIDE DEF B, C
      <3>1. Seq(C) \subseteq Seq(B)
        BY <2>3
      <3>2. Object(C) \subseteq Object(B)
        BY <3>1 DEF Object
      <3>3. QED
        BY <1>1, <3>2
    <2> HIDE DEF B
    <2> DEFINE q == conds[p]
    <2>5. q \in B /\ conds' = [conds EXCEPT ![o].subs = Append(@, q)]
      BY <2>1, <2>2 DEF Add
    <2> HIDE DEF q
    <2>6. [conds[o] EXCEPT !.subs = Append(@, q)] \in Object(B)
      <3>1. conds[o] \in Object(B)
        BY <2>4
      <3>2. QED
        BY <2>5, <3>1, AddedObject
    <2>7. conds' \in [Name -> Object(B)]
      BY <1>1, <2>4, <2>5, <2>6
    <2>8. QED
      BY <2>1, <2>7 DEF ConditionsInv, B
  <1>7. ASSUME NEW o \in Name, NEW op \in LogicOperator, SetLogicOperator(o, op) PROVE ConditionsInv'
    <2>1. nests' = nests /\ conds' = [conds EXCEPT ![o].logic = op]
      BY <1>7 DEF SetLogicOperator, counts
    <2> HIDE DEF C
    <2>2. [conds[o] EXCEPT !.logic = op] \in Object(C)
      BY <1>1 DEF Object
    <2>3. conds' \in [Name -> Object(C)]
      BY <1>1, <2>1, <2>2
    <2>4. QED
      BY <1>1, <2>1, <2>3 DEF ConditionsInv, C
  <1>8. ASSUME NEW o \in Name, NEW op \in LogicOperator, Expression(o, op) PROVE ConditionsInv'
    <2>1. nests' = nests
      BY <1>8 DEF Expression
    <2>2. PICK l1, l2 \in Leaves(TRUE) :
             conds' = [conds EXCEPT ![o] = [SqlCondition(op) EXCEPT !.subs = <<l1, l2>>]]
      BY <1>8 DEF Expression
    <2>3. l1 \in C /\ l2 \in C
      BY <1>2, <1>3
    <2> HIDE DEF C
    <2>4. [SqlCondition(op) EXCEPT !.subs = <<l1, l2>>] \in Object(C)
      <3>1. <<l1, l2>> \in Seq(C)
        BY <2>3
      <3>2. QED
        BY <3>1 DEF SqlCondition, Object
    <2>5. conds' \in [Name -> Object(C)]
      BY <1>1, <2>2, <2>4
    <2>6. QED
      BY <1>1, <2>1, <2>5 DEF ConditionsInv, C
  <1>9. ASSUME NEW o \in Name, NEW sensitive \in BOOLEAN, SetCaseSensitive(o, sensitive)
        PROVE  ConditionsInv'
    <2>1. nests' = nests /\ conds' = [conds EXCEPT ![o].sensitive = sensitive]
      BY <1>9 DEF SetCaseSensitive, counts
    <2> HIDE DEF C
    <2>2. [conds[o] EXCEPT !.sensitive = sensitive] \in Object(C)
      BY <1>1 DEF Object
    <2>3. conds' \in [Name -> Object(C)]
      BY <1>1, <2>1, <2>2
    <2>4. QED
      BY <1>1, <2>1, <2>3 DEF ConditionsInv, C
  <1>10. QED
    BY <1>4, <1>5, <1>6, <1>7, <1>8, <1>9 DEF ConditionsNext

\* What the objects have selects what was meant.
LEMMA InvMeant ==
    "lowered" \notin Ops /\ "empty" \notin Ops => (ConditionsInv => WhereMeant)
  <1> SUFFICES ASSUME "lowered" \notin Ops, "empty" \notin Ops, ConditionsInv,
                      NEW o \in Name, conds[o].subs # <<>>,
                      NEW row \in Row, NEW given \in [Placeholder -> Text]
               PROVE  LET sql == ConditionToString(conds[o], <<>>)
                          read == Selects(sql.text, row, sql.binds, given)
                      IN  read.readable /\ (read.selected <=> Meanings(row, given)[conds[o]])
    BY DEF WhereMeant
  <1> DEFINE c == conds[o]
             sql == ConditionToString(c, <<>>)
  <1>1. c \in Condition[Depth]
    <2>1. nests \in 0 .. MaxNests /\ c \in Object(Condition[nests])
      BY DEF ConditionsInv
    <2>2. c \in Condition[nests + 1]
      BY <2>1, ObjectNests
    <2>3. nests + 1 \in Nat /\ nests + 1 <= Depth
      BY <2>1, BoundsAssumption DEF Depth
    <2>4. QED
      BY <2>2, <2>3, ConditionWithin
  <1>2. PICK m : Meanings(row, given) = m[Depth] /\ AreMeanings(m, row, given)
    BY MeaningsAre
  <1>3. Depth \in 0 .. Depth /\ <<>> \in Seq(Text)
    BY BoundsAssumption DEF Depth
  <1>4. Says(Strings[Depth][c][<<>>], <<>>, m[Depth][c], row, given)
    <2> HIDE DEF c
    <2>1. \A b \in Seq(Text) : Says(Strings[Depth][c][b], b, m[Depth][c], row, given)
      BY <1>1, <1>2, <1>3, ConditionsSay
    <2>2. QED
      BY <1>3, <2>1
  <1> DEFINE v == Meanings(row, given)[c]
  <1>5. Says(sql, <<>>, v, row, given)
    BY <1>2, <1>4 DEF ConditionToString
  <1> HIDE DEF sql, v
  <1>6. sql.binds \in Seq(Text) /\ Extends(sql.binds, sql.binds) /\ v \in BOOLEAN
    BY <1>5, ExtendsSelf DEF Says
  <1>7. ReadAll(Level(FALSE, TRUE, "operand", <<>>), sql.text, row, sql.binds, given)
        = Level(FALSE, TRUE /\ v, "operator", <<>>)
    <2>1. FALSE \in BOOLEAN /\ TRUE \in BOOLEAN
      OBVIOUS
    <2>2. QED
      BY <1>5, <1>6, <2>1 DEF Says
  <1> DEFINE e == TRUE /\ v
             end == ReadAll(Opened(<<>>), sql.text, row, sql.binds, given)
  <1>8. end = Level(FALSE, e, "operator", <<>>)
    BY <1>7 DEF Opened
  <1>9. e \in BOOLEAN /\ (e <=> v)
    BY <1>6
  <1> DEFINE read == Selects(sql.text, row, sql.binds, given)
  <1> HIDE DEF e
  <1>10. read = [readable |-> end.next = "operator" /\ end.around = <<>>, selected |-> end.any \/ end.all]
    BY DEF Selects
  <1> HIDE DEF end
  <1>11. end.next = "operator" /\ end.around = <<>> /\ end.any = FALSE /\ end.all = e
    BY <1>8 DEF Level
  <1>12. read.readable = (end.next = "operator" /\ end.around = <<>>)
    BY <1>10
  <1>13. read.selected = (end.any \/ end.all)
    BY <1>10
  <1> HIDE DEF read
  <1>14. read.readable
    BY <1>11, <1>12
  <1>15. read.selected <=> v
    <2>1. read.selected = (FALSE \/ e)
      BY <1>11, <1>13
    <2>2. e = TRUE \/ e = FALSE
      BY <1>9
    <2>3. CASE e = TRUE
      BY <1>9, <2>1, <2>3
    <2>4. CASE e = FALSE
      BY <1>9, <2>1, <2>4
    <2>5. QED
      BY <2>2, <2>3, <2>4
  <1>16. QED
    BY <1>14, <1>15 DEF read, sql, v

-----------------------------------------------------------------------------
(* Theorems *)

\* The sub-conditions of every object are leaves and conditions that were
\* nested with sub-conditions of their own.
THEOREM ConditionsInvariant == "empty" \notin Ops => (ConditionsSpec => []ConditionsInv)
  <1>1. ASSUME "empty" \notin Ops PROVE ConditionsSpec => []ConditionsInv
    BY <1>1, InitConditions, NextConditions, PTL DEF ConditionsSpec
  <1>2. QED
    BY <1>1

\* A WHERE clause is readable and selects the rows its conditions describe,
\* however they are nested and combined, whatever is compared and bound, if no
\* condition without sub-conditions is nested and none with a placeholder or a
\* column is added while case is ignored.
THEOREM ClausesMeant ==
    Ops \cap {"empty", "lowered"} = {} => (ConditionsSpec => []WhereMeant)
  <1>1. ASSUME Ops \cap {"empty", "lowered"} = {} PROVE ConditionsSpec => []WhereMeant
    <2>1. "empty" \notin Ops /\ "lowered" \notin Ops
      BY <1>1
    <2>2. QED
      BY <2>1, ConditionsInvariant, InvMeant, PTL
  <1>2. QED
    BY <1>1
=============================================================================
