--------------------------- MODULE DeploymentProofs ---------------------------
(***************************************************************************)
(* Proofs about Deployment, for every schema and all its versions, every   *)
(* set of deployers, all modes and every bound on faults.                  *)
(***************************************************************************)
EXTENDS Deployment, WellFoundedInduction, TLAPS

-----------------------------------------------------------------------------
(* The inductive invariants *)

\* The names of tables and columns.
Names == {t.name : t \in Declared} \cup UNION {{c.name : c \in ToSet(t.columns)} : t \in Declared}

\* The types of the variables.
TypeOK ==
    /\ db = [columns |-> db.columns, uniques |-> db.uniques, rules |-> db.rules,
             grants |-> db.grants, triggers |-> db.triggers]
    /\ run \in [Deployer -> [version : Version \cup {0}, missing : BOOLEAN, step : Nat,
                             known : SUBSET Names, disturbed : BOOLEAN]]
    /\ newest \in Version
    /\ deployed \in Version \cup {0}

\* Every column there is is one that some version declares.
ColumnsKnown ==
    \A d \in db.columns : \E t \in Declared : \E c \in ToSet(t.columns) :
        d = DbColumn(t.name, ColumnStatement(c))

\* Who runs is at a statement of a version that is not the future's.
RunsOK ==
    \A d \in Deployer : run[d] # Idle =>
        /\ run[d].version \in 1 .. newest
        /\ run[d].step \in 1 .. Len(Program[run[d].version])

\* The rules before a deployer's statement are in place.
RulesDone ==
    \A d \in Deployer : run[d] # Idle =>
        \A k \in 1 .. run[d].step - 1 :
            LET s == Program[run[d].version][k]
            IN  s.cmd = "rule" => <<s.table, s.what>> \in db.rules

\* A right of users was granted by a version deployed so far, behind its rule.
GrantsKnown ==
    \A n \in Names, r \in Rights :
        <<"user", n, r>> \in db.grants =>
            \E v \in 1 .. newest : \E t \in ToSet(Schema[v]) :
                /\ t.name = n /\ r \in UserRights(t)
                /\ r = "SELECT" \/ t.isLookup \/ t.isRelation \/ <<n, r>> \in db.rules

\* The inductive invariant of what users may do, and of who hears of it.
RightsInv == TypeOK /\ ColumnsKnown /\ RunsOK /\ RulesDone /\ GrantsKnown

\* A table that is there has its constraints.
UniquesKept ==
    \A t \in Declared : t.name \in TableNames => {t.name} \X t.constraints \subseteq db.uniques

\* The columns of a table in database b.
ColumnsThere(b, t) == {c.name : c \in {c \in b.columns : c.table = t}}

\* What a deployer knows was there and is: tables, or columns of its table.
KnownThere ==
    \A d \in Deployer : run[d] # Idle =>
        /\ Statement(d).cmd = "table" => run[d].known \subseteq Existing(run[d].missing)
        /\ Statement(d).cmd = "column" /\ run[d].missing =>
              run[d].known \subseteq ColumnsThere(db, Statement(d).table)

\* What statement s of a deployment, executed or left out, stands for is in
\* database b.
InPlace(b, s, missing) ==
    /\ s.cmd = "table" => /\ {s.table} \X s.what.constraints \subseteq b.uniques
                          /\ ~missing => DbColumns(s) \subseteq b.columns
    /\ s.cmd = "column" /\ missing => DbColumn(s.table, s.what) \in b.columns
    /\ s.cmd = "user" => {"user"} \X {s.table} \X s.what \subseteq b.grants

\* What stands before a deployer's statement is in place.
StepsDone ==
    \A d \in Deployer : run[d] # Idle =>
        \A k \in 1 .. run[d].step - 1 : InPlace(db, Program[run[d].version][k], run[d].missing)

\* A deployer is between the drop of the trigger of statement s and its creation.
Recreates(e, s) ==
    /\ run[e] # Idle
    /\ Statement(e).cmd \in {"drop", "create"}
    /\ Statement(e).table = s.table /\ Statement(e).what = s.what

\* A trigger of statement s is there, or somebody is about to create it.
Guarded(s) ==
    <<s.table, s.what>> \in db.triggers \/ \E e \in Deployer : Recreates(e, s)

\* Triggers whose creation stands before a deployer's statement are there or
\* about to be, unless another deployer ended in the middle.
TriggersDone ==
    \A d \in Deployer : run[d] # Idle /\ ~run[d].disturbed =>
        \A k \in 1 .. run[d].step - 1 :
            Program[run[d].version][k].cmd = "create" => Guarded(Program[run[d].version][k])

\* What is complete stays so: nobody runs.
Quiet == deployed # 0 => \A d \in Deployer : run[d] = Idle

\* The inductive invariant of complete deployments.
DeployInv ==
    RightsInv /\ UniquesKept /\ KnownThere /\ StepsDone /\ TriggersDone /\ Quiet /\ Deployed

-----------------------------------------------------------------------------
(* Sequences that are joined *)

\* Induction over natural numbers, for a set.
LEMMA SetInduction ==
    ASSUME NEW T, 0 \in T, \A n \in Nat : n \in T => n + 1 \in T
    PROVE  \A n \in Nat : n \in T
  <1> DEFINE U == {n \in Nat : n \notin T}
  <1> SUFFICES ASSUME U # {} PROVE FALSE
    OBVIOUS
  <1>1. PICK x \in U : \A y \in U : ~ (<<y, x>> \in OpToRel(<, Nat))
    BY NatLessThanWellFounded, WFMin
  <1>2. x \in Nat /\ x # 0
    OBVIOUS
  <1>3. x - 1 \in Nat /\ <<x - 1, x>> \in OpToRel(<, Nat)
    BY <1>2 DEF OpToRel
  <1>4. x - 1 \in T
    BY <1>1, <1>3
  <1>5. x - 1 + 1 \in T
    BY <1>3, <1>4
  <1>6. QED
    BY <1>2, <1>5

\* Sequences that may be joined, and how FlattenSeq joins them: each of the
\* values it recurses by is the one before and a sequence more.
Closed(G) == \A p, q \in G : p \o q \in G

Flattens(ss, G) ==
    \E f \in [1 .. Len(ss) -> G] :
       /\ FlattenSeq(ss) = f[Len(ss)]
       /\ \A i \in 1 .. Len(ss) : f[i] = IF i = 1 THEN ss[i] ELSE f[i - 1] \o ss[i]

LEMMA FlattenFunction ==
    ASSUME NEW G, Closed(G), NEW ss \in Seq(G), ss # <<>>
    PROVE  Flattens(ss, G)
  <1> USE DEF Closed
  <1> DEFINE N == Len(ss)
             F(n) == [1 .. n -> G]
             Is(f, n) == \A i \in 1 .. n : f[i] = IF i = 1 THEN ss[i] ELSE f[i - 1] \o ss[i]
             T == {n \in Nat : n <= N => \E f \in F(n) : Is(f, n)}
  <1>1. N \in Nat /\ N # 0 /\ \A i \in 1 .. N : ss[i] \in G
    OBVIOUS
  <1> HIDE DEF N
  <1>2. 0 \in T
    <2> DEFINE e == [i \in 1 .. 0 |-> <<>>]
    <2>1. e \in F(0) /\ Is(e, 0)
      OBVIOUS
    <2>2. \E f \in F(0) : Is(f, 0)
      BY <2>1
    <2>3. QED
      BY <2>2
  <1>3. ASSUME NEW n \in Nat, n \in T PROVE n + 1 \in T
    <2> SUFFICES ASSUME n + 1 <= N PROVE \E f \in F(n + 1) : Is(f, n + 1)
      BY <1>1
    <2>1. n \in Nat /\ n <= N
      BY <1>1
    <2>2. PICK f \in F(n) : Is(f, n)
      BY <1>3, <2>1
    <2> DEFINE v == IF n = 0 THEN ss[1] ELSE f[n] \o ss[n + 1]
               g == [i \in 1 .. n + 1 |-> IF i = n + 1 THEN v ELSE f[i]]
    <2>3. v \in G
      BY <2>1, <2>2, <1>1
    <2>4. g \in F(n + 1)
      BY <2>1, <2>2, <2>3
    <2>5. Is(g, n + 1)
      <3> SUFFICES ASSUME NEW i \in 1 .. n + 1
                   PROVE  g[i] = IF i = 1 THEN ss[i] ELSE g[i - 1] \o ss[i]
        OBVIOUS
      <3>1. CASE i = n + 1
        BY <2>1, <3>1
      <3>2. CASE i # n + 1
        <4>1. i \in 1 .. n /\ g[i] = f[i]
          BY <2>1, <3>2
        <4>2. i # 1 => i - 1 \in 1 .. n + 1 /\ i - 1 # n + 1 /\ g[i - 1] = f[i - 1]
          BY <2>1, <3>2
        <4>3. f[i] = IF i = 1 THEN ss[i] ELSE f[i - 1] \o ss[i]
          BY <2>2, <4>1
        <4> HIDE DEF g
        <4>4. QED
          BY <4>1, <4>2, <4>3
      <3>3. QED
        BY <3>1, <3>2
    <2>6. QED
      BY <2>4, <2>5
  <1>4. N \in T
    <2> HIDE DEF T
    <2> QED
      BY <1>1, <1>2, <1>3, SetInduction
  <1>5. PICK f \in F(N) : Is(f, N)
    BY <1>1, <1>4
  <1> DEFINE D(h) == h = [i \in 1 .. N |-> IF i = 1 THEN ss[i] ELSE h[i - 1] \o ss[i]]
             c == CHOOSE h : D(h)
  <1>6. D(f)
    BY <1>5
  <1>7. D(c)
    <2> HIDE DEF D
    <2> QED
      BY <1>6
  <1> DEFINE E(n) == IF n = 1 THEN ss[n] ELSE c[n - 1] \o ss[n]
  <1>8. c = [i \in 1 .. N |-> E(i)]
    BY <1>7
  <1>9. FlattenSeq(ss) = c[N]
    BY <1>1 DEF FlattenSeq, N
  <1> DEFINE C == {n \in Nat : n \in 1 .. N => c[n] \in G}
  <1> HIDE DEF c
  <1>10. DOMAIN c = 1 .. N /\ \A i \in 1 .. N : c[i] = E(i)
    <2> HIDE DEF E
    <2> QED
      BY <1>8
  <1>11. \A i \in 1 .. N : i # 1 => c[i] = c[i - 1] \o ss[i]
    BY <1>10
  <1>12. c = [i \in DOMAIN c |-> c[i]]
    <2> HIDE DEF E
    <2> QED
      BY <1>8
  <1>13. \A n \in Nat : n \in C
    <2>1. 0 \in C
      OBVIOUS
    <2>2. ASSUME NEW n \in Nat, n \in C PROVE n + 1 \in C
      <3> SUFFICES ASSUME n + 1 \in 1 .. N PROVE c[n + 1] \in G
        OBVIOUS
      <3>1. CASE n = 0
        <4>1. n + 1 = 1 /\ 1 \in 1 .. N /\ E(1) = ss[1] /\ ss[1] \in G
          BY <1>1, <3>1
        <4> HIDE DEF E
        <4>2. QED
          BY <1>10, <4>1
      <3>2. CASE n # 0
        <4>1. c[n] \in G
          BY <1>1, <2>2, <3>2
        <4>2. c[n + 1] = c[n] \o ss[n + 1]
          <5>1. PICK k \in 1 .. N : k = n + 1
            OBVIOUS
          <5>2. k # 1 /\ k - 1 = n
            BY <1>1, <3>2, <5>1
          <5>3. c[k] = c[k - 1] \o ss[k]
            BY <1>11, <5>2
          <5>4. c[k] = c[n] \o ss[k]
            BY <5>2, <5>3, Zenon
          <5>5. QED
            BY <5>1, <5>4
        <4>3. QED
          BY <1>1, <4>1, <4>2
      <3>3. QED
        BY <3>1, <3>2
    <2> HIDE DEF C
    <2>3. QED
      BY <2>1, <2>2, SetInduction
  <1>14. c \in F(N)
    BY <1>10, <1>12, <1>13, <1>1
  <1>15. Is(c, N)
    BY <1>10
  <1>16. QED
    BY <1>9, <1>14, <1>15 DEF N, Flattens

\* What holds of <<>>, of every part, and of two sequences joined holds of the
\* flattened sequence.
LEMMA FlattenIn ==
    ASSUME NEW G, <<>> \in G, \A p, q \in G : p \o q \in G, NEW ss \in Seq(G)
    PROVE  FlattenSeq(ss) \in G
  <1>1. CASE ss = <<>>
    BY <1>1 DEF FlattenSeq
  <1>2. CASE ss # <<>>
    <2>1. Len(ss) \in 1 .. Len(ss)
      BY <1>2
    <2>2. QED
      <3>1. Closed(G)
        BY DEF Closed
      <3>2. Flattens(ss, G)
        BY <1>2, <3>1, FlattenFunction
      <3>3. QED
        BY <2>1, <3>2 DEF Flattens
  <1>3. QED
    BY <1>1, <1>2

\* Joined sequences.
LEMMA Joined ==
    ASSUME NEW S, NEW p \in Seq(S), NEW q \in Seq(S)
    PROVE  /\ p \o q \in Seq(S) /\ Len(p \o q) = Len(p) + Len(q)
           /\ \A i \in 1 .. Len(p) : (p \o q)[i] = p[i]
           /\ \A i \in 1 .. Len(q) : (p \o q)[Len(p) + i] = q[i]
           /\ \A i \in 1 .. Len(p \o q) :
                 i \in 1 .. Len(p) \/ (i - Len(p) \in 1 .. Len(q) /\ (p \o q)[i] = q[i - Len(p)])
  OBVIOUS

Joins(p, q, r, S) ==
    /\ r \in Seq(S) /\ Len(r) = Len(p) + Len(q)
    /\ \A i \in 1 .. Len(p) : r[i] = p[i]
    /\ \A i \in 1 .. Len(q) : r[Len(p) + i] = q[i]

LEMMA JoinedElements ==
    ASSUME NEW S, NEW p \in Seq(S), NEW q \in Seq(S)
    PROVE  Joins(p, q, p \o q, S)
  BY DEF Joins

\* A sequence behind one element.
LEMMA AfterOne ==
    ASSUME NEW S, NEW p \in Seq(S), Len(p) = 1, NEW q \in Seq(S), NEW m, Len(q) = m
    PROVE  /\ p \o q \in Seq(S) /\ Len(p \o q) = m + 1 /\ (p \o q)[1] = p[1]
           /\ \A k \in 1 .. m : (p \o q)[1 + k] = q[k]
  <1>1. Joins(p, q, p \o q, S)
    BY JoinedElements
  <1>2. PICK r : r = p \o q /\ Joins(p, q, r, S)
    BY <1>1
  <1>3. Len(r) = m + 1
    <2>1. Len(q) \in Nat
      OBVIOUS
    <2>2. QED
      BY <1>2, <2>1 DEF Joins
  <1>4. r[1] = p[1]
    <2>1. 1 \in 1 .. Len(p)
      OBVIOUS
    <2>2. QED
      BY <1>2, <2>1 DEF Joins
  <1>5. \A k \in 1 .. m : r[1 + k] = q[k]
    BY <1>2 DEF Joins
  <1>6. QED
    BY <1>2, <1>3, <1>4, <1>5 DEF Joins

\* What joined sequences have.
LEMMA JoinedSet ==
    ASSUME NEW S, NEW p \in Seq(S), NEW q \in Seq(S)
    PROVE  ToSet(p \o q) = ToSet(p) \cup ToSet(q)
  <1>1. DOMAIN p = 1 .. Len(p) /\ DOMAIN q = 1 .. Len(q) /\ DOMAIN (p \o q) = 1 .. Len(p \o q)
    BY Joined
  <1>2. ASSUME NEW i \in 1 .. Len(p) PROVE p[i] \in ToSet(p \o q)
    <2>1. (p \o q)[i] = p[i] /\ i \in 1 .. Len(p \o q)
      BY Joined
    <2>2. QED
      BY <1>1, <2>1 DEF ToSet
  <1>3. ASSUME NEW i \in 1 .. Len(q) PROVE q[i] \in ToSet(p \o q)
    <2>1. (p \o q)[Len(p) + i] = q[i] /\ Len(p) + i \in 1 .. Len(p \o q)
      BY Joined
    <2>2. QED
      BY <1>1, <2>1 DEF ToSet
  <1>4. ASSUME NEW i \in 1 .. Len(p \o q) PROVE (p \o q)[i] \in ToSet(p) \cup ToSet(q)
    <2>1. CASE i \in 1 .. Len(p)
      <3>1. (p \o q)[i] = p[i]
        BY <2>1, Joined
      <3>2. QED
        BY <1>1, <2>1, <3>1 DEF ToSet
    <2>2. CASE i \notin 1 .. Len(p)
      <3>1. i - Len(p) \in 1 .. Len(q) /\ (p \o q)[i] = q[i - Len(p)]
        BY <2>2, Joined
      <3>2. QED
        BY <1>1, <3>1 DEF ToSet
    <2>3. QED
      BY <2>1, <2>2
  <1>5. QED
    BY <1>1, <1>2, <1>3, <1>4 DEF ToSet

\* A sequence of sequences is flattened step by step.
LEMMA FlattenSteps ==
    ASSUME NEW S, NEW ss \in Seq(Seq(S)), ss # <<>>
    PROVE  Flattens(ss, Seq(S))
  <1> DEFINE G == Seq(S)
  <1>1. ss \in Seq(G) /\ Closed(G)
    BY DEF Closed
  <1> HIDE DEF G
  <1>2. Flattens(ss, G)
    BY <1>1, FlattenFunction
  <1>3. QED
    BY <1>2 DEF G

\* What a part has, the flattened sequence has.
LEMMA FlattenHas ==
    ASSUME NEW S, NEW ss \in Seq(Seq(S)), NEW i \in 1 .. Len(ss), NEW x \in ToSet(ss[i])
    PROVE  x \in ToSet(FlattenSeq(ss))
  <1>1. ss # <<>> /\ Len(ss) \in Nat /\ i \in Nat /\ i # 0
    OBVIOUS
  <1>2. PICK f \in [1 .. Len(ss) -> Seq(S)] :
              /\ FlattenSeq(ss) = f[Len(ss)]
              /\ \A j \in 1 .. Len(ss) : f[j] = IF j = 1 THEN ss[j] ELSE f[j - 1] \o ss[j]
    <2>1. Flattens(ss, Seq(S))
      BY <1>1, FlattenSteps
    <2>2. QED
      BY <2>1 DEF Flattens
  <1>3. \A j \in 2 .. Len(ss) : ToSet(f[j]) = ToSet(f[j - 1]) \cup ToSet(ss[j])
    <2> TAKE j \in 2 .. Len(ss)
    <2>1. j \in 1 .. Len(ss) /\ j # 1 /\ j - 1 \in 1 .. Len(ss)
      BY <1>1
    <2>2. f[j] = f[j - 1] \o ss[j] /\ f[j - 1] \in Seq(S) /\ ss[j] \in Seq(S)
      <3>1. f[j] = f[j - 1] \o ss[j]
        BY <1>2, <2>1
      <3>2. f[j - 1] \in Seq(S)
        BY <2>1
      <3>3. QED
        BY <2>1, <3>1, <3>2
    <2>3. QED
      BY <2>2, JoinedSet
  <1> DEFINE T == {n \in Nat : n \in i .. Len(ss) => x \in ToSet(f[n])}
  <1>4. 0 \in T
    BY <1>1
  <1>5. ASSUME NEW n \in Nat, n \in T PROVE n + 1 \in T
    <2> SUFFICES ASSUME n + 1 \in i .. Len(ss) PROVE x \in ToSet(f[n + 1])
      OBVIOUS
    <2>1. PICK k \in Nat : k = n + 1
      OBVIOUS
    <2>2. CASE k = 1
      <3>1. k = i /\ k \in 1 .. Len(ss)
        BY <1>1, <2>1, <2>2
      <3>2. f[k] = ss[k]
        BY <1>2, <2>2, <3>1
      <3>3. QED
        BY <2>1, <3>1, <3>2
    <2>3. CASE k # 1
      <3>1. k \in 2 .. Len(ss) /\ k - 1 = n
        BY <1>1, <2>1, <2>3
      <3>2. ToSet(f[k]) = ToSet(f[n]) \cup ToSet(ss[k])
        BY <1>3, <3>1
      <3>3. n \in i .. Len(ss) \/ k = i
        BY <1>1, <3>1
      <3>4. QED
        BY <1>5, <2>1, <3>2, <3>3
    <2>4. QED
      BY <2>2, <2>3
  <1>6. \A n \in Nat : n \in T
    <2> HIDE DEF T
    <2> QED
      BY <1>4, <1>5, SetInduction
  <1>7. Len(ss) \in i .. Len(ss)
    BY <1>1
  <1>8. QED
    BY <1>1, <1>2, <1>6, <1>7

\* What only the first of two joined sequences has comes before what only
\* the second has.
LEMMA Precedes ==
    ASSUME NEW S, NEW p \in Seq(S), NEW q \in Seq(S), NEW k \in 1 .. Len(p \o q),
           (p \o q)[k] \notin ToSet(p), NEW x \in ToSet(p)
    PROVE  \E j \in 1 .. k - 1 : (p \o q)[j] = x
  <1>1. PICK j \in 1 .. Len(p) : p[j] = x
    BY DEF ToSet
  <1>2. (p \o q)[j] = x
    BY <1>1, Joined
  <1>3. k \notin 1 .. Len(p)
    BY Joined DEF ToSet
  <1>4. j \in 1 .. k - 1
    BY <1>3, Joined
  <1>5. QED
    BY <1>2, <1>4

-----------------------------------------------------------------------------
(* The statements of a program *)

\* The operations that users may be allowed on rows.
Operations == {"INSERT", "UPDATE", "DELETE"}

\* The statements about tables T, part by part.
Creating(T) == {Command("table", t, CreateTableStatement(t)) : t \in T}
Reading(T)  == {Command("read", t, {}) : t \in T}
Adding(T)   == UNION {{Command("column", t, ColumnStatement(c)) : c \in ToSet(t.columns)} : t \in T}
Ruling(T)   == {Command("rule", t, r) : t \in T, r \in Operations}
                 \cup UNION {{Command("rule", t, c.name) : c \in ToSet(t.columns)} : t \in T}
Granting(T) == {Command("admin", t, Rights) : t \in T} \cup {Command("user", t, UserRights(t)) : t \in T}
Guarding(T) ==
    UNION {{Command(x, t, c.name) : x \in {"drop", "create"}, c \in ToSet(t.columns)} : t \in T}

Statements(T) ==
    Creating(T) \cup Reading(T) \cup Adding(T) \cup Ruling(T) \cup Granting(T) \cup Guarding(T)

\* A sequence of statements where a column is added behind the read of its table's columns.
Reads(s, k) ==
    \E j \in 1 .. k - 1 :
        /\ s[j].cmd = "read"
        /\ \A m \in j .. k : s[m].table = s[k].table /\ (m # j => s[m].cmd = "column")
ReadFirst(S) == {s \in Seq(S) : \A k \in 1 .. Len(s) : s[k].cmd = "column" => Reads(s, k)}

\* A sequence where a trigger that is dropped is created by the next statement.
Recreated(S) ==
    {s \in Seq(S) : \A k \in 1 .. Len(s) : s[k].cmd = "drop" =>
        /\ k + 1 \in 1 .. Len(s) /\ s[k + 1].cmd = "create"
        /\ s[k + 1].table = s[k].table /\ s[k + 1].what = s[k].what}

\* What a statement is about.
LEMMA CommandOf ==
    ASSUME NEW c, NEW t, NEW what
    PROVE  /\ Command(c, t, what).cmd = c /\ Command(c, t, what).table = t.name
           /\ Command(c, t, what).what = what
  BY DEF Command

\* What the assumption about the schema says of a version.
LEMMA SchemaFacts ==
    /\ Version = 1 .. Len(Schema) /\ Len(Schema) \in Nat \ {0}
    /\ \A v \in Version :
          /\ Schema[v] \in Seq(ToSet(Schema[v])) /\ Schema[v] # <<>>
          /\ ToSet(Schema[v]) \subseteq Declared
    /\ \A t \in Declared : \E v \in Version : t \in ToSet(Schema[v])
    /\ \A t \in Declared : t.columns \in Seq(ToSet(t.columns))
  <1>1. Version = 1 .. Len(Schema) /\ Len(Schema) \in Nat \ {0}
    BY SchemaAssumption DEF Version
  <1>2. ASSUME NEW v \in Version
        PROVE  /\ Schema[v] \in Seq(ToSet(Schema[v])) /\ Schema[v] # <<>>
               /\ ToSet(Schema[v]) \subseteq Declared
    <2>1. Schema[v] \in Seq(Declared)
      BY <1>1, SchemaAssumption
    <2>2. Schema[v] \in Seq(ToSet(Schema[v]))
      BY <2>1 DEF ToSet
    <2>3. QED
      BY <2>2, SchemaAssumption DEF Declared, Version
  <1>3. QED
    BY <1>1, <1>2, SchemaAssumption DEF Declared, Version

\* The statements of a list of tables, or of columns: each one's are among them.
LEMMA Parts ==
    ASSUME NEW S, NEW ss \in Seq(Seq(S))
    PROVE  /\ FlattenSeq(ss) \in Seq(S)
           /\ \A i \in DOMAIN ss : ToSet(ss[i]) \subseteq ToSet(FlattenSeq(ss))
  <1>1. <<>> \in Seq(S) /\ \A p, q \in Seq(S) : p \o q \in Seq(S)
    OBVIOUS
  <1>2. FlattenSeq(ss) \in Seq(S)
    BY <1>1, FlattenIn
  <1>3. DOMAIN ss = 1 .. Len(ss)
    OBVIOUS
  <1>4. QED
    BY <1>2, <1>3, FlattenHas

\* What a column's statement needs is not disturbed by statements before or after.
LEMMA ReadFirstJoined ==
    ASSUME NEW S, NEW p \in ReadFirst(S), NEW q \in ReadFirst(S)
    PROVE  p \o q \in ReadFirst(S)
  <1> DEFINE r == p \o q
  <1>1. p \in Seq(S) /\ q \in Seq(S) /\ Len(p) \in Nat /\ Len(q) \in Nat
    BY DEF ReadFirst
  <1>2. /\ r \in Seq(S) /\ Len(r) = Len(p) + Len(q)
        /\ \A i \in 1 .. Len(p) : r[i] = p[i]
        /\ \A i \in 1 .. Len(q) : r[Len(p) + i] = q[i]
    BY <1>1, Joined
  <1> HIDE DEF r
  <1>3. ASSUME NEW k \in 1 .. Len(r), r[k].cmd = "column" PROVE Reads(r, k)
    <2>1. CASE k \in 1 .. Len(p)
      <3>1. Reads(p, k)
        BY <1>2, <1>3, <2>1 DEF ReadFirst
      <3>2. \A j \in 1 .. k : r[j] = p[j]
        BY <1>1, <1>2, <2>1
      <3>3. PICK j \in 1 .. k - 1 :
                  /\ p[j].cmd = "read"
                  /\ \A m \in j .. k : p[m].table = p[k].table /\ (m # j => p[m].cmd = "column")
        BY <3>1 DEF Reads
      <3>4. \A m \in j .. k : m \in 1 .. k
        BY <2>1
      <3>5. j \in 1 .. k /\ k \in 1 .. k
        BY <2>1
      <3>6. QED
        BY <3>2, <3>3, <3>4, <3>5 DEF Reads
    <2>2. CASE k \notin 1 .. Len(p)
      <3>1. PICK i \in 1 .. Len(q) : k = Len(p) + i
        <4>1. k - Len(p) \in 1 .. Len(q) /\ k = Len(p) + (k - Len(p))
          BY <1>1, <1>2, <2>2
        <4>2. QED
          BY <4>1
      <3>2. Reads(q, i)
        BY <1>2, <1>3, <3>1 DEF ReadFirst
      <3>3. PICK j \in 1 .. i - 1 :
                  /\ q[j].cmd = "read"
                  /\ \A m \in j .. i : q[m].table = q[i].table /\ (m # j => q[m].cmd = "column")
        BY <3>2 DEF Reads
      <3>4. \A m \in j .. i : r[Len(p) + m] = q[m]
        BY <1>1, <1>2, <3>1
      <3>5. Len(p) + j \in 1 .. k - 1 /\ j \in j .. i /\ i \in j .. i
        BY <1>1, <3>1
      <3>6. \A x \in Len(p) + j .. k : \E m \in j .. i : x = Len(p) + m
        <4> TAKE x \in Len(p) + j .. k
        <4>1. x - Len(p) \in j .. i /\ x = Len(p) + (x - Len(p))
          BY <1>1, <3>1
        <4>2. QED
          BY <4>1
      <3>7. \A x \in Len(p) + j .. k : r[x].table = r[k].table /\ (x # Len(p) + j => r[x].cmd = "column")
        <4> TAKE x \in Len(p) + j .. k
        <4>1. PICK m \in j .. i : x = Len(p) + m
          BY <3>6
        <4>2. r[x] = q[m] /\ r[k] = q[i] /\ (x # Len(p) + j => m # j)
          BY <3>1, <3>4, <3>5, <4>1
        <4>3. QED
          BY <3>3, <4>2
      <3>8. r[Len(p) + j].cmd = "read"
        BY <3>3, <3>4, <3>5
      <3>9. QED
        BY <3>5, <3>7, <3>8 DEF Reads
    <2>3. QED
      BY <2>1, <2>2
  <1>4. QED
    BY <1>2, <1>3 DEF ReadFirst, r

\* CREATE TABLE of every table.
LEMMA CreatingPart ==
    ASSUME NEW v \in Version
    PROVE  /\ ForEach(Schema[v], CreateTable) \in Seq(Creating(ToSet(Schema[v])))
           /\ \A t \in ToSet(Schema[v]) :
                 Command("table", t, CreateTableStatement(t)) \in ToSet(ForEach(Schema[v], CreateTable))
  <1> DEFINE T == ToSet(Schema[v])
             S == Creating(T)
             ss == [i \in DOMAIN Schema[v] |-> CreateTable(Schema[v][i])]
  <1>1. ASSUME NEW t \in T
        PROVE  /\ CreateTable(t) \in Seq(S)
               /\ Command("table", t, CreateTableStatement(t)) \in ToSet(CreateTable(t))
    BY DEF CreateTable, Creating, ToSet
  <1>2. Schema[v] \in Seq(T) /\ T = {Schema[v][i] : i \in DOMAIN Schema[v]}
    BY SchemaFacts DEF ToSet
  <1>3. /\ ss \in Seq(Seq(S))
        /\ DOMAIN ss = DOMAIN Schema[v]
        /\ \A i \in DOMAIN Schema[v] : ss[i] = CreateTable(Schema[v][i])
    BY <1>1, <1>2
  <1>4. ForEach(Schema[v], CreateTable) = FlattenSeq(ss)
    BY DEF ForEach
  <1> HIDE DEF ss, S
  <1>5. FlattenSeq(ss) \in Seq(S) /\ \A i \in DOMAIN ss : ToSet(ss[i]) \subseteq ToSet(FlattenSeq(ss))
    BY <1>3, Parts
  <1>6. QED
    BY <1>1, <1>2, <1>3, <1>4, <1>5 DEF S

\* The columns of one table.

\* The columns of one table.
LEMMA MissingColumns ==
    ASSUME NEW T, NEW t \in Declared, t \in T
    PROVE  /\ CreateMissingColumns(t) \in ReadFirst(Reading(T) \cup Adding(T))
           /\ Command("read", t, {}) \in ToSet(CreateMissingColumns(t))
           /\ \A c \in ToSet(t.columns) :
                 Command("column", t, ColumnStatement(c)) \in ToSet(CreateMissingColumns(t))
  <1> DEFINE S == Reading(T) \cup Adding(T)
             m == Len(t.columns)
             a == <<Command("read", t, {})>>
             b == [k \in 1 .. m |-> Command("column", t, ColumnStatement(t.columns[k]))]
             s == a \o b
  <1>1. t.columns \in Seq(ToSet(t.columns))
    BY SchemaFacts
  <1>2. m \in Nat /\ DOMAIN t.columns = 1 .. m
    BY <1>1
  <1>3. ToSet(t.columns) = {t.columns[k] : k \in 1 .. m}
    BY <1>2 DEF ToSet
  <1>4. \A k \in 1 .. m : Command("column", t, ColumnStatement(t.columns[k])) \in S
    BY <1>3 DEF Adding
  <1>5. Command("read", t, {}) \in S
    BY DEF Reading
  <1>6. a \in Seq(S) /\ Len(a) = 1 /\ a[1] = Command("read", t, {})
    BY <1>5
  <1>7. b \in Seq(S) /\ Len(b) = m
    BY <1>2, <1>4
  <1>8. \A k \in 1 .. m : b[k] = Command("column", t, ColumnStatement(t.columns[k]))
    OBVIOUS
  <1>9. CreateMissingColumns(t) = s
    BY <1>2 DEF CreateMissingColumns
  <1> HIDE DEF a, b, S
  <1>10. /\ s \in Seq(S) /\ Len(s) = m + 1 /\ s[1] = a[1]
         /\ \A k \in 1 .. m : s[1 + k] = b[k]
    <2> HIDE DEF m
    <2>1. QED
      BY <1>6, <1>7, AfterOne
  <1> HIDE DEF s
  <1>11. \A k \in 2 .. m + 1 : s[k] = Command("column", t, ColumnStatement(t.columns[k - 1]))
    <2> TAKE k \in 2 .. m + 1
    <2>1. k - 1 \in 1 .. m /\ 1 + (k - 1) = k
      BY <1>2
    <2>2. QED
      BY <1>8, <1>10, <2>1
  <1> HIDE DEF m
  <1>12. s[1].cmd = "read" /\ s[1].table = t.name
    BY <1>6, <1>10, CommandOf
  <1>13. \A k \in 2 .. m + 1 : s[k].cmd = "column" /\ s[k].table = t.name
    BY <1>11, CommandOf
  <1>14. ASSUME NEW k \in 1 .. Len(s), s[k].cmd = "column" PROVE Reads(s, k)
    <2>1. k # 1
      BY <1>12, <1>14
    <2>2. 1 \in 1 .. k - 1 /\ \A x \in 1 .. k : x # 1 => x \in 2 .. m + 1
      BY <1>2, <1>10, <2>1
    <2>3. k \in 2 .. m + 1
      BY <1>2, <1>10, <2>1
    <2>4. QED
      BY <1>12, <1>13, <2>2, <2>3 DEF Reads
  <1>15. s \in ReadFirst(S)
    BY <1>10, <1>14 DEF ReadFirst
  <1>16. Command("read", t, {}) \in ToSet(s)
    <2>1. 1 \in DOMAIN s
      BY <1>2, <1>10
    <2>2. QED
      BY <1>6, <1>10, <2>1 DEF ToSet
  <1>17. ASSUME NEW c \in ToSet(t.columns) PROVE Command("column", t, ColumnStatement(c)) \in ToSet(s)
    <2>1. PICK k \in 1 .. m : c = t.columns[k]
      BY <1>3
    <2>2. 1 + k \in DOMAIN s
      BY <1>2, <1>10
    <2>3. s[1 + k] = Command("column", t, ColumnStatement(c))
      BY <1>8, <1>10, <2>1
    <2>4. QED
      BY <2>2, <2>3 DEF ToSet
  <1>18. QED
    BY <1>9, <1>15, <1>16, <1>17 DEF S

\* The columns of every table.
LEMMA AddingPart ==
    ASSUME NEW v \in Version
    PROVE  /\ ForEach(Schema[v], CreateMissingColumns)
                 \in ReadFirst(Reading(ToSet(Schema[v])) \cup Adding(ToSet(Schema[v])))
           /\ \A t \in ToSet(Schema[v]) :
                 /\ Command("read", t, {}) \in ToSet(ForEach(Schema[v], CreateMissingColumns))
                 /\ \A c \in ToSet(t.columns) :
                       Command("column", t, ColumnStatement(c))
                          \in ToSet(ForEach(Schema[v], CreateMissingColumns))
  <1> DEFINE T == ToSet(Schema[v])
             S == Reading(T) \cup Adding(T)
             ss == [i \in DOMAIN Schema[v] |-> CreateMissingColumns(Schema[v][i])]
  <1>1. ASSUME NEW t \in T
        PROVE  /\ CreateMissingColumns(t) \in ReadFirst(S)
               /\ Command("read", t, {}) \in ToSet(CreateMissingColumns(t))
               /\ \A c \in ToSet(t.columns) :
                     Command("column", t, ColumnStatement(c)) \in ToSet(CreateMissingColumns(t))
    BY SchemaFacts, MissingColumns
  <1>2. Schema[v] \in Seq(T) /\ T = {Schema[v][i] : i \in DOMAIN Schema[v]}
    BY SchemaFacts DEF ToSet
  <1>3. /\ ss \in Seq(ReadFirst(S))
        /\ DOMAIN ss = DOMAIN Schema[v]
        /\ \A i \in DOMAIN Schema[v] : ss[i] = CreateMissingColumns(Schema[v][i])
    <2> HIDE DEF S
    <2>1. DOMAIN Schema[v] = 1 .. Len(Schema[v]) /\ Len(Schema[v]) \in Nat
      BY <1>2
    <2>2. \A i \in DOMAIN Schema[v] : CreateMissingColumns(Schema[v][i]) \in ReadFirst(S)
      BY <1>1, <1>2
    <2>3. QED
      BY <2>1, <2>2
  <1>4. ForEach(Schema[v], CreateMissingColumns) = FlattenSeq(ss)
    BY DEF ForEach
  <1> HIDE DEF ss, S
  <1>5. ReadFirst(S) \subseteq Seq(S) /\ <<>> \in ReadFirst(S)
    BY DEF ReadFirst
  <1>6. \A p, q \in ReadFirst(S) : p \o q \in ReadFirst(S)
    BY ReadFirstJoined
  <1>7. FlattenSeq(ss) \in ReadFirst(S)
    BY <1>3, <1>5, <1>6, FlattenIn
  <1>8. ss \in Seq(Seq(S))
    BY <1>3, <1>5
  <1>9. \A i \in DOMAIN ss : ToSet(ss[i]) \subseteq ToSet(FlattenSeq(ss))
    BY <1>8, Parts
  <1>10. QED
    BY <1>1, <1>2, <1>3, <1>4, <1>7, <1>9 DEF S

\* Rules for the changes of tables.

\* Rules for the changes of every table.
LEMMA TableRulesPart ==
    ASSUME NEW v \in Version
    PROVE  /\ ForEach(Schema[v], TableRules) \in Seq(Ruling(ToSet(Schema[v])))
           /\ \A t \in ToSet(Schema[v]), r \in Operations :
                 ~t.isLookup /\ ~t.isRelation =>
                    Command("rule", t, r) \in ToSet(ForEach(Schema[v], TableRules))
  <1> DEFINE T == ToSet(Schema[v])
             S == Ruling(T)
             ss == [i \in DOMAIN Schema[v] |-> TableRules(Schema[v][i])]
  <1>1. ASSUME NEW t \in T
        PROVE  /\ TableRules(t) \in Seq(S)
               /\ \A r \in Operations :
                     ~t.isLookup /\ ~t.isRelation => Command("rule", t, r) \in ToSet(TableRules(t))
    <2>1. CASE t.isLookup \/ t.isRelation
      <3>1. TableRules(t) = <<>>
        BY <2>1 DEF TableRules
      <3>2. QED
        BY <2>1, <3>1
    <2>2. CASE ~(t.isLookup \/ t.isRelation)
      <3> DEFINE s == <<Command("rule", t, "INSERT"), Command("rule", t, "UPDATE"), Command("rule", t, "DELETE")>>
      <3>1. TableRules(t) = s
        BY <2>2 DEF TableRules
      <3>2. s \in Seq(S)
        BY DEF Ruling, Operations
      <3>3. \A r \in Operations : \E i \in DOMAIN s : s[i] = Command("rule", t, r)
        BY DEF Operations
      <3> HIDE DEF s
      <3>4. QED
        BY <3>1, <3>2, <3>3 DEF ToSet
    <2>3. QED
      BY <2>1, <2>2
  <1>2. Schema[v] \in Seq(T) /\ T = {Schema[v][i] : i \in DOMAIN Schema[v]}
    BY SchemaFacts DEF ToSet
  <1>3. /\ ss \in Seq(Seq(S))
        /\ DOMAIN ss = DOMAIN Schema[v]
        /\ \A i \in DOMAIN Schema[v] : ss[i] = TableRules(Schema[v][i])
    BY <1>1, <1>2
  <1>4. ForEach(Schema[v], TableRules) = FlattenSeq(ss)
    BY DEF ForEach
  <1> HIDE DEF ss, S
  <1>5. FlattenSeq(ss) \in Seq(S) /\ \A i \in DOMAIN ss : ToSet(ss[i]) \subseteq ToSet(FlattenSeq(ss))
    BY <1>3, Parts
  <1>6. QED
    BY <1>1, <1>2, <1>3, <1>4, <1>5 DEF S

\* Rules for the columns of one table that notify.

\* Rules for the columns of one table that notify.
LEMMA RulesOfColumns ==
    ASSUME NEW T, NEW t \in Declared, t \in T
    PROVE  /\ ColumnRules(t) \in Seq(Ruling(T))
           /\ \A c \in ToSet(t.columns) :
                 "Notify" \in c.flags => Command("rule", t, c.name) \in ToSet(ColumnRules(t))
  <1> DEFINE C == ToSet(t.columns)
             S == Ruling(T)
             ss == [i \in DOMAIN t.columns |-> ColumnRule(t, t.columns[i])]
  <1>1. ASSUME NEW c \in C
        PROVE  /\ ColumnRule(t, c) \in Seq(S)
               /\ "Notify" \in c.flags => Command("rule", t, c.name) \in ToSet(ColumnRule(t, c))
    <2>1. Command("rule", t, c.name) \in S
      BY DEF Ruling
    <2> HIDE DEF S
    <2>2. QED
      BY <2>1 DEF ColumnRule, ToSet
  <1>2. t.columns \in Seq(C) /\ C = {t.columns[i] : i \in DOMAIN t.columns}
    BY SchemaFacts DEF ToSet
  <1>3. /\ ss \in Seq(Seq(S))
        /\ DOMAIN ss = DOMAIN t.columns
        /\ \A i \in DOMAIN t.columns : ss[i] = ColumnRule(t, t.columns[i])
    BY <1>1, <1>2
  <1>4. ColumnRules(t) = FlattenSeq(ss)
    BY DEF ColumnRules, PerColumn
  <1> HIDE DEF ss, S
  <1>5. FlattenSeq(ss) \in Seq(S) /\ \A i \in DOMAIN ss : ToSet(ss[i]) \subseteq ToSet(FlattenSeq(ss))
    BY <1>3, Parts
  <1>6. QED
    BY <1>1, <1>2, <1>3, <1>4, <1>5 DEF S

\* Rules for the columns of every table.
LEMMA ColumnRulesPart ==
    ASSUME NEW v \in Version
    PROVE  /\ ForEach(Schema[v], ColumnRules) \in Seq(Ruling(ToSet(Schema[v])))
           /\ \A t \in ToSet(Schema[v]) : \A c \in ToSet(t.columns) :
                 "Notify" \in c.flags =>
                    Command("rule", t, c.name) \in ToSet(ForEach(Schema[v], ColumnRules))
  <1> DEFINE T == ToSet(Schema[v])
             S == Ruling(T)
             ss == [i \in DOMAIN Schema[v] |-> ColumnRules(Schema[v][i])]
  <1>1. ASSUME NEW t \in T
        PROVE  /\ ColumnRules(t) \in Seq(S)
               /\ \A c \in ToSet(t.columns) :
                     "Notify" \in c.flags => Command("rule", t, c.name) \in ToSet(ColumnRules(t))
    BY SchemaFacts, RulesOfColumns
  <1>2. Schema[v] \in Seq(T) /\ T = {Schema[v][i] : i \in DOMAIN Schema[v]}
    BY SchemaFacts DEF ToSet
  <1>3. /\ ss \in Seq(Seq(S))
        /\ DOMAIN ss = DOMAIN Schema[v]
        /\ \A i \in DOMAIN Schema[v] : ss[i] = ColumnRules(Schema[v][i])
    BY <1>1, <1>2
  <1>4. ForEach(Schema[v], ColumnRules) = FlattenSeq(ss)
    BY DEF ForEach
  <1> HIDE DEF ss, S
  <1>5. FlattenSeq(ss) \in Seq(S) /\ \A i \in DOMAIN ss : ToSet(ss[i]) \subseteq ToSet(FlattenSeq(ss))
    BY <1>3, Parts
  <1>6. QED
    BY <1>1, <1>2, <1>3, <1>4, <1>5 DEF S

\* The rights on every table.

\* The rights on every table.
LEMMA GrantsPart ==
    ASSUME NEW v \in Version
    PROVE  /\ ForEach(Schema[v], Grants) \in Seq(Granting(ToSet(Schema[v])))
           /\ \A t \in ToSet(Schema[v]) :
                 Command("user", t, UserRights(t)) \in ToSet(ForEach(Schema[v], Grants))
  <1> DEFINE T == ToSet(Schema[v])
             S == Granting(T)
             ss == [i \in DOMAIN Schema[v] |-> Grants(Schema[v][i])]
  <1>1. ASSUME NEW t \in T
        PROVE  /\ Grants(t) \in Seq(S)
               /\ Command("user", t, UserRights(t)) \in ToSet(Grants(t))
    <2> DEFINE a == Command("admin", t, Rights)
               b == Command("user", t, UserRights(t))
    <2>1. a \in S /\ b \in S
      BY DEF Granting
    <2>2. Grants(t) = <<a, b>>
      BY DEF Grants
    <2> HIDE DEF S, a
    <2>3. <<a, b>> \in Seq(S) /\ b \in ToSet(<<a, b>>)
      <3> HIDE DEF b
      <3>1. 2 \in DOMAIN <<a, b>> /\ <<a, b>>[2] = b
        OBVIOUS
      <3>2. QED
        BY <2>1, <3>1 DEF ToSet
    <2>4. QED
      BY <2>2, <2>3
  <1>2. Schema[v] \in Seq(T) /\ T = {Schema[v][i] : i \in DOMAIN Schema[v]}
    BY SchemaFacts DEF ToSet
  <1>3. /\ ss \in Seq(Seq(S))
        /\ DOMAIN ss = DOMAIN Schema[v]
        /\ \A i \in DOMAIN Schema[v] : ss[i] = Grants(Schema[v][i])
    BY <1>1, <1>2
  <1>4. ForEach(Schema[v], Grants) = FlattenSeq(ss)
    BY DEF ForEach
  <1> HIDE DEF ss, S
  <1>5. FlattenSeq(ss) \in Seq(S) /\ \A i \in DOMAIN ss : ToSet(ss[i]) \subseteq ToSet(FlattenSeq(ss))
    BY <1>3, Parts
  <1>6. QED
    BY <1>1, <1>2, <1>3, <1>4, <1>5 DEF S

\* What follows the drop of a trigger still follows it when statements are joined.
LEMMA RecreatedJoined ==
    ASSUME NEW S, NEW p \in Recreated(S), NEW q \in Recreated(S)
    PROVE  p \o q \in Recreated(S)
  <1> DEFINE r == p \o q
  <1>1. p \in Seq(S) /\ q \in Seq(S) /\ Len(p) \in Nat /\ Len(q) \in Nat
    BY DEF Recreated
  <1>2. /\ r \in Seq(S) /\ Len(r) = Len(p) + Len(q)
        /\ \A i \in 1 .. Len(p) : r[i] = p[i]
        /\ \A i \in 1 .. Len(q) : r[Len(p) + i] = q[i]
    BY <1>1, Joined
  <1> HIDE DEF r
  <1>3. ASSUME NEW k \in 1 .. Len(r), r[k].cmd = "drop"
        PROVE  /\ k + 1 \in 1 .. Len(r) /\ r[k + 1].cmd = "create"
               /\ r[k + 1].table = r[k].table /\ r[k + 1].what = r[k].what
    <2>1. CASE k \in 1 .. Len(p)
      <3>1. r[k] = p[k]
        BY <1>2, <2>1
      <3>2. /\ k + 1 \in 1 .. Len(p) /\ p[k + 1].cmd = "create"
            /\ p[k + 1].table = p[k].table /\ p[k + 1].what = p[k].what
        BY <1>3, <2>1, <3>1 DEF Recreated
      <3>3. r[k + 1] = p[k + 1] /\ k + 1 \in 1 .. Len(r)
        BY <1>1, <1>2, <3>2
      <3>4. QED
        BY <3>1, <3>2, <3>3
    <2>2. CASE k \notin 1 .. Len(p)
      <3>1. PICK i \in 1 .. Len(q) : k = Len(p) + i
        <4>1. k - Len(p) \in 1 .. Len(q) /\ k = Len(p) + (k - Len(p))
          BY <1>1, <1>2, <2>2
        <4>2. QED
          BY <4>1
      <3>2. r[k] = q[i]
        BY <1>2, <3>1
      <3>3. /\ i + 1 \in 1 .. Len(q) /\ q[i + 1].cmd = "create"
            /\ q[i + 1].table = q[i].table /\ q[i + 1].what = q[i].what
        BY <1>3, <3>1, <3>2 DEF Recreated
      <3>4. PICK n \in 1 .. Len(q) : n = i + 1
        BY <3>3
      <3>5. r[Len(p) + n] = q[n] /\ k + 1 = Len(p) + n /\ Len(p) + n \in 1 .. Len(r)
        BY <1>1, <1>2, <3>1, <3>4
      <3>6. QED
        BY <3>2, <3>3, <3>4, <3>5
    <2>3. QED
      BY <2>1, <2>2
  <1>4. QED
    BY <1>2, <1>3 DEF Recreated, r

\* The triggers of one table.
LEMMA TriggersOfColumns ==
    ASSUME NEW T, NEW t \in Declared, t \in T
    PROVE  /\ Triggers(t) \in Recreated(Guarding(T))
           /\ \A c \in ToSet(t.columns) :
                 IsProtected(c) => Command("create", t, c.name) \in ToSet(Triggers(t))
  <1> DEFINE C == ToSet(t.columns)
             S == Guarding(T)
             ss == [i \in DOMAIN t.columns |-> ColumnTriggers(t, t.columns[i])]
  <1>1. ASSUME NEW c \in C
        PROVE  /\ ColumnTriggers(t, c) \in Recreated(S)
               /\ IsProtected(c) => Command("create", t, c.name) \in ToSet(ColumnTriggers(t, c))
    <2> DEFINE a == Command("drop", t, c.name)
               b == Command("create", t, c.name)
    <2>1. a \in S /\ b \in S
      BY DEF Guarding
    <2>2. /\ a.cmd = "drop" /\ b.cmd = "create" /\ b.table = a.table /\ b.what = a.what
      BY CommandOf
    <2>3. CASE ~IsProtected(c)
      <3>1. ColumnTriggers(t, c) = <<>>
        BY <2>3 DEF ColumnTriggers
      <3>2. QED
        BY <2>3, <3>1 DEF Recreated
    <2>4. CASE IsProtected(c)
      <3>1. ColumnTriggers(t, c) = <<a, b>>
        BY <2>4 DEF ColumnTriggers, DropAndCreate
      <3> HIDE DEF a, b, S
      <3>2. <<a, b>> \in Seq(S) /\ Len(<<a, b>>) = 2 /\ <<a, b>>[1] = a /\ <<a, b>>[2] = b
        BY <2>1
      <3>3. <<a, b>> \in Recreated(S)
        BY <2>2, <3>2 DEF Recreated
      <3>4. b \in ToSet(<<a, b>>)
        BY <3>2 DEF ToSet
      <3>5. QED
        BY <3>1, <3>3, <3>4 DEF b
    <2>5. QED
      BY <2>3, <2>4
  <1>2. t.columns \in Seq(C) /\ C = {t.columns[i] : i \in DOMAIN t.columns}
    BY SchemaFacts DEF ToSet
  <1>3. /\ ss \in Seq(Recreated(S))
        /\ DOMAIN ss = DOMAIN t.columns
        /\ \A i \in DOMAIN t.columns : ss[i] = ColumnTriggers(t, t.columns[i])
    <2> HIDE DEF S
    <2>1. DOMAIN t.columns = 1 .. Len(t.columns) /\ Len(t.columns) \in Nat
      BY <1>2
    <2>2. \A i \in DOMAIN t.columns : ColumnTriggers(t, t.columns[i]) \in Recreated(S)
      BY <1>1, <1>2
    <2>3. QED
      BY <2>1, <2>2
  <1>4. Triggers(t) = FlattenSeq(ss)
    BY DEF Triggers, PerColumn
  <1> HIDE DEF ss, S
  <1>5. Recreated(S) \subseteq Seq(S) /\ <<>> \in Recreated(S)
    BY DEF Recreated
  <1>6. \A p, q \in Recreated(S) : p \o q \in Recreated(S)
    BY RecreatedJoined
  <1>7. FlattenSeq(ss) \in Recreated(S)
    BY <1>3, <1>5, <1>6, FlattenIn
  <1>8. ss \in Seq(Seq(S))
    BY <1>3, <1>5
  <1>9. \A i \in DOMAIN ss : ToSet(ss[i]) \subseteq ToSet(FlattenSeq(ss))
    BY <1>8, Parts
  <1>10. QED
    BY <1>1, <1>2, <1>3, <1>4, <1>7, <1>9 DEF S

\* The triggers of every table.
LEMMA GuardingPart ==
    ASSUME NEW v \in Version
    PROVE  /\ ForEach(Schema[v], Triggers) \in Recreated(Guarding(ToSet(Schema[v])))
           /\ \A t \in ToSet(Schema[v]) : \A c \in ToSet(t.columns) :
                 IsProtected(c) => Command("create", t, c.name) \in ToSet(ForEach(Schema[v], Triggers))
  <1> DEFINE T == ToSet(Schema[v])
             S == Guarding(T)
             ss == [i \in DOMAIN Schema[v] |-> Triggers(Schema[v][i])]
  <1>1. ASSUME NEW t \in T
        PROVE  /\ Triggers(t) \in Recreated(S)
               /\ \A c \in ToSet(t.columns) :
                     IsProtected(c) => Command("create", t, c.name) \in ToSet(Triggers(t))
    BY SchemaFacts, TriggersOfColumns
  <1>2. Schema[v] \in Seq(T) /\ T = {Schema[v][i] : i \in DOMAIN Schema[v]}
    BY SchemaFacts DEF ToSet
  <1>3. /\ ss \in Seq(Recreated(S))
        /\ DOMAIN ss = DOMAIN Schema[v]
        /\ \A i \in DOMAIN Schema[v] : ss[i] = Triggers(Schema[v][i])
    <2> HIDE DEF S
    <2>1. DOMAIN Schema[v] = 1 .. Len(Schema[v]) /\ Len(Schema[v]) \in Nat
      BY <1>2
    <2>2. \A i \in DOMAIN Schema[v] : Triggers(Schema[v][i]) \in Recreated(S)
      BY <1>1, <1>2
    <2>3. QED
      BY <2>1, <2>2
  <1>4. ForEach(Schema[v], Triggers) = FlattenSeq(ss)
    BY DEF ForEach
  <1> HIDE DEF ss, S
  <1>5. Recreated(S) \subseteq Seq(S) /\ <<>> \in Recreated(S)
    BY DEF Recreated
  <1>6. \A p, q \in Recreated(S) : p \o q \in Recreated(S)
    BY RecreatedJoined
  <1>7. FlattenSeq(ss) \in Recreated(S)
    BY <1>3, <1>5, <1>6, FlattenIn
  <1>8. ss \in Seq(Seq(S))
    BY <1>3, <1>5
  <1>9. \A i \in DOMAIN ss : ToSet(ss[i]) \subseteq ToSet(FlattenSeq(ss))
    BY <1>8, Parts
  <1>10. QED
    BY <1>1, <1>2, <1>3, <1>4, <1>7, <1>9 DEF S

-----------------------------------------------------------------------------
(* The order of its statements *)

\* Sequences of statements S in which a precedes every b.
Preceded(S, a, b) ==
    {s \in Seq(S) : \A k \in 1 .. Len(s) : s[k] = b => \E j \in 1 .. k - 1 : s[j] = a}

\* The kinds of statements.
LEMMA KindOf ==
    ASSUME NEW T
    PROVE  /\ \A s \in Creating(T) : s.cmd = "table"
           /\ \A s \in Reading(T) : s.cmd = "read"
           /\ \A s \in Adding(T) : s.cmd = "column"
           /\ \A s \in Ruling(T) : s.cmd = "rule"
           /\ \A s \in Granting(T) : s.cmd \in {"admin", "user"}
           /\ \A s \in Guarding(T) : s.cmd \in {"drop", "create"}
  <1>1. \A s \in Creating(T) : s.cmd = "table"
    BY CommandOf DEF Creating
  <1>2. \A s \in Reading(T) : s.cmd = "read"
    BY CommandOf DEF Reading
  <1>3. \A s \in Adding(T) : s.cmd = "column"
    BY CommandOf DEF Adding
  <1>4. \A s \in Ruling(T) : s.cmd = "rule"
    BY CommandOf DEF Ruling
  <1>5. \A s \in Granting(T) : s.cmd \in {"admin", "user"}
    BY CommandOf DEF Granting
  <1>6. \A s \in Guarding(T) : s.cmd \in {"drop", "create"}
    BY CommandOf DEF Guarding
  <1>7. QED
    BY <1>1, <1>2, <1>3, <1>4, <1>5, <1>6

\* What precedes in both of two joined sequences precedes in the joined one.
LEMMA PrecededJoined ==
    ASSUME NEW S, NEW a, NEW b, NEW p \in Preceded(S, a, b), NEW q \in Preceded(S, a, b)
    PROVE  p \o q \in Preceded(S, a, b)
  <1> DEFINE r == p \o q
  <1>1. p \in Seq(S) /\ q \in Seq(S) /\ Len(p) \in Nat /\ Len(q) \in Nat
    BY DEF Preceded
  <1>2. /\ r \in Seq(S) /\ Len(r) = Len(p) + Len(q)
        /\ \A i \in 1 .. Len(p) : r[i] = p[i]
        /\ \A i \in 1 .. Len(q) : r[Len(p) + i] = q[i]
    BY <1>1, Joined
  <1> HIDE DEF r
  <1>3. ASSUME NEW k \in 1 .. Len(r), r[k] = b PROVE \E j \in 1 .. k - 1 : r[j] = a
    <2>1. CASE k \in 1 .. Len(p)
      <3>1. r[k] = p[k]
        BY <1>2, <2>1
      <3>2. PICK j \in 1 .. k - 1 : p[j] = a
        BY <1>3, <2>1, <3>1 DEF Preceded
      <3>3. j \in 1 .. Len(p)
        BY <1>1, <2>1
      <3>4. r[j] = a
        BY <1>2, <3>2, <3>3
      <3>5. QED
        BY <3>4
    <2>2. CASE k \notin 1 .. Len(p)
      <3>1. PICK i \in 1 .. Len(q) : k = Len(p) + i
        <4>1. k - Len(p) \in 1 .. Len(q) /\ k = Len(p) + (k - Len(p))
          BY <1>1, <1>2, <2>2
        <4>2. QED
          BY <4>1
      <3>2. r[k] = q[i]
        BY <1>2, <3>1
      <3>3. PICK j \in 1 .. i - 1 : q[j] = a
        BY <1>3, <3>1, <3>2 DEF Preceded
      <3>4. j \in 1 .. Len(q) /\ Len(p) + j \in 1 .. k - 1
        BY <1>1, <3>1
      <3>5. r[Len(p) + j] = a
        BY <1>2, <3>3, <3>4
      <3>6. QED
        BY <3>4, <3>5
    <2>3. QED
      BY <2>1, <2>2
  <1>4. QED
    BY <1>2, <1>3 DEF Preceded, r

\* What only the first of two joined sequences has precedes what only the second has.
LEMMA PrecededApart ==
    ASSUME NEW S, NEW a, NEW b, NEW p \in Seq(S), NEW q \in Seq(S),
           a \in ToSet(p), b \notin ToSet(p)
    PROVE  p \o q \in Preceded(S, a, b)
  <1>1. p \o q \in Seq(S)
    OBVIOUS
  <1>2. ASSUME NEW k \in 1 .. Len(p \o q), (p \o q)[k] = b
        PROVE  \E j \in 1 .. k - 1 : (p \o q)[j] = a
    BY <1>2, Precedes
  <1>3. QED
    BY <1>1, <1>2 DEF Preceded

\* The parts of the program of a version.
LEMMA ProgramParts ==
    ASSUME NEW v \in Version
    PROVE  Program[v] =
              (ForEach(Schema[v], CreateTable) \o ForEach(Schema[v], CreateMissingColumns))
                 \o (((ForEach(Schema[v], TableRules) \o ForEach(Schema[v], ColumnRules))
                         \o ForEach(Schema[v], Grants)) \o ForEach(Schema[v], Triggers))
  BY DEF Program, RulesPermissionsAndTriggers

\* The program of a version: its statements are about the version's tables,
\* each of which has all of its own; tables are created first, columns are
\* added behind the read of what is there, rules come before rights, tables and
\* columns before triggers, and a trigger that is dropped is created next.
LEMMA ProgramOf ==
    ASSUME NEW v \in Version
    PROVE  LET p == Program[v]
               T == ToSet(Schema[v])
           IN  /\ p \in ReadFirst(Statements(T)) /\ p \in Recreated(Statements(T))
               /\ \A k \in 1 .. Len(p) : p[k].cmd = "table" => \A j \in 1 .. k - 1 : p[j].cmd = "table"
               /\ \A t \in T :
                     /\ \A r \in Operations : ~t.isLookup /\ ~t.isRelation =>
                           p \in Preceded(Statements(T), Command("rule", t, r), Command("user", t, UserRights(t)))
                     /\ \A c \in ToSet(t.columns) : \A x \in {"drop", "create"} :
                           /\ p \in Preceded(Statements(T), Command("table", t, CreateTableStatement(t)),
                                             Command(x, t, c.name))
                           /\ p \in Preceded(Statements(T), Command("column", t, ColumnStatement(c)),
                                             Command(x, t, c.name))
               /\ \A t \in T :
                     /\ {Command("table", t, CreateTableStatement(t)), Command("read", t, {}),
                         Command("user", t, UserRights(t))} \subseteq ToSet(p)
                     /\ ~t.isLookup /\ ~t.isRelation =>
                           \A r \in Operations : Command("rule", t, r) \in ToSet(p)
                     /\ \A c \in ToSet(t.columns) :
                           /\ Command("column", t, ColumnStatement(c)) \in ToSet(p)
                           /\ "Notify" \in c.flags => Command("rule", t, c.name) \in ToSet(p)
                           /\ IsProtected(c) => Command("create", t, c.name) \in ToSet(p)
  <1> DEFINE T == ToSet(Schema[v])
             S == Statements(T)
             A == ForEach(Schema[v], CreateTable)
             B == ForEach(Schema[v], CreateMissingColumns)
             R1 == ForEach(Schema[v], TableRules)
             R2 == ForEach(Schema[v], ColumnRules)
             G == ForEach(Schema[v], Grants)
             D == ForEach(Schema[v], Triggers)
             AB == A \o B
             R == R1 \o R2
             RG == R \o G
             Q == RG \o D
             p == AB \o Q
  <1>1. Program[v] = p
    BY ProgramParts
  <1>2. /\ A \in Seq(Creating(T)) /\ B \in ReadFirst(Reading(T) \cup Adding(T))
        /\ R1 \in Seq(Ruling(T)) /\ R2 \in Seq(Ruling(T)) /\ G \in Seq(Granting(T))
        /\ D \in Recreated(Guarding(T))
    BY CreatingPart, AddingPart, TableRulesPart, ColumnRulesPart, GrantsPart, GuardingPart
  <1>3. \A t \in T :
           /\ Command("table", t, CreateTableStatement(t)) \in ToSet(A)
           /\ Command("read", t, {}) \in ToSet(B) /\ Command("user", t, UserRights(t)) \in ToSet(G)
           /\ ~t.isLookup /\ ~t.isRelation => \A r \in Operations : Command("rule", t, r) \in ToSet(R1)
           /\ \A c \in ToSet(t.columns) :
                 /\ Command("column", t, ColumnStatement(c)) \in ToSet(B)
                 /\ "Notify" \in c.flags => Command("rule", t, c.name) \in ToSet(R2)
                 /\ IsProtected(c) => Command("create", t, c.name) \in ToSet(D)
    BY CreatingPart, AddingPart, TableRulesPart, ColumnRulesPart, GrantsPart, GuardingPart
  <1>4. /\ Creating(T) \subseteq S /\ Reading(T) \subseteq S /\ Adding(T) \subseteq S
        /\ Ruling(T) \subseteq S /\ Granting(T) \subseteq S /\ Guarding(T) \subseteq S
    BY DEF Statements
  <1> HIDE DEF S, T, A, B, R1, R2, G, D
  <1>5. /\ \A s \in ToSet(A) : s.cmd = "table"
        /\ \A s \in ToSet(B) : s.cmd \in {"read", "column"}
        /\ \A s \in ToSet(R1) \cup ToSet(R2) : s.cmd = "rule"
        /\ \A s \in ToSet(G) : s.cmd \in {"admin", "user"}
        /\ \A s \in ToSet(D) : s.cmd \in {"drop", "create"}
    <2>1. /\ ToSet(A) \subseteq Creating(T) /\ ToSet(B) \subseteq Reading(T) \cup Adding(T)
          /\ ToSet(R1) \subseteq Ruling(T) /\ ToSet(R2) \subseteq Ruling(T)
          /\ ToSet(G) \subseteq Granting(T) /\ ToSet(D) \subseteq Guarding(T)
      BY <1>2 DEF ToSet, ReadFirst, Recreated
    <2>2. QED
      BY <2>1, KindOf
  <1>6. /\ A \in Seq(S) /\ B \in Seq(S) /\ R1 \in Seq(S) /\ R2 \in Seq(S) /\ G \in Seq(S) /\ D \in Seq(S)
    BY <1>2, <1>4 DEF ReadFirst, Recreated
  <1>7. AB \in Seq(S) /\ R \in Seq(S) /\ RG \in Seq(S) /\ Q \in Seq(S) /\ p \in Seq(S)
    BY <1>6
  <1>8. /\ ToSet(AB) = ToSet(A) \cup ToSet(B) /\ ToSet(R) = ToSet(R1) \cup ToSet(R2)
        /\ ToSet(RG) = ToSet(R) \cup ToSet(G) /\ ToSet(Q) = ToSet(RG) \cup ToSet(D)
        /\ ToSet(p) = ToSet(AB) \cup ToSet(Q)
    <2> HIDE DEF AB, R, RG, Q
    <2>1. ToSet(p) = ToSet(AB) \cup ToSet(Q)
      BY <1>7, JoinedSet
    <2>2. ToSet(AB) = ToSet(A) \cup ToSet(B) /\ ToSet(R) = ToSet(R1) \cup ToSet(R2)
      BY <1>6, JoinedSet DEF AB, R
    <2>3. ToSet(RG) = ToSet(R) \cup ToSet(G)
      BY <1>6, <1>7, JoinedSet DEF RG
    <2>4. ToSet(Q) = ToSet(RG) \cup ToSet(D)
      BY <1>6, <1>7, JoinedSet DEF Q
    <2>5. QED
      BY <2>1, <2>2, <2>3, <2>4
  <1>9. \A s \in Seq(S) : (\A k \in 1 .. Len(s) : s[k].cmd # "column") => s \in ReadFirst(S)
    BY DEF ReadFirst
  <1>10. \A s \in Seq(S) : (\A k \in 1 .. Len(s) : s[k].cmd # "drop") => s \in Recreated(S)
    BY DEF Recreated
  <1>11. \A s \in Seq(S) : \A k \in 1 .. Len(s) : s[k] \in ToSet(s)
    BY DEF ToSet
  <1>12. p \in ReadFirst(S)
    <2>1. A \in ReadFirst(S) /\ Q \in ReadFirst(S)
      <3> HIDE DEF AB, R, RG, Q
      <3>1. \A k \in 1 .. Len(A) : A[k].cmd # "column"
        BY <1>5, <1>6, <1>11
      <3>2. \A k \in 1 .. Len(Q) : Q[k].cmd # "column"
        BY <1>5, <1>7, <1>8, <1>11
      <3>3. QED
        BY <1>6, <1>7, <1>9, <3>1, <3>2
    <2>2. B \in ReadFirst(S)
      BY <1>2, <1>6 DEF ReadFirst
    <2> HIDE DEF Q
    <2>3. AB \in ReadFirst(S)
      BY <2>1, <2>2, ReadFirstJoined
    <2> HIDE DEF AB
    <2>4. QED
      BY <2>1, <2>3, ReadFirstJoined
  <1>13. p \in Recreated(S)
    <2>1. AB \in Recreated(S) /\ RG \in Recreated(S)
      <3> HIDE DEF AB, R, RG
      <3>1. \A k \in 1 .. Len(AB) : AB[k].cmd # "drop"
        BY <1>5, <1>7, <1>8, <1>11
      <3>2. \A k \in 1 .. Len(RG) : RG[k].cmd # "drop"
        BY <1>5, <1>7, <1>8, <1>11
      <3>3. QED
        BY <1>7, <1>10, <3>1, <3>2
    <2>2. D \in Recreated(S)
      BY <1>2, <1>6 DEF Recreated
    <2> HIDE DEF RG, AB
    <2>3. Q \in Recreated(S)
      BY <2>1, <2>2, RecreatedJoined
    <2> HIDE DEF Q
    <2>4. QED
      BY <2>1, <2>3, RecreatedJoined
  <1>14. \A k \in 1 .. Len(p) : p[k].cmd = "table" => \A j \in 1 .. k - 1 : p[j].cmd = "table"
    <2> SUFFICES ASSUME NEW k \in 1 .. Len(p), p[k].cmd = "table", NEW j \in 1 .. k - 1
                 PROVE  p[j].cmd = "table"
      OBVIOUS
    <2> HIDE DEF AB, Q
    <2>1. \/ k \in 1 .. Len(AB)
          \/ k - Len(AB) \in 1 .. Len(Q) /\ p[k] = Q[k - Len(AB)]
      BY <1>7, Joined
    <2>2. \A i \in 1 .. Len(Q) : Q[i].cmd # "table"
      <3> HIDE DEF R, RG
      <3>1. \A s \in ToSet(Q) : s.cmd # "table"
        BY <1>5, <1>8
      <3>2. QED
        BY <1>7, <1>11, <3>1
    <2>3. k \in 1 .. Len(AB)
      BY <2>1, <2>2
    <2>4. \A i \in 1 .. Len(AB) : p[i] = AB[i]
      BY <1>7, Joined
    <2> HIDE DEF p
    <2>5. \/ k \in 1 .. Len(A)
          \/ k - Len(A) \in 1 .. Len(B) /\ AB[k] = B[k - Len(A)]
      BY <1>6, <2>3, Joined DEF AB
    <2>6. \A i \in 1 .. Len(B) : B[i].cmd # "table"
      BY <1>5, <1>6, <1>11
    <2>7. k \in 1 .. Len(A)
      BY <2>3, <2>4, <2>5, <2>6
    <2>8. j \in 1 .. Len(A) /\ j \in 1 .. Len(AB)
      BY <1>6, <1>7, <2>3, <2>7
    <2>9. AB[j] = A[j]
      BY <1>6, <2>8, Joined DEF AB
    <2>10. QED
      BY <1>5, <1>6, <1>11, <2>4, <2>8, <2>9
  <1>15. ASSUME NEW t \in T, NEW r \in Operations, ~t.isLookup, ~t.isRelation
         PROVE  p \in Preceded(S, Command("rule", t, r), Command("user", t, UserRights(t)))
    <2> DEFINE a == Command("rule", t, r)
               b == Command("user", t, UserRights(t))
    <2>1. b.cmd = "user"
      BY CommandOf
    <2>2. a \in ToSet(R1)
      BY <1>3, <1>15
    <2> HIDE DEF a, b
    <2>3. a \in ToSet(R) /\ b \notin ToSet(R) /\ b \notin ToSet(AB) /\ b \notin ToSet(D)
      <3> HIDE DEF R, AB
      <3>1. QED
        BY <1>5, <1>8, <2>1, <2>2
    <2>4. \A s \in Seq(S) : b \notin ToSet(s) => s \in Preceded(S, a, b)
      BY <1>11 DEF Preceded
    <2> HIDE DEF R, AB
    <2>5. RG \in Preceded(S, a, b)
      BY <1>6, <1>7, <2>3, PrecededApart
    <2>6. D \in Preceded(S, a, b) /\ AB \in Preceded(S, a, b)
      BY <1>6, <1>7, <2>3, <2>4
    <2> HIDE DEF RG
    <2>7. Q \in Preceded(S, a, b)
      BY <2>5, <2>6, PrecededJoined
    <2> HIDE DEF Q
    <2>8. p \in Preceded(S, a, b)
      BY <2>6, <2>7, PrecededJoined
    <2>9. QED
      BY <2>8 DEF a, b
  <1>16. ASSUME NEW t \in T, NEW c \in ToSet(t.columns), NEW x \in {"drop", "create"},
                NEW a \in {Command("table", t, CreateTableStatement(t)), Command("column", t, ColumnStatement(c))}
         PROVE  p \in Preceded(S, a, Command(x, t, c.name))
    <2> DEFINE b == Command(x, t, c.name)
    <2>1. b.cmd \in {"drop", "create"}
      BY CommandOf
    <2>2. a \in ToSet(A) \cup ToSet(B)
      BY <1>3
    <2> HIDE DEF b, AB, Q
    <2>3. a \in ToSet(AB) /\ b \notin ToSet(AB)
      BY <1>5, <1>8, <2>1, <2>2
    <2>4. p \in Preceded(S, a, b)
      BY <1>7, <2>3, PrecededApart
    <2>5. QED
      BY <2>4 DEF b
  <1>17. /\ ToSet(A) \subseteq ToSet(p) /\ ToSet(B) \subseteq ToSet(p) /\ ToSet(R1) \subseteq ToSet(p)
         /\ ToSet(R2) \subseteq ToSet(p) /\ ToSet(G) \subseteq ToSet(p) /\ ToSet(D) \subseteq ToSet(p)
    <2> HIDE DEF AB, R, RG, Q, p
    <2>1. QED
      BY <1>8
  <1> HIDE DEF AB, R, RG, Q, p
  <1>18. \A t \in T :
            /\ \A r \in Operations : ~t.isLookup /\ ~t.isRelation =>
                  p \in Preceded(S, Command("rule", t, r), Command("user", t, UserRights(t)))
            /\ \A c \in ToSet(t.columns) : \A x \in {"drop", "create"} :
                  /\ p \in Preceded(S, Command("table", t, CreateTableStatement(t)), Command(x, t, c.name))
                  /\ p \in Preceded(S, Command("column", t, ColumnStatement(c)), Command(x, t, c.name))
    BY <1>15, <1>16
  <1>19. \A t \in T :
            /\ {Command("table", t, CreateTableStatement(t)), Command("read", t, {}),
                Command("user", t, UserRights(t))} \subseteq ToSet(p)
            /\ ~t.isLookup /\ ~t.isRelation =>
                  \A r \in Operations : Command("rule", t, r) \in ToSet(p)
            /\ \A c \in ToSet(t.columns) :
                  /\ Command("column", t, ColumnStatement(c)) \in ToSet(p)
                  /\ "Notify" \in c.flags => Command("rule", t, c.name) \in ToSet(p)
                  /\ IsProtected(c) => Command("create", t, c.name) \in ToSet(p)
    BY <1>3, <1>17
  <1>20. QED
    BY <1>1, <1>12, <1>13, <1>14, <1>18, <1>19 DEF S, T

-----------------------------------------------------------------------------
(* What a deployer leaves out and executes *)

\* The statement that is executed next: those before it are left out.
LEMMA FirstFrom ==
    ASSUME NEW v \in Version, NEW i \in 1 .. Len(Program[v]) + 1, NEW missing, NEW known
    PROVE  LET n == From(v, i, missing, known)
           IN  /\ n \in i .. Len(Program[v]) + 1
               /\ n <= Len(Program[v]) => ~LeftOut(Program[v][n], missing, known)
               /\ \A k \in i .. n - 1 : LeftOut(Program[v][k], missing, known)
  <1> DEFINE N == Len(Program[v])
             L(k) == LeftOut(Program[v][k], missing, known)
             P(j) == (j <= N => ~L(j)) /\ \A k \in i .. j - 1 : L(k)
             U == {k \in i .. N : ~L(k)}
  <1>1. N \in Nat
    BY ProgramOf DEF ReadFirst
  <1> HIDE DEF N, L
  <1>2. \E j \in i .. N + 1 : P(j)
    <2>1. CASE U = {}
      <3>1. P(N + 1) /\ N + 1 \in i .. N + 1
        BY <1>1, <2>1 DEF N
      <3>2. QED
        BY <3>1
    <2>2. CASE U # {}
      <3>1. U \subseteq Nat
        BY <1>1 DEF N
      <3>2. PICK x \in U : \A y \in U : ~ (<<y, x>> \in OpToRel(<, Nat))
        BY <2>2, <3>1, NatLessThanWellFounded, WFMin
      <3>3. \A k \in i .. x - 1 : L(k)
        <4> SUFFICES ASSUME NEW k \in i .. x - 1, ~L(k) PROVE FALSE
          OBVIOUS
        <4>1. k \in U /\ k \in Nat /\ x \in Nat /\ k < x
          BY <1>1 DEF N
        <4>2. <<k, x>> \in OpToRel(<, Nat)
          BY <4>1 DEF OpToRel
        <4>3. QED
          BY <3>2, <4>1, <4>2
      <3>4. x \in i .. N + 1 /\ P(x)
        BY <1>1, <3>3 DEF N
      <3>5. QED
        BY <3>4
    <2>3. QED
      BY <2>1, <2>2
  <1>3. From(v, i, missing, known) = CHOOSE j \in i .. N + 1 : P(j)
    BY DEF From, N, L
  <1> HIDE DEF P
  <1>4. From(v, i, missing, known) \in i .. N + 1 /\ P(From(v, i, missing, known))
    BY <1>2, <1>3
  <1>5. QED
    BY <1>4 DEF P, N, L

\* What is left out.
LEMMA LeftOutIs ==
    ASSUME NEW s, NEW missing, NEW known, LeftOut(s, missing, known)
    PROVE  \/ s.cmd = "table" /\ s.table \in known
           \/ s.cmd = "read" /\ ~missing
           \/ s.cmd = "column" /\ (~missing \/ s.what.name \in known)
  BY DEF LeftOut

\* The forms of a statement about one of the tables.
Formed(s, T) ==
    \E t \in T :
       \/ s = Command("table", t, CreateTableStatement(t))
       \/ s = Command("read", t, {})
       \/ \E c \in ToSet(t.columns) : s = Command("column", t, ColumnStatement(c))
       \/ \E r : s = Command("rule", t, r)
       \/ s = Command("admin", t, Rights)
       \/ s = Command("user", t, UserRights(t))
       \/ \E c \in ToSet(t.columns), x \in {"drop", "create"} : s = Command(x, t, c.name)

LEMMA Forms ==
    ASSUME NEW v \in Version, NEW k \in 1 .. Len(Program[v])
    PROVE  Formed(Program[v][k], ToSet(Schema[v]))
  <1> DEFINE s == Program[v][k]
             T == ToSet(Schema[v])
  <1>1. s \in Statements(T)
    BY ProgramOf DEF ReadFirst
  <1> HIDE DEF s, T
  <1>2. CASE s \in Creating(T) \cup Reading(T)
    <2> SUFFICES Formed(s, T)
      BY DEF s, T
    <2> QED
      BY <1>2 DEF Creating, Reading, Formed
  <1>3. CASE s \in Adding(T)
    <2>1. Formed(s, T)
      BY <1>3 DEF Adding, Formed
    <2>2. QED
      BY <2>1 DEF s, T
  <1>4. CASE s \in Ruling(T)
    <2>1. Formed(s, T)
      BY <1>4 DEF Ruling, Formed
    <2>2. QED
      BY <2>1 DEF s, T
  <1>5. CASE s \in Granting(T)
    <2>1. Formed(s, T)
      BY <1>5 DEF Granting, Formed
    <2>2. QED
      BY <2>1 DEF s, T
  <1>6. CASE s \in Guarding(T)
    <2>1. Formed(s, T)
      BY <1>6 DEF Guarding, Formed
    <2>2. QED
      BY <2>1 DEF s, T
  <1>7. QED
    BY <1>1, <1>2, <1>3, <1>4, <1>5, <1>6 DEF Statements

\* The kinds of statements.
Cmds == {"table", "read", "column", "rule", "admin", "user", "drop", "create"}

\* A program's statements are of these kinds.
LEMMA CmdIs ==
    ASSUME NEW v \in Version, NEW k \in 1 .. Len(Program[v])
    PROVE  Program[v][k].cmd \in Cmds
  <1>1. Program[v][k] \in Statements(ToSet(Schema[v]))
    BY ProgramOf DEF ReadFirst
  <1>2. QED
    BY <1>1, KindOf DEF Statements, Cmds

\* What a statement makes of the database.
LEMMA AfterIs ==
    ASSUME TypeOK, NEW s, s.cmd \in Cmds
    PROVE  After(s) =
              [columns |-> db.columns
                   \cup (IF s.cmd = "table" THEN DbColumns(s)
                         ELSE IF s.cmd = "column" THEN {DbColumn(s.table, s.what)} ELSE {}),
               uniques |-> db.uniques \cup (IF s.cmd = "table" THEN {s.table} \X s.what.constraints ELSE {}),
               rules |-> db.rules \cup (IF s.cmd = "rule" THEN {<<s.table, s.what>>} ELSE {}),
               grants |-> db.grants
                   \cup (IF s.cmd \in {"admin", "user"} THEN {s.cmd} \X {s.table} \X s.what ELSE {}),
               triggers |-> IF s.cmd = "drop" THEN db.triggers \ {<<s.table, s.what>>}
                            ELSE db.triggers \cup (IF s.cmd = "create" THEN {<<s.table, s.what>>} ELSE {})]
  <1> DEFINE C == db.columns
             U == db.uniques
             R == db.rules
             G == db.grants
             T == db.triggers
  <1>1. db = [columns |-> C, uniques |-> U, rules |-> R, grants |-> G, triggers |-> T]
    BY DEF TypeOK
  <1>2. CASE s.cmd = "table"
    BY <1>1, <1>2 DEF After
  <1>3. CASE s.cmd = "column"
    BY <1>1, <1>3 DEF After
  <1>4. CASE s.cmd = "read"
    BY <1>1, <1>4 DEF After
  <1>5. CASE s.cmd = "rule"
    BY <1>1, <1>5 DEF After
  <1>6. CASE s.cmd = "drop"
    BY <1>1, <1>6 DEF After
  <1>7. CASE s.cmd = "create"
    BY <1>1, <1>7 DEF After
  <1>8. CASE s.cmd \in {"admin", "user"}
    BY <1>1, <1>8 DEF After
  <1>9. QED
    BY <1>2, <1>3, <1>4, <1>5, <1>6, <1>7, <1>8 DEF Cmds

-----------------------------------------------------------------------------
(* Steps *)

\* Who runs is at a statement of its version's program.
LEMMA AtStatement ==
    ASSUME TypeOK, RunsOK, NEW d \in Deployer, run[d] # Idle
    PROVE  /\ run[d].version \in Version /\ run[d].version \in 1 .. newest
           /\ run[d].step \in 1 .. Len(Program[run[d].version])
           /\ Len(Program[run[d].version]) \in Nat
           /\ Statement(d) = Program[run[d].version][run[d].step]
           /\ Statement(d).cmd \in Cmds
  <1>1. run[d].version \in 1 .. newest /\ run[d].step \in 1 .. Len(Program[run[d].version])
    BY DEF RunsOK
  <1>2. run[d].version \in Version
    BY <1>1, SchemaFacts DEF TypeOK
  <1>3. Len(Program[run[d].version]) \in Nat
    BY <1>2, ProgramOf DEF ReadFirst
  <1>4. QED
    BY <1>1, <1>2, <1>3, CmdIs DEF Statement

\* What is there after a statement that was executed.
LEMMA Grown ==
    ASSUME TypeOK, NEW s, s.cmd \in Cmds, db' = After(s)
    PROVE  /\ db' = [columns |-> db'.columns, uniques |-> db'.uniques, rules |-> db'.rules,
                     grants |-> db'.grants, triggers |-> db'.triggers]
           /\ db'.columns = db.columns \cup (IF s.cmd = "table" THEN DbColumns(s)
                                             ELSE IF s.cmd = "column" THEN {DbColumn(s.table, s.what)} ELSE {})
           /\ db'.uniques = db.uniques \cup (IF s.cmd = "table" THEN {s.table} \X s.what.constraints ELSE {})
           /\ db'.rules = db.rules \cup (IF s.cmd = "rule" THEN {<<s.table, s.what>>} ELSE {})
           /\ db'.grants = db.grants \cup (IF s.cmd \in {"admin", "user"}
                                           THEN {s.cmd} \X {s.table} \X s.what ELSE {})
           /\ db'.triggers = IF s.cmd = "drop" THEN db.triggers \ {<<s.table, s.what>>}
                             ELSE db.triggers \cup (IF s.cmd = "create" THEN {<<s.table, s.what>>} ELSE {})
  <1> DEFINE C == db.columns \cup (IF s.cmd = "table" THEN DbColumns(s)
                                   ELSE IF s.cmd = "column" THEN {DbColumn(s.table, s.what)} ELSE {})
             U == db.uniques \cup (IF s.cmd = "table" THEN {s.table} \X s.what.constraints ELSE {})
             R == db.rules \cup (IF s.cmd = "rule" THEN {<<s.table, s.what>>} ELSE {})
             G == db.grants \cup (IF s.cmd \in {"admin", "user"} THEN {s.cmd} \X {s.table} \X s.what ELSE {})
             D == IF s.cmd = "drop" THEN db.triggers \ {<<s.table, s.what>>}
                  ELSE db.triggers \cup (IF s.cmd = "create" THEN {<<s.table, s.what>>} ELSE {})
  <1>1. db' = [columns |-> C, uniques |-> U, rules |-> R, grants |-> G, triggers |-> D]
    BY AfterIs
  <1> HIDE DEF C, U, R, G, D
  <1>2. /\ db'.columns = C /\ db'.uniques = U /\ db'.rules = R /\ db'.grants = G /\ db'.triggers = D
        /\ db' = [columns |-> db'.columns, uniques |-> db'.uniques, rules |-> db'.rules,
                  grants |-> db'.grants, triggers |-> db'.triggers]
    BY <1>1
  <1>3. QED
    BY <1>2 DEF C, U, R, G, D

\* The names of columns and tables that are there are declared.
LEMMA NamesThere ==
    ASSUME ColumnsKnown
    PROVE  /\ TableNames \subseteq Names
           /\ \A t : {c.name : c \in {c \in db.columns : c.table = t}} \subseteq Names
  <1>1. ASSUME NEW e \in db.columns PROVE e.table \in Names /\ e.name \in Names
    <2>1. PICK t \in Declared : \E c \in ToSet(t.columns) : e = DbColumn(t.name, ColumnStatement(c))
      BY DEF ColumnsKnown
    <2>2. PICK c \in ToSet(t.columns) : e = DbColumn(t.name, ColumnStatement(c))
      BY <2>1
    <2>3. e.table = t.name /\ e.name = c.name
      BY <2>2 DEF DbColumn, ColumnStatement
    <2>4. QED
      BY <2>1, <2>2, <2>3 DEF Names
  <1>2. QED
    BY <1>1 DEF TableNames

\* A statement that is executed adds columns that are declared, and rights
\* behind their rules.
LEMMA ExecutedRights ==
    ASSUME RightsInv, NEW d \in Deployer, run[d] # Idle,
           db' = After(Statement(d)), newest' = newest
    PROVE  ColumnsKnown' /\ GrantsKnown'
  <1> DEFINE v == run[d].version
             i == run[d].step
             s == Statement(d)
  <1>1. /\ v \in Version
        /\ v \in 1 .. newest
        /\ i \in 1 .. Len(Program[v])
        /\ s = Program[v][i]
        /\ s.cmd \in Cmds
    BY AtStatement DEF RightsInv
  <1>2. PICK t \in ToSet(Schema[v]) :
              \/ s = Command("table", t, CreateTableStatement(t))
              \/ s = Command("read", t, {})
              \/ \E c \in ToSet(t.columns) : s = Command("column", t, ColumnStatement(c))
              \/ \E r : s = Command("rule", t, r)
              \/ s = Command("admin", t, Rights)
              \/ s = Command("user", t, UserRights(t))
              \/ \E c \in ToSet(t.columns), x \in {"drop", "create"} : s = Command(x, t, c.name)
    <2>1. Formed(s, ToSet(Schema[v]))
      BY <1>1, Forms
    <2>2. QED
      BY <2>1 DEF Formed
  <1> HIDE DEF v, i, s
  <1>3. /\ db'.columns = db.columns \cup (IF s.cmd = "table" THEN DbColumns(s)
                                          ELSE IF s.cmd = "column" THEN {DbColumn(s.table, s.what)} ELSE {})
        /\ db'.rules = db.rules \cup (IF s.cmd = "rule" THEN {<<s.table, s.what>>} ELSE {})
        /\ db'.grants = db.grants \cup (IF s.cmd \in {"admin", "user"}
                                        THEN {s.cmd} \X {s.table} \X s.what ELSE {})
    BY <1>1, Grown DEF RightsInv, s
  <1>4. t \in Declared
    BY <1>1, SchemaFacts
  <1>5. ColumnsKnown'
    <2> SUFFICES ASSUME NEW e \in db'.columns, e \notin db.columns
                 PROVE  \E u \in Declared : \E c \in ToSet(u.columns) : e = DbColumn(u.name, ColumnStatement(c))
      BY DEF RightsInv, ColumnsKnown
    <2>1. CASE s.cmd = "table"
      <3>1. e \in DbColumns(s)
        BY <1>3, <2>1
      <3>2. s = Command("table", t, CreateTableStatement(t))
        BY <1>2, <2>1, CommandOf
      <3>3. PICK j \in DOMAIN t.columns : e = DbColumn(t.name, ColumnStatement(t.columns[j]))
        BY <3>1, <3>2, CommandOf DEF DbColumns, CreateTableStatement
      <3>4. QED
        BY <1>4, <3>3 DEF ToSet
    <2>2. CASE s.cmd = "column"
      <3>1. e = DbColumn(s.table, s.what)
        BY <1>3, <2>2
      <3>2. PICK c \in ToSet(t.columns) : s = Command("column", t, ColumnStatement(c))
        BY <1>2, <2>2, CommandOf
      <3>3. e = DbColumn(t.name, ColumnStatement(c))
        BY <3>1, <3>2, CommandOf
      <3>4. QED
        BY <1>4, <3>3
    <2>3. QED
      BY <1>3, <2>1, <2>2
  <1>6. GrantsKnown'
    <2> SUFFICES ASSUME NEW n \in Names, NEW r \in Rights, <<"user", n, r>> \in db'.grants
                 PROVE  \E w \in 1 .. newest : \E u \in ToSet(Schema[w]) :
                           /\ u.name = n /\ r \in UserRights(u)
                           /\ r = "SELECT" \/ u.isLookup \/ u.isRelation \/ <<n, r>> \in db'.rules
      BY DEF GrantsKnown
    <2>1. CASE <<"user", n, r>> \in db.grants
      <3>1. PICK w \in 1 .. newest : \E u \in ToSet(Schema[w]) :
                    /\ u.name = n /\ r \in UserRights(u)
                    /\ r = "SELECT" \/ u.isLookup \/ u.isRelation \/ <<n, r>> \in db.rules
        BY <2>1 DEF RightsInv, GrantsKnown
      <3>2. db.rules \subseteq db'.rules
        BY <1>3
      <3>3. QED
        BY <3>1, <3>2
    <2>2. CASE <<"user", n, r>> \notin db.grants
      <3>1. s.cmd = "user" /\ n = s.table /\ r \in s.what
        BY <1>3, <2>2
      <3>2. s = Command("user", t, UserRights(t))
        BY <1>2, <3>1, CommandOf
      <3>3. n = t.name /\ r \in UserRights(t)
        BY <3>1, <3>2, CommandOf
      <3>4. ASSUME r # "SELECT", ~t.isLookup, ~t.isRelation PROVE <<n, r>> \in db.rules
        <4>1. r \in Operations
          BY <3>4 DEF Rights, Operations
        <4>2. Program[v] \in Preceded(Statements(ToSet(Schema[v])), Command("rule", t, r), Command("user", t, UserRights(t)))
          BY <1>1, <3>4, <4>1, ProgramOf
        <4>3. PICK j \in 1 .. i - 1 : Program[v][j] = Command("rule", t, r)
          BY <1>1, <3>2, <4>2 DEF Preceded
        <4>4. Program[v][j].cmd = "rule" => <<Program[v][j].table, Program[v][j].what>> \in db.rules
          BY <4>3 DEF RightsInv, RulesDone, v, i
        <4>5. QED
          BY <3>3, <4>3, <4>4, CommandOf
      <3>5. db.rules \subseteq db'.rules
        BY <1>3
      <3>6. QED
        BY <1>1, <3>3, <3>4, <3>5
    <2>3. QED
      BY <2>1, <2>2
  <1>7. QED
    BY <1>5, <1>6

\* A deployer that starts is at a statement of its version, before which
\* everything is left out.
LEMMA StartRun ==
    ASSUME RightsInv, NEW d \in Deployer, NEW v \in Version, NEW missing \in Modes, Start(d, v, missing)
    PROVE  /\ run[d] = Idle /\ newest' = v /\ v >= newest /\ deployed' = 0 /\ db' = db
           /\ run' \in [Deployer -> [version : Version \cup {0}, missing : BOOLEAN, step : Nat,
                                     known : SUBSET Names, disturbed : BOOLEAN]]
           /\ \A e \in Deployer \ {d} : run'[e] = run[e]
           /\ run'[d].version = v /\ run'[d].missing = missing /\ run'[d].known = Existing(missing)
           /\ ~run'[d].disturbed
           /\ run'[d].step \in 1 .. Len(Program[v])
           /\ \A k \in 1 .. run'[d].step - 1 : LeftOut(Program[v][k], missing, Existing(missing))
           /\ missing \in BOOLEAN
  <1> DEFINE p == Program[v]
             known == Existing(missing)
             n == From(v, 1, missing, known)
             r == [Idle EXCEPT !.version = v, !.missing = missing, !.known = known, !.step = n]
  <1>1. /\ run[d] = Idle
        /\ v >= newest
        /\ newest' = v
        /\ deployed' = 0
        /\ db' = db
        /\ run' = [run EXCEPT ![d] = r]
    BY DEF Start
  <1>2. missing \in BOOLEAN
    BY BoundsAssumption
  <1>3. known \subseteq Names
    BY NamesThere DEF Existing, RightsInv
  <1>4. Len(p) \in Nat /\ p \in Seq(Statements(ToSet(Schema[v])))
    BY ProgramOf DEF ReadFirst
  <1>5. /\ n \in 1 .. Len(p) + 1
        /\ \A k \in 1 .. n - 1 : LeftOut(p[k], missing, known)
    <2>1. 1 \in 1 .. Len(p) + 1
      BY <1>4
    <2>2. QED
      BY <2>1, FirstFrom
  <1>6. n <= Len(p)
    <2> SUFFICES ASSUME n = Len(p) + 1 PROVE FALSE
      BY <1>4, <1>5
    <2>1. \A k \in 1 .. Len(p) : LeftOut(p[k], missing, known)
      BY <1>4, <1>5
    <2>2. PICK t \in ToSet(Schema[v]) : TRUE
      <3>1. 1 \in DOMAIN Schema[v]
        BY SchemaFacts
      <3>2. QED
        BY <3>1 DEF ToSet
    <2>3. /\ Command("table", t, CreateTableStatement(t)) \in ToSet(p)
          /\ Command("read", t, {}) \in ToSet(p)
      BY ProgramOf
    <2>4. \A s \in ToSet(p) : LeftOut(s, missing, known)
      BY <1>4, <2>1 DEF ToSet
    <2>5. CASE missing
      <3>1. LeftOut(Command("read", t, {}), missing, known)
        BY <2>3, <2>4
      <3>2. Command("read", t, {}).cmd = "read"
        BY CommandOf
      <3>3. QED
        BY <2>5, <3>1, <3>2, LeftOutIs
    <2>6. CASE ~missing
      <3>1. LeftOut(Command("table", t, CreateTableStatement(t)), missing, known)
        BY <2>3, <2>4
      <3>2. known = {}
        BY <2>6 DEF Existing
      <3>3. QED
        BY <3>1, <3>2, LeftOutIs, CommandOf
    <2>7. QED
      BY <2>5, <2>6
  <1> HIDE DEF p, known, n
  <1>7. /\ r.version = v /\ r.missing = missing /\ r.step = n /\ r.known = known
        /\ r.disturbed = FALSE
    BY DEF Idle
  <1>8. r \in [version : Version \cup {0}, missing : BOOLEAN, step : Nat, known : SUBSET Names, disturbed : BOOLEAN]
    <2>1. Idle \in [version : Version \cup {0}, missing : BOOLEAN, step : Nat, known : SUBSET Names, disturbed : BOOLEAN]
      BY DEF Idle
    <2>2. n \in Nat
      BY <1>4, <1>5
    <2>3. QED
      BY <1>2, <1>3, <2>1, <2>2
  <1> HIDE DEF r
  <1>9. run \in [Deployer -> [version : Version \cup {0}, missing : BOOLEAN, step : Nat,
                              known : SUBSET Names, disturbed : BOOLEAN]]
    BY DEF RightsInv, TypeOK
  <1>10. run'[d] = r /\ \A e \in Deployer \ {d} : run'[e] = run[e]
    BY <1>1, <1>9
  <1>11. run' \in [Deployer -> [version : Version \cup {0}, missing : BOOLEAN, step : Nat,
                                known : SUBSET Names, disturbed : BOOLEAN]]
    BY <1>1, <1>8, <1>9
  <1>12. n \in 1 .. Len(p)
    BY <1>4, <1>5, <1>6
  <1>13. QED
    BY <1>1, <1>2, <1>5, <1>7, <1>10, <1>11, <1>12 DEF p, known

\* A deployer that executes its statement goes on to the next that is not left
\* out, or has completed.
LEMMA ExecRun ==
    ASSUME RightsInv, NEW d \in Deployer, Exec(d)
    PROVE  /\ run[d] # Idle /\ Accepts(Statement(d)) /\ db' = After(Statement(d)) /\ newest' = newest
           /\ run' \in [Deployer -> [version : Version \cup {0}, missing : BOOLEAN, step : Nat,
                                     known : SUBSET Names, disturbed : BOOLEAN]]
           /\ \A e \in Deployer \ {d} : run'[e] = run[e]
           /\ \E next \in run[d].step + 1 .. Len(Program[run[d].version]) + 1 :
                 /\ \A k \in run[d].step + 1 .. next - 1 :
                       LeftOut(Program[run[d].version][k], run[d].missing, Known(d, Statement(d)))
                 /\ \/ /\ next \in 1 .. Len(Program[run[d].version])
                       /\ run'[d].version = run[d].version /\ run'[d].missing = run[d].missing
                       /\ run'[d].disturbed = run[d].disturbed
                       /\ run'[d].step = next /\ run'[d].known = Known(d, Statement(d))
                       /\ run'[d] # Idle
                       /\ deployed' = deployed
                    \/ /\ next = Len(Program[run[d].version]) + 1
                       /\ run'[d] = Idle
                       /\ deployed' = IF Completes(d) THEN newest ELSE 0
  <1> DEFINE v == run[d].version
             i == run[d].step
             p == Program[v]
             known == Known(d, Statement(d))
             n == From(v, i + 1, run[d].missing, known)
             Runs == [version : Version \cup {0}, missing : BOOLEAN, step : Nat,
                      known : SUBSET Names, disturbed : BOOLEAN]
  <1>1. /\ run[d] # Idle /\ Accepts(Statement(d)) /\ db' = After(Statement(d)) /\ newest' = newest
        /\ IF n > Len(p)
           THEN /\ run' = [run EXCEPT ![d] = Idle]
                /\ deployed' = IF Completes(d) THEN newest ELSE 0
           ELSE /\ run' = [run EXCEPT ![d].step = n, ![d].known = known]
                /\ UNCHANGED deployed
    BY DEF Exec
  <1>2. v \in Version /\ v \in 1 .. newest /\ i \in 1 .. Len(p) /\ Len(p) \in Nat
    BY <1>1, AtStatement DEF RightsInv
  <1>3. run \in [Deployer -> Runs]
    BY DEF RightsInv, TypeOK
  <1>4. known \in SUBSET Names
    <2>1. run[d].known \in SUBSET Names
      BY <1>3
    <2>2. QED
      BY <2>1, NamesThere DEF Known, RightsInv
  <1>5. n \in i + 1 .. Len(p) + 1 /\ \A k \in i + 1 .. n - 1 : LeftOut(p[k], run[d].missing, known)
    <2>1. i + 1 \in 1 .. Len(p) + 1
      BY <1>2
    <2>2. QED
      BY <1>2, <2>1, FirstFrom
  <1> HIDE DEF n, known, p
  <1>6. CASE n > Len(p)
    <2>1. run' = [run EXCEPT ![d] = Idle] /\ deployed' = IF Completes(d) THEN newest ELSE 0
      BY <1>1, <1>6
    <2>2. Idle \in Runs
      BY DEF Idle
    <2>3. run' \in [Deployer -> Runs] /\ run'[d] = Idle /\ \A e \in Deployer \ {d} : run'[e] = run[e]
      BY <1>3, <2>1, <2>2
    <2>4. n = Len(p) + 1
      BY <1>2, <1>5, <1>6
    <2>5. QED
      BY <1>1, <1>5, <2>1, <2>3, <2>4 DEF p, known
  <1>7. CASE ~(n > Len(p))
    <2>1. run' = [run EXCEPT ![d].step = n, ![d].known = known] /\ deployed' = deployed
      BY <1>1, <1>7
    <2>2. n \in 1 .. Len(p) /\ n \in Nat
      BY <1>2, <1>5, <1>7
    <2> DEFINE r == [run[d] EXCEPT !.step = n, !.known = known]
    <2>3. run' = [run EXCEPT ![d] = r]
      BY <1>3, <2>1
    <2>4. run[d] \in Runs
      BY <1>3
    <2>5. /\ r \in Runs /\ r.version = v /\ r.missing = run[d].missing /\ r.disturbed = run[d].disturbed
          /\ r.step = n /\ r.known = known
      BY <1>4, <2>2, <2>4
    <2>6. r # Idle
      <3>1. v # 0 /\ Idle.version = 0
        BY <1>2 DEF Idle
      <3>2. QED
        BY <2>5, <3>1
    <2> HIDE DEF r
    <2>7. run' \in [Deployer -> Runs] /\ run'[d] = r /\ \A e \in Deployer \ {d} : run'[e] = run[e]
      BY <1>3, <2>3, <2>5
    <2>8. QED
      BY <1>1, <1>5, <2>1, <2>2, <2>5, <2>6, <2>7 DEF p, known
  <1>8. QED
    BY <1>6, <1>7

-----------------------------------------------------------------------------
(* What users may do *)

\* The first state.
LEMMA InitRights == Init => RightsInv
  <1> SUFFICES ASSUME Init PROVE RightsInv
    OBVIOUS
  <1> USE DEF Init
  <1>1. TypeOK
    <2>1. newest \in Version /\ deployed \in Version \cup {0}
      BY SchemaFacts
    <2>2. Idle \in [version : Version \cup {0}, missing : BOOLEAN, step : Nat,
                    known : SUBSET Names, disturbed : BOOLEAN]
      BY DEF Idle
    <2>3. QED
      BY <2>1, <2>2 DEF TypeOK
  <1>2. ColumnsKnown
    BY DEF ColumnsKnown
  <1>3. RunsOK /\ RulesDone
    BY DEF RunsOK, RulesDone
  <1>4. GrantsKnown
    BY DEF GrantsKnown
  <1>5. QED
    BY <1>1, <1>2, <1>3, <1>4 DEF RightsInv

\* A deployment is started: Start.
LEMMA StartRights ==
    ASSUME RightsInv, NEW d \in Deployer, NEW v \in Version, NEW missing \in Modes, Start(d, v, missing)
    PROVE  RightsInv'
  <1>1. /\ newest' = v /\ v >= newest /\ deployed' = 0 /\ db' = db
        /\ run' \in [Deployer -> [version : Version \cup {0}, missing : BOOLEAN, step : Nat,
                                  known : SUBSET Names, disturbed : BOOLEAN]]
        /\ \A e \in Deployer \ {d} : run'[e] = run[e]
        /\ run'[d].version = v
        /\ run'[d].step \in 1 .. Len(Program[v])
        /\ \A k \in 1 .. run'[d].step - 1 : LeftOut(Program[v][k], missing, Existing(missing))
    BY StartRun
  <1>2. newest \in Int /\ v \in Int /\ v \in 1 .. v /\ 1 .. newest \subseteq 1 .. v
    BY <1>1, SchemaFacts DEF RightsInv, TypeOK
  <1>3. TypeOK'
    BY <1>1 DEF RightsInv, TypeOK
  <1>4. ColumnsKnown'
    BY <1>1 DEF RightsInv, ColumnsKnown
  <1>5. RunsOK'
    <2> SUFFICES ASSUME NEW e \in Deployer, run'[e] # Idle
                 PROVE  run'[e].version \in 1 .. v /\ run'[e].step \in 1 .. Len(Program[run'[e].version])
      BY <1>1 DEF RunsOK
    <2>1. CASE e = d
      BY <1>1, <1>2, <2>1
    <2>2. CASE e # d
      BY <1>1, <1>2, <2>2 DEF RightsInv, RunsOK
    <2>3. QED
      BY <2>1, <2>2
  <1>6. RulesDone'
    <2> SUFFICES ASSUME NEW e \in Deployer, run'[e] # Idle, NEW k \in 1 .. run'[e].step - 1,
                        Program[run'[e].version][k].cmd = "rule"
                 PROVE  <<Program[run'[e].version][k].table, Program[run'[e].version][k].what>> \in db'.rules
      BY DEF RulesDone
    <2>1. CASE e = d
      BY <1>1, <2>1, LeftOutIs
    <2>2. CASE e # d
      BY <1>1, <2>2 DEF RightsInv, RulesDone
    <2>3. QED
      BY <2>1, <2>2
  <1>7. GrantsKnown'
    BY <1>1, <1>2 DEF RightsInv, GrantsKnown
  <1>8. QED
    BY <1>3, <1>4, <1>5, <1>6, <1>7 DEF RightsInv

\* The rules before every later statement are in place, too.
LEMMA ExecutedRules ==
    ASSUME RightsInv, NEW d \in Deployer, Exec(d),
           NEW k \in 1 .. Len(Program[run[d].version]), Program[run[d].version][k].cmd = "rule",
           k <= run[d].step \/ LeftOut(Program[run[d].version][k], run[d].missing, Known(d, Statement(d)))
    PROVE  <<Program[run[d].version][k].table, Program[run[d].version][k].what>> \in db'.rules
  <1>1. run[d] # Idle /\ db' = After(Statement(d))
    BY DEF Exec
  <1>2. /\ run[d].step \in 1 .. Len(Program[run[d].version])
        /\ Statement(d) = Program[run[d].version][run[d].step] /\ Statement(d).cmd \in Cmds
    BY <1>1, AtStatement DEF RightsInv
  <1>3. db'.rules = db.rules \cup (IF Statement(d).cmd = "rule"
                                   THEN {<<Statement(d).table, Statement(d).what>>} ELSE {})
    BY <1>1, <1>2, Grown DEF RightsInv
  <1>4. ~LeftOut(Program[run[d].version][k], run[d].missing, Known(d, Statement(d)))
    BY LeftOutIs
  <1>5. CASE k = run[d].step
    BY <1>2, <1>3, <1>5
  <1>6. CASE k \in 1 .. run[d].step - 1
    BY <1>1, <1>3, <1>6 DEF RightsInv, RulesDone
  <1>7. QED
    BY <1>2, <1>4, <1>5, <1>6

\* A statement is executed: Exec.
LEMMA ExecRights ==
    ASSUME RightsInv, NEW d \in Deployer, Exec(d)
    PROVE  RightsInv'
  <1> DEFINE v == run[d].version
             i == run[d].step
             p == Program[v]
  <1>1. /\ run[d] # Idle /\ db' = After(Statement(d)) /\ newest' = newest
        /\ run' \in [Deployer -> [version : Version \cup {0}, missing : BOOLEAN, step : Nat,
                                  known : SUBSET Names, disturbed : BOOLEAN]]
        /\ \A e \in Deployer \ {d} : run'[e] = run[e]
    BY ExecRun
  <1>2. PICK next \in i + 1 .. Len(p) + 1 :
              /\ \A k \in i + 1 .. next - 1 : LeftOut(p[k], run[d].missing, Known(d, Statement(d)))
              /\ \/ /\ next \in 1 .. Len(p) /\ run'[d].version = v /\ run'[d].step = next
                    /\ deployed' = deployed
                 \/ /\ run'[d] = Idle
                    /\ deployed' = IF Completes(d) THEN newest ELSE 0
    BY ExecRun
  <1>3. /\ v \in 1 .. newest
        /\ i \in 1 .. Len(p)
        /\ Len(p) \in Nat
        /\ Statement(d) = p[i]
        /\ Statement(d).cmd \in Cmds
    BY <1>1, AtStatement DEF RightsInv
  <1>4. db' = [columns |-> db'.columns, uniques |-> db'.uniques, rules |-> db'.rules,
               grants |-> db'.grants, triggers |-> db'.triggers]
        /\ db.rules \subseteq db'.rules
    BY <1>1, <1>3, Grown DEF RightsInv
  <1>5. TypeOK'
    BY <1>1, <1>2, <1>4 DEF RightsInv, TypeOK
  <1>6. ColumnsKnown' /\ GrantsKnown'
    BY <1>1, ExecutedRights
  <1>7. RunsOK'
    <2> SUFFICES ASSUME NEW e \in Deployer, run'[e] # Idle
                 PROVE  run'[e].version \in 1 .. newest /\ run'[e].step \in 1 .. Len(Program[run'[e].version])
      BY <1>1 DEF RunsOK
    <2>1. CASE e = d
      BY <1>2, <1>3, <2>1
    <2>2. CASE e # d
      BY <1>1, <2>2 DEF RightsInv, RunsOK
    <2>3. QED
      BY <2>1, <2>2
  <1>8. RulesDone'
    <2> SUFFICES ASSUME NEW e \in Deployer, run'[e] # Idle, NEW k \in 1 .. run'[e].step - 1,
                        Program[run'[e].version][k].cmd = "rule"
                 PROVE  <<Program[run'[e].version][k].table, Program[run'[e].version][k].what>> \in db'.rules
      BY DEF RulesDone
    <2>1. CASE e = d
      <3>1. next \in 1 .. Len(p) /\ run'[d].version = v /\ run'[d].step = next
        BY <1>2, <2>1
      <3>2. k \in 1 .. Len(p) /\ p[k].cmd = "rule" /\ (k <= i \/ k \in i + 1 .. next - 1)
        BY <1>3, <2>1, <3>1
      <3> HIDE DEF p, v, i
      <3>3. k <= i \/ LeftOut(p[k], run[d].missing, Known(d, Statement(d)))
        BY <1>2, <3>2
      <3>4. <<p[k].table, p[k].what>> \in db'.rules
        BY <3>2, <3>3, ExecutedRules DEF p, v, i
      <3>5. QED
        BY <2>1, <3>1, <3>4 DEF p
    <2>2. CASE e # d
      BY <1>1, <1>4, <2>2 DEF RightsInv, RulesDone
    <2>3. QED
      BY <2>1, <2>2
  <1>9. QED
    BY <1>5, <1>6, <1>7, <1>8 DEF RightsInv

\* A statement is executed and its reply lost: ExecUnanswered.
LEMMA UnansweredRights ==
    ASSUME RightsInv, NEW d \in Deployer, ExecUnanswered(d)
    PROVE  RightsInv'
  <1>1. /\ run[d] # Idle /\ db' = After(Statement(d)) /\ newest' = newest
        /\ run' = run /\ deployed' = deployed
    BY DEF ExecUnanswered
  <1>2. Statement(d).cmd \in Cmds
    BY <1>1, AtStatement DEF RightsInv
  <1>3. db' = [columns |-> db'.columns, uniques |-> db'.uniques, rules |-> db'.rules,
               grants |-> db'.grants, triggers |-> db'.triggers]
        /\ db.rules \subseteq db'.rules
    BY <1>1, <1>2, Grown DEF RightsInv
  <1>4. TypeOK'
    BY <1>1, <1>3 DEF RightsInv, TypeOK
  <1>5. ColumnsKnown' /\ GrantsKnown'
    BY <1>1, ExecutedRights
  <1>6. RunsOK' /\ RulesDone'
    BY <1>1, <1>3 DEF RightsInv, RunsOK, RulesDone
  <1>7. QED
    BY <1>4, <1>5, <1>6 DEF RightsInv

\* A deployer that ends, and what becomes of the others.
LEMMA EndRun ==
    ASSUME RightsInv, NEW d \in Deployer, ExecThrows(d) \/ Crash(d)
    PROVE  /\ db' = db /\ newest' = newest /\ deployed' = deployed
           /\ run' \in [Deployer -> [version : Version \cup {0}, missing : BOOLEAN, step : Nat,
                                     known : SUBSET Names, disturbed : BOOLEAN]]
           /\ run'[d] = Idle
           /\ \A e \in Deployer : run'[e] # Idle =>
                 /\ e # d /\ run[e] # Idle
                 /\ run'[e].version = run[e].version /\ run'[e].missing = run[e].missing
                 /\ run'[e].step = run[e].step /\ run'[e].known = run[e].known
                 /\ run'[e].disturbed \/ (ExecThrows(d) /\ run'[e] = run[e])
  <1> DEFINE Runs == [version : Version \cup {0}, missing : BOOLEAN, step : Nat,
                      known : SUBSET Names, disturbed : BOOLEAN]
  <1>1. run \in [Deployer -> Runs] /\ Idle \in Runs
    BY DEF RightsInv, TypeOK, Idle
  <1>2. CASE ExecThrows(d)
    <2>1. db' = db /\ newest' = newest /\ deployed' = deployed /\ run' = [run EXCEPT ![d] = Idle]
      BY <1>2 DEF ExecThrows
    <2>2. QED
      BY <1>1, <1>2, <2>1
  <1>3. CASE Crash(d)
    <2>1. /\ db' = db /\ newest' = newest /\ deployed' = deployed
          /\ run' = [e \in Deployer |->
                        IF e = d THEN Idle
                        ELSE IF run[e] # Idle THEN [run[e] EXCEPT !.disturbed = TRUE] ELSE Idle]
      BY <1>3 DEF Crash
    <2>2. ASSUME NEW e \in Deployer
          PROVE  /\ run'[e] \in Runs
                 /\ run'[e] # Idle =>
                       /\ e # d /\ run[e] # Idle
                       /\ run'[e].version = run[e].version /\ run'[e].missing = run[e].missing
                       /\ run'[e].step = run[e].step /\ run'[e].known = run[e].known
                       /\ run'[e].disturbed
      <3>1. CASE e = d \/ run[e] = Idle
        BY <1>1, <2>1, <3>1
      <3>2. CASE e # d /\ run[e] # Idle
        <4>1. run'[e] = [run[e] EXCEPT !.disturbed = TRUE] /\ run[e] \in Runs
          BY <1>1, <2>1, <3>2
        <4>2. QED
          BY <3>2, <4>1
      <3>3. QED
        BY <3>1, <3>2
    <2>3. run' \in [Deployer -> Runs] /\ run'[d] = Idle
      BY <1>1, <2>1, <2>2
    <2>4. QED
      BY <2>1, <2>2, <2>3
  <1>4. QED
    BY <1>2, <1>3

\* A deployment ends in the middle: ExecThrows and Crash.
LEMMA EndRights ==
    ASSUME RightsInv, NEW d \in Deployer, ExecThrows(d) \/ Crash(d)
    PROVE  RightsInv'
  <1>1. /\ db' = db /\ newest' = newest /\ deployed' = deployed
        /\ run' \in [Deployer -> [version : Version \cup {0}, missing : BOOLEAN, step : Nat,
                                  known : SUBSET Names, disturbed : BOOLEAN]]
        /\ \A e \in Deployer : run'[e] # Idle =>
              run[e] # Idle /\ run'[e].version = run[e].version /\ run'[e].step = run[e].step
    BY EndRun
  <1>2. TypeOK'
    BY <1>1 DEF RightsInv, TypeOK
  <1>3. ColumnsKnown' /\ GrantsKnown'
    BY <1>1 DEF RightsInv, ColumnsKnown, GrantsKnown
  <1>4. RunsOK' /\ RulesDone'
    BY <1>1 DEF RightsInv, RunsOK, RulesDone
  <1>5. QED
    BY <1>2, <1>3, <1>4 DEF RightsInv

\* Nothing happens.
LEMMA StutterRights ==
    ASSUME RightsInv, UNCHANGED vars
    PROVE  RightsInv'
  BY DEF RightsInv, TypeOK, ColumnsKnown, RunsOK, RulesDone, GrantsKnown, vars

\* Any step.
LEMMA NextRights ==
    ASSUME RightsInv, [Next]_vars
    PROVE  RightsInv'
  <1>1. CASE UNCHANGED vars
    BY <1>1, StutterRights
  <1>2. ASSUME NEW d \in Deployer, NEW v \in Version, NEW missing \in Modes, Start(d, v, missing)
        PROVE  RightsInv'
    BY <1>2, StartRights
  <1>3. ASSUME NEW d \in Deployer, Exec(d) PROVE RightsInv'
    BY <1>3, ExecRights
  <1>4. ASSUME NEW d \in Deployer, ExecThrows(d) \/ Crash(d) PROVE RightsInv'
    BY <1>4, EndRights
  <1>5. ASSUME NEW d \in Deployer, ExecUnanswered(d) PROVE RightsInv'
    BY <1>5, UnansweredRights
  <1>6. QED
    BY <1>1, <1>2, <1>3, <1>4, <1>5 DEF Next, Step

\* The inductive invariant holds, whatever the schema, its versions and the
\* deployers: src/SqlSchema_p.h:160-192 and the statements it executes.
THEOREM RightsInvariant == Spec => []RightsInv
  <1>1. RightsInv /\ [Next]_vars => RightsInv'
    BY NextRights
  <1>2. QED
    BY <1>1, InitRights, PTL DEF Spec

\* The invariant implies the property.
LEMMA RightsAreKnown == RightsInv => RightsKnown
  <1> SUFFICES ASSUME RightsInv, NEW t \in TableNames, NEW r \in Rights, <<"user", t, r>> \in db.grants
               PROVE  \E v \in 1 .. newest : \E u \in ToSet(Schema[v]) : u.name = t /\ r \in AskedRights(u)
    BY DEF RightsKnown
  <1>1. t \in Names
    BY NamesThere DEF RightsInv
  <1>2. QED
    BY <1>1 DEF RightsInv, GrantsKnown, UserRights, AskedRights

\* What users may do is something that some version deployed so far lets them
\* do, for every schema: rights are granted only by a table's own statements.
THEOREM RightsAlwaysKnown == Spec => []RightsKnown
  BY RightsInvariant, RightsAreKnown, PTL

\* The invariant implies that users are heard.
LEMMA RulesAreFirst ==
    ASSUME KindsAgree, RightsInv
    PROVE  HeardFirst
  <1> SUFFICES ASSUME NEW v \in 1 .. newest, NEW t \in ToSet(Schema[v]), ~t.isLookup, ~t.isRelation,
                      NEW r \in Granted(t) \ {"SELECT"}
               PROVE  <<t.name, r>> \in db.rules
    BY DEF HeardFirst
  <1>1. \A w \in 1 .. newest : w \in Version
    BY SchemaFacts DEF RightsInv, TypeOK
  <1>2. t \in Declared /\ t.name \in Names
    BY <1>1, SchemaFacts DEF Names
  <1>3. r \in Rights /\ r # "SELECT" /\ <<"user", t.name, r>> \in db.grants
    BY DEF Granted
  <1>4. PICK w \in 1 .. newest : \E u \in ToSet(Schema[w]) :
                /\ u.name = t.name
                /\ r = "SELECT" \/ u.isLookup \/ u.isRelation \/ <<t.name, r>> \in db.rules
    BY <1>2, <1>3 DEF RightsInv, GrantsKnown
  <1>5. PICK u \in ToSet(Schema[w]) :
                /\ u.name = t.name
                /\ r = "SELECT" \/ u.isLookup \/ u.isRelation \/ <<t.name, r>> \in db.rules
    BY <1>4
  <1>6. u \in Declared
    BY <1>1, SchemaFacts
  <1>7. u.isLookup = t.isLookup /\ u.isRelation = t.isRelation
    BY <1>2, <1>5, <1>6 DEF KindsAgree
  <1>8. QED
    BY <1>3, <1>5, <1>7

\* A user who may change the rows of a table that notifies is heard, for every
\* schema whose tables stay lookup tables or relations, or not, over the
\* versions: the rules are created before the rights are granted.
THEOREM UsersHeardFirst == KindsAgree => (Spec => []HeardFirst)
  <1> SUFFICES ASSUME KindsAgree PROVE Spec => []HeardFirst
    OBVIOUS
  <1>1. RightsInv => HeardFirst
    BY RulesAreFirst
  <1>2. QED
    BY <1>1, RightsInvariant, PTL

-----------------------------------------------------------------------------
(* What is in place *)

\* The statements' own columns and tables agree with what is there.
LEMMA ColumnAgrees ==
    ASSUME TablesAgree, ColumnsKnown, NEW t \in Declared, NEW c \in ToSet(t.columns),
           c.name \in ColumnsThere(db, t.name)
    PROVE  DbColumn(t.name, ColumnStatement(c)) \in db.columns
  <1>1. PICK e \in db.columns : e.table = t.name /\ e.name = c.name
    BY DEF ColumnsThere
  <1>2. PICK u \in Declared : \E b \in ToSet(u.columns) : e = DbColumn(u.name, ColumnStatement(b))
    BY DEF ColumnsKnown
  <1>3. PICK b \in ToSet(u.columns) : e = DbColumn(u.name, ColumnStatement(b))
    BY <1>2
  <1>4. e.table = u.name /\ e.name = b.name
    BY <1>3 DEF DbColumn, ColumnStatement
  <1>5. ColumnStatement(c) = ColumnStatement(b)
    BY <1>1, <1>2, <1>3, <1>4 DEF TablesAgree
  <1>6. QED
    BY <1>1, <1>3, <1>4, <1>5

\* What CREATE TABLE says of a column but its clauses.
LEMMA ColumnStatementOf ==
    ASSUME NEW c
    PROVE  ColumnStatement(c).name = c.name /\ ColumnStatement(c).references = c.references
  BY DEF ColumnStatement

\* When a statement is in place.
LEMMA PlaceOf ==
    ASSUME NEW b, NEW s, NEW missing \in BOOLEAN,
           s.cmd = "table" => {s.table} \X s.what.constraints \subseteq b.uniques,
           s.cmd = "table" /\ ~missing => DbColumns(s) \subseteq b.columns,
           s.cmd = "column" /\ missing => DbColumn(s.table, s.what) \in b.columns,
           s.cmd = "user" => {"user"} \X {s.table} \X s.what \subseteq b.grants
    PROVE  InPlace(b, s, missing)
  BY DEF InPlace

\* What stays in place.
LEMMA InPlaceGrows ==
    ASSUME NEW s, NEW m, NEW a, NEW b, InPlace(a, s, m),
           a.columns \subseteq b.columns, a.uniques \subseteq b.uniques, a.grants \subseteq b.grants
    PROVE  InPlace(b, s, m)
  BY DEF InPlace

\* What a statement that is executed leaves.
LEMMA ExecutedDb ==
    ASSUME TablesAgree, RightsInv, UniquesKept, NEW d \in Deployer, run[d] # Idle,
           Accepts(Statement(d)), db' = After(Statement(d))
    PROVE  /\ db.columns \subseteq db'.columns /\ db.uniques \subseteq db'.uniques
           /\ db.grants \subseteq db'.grants
           /\ \A m \in BOOLEAN : InPlace(db', Statement(d), m)
           /\ UniquesKept'
           /\ \A x \in db.triggers : \/ x \in db'.triggers
                                     \/ Statement(d).cmd = "drop" /\ x = <<Statement(d).table, Statement(d).what>>
           /\ Statement(d).cmd = "create" => <<Statement(d).table, Statement(d).what>> \in db'.triggers
  <1> DEFINE v == run[d].version
             i == run[d].step
             s == Statement(d)
  <1>1. v \in Version /\ i \in 1 .. Len(Program[v]) /\ s = Program[v][i] /\ s.cmd \in Cmds
    BY AtStatement DEF RightsInv
  <1>2. Accepts(s) /\ db' = After(s)
    OBVIOUS
  <1>3. s.cmd = "table" => \E t \in Declared : s = Command("table", t, CreateTableStatement(t))
    <2> SUFFICES ASSUME s.cmd = "table"
                 PROVE  \E t \in Declared : s = Command("table", t, CreateTableStatement(t))
      OBVIOUS
    <2>1. \E t \in ToSet(Schema[v]) : s = Command("table", t, CreateTableStatement(t))
      BY <1>1, Forms, CommandOf DEF Formed
    <2>2. QED
      BY <1>1, <2>1, SchemaFacts
  <1> HIDE DEF v, i, s
  <1>4. /\ db'.columns = db.columns \cup (IF s.cmd = "table" THEN DbColumns(s)
                                          ELSE IF s.cmd = "column" THEN {DbColumn(s.table, s.what)} ELSE {})
        /\ db'.uniques = db.uniques \cup (IF s.cmd = "table" THEN {s.table} \X s.what.constraints ELSE {})
        /\ db'.grants = db.grants \cup (IF s.cmd \in {"admin", "user"}
                                        THEN {s.cmd} \X {s.table} \X s.what ELSE {})
        /\ db'.triggers = IF s.cmd = "drop" THEN db.triggers \ {<<s.table, s.what>>}
                          ELSE db.triggers \cup (IF s.cmd = "create" THEN {<<s.table, s.what>>} ELSE {})
    BY <1>1, <1>2, Grown DEF RightsInv
  <1>5. /\ db.columns \subseteq db'.columns
        /\ db.uniques \subseteq db'.uniques
        /\ db.grants \subseteq db'.grants
    BY <1>4
  <1>6. ASSUME NEW m \in BOOLEAN PROVE InPlace(db', s, m)
    <2>1. s.cmd = "table" => {s.table} \X s.what.constraints \subseteq db'.uniques /\ DbColumns(s) \subseteq db'.columns
      BY <1>4
    <2>2. s.cmd = "column" => DbColumn(s.table, s.what) \in db'.columns
      BY <1>4
    <2>3. s.cmd = "user" => {"user"} \X {s.table} \X s.what \subseteq db'.grants
      BY <1>4
    <2>4. QED
      BY <2>1, <2>2, <2>3 DEF InPlace
  <1>7. UniquesKept'
    <2> SUFFICES ASSUME NEW t \in Declared, t.name \in {c.table : c \in db'.columns}
                 PROVE  {t.name} \X t.constraints \subseteq db'.uniques
      BY DEF UniquesKept, TableNames
    <2>1. CASE t.name \in {c.table : c \in db.columns}
      BY <1>5, <2>1 DEF UniquesKept, TableNames
    <2>2. CASE t.name \notin {c.table : c \in db.columns}
      <3>1. PICK e \in db'.columns : e.table = t.name /\ e \notin db.columns
        BY <2>2
      <3>2. CASE s.cmd = "table"
        <4>1. PICK u \in Declared : s = Command("table", u, CreateTableStatement(u))
          BY <1>3, <3>2
        <4>2. e \in DbColumns(s)
          BY <1>4, <3>1, <3>2
        <4>3. t.name = s.table
          BY <3>1, <4>2 DEF DbColumns, DbColumn
        <4>4. s.table = u.name /\ s.what = CreateTableStatement(u)
          BY <4>1, CommandOf
        <4>5. s.what.constraints = t.constraints
          BY <4>3, <4>4 DEF CreateTableStatement, TablesAgree
        <4>6. QED
          BY <1>4, <3>2, <4>3, <4>5
      <3>3. CASE s.cmd = "column"
        <4>1. e = DbColumn(s.table, s.what)
          BY <1>4, <3>1, <3>3
        <4>2. t.name = s.table
          BY <3>1, <4>1 DEF DbColumn
        <4>3. s.table \in TableNames
          BY <1>2, <3>3 DEF Accepts
        <4>4. QED
          BY <2>2, <4>2, <4>3 DEF TableNames
      <3>4. QED
        BY <1>4, <3>1, <3>2, <3>3
    <2>3. QED
      BY <2>1, <2>2
  <1>8. \A x \in db.triggers : \/ x \in db'.triggers
                               \/ s.cmd = "drop" /\ x = <<s.table, s.what>>
    BY <1>4
  <1>9. s.cmd = "create" => <<s.table, s.what>> \in db'.triggers
    BY <1>4
  <1>10. QED
    BY <1>5, <1>6, <1>7, <1>8, <1>9 DEF s

\* What is left out because it is known is in place.
LEMMA LeftInPlace ==
    ASSUME TablesAgree, RightsInv, UniquesKept, NEW v \in Version, NEW k \in 1 .. Len(Program[v]),
           NEW missing \in BOOLEAN, NEW known, LeftOut(Program[v][k], missing, known),
           Program[v][k].cmd = "table" => known \subseteq Existing(missing),
           Program[v][k].cmd = "column" /\ missing => known \subseteq ColumnsThere(db, Program[v][k].table)
    PROVE  InPlace(db, Program[v][k], missing)
  <1> DEFINE s == Program[v][k]
  <1>1. /\ s.cmd = "table" => known \subseteq Existing(missing)
        /\ s.cmd = "column" /\ missing => known \subseteq ColumnsThere(db, s.table)
    OBVIOUS
  <1>2. \/ s.cmd = "table" /\ s.table \in known
        \/ s.cmd = "read" /\ ~missing
        \/ s.cmd = "column" /\ (~missing \/ s.what.name \in known)
    BY LeftOutIs
  <1>3. s.cmd = "table" => \E t \in Declared : s = Command("table", t, CreateTableStatement(t))
    <2> SUFFICES ASSUME s.cmd = "table"
                 PROVE  \E t \in Declared : s = Command("table", t, CreateTableStatement(t))
      OBVIOUS
    <2>1. \E t \in ToSet(Schema[v]) : s = Command("table", t, CreateTableStatement(t))
      BY Forms, CommandOf DEF Formed
    <2>2. QED
      BY <2>1, SchemaFacts
  <1>4. s.cmd = "column" => \E t \in Declared : \E c \in ToSet(t.columns) : s = Command("column", t, ColumnStatement(c))
    <2> SUFFICES ASSUME s.cmd = "column"
                 PROVE  \E t \in Declared : \E c \in ToSet(t.columns) : s = Command("column", t, ColumnStatement(c))
      OBVIOUS
    <2>1. \E t \in ToSet(Schema[v]) : \E c \in ToSet(t.columns) : s = Command("column", t, ColumnStatement(c))
      BY Forms, CommandOf DEF Formed
    <2>2. QED
      BY <2>1, SchemaFacts
  <1> SUFFICES InPlace(db, s, missing)
    OBVIOUS
  <1> HIDE DEF s
  <1>5. CASE s.cmd = "table"
    <2>1. PICK t \in Declared : s = Command("table", t, CreateTableStatement(t))
      BY <1>3, <1>5
    <2>2. s.table = t.name /\ s.what.constraints = t.constraints
      BY <2>1, CommandOf DEF CreateTableStatement
    <2>3. s.table \in Existing(missing)
      BY <1>1, <1>2, <1>5
    <2>4. missing /\ t.name \in TableNames
      BY <2>2, <2>3 DEF Existing
    <2>5. {s.table} \X s.what.constraints \subseteq db.uniques
      BY <2>2, <2>4 DEF UniquesKept
    <2>6. s.cmd # "column" /\ s.cmd # "user"
      BY <1>5
    <2>7. QED
      BY <2>4, <2>5, <2>6, PlaceOf
  <1>6. CASE s.cmd = "column"
    <2>1. PICK t \in Declared : \E c \in ToSet(t.columns) : s = Command("column", t, ColumnStatement(c))
      BY <1>4, <1>6
    <2>2. PICK c \in ToSet(t.columns) : s = Command("column", t, ColumnStatement(c))
      BY <2>1
    <2>3. s.table = t.name /\ s.what = ColumnStatement(c)
      BY <2>2, CommandOf
    <2>4. s.what.name = c.name
      BY <2>3, ColumnStatementOf
    <2>5. s.cmd # "table" /\ s.cmd # "user" /\ s.cmd # "read"
      BY <1>6
    <2>6. CASE missing
      <3>1. c.name \in ColumnsThere(db, t.name)
        BY <1>1, <1>2, <1>6, <2>3, <2>4, <2>5, <2>6
      <3>2. DbColumn(s.table, s.what) \in db.columns
        BY <2>3, <3>1, ColumnAgrees DEF RightsInv
      <3>3. QED
        BY <2>5, <3>2, PlaceOf
    <2>7. CASE ~missing
      BY <2>5, <2>7, PlaceOf
    <2>8. QED
      BY <2>6, <2>7
  <1>7. CASE s.cmd = "read"
    <2>1. s.cmd # "table" /\ s.cmd # "user" /\ s.cmd # "column"
      BY <1>7
    <2>2. QED
      BY <2>1, PlaceOf
  <1>8. QED
    BY <1>2, <1>5, <1>6, <1>7

\* What a deployer knows behind its statement is there, for the statements it
\* may come to.
LEMMA KnownLater ==
    ASSUME RightsInv, KnownThere, NEW d \in Deployer, run[d] # Idle,
           NEW k \in run[d].step + 1 .. Len(Program[run[d].version]),
           \A m \in run[d].step + 1 .. k - 1 :
              LeftOut(Program[run[d].version][m], run[d].missing, Known(d, Statement(d)))
    PROVE  /\ Program[run[d].version][k].cmd = "table" =>
                 Known(d, Statement(d)) \subseteq Existing(run[d].missing)
           /\ Program[run[d].version][k].cmd = "column" /\ run[d].missing =>
                 Known(d, Statement(d)) \subseteq ColumnsThere(db, Program[run[d].version][k].table)
  <1> DEFINE v == run[d].version
             i == run[d].step
             p == Program[v]
             known == Known(d, Statement(d))
  <1>1. v \in Version /\ i \in 1 .. Len(p) /\ Len(p) \in Nat /\ Statement(d) = p[i]
    BY AtStatement DEF RightsInv
  <1>2. /\ p \in ReadFirst(Statements(ToSet(Schema[v])))
        /\ \A m \in 1 .. Len(p) : p[m].cmd = "table" => \A j \in 1 .. m - 1 : p[j].cmd = "table"
    BY <1>1, ProgramOf
  <1>3. \A m \in i + 1 .. k - 1 : LeftOut(p[m], run[d].missing, known)
    OBVIOUS
  <1>4. /\ p[i].cmd = "read" => known = ColumnsThere(db, p[i].table)
        /\ p[i].cmd # "read" => known = run[d].known
    BY <1>1 DEF Known, ColumnsThere
  <1>5. /\ p[i].cmd = "table" => run[d].known \subseteq Existing(run[d].missing)
        /\ p[i].cmd = "column" /\ run[d].missing => run[d].known \subseteq ColumnsThere(db, p[i].table)
    BY <1>1 DEF KnownThere
  <1>6. k \in i + 1 .. Len(p)
    OBVIOUS
  <1> HIDE DEF p, known, i
  <1>7. ASSUME p[k].cmd = "table" PROVE known \subseteq Existing(run[d].missing)
    <2>1. k \in 1 .. Len(p) /\ i \in 1 .. k - 1
      BY <1>1, <1>6
    <2>2. p[i].cmd = "table"
      BY <1>2, <1>7, <2>1
    <2>3. QED
      BY <1>4, <1>5, <2>2
  <1>8. ASSUME p[k].cmd = "column", run[d].missing PROVE known \subseteq ColumnsThere(db, p[k].table)
    <2>1. k \in 1 .. Len(p)
      BY <1>1, <1>6
    <2>2. Reads(p, k)
      BY <1>2, <1>8, <2>1 DEF ReadFirst
    <2>3. PICK j \in 1 .. k - 1 :
                /\ p[j].cmd = "read"
                /\ \A m \in j .. k : p[m].table = p[k].table /\ (m # j => p[m].cmd = "column")
      BY <2>2 DEF Reads
    <2>4. j \notin i + 1 .. k - 1
      <3>1. ~LeftOut(p[j], run[d].missing, known)
        BY <1>8, <2>3, LeftOutIs
      <3>2. QED
        BY <1>3, <3>1
    <2>5. i \in j .. k
      BY <1>1, <1>6, <2>4
    <2>6. p[i].table = p[k].table /\ (i # j => p[i].cmd = "column")
      BY <2>3, <2>5
    <2>7. CASE i = j
      BY <1>4, <2>3, <2>6, <2>7
    <2>8. CASE i # j
      BY <1>4, <1>5, <1>8, <2>6, <2>8
    <2>9. QED
      BY <2>7, <2>8
  <1>9. QED
    BY <1>7, <1>8 DEF p, known

\* A column is there once its table's creation and its own addition are in place.
LEMMA ColumnInPlace ==
    ASSUME NEW b, NEW missing \in BOOLEAN, NEW t \in Declared, NEW c \in ToSet(t.columns),
           InPlace(b, Command("table", t, CreateTableStatement(t)), missing),
           InPlace(b, Command("column", t, ColumnStatement(c)), missing)
    PROVE  DbColumn(t.name, ColumnStatement(c)) \in b.columns
  <1>1. CASE missing
    <2> DEFINE s == Command("column", t, ColumnStatement(c))
    <2>1. s.cmd = "column" /\ s.table = t.name /\ s.what = ColumnStatement(c)
      BY CommandOf
    <2>2. InPlace(b, s, missing)
      OBVIOUS
    <2> HIDE DEF s
    <2>3. DbColumn(s.table, s.what) \in b.columns
      BY <1>1, <2>1, <2>2 DEF InPlace
    <2>4. QED
      BY <2>1, <2>3
  <1>2. CASE ~missing
    <2> DEFINE s == Command("table", t, CreateTableStatement(t))
    <2>1. s.cmd = "table" /\ s.table = t.name /\ s.what = CreateTableStatement(t)
      BY CommandOf
    <2>2. InPlace(b, s, missing)
      OBVIOUS
    <2> HIDE DEF s
    <2>3. DbColumns(s) \subseteq b.columns
      BY <1>2, <2>1, <2>2 DEF InPlace
    <2>4. PICK i \in DOMAIN t.columns : c = t.columns[i]
      BY DEF ToSet
    <2>5. /\ DOMAIN s.what.columns = DOMAIN t.columns
          /\ s.what.columns[i] = ColumnStatement(c)
      BY <2>1, <2>4 DEF CreateTableStatement
    <2>6. DbColumn(s.table, s.what.columns[i]) \in DbColumns(s)
      BY <2>4, <2>5 DEF DbColumns
    <2>7. QED
      BY <2>1, <2>3, <2>5, <2>6
  <1>3. QED
    BY <1>1, <1>2

\* What the database enforces for a column is what the column's flags ask for.
LEMMA InForceIs ==
    ASSUME FlagsMeant, NEW t \in Declared, NEW c \in ToSet(t.columns)
    PROVE  InForce(DbColumn(t.name, ColumnStatement(c))) = c.flags \ {"OnUserUpdateRestrict", "Notify"}
  <1> DEFINE d == DbColumn(t.name, ColumnStatement(c))
  <1>1. /\ d.clauses = (IF IsPrimaryKey(c) THEN {"PRIMARY KEY"}
                  ELSE (IF "Unique" \in c.flags THEN {"UNIQUE"} ELSE {})
                         \cup (IF "NotNull" \in c.flags THEN {"NOT NULL"} ELSE {}))
                 \cup (IF "Default" \in c.flags THEN {"DEFAULT"} ELSE {})
                 \cup OnDeleteClause(c)
    BY DEF DbColumn, ColumnStatement
  <1> HIDE DEF d
  <1>2. /\ c.flags \subseteq PrimaryKey \cup {"Default", "OnDeleteCascade", "OnDeleteRestrict",
                                            "OnUserUpdateRestrict", "Notify"}
        /\ "key" \in c.flags => IsPrimaryKey(c)
        /\ c.flags \cap {"OnDeleteCascade", "OnDeleteRestrict"} # {} => HasForeignKey(c)
    BY DEF FlagsMeant
  <1>3. ~ {"OnDeleteCascade", "OnDeleteRestrict"} \subseteq c.flags
    <2>1. PICK v \in Version : t \in ToSet(Schema[v])
      BY SchemaFacts
    <2>2. Compiles(Schema[v])
      BY SchemaAssumption DEF Version
    <2>3. QED
      BY <2>1, <2>2 DEF Compiles
  <1>4. InForce(d) = c.flags \ {"OnUserUpdateRestrict", "Notify"}
    <2>1. OnDeleteClause(c) = (IF "OnDeleteCascade" \in c.flags THEN {"ON DELETE CASCADE"} ELSE {})
                                 \cup (IF "OnDeleteRestrict" \in c.flags THEN {"ON DELETE RESTRICT"} ELSE {})
      BY <1>2, <1>3 DEF OnDeleteClause
    <2>2. IsPrimaryKey(c) <=> "key" \in c.flags
      BY <1>2 DEF IsPrimaryKey, PrimaryKey
    <2>3. IsPrimaryKey(c) => "NotNull" \in c.flags /\ "Unique" \in c.flags
      BY DEF IsPrimaryKey, PrimaryKey
    <2>4. /\ "PRIMARY KEY" \in d.clauses <=> "key" \in c.flags
          /\ "UNIQUE" \in d.clauses <=> "Unique" \in c.flags /\ "key" \notin c.flags
          /\ "NOT NULL" \in d.clauses <=> "NotNull" \in c.flags /\ "key" \notin c.flags
          /\ "DEFAULT" \in d.clauses <=> "Default" \in c.flags
          /\ "ON DELETE CASCADE" \in d.clauses <=> "OnDeleteCascade" \in c.flags
          /\ "ON DELETE RESTRICT" \in d.clauses <=> "OnDeleteRestrict" \in c.flags
      BY <1>1, <2>1, <2>2
    <2>5. /\ "key" \in InForce(d) <=> "key" \in c.flags
          /\ "Unique" \in InForce(d) <=> "Unique" \in c.flags
          /\ "NotNull" \in InForce(d) <=> "NotNull" \in c.flags
          /\ "Default" \in InForce(d) <=> "Default" \in c.flags
          /\ "OnDeleteCascade" \in InForce(d) <=> "OnDeleteCascade" \in c.flags
          /\ "OnDeleteRestrict" \in InForce(d) <=> "OnDeleteRestrict" \in c.flags
      BY <2>2, <2>3, <2>4 DEF InForce, PrimaryKey
    <2>6. InForce(d) \subseteq {"key", "NotNull", "Unique", "Default", "OnDeleteCascade", "OnDeleteRestrict"}
      BY DEF InForce, PrimaryKey
    <2> HIDE DEF InForce
    <2>7. c.flags \subseteq {"key", "NotNull", "Unique", "Default", "OnDeleteCascade", "OnDeleteRestrict",
                             "OnUserUpdateRestrict", "Notify"}
      BY <1>2 DEF PrimaryKey
    <2>8. QED
      BY <2>5, <2>6, <2>7
  <1>5. QED
    BY <1>4 DEF d

\* What is in a database when all statements of a version are in place.
LEMMA AllInPlace ==
    ASSUME FlagsMeant, NEW b, NEW v \in Version, NEW missing \in BOOLEAN,
           \A k \in 1 .. Len(Program[v]) :
              /\ InPlace(b, Program[v][k], missing)
              /\ Program[v][k].cmd = "rule" => <<Program[v][k].table, Program[v][k].what>> \in b.rules
              /\ Program[v][k].cmd = "create" => <<Program[v][k].table, Program[v][k].what>> \in b.triggers,
           NEW t \in ToSet(Schema[v])
    PROVE  /\ \A c \in ToSet(t.columns) :
                 \E d \in b.columns :
                      /\ d.table = t.name /\ d.name = c.name /\ d.references = c.references
                      /\ InForce(d) = c.flags \ {"OnUserUpdateRestrict", "Notify"}
           /\ {t.name} \X t.constraints \subseteq b.uniques
           /\ AskedRules(t) \subseteq b.rules
           /\ AskedTriggers(t) \subseteq b.triggers
           /\ AskedRights(t) \subseteq {r \in Rights : <<"user", t.name, r>> \in b.grants}
  <1> DEFINE p == Program[v]
  <1>1. t \in Declared /\ t.columns \in Seq(ToSet(t.columns)) /\ t.rows \subseteq Operations
    BY SchemaFacts, SchemaAssumption DEF Operations
  <1>2. \A s \in ToSet(p) :
           /\ InPlace(b, s, missing)
           /\ s.cmd = "rule" => <<s.table, s.what>> \in b.rules
           /\ s.cmd = "create" => <<s.table, s.what>> \in b.triggers
    <2>1. DOMAIN p = 1 .. Len(p)
      BY ProgramOf DEF ReadFirst
    <2>2. QED
      BY <2>1 DEF ToSet
  <1>3. /\ {Command("table", t, CreateTableStatement(t)), Command("user", t, UserRights(t))} \subseteq ToSet(p)
        /\ ~t.isLookup /\ ~t.isRelation => \A r \in Operations : Command("rule", t, r) \in ToSet(p)
        /\ \A c \in ToSet(t.columns) :
              /\ Command("column", t, ColumnStatement(c)) \in ToSet(p)
              /\ "Notify" \in c.flags => Command("rule", t, c.name) \in ToSet(p)
              /\ IsProtected(c) => Command("create", t, c.name) \in ToSet(p)
    BY ProgramOf
  <1> HIDE DEF p
  <1>4. ASSUME NEW c \in ToSet(t.columns)
        PROVE  \E d \in b.columns :
                  /\ d.table = t.name /\ d.name = c.name /\ d.references = c.references
                  /\ InForce(d) = c.flags \ {"OnUserUpdateRestrict", "Notify"}
    <2> DEFINE d == DbColumn(t.name, ColumnStatement(c))
    <2>1. /\ InPlace(b, Command("table", t, CreateTableStatement(t)), missing)
          /\ InPlace(b, Command("column", t, ColumnStatement(c)), missing)
      BY <1>2, <1>3
    <2>2. d \in b.columns
      BY <1>1, <2>1, ColumnInPlace
    <2>3. d.table = t.name /\ d.name = c.name /\ d.references = c.references
      BY ColumnStatementOf DEF DbColumn
    <2>4. InForce(d) = c.flags \ {"OnUserUpdateRestrict", "Notify"}
      BY <1>1, InForceIs
    <2> HIDE DEF d
    <2>5. QED
      BY <2>2, <2>3, <2>4
  <1>5. {t.name} \X t.constraints \subseteq b.uniques
    <2> DEFINE s == Command("table", t, CreateTableStatement(t))
    <2>1. s.cmd = "table" /\ s.table = t.name /\ s.what = CreateTableStatement(t)
      BY CommandOf
    <2>2. InPlace(b, s, missing)
      BY <1>2, <1>3
    <2> HIDE DEF s
    <2>3. {s.table} \X s.what.constraints \subseteq b.uniques
      BY <2>1, <2>2 DEF InPlace
    <2>4. s.what.constraints = t.constraints
      BY <2>1 DEF CreateTableStatement
    <2>5. QED
      BY <2>1, <2>3, <2>4
  <1>6. AskedRules(t) \subseteq b.rules
    <2>1. ~t.isLookup /\ ~t.isRelation => \A r \in Operations : <<t.name, r>> \in b.rules
      <3> SUFFICES ASSUME ~t.isLookup, ~t.isRelation, NEW r \in Operations
                   PROVE  <<t.name, r>> \in b.rules
        OBVIOUS
      <3>1. Command("rule", t, r) \in ToSet(p)
        BY <1>3
      <3>2. QED
        BY <1>2, <3>1, CommandOf
    <2>2. \A c \in ToSet(t.columns) : "Notify" \in c.flags => <<t.name, c.name>> \in b.rules
      <3> SUFFICES ASSUME NEW c \in ToSet(t.columns), "Notify" \in c.flags
                   PROVE  <<t.name, c.name>> \in b.rules
        OBVIOUS
      <3>1. Command("rule", t, c.name) \in ToSet(p)
        BY <1>3
      <3>2. QED
        BY <1>2, <3>1, CommandOf
    <2>3. QED
      BY <2>1, <2>2 DEF AskedRules, Operations
  <1>7. AskedTriggers(t) \subseteq b.triggers
    <2>1. \A c \in ToSet(t.columns) : IsProtected(c) => <<t.name, c.name>> \in b.triggers
      <3> SUFFICES ASSUME NEW c \in ToSet(t.columns), IsProtected(c)
                   PROVE  <<t.name, c.name>> \in b.triggers
        OBVIOUS
      <3>1. Command("create", t, c.name) \in ToSet(p)
        BY <1>3
      <3>2. QED
        BY <1>2, <3>1, CommandOf
    <2>2. QED
      BY <2>1 DEF AskedTriggers
  <1>8. AskedRights(t) \subseteq {r \in Rights : <<"user", t.name, r>> \in b.grants}
    <2> DEFINE s == Command("user", t, UserRights(t))
    <2>1. s.cmd = "user" /\ s.table = t.name /\ s.what = UserRights(t)
      BY CommandOf
    <2>2. InPlace(b, s, missing)
      BY <1>2, <1>3
    <2> HIDE DEF s
    <2>3. {"user"} \X {t.name} \X UserRights(t) \subseteq b.grants
      BY <2>1, <2>2 DEF InPlace
    <2>4. AskedRights(t) = UserRights(t) /\ UserRights(t) \subseteq Rights
      BY <1>1 DEF AskedRights, UserRights, Rights, Operations
    <2>5. QED
      BY <2>3, <2>4
  <1>9. QED
    BY <1>4, <1>5, <1>6, <1>7, <1>8

\* The trigger of a column can be dropped, and created where it is not there:
\* the statements before see to the column.
LEMMA TriggersAccepted ==
    ASSUME RightsInv, StepsDone, NEW d \in Deployer, run[d] # Idle,
           Statement(d).cmd \in {"drop", "create"},
           <<Statement(d).table, Statement(d).what>> \notin db.triggers
    PROVE  Accepts(Statement(d))
  <1> DEFINE v == run[d].version
             i == run[d].step
             p == Program[v]
             s == Statement(d)
             m == run[d].missing
  <1>1. v \in Version /\ i \in 1 .. Len(p) /\ Len(p) \in Nat /\ s = p[i]
    BY AtStatement DEF RightsInv
  <1>2. PICK t \in ToSet(Schema[v]) : \E c \in ToSet(t.columns), x \in {"drop", "create"} : s = Command(x, t, c.name)
    <2>1. Formed(s, ToSet(Schema[v]))
      BY <1>1, Forms
    <2> HIDE DEF s, v
    <2>2. QED
      BY <2>1, CommandOf DEF Formed, s
  <1>3. PICK c \in ToSet(t.columns), x \in {"drop", "create"} : s = Command(x, t, c.name)
    BY <1>2
  <1>4. /\ p \in Preceded(Statements(ToSet(Schema[v])), Command("table", t, CreateTableStatement(t)), s)
        /\ p \in Preceded(Statements(ToSet(Schema[v])), Command("column", t, ColumnStatement(c)), s)
    BY <1>1, <1>3, ProgramOf
  <1>5. PICK j \in 1 .. i - 1 : p[j] = Command("table", t, CreateTableStatement(t))
    BY <1>1, <1>4 DEF Preceded
  <1>6. PICK k \in 1 .. i - 1 : p[k] = Command("column", t, ColumnStatement(c))
    BY <1>1, <1>4 DEF Preceded
  <1>7. InPlace(db, p[j], m) /\ InPlace(db, p[k], m)
    BY DEF StepsDone
  <1>8. m \in BOOLEAN
    BY DEF RightsInv, TypeOK
  <1>9. t \in Declared
    BY <1>1, SchemaFacts
  <1>10. DbColumn(t.name, ColumnStatement(c)) \in db.columns
    BY <1>5, <1>6, <1>7, <1>8, <1>9, ColumnInPlace
  <1>11. s.table = t.name /\ s.what = c.name /\ s.cmd \in {"drop", "create"}
    BY <1>3, CommandOf
  <1>12. <<s.table, s.what>> \notin db.triggers
    OBVIOUS
  <1> SUFFICES Accepts(s)
    OBVIOUS
  <1> HIDE DEF s
  <1>13. PICK e \in db.columns : e.table = s.table /\ e.name = s.what
    BY <1>10, <1>11, ColumnStatementOf DEF DbColumn
  <1>14. HasColumn(s.table, s.what) /\ s.table \in TableNames
    BY <1>13 DEF HasColumn, TableNames
  <1>15. QED
    BY <1>11, <1>12, <1>14 DEF Accepts

\* A statement that is executed or left out is in place afterwards.
LEMMA ExecutedInPlace ==
    ASSUME TablesAgree, DeployInv, NEW d \in Deployer, Exec(d),
           NEW k \in 1 .. Len(Program[run[d].version]),
           k <= run[d].step \/ \A m \in run[d].step + 1 .. k :
              LeftOut(Program[run[d].version][m], run[d].missing, Known(d, Statement(d)))
    PROVE  InPlace(db', Program[run[d].version][k], run[d].missing)
  <1> DEFINE v == run[d].version
             i == run[d].step
             p == Program[v]
             known == Known(d, Statement(d))
             missing == run[d].missing
  <1>1. run[d] # Idle /\ Accepts(Statement(d)) /\ db' = After(Statement(d))
    BY DEF Exec
  <1>2. v \in Version /\ i \in 1 .. Len(p) /\ Len(p) \in Nat /\ Statement(d) = p[i]
    BY <1>1, AtStatement DEF DeployInv, RightsInv
  <1>3. /\ db.columns \subseteq db'.columns /\ db.uniques \subseteq db'.uniques
        /\ db.grants \subseteq db'.grants
        /\ \A m \in BOOLEAN : InPlace(db', Statement(d), m)
    BY <1>1, ExecutedDb DEF DeployInv
  <1>4. missing \in BOOLEAN
    BY DEF DeployInv, RightsInv, TypeOK
  <1>5. CASE k = i
    BY <1>2, <1>3, <1>4, <1>5
  <1>6. CASE k \in 1 .. i - 1
    <2>1. InPlace(db, p[k], missing)
      BY <1>1, <1>6 DEF DeployInv, StepsDone
    <2>2. QED
      BY <1>3, <2>1, InPlaceGrows
  <1>7. CASE k > i
    <2>1. /\ k \in i + 1 .. Len(p)
          /\ \A m \in i + 1 .. k - 1 : LeftOut(p[m], missing, known)
          /\ LeftOut(p[k], missing, known)
      <3>1. k \in i + 1 .. Len(p) /\ \A m \in i + 1 .. k : LeftOut(p[m], missing, known)
        BY <1>2, <1>7
      <3> HIDE DEF p, known, missing, i
      <3>2. QED
        BY <1>2, <3>1
    <2>2. /\ p[k].cmd = "table" => known \subseteq Existing(missing)
          /\ p[k].cmd = "column" /\ missing => known \subseteq ColumnsThere(db, p[k].table)
      BY <1>1, <2>1, KnownLater DEF DeployInv
    <2>3. InPlace(db, p[k], missing)
      BY <1>2, <1>4, <2>1, <2>2, LeftInPlace DEF DeployInv
    <2>4. QED
      BY <1>3, <2>3, InPlaceGrows
  <1>8. QED
    BY <1>2, <1>5, <1>6, <1>7

\* Whoever has dropped a trigger creates it next.
LEMMA DropGoesOn ==
    ASSUME RightsInv, NEW d \in Deployer, Exec(d) \/ ExecUnanswered(d), Statement(d).cmd = "drop",
           NEW s, s.table = Statement(d).table, s.what = Statement(d).what
    PROVE  Recreates(d, s)'
  <1> DEFINE v == run[d].version
             i == run[d].step
             p == Program[v]
  <1>1. CASE ExecUnanswered(d)
    <2>1. run' = run /\ run[d] # Idle
      BY <1>1 DEF ExecUnanswered
    <2>2. QED
      BY <2>1 DEF Recreates, Statement
  <1>2. CASE Exec(d)
    <2>1. run[d] # Idle
      BY <1>2 DEF Exec
    <2>2. v \in Version /\ i \in 1 .. Len(p) /\ Len(p) \in Nat /\ Statement(d) = p[i]
      BY <2>1, AtStatement DEF RightsInv
    <2>3. /\ i + 1 \in 1 .. Len(p) /\ p[i + 1].cmd = "create"
          /\ p[i + 1].table = p[i].table /\ p[i + 1].what = p[i].what
      BY <2>2, ProgramOf DEF Recreated
    <2>4. PICK next \in i + 1 .. Len(p) + 1 :
                /\ \A k \in i + 1 .. next - 1 : LeftOut(p[k], run[d].missing, Known(d, Statement(d)))
                /\ \/ /\ run'[d].version = v /\ run'[d].step = next /\ run'[d] # Idle
                   \/ next = Len(p) + 1
      BY <1>2, ExecRun DEF DeployInv
    <2>5. ~LeftOut(p[i + 1], run[d].missing, Known(d, Statement(d)))
      BY <2>3, LeftOutIs
    <2>6. i + 1 \notin i + 1 .. next - 1
      BY <2>4, <2>5
    <2>7. next = i + 1
      BY <2>2, <2>4, <2>6
    <2>8. run'[d].version = v /\ run'[d].step = i + 1 /\ run'[d] # Idle
      <3>1. next # Len(p) + 1
        BY <2>2, <2>3, <2>7
      <3>2. run'[d].version = v /\ run'[d].step = next /\ run'[d] # Idle
        BY <2>4, <3>1
      <3>3. QED
        BY <2>7, <3>2
    <2>9. Statement(d)' = p[i + 1]
      BY <2>8 DEF Statement
    <2>10. QED
      BY <2>2, <2>3, <2>8, <2>9 DEF Recreates
  <1>3. QED
    BY <1>1, <1>2

\* Who goes on as before recreates what he did.
LEMMA RecreatesKept ==
    ASSUME NEW e, NEW s, Recreates(e, s), run'[e] # Idle,
           run'[e].version = run[e].version, run'[e].step = run[e].step
    PROVE  Recreates(e, s)'
  BY DEF Recreates, Statement

\* A trigger that is dropped will be created again.
LEMMA ExecGuarded ==
    ASSUME TablesAgree, DeployInv, NEW d \in Deployer, Exec(d) \/ ExecUnanswered(d), NEW s, Guarded(s)
    PROVE  Guarded(s)'
  <1>1. run[d] # Idle /\ Accepts(Statement(d)) /\ db' = After(Statement(d))
    BY DEF Exec, ExecUnanswered
  <1>2. /\ \A x \in db.triggers : \/ x \in db'.triggers
                                  \/ Statement(d).cmd = "drop" /\ x = <<Statement(d).table, Statement(d).what>>
        /\ Statement(d).cmd = "create" => <<Statement(d).table, Statement(d).what>> \in db'.triggers
    BY <1>1, ExecutedDb DEF DeployInv
  <1>3. \A e \in Deployer \ {d} : run'[e] = run[e]
    <2>1. CASE Exec(d)
      BY <2>1, ExecRun DEF DeployInv
    <2>2. CASE ExecUnanswered(d)
      BY <2>2 DEF ExecUnanswered
    <2>3. QED
      BY <2>1, <2>2
  <1>4. ASSUME Statement(d).cmd = "drop", s.table = Statement(d).table, s.what = Statement(d).what
        PROVE  Guarded(s)'
    <2>1. Recreates(d, s)'
      BY <1>4, DropGoesOn DEF DeployInv
    <2>2. QED
      BY <2>1 DEF Guarded
  <1>5. CASE <<s.table, s.what>> \in db.triggers
    <2>1. CASE <<s.table, s.what>> \in db'.triggers
      BY <2>1 DEF Guarded
    <2>2. CASE <<s.table, s.what>> \notin db'.triggers
      BY <1>2, <1>4, <1>5, <2>2
    <2>3. QED
      BY <2>1, <2>2
  <1>6. ASSUME NEW e \in Deployer, Recreates(e, s) PROVE Guarded(s)'
    <2>1. CASE e # d
      <3>1. run'[e] = run[e] /\ run[e] # Idle
        BY <1>3, <1>6, <2>1 DEF Recreates
      <3>2. Recreates(e, s)'
        BY <1>6, <3>1, RecreatesKept
      <3>3. QED
        BY <3>2 DEF Guarded
    <2>2. CASE e = d
      <3>1. /\ Statement(d).cmd \in {"drop", "create"}
            /\ s.table = Statement(d).table /\ s.what = Statement(d).what
        BY <1>6, <2>2 DEF Recreates
      <3>2. CASE Statement(d).cmd = "drop"
        BY <1>4, <3>1, <3>2
      <3>3. CASE Statement(d).cmd = "create"
        <4>1. <<s.table, s.what>> \in db'.triggers
          BY <1>2, <3>1, <3>3
        <4>2. QED
          BY <4>1 DEF Guarded
      <3>4. QED
        BY <3>1, <3>2, <3>3
    <2>3. QED
      BY <2>1, <2>2
  <1>7. QED
    BY <1>5, <1>6 DEF Guarded

-----------------------------------------------------------------------------
(* Complete deployments *)

\* The first state.
LEMMA InitDeploy == Init => DeployInv
  <1> SUFFICES ASSUME Init PROVE DeployInv
    OBVIOUS
  <1>1. RightsInv
    BY InitRights
  <1>2. deployed = 0 /\ TableNames = {} /\ \A d \in Deployer : run[d] = Idle
    BY DEF Init, TableNames
  <1>3. UniquesKept /\ KnownThere /\ StepsDone /\ TriggersDone /\ Quiet /\ Deployed
    BY <1>2 DEF UniquesKept, KnownThere, StepsDone, TriggersDone, Quiet, Deployed
  <1>4. QED
    BY <1>1, <1>3 DEF DeployInv

\* Before the statement a deployer starts with nothing is executed: what it
\* leaves out are tables that are there, or reads and columns if it creates all tables.
LEMMA StartsInPlace ==
    ASSUME TablesAgree, DeployInv, NEW d \in Deployer, NEW v \in Version, NEW missing \in Modes,
           Start(d, v, missing)
    PROVE  /\ \A k \in 1 .. run'[d].step - 1 :
                 Program[v][k].cmd # "create" /\ InPlace(db, Program[v][k], missing)
           /\ Program[v][run'[d].step].cmd = "column" => ~missing
  <1> DEFINE p == Program[v]
             n == run'[d].step
  <1>1. /\ n \in 1 .. Len(p) /\ missing \in BOOLEAN
        /\ \A k \in 1 .. n - 1 : LeftOut(p[k], missing, Existing(missing))
    BY StartRun DEF DeployInv
  <1>2. Len(p) \in Nat /\ \A k \in 1 .. Len(p) : p[k].cmd = "column" => Reads(p, k)
    BY ProgramOf DEF ReadFirst
  <1>3. ASSUME NEW k \in 1 .. n, p[k].cmd = "column" PROVE ~missing
    <2>1. k \in 1 .. Len(p)
      BY <1>1, <1>2
    <2>2. PICK j \in 1 .. k - 1 : p[j].cmd = "read"
      BY <1>2, <1>3, <2>1 DEF Reads
    <2>3. j \in 1 .. n - 1
      BY <1>1, <1>2
    <2>4. LeftOut(p[j], missing, Existing(missing))
      BY <1>1, <2>3
    <2>5. QED
      BY <2>2, <2>4, LeftOutIs
  <1>4. ASSUME NEW k \in 1 .. n - 1
        PROVE  p[k].cmd # "create" /\ InPlace(db, p[k], missing)
    <2>1. k \in 1 .. Len(p) /\ k \in 1 .. n /\ LeftOut(p[k], missing, Existing(missing))
      BY <1>1, <1>2
    <2>2. p[k].cmd = "column" => ~missing
      BY <1>3, <2>1
    <2>3. InPlace(db, p[k], missing)
      BY <1>1, <2>1, <2>2, LeftInPlace DEF DeployInv
    <2>4. QED
      BY <2>1, <2>3, LeftOutIs
  <1>5. p[n].cmd = "column" => ~missing
    <2>1. n \in 1 .. n
      BY <1>1, <1>2
    <2>2. QED
      BY <1>3, <2>1
  <1>6. QED
    BY <1>4, <1>5

\* A deployment is started: Start.
LEMMA StartDeploy ==
    ASSUME TablesAgree, DeployInv, NEW d \in Deployer, NEW v \in Version, NEW missing \in Modes,
           Start(d, v, missing)
    PROVE  DeployInv'
  <1>1. /\ run[d] = Idle /\ deployed' = 0 /\ db' = db
        /\ \A e \in Deployer \ {d} : run'[e] = run[e]
        /\ run'[d].version = v /\ run'[d].missing = missing /\ run'[d].known = Existing(missing)
    BY StartRun DEF DeployInv
  <1>2. /\ \A k \in 1 .. run'[d].step - 1 :
              Program[v][k].cmd # "create" /\ InPlace(db, Program[v][k], missing)
        /\ Program[v][run'[d].step].cmd = "column" => ~missing
    BY StartsInPlace
  <1>3. RightsInv'
    BY StartRights DEF DeployInv
  <1>4. UniquesKept'
    BY <1>1 DEF DeployInv, UniquesKept, TableNames
  <1>5. KnownThere'
    <2> SUFFICES ASSUME NEW e \in Deployer, run'[e] # Idle
                 PROVE  /\ Statement(e)'.cmd = "table" => run'[e].known \subseteq Existing(run[e].missing)'
                        /\ Statement(e)'.cmd = "column" /\ run'[e].missing =>
                              run'[e].known \subseteq ColumnsThere(db', Statement(e)'.table)
      BY DEF KnownThere
    <2>1. CASE e = d
      <3>1. Statement(d)' = Program[v][run'[d].step]
        BY <1>1 DEF Statement
      <3>2. Existing(run[d].missing)' = Existing(missing)
        BY <1>1 DEF Existing, TableNames
      <3>3. QED
        BY <1>1, <1>2, <2>1, <3>1, <3>2
    <2>2. CASE e # d
      <3>1. run'[e] = run[e]
        BY <1>1, <2>2
      <3>2. Statement(e)' = Statement(e)
        BY <3>1 DEF Statement
      <3>3. Existing(run[e].missing)' = Existing(run[e].missing)
        BY <1>1, <3>1 DEF Existing, TableNames
      <3>4. QED
        BY <1>1, <3>1, <3>2, <3>3 DEF DeployInv, KnownThere
    <2>3. QED
      BY <2>1, <2>2
  <1>6. StepsDone'
    <2> SUFFICES ASSUME NEW e \in Deployer, run'[e] # Idle, NEW k \in 1 .. run'[e].step - 1
                 PROVE  InPlace(db', Program[run'[e].version][k], run'[e].missing)
      BY DEF StepsDone
    <2>1. CASE e = d
      BY <1>1, <1>2, <2>1
    <2>2. CASE e # d
      BY <1>1, <2>2 DEF DeployInv, StepsDone
    <2>3. QED
      BY <2>1, <2>2
  <1>7. TriggersDone'
    <2> SUFFICES ASSUME NEW e \in Deployer, run'[e] # Idle, ~run'[e].disturbed,
                        NEW k \in 1 .. run'[e].step - 1, Program[run'[e].version][k].cmd = "create",
                        NEW s, s = Program[run'[e].version][k]
                 PROVE  Guarded(s)'
      BY DEF TriggersDone
    <2>1. e # d
      BY <1>1, <1>2
    <2>2. run'[e] = run[e]
      BY <1>1, <2>1
    <2>3. Guarded(s)
      BY <2>2 DEF DeployInv, TriggersDone
    <2>4. CASE <<s.table, s.what>> \in db.triggers
      BY <1>1, <2>4 DEF Guarded
    <2>5. ASSUME NEW a \in Deployer, Recreates(a, s) PROVE Guarded(s)'
      <3>1. run[a] # Idle /\ run'[a] = run[a]
        BY <1>1, <2>5 DEF Recreates
      <3>2. Recreates(a, s)'
        BY <2>5, <3>1, RecreatesKept
      <3>3. QED
        BY <3>2 DEF Guarded
    <2>6. QED
      BY <2>3, <2>4, <2>5 DEF Guarded
  <1>8. Quiet' /\ Deployed'
    BY <1>1 DEF Quiet, Deployed
  <1>9. QED
    BY <1>3, <1>4, <1>5, <1>6, <1>7, <1>8 DEF DeployInv

\* What a deployer knows is there, when a statement was executed and it goes
\* on or another one did.
LEMMA KnownGrows ==
    ASSUME NEW known, NEW missing \in BOOLEAN, NEW s, db.columns \subseteq db'.columns,
           s.cmd = "table" => known \subseteq Existing(missing),
           s.cmd = "column" /\ missing => known \subseteq ColumnsThere(db, s.table)
    PROVE  /\ s.cmd = "table" => known \subseteq (IF missing THEN TableNames' ELSE {})
           /\ s.cmd = "column" /\ missing => known \subseteq ColumnsThere(db', s.table)
  <1>1. TableNames \subseteq TableNames'
    BY DEF TableNames
  <1>2. ColumnsThere(db, s.table) \subseteq ColumnsThere(db', s.table)
    BY DEF ColumnsThere
  <1>3. ASSUME s.cmd = "table" PROVE known \subseteq (IF missing THEN TableNames' ELSE {})
    BY <1>1, <1>3 DEF Existing
  <1>4. ASSUME s.cmd = "column", missing PROVE known \subseteq ColumnsThere(db', s.table)
    BY <1>2, <1>4
  <1>5. QED
    BY <1>3, <1>4

\* What holds of all deployers but one after a statement was executed.
LEMMA ExecOthers ==
    ASSUME TablesAgree, DeployInv, NEW d \in Deployer, Exec(d) \/ ExecUnanswered(d),
           NEW e \in Deployer, run'[e] = run[e], run[e] # Idle
    PROVE  /\ Statement(e)'.cmd = "table" => run'[e].known \subseteq Existing(run[e].missing)'
           /\ Statement(e)'.cmd = "column" /\ run'[e].missing =>
                 run'[e].known \subseteq ColumnsThere(db', Statement(e)'.table)
           /\ \A k \in 1 .. run'[e].step - 1 : InPlace(db', Program[run'[e].version][k], run'[e].missing)
           /\ ~run'[e].disturbed =>
                 \A k \in 1 .. run'[e].step - 1 : \A s :
                    s = Program[run'[e].version][k] /\ s.cmd = "create" => Guarded(s)'
  <1>1. run[d] # Idle /\ Accepts(Statement(d)) /\ db' = After(Statement(d))
    BY DEF Exec, ExecUnanswered
  <1>2. /\ db.columns \subseteq db'.columns /\ db.uniques \subseteq db'.uniques
        /\ db.grants \subseteq db'.grants
    BY <1>1, ExecutedDb DEF DeployInv
  <1>3. Statement(e)' = Statement(e) /\ run[e].missing \in BOOLEAN
    BY DEF Statement, DeployInv, RightsInv, TypeOK
  <1>4. /\ Statement(e).cmd = "table" => run[e].known \subseteq Existing(run[e].missing)
        /\ Statement(e).cmd = "column" /\ run[e].missing =>
              run[e].known \subseteq ColumnsThere(db, Statement(e).table)
    BY DEF DeployInv, KnownThere
  <1>5. Existing(run[e].missing)' = IF run[e].missing THEN TableNames' ELSE {}
    BY DEF Existing
  <1>6. /\ Statement(e).cmd = "table" => run[e].known \subseteq (IF run[e].missing THEN TableNames' ELSE {})
        /\ Statement(e).cmd = "column" /\ run[e].missing =>
              run[e].known \subseteq ColumnsThere(db', Statement(e).table)
    BY <1>2, <1>3, <1>4, KnownGrows
  <1>7. ASSUME NEW k \in 1 .. run'[e].step - 1
        PROVE  InPlace(db', Program[run'[e].version][k], run'[e].missing)
    <2>1. InPlace(db, Program[run[e].version][k], run[e].missing)
      BY DEF DeployInv, StepsDone
    <2>2. QED
      BY <1>2, <2>1, InPlaceGrows
  <1>8. ASSUME ~run'[e].disturbed, NEW k \in 1 .. run'[e].step - 1, NEW s,
               s = Program[run'[e].version][k], s.cmd = "create"
        PROVE  Guarded(s)'
    <2>1. Guarded(s)
      BY <1>8 DEF DeployInv, TriggersDone
    <2>2. QED
      BY <2>1, ExecGuarded
  <1>9. QED
    BY <1>3, <1>5, <1>6, <1>7, <1>8

\* A statement is executed and its reply lost: ExecUnanswered.
LEMMA UnansweredDeploy ==
    ASSUME TablesAgree, DeployInv, NEW d \in Deployer, ExecUnanswered(d)
    PROVE  DeployInv'
  <1>1. /\ run[d] # Idle
        /\ Accepts(Statement(d))
        /\ db' = After(Statement(d))
        /\ run' = run
        /\ deployed' = deployed
    BY DEF ExecUnanswered
  <1>2. RightsInv'
    BY UnansweredRights DEF DeployInv
  <1>3. UniquesKept'
    BY <1>1, ExecutedDb DEF DeployInv
  <1>4. KnownThere' /\ StepsDone'
    <2>1. KnownThere'
      BY <1>1, ExecOthers DEF KnownThere
    <2>2. StepsDone'
      BY <1>1, ExecOthers DEF StepsDone
    <2>3. QED
      BY <2>1, <2>2
  <1>5. TriggersDone'
    <2> SUFFICES ASSUME NEW e \in Deployer, run'[e] # Idle, ~run'[e].disturbed,
                        NEW k \in 1 .. run'[e].step - 1, Program[run'[e].version][k].cmd = "create",
                        NEW s, s = Program[run'[e].version][k]
                 PROVE  Guarded(s)'
      BY DEF TriggersDone
    <2>1. QED
      BY <1>1, ExecOthers
  <1>6. Quiet' /\ Deployed'
    BY <1>1 DEF DeployInv, Quiet, Deployed
  <1>7. QED
    BY <1>2, <1>3, <1>4, <1>5, <1>6 DEF DeployInv

\* A deployer that executed its last statement leaves everything in place.
LEMMA ExecCompletes ==
    ASSUME TablesAgree, FlagsMeant, DeployInv, NEW d \in Deployer, Exec(d), run'[d] = Idle,
           deployed' # 0, Completes(d)
    PROVE  Deployed'
  <1> DEFINE v == run[d].version
             i == run[d].step
             p == Program[v]
             known == Known(d, Statement(d))
             missing == run[d].missing
  <1>1. /\ run[d] # Idle /\ newest' = newest
        /\ \A e \in Deployer \ {d} : run'[e] = run[e]
    BY ExecRun DEF DeployInv
  <1>2. v \in Version /\ i \in 1 .. Len(p) /\ Len(p) \in Nat
    BY <1>1, AtStatement DEF DeployInv, RightsInv
  <1>3. /\ deployed' = v /\ ~run[d].disturbed /\ \A e \in Deployer : run'[e] = Idle
    <2>1. deployed' = deployed \/ deployed' = newest
      BY DEF Exec
    <2>2. deployed = 0
      BY <1>1 DEF DeployInv, Quiet
    <2>3. QED
      BY <1>1, <2>1, <2>2 DEF Completes, Others
  <1>4. \A k \in i + 1 .. Len(p) : LeftOut(p[k], missing, known)
    <2>1. PICK next \in i + 1 .. Len(p) + 1 :
                /\ \A k \in i + 1 .. next - 1 : LeftOut(p[k], missing, known)
                /\ \/ run'[d] # Idle
                   \/ next = Len(p) + 1
      BY ExecRun DEF DeployInv
    <2>2. next - 1 = Len(p)
      BY <1>2, <2>1
    <2>3. QED
      BY <2>1, <2>2
  <1>5. missing \in BOOLEAN
    BY DEF DeployInv, RightsInv, TypeOK
  <1>6. ASSUME NEW k \in 1 .. Len(p)
        PROVE  /\ InPlace(db', p[k], missing)
               /\ p[k].cmd = "rule" => <<p[k].table, p[k].what>> \in db'.rules
               /\ p[k].cmd = "create" => <<p[k].table, p[k].what>> \in db'.triggers
    <2>1. k <= i \/ k \in i + 1 .. Len(p)
      BY <1>2
    <2>2. k <= i \/ \A m \in i + 1 .. k : LeftOut(p[m], missing, known)
      <3>1. CASE k <= i
        BY <3>1
      <3>2. CASE k \in i + 1 .. Len(p)
        <4>1. i + 1 .. k \subseteq i + 1 .. Len(p)
          BY <1>2, <3>2
        <4>2. QED
          BY <1>4, <4>1
      <3>3. QED
        BY <2>1, <3>1, <3>2
    <2>3. InPlace(db', p[k], missing)
      BY <2>2, ExecutedInPlace
    <2>4. k <= i \/ LeftOut(p[k], missing, known)
      BY <1>4, <2>1
    <2>5. p[k].cmd = "rule" => <<p[k].table, p[k].what>> \in db'.rules
      BY <2>4, ExecutedRules DEF DeployInv
    <2>6. ASSUME p[k].cmd = "create" PROVE <<p[k].table, p[k].what>> \in db'.triggers
      <3>1. k <= i
        BY <2>4, <2>6, LeftOutIs
      <3>2. CASE k = i
        <4>1. Statement(d) = p[k] /\ Accepts(Statement(d)) /\ db' = After(Statement(d))
          BY <3>2 DEF Statement, Exec
        <4>2. Statement(d).cmd = "create" => <<Statement(d).table, Statement(d).what>> \in db'.triggers
          BY <1>1, <4>1, ExecutedDb DEF DeployInv
        <4>3. QED
          BY <2>6, <4>1, <4>2
      <3>3. CASE k \in 1 .. i - 1
        <4>1. PICK s : s = p[k]
          OBVIOUS
        <4>2. Guarded(s)
          BY <1>1, <1>3, <2>6, <3>3, <4>1 DEF DeployInv, TriggersDone
        <4>3. Guarded(s)'
          BY <4>2, ExecGuarded
        <4>4. \A e \in Deployer : ~Recreates(e, s)'
          BY <1>3 DEF Recreates
        <4>5. <<s.table, s.what>> \in db'.triggers
          BY <4>3, <4>4 DEF Guarded
        <4>6. QED
          BY <4>1, <4>5
      <3>4. QED
        BY <1>2, <3>1, <3>2, <3>3
    <2>7. QED
      BY <2>3, <2>5, <2>6
  <1>7. ASSUME NEW t \in ToSet(Schema[v])
        PROVE  /\ \A c \in ToSet(t.columns) :
                     \E b \in db'.columns :
                          /\ b.table = t.name /\ b.name = c.name /\ b.references = c.references
                          /\ InForce(b) = c.flags \ {"OnUserUpdateRestrict", "Notify"}
               /\ {t.name} \X t.constraints \subseteq db'.uniques
               /\ AskedRules(t) \subseteq db'.rules
               /\ AskedTriggers(t) \subseteq db'.triggers
               /\ AskedRights(t) \subseteq {r \in Rights : <<"user", t.name, r>> \in db'.grants}
    <2> HIDE DEF missing, known, i
    <2> QED
      BY <1>2, <1>5, <1>6, AllInPlace
  <1>8. QED
    BY <1>3, <1>7 DEF Deployed, Granted

\* A statement is executed: Exec.
LEMMA ExecDeploy ==
    ASSUME TablesAgree, FlagsMeant, DeployInv, NEW d \in Deployer, Exec(d)
    PROVE  DeployInv'
  <1> DEFINE v == run[d].version
             i == run[d].step
             p == Program[v]
             known == Known(d, Statement(d))
             missing == run[d].missing
  <1>1. /\ run[d] # Idle /\ Accepts(Statement(d)) /\ db' = After(Statement(d))
        /\ \A e \in Deployer \ {d} : run'[e] = run[e]
    BY ExecRun DEF DeployInv
  <1>2. PICK next \in i + 1 .. Len(p) + 1 :
              /\ \A k \in i + 1 .. next - 1 : LeftOut(p[k], missing, known)
              /\ \/ /\ next \in 1 .. Len(p) /\ run'[d].version = v /\ run'[d].missing = missing
                    /\ run'[d].disturbed = run[d].disturbed
                    /\ run'[d].step = next /\ run'[d].known = known
                    /\ run'[d] # Idle /\ deployed' = deployed
                 \/ /\ run'[d] = Idle /\ deployed' = IF Completes(d) THEN newest ELSE 0
    BY ExecRun DEF DeployInv
  <1>3. /\ v \in Version /\ i \in 1 .. Len(p) /\ Len(p) \in Nat /\ Statement(d) = p[i]
        /\ missing \in BOOLEAN
    BY <1>1, AtStatement DEF DeployInv, RightsInv, TypeOK
  <1>4. /\ db.columns \subseteq db'.columns /\ UniquesKept'
        /\ Statement(d).cmd = "create" => <<Statement(d).table, Statement(d).what>> \in db'.triggers
    BY <1>1, ExecutedDb DEF DeployInv
  <1>5. RightsInv'
    BY ExecRights DEF DeployInv
  <1>6. ASSUME run'[d] # Idle
        PROVE  /\ next \in 1 .. Len(p) /\ run'[d].version = v /\ run'[d].missing = missing
               /\ run'[d].disturbed = run[d].disturbed
               /\ run'[d].step = next /\ run'[d].known = known
    BY <1>2, <1>6
  <1>7. KnownThere'
    <2> SUFFICES ASSUME NEW e \in Deployer, run'[e] # Idle
                 PROVE  /\ Statement(e)'.cmd = "table" => run'[e].known \subseteq Existing(run[e].missing)'
                        /\ Statement(e)'.cmd = "column" /\ run'[e].missing =>
                              run'[e].known \subseteq ColumnsThere(db', Statement(e)'.table)
      BY DEF KnownThere
    <2>1. CASE e # d
      BY <1>1, <2>1, ExecOthers
    <2>2. CASE e = d
      <3>1. /\ next \in i + 1 .. Len(p) /\ run'[d].version = v /\ run'[d].missing = missing
            /\ run'[d].step = next /\ run'[d].known = known
        BY <1>3, <1>6, <2>2
      <3>2. /\ p[next].cmd = "table" => known \subseteq Existing(missing)
            /\ p[next].cmd = "column" /\ missing => known \subseteq ColumnsThere(db, p[next].table)
        BY <1>1, <1>2, <3>1, KnownLater DEF DeployInv
      <3>3. Statement(d)' = p[next]
        BY <3>1 DEF Statement
      <3>4. Existing(run[d].missing)' = IF missing THEN TableNames' ELSE {}
        BY <3>1 DEF Existing
      <3> HIDE DEF p, known, missing
      <3>5. /\ p[next].cmd = "table" => known \subseteq (IF missing THEN TableNames' ELSE {})
            /\ p[next].cmd = "column" /\ missing => known \subseteq ColumnsThere(db', p[next].table)
        BY <1>3, <1>4, <3>2, KnownGrows
      <3>6. QED
        BY <2>2, <3>1, <3>3, <3>4, <3>5
    <2>3. QED
      BY <2>1, <2>2
  <1>8. StepsDone'
    <2> SUFFICES ASSUME NEW e \in Deployer, run'[e] # Idle, NEW k \in 1 .. run'[e].step - 1
                 PROVE  InPlace(db', Program[run'[e].version][k], run'[e].missing)
      BY DEF StepsDone
    <2>1. CASE e # d
      BY <1>1, <2>1, ExecOthers
    <2>2. CASE e = d
      <3>1. k \in 1 .. Len(p) /\ k <= next - 1 /\ run'[d].version = v /\ run'[d].missing = missing
        <4> HIDE DEF p, v, missing, i, known
        <4>1. run'[d] # Idle /\ k \in 1 .. run'[d].step - 1
          BY <2>2
        <4>2. /\ next \in 1 .. Len(p) /\ run'[d].step = next
              /\ run'[d].version = v /\ run'[d].missing = missing
          BY <1>6, <4>1
        <4>3. k \in 1 .. next - 1
          BY <4>1, <4>2
        <4>4. QED
          BY <1>3, <4>2, <4>3
      <3>2. k <= i \/ \A m \in i + 1 .. k : LeftOut(p[m], missing, known)
        <4>1. \A m \in i + 1 .. k : m \in i + 1 .. next - 1
          BY <1>3, <3>1
        <4>2. QED
          BY <1>2, <4>1
      <3>3. InPlace(db', p[k], missing)
        BY <3>1, <3>2, ExecutedInPlace
      <3>4. QED
        BY <2>2, <3>1, <3>3
    <2>3. QED
      BY <2>1, <2>2
  <1>9. TriggersDone'
    <2> SUFFICES ASSUME NEW e \in Deployer, run'[e] # Idle, ~run'[e].disturbed,
                        NEW k \in 1 .. run'[e].step - 1, Program[run'[e].version][k].cmd = "create",
                        NEW s, s = Program[run'[e].version][k]
                 PROVE  Guarded(s)'
      BY DEF TriggersDone
    <2>1. CASE e # d
      BY <1>1, <2>1, ExecOthers
    <2>2. CASE e = d
      <3>1. /\ k \in 1 .. Len(p) /\ k <= next - 1 /\ ~run[d].disturbed
            /\ s = p[k] /\ s.cmd = "create"
        BY <1>3, <1>6, <2>2
      <3>2. k \notin i + 1 .. next - 1
        BY <1>2, <3>1, LeftOutIs
      <3>3. CASE k = i
        <4>1. <<s.table, s.what>> \in db'.triggers
          BY <1>3, <1>4, <3>1, <3>3
        <4>2. QED
          BY <4>1 DEF Guarded
      <3>4. CASE k \in 1 .. i - 1
        <4>1. Guarded(s)
          BY <1>1, <3>1, <3>4 DEF DeployInv, TriggersDone
        <4>2. QED
          BY <4>1, ExecGuarded
      <3>5. QED
        BY <1>3, <3>1, <3>2, <3>3, <3>4
    <2>3. QED
      BY <2>1, <2>2
  <1>10. deployed = 0
    BY <1>1 DEF DeployInv, Quiet
  <1>11. Quiet'
    <2> SUFFICES ASSUME deployed' # 0, NEW e \in Deployer PROVE run'[e] = Idle
      BY DEF Quiet
    <2>1. run'[d] = Idle /\ Completes(d)
      BY <1>2, <1>10
    <2>2. QED
      BY <1>1, <2>1 DEF Completes, Others
  <1>12. Deployed'
    <2>1. CASE deployed' = 0
      BY <2>1 DEF Deployed
    <2>2. CASE deployed' # 0
      BY <1>2, <1>10, <2>2, ExecCompletes
    <2>3. QED
      BY <2>1, <2>2
  <1>13. QED
    BY <1>4, <1>5, <1>7, <1>8, <1>9, <1>11, <1>12 DEF DeployInv

\* A deployment ends in the middle: ExecThrows and Crash.
LEMMA EndDeploy ==
    ASSUME DeployInv, NEW d \in Deployer, ExecThrows(d) \/ Crash(d)
    PROVE  DeployInv'
  <1>1. /\ db' = db /\ deployed' = deployed
        /\ \A e \in Deployer : run'[e] # Idle =>
              /\ e # d /\ run[e] # Idle
              /\ run'[e].version = run[e].version /\ run'[e].missing = run[e].missing
              /\ run'[e].step = run[e].step /\ run'[e].known = run[e].known
              /\ run'[e].disturbed \/ (ExecThrows(d) /\ run'[e] = run[e])
    BY EndRun DEF DeployInv
  <1>2. run[d] # Idle
    BY DEF ExecThrows, Crash
  <1>3. RightsInv'
    BY EndRights DEF DeployInv
  <1>4. UniquesKept'
    BY <1>1 DEF DeployInv, UniquesKept, TableNames
  <1>5. KnownThere'
    <2> SUFFICES ASSUME NEW e \in Deployer, run'[e] # Idle
                 PROVE  /\ Statement(e)'.cmd = "table" => run'[e].known \subseteq Existing(run[e].missing)'
                        /\ Statement(e)'.cmd = "column" /\ run'[e].missing =>
                              run'[e].known \subseteq ColumnsThere(db', Statement(e)'.table)
      BY DEF KnownThere
    <2>1. /\ run[e] # Idle /\ run'[e].version = run[e].version /\ run'[e].missing = run[e].missing
          /\ run'[e].step = run[e].step /\ run'[e].known = run[e].known
      BY <1>1
    <2>2. Statement(e)' = Statement(e)
      BY <2>1 DEF Statement
    <2>3. Existing(run[e].missing)' = Existing(run[e].missing)
      BY <1>1, <2>1 DEF Existing, TableNames
    <2>4. QED
      BY <1>1, <2>1, <2>2, <2>3 DEF DeployInv, KnownThere
  <1>6. StepsDone'
    BY <1>1 DEF DeployInv, StepsDone
  <1>7. TriggersDone'
    <2> SUFFICES ASSUME NEW e \in Deployer, run'[e] # Idle, ~run'[e].disturbed,
                        NEW k \in 1 .. run'[e].step - 1, Program[run'[e].version][k].cmd = "create",
                        NEW s, s = Program[run'[e].version][k]
                 PROVE  Guarded(s)'
      BY DEF TriggersDone
    <2>1. ExecThrows(d) /\ run'[e] = run[e] /\ run[e] # Idle
      BY <1>1
    <2>2. /\ ~Accepts(Statement(d))
          /\ run' = [run EXCEPT ![d] = Idle]
      BY <2>1 DEF ExecThrows
    <2>3. Guarded(s)
      BY <2>1 DEF DeployInv, TriggersDone
    <2>4. CASE <<s.table, s.what>> \in db.triggers
      BY <1>1, <2>4 DEF Guarded
    <2>5. ASSUME NEW a \in Deployer, Recreates(a, s) PROVE Guarded(s)'
      <3>1. CASE a # d
        <4>1. run'[a] = run[a] /\ run[a] # Idle
          BY <2>2, <2>5, <3>1 DEF Recreates, DeployInv, RightsInv, TypeOK
        <4>2. Recreates(a, s)'
          BY <2>5, <4>1, RecreatesKept
        <4>3. QED
          BY <4>2 DEF Guarded
      <3>2. CASE a = d
        <4>1. /\ Statement(d).cmd \in {"drop", "create"}
              /\ s.table = Statement(d).table /\ s.what = Statement(d).what
          BY <2>5, <3>2 DEF Recreates
        <4>2. <<Statement(d).table, Statement(d).what>> \in db.triggers
          BY <1>2, <2>2, <4>1, TriggersAccepted DEF DeployInv
        <4>3. QED
          BY <1>1, <4>1, <4>2 DEF Guarded
      <3>3. QED
        BY <3>1, <3>2
    <2>6. QED
      BY <2>3, <2>4, <2>5 DEF Guarded
  <1>8. Quiet' /\ Deployed'
    BY <1>1, <1>2 DEF DeployInv, Quiet, Deployed
  <1>9. QED
    BY <1>3, <1>4, <1>5, <1>6, <1>7, <1>8 DEF DeployInv

\* Nothing happens.
LEMMA StutterDeploy ==
    ASSUME DeployInv, UNCHANGED vars
    PROVE  DeployInv'
  <1>1. RightsInv'
    BY StutterRights DEF DeployInv
  <1>2. db' = db /\ run' = run /\ newest' = newest /\ deployed' = deployed
    BY DEF vars
  <1>3. UniquesKept' /\ KnownThere' /\ StepsDone'
    BY <1>2 DEF DeployInv, UniquesKept, KnownThere, StepsDone, TableNames, Existing, Statement
  <1>4. TriggersDone'
    BY <1>2 DEF DeployInv, TriggersDone, Guarded, Recreates, Statement
  <1>5. Quiet' /\ Deployed'
    BY <1>2 DEF DeployInv, Quiet, Deployed, Granted
  <1>6. QED
    BY <1>1, <1>3, <1>4, <1>5 DEF DeployInv

\* The inductive invariant holds, for every schema whose versions only add to
\* earlier ones and whose flags CREATE TABLE can say.
THEOREM DeployInvariant == TablesAgree /\ FlagsMeant => (Spec => []DeployInv)
  <1> SUFFICES ASSUME TablesAgree, FlagsMeant PROVE Spec => []DeployInv
    OBVIOUS
  <1>1. DeployInv /\ [Next]_vars => DeployInv'
    <2> SUFFICES ASSUME DeployInv, [Next]_vars PROVE DeployInv'
      OBVIOUS
    <2>1. CASE UNCHANGED vars
      BY <2>1, StutterDeploy
    <2>2. ASSUME NEW d \in Deployer, NEW v \in Version, NEW missing \in Modes, Start(d, v, missing)
          PROVE  DeployInv'
      BY <2>2, StartDeploy
    <2>3. ASSUME NEW d \in Deployer, Exec(d) PROVE DeployInv'
      BY <2>3, ExecDeploy
    <2>4. ASSUME NEW d \in Deployer, ExecThrows(d) \/ Crash(d) PROVE DeployInv'
      BY <2>4, EndDeploy
    <2>5. ASSUME NEW d \in Deployer, ExecUnanswered(d) PROVE DeployInv'
      BY <2>5, UnansweredDeploy
    <2>6. QED
      BY <2>1, <2>2, <2>3, <2>4, <2>5 DEF Next, Step
  <1>2. QED
    BY <1>1, InitDeploy, PTL DEF Spec

\* After a deployment that completed, all that the schema asks for is in place,
\* whatever earlier ones left behind and whichever ran beside it: for every
\* schema whose versions only add to earlier ones.
THEOREM DeploymentCompletes == TablesAgree /\ FlagsMeant => (Spec => []Deployed)
  <1> SUFFICES ASSUME TablesAgree, FlagsMeant PROVE Spec => []Deployed
    OBVIOUS
  <1>1. DeployInv => Deployed
    BY DEF DeployInv
  <1>2. QED
    BY <1>1, DeployInvariant, PTL

-----------------------------------------------------------------------------
(* Redeployment: what stands in its way, and how it comes to its end *)

\* What stands in the way of a statement that is refused: what it creates is
\* there already.
RefusedIsThere ==
    \A d \in Deployer : run[d] # Idle /\ ~Accepts(Statement(d)) =>
        \/ Statement(d).cmd = "table" /\ Statement(d).table \in TableNames
        \/ Statement(d).cmd = "column" /\ HasColumn(Statement(d).table, Statement(d).what.name)
        \/ Statement(d).cmd = "create" /\ <<Statement(d).table, Statement(d).what>> \in db.triggers

\* A table that is there has the columns of one of its declarations.
WholeTables ==
    \A n \in TableNames : \E u \in Declared :
        u.name = n /\ \A c \in ToSet(u.columns) : DbColumn(n, ColumnStatement(c)) \in db.columns

\* The tables before a deployer's statement are there.
TablesThere ==
    \A d \in Deployer : run[d] # Idle =>
        \A k \in 1 .. run[d].step - 1 :
            Program[run[d].version][k].cmd = "table" => Program[run[d].version][k].table \in TableNames

\* Each statement brings a deployment nearer to its end, and others do not
\* bring it back.
RunsAdvance ==
    [][\A d \in Deployer : run[d] # Idle =>
          \/ run'[d] = Idle
          \/ /\ run'[d].version = run[d].version /\ run'[d].missing = run[d].missing
             /\ run'[d].step \in run[d].step .. Len(Program[run[d].version])
             /\ Step(d) => run'[d].step > run[d].step]_vars

\* Sequences of one element each are flattened to their elements.
LEMMA SinglesFlattened ==
    ASSUME NEW S, NEW ss \in Seq(Seq(S)), ss # <<>>, \A i \in 1 .. Len(ss) : Len(ss[i]) = 1
    PROVE  /\ Len(FlattenSeq(ss)) = Len(ss)
           /\ \A i \in 1 .. Len(ss) : FlattenSeq(ss)[i] = ss[i][1]
  <1>1. Len(ss) \in Nat \ {0} /\ \A i \in 1 .. Len(ss) : ss[i] \in Seq(S)
    OBVIOUS
  <1>2. PICK f \in [1 .. Len(ss) -> Seq(S)] :
              /\ FlattenSeq(ss) = f[Len(ss)]
              /\ \A j \in 1 .. Len(ss) : f[j] = IF j = 1 THEN ss[j] ELSE f[j - 1] \o ss[j]
    BY FlattenSteps DEF Flattens
  <1> DEFINE Is(n) == Len(f[n]) = n /\ \A i \in 1 .. n : f[n][i] = ss[i][1]
             T == {n \in Nat : n \in 1 .. Len(ss) => Is(n)}
  <1>3. 0 \in T
    OBVIOUS
  <1>4. ASSUME NEW n \in Nat, n \in T PROVE n + 1 \in T
    <2> SUFFICES ASSUME NEW k \in Nat, k = n + 1, k \in 1 .. Len(ss) PROVE Is(k)
      OBVIOUS
    <2>1. CASE k = 1
      <3>1. f[k] = ss[k] /\ Len(ss[k]) = 1
        BY <1>2, <2>1
      <3>2. \A i \in 1 .. k : i = k
        BY <2>1
      <3>3. QED
        BY <2>1, <3>1, <3>2
    <2>2. CASE k # 1
      <3>1. n \in 1 .. Len(ss) /\ Is(n) /\ k - 1 = n
        BY <1>1, <1>4, <2>2
      <3>2. f[k] = f[n] \o ss[k]
        BY <1>2, <2>2, <3>1
      <3>3. f[n] \in Seq(S) /\ ss[k] \in Seq(S) /\ Len(ss[k]) = 1
        BY <1>1, <1>2, <3>1
      <3>4. PICK r : r = f[n] \o ss[k] /\ Joins(f[n], ss[k], r, S)
        BY <3>3, JoinedElements
      <3>5. Len(r) = k
        BY <3>1, <3>3, <3>4 DEF Joins
      <3>6. \A i \in 1 .. n : r[i] = ss[i][1]
        BY <3>1, <3>4 DEF Joins
      <3>7. r[k] = ss[k][1]
        <4>1. 1 \in 1 .. Len(ss[k]) /\ Len(f[n]) + 1 = k
          BY <3>1, <3>3
        <4>2. r[Len(f[n]) + 1] = ss[k][1]
          BY <3>4, <4>1 DEF Joins
        <4>3. QED
          BY <4>1, <4>2
      <3>8. \A i \in 1 .. k : i = k \/ i \in 1 .. n
        OBVIOUS
      <3>9. QED
        BY <3>2, <3>4, <3>5, <3>6, <3>7, <3>8
    <2>3. QED
      BY <2>1, <2>2
  <1>5. Len(ss) \in T
    <2> HIDE DEF T
    <2> QED
      BY <1>1, <1>3, <1>4, SetInduction
  <1>6. Is(Len(ss))
    BY <1>1, <1>5
  <1>7. QED
    BY <1>2, <1>6

\* The first statements of a program create its tables, in their order.
LEMMA TablesInOrder ==
    ASSUME NEW v \in Version
    PROVE  /\ Len(Schema[v]) \in Nat /\ Len(Schema[v]) <= Len(Program[v]) /\ DOMAIN Schema[v] = 1 .. Len(Schema[v])
           /\ \A k \in 1 .. Len(Schema[v]) :
                 Program[v][k] = Command("table", Schema[v][k], CreateTableStatement(Schema[v][k]))
           /\ \A k \in 1 .. Len(Program[v]) : k > Len(Schema[v]) => Program[v][k].cmd # "table"
  <1> DEFINE T == ToSet(Schema[v])
             N == Len(Schema[v])
             S == Creating(T)
             ss == [i \in DOMAIN Schema[v] |-> CreateTable(Schema[v][i])]
             A == ForEach(Schema[v], CreateTable)
             B == ForEach(Schema[v], CreateMissingColumns)
             R == ForEach(Schema[v], TableRules) \o ForEach(Schema[v], ColumnRules)
             G == ForEach(Schema[v], Grants)
             D == ForEach(Schema[v], Triggers)
  <1>1. Schema[v] \in Seq(T) /\ N \in Nat \ {0} /\ DOMAIN Schema[v] = 1 .. N
    BY SchemaFacts
  <1>2. ASSUME NEW i \in 1 .. N
        PROVE  /\ CreateTable(Schema[v][i]) = <<Command("table", Schema[v][i], CreateTableStatement(Schema[v][i]))>>
               /\ CreateTable(Schema[v][i]) \in Seq(S)
    <2>1. Schema[v][i] \in T
      BY <1>1
    <2>2. PICK c \in S : c = Command("table", Schema[v][i], CreateTableStatement(Schema[v][i]))
      BY <2>1 DEF Creating
    <2>3. CreateTable(Schema[v][i]) = <<c>>
      BY <2>2 DEF CreateTable
    <2> HIDE DEF S
    <2>4. QED
      BY <2>2, <2>3
  <1> HIDE DEF S
  <1>3. /\ ss \in Seq(Seq(S)) /\ Len(ss) = N /\ ss # <<>>
        /\ \A i \in 1 .. N : ss[i] = CreateTable(Schema[v][i])
    BY <1>1, <1>2
  <1>4. A = FlattenSeq(ss)
    BY DEF ForEach
  <1> HIDE DEF ss
  <1>5. /\ Len(A) = N
        /\ \A k \in 1 .. N : A[k] = Command("table", Schema[v][k], CreateTableStatement(Schema[v][k]))
    <2>1. \A i \in 1 .. Len(ss) :
             Len(ss[i]) = 1 /\ ss[i][1] = Command("table", Schema[v][i], CreateTableStatement(Schema[v][i]))
      BY <1>2, <1>3
    <2>2. Len(FlattenSeq(ss)) = Len(ss) /\ \A i \in 1 .. Len(ss) : FlattenSeq(ss)[i] = ss[i][1]
      BY <1>3, <2>1, SinglesFlattened
    <2>3. QED
      BY <1>3, <1>4, <2>1, <2>2
  <1>6. /\ A \in Seq(Creating(T)) /\ B \in Seq(Reading(T) \cup Adding(T)) /\ R \in Seq(Ruling(T))
        /\ G \in Seq(Granting(T)) /\ D \in Seq(Guarding(T))
    <2>1. ForEach(Schema[v], TableRules) \in Seq(Ruling(T)) /\ ForEach(Schema[v], ColumnRules) \in Seq(Ruling(T))
      BY TableRulesPart, ColumnRulesPart
    <2>2. QED
      BY <2>1, CreatingPart, AddingPart, GrantsPart, GuardingPart DEF ReadFirst, Recreated
  <1>7. Program[v] = (A \o B) \o ((R \o G) \o D)
    BY ProgramParts
  <1> HIDE DEF A, B, R, G, D, T, N
  <1> DEFINE Rest == {s \in Statements(T) : s.cmd # "table"}
  <1>8. /\ A \in Seq(Statements(T)) /\ B \in Seq(Rest) /\ R \in Seq(Rest)
        /\ G \in Seq(Rest) /\ D \in Seq(Rest)
    <2>1. Creating(T) \subseteq Statements(T)
      BY DEF Statements
    <2>2. \A X \in {Reading(T) \cup Adding(T), Ruling(T), Granting(T), Guarding(T)} : X \subseteq Rest
      BY KindOf DEF Statements
    <2> HIDE DEF Rest
    <2>3. QED
      BY <1>6, <2>1, <2>2
  <1>9. \A s \in Rest : s.cmd # "table"
    OBVIOUS
  <1>10. Rest \subseteq Statements(T)
    OBVIOUS
  <1> HIDE DEF Rest
  <1> DEFINE U == (R \o G) \o D
             Q == B \o U
  <1>11. U \in Seq(Rest) /\ Q \in Seq(Rest) /\ Q \in Seq(Statements(T))
    <2>1. R \o G \in Seq(Rest)
      BY <1>8
    <2>2. U \in Seq(Rest)
      BY <1>8, <2>1
    <2> HIDE DEF U
    <2>3. Q \in Seq(Rest)
      BY <1>8, <2>2
    <2>4. QED
      BY <1>10, <2>2, <2>3
  <1>12. Program[v] = A \o Q
    <2>1. B \in Seq(Statements(T)) /\ U \in Seq(Statements(T))
      BY <1>8, <1>10, <1>11
    <2>2. Program[v] = (A \o B) \o U
      BY <1>7
    <2> HIDE DEF U
    <2>3. QED
      BY <1>8, <2>1, <2>2
  <1> HIDE DEF Q, U
  <1>13. PICK p : p = Program[v] /\ Joins(A, Q, p, Statements(T))
    BY <1>8, <1>11, <1>12, JoinedElements
  <1>14. N <= Len(p) /\ \A k \in 1 .. N : p[k] = A[k]
    BY <1>5, <1>11, <1>13, <1>1 DEF Joins
  <1>15. ASSUME NEW k \in 1 .. Len(p), k > N PROVE p[k].cmd # "table"
    <2>1. k - N \in 1 .. Len(Q) /\ Len(A) + (k - N) = k
      BY <1>1, <1>5, <1>11, <1>13, <1>15 DEF Joins
    <2>2. p[k] = Q[k - N]
      BY <1>13, <2>1 DEF Joins
    <2>3. Q[k - N] \in Rest
      BY <1>11, <2>1
    <2>4. QED
      BY <1>9, <2>2, <2>3
  <1>16. QED
    BY <1>1, <1>5, <1>13, <1>14, <1>15 DEF N

\* A deployer that is past the creation of tables has them all.
LEMMA TablesBefore ==
    ASSUME RightsInv, TablesThere, NEW d \in Deployer, run[d] # Idle,
           NEW j \in DOMAIN Schema[run[d].version],
           Statement(d).cmd # "table" \/ j < run[d].step
    PROVE  Schema[run[d].version][j].name \in TableNames
  <1> DEFINE v == run[d].version
             i == run[d].step
  <1>1. v \in Version /\ i \in 1 .. Len(Program[v]) /\ Len(Program[v]) \in Nat /\ Statement(d) = Program[v][i]
    BY AtStatement DEF RightsInv
  <1>2. /\ Len(Schema[v]) \in Nat /\ j \in 1 .. Len(Schema[v])
        /\ \A k \in 1 .. Len(Schema[v]) :
              Program[v][k] = Command("table", Schema[v][k], CreateTableStatement(Schema[v][k]))
    BY <1>1, TablesInOrder
  <1>3. \A k \in 1 .. Len(Schema[v]) : Program[v][k].cmd = "table" /\ Program[v][k].table = Schema[v][k].name
    BY <1>2, CommandOf
  <1>4. j \in 1 .. i - 1
    <2>1. CASE Statement(d).cmd # "table"
      <3>1. i \notin 1 .. Len(Schema[v])
        BY <1>1, <1>3, <2>1
      <3>2. QED
        BY <1>1, <1>2, <3>1
    <2>2. CASE j < i
      BY <1>1, <1>2, <2>2
    <2>3. QED
      BY <2>1, <2>2
  <1>5. QED
    BY <1>2, <1>3, <1>4 DEF TablesThere

\* A column that is unique is one that CREATE TABLE makes referable.
LEMMA UniqueReferable ==
    ASSUME NEW C, NEW u, NEW k, DbColumn(u, ColumnStatement(k)) \in C, "Unique" \in k.flags,
           NEW ref, ref.table = u, ref.column = k.name
    PROVE  Referable(C, ref)
  <1> DEFINE e == DbColumn(u, ColumnStatement(k))
  <1>1. e.table = u /\ e.name = k.name /\ e.clauses = ColumnStatement(k).clauses
    BY ColumnStatementOf DEF DbColumn
  <1>2. "PRIMARY KEY" \in ColumnStatement(k).clauses \/ "UNIQUE" \in ColumnStatement(k).clauses
    BY DEF ColumnStatement
  <1>3. e.clauses \cap {"PRIMARY KEY", "UNIQUE"} # {}
    BY <1>1, <1>2
  <1> HIDE DEF e
  <1>4. e \in C
    BY DEF e
  <1>5. QED
    BY <1>1, <1>3, <1>4 DEF Referable

\* A foreign key of a table whose earlier tables are there resolves.
LEMMA ReferenceResolves ==
    ASSUME ReferencesLead, WholeTables, NEW v \in Version, NEW i \in DOMAIN Schema[v],
           NEW c \in ToSet(Schema[v][i].columns), HasForeignKey(c), NEW C,
           db.columns \subseteq C,
           \A j \in 1 .. i : \/ Schema[v][j].name \in TableNames
                             \/ /\ j = i
                                /\ \A k \in ToSet(Schema[v][i].columns) :
                                      DbColumn(Schema[v][i].name, ColumnStatement(k)) \in C
    PROVE  Referable(C, c.references)
  <1>1. PICK j \in 1 .. i : Schema[v][j].name = c.references.table
    BY DEF ReferencesLead
  <1>2. PICK u \in Declared :
              /\ u.name = c.references.table
              /\ \A k \in ToSet(u.columns) : DbColumn(u.name, ColumnStatement(k)) \in C
    <2>1. CASE Schema[v][j].name \in TableNames
      <3>1. PICK u \in Declared :
                  /\ u.name = c.references.table
                  /\ \A k \in ToSet(u.columns) : DbColumn(u.name, ColumnStatement(k)) \in db.columns
        BY <1>1, <2>1 DEF WholeTables
      <3>2. QED
        BY <3>1
    <2>2. CASE j = i /\ \A k \in ToSet(Schema[v][i].columns) :
                           DbColumn(Schema[v][i].name, ColumnStatement(k)) \in C
      <3>1. Schema[v][i] \in Declared
        BY SchemaFacts DEF ToSet
      <3>2. QED
        BY <1>1, <2>2, <3>1
    <2>3. QED
      BY <2>1, <2>2
  <1>3. PICK k \in ToSet(u.columns) : k.name = c.references.column /\ "Unique" \in k.flags
    BY <1>2 DEF ReferencesLead
  <1>4. DbColumn(u.name, ColumnStatement(k)) \in C
    BY <1>2
  <1>5. QED
    BY <1>2, <1>3, <1>4, UniqueReferable

\* What a table asks for is accepted where there is no table of its name.
LEMMA TableAccepted ==
    ASSUME RightsInv, TablesThere, WholeTables, ReferencesLead, NamesDiffer,
           NEW d \in Deployer, run[d] # Idle, Statement(d).cmd = "table",
           Statement(d).table \notin TableNames
    PROVE  Accepts(Statement(d))
  <1> DEFINE v == run[d].version
             i == run[d].step
             t == Schema[v][i]
             s == Statement(d)
  <1>1. v \in Version /\ i \in 1 .. Len(Program[v]) /\ Len(Program[v]) \in Nat /\ s = Program[v][i]
    BY AtStatement DEF RightsInv
  <1>2. /\ Len(Schema[v]) \in Nat /\ DOMAIN Schema[v] = 1 .. Len(Schema[v])
        /\ \A k \in 1 .. Len(Schema[v]) :
              Program[v][k] = Command("table", Schema[v][k], CreateTableStatement(Schema[v][k]))
        /\ \A k \in 1 .. Len(Program[v]) : k > Len(Schema[v]) => Program[v][k].cmd # "table"
    BY <1>1, TablesInOrder
  <1>3. i \in 1 .. Len(Schema[v]) /\ i \in DOMAIN Schema[v]
    BY <1>1, <1>2
  <1>4. s.table = t.name /\ s.what = CreateTableStatement(t)
    BY <1>1, <1>2, <1>3, CommandOf
  <1>5. t \in Declared
    BY <1>1, <1>3, SchemaFacts DEF ToSet
  <1>6. \A j \in 1 .. i - 1 : Schema[v][j].name \in TableNames
    <2> TAKE j \in 1 .. i - 1
    <2>1. j \in DOMAIN Schema[v] /\ j < i
      BY <1>2, <1>3
    <2>2. QED
      BY <2>1, TablesBefore
  <1>7. /\ DOMAIN s.what.columns = DOMAIN t.columns
        /\ \A k \in DOMAIN t.columns : s.what.columns[k] = ColumnStatement(t.columns[k])
    <2>1. PICK u : u = t
      OBVIOUS
    <2>2. /\ DOMAIN CreateTableStatement(u).columns = DOMAIN u.columns
          /\ \A k \in DOMAIN u.columns : CreateTableStatement(u).columns[k] = ColumnStatement(u.columns[k])
      BY DEF CreateTableStatement
    <2>3. QED
      BY <1>4, <2>1, <2>2
  <1>8. \A j, k \in DOMAIN s.what.columns :
           s.what.columns[j].name = s.what.columns[k].name => j = k
    BY <1>5, <1>7, ColumnStatementOf DEF NamesDiffer
  <1>9. DbColumns(s) = {DbColumn(t.name, ColumnStatement(t.columns[k])) : k \in DOMAIN t.columns}
    BY <1>4, <1>7 DEF DbColumns
  <1>10. \A c \in ToSet(t.columns) : DbColumn(t.name, ColumnStatement(c)) \in DbColumns(s)
    BY <1>9 DEF ToSet
  <1>11. Resolves(DbColumns(s))
    <2> SUFFICES ASSUME NEW e \in DbColumns(s), e.references # NoReference
                 PROVE  Referable(db.columns \cup DbColumns(s), e.references)
      BY DEF Resolves
    <2>1. PICK c \in ToSet(t.columns) : e = DbColumn(t.name, ColumnStatement(c))
      BY <1>9 DEF ToSet
    <2>2. e.references = c.references
      BY <2>1, ColumnStatementOf DEF DbColumn
    <2>3. HasForeignKey(c)
      BY <2>2 DEF HasForeignKey
    <2> HIDE DEF s
    <2>4. \A j \in 1 .. i : j = i \/ j \in 1 .. i - 1
      BY <1>1
    <2>5. \A k \in ToSet(t.columns) : DbColumn(t.name, ColumnStatement(k)) \in db.columns \cup DbColumns(s)
      BY <1>10
    <2>6. Referable(db.columns \cup DbColumns(s), c.references)
      BY <1>1, <1>3, <1>6, <2>3, <2>4, <2>5, ReferenceResolves
    <2>7. QED
      BY <2>2, <2>6
  <1>12. s.cmd = "table" /\ s.table \notin TableNames
    OBVIOUS
  <1> SUFFICES Accepts(s)
    OBVIOUS
  <1> HIDE DEF s
  <1>13. QED
    BY <1>8, <1>11, <1>12 DEF Accepts

\* Which flags make a column obligatory, and which one gives it a default.
LEMMA ObligatoryIs ==
    ASSUME NEW c
    PROVE  /\ "NOT NULL" \in ColumnStatement(c).clauses \/ "PRIMARY KEY" \in ColumnStatement(c).clauses
                 => "NotNull" \in c.flags
           /\ "Default" \in c.flags => "DEFAULT" \in ColumnStatement(c).clauses
  <1> DEFINE K == IF IsPrimaryKey(c) THEN {"PRIMARY KEY"}
                  ELSE (IF "Unique" \in c.flags THEN {"UNIQUE"} ELSE {})
                         \cup (IF "NotNull" \in c.flags THEN {"NOT NULL"} ELSE {})
             D == IF "Default" \in c.flags THEN {"DEFAULT"} ELSE {}
             O == OnDeleteClause(c)
  <1>1. ColumnStatement(c).clauses = K \cup D \cup O
    BY DEF ColumnStatement
  <1>2. "NOT NULL" \notin D \cup O /\ "PRIMARY KEY" \notin D \cup O
    BY DEF OnDeleteClause
  <1>3. IsPrimaryKey(c) => "NotNull" \in c.flags
    BY DEF IsPrimaryKey, PrimaryKey
  <1>4. "NOT NULL" \in K \/ "PRIMARY KEY" \in K => "NotNull" \in c.flags
    BY <1>3
  <1>5. QED
    BY <1>1, <1>2, <1>4

\* A column is accepted where its table has none of its name.
LEMMA ColumnAccepted ==
    ASSUME RightsInv, TablesThere, WholeTables, ReferencesLead, ColumnsAddable,
           NEW d \in Deployer, run[d] # Idle, Statement(d).cmd = "column",
           ~HasColumn(Statement(d).table, Statement(d).what.name)
    PROVE  Accepts(Statement(d))
  <1> DEFINE v == run[d].version
             s == Statement(d)
  <1>1. /\ v \in Version /\ run[d].step \in 1 .. Len(Program[v])
        /\ s = Program[v][run[d].step]
    BY AtStatement DEF RightsInv
  <1>2. PICK t \in ToSet(Schema[v]) : \E c \in ToSet(t.columns) : s = Command("column", t, ColumnStatement(c))
    BY <1>1, Forms, CommandOf DEF Formed
  <1>3. PICK c \in ToSet(t.columns) : s = Command("column", t, ColumnStatement(c))
    BY <1>2
  <1>4. s.table = t.name /\ s.what = ColumnStatement(c)
    BY <1>3, CommandOf
  <1>5. PICK i \in DOMAIN Schema[v] : t = Schema[v][i]
    BY DEF ToSet
  <1>6. \A j \in DOMAIN Schema[v] : Schema[v][j].name \in TableNames
    BY TablesBefore
  <1>7. s.table \in TableNames
    BY <1>4, <1>5, <1>6
  <1>8. DOMAIN Schema[v] = 1 .. Len(Schema[v]) /\ Len(Schema[v]) \in Nat
    BY <1>1, TablesInOrder
  <1>9. Resolves({DbColumn(s.table, s.what)})
    <2> SUFFICES ASSUME c.references # NoReference
                 PROVE  Referable(db.columns \cup {DbColumn(s.table, s.what)}, c.references)
      BY <1>4, ColumnStatementOf DEF Resolves, DbColumn
    <2>1. HasForeignKey(c) /\ c \in ToSet(Schema[v][i].columns)
      BY <1>5 DEF HasForeignKey
    <2>2. \A j \in 1 .. i : Schema[v][j].name \in TableNames
      BY <1>6, <1>8
    <2>3. QED
      BY <1>1, <2>1, <2>2, ReferenceResolves
  <1>10. ASSUME s.what.clauses \cap {"NOT NULL", "PRIMARY KEY"} # {}, "DEFAULT" \notin s.what.clauses
         PROVE  s.table \notin Filled
    <2>1. "NotNull" \in c.flags /\ "Default" \notin c.flags
      <3>1. \/ "NOT NULL" \in ColumnStatement(c).clauses
            \/ "PRIMARY KEY" \in ColumnStatement(c).clauses
        BY <1>4, <1>10
      <3>2. QED
        BY <1>4, <1>10, <3>1, ObligatoryIs
    <2>2. PICK u \in Declared : /\ u.name = t.name
                                /\ \A k \in ToSet(u.columns) : DbColumn(t.name, ColumnStatement(k)) \in db.columns
      BY <1>4, <1>7 DEF WholeTables
    <2>3. c.name \notin ColumnNames(u)
      <3> SUFFICES ASSUME c.name \in ColumnNames(u) PROVE FALSE
        OBVIOUS
      <3>1. PICK k \in ToSet(u.columns) : k.name = c.name
        BY DEF ColumnNames, ToSet
      <3>2. HasColumn(t.name, c.name)
        BY <2>2, <3>1, ColumnStatementOf DEF HasColumn, DbColumn
      <3>3. s.what.name = c.name
        BY <1>4, ColumnStatementOf
      <3>4. QED
        BY <1>4, <3>2, <3>3
    <2>4. t \in Declared
      BY <1>1, SchemaFacts
    <2>5. QED
      BY <1>4, <2>1, <2>2, <2>3, <2>4 DEF ColumnsAddable
  <1>11. s.cmd = "column" /\ ~HasColumn(s.table, s.what.name)
    OBVIOUS
  <1> SUFFICES Accepts(s)
    OBVIOUS
  <1> HIDE DEF s
  <1>12. QED
    BY <1>7, <1>9, <1>10, <1>11 DEF Accepts

\* What stands in the way of statements, for all kinds of them.
LEMMA RefusedForThere ==
    ASSUME RightsInv, StepsDone, TablesThere, WholeTables,
           ReferencesLead, NamesDiffer, ColumnsAddable
    PROVE  RefusedIsThere
  <1> SUFFICES ASSUME NEW d \in Deployer, run[d] # Idle, ~Accepts(Statement(d))
               PROVE  \/ Statement(d).cmd = "table" /\ Statement(d).table \in TableNames
                      \/ Statement(d).cmd = "column" /\ HasColumn(Statement(d).table, Statement(d).what.name)
                      \/ Statement(d).cmd = "create" /\ <<Statement(d).table, Statement(d).what>> \in db.triggers
    BY DEF RefusedIsThere
  <1>1. Statement(d).cmd \in Cmds
    BY AtStatement DEF RightsInv
  <1>2. CASE Statement(d).cmd \in {"table", "column"}
    BY <1>2, TableAccepted, ColumnAccepted
  <1>3. CASE Statement(d).cmd = "create"
    BY <1>3, TriggersAccepted
  <1>4. CASE Statement(d).cmd = "read"
    BY <1>4 DEF Accepts
  <1>5. CASE Statement(d).cmd \in {"rule", "admin", "user", "drop"}
    <2> DEFINE v == run[d].version
    <2>1. PICK t \in ToSet(Schema[v]) : Statement(d).table = t.name
      <3>1. v \in Version /\ run[d].step \in 1 .. Len(Program[v]) /\ Statement(d) = Program[v][run[d].step]
        BY AtStatement DEF RightsInv
      <3>2. Formed(Statement(d), ToSet(Schema[v]))
        BY <3>1, Forms
      <3>3. QED
        BY <3>2, CommandOf DEF Formed
    <2>2. PICK j \in DOMAIN Schema[v] : t = Schema[v][j]
      BY DEF ToSet
    <2>3. Statement(d).table \in TableNames
      BY <1>5, <2>1, <2>2, TablesBefore
    <2>4. QED
      BY <1>5, <2>3 DEF Accepts
  <1>6. QED
    BY <1>1, <1>2, <1>3, <1>4, <1>5 DEF Cmds

\* A statement that is executed leaves whole tables.
LEMMA ExecutedWhole ==
    ASSUME RightsInv, WholeTables, NamesDiffer, NEW d \in Deployer, run[d] # Idle,
           Accepts(Statement(d)), db' = After(Statement(d))
    PROVE  /\ WholeTables' /\ TableNames \subseteq TableNames'
           /\ Statement(d).cmd = "table" => Statement(d).table \in TableNames'
  <1> DEFINE v == run[d].version
             s == Statement(d)
  <1>1. v \in Version /\ run[d].step \in 1 .. Len(Program[v]) /\ s = Program[v][run[d].step] /\ s.cmd \in Cmds
    BY AtStatement DEF RightsInv
  <1>2. s.cmd = "table" => \E t \in Declared : s = Command("table", t, CreateTableStatement(t))
    <2> SUFFICES ASSUME s.cmd = "table"
                 PROVE  \E t \in Declared : s = Command("table", t, CreateTableStatement(t))
      OBVIOUS
    <2>1. \E t \in ToSet(Schema[v]) : s = Command("table", t, CreateTableStatement(t))
      BY <1>1, Forms, CommandOf DEF Formed
    <2>2. QED
      BY <1>1, <2>1, SchemaFacts
  <1>3. Accepts(s) /\ db' = After(s)
    OBVIOUS
  <1> HIDE DEF s, v
  <1>4. db'.columns = db.columns \cup (IF s.cmd = "table" THEN DbColumns(s)
                                       ELSE IF s.cmd = "column" THEN {DbColumn(s.table, s.what)} ELSE {})
    BY <1>1, <1>3, Grown DEF RightsInv
  <1>5. ASSUME NEW t \in Declared, s = Command("table", t, CreateTableStatement(t))
        PROVE  /\ s.table = t.name
               /\ \A c \in ToSet(t.columns) : DbColumn(t.name, ColumnStatement(c)) \in db'.columns
    <2>1. s.cmd = "table" /\ s.table = t.name /\ s.what = CreateTableStatement(t)
      BY <1>5, CommandOf
    <2>2. ASSUME NEW c \in ToSet(t.columns) PROVE DbColumn(t.name, ColumnStatement(c)) \in DbColumns(s)
      <3>1. PICK i \in DOMAIN t.columns : c = t.columns[i]
        BY DEF ToSet
      <3>2. i \in DOMAIN s.what.columns /\ s.what.columns[i] = ColumnStatement(c)
        BY <2>1, <3>1 DEF CreateTableStatement
      <3>3. QED
        BY <2>1, <3>2 DEF DbColumns
    <2>3. QED
      BY <1>4, <2>1, <2>2
  <1>6. TableNames \subseteq TableNames'
    BY <1>4 DEF TableNames
  <1>7. ASSUME s.cmd = "table" PROVE s.table \in TableNames'
    <2>1. PICK t \in Declared : s = Command("table", t, CreateTableStatement(t))
      BY <1>2, <1>7
    <2>2. PICK c : c \in ToSet(t.columns)
      <3>1. t.columns # <<>> /\ t.columns \in Seq(ToSet(t.columns))
        BY SchemaFacts DEF NamesDiffer
      <3>2. QED
        BY <3>1
    <2>3. DbColumn(t.name, ColumnStatement(c)) \in db'.columns
      BY <1>5, <2>1, <2>2
    <2>4. s.table = t.name
      BY <1>5, <2>1
    <2>5. QED
      BY <2>3, <2>4 DEF TableNames, DbColumn
  <1>8. WholeTables'
    <2> SUFFICES ASSUME NEW n \in TableNames'
                 PROVE  \E u \in Declared :
                           u.name = n /\ \A c \in ToSet(u.columns) : DbColumn(n, ColumnStatement(c)) \in db'.columns
      BY DEF WholeTables
    <2>1. CASE n \in TableNames
      BY <1>4, <2>1 DEF WholeTables
    <2>2. CASE n \notin TableNames
      <3>1. PICK e \in db'.columns : e.table = n /\ e \notin db.columns
        BY <2>2 DEF TableNames
      <3>2. s.cmd # "column"
        <4> SUFFICES ASSUME s.cmd = "column" PROVE FALSE
          OBVIOUS
        <4>1. e = DbColumn(s.table, s.what)
          BY <1>4, <3>1
        <4>2. s.table = n
          BY <3>1, <4>1 DEF DbColumn
        <4>3. s.table \in TableNames
          BY <1>3 DEF Accepts
        <4>4. QED
          BY <2>2, <4>2, <4>3
      <3>3. s.cmd = "table" /\ e \in DbColumns(s)
        BY <1>4, <3>1, <3>2
      <3>4. s.table = n
        BY <3>1, <3>3 DEF DbColumns, DbColumn
      <3>5. QED
        BY <1>2, <1>5, <3>3, <3>4
    <2>3. QED
      BY <2>1, <2>2
  <1>9. QED
    BY <1>6, <1>7, <1>8 DEF s

\* Every step keeps tables whole, and those there that a deployer is past.
LEMMA NextThere ==
    ASSUME NamesDiffer, DeployInv, WholeTables, TablesThere, [Next]_vars
    PROVE  WholeTables' /\ TablesThere'
  <1>1. CASE UNCHANGED vars
    BY <1>1 DEF vars, WholeTables, TablesThere, TableNames
  <1>2. ASSUME NEW d \in Deployer, NEW v \in Version, NEW missing \in Modes, Start(d, v, missing)
        PROVE  WholeTables' /\ TablesThere'
    <2>1. /\ db' = db /\ \A e \in Deployer \ {d} : run'[e] = run[e]
          /\ run'[d].version = v /\ run'[d].step \in 1 .. Len(Program[v])
          /\ \A k \in 1 .. run'[d].step - 1 : LeftOut(Program[v][k], missing, Existing(missing))
      BY <1>2, StartRun DEF DeployInv
    <2>2. TableNames' = TableNames
      BY <2>1 DEF TableNames
    <2>3. ASSUME NEW k \in 1 .. run'[d].step - 1, Program[v][k].cmd = "table"
          PROVE  Program[v][k].table \in TableNames
      <3>1. Program[v][k].table \in Existing(missing)
        BY <2>1, <2>3, LeftOutIs
      <3>2. QED
        BY <3>1 DEF Existing
    <2>4. QED
      BY <2>1, <2>2, <2>3 DEF WholeTables, TablesThere
  <1>3. ASSUME NEW d \in Deployer, Exec(d) PROVE WholeTables' /\ TablesThere'
    <2> DEFINE v == run[d].version
               i == run[d].step
    <2>1. /\ run[d] # Idle /\ Accepts(Statement(d)) /\ db' = After(Statement(d))
          /\ \A e \in Deployer \ {d} : run'[e] = run[e]
      BY <1>3, ExecRun DEF DeployInv
    <2>2. PICK next \in i + 1 .. Len(Program[v]) + 1 :
                /\ \A k \in i + 1 .. next - 1 :
                      LeftOut(Program[v][k], run[d].missing, Known(d, Statement(d)))
                /\ \/ run'[d].version = v /\ run'[d].step = next
                   \/ run'[d] = Idle
      BY <1>3, ExecRun DEF DeployInv
    <2>3. /\ WholeTables' /\ TableNames \subseteq TableNames'
          /\ Statement(d).cmd = "table" => Statement(d).table \in TableNames'
      BY <2>1, ExecutedWhole DEF DeployInv
    <2>4. /\ i \in 1 .. Len(Program[v]) /\ Len(Program[v]) \in Nat
          /\ Statement(d) = Program[v][i]
      BY <2>1, AtStatement DEF DeployInv, RightsInv
    <2>5. ASSUME NEW k \in 1 .. next - 1, Program[v][k].cmd = "table"
          PROVE  Program[v][k].table \in TableNames'
      <3>1. CASE k < i
        <4>1. k \in 1 .. i - 1
          BY <2>4, <3>1
        <4>2. QED
          BY <2>1, <2>3, <2>5, <4>1 DEF TablesThere
      <3>2. CASE k = i
        BY <2>3, <2>4, <2>5, <3>2
      <3>3. CASE k > i
        <4>1. k \in i + 1 .. next - 1 /\ k \in i + 1 .. Len(Program[v])
          BY <2>2, <2>4, <3>3
        <4>2. \A m \in i + 1 .. k - 1 : LeftOut(Program[v][m], run[d].missing, Known(d, Statement(d)))
          <5>1. \A m \in i + 1 .. k - 1 : m \in i + 1 .. next - 1
            BY <2>4, <4>1
          <5>2. QED
            BY <2>2, <5>1
        <4>3. Known(d, Statement(d)) \subseteq Existing(run[d].missing)
          BY <2>1, <2>5, <4>1, <4>2, KnownLater DEF DeployInv
        <4>4. Program[v][k].table \in Known(d, Statement(d))
          BY <2>2, <2>5, <4>1, LeftOutIs
        <4>5. Program[v][k].table \in TableNames
          BY <4>3, <4>4 DEF Existing
        <4>6. QED
          BY <2>3, <4>5
      <3>4. QED
        BY <2>4, <3>1, <3>2, <3>3
    <2>6. TablesThere'
      <3> SUFFICES ASSUME NEW e \in Deployer, run'[e] # Idle, NEW k \in 1 .. run'[e].step - 1,
                          Program[run'[e].version][k].cmd = "table"
                   PROVE  Program[run'[e].version][k].table \in TableNames'
        BY DEF TablesThere
      <3>1. CASE e = d
        BY <2>2, <2>5, <3>1
      <3>2. CASE e # d
        BY <2>1, <2>3, <3>2 DEF TablesThere
      <3>3. QED
        BY <3>1, <3>2
    <2>7. QED
      BY <2>3, <2>6
  <1>4. ASSUME NEW d \in Deployer, ExecThrows(d) \/ Crash(d) PROVE WholeTables' /\ TablesThere'
    <2>1. /\ db' = db
          /\ \A e \in Deployer : run'[e] # Idle =>
                /\ run[e] # Idle
                /\ run'[e].version = run[e].version /\ run'[e].step = run[e].step
      BY <1>4, EndRun DEF DeployInv
    <2>2. TableNames' = TableNames
      BY <2>1 DEF TableNames
    <2>3. QED
      BY <2>1, <2>2 DEF WholeTables, TablesThere
  <1>5. ASSUME NEW d \in Deployer, ExecUnanswered(d) PROVE WholeTables' /\ TablesThere'
    <2>1. run[d] # Idle /\ Accepts(Statement(d)) /\ db' = After(Statement(d)) /\ run' = run
      BY <1>5 DEF ExecUnanswered
    <2>2. WholeTables' /\ TableNames \subseteq TableNames'
      BY <2>1, ExecutedWhole DEF DeployInv
    <2>3. QED
      BY <2>1, <2>2 DEF TablesThere
  <1>6. QED
    BY <1>1, <1>2, <1>3, <1>4, <1>5 DEF Next, Step

\* What is refused is there already: a deployment ends in the middle only where
\* another deployment, or a statement whose reply was lost, was first.  So it
\* is for every schema whose versions only add to earlier ones, whose foreign
\* keys lead to columns that are unique from the first version of their tables
\* on, and which adds no obligatory column without a default to tables with rows.
THEOREM RefusedOnlyForThere ==
    ASSUME TablesAgree, FlagsMeant, ReferencesLead, NamesDiffer, ColumnsAddable
    PROVE  Spec => []RefusedIsThere
  <1>1. Init => WholeTables /\ TablesThere
    BY DEF Init, WholeTables, TablesThere, TableNames
  <1>2. DeployInv /\ WholeTables /\ TablesThere /\ [Next]_vars => WholeTables' /\ TablesThere'
    BY NextThere
  <1>3. DeployInv /\ WholeTables /\ TablesThere => RefusedIsThere
    BY RefusedForThere DEF DeployInv
  <1>4. Spec => []DeployInv
    BY DeployInvariant
  <1>5. QED
    BY <1>1, <1>2, <1>3, <1>4, PTL DEF Spec

\* Every statement of a deployment brings it nearer to its end, and what other
\* deployers do, or a lost reply, does not bring it back.
THEOREM DeploymentsComeToAnEnd == Spec => RunsAdvance
  <1> DEFINE A == \A d \in Deployer : run[d] # Idle =>
                     \/ run'[d] = Idle
                     \/ /\ run'[d].version = run[d].version /\ run'[d].missing = run[d].missing
                        /\ run'[d].step \in run[d].step .. Len(Program[run[d].version])
                        /\ Step(d) => run'[d].step > run[d].step
  <1>1. RightsInv /\ [Next]_vars => A
    <2> SUFFICES ASSUME RightsInv, [Next]_vars, NEW d \in Deployer, run[d] # Idle, run'[d] # Idle
                 PROVE  /\ run'[d].version = run[d].version /\ run'[d].missing = run[d].missing
                        /\ run'[d].step \in run[d].step .. Len(Program[run[d].version])
                        /\ Step(d) => run'[d].step > run[d].step
      OBVIOUS
    <2>1. /\ run[d].step \in 1 .. Len(Program[run[d].version])
          /\ Len(Program[run[d].version]) \in Nat
      BY AtStatement DEF RightsInv
    <2>2. ASSUME Step(d)
          PROVE  /\ run'[d].version = run[d].version /\ run'[d].missing = run[d].missing
                 /\ run'[d].step \in run[d].step + 1 .. Len(Program[run[d].version])
      <3>1. Exec(d)
        BY <2>2, EndRun DEF Step
      <3>2. PICK next \in run[d].step + 1 .. Len(Program[run[d].version]) + 1 :
                  /\ next \in 1 .. Len(Program[run[d].version])
                  /\ run'[d].version = run[d].version /\ run'[d].missing = run[d].missing
                  /\ run'[d].step = next
        BY <3>1, ExecRun
      <3>3. QED
        BY <2>1, <3>2
    <2>3. ASSUME ~Step(d)
          PROVE  /\ run'[d].version = run[d].version /\ run'[d].missing = run[d].missing
                 /\ run'[d].step = run[d].step
      <3>1. ASSUME NEW e \in Deployer, NEW v \in Version, NEW missing \in Modes, Start(e, v, missing)
            PROVE  run'[d] = run[d]
        BY <3>1, StartRun
      <3>2. ASSUME NEW e \in Deployer, Exec(e) PROVE run'[d] = run[d]
        BY <2>3, <3>2, ExecRun DEF Step
      <3>3. ASSUME NEW e \in Deployer, ExecThrows(e) \/ Crash(e)
            PROVE  /\ run'[d].version = run[d].version /\ run'[d].missing = run[d].missing
                   /\ run'[d].step = run[d].step
        BY <3>3, EndRun
      <3>4. ASSUME NEW e \in Deployer, ExecUnanswered(e) PROVE run'[d] = run[d]
        BY <3>4 DEF ExecUnanswered
      <3>5. CASE UNCHANGED vars
        BY <3>5 DEF vars
      <3>6. QED
        BY <3>1, <3>2, <3>3, <3>4, <3>5 DEF Next, Step
    <2>4. QED
      BY <2>1, <2>2, <2>3
  <1>2. QED
    BY <1>1, RightsInvariant, PTL DEF Spec, RunsAdvance

-----------------------------------------------------------------------------
(* Drawings *)

\* A column that a foreign key references is a port of the drawing.
LEMMA ReferencedPort ==
    ASSUME EdgesLead, NEW v \in Version, NEW t \in ToSet(Schema[v]), NEW c \in ToSet(t.columns),
           HasForeignKey(c)
    PROVE  c.references \in Ports(Schema[v])
  BY DEF EdgesLead, Ports

\* The edges of a drawing.
LEMMA EdgesAre ==
    ASSUME NEW S, NEW e
    PROVE  e \in Edges(S) <=> \/ \E u \in Nodes(S) : e \in ForeignKeyEdges(u)
                              \/ \E u \in ToSet(S) : IsEdge(u) /\ e = RelationEdge(u)
  BY DEF Edges

\* The drawing of a version of the schema shows all of it.
LEMMA VersionDrawn ==
    ASSUME EdgesLead, NEW v \in Version
    PROVE  Draws(Schema[v])
  <1> DEFINE S == Schema[v]
  <1>1. ASSUME NEW t \in ToSet(S), NEW c \in ToSet(t.columns) PROVE Shows(S, t, c)
    <2> DEFINE port == ReferenceTo(t.name, c.name)
    <2>1. CASE IsNode(t)
      <3>1. HasForeignKey(c) => [from |-> port, to |-> c.references] \in Edges(S)
        <4>1. HasForeignKey(c) => [from |-> port, to |-> c.references] \in ForeignKeyEdges(t)
          BY DEF ForeignKeyEdges
        <4>2. t \in Nodes(S)
          BY <2>1 DEF Nodes
        <4>3. QED
          BY EdgesAre, <4>1, <4>2
      <3>2. port \in Ports(S)
        <4>1. c.name \in ColumnNames(t)
          BY DEF ColumnNames, ToSet
        <4>2. QED
          BY <2>1, <4>1 DEF Ports, Nodes
      <3>3. QED
        BY <3>1, <3>2 DEF Shows
    <2>2. CASE ~IsNode(t)
      <3>1. port \notin Ports(S)
        <4> SUFFICES ASSUME NEW u \in Nodes(S), NEW n \in ColumnNames(u), port = ReferenceTo(u.name, n)
                     PROVE  FALSE
          BY DEF Ports
        <4>1. t.name = u.name /\ u \in ToSet(S) /\ IsNode(u)
          BY DEF ReferenceTo, Nodes
        <4>2. QED
          BY <2>2, <4>1 DEF EdgesLead
      <3>2. IsEdge(t) /\ t \in Declared
        BY <2>2, SchemaFacts DEF IsNode, IsEdge
      <3>3. Len(t.columns) = 2 /\ HasForeignKey(t.columns[1]) /\ HasForeignKey(t.columns[2])
        BY <3>2 DEF EdgesLead
      <3>4. c = t.columns[1] \/ c = t.columns[2]
        BY <3>2, <3>3, SchemaFacts DEF ToSet
      <3>5. RelationEdge(t) \in Edges(S)
        BY <3>2, EdgesAre
      <3>6. c.references \in {RelationEdge(t).from, RelationEdge(t).to}
        BY <3>4 DEF RelationEdge
      <3>7. QED
        BY <3>1, <3>3, <3>4, <3>5, <3>6 DEF Shows
    <2>3. QED
      BY <2>1, <2>2
  <1>2. ASSUME NEW e \in Edges(S) PROVE {e.from, e.to} \subseteq Ports(S)
    <2>1. ASSUME NEW t \in Nodes(S), e \in ForeignKeyEdges(t) PROVE {e.from, e.to} \subseteq Ports(S)
      <3>1. PICK c \in ToSet(t.columns) :
                  HasForeignKey(c) /\ e = [from |-> ReferenceTo(t.name, c.name), to |-> c.references]
        BY <2>1 DEF ForeignKeyEdges
      <3>2. e.from = ReferenceTo(t.name, c.name) /\ e.to = c.references
        BY <3>1
      <3>3. c.name \in ColumnNames(t) /\ t \in ToSet(S)
        BY DEF ColumnNames, ToSet, Nodes
      <3>4. e.from \in Ports(S)
        BY <3>2, <3>3 DEF Ports
      <3>5. e.to \in Ports(S)
        BY <3>1, <3>2, <3>3, ReferencedPort
      <3>6. QED
        BY <3>4, <3>5
    <2>2. ASSUME NEW t \in ToSet(S), IsEdge(t), e = RelationEdge(t)
          PROVE  {e.from, e.to} \subseteq Ports(S)
      <3>1. Len(t.columns) = 2 /\ HasForeignKey(t.columns[1]) /\ HasForeignKey(t.columns[2])
        BY <2>2 DEF EdgesLead
      <3>2. t.columns[1] \in ToSet(t.columns) /\ t.columns[2] \in ToSet(t.columns)
        <4>1. t.columns \in Seq(ToSet(t.columns))
          BY SchemaFacts
        <4>2. 1 \in DOMAIN t.columns /\ 2 \in DOMAIN t.columns
          BY <3>1, <4>1
        <4>3. QED
          BY <4>2 DEF ToSet
      <3>3. e.from = t.columns[1].references /\ e.to = t.columns[2].references
        BY <2>2 DEF RelationEdge
      <3>4. QED
        BY <3>1, <3>2, <3>3, ReferencedPort
    <2>3. \/ \E t \in Nodes(S) : e \in ForeignKeyEdges(t)
          \/ \E t \in ToSet(S) : IsEdge(t) /\ e = RelationEdge(t)
      BY EdgesAre
    <2>4. QED
      BY <2>1, <2>2, <2>3
  <1>3. QED
    BY <1>1, <1>2 DEF Draws

\* Drawn, for every schema whose foreign keys reference columns that are drawn.
THEOREM DeployedIsDrawn == EdgesLead => (Spec => []Drawn)
  <1> SUFFICES ASSUME EdgesLead PROVE Spec => []Drawn
    OBVIOUS
  <1>1. RightsInv => Drawn
    BY VersionDrawn DEF RightsInv, TypeOK, Drawn
  <1>2. QED
    BY <1>1, RightsInvariant, PTL
=============================================================================
