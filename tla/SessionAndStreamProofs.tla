------------------------ MODULE SessionAndStreamProofs ------------------------
(***************************************************************************)
(* Two parts of an execution, each for any values of its constants: what   *)
(* the clients show of its stream of events (ResultStream), and what the   *)
(* query_only pragma shared by the sessions of a SQLite file guarantees    *)
(* (SqliteSession, at the end).                                            *)
(***************************************************************************)
EXTENDS ResultStream, SqliteSession, FiniteSetTheorems, WellFoundedInduction, TLAPS

-----------------------------------------------------------------------------
(* Induction.                                                              *)

(* A set of natural numbers has a least element: the prefixes 0..n are     *)
(* finite sets, and those are well founded under inclusion.                *)
LEMMA Least ==
  ASSUME NEW S, S \subseteq Nat, S # {}
  PROVE  \E m \in S : \A n \in S : m <= n
<1> DEFINE Prefixes == {0..n : n \in S}
           Inclusion == StrictSubsetOrdering(Nat)
<1>1. IsWellFoundedOn(Inclusion, FiniteSubsetsOf(Nat))
  BY FS_StrictSubsetOrderingWellFounded
<1>2. Prefixes \subseteq FiniteSubsetsOf(Nat) /\ Prefixes # {}
  <2>1. \A n \in S : IsFiniteSet(0..n) /\ 0..n \subseteq Nat
    BY FS_Interval
  <2> QED
    BY <2>1 DEF FiniteSubsetsOf
<1>3. PICK x \in Prefixes : \A y \in Prefixes : <<y, x>> \notin Inclusion
  <2> HIDE DEF Inclusion, Prefixes
  <2> QED
    BY <1>1, <1>2, WFMin
<1>4. PICK m \in S : x = 0..m
  OBVIOUS
<1>5. ASSUME NEW n \in S, n < m PROVE FALSE
  <2>1. <<0..n, 0..m>> \notin Inclusion
    BY <1>3, <1>4
  <2>2. 0..n \subseteq 0..m /\ m \in 0..m /\ m \notin 0..n
    BY <1>5
  <2>3. 0..n \in SUBSET Nat /\ 0..m \in SUBSET Nat
    OBVIOUS
  <2> QED
    BY <2>1, <2>2, <2>3 DEF StrictSubsetOrdering
<1> QED
  BY <1>5

(* Induction up to n, with the set of the numbers a fact holds of in place *)
(* of the fact.                                                            *)
LEMMA Induction ==
  ASSUME NEW n \in Nat, NEW holds, 0 \in holds,
         \A i \in 0..(n - 1) : i \in holds => i + 1 \in holds
  PROVE  0..n \subseteq holds
<1> SUFFICES ASSUME (0..n) \ holds # {} PROVE FALSE
  OBVIOUS
<1>1. PICK m \in (0..n) \ holds : \A i \in (0..n) \ holds : m <= i
  <2>1. (0..n) \ holds \subseteq Nat
    OBVIOUS
  <2> QED
    BY <2>1, Least
<1>2. m # 0 /\ m \in 0..n
  BY <1>1
<1>3. m - 1 \in 0..(n - 1)
  BY <1>2
<1>4. m - 1 \in holds
  <2>1. m - 1 \in 0..n /\ ~(m <= m - 1)
    BY <1>2
  <2> QED
    BY <1>1, <2>1
<1> QED
  BY <1>1, <1>3, <1>4

-----------------------------------------------------------------------------
(* What applying events one after the other comes to.                      *)

ViewType == [known : BOOLEAN, status : Statuses, rows : Seq(Numbers), progress : Nat]

(* applyEvent, topic by topic.                                             *)
Sets(n) == Stream[n] \in {"started", "completed", "failed", "cancelled"}
StatusOf(n) == CASE Stream[n] = "started"   -> "running"
                 [] Stream[n] = "completed" -> "succeeded"
                 [] OTHER                   -> Stream[n]

LEMMA Applied ==
  ASSUME NEW v \in ViewType, NEW n \in Numbers
  PROVE  /\ Apply(v, n) \in ViewType
         /\ Apply(v, n).known = v.known
         /\ Apply(v, n).status = IF Sets(n) THEN StatusOf(n) ELSE v.status
         /\ Apply(v, n).rows = IF Stream[n] = "columns" THEN <<>>
                               ELSE IF IsRows(n) THEN Append(v.rows, n) ELSE v.rows
<1>1. Stream[n] \in Topics
  BY ConstantsAssumption DEF Numbers
<1>2. CASE Stream[n] = "started"
  <2>1. Apply(v, n) = [v EXCEPT !.status = "running"]
    BY <1>2 DEF Apply
  <2> QED
    BY <1>2, <2>1 DEF ViewType, Statuses, Sets, StatusOf, IsRows
<1>3. CASE Stream[n] = "columns"
  <2>1. Apply(v, n) = [v EXCEPT !.rows = <<>>]
    BY <1>3 DEF Apply
  <2>2. <<>> \in Seq(Numbers)
    OBVIOUS
  <2>3. [v EXCEPT !.rows = <<>>] \in ViewType
    BY <2>2 DEF ViewType
  <2>4. [v EXCEPT !.rows = <<>>].rows = <<>>
    BY DEF ViewType
  <2> QED
    BY <1>3, <2>1, <2>3, <2>4 DEF ViewType, Statuses, Sets, StatusOf, IsRows
<1>4. CASE Stream[n] = "rows"
  <2>1. Apply(v, n) = [v EXCEPT !.rows = Append(v.rows, n)]
    BY <1>4 DEF Apply
  <2> DEFINE more == Append(v.rows, n)
  <2>2. more \in Seq(Numbers)
    BY DEF ViewType
  <2> HIDE DEF more
  <2>3. [v EXCEPT !.rows = more] \in ViewType
    BY <2>2 DEF ViewType
  <2>4. [v EXCEPT !.rows = more].rows = more
    BY DEF ViewType
  <2>5. Apply(v, n) = [v EXCEPT !.rows = more]
    BY <2>1 DEF more
  <2>6. [v EXCEPT !.rows = more].known = v.known /\ [v EXCEPT !.rows = more].status = v.status
    BY DEF ViewType
  <2>7. Stream[n] # "columns" /\ IsRows(n) /\ ~Sets(n)
    BY <1>4 DEF IsRows, Sets
  <2> QED
    BY <2>3, <2>4, <2>5, <2>6, <2>7 DEF more
<1>5. CASE Stream[n] = "progress"
  <2>1. Apply(v, n) = [v EXCEPT !.progress = @ + 1]
    BY <1>5 DEF Apply
  <2> QED
    BY <1>5, <2>1 DEF ViewType, Statuses, Sets, StatusOf, IsRows
<1>6. CASE Stream[n] = "completed"
  <2>1. Apply(v, n) = [v EXCEPT !.status = "succeeded"]
    BY <1>6 DEF Apply
  <2> QED
    BY <1>6, <2>1 DEF ViewType, Statuses, Sets, StatusOf, IsRows
<1>7. CASE Stream[n] \in {"failed", "cancelled"}
  <2>1. Apply(v, n) = [v EXCEPT !.status = Stream[n]]
    BY <1>7 DEF Apply
  <2>2. Sets(n) /\ StatusOf(n) = Stream[n] /\ Stream[n] \in Statuses /\ ~IsRows(n)
    BY <1>7 DEF Sets, StatusOf, Statuses, IsRows
  <2> QED
    BY <1>7, <2>1, <2>2 DEF ViewType
<1> QED
  BY <1>1, <1>2, <1>3, <1>4, <1>5, <1>6, <1>7 DEF Topics

(* The views after 0, 1, 2, ... of the events.                             *)
Chain(f, v, s, n) ==
  /\ f[0] = v
  /\ \A i \in 1..n : f[i] = Apply(f[i - 1], s[i])

(* There is such a chain, so the recursive definition of ApplyAll means    *)
(* what it says.                                                           *)
LEMMA ChainExists ==
  ASSUME NEW v, NEW s, NEW n \in Nat
  PROVE  \E f : Chain(f, v, s, n)
<1> DEFINE holds == {m \in 0..n : \E f : Chain(f, v, s, m)}
<1>1. 0 \in holds
  <2>1. Chain([i \in {0} |-> v], v, s, 0)
    BY DEF Chain
  <2> QED
    BY <2>1
<1>2. ASSUME NEW m \in 0..(n - 1), m \in holds PROVE m + 1 \in holds
  <2>1. PICK f : Chain(f, v, s, m)
    BY <1>2
  <2> DEFINE g == [i \in 0..(m + 1) |-> IF i = m + 1 THEN Apply(f[m], s[m + 1]) ELSE f[i]]
  <2>2. g[0] = v
    BY <2>1 DEF Chain
  <2>3. ASSUME NEW i \in 1..(m + 1) PROVE g[i] = Apply(g[i - 1], s[i])
    <3>1. CASE i = m + 1
      BY <3>1
    <3>2. CASE i \in 1..m
      <4>1. g[i] = f[i] /\ g[i - 1] = f[i - 1]
        BY <3>2
      <4> QED
        BY <2>1, <3>2, <4>1 DEF Chain
    <3> QED
      BY <3>1, <3>2
  <2>4. Chain(g, v, s, m + 1)
    <3> HIDE DEF g
    <3> QED
      BY <2>2, <2>3 DEF Chain
  <2> HIDE DEF g
  <2> QED
    BY <2>4
<1> HIDE DEF holds
<1>3. 0..n \subseteq holds
  BY <1>1, <1>2, Induction
<1> QED
  BY <1>3 DEF holds

LEMMA AppliedAll ==
  ASSUME NEW v, NEW s, Len(s) \in Nat
  PROVE  \E f : Chain(f, v, s, Len(s)) /\ ApplyAll(v, s) = f[Len(s)]
<1> DEFINE Good(f) == f = [i \in 0..Len(s) |-> IF i = 0 THEN v ELSE Apply(f[i - 1], s[i])]
           after == CHOOSE f : Good(f)
<1>1. \E f : Good(f)
  <2>1. PICK f : Chain(f, v, s, Len(s))
    BY ChainExists
  <2> DEFINE g == [i \in 0..Len(s) |-> f[i]]
  <2>2. \A i \in 0..Len(s) : g[i] = IF i = 0 THEN v ELSE Apply(g[i - 1], s[i])
    BY <2>1 DEF Chain
  <2>3. Good(g)
    BY <2>2
  <2> QED
    BY <2>3
<1>2. Good(after)
  BY <1>1
<1>3. Chain(after, v, s, Len(s))
  <2> HIDE DEF after
  <2> QED
    BY <1>2 DEF Chain
<1>4. ApplyAll(v, s) = after[Len(s)]
  BY DEF ApplyAll
<1> HIDE DEF after
<1> QED
  BY <1>3, <1>4
(* One link of the chain.                                                  *)
LEMMA ChainStep ==
  ASSUME NEW f, NEW v, NEW s \in Seq(Numbers), Chain(f, v, s, Len(s)),
         NEW n \in 0..(Len(s) - 1), f[n] \in ViewType
  PROVE  /\ n + 1 \in 1..Len(s) /\ n + 1 \in 0..Len(s) /\ s[n + 1] \in Numbers
         /\ f[n + 1] \in ViewType
         /\ f[n + 1].known = f[n].known
         /\ f[n + 1].status = IF Sets(s[n + 1]) THEN StatusOf(s[n + 1]) ELSE f[n].status
         /\ f[n + 1].rows = IF Stream[s[n + 1]] = "columns" THEN <<>>
                            ELSE IF IsRows(s[n + 1]) THEN Append(f[n].rows, s[n + 1])
                            ELSE f[n].rows
<1>1. n + 1 \in 1..Len(s) /\ n + 1 \in 0..Len(s) /\ n + 1 - 1 = n
  OBVIOUS
<1>2. s[n + 1] \in Numbers
  BY <1>1
<1>3. f[n + 1] = Apply(f[n + 1 - 1], s[n + 1])
  BY <1>1 DEF Chain
<1>4. f[n + 1] = Apply(f[n], s[n + 1])
  BY <1>1, <1>3
<1> DEFINE next == s[n + 1]
           w == f[n]
<1>5. w \in ViewType /\ next \in Numbers
  BY <1>2
<1> HIDE DEF w, next
<1>6. /\ Apply(w, next) \in ViewType
      /\ Apply(w, next).known = w.known
      /\ Apply(w, next).status = IF Sets(next) THEN StatusOf(next) ELSE w.status
      /\ Apply(w, next).rows = IF Stream[next] = "columns" THEN <<>>
                               ELSE IF IsRows(next) THEN Append(w.rows, next) ELSE w.rows
  BY <1>5, Applied
<1> QED
  BY <1>1, <1>2, <1>4, <1>6 DEF w, next


(* What a client shows stays a view of an execution it knows or not.       *)
LEMMA ApplyAllType ==
  ASSUME NEW v \in ViewType, NEW s \in Seq(Numbers)
  PROVE  ApplyAll(v, s) \in ViewType /\ ApplyAll(v, s).known = v.known
<1>1. PICK f : Chain(f, v, s, Len(s)) /\ ApplyAll(v, s) = f[Len(s)]
  BY AppliedAll
<1> DEFINE holds == {i \in 0..Len(s) : f[i] \in ViewType /\ f[i].known = v.known}
<1>2. 0 \in holds
  BY <1>1 DEF Chain
<1>3. ASSUME NEW i \in 0..(Len(s) - 1), i \in holds PROVE i + 1 \in holds
  <2>1. f[i] \in ViewType /\ f[i].known = v.known
    BY <1>3
  <2>2. i + 1 \in 0..Len(s) /\ f[i + 1] \in ViewType /\ f[i + 1].known = f[i].known
    BY <1>1, <2>1, ChainStep
  <2> QED
    BY <2>1, <2>2
<1> HIDE DEF holds
<1>4. 0..Len(s) \subseteq holds
  <2>1. Len(s) \in Nat
    OBVIOUS
  <2> QED
    BY <1>2, <1>3, <2>1, Induction
<1> QED
  BY <1>1, <1>4 DEF holds

(* The status is that of the last event that sets one.                     *)
LastSets(s, i) == Sets(s[i]) /\ \A j \in (i + 1)..Len(s) : ~Sets(s[j])

LEMMA ShownStatus ==
  ASSUME NEW v \in ViewType, NEW s \in Seq(Numbers)
  PROVE  \/ (\A i \in 1..Len(s) : ~Sets(s[i])) /\ ApplyAll(v, s).status = v.status
         \/ \E i \in 1..Len(s) : LastSets(s, i) /\ ApplyAll(v, s).status = StatusOf(s[i])
<1>1. PICK f : Chain(f, v, s, Len(s)) /\ ApplyAll(v, s) = f[Len(s)]
  BY AppliedAll
<1> DEFINE Shown(n) ==
             \/ (\A i \in 1..n : ~Sets(s[i])) /\ f[n].status = v.status
             \/ \E i \in 1..n : /\ Sets(s[i]) /\ f[n].status = StatusOf(s[i])
                                /\ \A j \in (i + 1)..n : ~Sets(s[j])
           holds == {n \in 0..Len(s) : f[n] \in ViewType /\ Shown(n)}
<1>2. 0 \in holds
  BY <1>1 DEF Chain
<1>3. ASSUME NEW n \in 0..(Len(s) - 1), n \in holds PROVE n + 1 \in holds
  <2>1. n + 1 \in 0..Len(s)
    OBVIOUS
  <2>2. f[n] \in ViewType /\ Shown(n)
    BY <1>3
  <2>3. /\ f[n + 1] \in ViewType
        /\ f[n + 1].status = IF Sets(s[n + 1]) THEN StatusOf(s[n + 1]) ELSE f[n].status
    BY <1>1, <2>2, ChainStep
  <2>4. CASE Sets(s[n + 1])
    <3>1. n + 1 \in 1..(n + 1) /\ \A j \in (n + 1 + 1)..(n + 1) : ~Sets(s[j])
      OBVIOUS
    <3>2. Shown(n + 1)
      BY <2>3, <2>4, <3>1
    <3> QED
      BY <2>1, <2>3, <3>2
  <2>5. CASE ~Sets(s[n + 1])
    <3>1. \A j \in 1..(n + 1) : j \in 1..n \/ j = n + 1
      OBVIOUS
    <3>2. CASE (\A i \in 1..n : ~Sets(s[i])) /\ f[n].status = v.status
      <4>1. (\A i \in 1..(n + 1) : ~Sets(s[i])) /\ f[n + 1].status = v.status
        BY <2>3, <2>5, <3>1, <3>2
      <4> QED
        BY <2>1, <2>3, <4>1
    <3>3. ASSUME NEW i \in 1..n, Sets(s[i]), f[n].status = StatusOf(s[i]),
                 \A j \in (i + 1)..n : ~Sets(s[j])
          PROVE  n + 1 \in holds
      <4>1. \A j \in (i + 1)..(n + 1) : ~Sets(s[j])
        BY <2>5, <3>1, <3>3
      <4>2. f[n + 1].status = StatusOf(s[i]) /\ i \in 1..(n + 1)
        BY <2>3, <2>5, <3>3
      <4>3. Shown(n + 1)
        BY <3>3, <4>1, <4>2
      <4> QED
        BY <2>1, <2>3, <4>3
    <3> QED
      BY <2>2, <3>2, <3>3
  <2> QED
    BY <2>4, <2>5
<1> HIDE DEF holds
<1>4. 0..Len(s) \subseteq holds
  <2>1. Len(s) \in Nat
    OBVIOUS
  <2> QED
    BY <1>2, <1>3, <2>1, Induction
<1>5. Shown(Len(s))
  BY <1>4 DEF holds
<1> QED
  BY <1>1, <1>5 DEF LastSets

(* Batches ascend, unless columns come in between, and the columns of      *)
(* their result set come first.                                            *)
Ascending(s) == \A i, j \in 1..Len(s) : i < j => s[i] < s[j]
RowsAscend(s) ==
  \A i, j \in 1..Len(s) :
    i < j /\ IsRows(s[i]) /\ IsRows(s[j]) =>
      s[i] < s[j] \/ \E k \in (i + 1)..(j - 1) : Stream[s[k]] = "columns"
StartsOver(s) ==
  \A i \in 1..Len(s) : IsRows(s[i]) => \E k \in 1..(i - 1) : Stream[s[k]] = "columns"

(* The elements of a row list are those of another, or batches of s.       *)
RowsAmong(rows, others, s, n) ==
  \A i \in 1..Len(rows) :
    \/ \E j \in 1..Len(others) : rows[i] = others[j]
    \/ \E j \in 1..n : rows[i] = s[j] /\ IsRows(s[j])

(* One batch more at the end.                                              *)
LEMMA BatchAppended ==
  ASSUME NEW rows \in Seq(Numbers), Ascending(rows), NEW n \in Numbers,
         \A i \in 1..Len(rows) : rows[i] < n
  PROVE  Ascending(Append(rows, n))
<1> DEFINE more == Append(rows, n)
<1>1. /\ Len(more) = Len(rows) + 1 /\ more[Len(rows) + 1] = n
      /\ \A i \in 1..Len(rows) : more[i] = rows[i]
  OBVIOUS
<1>2. \A i \in 1..(Len(rows) + 1) : i \in 1..Len(rows) \/ i = Len(rows) + 1
  OBVIOUS
<1> HIDE DEF more
<1>3. ASSUME NEW i \in 1..Len(more), NEW j \in 1..Len(more), i < j PROVE more[i] < more[j]
  <2>1. i \in 1..Len(rows)
    BY <1>1, <1>3
  <2>2. CASE j \in 1..Len(rows)
    BY <1>1, <1>3, <2>1, <2>2 DEF Ascending
  <2>3. CASE j = Len(rows) + 1
    BY <1>1, <2>1, <2>3
  <2> QED
    BY <1>1, <1>2, <2>2, <2>3
<1>4. Ascending(more)
  BY <1>3 DEF Ascending
<1> QED
  BY <1>4 DEF more

LEMMA ShownRows ==
  ASSUME NEW v \in ViewType, NEW s \in Seq(Numbers), Ascending(v.rows), RowsAscend(s), StartsOver(s)
  PROVE  /\ Ascending(ApplyAll(v, s).rows)
         /\ RowsAmong(ApplyAll(v, s).rows, v.rows, s, Len(s))
<1>1. PICK f : Chain(f, v, s, Len(s)) /\ ApplyAll(v, s) = f[Len(s)]
  BY AppliedAll
<1> DEFINE Own(n) == \A i \in 1..Len(f[n].rows) :
                       \E j \in 1..n : /\ f[n].rows[i] = s[j] /\ IsRows(s[j])
                                       /\ \A k \in (j + 1)..n : Stream[s[k]] # "columns"
           Over(n) == \E k \in 1..n : Stream[s[k]] = "columns"
           holds == {n \in 0..Len(s) :
                       /\ f[n] \in ViewType /\ Ascending(f[n].rows)
                       /\ RowsAmong(f[n].rows, v.rows, s, n)
                       /\ Over(n) => Own(n)}
<1>2. 0 \in holds
  <2>1. f[0] = v
    BY <1>1 DEF Chain
  <2>2. RowsAmong(v.rows, v.rows, s, 0)
    BY DEF RowsAmong
  <2>3. ~Over(0)
    OBVIOUS
  <2> QED
    BY <2>1, <2>2, <2>3
<1>3. ASSUME NEW n \in 0..(Len(s) - 1), n \in holds PROVE n + 1 \in holds
  <2>1. n + 1 \in 0..Len(s) /\ s[n + 1] \in Numbers
    OBVIOUS
  <2>2. /\ f[n] \in ViewType /\ Ascending(f[n].rows) /\ RowsAmong(f[n].rows, v.rows, s, n)
        /\ Over(n) => Own(n)
    BY <1>3
  <2>3. /\ f[n + 1] \in ViewType
        /\ f[n + 1].rows = IF Stream[s[n + 1]] = "columns" THEN <<>>
                           ELSE IF IsRows(s[n + 1]) THEN Append(f[n].rows, s[n + 1])
                           ELSE f[n].rows
    BY <1>1, <2>2, ChainStep
  <2>4. 1..n \subseteq 1..(n + 1) /\ n + 1 \in 1..(n + 1)
    OBVIOUS
  <2>5. CASE Stream[s[n + 1]] = "columns"
    <3>1. f[n + 1].rows = <<>>
      BY <2>3, <2>5
    <3>2. Ascending(<<>>) /\ RowsAmong(<<>>, v.rows, s, n + 1)
      BY DEF Ascending, RowsAmong
    <3>3. Own(n + 1)
      BY <3>1
    <3> HIDE DEF Own, Over
    <3> QED
      BY <2>1, <2>3, <3>1, <3>2, <3>3
  <2>6. CASE IsRows(s[n + 1])
    <3> DEFINE rows == f[n].rows
    <3>1. f[n + 1].rows = Append(rows, s[n + 1])
      BY <2>3, <2>6 DEF IsRows
    <3>2. rows \in Seq(Numbers)
      BY <2>2 DEF ViewType
    <3>3. Over(n)
      <4>1. n + 1 \in 1..Len(s)
        OBVIOUS
      <4>2. PICK k \in 1..(n + 1 - 1) : Stream[s[k]] = "columns"
        BY <2>6, <4>1 DEF StartsOver
      <4> QED
        BY <4>2
    <3>4. Own(n)
      BY <2>2, <3>3
    <3>5. \A i \in 1..Len(rows) : rows[i] < s[n + 1]
      <4>1. n + 1 \in 1..Len(s) /\ n + 1 - 1 = n
            /\ \A j \in 1..n : j \in 1..Len(s) /\ j < n + 1
        OBVIOUS
      <4>2. ASSUME NEW i \in 1..Len(rows) PROVE rows[i] < s[n + 1]
        <5>1. PICK j \in 1..n : /\ rows[i] = s[j] /\ IsRows(s[j])
                                /\ \A k \in (j + 1)..n : Stream[s[k]] # "columns"
          BY <3>4
        <5>2. s[j] < s[n + 1] \/ \E k \in (j + 1)..(n + 1 - 1) : Stream[s[k]] = "columns"
          BY <2>6, <4>1, <5>1 DEF RowsAscend
        <5> QED
          BY <4>1, <5>1, <5>2
      <4> QED
        BY <4>2
    <3>6. Ascending(f[n + 1].rows)
      BY <2>1, <2>2, <3>1, <3>2, <3>5, BatchAppended
    <3>7. /\ Len(f[n + 1].rows) = Len(rows) + 1
          /\ \A i \in 1..(Len(rows) + 1) :
               (i \in 1..Len(rows) /\ f[n + 1].rows[i] = rows[i]) \/ f[n + 1].rows[i] = s[n + 1]
      BY <3>1, <3>2
    <3>8. Own(n + 1)
      <4>1. Stream[s[n + 1]] # "columns"
        BY <2>6 DEF IsRows
      <4>2. /\ \A j \in 1..n : \A k \in (j + 1)..(n + 1) : k \in (j + 1)..n \/ k = n + 1
            /\ \A k \in (n + 1 + 1)..(n + 1) : FALSE
        OBVIOUS
      <4>3. ASSUME NEW i \in 1..Len(rows)
            PROVE  \E j \in 1..(n + 1) : /\ rows[i] = s[j] /\ IsRows(s[j])
                                         /\ \A k \in (j + 1)..(n + 1) : Stream[s[k]] # "columns"
        <5>1. PICK j \in 1..n : /\ rows[i] = s[j] /\ IsRows(s[j])
                                /\ \A k \in (j + 1)..n : Stream[s[k]] # "columns"
          BY <3>4
        <5> QED
          BY <2>4, <4>1, <4>2, <5>1
      <4>4. ASSUME NEW i \in 1..Len(f[n + 1].rows)
            PROVE  \E j \in 1..(n + 1) : /\ f[n + 1].rows[i] = s[j] /\ IsRows(s[j])
                                         /\ \A k \in (j + 1)..(n + 1) : Stream[s[k]] # "columns"
        <5>1. CASE i \in 1..Len(rows) /\ f[n + 1].rows[i] = rows[i]
          BY <4>3, <5>1
        <5>2. CASE f[n + 1].rows[i] = s[n + 1]
          BY <2>4, <2>6, <4>2, <5>2
        <5> QED
          BY <3>7, <5>1, <5>2
      <4> QED
        BY <4>4
    <3>9. RowsAmong(f[n + 1].rows, v.rows, s, n + 1)
      <4>1. \A i \in 1..Len(f[n + 1].rows) :
              \E j \in 1..(n + 1) : f[n + 1].rows[i] = s[j] /\ IsRows(s[j])
        BY <3>8
      <4> QED
        BY <4>1 DEF RowsAmong
    <3> HIDE DEF Own, Over, rows
    <3> QED
      BY <2>1, <2>3, <3>6, <3>8, <3>9
  <2>7. CASE Stream[s[n + 1]] # "columns" /\ ~IsRows(s[n + 1])
    <3>1. f[n + 1].rows = f[n].rows
      BY <2>3, <2>7
    <3>2. Over(n + 1) => Over(n)
      <4>1. \A k \in 1..(n + 1) : k \in 1..n \/ k = n + 1
        OBVIOUS
      <4> QED
        BY <2>7, <4>1
    <3>3. Own(n) => Own(n + 1)
      <4>1. \A j \in 1..n : \A k \in (j + 1)..(n + 1) : k \in (j + 1)..n \/ k = n + 1
        OBVIOUS
      <4>2. ASSUME Own(n), NEW i \in 1..Len(f[n + 1].rows)
            PROVE  \E j \in 1..(n + 1) : /\ f[n + 1].rows[i] = s[j] /\ IsRows(s[j])
                                         /\ \A k \in (j + 1)..(n + 1) : Stream[s[k]] # "columns"
        <5>1. PICK j \in 1..n : /\ f[n].rows[i] = s[j] /\ IsRows(s[j])
                                /\ \A k \in (j + 1)..n : Stream[s[k]] # "columns"
          BY <3>1, <4>2
        <5> QED
          BY <2>4, <2>7, <3>1, <4>1, <5>1
      <4> QED
        BY <4>2
    <3> HIDE DEF Own, Over
    <3>4. RowsAmong(f[n + 1].rows, v.rows, s, n + 1)
      <4>1. RowsAmong(f[n].rows, v.rows, s, n)
        BY <2>2
      <4> HIDE DEF holds
      <4> QED
        BY <2>4, <3>1, <4>1 DEF RowsAmong
    <3> QED
      BY <2>1, <2>2, <2>3, <3>1, <3>2, <3>3, <3>4
  <2> QED
    BY <2>5, <2>6, <2>7
<1> HIDE DEF holds
<1>4. 0..Len(s) \subseteq holds
  <2>1. Len(s) \in Nat
    OBVIOUS
  <2> QED
    BY <1>2, <1>3, <2>1, Induction
<1>5. Len(s) \in holds
  BY <1>4
<1> QED
  BY <1>1, <1>5 DEF holds

-----------------------------------------------------------------------------
(* What a replay holds.                                                    *)

(* The replays of the first 0, 1, 2, ... events.                           *)
Kept(f, n) ==
  /\ f[0] = <<>>
  /\ \A i \in 1..n : f[i] = IF Buffered(i) THEN Append(f[i - 1], i) ELSE f[i - 1]

LEMMA KeptExists ==
  ASSUME NEW n \in Nat
  PROVE  \E f : Kept(f, n)
<1> DEFINE holds == {m \in 0..n : \E f : Kept(f, m)}
<1>1. 0 \in holds
  <2>1. Kept([i \in {0} |-> <<>>], 0)
    BY DEF Kept
  <2> QED
    BY <2>1
<1>2. ASSUME NEW m \in 0..(n - 1), m \in holds PROVE m + 1 \in holds
  <2>1. PICK f : Kept(f, m)
    BY <1>2
  <2> DEFINE next == IF Buffered(m + 1) THEN Append(f[m], m + 1) ELSE f[m]
             g == [i \in 0..(m + 1) |-> IF i = m + 1 THEN next ELSE f[i]]
  <2>2. g[0] = <<>>
    BY <2>1 DEF Kept
  <2>3. ASSUME NEW i \in 1..(m + 1)
        PROVE  g[i] = IF Buffered(i) THEN Append(g[i - 1], i) ELSE g[i - 1]
    <3>1. CASE i = m + 1
      <4>1. g[i] = next /\ g[i - 1] = f[m]
        <5> HIDE DEF next
        <5> QED
          BY <3>1
      <4> QED
        BY <3>1, <4>1
    <3>2. CASE i \in 1..m
      <4>1. g[i] = f[i] /\ g[i - 1] = f[i - 1]
        BY <3>2
      <4> QED
        BY <2>1, <3>2, <4>1 DEF Kept
    <3> QED
      BY <3>1, <3>2
  <2>4. Kept(g, m + 1)
    <3> HIDE DEF g
    <3> QED
      BY <2>2, <2>3 DEF Kept
  <2> HIDE DEF g
  <2> QED
    BY <2>4
<1> HIDE DEF holds
<1>3. 0..n \subseteq holds
  BY <1>1, <1>2, Induction
<1> QED
  BY <1>3 DEF holds

LEMMA ReplayKept ==
  ASSUME emitted \in Nat
  PROVE  \E f : Kept(f, emitted) /\ Replay = f[emitted]
<1> DEFINE Good(f) == f = [n \in 0..emitted |->
                             IF n = 0 THEN <<>>
                             ELSE IF Buffered(n) THEN Append(f[n - 1], n) ELSE f[n - 1]]
           upTo == CHOOSE f : Good(f)
<1>1. \E f : Good(f)
  <2>1. PICK f : Kept(f, emitted)
    BY KeptExists
  <2> DEFINE g == [i \in 0..emitted |-> f[i]]
  <2>2. \A n \in 0..emitted :
          g[n] = IF n = 0 THEN <<>> ELSE IF Buffered(n) THEN Append(g[n - 1], n) ELSE g[n - 1]
    BY <2>1 DEF Kept
  <2>3. Good(g)
    BY <2>2
  <2> QED
    BY <2>3
<1>2. Good(upTo)
  BY <1>1
<1>3. Kept(upTo, emitted)
  <2> HIDE DEF upTo
  <2>1. \A n \in 0..emitted :
          upTo[n] = IF n = 0 THEN <<>>
                    ELSE IF Buffered(n) THEN Append(upTo[n - 1], n) ELSE upTo[n - 1]
    BY <1>2
  <2>2. 0 \in 0..emitted /\ \A n \in 1..emitted : n \in 0..emitted /\ n # 0
    OBVIOUS
  <2>3. upTo[0] = <<>>
    BY <2>1, <2>2
  <2>4. \A n \in 1..emitted :
          upTo[n] = IF Buffered(n) THEN Append(upTo[n - 1], n) ELSE upTo[n - 1]
    BY <2>1, <2>2
  <2> QED
    BY <2>3, <2>4 DEF Kept
<1>4. Replay = upTo[emitted]
  BY DEF Replay
<1> HIDE DEF upTo
<1> QED
  BY <1>3, <1>4

(* It holds, in order, the events the registry has kept.                   *)
LEMMA ReplayIs ==
  ASSUME emitted \in 0..Len(Stream)
  PROVE  /\ Replay \in Seq(1..emitted)
         /\ Ascending(Replay)
         /\ \A n \in 1..emitted : ~IsRows(n) => \E i \in 1..Len(Replay) : Replay[i] = n
         /\ StartsOver(Replay)
<1> Len(Stream) \in Nat /\ emitted \in Nat
  BY ConstantsAssumption
<1>1. PICK f : Kept(f, emitted) /\ Replay = f[emitted]
  BY ReplayKept
<1> DEFINE Complete(n) == \A m \in 1..n : Buffered(m) => \E i \in 1..Len(f[n]) : f[n][i] = m
           holds == {n \in 0..emitted : f[n] \in Seq(1..n) /\ Ascending(f[n]) /\ Complete(n)}
<1>2. 0 \in holds
  <2>1. f[0] = <<>>
    BY <1>1 DEF Kept
  <2>2. <<>> \in Seq(1..0) /\ Ascending(<<>>)
    BY DEF Ascending
  <2>3. Complete(0) /\ 0 \in 0..emitted
    OBVIOUS
  <2> HIDE DEF Complete
  <2> QED
    BY <2>1, <2>2, <2>3
<1>3. ASSUME NEW n \in 0..(emitted - 1), n \in holds PROVE n + 1 \in holds
  <2> DEFINE s == f[n]
  <2>1. s \in Seq(1..n) /\ Ascending(s) /\ Complete(n)
    BY <1>3
  <2>2. n + 1 \in 1..emitted /\ n + 1 \in 0..emitted /\ n + 1 - 1 = n
    OBVIOUS
  <2>3. f[n + 1] = IF Buffered(n + 1) THEN Append(s, n + 1) ELSE s
    <3>1. f[n + 1] = IF Buffered(n + 1) THEN Append(f[n + 1 - 1], n + 1) ELSE f[n + 1 - 1]
      BY <1>1, <2>2 DEF Kept
    <3> QED
      BY <2>2, <3>1
  <2>4. s \in Seq(1..(n + 1)) /\ \A i \in 1..Len(s) : s[i] < n + 1
    BY <2>1
  <2>5. \A m \in 1..(n + 1) : m \in 1..n \/ m = n + 1
    OBVIOUS
  <2>6. CASE Buffered(n + 1)
    <3>1. f[n + 1] = Append(s, n + 1)
      BY <2>3, <2>6
    <3>2. s \in Seq(Numbers) /\ n + 1 \in Numbers
      BY <2>1 DEF Numbers
    <3>3. Ascending(Append(s, n + 1))
      <4> HIDE DEF s
      <4> QED
        BY <2>1, <2>4, <3>2, BatchAppended
    <3>4. Append(s, n + 1) \in Seq(1..(n + 1))
      <4> HIDE DEF s
      <4> QED
        BY <2>4
    <3>5. /\ Len(Append(s, n + 1)) = Len(s) + 1 /\ Append(s, n + 1)[Len(s) + 1] = n + 1
          /\ \A i \in 1..Len(s) : Append(s, n + 1)[i] = s[i]
      <4> HIDE DEF s
      <4> QED
        BY <2>1
    <3>6. Len(s) \in Nat
      BY <2>1
    <3>7. Complete(n + 1)
      <4>1. ASSUME NEW m \in 1..(n + 1), Buffered(m)
            PROVE  \E i \in 1..Len(f[n + 1]) : f[n + 1][i] = m
        <5>1. CASE m = n + 1
          <6>1. Len(s) + 1 \in 1..(Len(s) + 1)
            BY <3>6
          <6> HIDE DEF s
          <6> QED
            BY <3>1, <3>5, <5>1, <6>1
        <5>2. CASE m \in 1..n
          <6>1. PICK i \in 1..Len(s) : s[i] = m
            BY <2>1, <4>1, <5>2
          <6>2. i \in 1..(Len(s) + 1)
            BY <3>6
          <6> HIDE DEF s
          <6> QED
            BY <3>1, <3>5, <6>1, <6>2
        <5> QED
          BY <2>5, <5>1, <5>2
      <4> QED
        BY <4>1
    <3> HIDE DEF Complete
    <3> QED
      BY <2>2, <3>1, <3>3, <3>4, <3>7
  <2>7. CASE ~Buffered(n + 1)
    <3>1. f[n + 1] = s
      BY <2>3, <2>7
    <3>2. Complete(n + 1)
      BY <2>1, <2>5, <2>7, <3>1
    <3> HIDE DEF Complete
    <3> QED
      BY <2>1, <2>2, <2>4, <3>1, <3>2
  <2> QED
    BY <2>6, <2>7
<1> HIDE DEF holds
<1>4. 0..emitted \subseteq holds
  BY <1>2, <1>3, Induction
<1>5. Replay \in Seq(1..emitted) /\ Ascending(Replay) /\ Complete(emitted)
  <2>1. emitted \in holds
    BY <1>4
  <2> HIDE DEF Complete
  <2> QED
    BY <1>1, <2>1 DEF holds
<1>6. \A n \in 1..emitted : ~IsRows(n) => \E i \in 1..Len(Replay) : Replay[i] = n
  BY <1>1, <1>5 DEF Buffered
<1>7. ASSUME NEW i \in 1..Len(Replay), IsRows(Replay[i])
      PROVE  \E k \in 1..(i - 1) : Stream[Replay[k]] = "columns"
  <2>1. Replay[i] \in 1..emitted
    BY <1>5
  <2>2. PICK m \in 1..(Replay[i] - 1) : Stream[m] = "columns"
    BY <1>7, <2>1, ColumnsFirst DEF IsRows
  <2>3. m \in 1..emitted /\ ~IsRows(m) /\ m < Replay[i]
    BY <2>1, <2>2 DEF IsRows
  <2>4. PICK k \in 1..Len(Replay) : Replay[k] = m
    BY <1>6, <2>3
  <2>5. Len(Replay) \in Nat
    BY <1>5
  <2>6. k # i /\ ~(i < k)
    BY <1>5, <2>1, <2>3, <2>4 DEF Ascending
  <2>7. k \in 1..(i - 1)
    BY <2>5, <2>6
  <2> QED
    BY <2>2, <2>4, <2>7
<1> QED
  BY <1>5, <1>6, <1>7 DEF StartsOver

-----------------------------------------------------------------------------
(* One client: what it shows, what is on its way to it, what it has asked. *)

Below(m, n) ==
  /\ m.kind = "event" => m.number < n
  /\ m.kind = "replay" => \A k \in 1..Len(m.events) : m.events[k] < n
RowEvent(m) == m.kind = "event" /\ IsRows(m.number)
Answered(ch, n) == \E i \in 1..n : ch[i].kind = "response"

(* The hub knows it (con), sends it row batches (sub); it is the starter on *)
(* its first socket (own), and has given up its start (lag); n events are  *)
(* out.                                                                    *)
Typed(n, sub, con, own, lag, req, ch, v, ea) ==
  /\ n \in 0..Len(Stream)
  /\ sub \in BOOLEAN /\ con \in BOOLEAN
  /\ req \in {"none", "start", "subscribe"}
  /\ ch \in Seq(Messages)
  /\ v \in ViewType
  /\ ea \in Seq(Numbers)

(* What is put by are events in order, each batch after the columns of its *)
(* result set, and no batch but of a starter that gave up its start.  Such *)
(* a starter has been sent every event: those that are no batch are put    *)
(* by, or on their way, unless there is no room.                           *)
InPlace(m, ch, ea) ==
  \/ \E i \in 1..Len(ea) : ea[i] = m
  \/ \E i \in 1..Len(ch) : ch[i].kind = "event" /\ ch[i].number = m
  \/ ~(Len(ea) < EarlyCap)
PutBy(n, con, own, lag, ch, v, ea) ==
  /\ con /\ ~lag => \A i \in 1..Len(ea) : ~IsRows(ea[i])
  /\ Ascending(ea) /\ StartsOver(ea)
  /\ \A i \in 1..Len(ea) : ea[i] <= n
  /\ \A i \in 1..Len(ea) : \A j \in 1..Len(ch) : ch[j].kind = "event" => ea[i] < ch[j].number
  /\ own /\ ~v.known => \A m \in 1..n : ~IsRows(m) => InPlace(m, ch, ea)

(* A closed socket holds and awaits nothing.                               *)
(* Batches are for a client that knows the execution, or will have been    *)
(* told of it before the batch reaches it, or has given up its start.      *)
(* Of two messages the later event is the newer, and a batch is newer than *)
(* any batch on show.                                                      *)
Fits(n, sub, con, own, lag, req, ch, v, ea) ==
  /\ ~con => ch = <<>> /\ ~sub /\ req = "none"
  /\ (lag => own) /\ (own => con)
  /\ req = "start" \/ Answered(ch, Len(ch)) => own
  /\ sub => lag \/ v.known \/ Answered(ch, Len(ch))
  /\ req = "subscribe" => v.known
  /\ \A i \in 1..Len(ch) :
       ch[i].kind = "replay" => v.known /\ Ascending(ch[i].events) /\ StartsOver(ch[i].events)
  /\ \A i \in 1..Len(ch) : RowEvent(ch[i]) => sub /\ (lag \/ v.known \/ Answered(ch, i - 1))
  /\ \A i \in 1..Len(ch) : Below(ch[i], n + 1)
  /\ \A i, j \in 1..Len(ch) : i < j /\ ch[j].kind = "event" => Below(ch[i], ch[j].number)
  /\ \A i \in 1..Len(v.rows) : v.rows[i] <= n
  /\ \A i \in 1..Len(v.rows), j \in 1..Len(ch) :
       RowEvent(ch[j]) => v.rows[i] < ch[j].number
  /\ Ascending(v.rows)
  /\ PutBy(n, con, own, lag, ch, v, ea)

LEMMA MessageIs ==
  ASSUME NEW m \in Messages
  PROVE  /\ m.kind \in {"event", "response", "replay", "refusal", "ignored"}
         /\ m.kind = "event" => m.number \in Numbers
         /\ m.kind = "replay" => m.events \in Seq(Numbers)
BY DEF Messages

LEMMA LongerChannel ==
  ASSUME NEW ch \in Seq(Messages), NEW m \in Messages
  PROVE  /\ Append(ch, m) \in Seq(Messages)
         /\ Len(Append(ch, m)) = Len(ch) + 1 /\ Len(ch) \in Nat
         /\ Append(ch, m)[Len(ch) + 1] = m
         /\ \A i \in 1..Len(ch) : Append(ch, m)[i] = ch[i]
         /\ \A i \in 1..(Len(ch) + 1) : i \in 1..Len(ch) \/ i = Len(ch) + 1
OBVIOUS

LEMMA ShorterChannel ==
  ASSUME NEW ch \in Seq(Messages), ch # <<>>
  PROVE  /\ Head(ch) \in Messages /\ Head(ch) = ch[1] /\ Len(ch) \in Nat \ {0}
         /\ Tail(ch) \in Seq(Messages) /\ Len(Tail(ch)) = Len(ch) - 1
         /\ \A i \in 1..Len(Tail(ch)) : Tail(ch)[i] = ch[i + 1] /\ i + 1 \in 1..Len(ch)
OBVIOUS

(* Once a response has been taken the client knows the execution; taking   *)
(* anything else leaves the responses on their way where they were.        *)
LEMMA AnsweredLater ==
  ASSUME NEW ch \in Seq(Messages), ch # <<>>, Head(ch).kind # "response",
         NEW i \in 1..Len(ch), Answered(ch, i)
  PROVE  Answered(Tail(ch), i - 1)
<1>1. PICK j \in 1..i : ch[j].kind = "response"
  BY DEF Answered
<1>2. j # 1
  BY <1>1, ShorterChannel
<1>3. j - 1 \in 1..(i - 1) /\ j - 1 \in 1..Len(Tail(ch)) /\ j - 1 + 1 = j
  BY <1>2, ShorterChannel
<1>4. Tail(ch)[j - 1] = ch[j]
  <2>1. Tail(ch)[j - 1] = ch[j - 1 + 1]
    BY <1>3, ShorterChannel
  <2> QED
    BY <1>3, <2>1
<1> QED
  BY <1>1, <1>3, <1>4 DEF Answered

(* The next event is sent, a row batch only to those who asked.            *)
LEMMA EventSent ==
  ASSUME NEW n, NEW sub, NEW con, NEW own, NEW lag, NEW req, NEW ch, NEW v, NEW ea,
         Typed(n, sub, con, own, lag, req, ch, v, ea), Fits(n, sub, con, own, lag, req, ch, v, ea),
         n < Len(Stream), con, IsRows(n + 1) => sub
  PROVE  LET more == Append(ch, [kind |-> "event", number |-> n + 1])
         IN  /\ Typed(n + 1, sub, con, own, lag, req, more, v, ea)
             /\ Fits(n + 1, sub, con, own, lag, req, more, v, ea)
<1> DEFINE m == [kind |-> "event", number |-> n + 1]
           more == Append(ch, m)
<1> Len(Stream) \in Nat /\ n \in Nat
  BY ConstantsAssumption DEF Typed
<1>1. m.kind = "event" /\ m.number = n + 1 /\ m \in Messages
  BY DEF Messages, Numbers
<1> HIDE DEF m
<1>2. /\ more \in Seq(Messages)
      /\ Len(more) = Len(ch) + 1 /\ Len(ch) \in Nat
      /\ more[Len(ch) + 1] = m
      /\ \A i \in 1..Len(ch) : more[i] = ch[i]
      /\ \A i \in 1..Len(more) : i \in 1..Len(ch) \/ i = Len(ch) + 1
  BY <1>1, LongerChannel DEF Typed
<1> HIDE DEF more
<1>3. Typed(n + 1, sub, con, own, lag, req, more, v, ea)
  BY <1>2 DEF Typed
<1>4. \A i \in 0..Len(ch) : Answered(ch, i) => Answered(more, i)
  BY <1>2 DEF Answered
<1>5. sub => lag \/ v.known \/ Answered(more, Len(ch))
  BY <1>2, <1>4 DEF Fits
<1>6. Answered(more, Len(ch)) => Answered(more, Len(more))
  BY <1>2 DEF Answered
<1>7. \A i \in 1..Len(more) :
        more[i].kind = "replay" => /\ v.known
                                   /\ Ascending(more[i].events)
                                   /\ StartsOver(more[i].events)
  BY <1>1, <1>2 DEF Fits
<1>8. ASSUME NEW i \in 1..Len(more), RowEvent(more[i])
      PROVE  sub /\ (lag \/ v.known \/ Answered(more, i - 1))
  <2>1. CASE i \in 1..Len(ch)
    <3>1. sub /\ (lag \/ v.known \/ Answered(ch, i - 1)) /\ i - 1 \in 0..Len(ch)
      BY <1>2, <1>8, <2>1 DEF Fits
    <3> QED
      BY <1>4, <3>1
  <2>2. CASE i = Len(ch) + 1
    <3>1. sub /\ i - 1 = Len(ch)
      BY <1>1, <1>2, <1>8, <2>2 DEF RowEvent
    <3> QED
      BY <1>5, <3>1
  <2> QED
    BY <1>2, <2>1, <2>2
<1>9. \A i \in 1..Len(ch) : Below(ch[i], n + 1) /\ Below(ch[i], n + 1 + 1)
  <2>1. ASSUME NEW i \in 1..Len(ch) PROVE Below(ch[i], n + 1) /\ Below(ch[i], n + 1 + 1)
    <3>1. Below(ch[i], n + 1) /\ ch[i] \in Messages
      BY DEF Fits, Typed
    <3>2. /\ ch[i].kind = "event" => ch[i].number \in Int
          /\ ch[i].kind = "replay" => \A k \in 1..Len(ch[i].events) : ch[i].events[k] \in Int
      BY <3>1, MessageIs DEF Numbers
    <3> QED
      BY <3>1, <3>2 DEF Below
  <2> QED
    BY <2>1
<1>10. \A i \in 1..Len(more) : Below(more[i], n + 1 + 1)
  <2>1. Below(m, n + 1 + 1)
    BY <1>1 DEF Below
  <2> QED
    BY <1>2, <1>9, <2>1
<1>11. ASSUME NEW i \in 1..Len(more), NEW j \in 1..Len(more), i < j, more[j].kind = "event"
       PROVE  Below(more[i], more[j].number)
  <2>1. i \in 1..Len(ch)
    BY <1>2, <1>11
  <2>2. CASE j \in 1..Len(ch)
    BY <1>2, <1>11, <2>1, <2>2 DEF Fits
  <2>3. CASE j = Len(ch) + 1
    BY <1>1, <1>2, <1>9, <2>1, <2>3
  <2> QED
    BY <1>2, <2>2, <2>3
<1>12. \A i \in 1..Len(v.rows) : v.rows[i] \in Int /\ v.rows[i] <= n
  BY DEF Typed, ViewType, Fits, Numbers
<1>13. \A i \in 1..Len(v.rows) : v.rows[i] <= n + 1
  BY <1>12
<1>14. ASSUME NEW i \in 1..Len(v.rows), NEW j \in 1..Len(more), RowEvent(more[j])
       PROVE  v.rows[i] < more[j].number
  <2>1. CASE j \in 1..Len(ch)
    BY <1>2, <1>14, <2>1 DEF Fits
  <2>2. CASE j = Len(ch) + 1
    BY <1>1, <1>2, <1>12, <2>2
  <2> QED
    BY <1>2, <2>1, <2>2
<1>15. /\ Ascending(v.rows) /\ (req = "subscribe" => v.known)
       /\ (lag => own) /\ (own => con)
  BY DEF Fits
<1>16. req = "start" \/ Answered(more, Len(more)) => own
  <2>1. Answered(more, Len(more)) => Answered(ch, Len(ch))
    BY <1>1, <1>2 DEF Answered
  <2> QED
    BY <2>1 DEF Fits
<1>17. PutBy(n + 1, con, own, lag, more, v, ea)
  <2>1. PutBy(n, con, own, lag, ch, v, ea)
    BY DEF Fits
  <2>2. \A i \in 1..Len(ea) : ea[i] \in Int /\ ea[i] <= n
    BY <2>1 DEF Typed, PutBy, Numbers
  <2>3. \A i \in 1..Len(ea) : ea[i] <= n + 1 /\ ea[i] < n + 1
    BY <2>2
  <2>4. ASSUME NEW i \in 1..Len(ea), NEW j \in 1..Len(more), more[j].kind = "event"
        PROVE  ea[i] < more[j].number
    <3>1. CASE j \in 1..Len(ch)
      BY <1>2, <2>1, <2>4, <3>1 DEF PutBy
    <3>2. CASE j = Len(ch) + 1
      BY <1>1, <1>2, <2>3, <3>2
    <3> QED
      BY <1>2, <3>1, <3>2
  <2>5. ASSUME own, ~v.known, NEW k \in 1..(n + 1), ~IsRows(k) PROVE InPlace(k, more, ea)
    <3>1. CASE k \in 1..n
      <4>1. InPlace(k, ch, ea)
        BY <2>1, <2>5, <3>1 DEF PutBy
      <4> QED
        BY <1>2, <4>1 DEF InPlace
    <3>2. CASE k = n + 1
      <4>1. Len(ch) + 1 \in 1..Len(more)
        BY <1>2
      <4> QED
        BY <1>1, <1>2, <3>2, <4>1 DEF InPlace
    <3> QED
      BY <3>1, <3>2
  <2> QED
    BY <2>1, <2>3, <2>4, <2>5 DEF PutBy
<1>18. Fits(n + 1, sub, con, own, lag, req, more, v, ea)
  BY <1>5, <1>6, <1>7, <1>8, <1>10, <1>11, <1>13, <1>14, <1>15, <1>16, <1>17 DEF Fits
<1> QED
  BY <1>3, <1>18 DEF more, m

(* A client that is sent nothing of a new event.                           *)
LEMMA EventNotSent ==
  ASSUME NEW n, NEW sub, NEW con, NEW own, NEW lag, NEW req, NEW ch, NEW v, NEW ea,
         Typed(n, sub, con, own, lag, req, ch, v, ea), Fits(n, sub, con, own, lag, req, ch, v, ea),
         n < Len(Stream), own => IsRows(n + 1)
  PROVE  /\ Typed(n + 1, sub, con, own, lag, req, ch, v, ea)
         /\ Fits(n + 1, sub, con, own, lag, req, ch, v, ea)
<1> Len(Stream) \in Nat /\ n \in Nat
  BY ConstantsAssumption DEF Typed
<1>1. Typed(n + 1, sub, con, own, lag, req, ch, v, ea)
  BY DEF Typed
<1>2. ASSUME NEW i \in 1..Len(ch) PROVE Below(ch[i], n + 1 + 1)
  <2>1. Below(ch[i], n + 1) /\ ch[i] \in Messages
    BY DEF Fits, Typed
  <2>2. /\ ch[i].kind = "event" => ch[i].number \in Int
        /\ ch[i].kind = "replay" => \A k \in 1..Len(ch[i].events) : ch[i].events[k] \in Int
    BY <2>1, MessageIs DEF Numbers
  <2> QED
    BY <2>1, <2>2 DEF Below
<1>3. \A i \in 1..Len(v.rows) : v.rows[i] \in Int /\ v.rows[i] <= n
  BY DEF Typed, ViewType, Fits, Numbers
<1>4. \A i \in 1..Len(v.rows) : v.rows[i] <= n + 1
  BY <1>3
<1>5. PutBy(n + 1, con, own, lag, ch, v, ea)
  <2>1. PutBy(n, con, own, lag, ch, v, ea)
    BY DEF Fits
  <2>2. \A i \in 1..Len(ea) : ea[i] \in Int /\ ea[i] <= n
    BY <2>1 DEF Typed, PutBy, Numbers
  <2>3. \A i \in 1..Len(ea) : ea[i] <= n + 1
    BY <2>2
  <2>4. \A k \in 1..(n + 1) : k \in 1..n \/ k = n + 1
    OBVIOUS
  <2> QED
    BY <2>1, <2>3, <2>4 DEF PutBy
<1> QED
  BY <1>1, <1>2, <1>4, <1>5 DEF Fits

(* A request is answered: a response to the start, a replay for somebody   *)
(* who knows the execution, or a refusal.                                  *)
LEMMA AnswerSent ==
  ASSUME NEW n, NEW sub, NEW con, NEW own, NEW lag, NEW req, NEW ch, NEW v, NEW ea,
         Typed(n, sub, con, own, lag, req, ch, v, ea), Fits(n, sub, con, own, lag, req, ch, v, ea),
         con, NEW m \in Messages, NEW t \in BOOLEAN, sub => t, t => sub \/ v.known \/ m.kind = "response",
         \/ m.kind = "response" /\ own
         \/ /\ m.kind = "replay" /\ v.known /\ Below(m, n + 1)
            /\ Ascending(m.events) /\ StartsOver(m.events)
         \/ m.kind = "refusal"
  PROVE  /\ Typed(n, t, con, own, lag, "none", Append(ch, m), v, ea)
         /\ Fits(n, t, con, own, lag, "none", Append(ch, m), v, ea)
<1> DEFINE more == Append(ch, m)
<1>1. /\ more \in Seq(Messages)
      /\ Len(more) = Len(ch) + 1 /\ Len(ch) \in Nat
      /\ more[Len(ch) + 1] = m
      /\ \A i \in 1..Len(ch) : more[i] = ch[i]
      /\ \A i \in 1..Len(more) : i \in 1..Len(ch) \/ i = Len(ch) + 1
  BY LongerChannel DEF Typed
<1> HIDE DEF more
<1>2. Typed(n, t, con, own, lag, "none", more, v, ea)
  BY <1>1 DEF Typed
<1>3. \A i \in 0..Len(ch) : Answered(ch, i) => Answered(more, i)
  BY <1>1 DEF Answered
<1>4. t => lag \/ v.known \/ Answered(more, Len(more))
  <2>1. Answered(more, Len(ch)) \/ m.kind = "response" => Answered(more, Len(more))
    BY <1>1 DEF Answered
  <2>2. sub => lag \/ v.known \/ Answered(more, Len(ch))
    BY <1>1, <1>3 DEF Fits
  <2> QED
    BY <2>1, <2>2
<1>5. m.kind # "event" /\ ~RowEvent(m) /\ Below(m, n + 1)
  BY DEF RowEvent, Below
<1>6. \A i \in 1..Len(more) :
        more[i].kind = "replay" => /\ v.known
                                   /\ Ascending(more[i].events)
                                   /\ StartsOver(more[i].events)
  BY <1>1 DEF Fits
<1>7. ASSUME NEW i \in 1..Len(more), RowEvent(more[i])
      PROVE  t /\ (lag \/ v.known \/ Answered(more, i - 1))
  <2>1. i \in 1..Len(ch)
    BY <1>1, <1>5, <1>7
  <2>2. sub /\ (lag \/ v.known \/ Answered(ch, i - 1)) /\ i - 1 \in 0..Len(ch)
    BY <1>1, <1>7, <2>1 DEF Fits
  <2> QED
    BY <1>3, <2>2
<1>8. \A i \in 1..Len(more) : Below(more[i], n + 1)
  BY <1>1, <1>5 DEF Fits
<1>9. ASSUME NEW i \in 1..Len(more), NEW j \in 1..Len(more), i < j, more[j].kind = "event"
      PROVE  Below(more[i], more[j].number)
  <2>1. i \in 1..Len(ch) /\ j \in 1..Len(ch)
    BY <1>1, <1>5, <1>9
  <2> QED
    BY <1>1, <1>9, <2>1 DEF Fits
<1>10. ASSUME NEW i \in 1..Len(v.rows), NEW j \in 1..Len(more), RowEvent(more[j])
       PROVE  v.rows[i] < more[j].number
  <2>1. j \in 1..Len(ch)
    BY <1>1, <1>5, <1>10
  <2> QED
    BY <1>1, <1>10, <2>1 DEF Fits
<1>11. /\ Ascending(v.rows) /\ \A i \in 1..Len(v.rows) : v.rows[i] <= n
       /\ (lag => own) /\ (own => con)
  BY DEF Fits
<1>12. Answered(more, Len(more)) => own
  <2>1. Answered(more, Len(more)) => Answered(ch, Len(ch)) \/ m.kind = "response"
    BY <1>1 DEF Answered
  <2> QED
    BY <2>1 DEF Fits
<1>13. PutBy(n, con, own, lag, more, v, ea)
  <2>1. PutBy(n, con, own, lag, ch, v, ea)
    BY DEF Fits
  <2>2. \A j \in 1..Len(more) : more[j].kind = "event" => j \in 1..Len(ch) /\ more[j] = ch[j]
    BY <1>1, <1>5
  <2>3. \A k : InPlace(k, ch, ea) => InPlace(k, more, ea)
    BY <1>1 DEF InPlace
  <2> QED
    BY <2>1, <2>2, <2>3 DEF PutBy
<1>14. Fits(n, t, con, own, lag, "none", more, v, ea)
  BY <1>4, <1>6, <1>7, <1>8, <1>9, <1>10, <1>11, <1>12, <1>13 DEF Fits
<1> QED
  BY <1>2, <1>14 DEF more

(* ... without its being subscribed.                                       *)
LEMMA AnswerSentOnly ==
  ASSUME NEW n, NEW sub, NEW con, NEW own, NEW lag, NEW req, NEW ch, NEW v, NEW ea,
         Typed(n, sub, con, own, lag, req, ch, v, ea), Fits(n, sub, con, own, lag, req, ch, v, ea),
         con, NEW m \in Messages,
         \/ m.kind = "response" /\ own
         \/ /\ m.kind = "replay" /\ v.known /\ Below(m, n + 1)
            /\ Ascending(m.events) /\ StartsOver(m.events)
         \/ m.kind = "refusal"
  PROVE  /\ Typed(n, sub, con, own, lag, "none", Append(ch, m), v, ea)
         /\ Fits(n, sub, con, own, lag, "none", Append(ch, m), v, ea)
<1>1. sub \in BOOLEAN
  BY DEF Typed
<1> QED
  BY <1>1, AnswerSent

(* A message is taken: what the view must be for the rest to follow on.    *)
LEMMA Taken ==
  ASSUME NEW n, NEW sub, NEW con, NEW own, NEW lag, NEW req, NEW ch, NEW v, NEW ea,
         Typed(n, sub, con, own, lag, req, ch, v, ea),
         Fits(n, sub, con, own, lag, req, ch, v, ea), ch # <<>>,
         NEW w \in ViewType, NEW put \in Seq(Numbers),
         v.known \/ Head(ch).kind = "response" => w.known,
         Ascending(w.rows),
         \A i \in 1..Len(w.rows) : w.rows[i] <= n,
         \A i \in 1..Len(w.rows), j \in 2..Len(ch) : RowEvent(ch[j]) => w.rows[i] < ch[j].number,
         PutBy(n, con, own, lag, Tail(ch), w, put)
  PROVE  /\ Typed(n, sub, con, own, lag, req, Tail(ch), w, put)
         /\ Fits(n, sub, con, own, lag, req, Tail(ch), w, put)
<1> DEFINE rest == Tail(ch)
<1>1. /\ rest \in Seq(Messages) /\ Len(rest) = Len(ch) - 1 /\ Len(ch) \in Nat \ {0}
      /\ Head(ch) = ch[1] /\ Head(ch) \in Messages /\ ch \in Seq(Messages)
      /\ \A i \in 1..Len(rest) : rest[i] = ch[i + 1] /\ i + 1 \in 1..Len(ch) /\ i + 1 \in 2..Len(ch)
  BY ShorterChannel DEF Typed
<1>2. Typed(n, sub, con, own, lag, req, rest, w, put)
  BY <1>1 DEF Typed
<1>3. \A i \in 1..Len(ch) : Answered(ch, i) => w.known \/ Answered(rest, i - 1)
  BY <1>1, AnsweredLater
<1> HIDE DEF rest
<1>4. con /\ (lag => own) /\ (own => con)
  BY DEF Fits
<1>5. sub => lag \/ w.known \/ Answered(rest, Len(rest))
  <2>1. Len(ch) \in 1..Len(ch) /\ Len(rest) = Len(ch) - 1
    BY <1>1
  <2> QED
    BY <1>3, <2>1 DEF Fits
<1>6. req = "subscribe" => w.known
  BY DEF Fits
<1>7. \A i \in 1..Len(rest) :
        rest[i].kind = "replay" => /\ w.known
                                   /\ Ascending(rest[i].events)
                                   /\ StartsOver(rest[i].events)
  BY <1>1 DEF Fits
<1>8. ASSUME NEW i \in 1..Len(rest), RowEvent(rest[i])
      PROVE  sub /\ (lag \/ w.known \/ Answered(rest, i - 1))
  <2>1. i + 1 - 1 = i /\ i \in 1..Len(ch)
    BY <1>1
  <2>2. sub /\ (lag \/ v.known \/ Answered(ch, i + 1 - 1))
    BY <1>1, <1>8 DEF Fits
  <2> QED
    BY <1>3, <2>1, <2>2
<1>9. \A i \in 1..Len(rest) : Below(rest[i], n + 1)
  BY <1>1 DEF Fits
<1>10. ASSUME NEW i \in 1..Len(rest), NEW j \in 1..Len(rest), i < j, rest[j].kind = "event"
       PROVE  Below(rest[i], rest[j].number)
  <2>1. i + 1 < j + 1
    BY <1>10
  <2> QED
    BY <1>1, <1>10, <2>1 DEF Fits
<1>11. ASSUME NEW i \in 1..Len(w.rows), NEW j \in 1..Len(rest), RowEvent(rest[j])
       PROVE  w.rows[i] < rest[j].number
  BY <1>1, <1>11
<1>12. req = "start" \/ Answered(rest, Len(rest)) => own
  <2>1. Answered(rest, Len(rest)) => Answered(ch, Len(ch))
    BY <1>1 DEF Answered
  <2> QED
    BY <2>1 DEF Fits
<1>13. PutBy(n, con, own, lag, rest, w, put)
  BY DEF rest
<1>14. Fits(n, sub, con, own, lag, req, rest, w, put)
  BY <1>4, <1>5, <1>6, <1>7, <1>8, <1>9, <1>10, <1>11, <1>12, <1>13 DEF Fits
<1> QED
  BY <1>2, <1>14 DEF rest

(* What is put by stays, if the message taken is no event or the client    *)
(* knows the execution; it is emptied only of one that does.               *)
LEMMA StillPutBy ==
  ASSUME NEW n, NEW sub, NEW con, NEW own, NEW lag, NEW req, NEW ch, NEW v, NEW ea,
         Typed(n, sub, con, own, lag, req, ch, v, ea), Fits(n, sub, con, own, lag, req, ch, v, ea),
         ch # <<>>, NEW w, w.known \/ (Head(ch).kind # "event" /\ ~v.known)
  PROVE  PutBy(n, con, own, lag, Tail(ch), w, ea)
<1> DEFINE rest == Tail(ch)
<1>1. /\ Len(rest) = Len(ch) - 1 /\ Len(ch) \in Nat \ {0} /\ Head(ch) = ch[1]
      /\ \A i \in 1..Len(rest) : rest[i] = ch[i + 1] /\ i + 1 \in 1..Len(ch)
  BY ShorterChannel DEF Typed
<1>2. PutBy(n, con, own, lag, ch, v, ea)
  BY DEF Fits
<1>3. ASSUME ~w.known, NEW m, InPlace(m, ch, ea) PROVE InPlace(m, Tail(ch), ea)
  <2>1. ASSUME NEW i \in 1..Len(ch), ch[i].kind = "event", ch[i].number = m
        PROVE  \E j \in 1..Len(Tail(ch)) : Tail(ch)[j].kind = "event" /\ Tail(ch)[j].number = m
    <3> HIDE DEF rest
    <3>1. i # 1
      BY <1>1, <1>3, <2>1
    <3>2. i - 1 \in 1..Len(rest) /\ i - 1 + 1 = i
      BY <1>1, <3>1
    <3>3. rest[i - 1] = ch[i - 1 + 1]
      BY <1>1, <3>2
    <3>4. rest[i - 1].kind = "event" /\ rest[i - 1].number = m
      BY <2>1, <3>2, <3>3
    <3> QED
      BY <3>2, <3>4 DEF rest
  <2> QED
    BY <1>3, <2>1 DEF InPlace
<1> HIDE DEF rest
<1>4. \A i \in 1..Len(ea) : \A j \in 1..Len(rest) :
        rest[j].kind = "event" => ea[i] < rest[j].number
  BY <1>1, <1>2 DEF PutBy
<1> QED
  BY <1>2, <1>3, <1>4 DEF PutBy, rest

LEMMA NothingPutBy ==
  ASSUME NEW n, NEW con, NEW own, NEW lag, NEW ch, NEW v, v.known
  PROVE  PutBy(n, con, own, lag, ch, v, <<>>)
BY DEF PutBy, Ascending, StartsOver

(* The rows on show stay as they are.                                      *)
LEMMA SameRows ==
  ASSUME NEW n, NEW sub, NEW con, NEW own, NEW lag, NEW req, NEW ch, NEW v, NEW ea,
         Typed(n, sub, con, own, lag, req, ch, v, ea), Fits(n, sub, con, own, lag, req, ch, v, ea)
  PROVE  /\ Ascending(v.rows)
         /\ \A i \in 1..Len(v.rows) : v.rows[i] <= n
         /\ \A i \in 1..Len(v.rows), j \in 2..Len(ch) :
              RowEvent(ch[j]) => v.rows[i] < ch[j].number
<1>1. ch \in Seq(Messages)
  BY DEF Typed
<1>2. \A j \in 2..Len(ch) : j \in 1..Len(ch)
  BY <1>1
<1> QED
  BY <1>2 DEF Fits

(* An event for a client that knows the execution.                         *)
LEMMA EventShown ==
  ASSUME NEW n, NEW sub, NEW con, NEW own, NEW lag, NEW req, NEW ch, NEW v, NEW ea,
         Typed(n, sub, con, own, lag, req, ch, v, ea), Fits(n, sub, con, own, lag, req, ch, v, ea),
         ch # <<>>, Head(ch).kind = "event", v.known
  PROVE  LET w == Apply(v, Head(ch).number)
         IN  /\ Typed(n, sub, con, own, lag, req, Tail(ch), w, ea)
             /\ Fits(n, sub, con, own, lag, req, Tail(ch), w, ea)
<1> DEFINE next == Head(ch).number
           w == Apply(v, next)
<1>1. v \in ViewType /\ next \in Numbers /\ ea \in Seq(Numbers) /\ n \in Nat
  BY ShorterChannel, MessageIs, ConstantsAssumption DEF Typed
<1>2. /\ w \in ViewType /\ w.known
      /\ w.rows = IF Stream[next] = "columns" THEN <<>>
                  ELSE IF IsRows(next) THEN Append(v.rows, next) ELSE v.rows
  <2> HIDE DEF next
  <2> QED
    BY <1>1, Applied
<1>3. /\ Ascending(v.rows)
      /\ \A i \in 1..Len(v.rows) : v.rows[i] <= n
      /\ \A i \in 1..Len(v.rows), j \in 2..Len(ch) :
           RowEvent(ch[j]) => v.rows[i] < ch[j].number
  BY SameRows
<1>4. ch[1] = Head(ch) /\ Len(ch) \in Nat \ {0} /\ ch \in Seq(Messages)
  BY ShorterChannel DEF Typed
<1>5. next < n + 1 /\ (IsRows(next) => \A i \in 1..Len(v.rows) : v.rows[i] < next)
  <2>1. 1 \in 1..Len(ch)
    BY <1>4
  <2> QED
    BY <1>4, <2>1 DEF Fits, Below, RowEvent
<1>6. \A j \in 2..Len(ch) : RowEvent(ch[j]) => next < ch[j].number
  <2>1. ASSUME NEW j \in 2..Len(ch), RowEvent(ch[j]) PROVE next < ch[j].number
    <3>1. 1 \in 1..Len(ch) /\ j \in 1..Len(ch) /\ 1 < j
      BY <1>4
    <3>2. Below(ch[1], ch[j].number)
      BY <2>1, <3>1 DEF Fits, RowEvent
    <3> QED
      BY <1>4, <3>2 DEF Below
  <2> QED
    BY <2>1
<1>7. /\ Ascending(w.rows)
      /\ \A i \in 1..Len(w.rows) : w.rows[i] <= n
      /\ \A i \in 1..Len(w.rows), j \in 2..Len(ch) :
           RowEvent(ch[j]) => w.rows[i] < ch[j].number
  <2>1. CASE Stream[next] = "columns"
    BY <1>2, <2>1 DEF Ascending
  <2>2. CASE IsRows(next)
    <3> DEFINE rows == v.rows
    <3>1. rows \in Seq(Numbers) /\ w.rows = Append(rows, next)
      BY <1>1, <1>2, <2>2 DEF ViewType, IsRows
    <3> HIDE DEF next
    <3>2. Ascending(Append(rows, next))
      BY <1>1, <1>3, <1>5, <2>2, <3>1, BatchAppended
    <3> HIDE DEF w, rows
    <3>3. \A i \in 1..Len(w.rows) : (i \in 1..Len(rows) /\ w.rows[i] = rows[i]) \/ w.rows[i] = next
      BY <3>1
    <3>4. next <= n
      BY <1>1, <1>5 DEF Numbers
    <3> QED
      BY <1>3, <1>6, <3>1, <3>2, <3>3, <3>4 DEF rows
  <2>3. CASE Stream[next] # "columns" /\ ~IsRows(next)
    BY <1>2, <1>3, <2>3
  <2> QED
    BY <2>1, <2>2, <2>3
<1> HIDE DEF w
<1>8. PutBy(n, con, own, lag, Tail(ch), w, ea)
  BY <1>2, StillPutBy
<1>9. /\ Typed(n, sub, con, own, lag, req, Tail(ch), w, ea)
      /\ Fits(n, sub, con, own, lag, req, Tail(ch), w, ea)
  BY <1>1, <1>2, <1>7, <1>8, Taken
<1> QED
  BY <1>9 DEF w

(* An event for one that does not know it yet is put by, unless there are  *)
(* too many; it is no row batch, but for a starter that gave up its start. *)
LEMMA EventPutBy ==
  ASSUME NEW n, NEW sub, NEW con, NEW own, NEW lag, NEW req, NEW ch, NEW v, NEW ea,
         Typed(n, sub, con, own, lag, req, ch, v, ea), Fits(n, sub, con, own, lag, req, ch, v, ea),
         ch # <<>>, Head(ch).kind = "event", ~v.known
  PROVE  LET put == IF Len(ea) < EarlyCap THEN Append(ea, Head(ch).number) ELSE ea
         IN  /\ Typed(n, sub, con, own, lag, req, Tail(ch), v, put)
             /\ Fits(n, sub, con, own, lag, req, Tail(ch), v, put)
<1> DEFINE next == Head(ch).number
           more == Append(ea, next)
           put == IF Len(ea) < EarlyCap THEN more ELSE ea
           rest == Tail(ch)
<1>1. v \in ViewType /\ next \in Numbers /\ ea \in Seq(Numbers) /\ n \in Nat
  BY ShorterChannel, MessageIs, ConstantsAssumption DEF Typed
<1>2. /\ Ascending(v.rows)
      /\ \A i \in 1..Len(v.rows) : v.rows[i] <= n
      /\ \A i \in 1..Len(v.rows), j \in 2..Len(ch) :
           RowEvent(ch[j]) => v.rows[i] < ch[j].number
  BY SameRows
<1>3. /\ Head(ch) = ch[1] /\ 1 \in 1..Len(ch) /\ Len(ch) \in Nat \ {0}
      /\ Len(rest) = Len(ch) - 1
      /\ \A i \in 1..Len(rest) : rest[i] = ch[i + 1] /\ i + 1 \in 1..Len(ch)
  BY ShorterChannel DEF Typed
<1>4. PutBy(n, con, own, lag, ch, v, ea) /\ con /\ (lag => own)
  BY DEF Fits
<1>5. IsRows(next) => lag
  <2>1. ~Answered(ch, 0) /\ 1 - 1 = 0
    BY DEF Answered
  <2>2. RowEvent(ch[1]) => lag \/ v.known \/ Answered(ch, 0)
    BY <1>3, <2>1 DEF Fits
  <2> QED
    BY <1>3, <2>1, <2>2 DEF RowEvent
<1>6. next <= n /\ \A i \in 1..Len(ea) : ea[i] < next
  <2>1. next < n + 1
    BY <1>3 DEF Fits, Below
  <2> QED
    BY <1>1, <1>3, <1>4, <2>1 DEF PutBy, Numbers
<1>7. \A j \in 2..Len(ch) : ch[j].kind = "event" => next < ch[j].number
  <2>1. ASSUME NEW j \in 2..Len(ch), ch[j].kind = "event" PROVE next < ch[j].number
    <3>1. j \in 1..Len(ch) /\ 1 < j
      BY <1>3
    <3>2. Below(ch[1], ch[j].number)
      BY <1>3, <2>1, <3>1 DEF Fits
    <3> QED
      BY <1>3, <3>2 DEF Below
  <2> QED
    BY <2>1
<1>8. \A i \in 1..Len(rest) : i + 1 \in 2..Len(ch)
  BY <1>3
<1> HIDE DEF rest, next
<1>9. /\ more \in Seq(Numbers) /\ Len(more) = Len(ea) + 1 /\ Len(ea) \in Nat
      /\ more[Len(ea) + 1] = next
      /\ \A i \in 1..Len(ea) : more[i] = ea[i] /\ i \in 1..Len(more)
      /\ \A i \in 1..Len(more) : i \in 1..Len(ea) \/ i = Len(ea) + 1
  BY <1>1
<1>10. Ascending(more)
  BY <1>1, <1>4, <1>6, BatchAppended DEF PutBy
<1> HIDE DEF more
<1>11. ASSUME own, NEW m \in 1..n, ~IsRows(m)
       PROVE  InPlace(m, rest, put) \/ m = next
  <2>1. InPlace(m, ch, ea)
    BY <1>4, <1>11 DEF PutBy
  <2>2. CASE \E i \in 1..Len(ea) : ea[i] = m
    BY <1>9, <2>2 DEF InPlace
  <2>3. ASSUME NEW i \in 1..Len(ch), ch[i].kind = "event", ch[i].number = m, m # next
        PROVE  InPlace(m, rest, put)
    <3>1. i # 1
      BY <1>3, <2>3 DEF next
    <3>2. i - 1 \in 1..Len(rest) /\ i - 1 + 1 = i
      BY <1>3, <3>1
    <3>3. rest[i - 1] = ch[i - 1 + 1]
      BY <1>3, <3>2
    <3>4. rest[i - 1].kind = "event" /\ rest[i - 1].number = m
      BY <2>3, <3>2, <3>3
    <3> QED
      BY <3>2, <3>4 DEF InPlace
  <2>4. CASE ~(Len(ea) < EarlyCap)
    BY <2>4 DEF InPlace
  <2> QED
    BY <2>1, <2>2, <2>3, <2>4 DEF InPlace
<1>12. PutBy(n, con, own, lag, rest, v, put)
  <2>1. CASE ~(Len(ea) < EarlyCap)
    <3>1. \A m : InPlace(m, rest, ea)
      BY <2>1 DEF InPlace
    <3>2. \A i \in 1..Len(ea) : \A j \in 1..Len(rest) :
            rest[j].kind = "event" => ea[i] < rest[j].number
      BY <1>3, <1>4 DEF PutBy
    <3> QED
      BY <1>4, <2>1, <3>1, <3>2 DEF PutBy
  <2>2. CASE Len(ea) < EarlyCap
    <3>1. put = more
      BY <2>2
    <3>2. con /\ ~lag => \A i \in 1..Len(more) : ~IsRows(more[i])
      BY <1>4, <1>5, <1>9 DEF PutBy
    <3>3. \A i \in 1..Len(more) : more[i] <= n
      BY <1>4, <1>6, <1>9 DEF PutBy
    <3>4. ASSUME NEW i \in 1..Len(more), NEW j \in 1..Len(rest), rest[j].kind = "event"
          PROVE  more[i] < rest[j].number
      <4>1. rest[j] = ch[j + 1] /\ j + 1 \in 1..Len(ch) /\ j + 1 \in 2..Len(ch)
        BY <1>3, <1>8
      <4>2. CASE i \in 1..Len(ea)
        BY <1>4, <1>9, <3>4, <4>1, <4>2 DEF PutBy
      <4>3. CASE i = Len(ea) + 1
        BY <1>7, <1>9, <3>4, <4>1, <4>3
      <4> QED
        BY <1>9, <4>2, <4>3
    <3>5. StartsOver(more)
      <4>1. ASSUME NEW i \in 1..Len(more), IsRows(more[i])
            PROVE  \E k \in 1..(i - 1) : Stream[more[k]] = "columns"
        <5>1. CASE i \in 1..Len(ea)
          <6>1. PICK k \in 1..(i - 1) : Stream[ea[k]] = "columns"
            BY <1>4, <1>9, <4>1, <5>1 DEF PutBy, StartsOver
          <6>2. k \in 1..Len(ea)
            BY <1>9, <5>1
          <6> QED
            BY <1>9, <6>1, <6>2
        <5>2. CASE i = Len(ea) + 1
          <6>1. IsRows(next) /\ own
            BY <1>4, <1>5, <1>9, <4>1, <5>2
          <6>2. PICK m \in 1..(next - 1) : Stream[m] = "columns"
            BY <1>1, <6>1, ColumnsFirst DEF IsRows, Numbers
          <6>3. m \in 1..n /\ ~IsRows(m) /\ m < next
            <7>1. next \in Int
              BY <1>1 DEF Numbers
            <7> QED
              BY <1>1, <1>6, <6>2, <7>1 DEF IsRows
          <6>4. ~\E j \in 1..Len(ch) : ch[j].kind = "event" /\ ch[j].number = m
            <7>1. ASSUME NEW j \in 1..Len(ch), ch[j].kind = "event", ch[j].number = m PROVE FALSE
              <8>1. j # 1
                BY <1>3, <6>3, <7>1 DEF next
              <8>2. j \in 2..Len(ch)
                BY <1>3, <8>1
              <8>3. next < m
                BY <1>7, <7>1, <8>2
              <8> QED
                BY <1>1, <6>3, <8>3 DEF Numbers
            <7> QED
              BY <7>1
          <6>5. InPlace(m, ch, ea)
            BY <1>4, <6>1, <6>3 DEF PutBy
          <6>6. PICK k \in 1..Len(ea) : ea[k] = m
            BY <2>2, <6>4, <6>5 DEF InPlace
          <6>7. k \in 1..(i - 1) /\ more[k] = m
            BY <1>9, <5>2, <6>6
          <6> QED
            BY <6>2, <6>7
        <5> QED
          BY <1>9, <5>1, <5>2
      <4> QED
        BY <4>1 DEF StartsOver
    <3>6. ASSUME own, NEW m \in 1..n, ~IsRows(m) PROVE InPlace(m, rest, more)
      <4>1. CASE m = next
        <5>1. Len(ea) + 1 \in 1..Len(more)
          BY <1>9
        <5> QED
          BY <1>9, <4>1, <5>1 DEF InPlace
      <4>2. CASE m # next
        BY <1>11, <3>1, <3>6, <4>2
      <4> QED
        BY <4>1, <4>2
    <3> QED
      BY <1>10, <3>1, <3>2, <3>3, <3>4, <3>5, <3>6 DEF PutBy
  <2> QED
    BY <2>1, <2>2
<1>13. put \in Seq(Numbers)
  BY <1>1, <1>9
<1> HIDE DEF put
<1>14. /\ Typed(n, sub, con, own, lag, req, rest, v, put)
       /\ Fits(n, sub, con, own, lag, req, rest, v, put)
  <2>1. v.known \/ Head(ch).kind = "response" => v.known
    OBVIOUS
  <2> QED
    BY <1>1, <1>2, <1>12, <1>13, <2>1, Taken DEF rest
<1> QED
  BY <1>14 DEF put, next, more, rest

(* A message that says nothing of the rows: the status alone may change.   *)
LEMMA SilentTaken ==
  ASSUME NEW n, NEW sub, NEW con, NEW own, NEW lag, NEW req, NEW ch, NEW v, NEW ea,
         Typed(n, sub, con, own, lag, req, ch, v, ea), Fits(n, sub, con, own, lag, req, ch, v, ea),
         ch # <<>>, Head(ch).kind \in {"refusal", "ignored"},
         NEW w \in ViewType, w.rows = v.rows, w.known = v.known
  PROVE  /\ Typed(n, sub, con, own, lag, req, Tail(ch), w, ea)
         /\ Fits(n, sub, con, own, lag, req, Tail(ch), w, ea)
<1>1. /\ Ascending(w.rows)
      /\ \A i \in 1..Len(w.rows) : w.rows[i] <= n
      /\ \A i \in 1..Len(w.rows), j \in 2..Len(ch) :
           RowEvent(ch[j]) => w.rows[i] < ch[j].number
  BY SameRows
<1>2. PutBy(n, con, own, lag, Tail(ch), w, ea)
  BY StillPutBy
<1>3. (v.known \/ Head(ch).kind = "response" => w.known) /\ ea \in Seq(Numbers)
  BY DEF Typed
<1> QED
  BY <1>1, <1>2, <1>3, Taken

LEMMA QueuedIs ==
  /\ Queued \in ViewType /\ Queued.known /\ Queued.status = "queued" /\ Queued.rows = <<>>
  /\ Unknown \in ViewType /\ ~Unknown.known /\ Unknown.rows = <<>>
<1>1. <<>> \in Seq(Numbers)
  OBVIOUS
<1>2. Unknown \in ViewType
  BY <1>1 DEF Unknown, ViewType, Statuses
<1> QED
  BY <1>2 DEF Unknown, Queued, ViewType

(* The response: the execution is registered, what was put by is drained.  *)
LEMMA ResponseTaken ==
  ASSUME NEW n, NEW sub, NEW con, NEW own, NEW lag, NEW req, NEW ch, NEW v, NEW ea,
         Typed(n, sub, con, own, lag, req, ch, v, ea), Fits(n, sub, con, own, lag, req, ch, v, ea),
         ch # <<>>, Head(ch).kind = "response"
  PROVE  LET w == ApplyAll(Queued, ea)
         IN  /\ Typed(n, sub, con, own, lag, req, Tail(ch), w, <<>>)
             /\ Fits(n, sub, con, own, lag, req, Tail(ch), w, <<>>)
<1> DEFINE w == ApplyAll(Queued, ea)
<1>1. ea \in Seq(Numbers) /\ PutBy(n, con, own, lag, ch, v, ea)
  BY DEF Typed, Fits
<1>2. Ascending(Queued.rows)
  BY QueuedIs DEF Ascending
<1>3. RowsAscend(ea) /\ StartsOver(ea)
  BY <1>1 DEF RowsAscend, PutBy, Ascending
<1>4. w \in ViewType /\ w.known
  BY <1>1, QueuedIs, ApplyAllType
<1>5. Ascending(w.rows) /\ RowsAmong(w.rows, Queued.rows, ea, Len(ea))
  BY <1>1, <1>2, <1>3, QueuedIs, ShownRows
<1> HIDE DEF w
<1>6. /\ \A i \in 1..Len(w.rows) : w.rows[i] <= n
      /\ \A i \in 1..Len(w.rows), j \in 2..Len(ch) : RowEvent(ch[j]) => w.rows[i] < ch[j].number
  <2>1. ASSUME NEW i \in 1..Len(w.rows) PROVE \E j \in 1..Len(ea) : w.rows[i] = ea[j]
    BY <1>5, QueuedIs DEF RowsAmong
  <2>2. \A j \in 2..Len(ch) : j \in 1..Len(ch)
    BY DEF Typed
  <2> QED
    BY <1>1, <2>1, <2>2 DEF PutBy, RowEvent
<1>7. <<>> \in Seq(Numbers) /\ PutBy(n, con, own, lag, Tail(ch), w, <<>>)
  BY <1>4, NothingPutBy
<1>8. /\ Typed(n, sub, con, own, lag, req, Tail(ch), w, <<>>)
      /\ Fits(n, sub, con, own, lag, req, Tail(ch), w, <<>>)
  BY <1>4, <1>5, <1>6, <1>7, Taken
<1> QED
  BY <1>8 DEF w

(* A replay, and then what was put by.                                     *)
LEMMA ReplayTaken ==
  ASSUME NEW n, NEW sub, NEW con, NEW own, NEW lag, NEW req, NEW ch, NEW v, NEW ea,
         Typed(n, sub, con, own, lag, req, ch, v, ea), Fits(n, sub, con, own, lag, req, ch, v, ea),
         ch # <<>>, Head(ch).kind = "replay"
  PROVE  LET w == ApplyAll(v, Head(ch).events \o ea)
         IN  /\ Typed(n, sub, con, own, lag, req, Tail(ch), w, <<>>)
             /\ Fits(n, sub, con, own, lag, req, Tail(ch), w, <<>>)
<1> DEFINE ev == Head(ch).events
           s == ev \o ea
           w == ApplyAll(v, s)
<1>1. v \in ViewType /\ ea \in Seq(Numbers) /\ n \in Nat
  BY ConstantsAssumption DEF Typed
<1>2. /\ ch[1] = Head(ch) /\ 1 \in 1..Len(ch) /\ Len(ch) \in Nat \ {0} /\ ch \in Seq(Messages)
      /\ ev \in Seq(Numbers)
  BY ShorterChannel, MessageIs DEF Typed
<1>3. v.known /\ Ascending(ev) /\ StartsOver(ev) /\ Below(ch[1], n + 1)
  BY <1>2 DEF Fits
<1>4. \A k \in 1..Len(ev) : ev[k] < n + 1
  BY <1>2, <1>3 DEF Below
<1>5. \A k \in 1..Len(ev), j \in 2..Len(ch) : RowEvent(ch[j]) => ev[k] < ch[j].number
  <2>1. ASSUME NEW j \in 2..Len(ch), RowEvent(ch[j]) PROVE Below(ch[1], ch[j].number)
    <3>1. j \in 1..Len(ch) /\ 1 < j
      BY <1>2
    <3> QED
      BY <1>2, <2>1, <3>1 DEF Fits, RowEvent
  <2> QED
    BY <1>2, <2>1 DEF Below
<1>6. /\ Ascending(v.rows)
      /\ \A i \in 1..Len(v.rows) : v.rows[i] <= n
      /\ \A i \in 1..Len(v.rows), j \in 2..Len(ch) :
           RowEvent(ch[j]) => v.rows[i] < ch[j].number
  BY SameRows
<1>7. PutBy(n, con, own, lag, ch, v, ea)
  BY DEF Fits
<1> HIDE DEF ev
<1>8. /\ s \in Seq(Numbers) /\ Len(s) = Len(ev) + Len(ea) /\ Len(ev) \in Nat /\ Len(ea) \in Nat
      /\ \A i \in 1..Len(ev) : s[i] = ev[i]
      /\ \A i \in (Len(ev) + 1)..Len(s) : s[i] = ea[i - Len(ev)] /\ i - Len(ev) \in 1..Len(ea)
      /\ \A i \in 1..Len(s) : i \in 1..Len(ev) \/ i \in (Len(ev) + 1)..Len(s)
  BY <1>1, <1>2
<1> HIDE DEF s
<1>9. ASSUME NEW i \in (Len(ev) + 1)..Len(s), IsRows(s[i])
      PROVE  \E k \in (Len(ev) + 1)..(i - 1) : Stream[s[k]] = "columns"
  <2>1. s[i] = ea[i - Len(ev)] /\ i - Len(ev) \in 1..Len(ea)
    BY <1>8
  <2>2. PICK k \in 1..(i - Len(ev) - 1) : Stream[ea[k]] = "columns"
    BY <1>7, <1>9, <2>1 DEF PutBy, StartsOver
  <2> DEFINE l == Len(ev) + k
  <2>3. l \in (Len(ev) + 1)..(i - 1) /\ l \in (Len(ev) + 1)..Len(s) /\ l - Len(ev) = k
    BY <1>8
  <2> HIDE DEF l
  <2>4. s[l] = ea[k]
    BY <1>8, <2>3
  <2> QED
    BY <2>2, <2>3, <2>4
<1>10. RowsAscend(s)
  <2>1. ASSUME NEW i \in 1..Len(s), NEW j \in 1..Len(s), i < j, IsRows(s[i]), IsRows(s[j])
        PROVE  s[i] < s[j] \/ \E k \in (i + 1)..(j - 1) : Stream[s[k]] = "columns"
    <3>1. CASE j \in 1..Len(ev)
      <4>1. i \in 1..Len(ev)
        BY <2>1, <3>1
      <4> QED
        BY <1>3, <1>8, <2>1, <3>1, <4>1 DEF Ascending
    <3>2. CASE j \in (Len(ev) + 1)..Len(s) /\ i \in 1..Len(ev)
      <4>1. PICK k \in (Len(ev) + 1)..(j - 1) : Stream[s[k]] = "columns"
        BY <1>9, <2>1, <3>2
      <4>2. k \in (i + 1)..(j - 1)
        BY <1>8, <3>2
      <4> QED
        BY <4>1, <4>2
    <3>3. CASE j \in (Len(ev) + 1)..Len(s) /\ i \in (Len(ev) + 1)..Len(s)
      <4>1. /\ s[i] = ea[i - Len(ev)] /\ i - Len(ev) \in 1..Len(ea)
            /\ s[j] = ea[j - Len(ev)] /\ j - Len(ev) \in 1..Len(ea)
            /\ i - Len(ev) < j - Len(ev)
        BY <1>8, <2>1, <3>3
      <4> QED
        BY <1>7, <4>1 DEF PutBy, Ascending
    <3> QED
      BY <1>8, <3>1, <3>2, <3>3
  <2> QED
    BY <2>1 DEF RowsAscend
<1>11. StartsOver(s)
  <2>1. ASSUME NEW i \in 1..Len(s), IsRows(s[i])
        PROVE  \E k \in 1..(i - 1) : Stream[s[k]] = "columns"
    <3>1. CASE i \in 1..Len(ev)
      <4>1. PICK k \in 1..(i - 1) : Stream[ev[k]] = "columns"
        BY <1>3, <1>8, <2>1, <3>1 DEF StartsOver
      <4>2. k \in 1..Len(ev)
        BY <1>8, <3>1
      <4> QED
        BY <1>8, <4>1, <4>2
    <3>2. CASE i \in (Len(ev) + 1)..Len(s)
      <4>1. PICK k \in (Len(ev) + 1)..(i - 1) : Stream[s[k]] = "columns"
        BY <1>9, <2>1, <3>2
      <4>2. k \in 1..(i - 1)
        BY <1>8
      <4> QED
        BY <4>1, <4>2
    <3> QED
      BY <1>8, <3>1, <3>2
  <2> QED
    BY <2>1 DEF StartsOver
<1>12. w \in ViewType /\ w.known
  BY <1>1, <1>3, <1>8, ApplyAllType
<1>13. Ascending(w.rows) /\ RowsAmong(w.rows, v.rows, s, Len(s))
  BY <1>1, <1>6, <1>8, <1>10, <1>11, ShownRows
<1> HIDE DEF w
<1>14. \A i \in 1..Len(w.rows) :
         \/ \E j \in 1..Len(v.rows) : w.rows[i] = v.rows[j]
         \/ \E k \in 1..Len(ev) : w.rows[i] = ev[k]
         \/ \E k \in 1..Len(ea) : w.rows[i] = ea[k]
  <2>1. \A k \in 1..Len(s) :
          (\E l \in 1..Len(ev) : s[k] = ev[l]) \/ \E l \in 1..Len(ea) : s[k] = ea[l]
    BY <1>8
  <2>2. \A i \in 1..Len(w.rows) :
          \/ \E j \in 1..Len(v.rows) : w.rows[i] = v.rows[j]
          \/ \E k \in 1..Len(s) : w.rows[i] = s[k]
    BY <1>13 DEF RowsAmong
  <2>3. ASSUME NEW i \in 1..Len(w.rows), NEW k \in 1..Len(s), w.rows[i] = s[k]
        PROVE  (\E l \in 1..Len(ev) : w.rows[i] = ev[l]) \/ \E l \in 1..Len(ea) : w.rows[i] = ea[l]
    <3>1. CASE \E l \in 1..Len(ev) : s[k] = ev[l]
      BY <2>3, <3>1
    <3>2. CASE \E l \in 1..Len(ea) : s[k] = ea[l]
      BY <2>3, <3>2
    <3> QED
      BY <2>1, <3>1, <3>2
  <2> QED
    BY <2>2, <2>3, Zenon
<1>15. \A i \in 1..Len(w.rows), j \in 2..Len(ch) : RowEvent(ch[j]) => w.rows[i] < ch[j].number
  <2>1. \A k \in 1..Len(ea), j \in 2..Len(ch) : RowEvent(ch[j]) => ea[k] < ch[j].number
    <3>1. \A j \in 2..Len(ch) : j \in 1..Len(ch)
      BY <1>2
    <3> QED
      BY <1>7, <3>1 DEF PutBy, RowEvent
  <2> QED
    BY <1>5, <1>6, <1>14, <2>1
<1>16. \A i \in 1..Len(w.rows) : w.rows[i] <= n
  <2>1. \A k \in 1..Len(ev) : ev[k] \in Int
    BY <1>2 DEF ev, Numbers
  <2>2. \A k \in 1..Len(ev) : ev[k] <= n
    BY <1>1, <1>4, <2>1
  <2> QED
    BY <1>6, <1>7, <1>14, <2>2 DEF PutBy
<1>17. <<>> \in Seq(Numbers) /\ PutBy(n, con, own, lag, Tail(ch), w, <<>>)
  BY <1>12, NothingPutBy
<1>18. /\ Typed(n, sub, con, own, lag, req, Tail(ch), w, <<>>)
       /\ Fits(n, sub, con, own, lag, req, Tail(ch), w, <<>>)
  BY <1>12, <1>13, <1>15, <1>16, <1>17, Taken
<1> QED
  BY <1>18 DEF w, s, ev

(* The execution is opened from history: it is known from now on.          *)
LEMMA Opened ==
  ASSUME NEW n, NEW sub, NEW con, NEW own, NEW lag, NEW req, NEW ch, NEW v, NEW ea,
         Typed(n, sub, con, own, lag, req, ch, v, ea), Fits(n, sub, con, own, lag, req, ch, v, ea),
         con
  PROVE  LET w == IF v.known THEN v ELSE Queued
         IN  /\ Typed(n, sub, con, own, lag, "subscribe", ch, w, ea)
             /\ Fits(n, sub, con, own, lag, "subscribe", ch, w, ea)
<1>1. /\ Typed(n, sub, con, own, lag, "subscribe", ch, v, ea)
      /\ Typed(n, sub, con, own, lag, "subscribe", ch, Queued, ea)
  BY QueuedIs DEF Typed
<1>2. CASE v.known
  <2>1. Fits(n, sub, con, own, lag, "subscribe", ch, v, ea)
    BY <1>2 DEF Fits
  <2> QED
    BY <1>1, <1>2, <2>1
<1>3. CASE ~v.known
  <2>1. Ascending(Queued.rows) /\ \A i \in 1..Len(Queued.rows) : FALSE
    BY QueuedIs DEF Ascending
  <2>2. PutBy(n, con, own, lag, ch, Queued, ea)
    BY QueuedIs DEF Fits, PutBy
  <2>3. Fits(n, sub, con, own, lag, "subscribe", ch, Queued, ea)
    BY <2>1, <2>2, QueuedIs DEF Fits
  <2> QED
    BY <1>1, <1>3, <2>3
<1> QED
  BY <1>2, <1>3

(* A request is given up before it is answered: the status may change, and *)
(* of a start, nobody waits for the response any more.                     *)
LEMMA GivenUp ==
  ASSUME NEW n, NEW sub, NEW con, NEW own, NEW lag, NEW req, NEW ch, NEW v, NEW ea,
         Typed(n, sub, con, own, lag, req, ch, v, ea), Fits(n, sub, con, own, lag, req, ch, v, ea),
         NEW w \in ViewType, w.rows = v.rows, w.known = v.known,
         NEW given, lag => given, given => own
  PROVE  /\ Typed(n, sub, con, own, given, "none", ch, w, ea)
         /\ Fits(n, sub, con, own, given, "none", ch, w, ea)
<1>1. Typed(n, sub, con, own, given, "none", ch, w, ea)
  BY DEF Typed
<1>2. PutBy(n, con, own, given, ch, w, ea)
  BY DEF Fits, PutBy
<1>3. Fits(n, sub, con, own, given, "none", ch, w, ea)
  BY <1>2 DEF Fits
<1> QED
  BY <1>1, <1>3

(* ... or while its answer, the i-th message, is on the way.               *)
LEMMA Voided ==
  ASSUME NEW n, NEW sub, NEW con, NEW own, NEW lag, NEW req, NEW ch, NEW v, NEW ea,
         Typed(n, sub, con, own, lag, req, ch, v, ea), Fits(n, sub, con, own, lag, req, ch, v, ea),
         NEW w \in ViewType, w.rows = v.rows, w.known = v.known,
         NEW i \in 1..Len(ch), ch[i].kind \in {"response", "replay", "refusal"},
         NEW given, lag => given, given => own, ch[i].kind = "response" => given
  PROVE  LET more == [ch EXCEPT ![i] = [kind |-> "ignored"]]
         IN  /\ Typed(n, sub, con, own, given, req, more, w, ea)
             /\ Fits(n, sub, con, own, given, req, more, w, ea)
<1> DEFINE m == [kind |-> "ignored"]
           more == [ch EXCEPT ![i] = m]
<1>1. m \in Messages /\ m.kind = "ignored"
  BY DEF Messages
<1> HIDE DEF m
<1>2. /\ ch \in Seq(Messages) /\ Len(ch) \in Nat
      /\ more \in Seq(Messages) /\ Len(more) = Len(ch) /\ more[i] = m
      /\ \A j \in 1..Len(ch) : j # i => more[j] = ch[j]
  BY <1>1 DEF Typed
<1> HIDE DEF more
<1>3. Typed(n, sub, con, own, given, req, more, w, ea)
  BY <1>2 DEF Typed
<1>4. \A j \in 1..Len(more) : more[j].kind # "ignored" => j \in 1..Len(ch) /\ more[j] = ch[j]
  BY <1>1, <1>2
<1>5. \A j \in 1..Len(more) : RowEvent(more[j]) => RowEvent(ch[j]) /\ more[j] = ch[j]
  BY <1>4 DEF RowEvent
<1>6. \A j \in 0..Len(ch) : Answered(ch, j) => given \/ Answered(more, j)
  <2>1. ASSUME NEW j \in 0..Len(ch), Answered(ch, j), ~given PROVE Answered(more, j)
    <3>1. PICK k \in 1..j : ch[k].kind = "response"
      BY <2>1 DEF Answered
    <3>2. k # i /\ k \in 1..Len(ch)
      BY <1>2, <2>1, <3>1
    <3> QED
      BY <1>2, <3>1, <3>2 DEF Answered
  <2> QED
    BY <2>1
<1>7. Answered(more, Len(more)) => Answered(ch, Len(ch))
  BY <1>2, <1>4 DEF Answered
<1>8. Len(ch) \in 0..Len(ch) /\ \A j \in 1..Len(ch) : j - 1 \in 0..Len(ch)
  BY <1>2
<1>9. \A j \in 1..Len(more) :
        RowEvent(more[j]) => sub /\ (given \/ w.known \/ Answered(more, j - 1))
  BY <1>2, <1>5, <1>6, <1>8 DEF Fits
<1>10. \A j \in 1..Len(more) :
         more[j].kind = "replay" => /\ w.known
                                    /\ Ascending(more[j].events)
                                    /\ StartsOver(more[j].events)
  BY <1>4 DEF Fits
<1>11. \A j \in 1..Len(more) : Below(more[j], n + 1)
  <2>1. Below(m, n + 1)
    BY <1>1 DEF Below
  <2> QED
    BY <1>2, <2>1 DEF Fits
<1>12. ASSUME NEW j \in 1..Len(more), NEW k \in 1..Len(more), j < k, more[k].kind = "event"
       PROVE  Below(more[j], more[k].number)
  <2>1. more[k] = ch[k] /\ k \in 1..Len(ch) /\ j \in 1..Len(ch)
    BY <1>2, <1>4, <1>12
  <2>2. Below(m, more[k].number)
    BY <1>1 DEF Below
  <2>3. Below(ch[j], more[k].number)
    BY <1>12, <2>1 DEF Fits
  <2> QED
    BY <1>2, <2>1, <2>2, <2>3
<1>13. \A k \in 1..Len(w.rows), j \in 1..Len(more) : RowEvent(more[j]) => w.rows[k] < more[j].number
  BY <1>2, <1>5 DEF Fits
<1>14. PutBy(n, con, own, given, more, w, ea)
  <2>1. PutBy(n, con, own, lag, ch, v, ea)
    BY DEF Fits
  <2>2. \A k : InPlace(k, ch, ea) => InPlace(k, more, ea)
    <3>1. \A j \in 1..Len(ch) : ch[j].kind = "event" => j \in 1..Len(more) /\ more[j] = ch[j]
      BY <1>2
    <3> QED
      BY <3>1 DEF InPlace
  <2>3. \A k \in 1..Len(ea) : \A j \in 1..Len(more) :
          more[j].kind = "event" => ea[k] < more[j].number
    BY <1>4, <2>1 DEF PutBy
  <2> QED
    BY <2>1, <2>2, <2>3 DEF PutBy
<1>15. ~con => more = <<>>
  BY <1>2 DEF Fits
<1>16. /\ Ascending(w.rows) /\ \A k \in 1..Len(w.rows) : w.rows[k] <= n
       /\ ~con => ~sub /\ req = "none"
       /\ (given => own) /\ (own => con) /\ (req = "subscribe" => w.known)
  BY DEF Fits
<1>17. /\ req = "start" \/ Answered(more, Len(more)) => own
       /\ sub => given \/ w.known \/ Answered(more, Len(more))
  BY <1>2, <1>6, <1>7, <1>8 DEF Fits
<1>18. Fits(n, sub, con, own, given, req, more, w, ea)
  BY <1>9, <1>10, <1>11, <1>12, <1>13, <1>14, <1>15, <1>16, <1>17 DEF Fits
<1> QED
  BY <1>3, <1>18 DEF more, m

(* A request given up is carried out.                                      *)
LEMMA SubscribedLate ==
  ASSUME NEW n, NEW sub, NEW con, NEW own, NEW lag, NEW req, NEW ch, NEW v, NEW ea,
         Typed(n, sub, con, own, lag, req, ch, v, ea), Fits(n, sub, con, own, lag, req, ch, v, ea),
         con, NEW t \in BOOLEAN, sub => t, t => sub \/ lag \/ v.known
  PROVE  /\ Typed(n, t, con, own, lag, req, ch, v, ea)
         /\ Fits(n, t, con, own, lag, req, ch, v, ea)
BY DEF Typed, Fits

(* The socket closes; the status may turn to failed.                       *)
LEMMA Lost ==
  ASSUME NEW n, NEW sub, NEW con, NEW own, NEW lag, NEW req, NEW ch, NEW v, NEW ea,
         NEW w \in ViewType,
         Typed(n, sub, con, own, lag, req, ch, v, ea), Fits(n, sub, con, own, lag, req, ch, v, ea),
         w.rows = v.rows
  PROVE  /\ Typed(n, FALSE, FALSE, FALSE, FALSE, "none", <<>>, w, ea)
         /\ Fits(n, FALSE, FALSE, FALSE, FALSE, "none", <<>>, w, ea)
<1>1. <<>> \in Seq(Messages) /\ \A i \in 1..Len(<<>>) : FALSE
  OBVIOUS
<1>2. Typed(n, FALSE, FALSE, FALSE, FALSE, "none", <<>>, w, ea)
  BY <1>1 DEF Typed
<1>3. PutBy(n, FALSE, FALSE, FALSE, <<>>, w, ea)
  BY <1>1 DEF Fits, PutBy
<1>4. Fits(n, FALSE, FALSE, FALSE, FALSE, "none", <<>>, w, ea)
  BY <1>1, <1>3 DEF Fits, Answered
<1> QED
  BY <1>2, <1>4

(* It opens again, or for the first time, before anything is out: the      *)
(* store is empty.                                                         *)
LEMMA Fresh ==
  ASSUME NEW n \in 0..Len(Stream), NEW own, NEW req \in {"none", "start"},
         own => n = 0, req = "start" => own
  PROVE  /\ Typed(n, FALSE, TRUE, own, FALSE, req, <<>>, Unknown, <<>>)
         /\ Fits(n, FALSE, TRUE, own, FALSE, req, <<>>, Unknown, <<>>)
<1>1. /\ <<>> \in Seq(Messages) /\ <<>> \in Seq(Numbers)
      /\ \A i \in 1..Len(<<>>) : FALSE
  OBVIOUS
<1>2. Typed(n, FALSE, TRUE, own, FALSE, req, <<>>, Unknown, <<>>)
  BY <1>1, QueuedIs DEF Typed
<1>3. Ascending(Unknown.rows) /\ \A i \in 1..Len(Unknown.rows) : FALSE
  BY QueuedIs DEF Ascending
<1>4. PutBy(n, TRUE, own, FALSE, <<>>, Unknown, <<>>)
  BY <1>1 DEF PutBy, Ascending, StartsOver
<1>5. Fits(n, FALSE, TRUE, own, FALSE, req, <<>>, Unknown, <<>>)
  BY <1>1, <1>3, <1>4 DEF Fits, Answered
<1> QED
  BY <1>2, <1>5

-----------------------------------------------------------------------------
(* The inductive invariant: every client's part fits.                      *)

(* The starter, on its first socket, and having given up its start.        *)
Own(c) == c = Starter /\ "socket" \notin mishaps
Lag(c) == Own(c) /\ "start" \in mishaps

(* What the server has still to carry out is asked on an open socket, by a *)
(* starter that gave up its start or by somebody who shows the execution.  *)
Asked == {"start", "subscribe"}
LateOK(c) ==
  \A what \in Asked : <<c, what>> \in late => /\ c \in connected
                                              /\ what = "start" => Lag(c)
                                              /\ what = "subscribe" => view[c].known

ClientOK(c) ==
  /\ Typed(emitted, c \in subscribed, c \in connected, Own(c), Lag(c), request[c], channel[c],
           view[c], early[c])
  /\ Fits(emitted, c \in subscribed, c \in connected, Own(c), Lag(c), request[c], channel[c],
          view[c], early[c])
  /\ LateOK(c)

Fitting == TypeOK /\ \A c \in Clients : ClientOK(c)

LEMMA FittingInit == Init => Fitting
<1> SUFFICES ASSUME Init PROVE Fitting
  OBVIOUS
<1> Len(Stream) \in Nat
  BY ConstantsAssumption
<1>1. TypeOK
  <2>1. <<>> \in Seq(Messages) /\ <<>> \in Seq(Numbers)
    OBVIOUS
  <2>2. Unknown \in [known : BOOLEAN, status : Statuses, rows : Seq(Numbers), progress : Nat]
    BY QueuedIs DEF ViewType
  <2>3. 0 \in 0..MaxOpens /\ 0 \in 0..MaxFaults /\ 0 \in 0..Len(Stream)
    BY ConstantsAssumption
  <2> QED
    BY <2>1, <2>2, <2>3 DEF Init, TypeOK
<1>2. ASSUME NEW c \in Clients PROVE ClientOK(c)
  <2>1. 0 \in 0..Len(Stream) /\ request[c] \in {"none", "start"} /\ (request[c] = "start" => Own(c))
    BY DEF Init, Own
  <2>2. emitted = 0 /\ ~(c \in subscribed) /\ c \in connected
        /\ channel[c] = <<>> /\ view[c] = Unknown /\ early[c] = <<>>
    BY DEF Init
  <2>3. (c \in subscribed) = FALSE /\ (c \in connected) = TRUE /\ Lag(c) = FALSE
    BY <2>2 DEF Lag, Init
  <2>4. LateOK(c)
    BY DEF LateOK, Init
  <2> QED
    BY <2>1, <2>2, <2>3, <2>4, Fresh DEF ClientOK
<1> QED
  BY <1>1, <1>2 DEF Fitting

(* A client whose part does not change.                                    *)
LEMMA Untouched ==
  ASSUME NEW c \in Clients, ClientOK(c), emitted' = emitted,
         c \in subscribed' <=> c \in subscribed, c \in connected' <=> c \in connected,
         c = Starter => mishaps' = mishaps,
         \A what \in Asked : <<c, what>> \in late' => <<c, what>> \in late,
         request'[c] = request[c], channel'[c] = channel[c],
         view'[c] = view[c], early'[c] = early[c]
  PROVE  ClientOK(c)'
<1>1. (c \in subscribed') = (c \in subscribed) /\ (c \in connected') = (c \in connected)
  OBVIOUS
<1>2. Own(c)' = Own(c) /\ Lag(c)' = Lag(c)
  BY DEF Own, Lag
<1>3. LateOK(c)'
  BY <1>1, <1>2 DEF ClientOK, LateOK
<1> QED
  BY <1>1, <1>2, <1>3 DEF ClientOK

(* A step of one client, whose new part fits.                              *)
OnlyOf(d) ==
  /\ subscribed' \in {subscribed, subscribed \cup {d}, subscribed \ {d}}
  /\ connected' \in {connected, connected \cup {d}, connected \ {d}}
  /\ request' = [request EXCEPT ![d] = request'[d]]
  /\ channel' = [channel EXCEPT ![d] = channel'[d]]
  /\ view' = [view EXCEPT ![d] = view'[d]]
  /\ early' = [early EXCEPT ![d] = early'[d]]
  /\ late' \in {late} \cup {late \cup {<<d, what>>} : what \in Asked}
                    \cup {late \ {<<d, what>>} : what \in Asked}
  /\ d # Starter => mishaps' = mishaps
  /\ mishaps' \subseteq {"socket", "refusal", "start", "open"}
  /\ emitted' = emitted /\ forgotten' = forgotten
  /\ opens' \in 0..MaxOpens
  /\ faults' \in 0..MaxFaults

LEMMA LocalStep ==
  ASSUME Fitting, NEW d \in Clients, OnlyOf(d), ClientOK(d)' PROVE Fitting'
<1>1. \A c \in Clients \ {d} : /\ request'[c] = request[c] /\ channel'[c] = channel[c]
                               /\ view'[c] = view[c] /\ early'[c] = early[c]
  BY DEF OnlyOf, Fitting, TypeOK
<1>2. ASSUME NEW c \in Clients \ {d} PROVE ClientOK(c)'
  <2>1. (c \in subscribed' <=> c \in subscribed) /\ (c \in connected' <=> c \in connected)
    BY DEF OnlyOf
  <2>2. /\ c = Starter => mishaps' = mishaps
        /\ \A what \in Asked : <<c, what>> \in late' => <<c, what>> \in late
    BY DEF OnlyOf
  <2> QED
    BY <1>1, <2>1, <2>2, Untouched DEF OnlyOf, Fitting
<1>3. /\ request'[d] \in {"none", "start", "subscribe"} /\ channel'[d] \in Seq(Messages)
      /\ view'[d] \in ViewType /\ early'[d] \in Seq(Numbers)
  BY DEF ClientOK, Typed
<1>4. subscribed' \subseteq Clients /\ connected' \subseteq Clients
  BY DEF OnlyOf, Fitting, TypeOK
<1>5. late' \subseteq Clients \X {"start", "subscribe"}
  BY DEF OnlyOf, Fitting, TypeOK, Asked
<1>6. /\ request' \in [Clients -> {"none", "start", "subscribe"}]
      /\ channel' \in [Clients -> Seq(Messages)]
      /\ early' \in [Clients -> Seq(Numbers)]
      /\ view' \in [Clients -> ViewType]
  BY <1>3 DEF OnlyOf, Fitting, TypeOK, ViewType
<1>7. TypeOK'
  <2>1. /\ emitted' \in 0..Len(Stream) /\ forgotten' \in BOOLEAN
        /\ mishaps' \subseteq {"socket", "refusal", "start", "open"}
        /\ opens' \in 0..MaxOpens /\ faults' \in 0..MaxFaults
    BY DEF OnlyOf, Fitting, TypeOK
  <2> QED
    BY <1>4, <1>5, <1>6, <2>1 DEF TypeOK, ViewType
<1> QED
  BY <1>2, <1>7 DEF Fitting

(* What is carried out late stays right while the client shows the         *)
(* execution and its socket is open.                                       *)
LEMMA StillLate ==
  ASSUME NEW d \in Clients, LateOK(d), late' \subseteq late, connected' = connected,
         mishaps \subseteq mishaps', "socket" \in mishaps' => "socket" \in mishaps,
         view[d].known => view'[d].known
  PROVE  LateOK(d)'
BY DEF LateOK, Lag, Own

(* A function whose value at d is set to what it is.                       *)
LEMMA SetToItself ==
  ASSUME NEW S, NEW T, NEW f \in [S -> T], NEW d \in S
  PROVE  [f EXCEPT ![d] = f[d]] = f
OBVIOUS

LEMMA Stays ==
  ASSUME TypeOK, NEW d \in Clients
  PROVE  /\ [request EXCEPT ![d] = request[d]] = request
         /\ [channel EXCEPT ![d] = channel[d]] = channel
         /\ [view EXCEPT ![d] = view[d]] = view
         /\ [early EXCEPT ![d] = early[d]] = early
         /\ mishaps \subseteq {"socket", "refusal", "start", "open"}
         /\ opens \in 0..MaxOpens /\ faults \in 0..MaxFaults /\ forgotten \in BOOLEAN
BY SetToItself DEF TypeOK

LEMMA EmitFits == Fitting /\ Emit => Fitting'
<1> SUFFICES ASSUME Fitting, Emit PROVE Fitting'
  OBVIOUS
<1> USE DEF Fitting
<1> Len(Stream) \in Nat /\ emitted \in Nat /\ emitted + 1 \in Numbers
  BY ConstantsAssumption DEF TypeOK, Emit, Numbers
<1> DEFINE m == [kind |-> "event", number |-> emitted + 1]
<1>1. m \in Messages
  BY DEF Messages
<1>2. channel' = [c \in Clients |-> IF c \in Receivers(emitted + 1) THEN Append(channel[c], m)
                                    ELSE channel[c]]
  BY DEF Emit, SendTo
<1>3. /\ emitted' = emitted + 1 /\ subscribed' = subscribed /\ connected' = connected
      /\ request' = request /\ view' = view /\ early' = early
      /\ late' = late /\ mishaps' = mishaps /\ emitted < Len(Stream)
      /\ UNCHANGED <<forgotten, opens, faults>>
  BY DEF Emit
<1>4. ASSUME NEW c \in Clients PROVE ClientOK(c)'
  <2>1. /\ ClientOK(c) /\ Own(c)' = Own(c) /\ Lag(c)' = Lag(c)
        /\ ClientOK(c) => LateOK(c) /\ LateOK(c)'
    BY <1>3, StillLate DEF Own, Lag, ClientOK
  <2>2. CASE c \in Receivers(emitted + 1)
    <3>1. c \in connected /\ (IsRows(emitted + 1) => c \in subscribed)
      BY <2>2 DEF Receivers
    <3>2. channel'[c] = Append(channel[c], m)
      BY <1>2, <2>2
    <3>3. /\ Typed(emitted + 1, c \in subscribed, c \in connected, Own(c), Lag(c), request[c],
                   Append(channel[c], m), view[c], early[c])
          /\ Fits(emitted + 1, c \in subscribed, c \in connected, Own(c), Lag(c), request[c],
                  Append(channel[c], m), view[c], early[c])
      BY <1>3, <2>1, <3>1, EventSent DEF ClientOK
    <3> HIDE DEF m
    <3> QED
      BY <1>3, <2>1, <3>2, <3>3 DEF ClientOK
  <2>3. CASE c \notin Receivers(emitted + 1)
    <3>1. channel'[c] = channel[c]
      BY <1>2, <2>3
    <3>2. /\ Typed(emitted + 1, c \in subscribed, c \in connected, Own(c), Lag(c), request[c],
                   channel[c], view[c], early[c])
          /\ Fits(emitted + 1, c \in subscribed, c \in connected, Own(c), Lag(c), request[c],
                  channel[c], view[c], early[c])
      <4>1. Own(c) => IsRows(emitted + 1)
        BY <2>1, <2>3 DEF Receivers, ClientOK, Fits
      <4> QED
        BY <1>3, <2>1, <4>1, EventNotSent DEF ClientOK
    <3> QED
      BY <1>3, <2>1, <3>1, <3>2 DEF ClientOK
  <2> QED
    BY <2>2, <2>3
<1>5. channel' \in [Clients -> Seq(Messages)]
  <2>1. \A c \in Clients : channel'[c] \in Seq(Messages)
    BY <1>4 DEF ClientOK, Typed
  <2> QED
    BY <1>2, <2>1
<1>6. TypeOK'
  BY <1>3, <1>5 DEF TypeOK
<1> QED
  BY <1>4, <1>6

(* SendTo to one client is a step of that client.                          *)
LEMMA SentToOne ==
  ASSUME TypeOK, NEW d \in Clients, NEW m, SendTo({d}, m)
  PROVE  channel' = [channel EXCEPT ![d] = Append(channel[d], m)]
BY DEF TypeOK, SendTo

(* The server answers one client, subscribing it or not.                   *)
LEMMA AnswerFits ==
  ASSUME Fitting, NEW d \in Clients, d \in connected, NEW m \in Messages, SendTo({d}, m),
         request' = [request EXCEPT ![d] = "none"],
         subscribed' \in {subscribed, subscribed \cup {d}},
         d \in subscribed' => d \in subscribed \/ view[d].known \/ m.kind = "response",
         \/ m.kind = "response" /\ Own(d)
         \/ /\ m.kind = "replay" /\ view[d].known /\ Below(m, emitted + 1)
            /\ Ascending(m.events) /\ StartsOver(m.events)
         \/ m.kind = "refusal",
         d # Starter => mishaps' = mishaps, mishaps' \in {mishaps, mishaps \cup {"refusal"}},
         UNCHANGED <<emitted, forgotten, connected, late, view, early, opens, faults>>
  PROVE  Fitting'
<1>1. TypeOK /\ ClientOK(d)
  BY DEF Fitting
<1>2. channel' = [channel EXCEPT ![d] = Append(channel[d], m)]
  BY <1>1, SentToOne
<1>3. /\ Typed(emitted, d \in subscribed', d \in connected, Own(d), Lag(d), "none",
               Append(channel[d], m), view[d], early[d])
      /\ Fits(emitted, d \in subscribed', d \in connected, Own(d), Lag(d), "none",
              Append(channel[d], m), view[d], early[d])
  <2> DEFINE sub == d \in subscribed
             own == Own(d)
             lag == Lag(d)
             con == d \in connected
  <2>1. /\ Typed(emitted, sub, con, own, lag, request[d], channel[d], view[d], early[d])
        /\ Fits(emitted, sub, con, own, lag, request[d], channel[d], view[d], early[d])
        /\ con /\ sub \in BOOLEAN
    BY <1>1 DEF ClientOK
  <2>2. \/ m.kind = "response" /\ own
        \/ /\ m.kind = "replay" /\ view[d].known /\ Below(m, emitted + 1)
           /\ Ascending(m.events) /\ StartsOver(m.events)
        \/ m.kind = "refusal"
    OBVIOUS
  <2>3. CASE d \in subscribed'
    <3>1. sub \/ view[d].known \/ m.kind = "response"
      BY <2>3
    <3>2. (d \in subscribed') = TRUE
      BY <2>3
    <3> HIDE DEF sub, own, lag, con
    <3>3. /\ Typed(emitted, TRUE, con, own, lag, "none", Append(channel[d], m), view[d], early[d])
          /\ Fits(emitted, TRUE, con, own, lag, "none", Append(channel[d], m), view[d], early[d])
      BY <2>1, <2>2, <3>1, AnswerSent
    <3> QED
      BY <3>2, <3>3 DEF own, lag, con
  <2>4. CASE d \notin subscribed'
    <3>1. (d \in subscribed') = sub
      BY <2>4
    <3> HIDE DEF sub, own, lag, con
    <3>2. /\ Typed(emitted, sub, con, own, lag, "none", Append(channel[d], m), view[d], early[d])
          /\ Fits(emitted, sub, con, own, lag, "none", Append(channel[d], m), view[d], early[d])
      BY <2>1, <2>2, AnswerSentOnly
    <3> QED
      BY <3>1, <3>2 DEF own, lag, con
  <2> QED
    BY <2>3, <2>4
<1>4. /\ request'[d] = "none" /\ channel'[d] = Append(channel[d], m)
      /\ view'[d] = view[d] /\ early'[d] = early[d] /\ connected' = connected
      /\ emitted' = emitted /\ Own(d)' = Own(d) /\ Lag(d)' = Lag(d)
  BY <1>1, <1>2 DEF TypeOK, Own, Lag
<1>5. LateOK(d)'
  BY <1>1, <1>4, StillLate DEF ClientOK
<1>6. ClientOK(d)'
  BY <1>3, <1>4, <1>5 DEF ClientOK
<1>7. OnlyOf(d)
  BY <1>1, <1>2, <1>4, Stays DEF OnlyOf
<1> QED
  BY <1>6, <1>7, LocalStep

LEMMA RespondStartFits == Fitting /\ RespondStart => Fitting'
<1> SUFFICES ASSUME Fitting, RespondStart PROVE Fitting'
  OBVIOUS
<1> DEFINE m == [kind |-> "response"]
<1>1. Starter \in Clients /\ ClientOK(Starter)
  BY ConstantsAssumption DEF Fitting
<1>2. m \in Messages /\ m.kind = "response"
  BY DEF Messages
<1>3. /\ Starter \in connected /\ SendTo({Starter}, m) /\ request[Starter] = "start"
      /\ request' = [request EXCEPT ![Starter] = "none"]
      /\ subscribed' = subscribed \cup {Starter} /\ mishaps' = mishaps
      /\ UNCHANGED <<emitted, forgotten, connected, late, view, early, opens, faults>>
  BY DEF RespondStart
<1>4. Own(Starter)
  BY <1>1, <1>3 DEF ClientOK, Fits
<1> HIDE DEF m
<1> QED
  BY <1>1, <1>2, <1>3, <1>4, AnswerFits

LEMMA RespondSubscribeFits ==
  ASSUME Fitting, NEW d \in Clients, RespondSubscribe(d) PROVE Fitting'
<1> DEFINE m == [kind |-> "replay", events |-> Replay]
<1>1. TypeOK /\ ClientOK(d)
  BY DEF Fitting
<1>2. /\ d \in connected /\ SendTo({d}, m) /\ request[d] = "subscribe"
      /\ request' = [request EXCEPT ![d] = "none"]
      /\ subscribed' = subscribed \cup {d} /\ mishaps' = mishaps
      /\ UNCHANGED <<emitted, forgotten, connected, late, view, early, opens, faults>>
  BY DEF RespondSubscribe
<1>3. /\ m \in Messages /\ m.kind = "replay" /\ Below(m, emitted + 1)
      /\ Ascending(m.events) /\ StartsOver(m.events)
  <2>1. /\ emitted \in 0..Len(Stream) /\ Len(Stream) \in Nat
    BY <1>1, ConstantsAssumption DEF TypeOK
  <2>2. Replay \in Seq(1..emitted) /\ Ascending(Replay) /\ StartsOver(Replay)
    BY <2>1, ReplayIs
  <2> DEFINE s == Replay
  <2>3. s \in Seq(Numbers) /\ \A k \in 1..Len(s) : s[k] < emitted + 1
    <3>1. s \in Seq(1..emitted)
      BY <2>2
    <3> HIDE DEF s
    <3> QED
      BY <2>1, <3>1 DEF Numbers
  <2>4. Ascending(s) /\ StartsOver(s)
    BY <2>2
  <2> HIDE DEF s
  <2>5. /\ [kind |-> "replay", events |-> s] \in Messages
        /\ [kind |-> "replay", events |-> s].kind = "replay"
        /\ [kind |-> "replay", events |-> s].events = s
    BY <2>3 DEF Messages
  <2>6. Below([kind |-> "replay", events |-> s], emitted + 1)
    BY <2>3, <2>5 DEF Below
  <2> QED
    BY <2>4, <2>5, <2>6 DEF s
<1>4. view[d].known
  BY <1>1, <1>2 DEF ClientOK, Fits
<1> HIDE DEF m
<1> QED
  BY <1>2, <1>3, <1>4, AnswerFits

LEMMA RefuseSubscribeFits ==
  ASSUME Fitting, NEW d \in Clients, RefuseSubscribe(d) PROVE Fitting'
<1> DEFINE m == [kind |-> "refusal"]
<1>1. m \in Messages /\ m.kind = "refusal"
  BY DEF Messages
<1>2. /\ d \in connected /\ SendTo({d}, m)
      /\ request' = [request EXCEPT ![d] = "none"] /\ subscribed' = subscribed
      /\ d # Starter => mishaps' = mishaps
      /\ mishaps' \in {mishaps, mishaps \cup {"refusal"}}
      /\ UNCHANGED <<emitted, forgotten, connected, late, view, early, opens, faults>>
  BY DEF RefuseSubscribe, Mishap
<1> HIDE DEF m
<1> QED
  BY <1>1, <1>2, AnswerFits

LEMMA CarryOutLateFits ==
  ASSUME Fitting, NEW d \in Clients, NEW what \in {"start", "subscribe"}, CarryOutLate(d, what)
  PROVE  Fitting'
<1>1. TypeOK /\ ClientOK(d)
  BY DEF Fitting
<1>2. /\ <<d, what>> \in late /\ late' = late \ {<<d, what>>} /\ what \in Asked
      /\ subscribed' \in {subscribed, subscribed \cup {d}}
      /\ UNCHANGED <<emitted, forgotten, connected, request, channel, view, early, mishaps, opens,
                     faults>>
  BY DEF CarryOutLate, Asked
<1>3. d \in connected /\ (Lag(d) \/ view[d].known)
  BY <1>1, <1>2 DEF ClientOK, LateOK, Asked
<1>4. /\ Typed(emitted, d \in subscribed', d \in connected, Own(d), Lag(d), request[d], channel[d],
               view[d], early[d])
      /\ Fits(emitted, d \in subscribed', d \in connected, Own(d), Lag(d), request[d], channel[d],
              view[d], early[d])
  <2> DEFINE t == d \in subscribed'
  <2>1. t \in BOOLEAN /\ (d \in subscribed => t)
    BY <1>2
  <2>2. /\ Typed(emitted, d \in subscribed, d \in connected, Own(d), Lag(d), request[d],
                 channel[d], view[d], early[d])
        /\ Fits(emitted, d \in subscribed, d \in connected, Own(d), Lag(d), request[d],
                channel[d], view[d], early[d])
    BY <1>1 DEF ClientOK
  <2> HIDE DEF t
  <2>3. /\ Typed(emitted, t, d \in connected, Own(d), Lag(d), request[d], channel[d], view[d],
                 early[d])
        /\ Fits(emitted, t, d \in connected, Own(d), Lag(d), request[d], channel[d], view[d],
                early[d])
    BY <1>3, <2>1, <2>2, SubscribedLate
  <2> QED
    BY <2>3 DEF t
<1>5. Own(d)' = Own(d) /\ Lag(d)' = Lag(d)
  BY <1>2 DEF Own, Lag
<1>6. LateOK(d)'
  BY <1>1, <1>2, StillLate DEF ClientOK
<1>7. ClientOK(d)'
  BY <1>2, <1>4, <1>5, <1>6 DEF ClientOK
<1>8. OnlyOf(d)
  BY <1>1, <1>2, Stays DEF OnlyOf
<1> QED
  BY <1>7, <1>8, LocalStep

(* A message is taken off the channel, and nothing else of the client but  *)
(* its view and what it has put by changes.                                *)
LEMMA TakenOff ==
  ASSUME Fitting, NEW d \in Clients, Take(d), channel[d] # <<>>, NEW w, NEW put,
         Typed(emitted, d \in subscribed, d \in connected, Own(d), Lag(d), request[d],
               Tail(channel[d]), w, put),
         Fits(emitted, d \in subscribed, d \in connected, Own(d), Lag(d), request[d],
              Tail(channel[d]), w, put),
         view[d].known => w.known,
         UNCHANGED <<emitted, forgotten, subscribed, connected, request, late, mishaps, opens,
                     faults>>,
         view' = [view EXCEPT ![d] = w], early' = [early EXCEPT ![d] = put]
  PROVE  Fitting'
<1>1. TypeOK /\ ClientOK(d)
  BY DEF Fitting
<1>2. channel' = [channel EXCEPT ![d] = Tail(channel[d])]
  BY DEF Take
<1>3. view'[d] = w /\ early'[d] = put /\ channel'[d] = Tail(channel[d])
  BY <1>1, <1>2 DEF TypeOK
<1>4. Own(d)' = Own(d) /\ Lag(d)' = Lag(d)
  BY DEF Own, Lag
<1>5. LateOK(d)'
  BY <1>1, <1>3, StillLate DEF ClientOK
<1>6. ClientOK(d)'
  BY <1>3, <1>4, <1>5 DEF ClientOK
<1>7. OnlyOf(d)
  BY <1>1, <1>2, <1>3, Stays DEF OnlyOf
<1> QED
  BY <1>6, <1>7, LocalStep

LEMMA ReceiveEventFits ==
  ASSUME Fitting, NEW d \in Clients, ReceiveEvent(d) PROVE Fitting'
<1>1. TypeOK /\ ClientOK(d)
  BY DEF Fitting
<1>2. /\ channel[d] # <<>> /\ Head(channel[d]).kind = "event" /\ Take(d)
      /\ UNCHANGED <<emitted, forgotten, subscribed, connected, request, late, mishaps, opens,
                     faults>>
  BY DEF ReceiveEvent
<1>3. CASE view[d].known
  <2> DEFINE w == Apply(view[d], Head(channel[d]).number)
  <2>1. view' = [view EXCEPT ![d] = w] /\ early' = early
    BY <1>3 DEF ReceiveEvent
  <2>2. early' = [early EXCEPT ![d] = early[d]]
    BY <1>1, <2>1, Stays
  <2>3. /\ Typed(emitted, d \in subscribed, d \in connected, Own(d), Lag(d), request[d],
                 Tail(channel[d]), w, early[d])
        /\ Fits(emitted, d \in subscribed, d \in connected, Own(d), Lag(d), request[d],
                Tail(channel[d]), w, early[d])
    BY <1>1, <1>2, <1>3, EventShown DEF ClientOK
  <2>4. w.known = view[d].known
    <3>1. view[d] \in ViewType /\ Head(channel[d]).number \in Numbers
      BY <1>1, <1>2, ShorterChannel, MessageIs DEF ClientOK, Typed
    <3> QED
      BY <3>1, Applied
  <2> HIDE DEF w
  <2> QED
    BY <1>2, <2>1, <2>2, <2>3, <2>4, TakenOff
<1>4. CASE ~view[d].known
  <2> DEFINE put == IF Len(early[d]) < EarlyCap THEN Append(early[d], Head(channel[d]).number)
                    ELSE early[d]
  <2>1. early' = [early EXCEPT ![d] = put] /\ view' = view
    BY <1>4 DEF ReceiveEvent
  <2>2. view' = [view EXCEPT ![d] = view[d]]
    BY <1>1, <2>1, Stays
  <2>3. /\ Typed(emitted, d \in subscribed, d \in connected, Own(d), Lag(d), request[d],
                 Tail(channel[d]), view[d], put)
        /\ Fits(emitted, d \in subscribed, d \in connected, Own(d), Lag(d), request[d],
                Tail(channel[d]), view[d], put)
    BY <1>1, <1>2, <1>4, EventPutBy DEF ClientOK
  <2> HIDE DEF put
  <2> QED
    BY <1>2, <2>1, <2>2, <2>3, TakenOff
<1> QED
  BY <1>3, <1>4

LEMMA ReceiveResponseFits ==
  ASSUME Fitting, NEW d \in Clients, ReceiveResponse(d) PROVE Fitting'
<1> DEFINE w == ApplyAll(Queued, early[d])
<1>1. TypeOK /\ ClientOK(d)
  BY DEF Fitting
<1>2. /\ channel[d] # <<>> /\ Head(channel[d]).kind = "response" /\ Take(d)
      /\ view' = [view EXCEPT ![d] = w] /\ early' = [early EXCEPT ![d] = <<>>]
      /\ UNCHANGED <<emitted, forgotten, subscribed, connected, request, late, mishaps, opens,
                     faults>>
  BY DEF ReceiveResponse
<1>3. /\ Typed(emitted, d \in subscribed, d \in connected, Own(d), Lag(d), request[d],
               Tail(channel[d]), w, <<>>)
      /\ Fits(emitted, d \in subscribed, d \in connected, Own(d), Lag(d), request[d],
              Tail(channel[d]), w, <<>>)
  BY <1>1, <1>2, ResponseTaken DEF ClientOK
<1>4. w.known
  BY <1>1, QueuedIs, ApplyAllType DEF ClientOK, Typed
<1> HIDE DEF w
<1> QED
  BY <1>2, <1>3, <1>4, TakenOff

LEMMA ReceiveReplayFits ==
  ASSUME Fitting, NEW d \in Clients, ReceiveReplay(d) PROVE Fitting'
<1> DEFINE s == Head(channel[d]).events \o early[d]
           w == ApplyAll(view[d], s)
<1>1. TypeOK /\ ClientOK(d)
  BY DEF Fitting
<1>2. /\ channel[d] # <<>> /\ Head(channel[d]).kind = "replay" /\ Take(d)
      /\ view' = [view EXCEPT ![d] = w] /\ early' = [early EXCEPT ![d] = <<>>]
      /\ UNCHANGED <<emitted, forgotten, subscribed, connected, request, late, mishaps, opens,
                     faults>>
  BY DEF ReceiveReplay
<1>3. /\ Typed(emitted, d \in subscribed, d \in connected, Own(d), Lag(d), request[d],
               Tail(channel[d]), w, <<>>)
      /\ Fits(emitted, d \in subscribed, d \in connected, Own(d), Lag(d), request[d],
              Tail(channel[d]), w, <<>>)
  BY <1>1, <1>2, ReplayTaken DEF ClientOK
<1>4. w.known = view[d].known
  <2>1. view[d] \in ViewType /\ early[d] \in Seq(Numbers)
        /\ Head(channel[d]).events \in Seq(Numbers)
    BY <1>1, <1>2, ShorterChannel, MessageIs DEF ClientOK, Typed
  <2>2. s \in Seq(Numbers)
    BY <2>1
  <2> HIDE DEF s
  <2> QED
    BY <2>1, <2>2, ApplyAllType
<1> HIDE DEF w
<1> QED
  BY <1>2, <1>3, <1>4, TakenOff

(* A refusal, or an answer nobody waits for.                               *)
LEMMA ReceiveSilentFits ==
  ASSUME Fitting, NEW d \in Clients, ReceiveRefusal(d) \/ ReceiveIgnored(d) PROVE Fitting'
<1>1. TypeOK /\ ClientOK(d)
  BY DEF Fitting
<1>2. /\ channel[d] # <<>> /\ Head(channel[d]).kind \in {"refusal", "ignored"} /\ Take(d)
      /\ UNCHANGED <<emitted, forgotten, subscribed, connected, request, late, early, mishaps,
                     opens, faults>>
  BY DEF ReceiveRefusal, ReceiveIgnored
<1>3. PICK status \in Statuses : view' = [view EXCEPT ![d] = [view[d] EXCEPT !.status = status]]
  <2>1. view[d] \in ViewType
    BY <1>1 DEF ClientOK, Typed
  <2>2. CASE ReceiveRefusal(d)
    <3> DEFINE status == IF view[d].known THEN "failed" ELSE view[d].status
    <3>1. status \in Statuses
      BY <2>1 DEF ViewType, Statuses
    <3>2. view' = [view EXCEPT ![d] = [view[d] EXCEPT !.status = status]]
      BY <2>2 DEF ReceiveRefusal
    <3> HIDE DEF status
    <3> QED
      BY <3>1, <3>2
  <2>3. CASE ReceiveIgnored(d)
    <3>1. [view[d] EXCEPT !.status = view[d].status] = view[d] /\ view[d].status \in Statuses
      BY <2>1 DEF ViewType
    <3>2. view' = [view EXCEPT ![d] = view[d]]
      BY <1>1, <2>3, Stays DEF ReceiveIgnored
    <3> QED
      BY <3>1, <3>2
  <2> QED
    BY <2>2, <2>3
<1> DEFINE w == [view[d] EXCEPT !.status = status]
<1>4. w \in ViewType /\ w.rows = view[d].rows /\ w.known = view[d].known
  BY <1>1, <1>3 DEF ClientOK, Typed, ViewType
<1>5. view' = [view EXCEPT ![d] = w] /\ early' = [early EXCEPT ![d] = early[d]]
  BY <1>1, <1>2, <1>3, Stays
<1> HIDE DEF w
<1>6. /\ Typed(emitted, d \in subscribed, d \in connected, Own(d), Lag(d), request[d],
               Tail(channel[d]), w, early[d])
      /\ Fits(emitted, d \in subscribed, d \in connected, Own(d), Lag(d), request[d],
              Tail(channel[d]), w, early[d])
  BY <1>1, <1>2, <1>4, SilentTaken DEF ClientOK
<1> QED
  BY <1>2, <1>4, <1>5, <1>6, TakenOff

LEMMA OpenFits ==
  ASSUME Fitting, NEW d \in Clients, Open(d) PROVE Fitting'
<1> DEFINE w == IF view[d].known THEN view[d] ELSE Queued
<1>1. TypeOK /\ ClientOK(d)
  BY DEF Fitting
<1>2. /\ d \in connected /\ opens < MaxOpens /\ opens' = opens + 1
      /\ request' = [request EXCEPT ![d] = "subscribe"] /\ view' = [view EXCEPT ![d] = w]
      /\ UNCHANGED <<emitted, forgotten, subscribed, connected, late, channel, early, mishaps,
                     faults>>
  BY DEF Open
<1>3. view'[d] = w /\ request'[d] = "subscribe" /\ early'[d] = early[d] /\ channel'[d] = channel[d]
  BY <1>1, <1>2 DEF TypeOK
<1>4. /\ Typed(emitted, d \in subscribed, d \in connected, Own(d), Lag(d), "subscribe", channel[d],
               w, early[d])
      /\ Fits(emitted, d \in subscribed, d \in connected, Own(d), Lag(d), "subscribe", channel[d],
              w, early[d])
  BY <1>1, <1>2, Opened DEF ClientOK
<1>5. view[d].known => w.known
  OBVIOUS
<1> HIDE DEF w
<1>6. Own(d)' = Own(d) /\ Lag(d)' = Lag(d)
  BY <1>2 DEF Own, Lag
<1>7. LateOK(d)'
  BY <1>1, <1>2, <1>3, <1>5, StillLate DEF ClientOK
<1>8. ClientOK(d)'
  BY <1>2, <1>3, <1>4, <1>6, <1>7 DEF ClientOK
<1>9. opens' \in 0..MaxOpens
  BY <1>1, <1>2, ConstantsAssumption DEF TypeOK
<1>10. OnlyOf(d)
  BY <1>1, <1>2, <1>3, <1>9, Stays DEF OnlyOf
<1> QED
  BY <1>8, <1>10, LocalStep

(* What giving up a request changes, whether or not it was answered.       *)
LEMMA GivesUp ==
  ASSUME TypeOK, NEW d \in Clients, ClientOK(d), NEW what \in {"start", "open"}, GiveUp(d, what),
         what = "start" => Own(d)
  PROVE  /\ view' = [view EXCEPT ![d] = view'[d]]
         /\ view'[d] \in ViewType /\ view'[d].rows = view[d].rows /\ view'[d].known = view[d].known
         /\ early' = [early EXCEPT ![d] = early'[d]] /\ early'[d] = early[d]
         /\ Own(d)' = Own(d) /\ (Lag(d) => Lag(d)') /\ (Lag(d)' => Own(d))
         /\ (what = "start" => Lag(d)')
         /\ mishaps \subseteq mishaps' /\ ("socket" \in mishaps' => "socket" \in mishaps)
         /\ d # Starter => mishaps' = mishaps
         /\ mishaps' \subseteq {"socket", "refusal", "start", "open"}
         /\ faults' \in 0..MaxFaults /\ opens' \in 0..MaxOpens
         /\ UNCHANGED <<emitted, forgotten, subscribed, connected>>
<1>1. view[d] \in ViewType /\ view \in [Clients -> ViewType]
  BY DEF TypeOK, ViewType
<1> DEFINE w == [view[d] EXCEPT !.status = IF what = "open" THEN "failed" ELSE view[d].status]
<1>2. w \in ViewType /\ w.rows = view[d].rows /\ w.known = view[d].known
  BY <1>1 DEF ViewType, Statuses
<1>3. view' = [view EXCEPT ![d] = w]
  BY DEF GiveUp
<1> HIDE DEF w
<1>4. view'[d] = w
  BY <1>1, <1>3
<1>5. /\ mishaps' = IF d = Starter THEN mishaps \cup {what} ELSE mishaps
      /\ UNCHANGED <<emitted, forgotten, subscribed, connected, early, opens>>
      /\ faults < MaxFaults /\ faults' = faults + 1
  BY DEF GiveUp, Mishap
<1>6. faults' \in 0..MaxFaults
  BY <1>5, ConstantsAssumption DEF TypeOK
<1>7. /\ Own(d)' = Own(d) /\ (Lag(d) => Lag(d)') /\ (Lag(d)' => Own(d))
      /\ (what = "start" => Lag(d)')
  BY <1>5 DEF Own, Lag
<1>8. /\ mishaps \subseteq mishaps' /\ ("socket" \in mishaps' => "socket" \in mishaps)
      /\ d # Starter => mishaps' = mishaps
      /\ mishaps' \subseteq {"socket", "refusal", "start", "open"}
  BY <1>5 DEF TypeOK
<1>9. early' = [early EXCEPT ![d] = early'[d]] /\ early'[d] = early[d]
  BY <1>5, Stays
<1>10. opens' \in 0..MaxOpens
  BY <1>5, Stays
<1> QED
  BY <1>2, <1>3, <1>4, <1>5, <1>6, <1>7, <1>8, <1>9, <1>10

LEMMA TimeOutUnansweredFits ==
  ASSUME Fitting, NEW d \in Clients, TimeOutUnanswered(d) PROVE Fitting'
<1> DEFINE what == IF request[d] = "start" THEN "start" ELSE "open"
           w == view'[d]
           lag == Lag(d)'
<1>1. TypeOK /\ ClientOK(d)
  BY DEF Fitting
<1>2. /\ d \in connected /\ request[d] # "none" /\ GiveUp(d, what)
      /\ request' = [request EXCEPT ![d] = "none"]
      /\ late' = late \cup {<<d, request[d]>>} /\ channel' = channel
  BY DEF TimeOutUnanswered
<1>3. /\ request[d] \in Asked /\ what \in {"start", "open"}
      /\ (request[d] = "start" => what = "start") /\ (what = "start" => request[d] = "start")
      /\ (what = "start" => Own(d)) /\ (request[d] = "subscribe" => view[d].known)
  BY <1>1, <1>2 DEF ClientOK, Typed, Fits, Asked
<1> HIDE DEF what
<1>4. /\ view' = [view EXCEPT ![d] = view'[d]]
      /\ w \in ViewType /\ w.rows = view[d].rows /\ w.known = view[d].known
      /\ early' = [early EXCEPT ![d] = early'[d]] /\ early'[d] = early[d]
      /\ Own(d)' = Own(d) /\ (Lag(d) => lag) /\ (lag => Own(d))
      /\ (what = "start" => lag)
      /\ d # Starter => mishaps' = mishaps
      /\ mishaps \subseteq mishaps' /\ ("socket" \in mishaps' => "socket" \in mishaps)
      /\ mishaps' \subseteq {"socket", "refusal", "start", "open"}
      /\ faults' \in 0..MaxFaults /\ opens' \in 0..MaxOpens
      /\ UNCHANGED <<emitted, forgotten, subscribed, connected>>
  BY <1>1, <1>2, <1>3, GivesUp
<1>5. request'[d] = "none" /\ channel'[d] = channel[d]
  BY <1>1, <1>2 DEF TypeOK
<1>6. /\ Typed(emitted, d \in subscribed, d \in connected, Own(d), lag, "none", channel[d], w,
               early[d])
      /\ Fits(emitted, d \in subscribed, d \in connected, Own(d), lag, "none", channel[d], w,
              early[d])
  <2> HIDE DEF w, lag
  <2> QED
    BY <1>1, <1>4, GivenUp DEF ClientOK
<1>7. LateOK(d)'
  <2> SUFFICES ASSUME NEW kind \in Asked, <<d, kind>> \in late'
               PROVE  d \in connected' /\ (kind = "start" => lag) /\ (kind = "subscribe" => w.known)
    BY DEF LateOK
  <2>1. CASE <<d, kind>> \in late
    BY <1>1, <1>4, <2>1 DEF ClientOK, LateOK
  <2>2. CASE kind = request[d]
    BY <1>2, <1>3, <1>4, <2>2
  <2> QED
    BY <1>2, <2>1, <2>2
<1>8. ClientOK(d)'
  BY <1>4, <1>5, <1>6, <1>7 DEF ClientOK
<1>9. OnlyOf(d)
  BY <1>1, <1>2, <1>3, <1>4, <1>5, Stays DEF OnlyOf
<1> QED
  BY <1>8, <1>9, LocalStep

LEMMA TimeOutAnsweredFits ==
  ASSUME Fitting, NEW d \in Clients, TimeOutAnswered(d) PROVE Fitting'
<1>1. TypeOK /\ ClientOK(d)
  BY DEF Fitting
<1>2. PICK i \in 1..Len(channel[d]) :
        /\ channel[d][i].kind \in {"response", "replay", "refusal"}
        /\ GiveUp(d, IF channel[d][i].kind = "response" THEN "start" ELSE "open")
        /\ channel' = [channel EXCEPT ![d][i] = [kind |-> "ignored"]]
        /\ UNCHANGED <<request, late>>
  BY DEF TimeOutAnswered
<1> DEFINE what == IF channel[d][i].kind = "response" THEN "start" ELSE "open"
           w == view'[d]
           lag == Lag(d)'
           rest == [channel[d] EXCEPT ![i] = [kind |-> "ignored"]]
<1>3. /\ what \in {"start", "open"} /\ GiveUp(d, what)
      /\ (channel[d][i].kind = "response" => what = "start") /\ (what = "start" => Own(d))
  <2>1. channel[d][i].kind = "response" => Answered(channel[d], Len(channel[d]))
    BY DEF Answered
  <2> QED
    BY <1>1, <1>2, <2>1 DEF ClientOK, Fits
<1>4. channel' = [channel EXCEPT ![d] = rest]
  BY <1>2
<1> HIDE DEF what, rest
<1>5. /\ view' = [view EXCEPT ![d] = view'[d]]
      /\ w \in ViewType /\ w.rows = view[d].rows /\ w.known = view[d].known
      /\ early' = [early EXCEPT ![d] = early'[d]] /\ early'[d] = early[d]
      /\ Own(d)' = Own(d) /\ (Lag(d) => lag) /\ (lag => Own(d))
      /\ (what = "start" => lag)
      /\ d # Starter => mishaps' = mishaps
      /\ mishaps \subseteq mishaps' /\ ("socket" \in mishaps' => "socket" \in mishaps)
      /\ mishaps' \subseteq {"socket", "refusal", "start", "open"}
      /\ faults' \in 0..MaxFaults /\ opens' \in 0..MaxOpens
      /\ UNCHANGED <<emitted, forgotten, subscribed, connected>>
  BY <1>1, <1>3, GivesUp
<1>6. request' = request /\ channel'[d] = rest
  BY <1>1, <1>2, <1>4 DEF TypeOK
<1>7. /\ Typed(emitted, d \in subscribed, d \in connected, Own(d), lag, request[d], rest, w,
               early[d])
      /\ Fits(emitted, d \in subscribed, d \in connected, Own(d), lag, request[d], rest, w,
              early[d])
  <2> HIDE DEF w, lag
  <2>1. /\ Typed(emitted, d \in subscribed, d \in connected, Own(d), Lag(d), request[d], channel[d],
                 view[d], early[d])
        /\ Fits(emitted, d \in subscribed, d \in connected, Own(d), Lag(d), request[d], channel[d],
                view[d], early[d])
        /\ channel[d][i].kind \in {"response", "replay", "refusal"}
        /\ (channel[d][i].kind = "response" => lag)
    BY <1>1, <1>2, <1>3, <1>5 DEF ClientOK
  <2> QED
    BY <1>5, <2>1, Voided DEF rest
<1>8. LateOK(d)'
  BY <1>1, <1>2, <1>5, StillLate DEF ClientOK
<1>9. ClientOK(d)'
  BY <1>5, <1>6, <1>7, <1>8 DEF ClientOK
<1>10. OnlyOf(d)
  BY <1>1, <1>2, <1>4, <1>5, <1>6, Stays DEF OnlyOf
<1> QED
  BY <1>9, <1>10, LocalStep

(* The record goes: no client's part knows of it.                          *)
LEMMA ExpireFits == Fitting /\ Expire => Fitting'
<1> SUFFICES ASSUME Fitting, Expire PROVE Fitting'
  OBVIOUS
<1>1. /\ UNCHANGED <<emitted, subscribed, connected, request, late, channel, view, early, mishaps,
                     opens, faults>>
      /\ forgotten' \in BOOLEAN
  BY DEF Expire
<1>2. ASSUME NEW c \in Clients PROVE ClientOK(c)'
  BY <1>1, Untouched DEF Fitting
<1>3. TypeOK'
  BY <1>1 DEF Fitting, TypeOK
<1> QED
  BY <1>2, <1>3 DEF Fitting

(* Sockets close, one of them or, with the server, all.                    *)
LEMMA CloseFits ==
  ASSUME Fitting, NEW closed \in SUBSET Clients, CloseSockets(closed), forgotten' \in BOOLEAN
  PROVE  Fitting'
<1>1. TypeOK
  BY DEF Fitting
<1>2. /\ faults < MaxFaults /\ faults' = faults + 1
      /\ connected' = connected \ closed /\ subscribed' = subscribed \ closed
      /\ channel' = [c \in Clients |-> IF c \in closed THEN <<>> ELSE channel[c]]
      /\ request' = [c \in Clients |-> IF c \in closed THEN "none" ELSE request[c]]
      /\ late' = {l \in late : l[1] \notin closed}
      /\ view' = [c \in Clients |-> IF c \in closed /\ Opening(c)
                                   THEN [view[c] EXCEPT !.status = "failed"]
                                   ELSE view[c]]
      /\ mishaps' = IF Starter \in closed THEN mishaps \cup {"socket"} ELSE mishaps
      /\ UNCHANGED <<emitted, early, opens>>
  BY DEF CloseSockets
<1>3. ASSUME NEW c \in Clients
      PROVE  view'[c] \in ViewType /\ view'[c].rows = view[c].rows
  <2>1. view[c] \in ViewType
    BY <1>1 DEF TypeOK, ViewType
  <2> QED
    BY <1>2, <2>1 DEF ViewType, Statuses
<1>4. ASSUME NEW c \in closed PROVE ClientOK(c)'
  <2> DEFINE w == view'[c]
  <2>1. ClientOK(c) /\ w \in ViewType /\ w.rows = view[c].rows
    BY <1>3 DEF Fitting
  <2> HIDE DEF w
  <2>2. /\ Typed(emitted, FALSE, FALSE, FALSE, FALSE, "none", <<>>, w, early[c])
        /\ Fits(emitted, FALSE, FALSE, FALSE, FALSE, "none", <<>>, w, early[c])
    BY <2>1, Lost DEF ClientOK
  <2>3. /\ channel'[c] = <<>> /\ request'[c] = "none" /\ early'[c] = early[c]
        /\ emitted' = emitted
    BY <1>2
  <2>4. /\ (c \in subscribed') = FALSE /\ (c \in connected') = FALSE
        /\ Own(c)' = FALSE /\ Lag(c)' = FALSE
    BY <1>2 DEF Own, Lag
  <2>5. LateOK(c)'
    BY <1>2 DEF LateOK
  <2> QED
    BY <2>2, <2>3, <2>4, <2>5 DEF ClientOK, w
<1>5. ASSUME NEW c \in Clients \ closed PROVE ClientOK(c)'
  <2>1. /\ channel'[c] = channel[c] /\ request'[c] = request[c] /\ view'[c] = view[c]
        /\ early'[c] = early[c] /\ emitted' = emitted
        /\ c \in subscribed' <=> c \in subscribed
        /\ c \in connected' <=> c \in connected
        /\ c = Starter => mishaps' = mishaps
        /\ \A what \in Asked : <<c, what>> \in late' => <<c, what>> \in late
    BY <1>2
  <2> QED
    BY <2>1, Untouched DEF Fitting
<1>6. TypeOK'
  <2>1. /\ faults' \in 0..MaxFaults /\ opens' \in 0..MaxOpens /\ emitted' \in 0..Len(Stream)
        /\ connected' \subseteq Clients /\ subscribed' \subseteq Clients
        /\ late' \subseteq Clients \X {"start", "subscribe"}
        /\ mishaps' \subseteq {"socket", "refusal", "start", "open"}
    <3>1. faults' \in 0..MaxFaults
      BY <1>1, <1>2, ConstantsAssumption DEF TypeOK
    <3>2. opens' \in 0..MaxOpens /\ emitted' \in 0..Len(Stream)
      BY <1>1, <1>2 DEF TypeOK
    <3>3. /\ connected' \subseteq Clients /\ subscribed' \subseteq Clients
          /\ late' \subseteq Clients \X {"start", "subscribe"}
      BY <1>1, <1>2 DEF TypeOK
    <3>4. mishaps' \subseteq {"socket", "refusal", "start", "open"}
      BY <1>1, <1>2 DEF TypeOK
    <3> QED
      BY <3>1, <3>2, <3>3, <3>4
  <2>2. /\ <<>> \in Seq(Messages)
    OBVIOUS
  <2>3. /\ request' \in [Clients -> {"none", "start", "subscribe"}]
        /\ channel' \in [Clients -> Seq(Messages)] /\ early' \in [Clients -> Seq(Numbers)]
    BY <1>1, <1>2, <2>2 DEF TypeOK
  <2>4. view' \in [Clients -> ViewType]
    BY <1>2, <1>3
  <2> QED
    BY <2>1, <2>3, <2>4 DEF TypeOK, ViewType
<1> QED
  BY <1>4, <1>5, <1>6 DEF Fitting

LEMMA ClosingFits ==
  ASSUME Fitting, Restart \/ \E c \in Clients : Disconnect(c) PROVE Fitting'
<1>1. CASE Restart
  BY <1>1, CloseFits DEF Restart
<1>2. ASSUME NEW c \in Clients, Disconnect(c) PROVE Fitting'
  <2>1. {c} \in SUBSET Clients /\ forgotten' \in BOOLEAN
    BY <1>2 DEF Disconnect, Fitting, TypeOK
  <2> QED
    BY <1>2, <2>1, CloseFits DEF Disconnect
<1> QED
  BY <1>1, <1>2

LEMMA ReconnectFits ==
  ASSUME Fitting, NEW d \in Clients, Reconnect(d) PROVE Fitting'
<1>1. TypeOK /\ ClientOK(d)
  BY DEF Fitting
<1>2. /\ d \notin connected /\ connected' = connected \cup {d}
      /\ view' = [view EXCEPT ![d] = Unknown] /\ early' = [early EXCEPT ![d] = <<>>]
      /\ UNCHANGED <<emitted, forgotten, subscribed, request, late, channel, mishaps, opens,
                     faults>>
  BY DEF Reconnect
<1>3. view'[d] = Unknown /\ early'[d] = <<>> /\ request'[d] = request[d] /\ channel'[d] = channel[d]
  BY <1>1, <1>2 DEF TypeOK
<1>4. channel[d] = <<>> /\ d \notin subscribed /\ request[d] = "none" /\ ~Own(d)
  BY <1>1, <1>2 DEF ClientOK, Fits
<1>5. /\ Typed(emitted, FALSE, TRUE, FALSE, FALSE, "none", <<>>, Unknown, <<>>)
      /\ Fits(emitted, FALSE, TRUE, FALSE, FALSE, "none", <<>>, Unknown, <<>>)
  <2>1. emitted \in 0..Len(Stream)
    BY <1>1 DEF TypeOK
  <2> QED
    BY <2>1, Fresh
<1>6. /\ (d \in subscribed') = FALSE /\ (d \in connected') = TRUE
      /\ Own(d)' = FALSE /\ Lag(d)' = FALSE
  BY <1>2, <1>4 DEF Own, Lag
<1>7. LateOK(d)'
  BY <1>1, <1>2 DEF ClientOK, LateOK
<1>8. OnlyOf(d)
  BY <1>1, <1>2, <1>3, Stays DEF OnlyOf
<1>9. ClientOK(d)'
  BY <1>2, <1>3, <1>4, <1>5, <1>6, <1>7 DEF ClientOK
<1> QED
  BY <1>8, <1>9, LocalStep

LEMMA FittingStep == Fitting /\ [Next]_vars => Fitting'
<1> SUFFICES ASSUME Fitting, [Next]_vars PROVE Fitting'
  OBVIOUS
<1>1. CASE Emit
  BY <1>1, EmitFits
<1>2. CASE Expire \/ RespondStart
  BY <1>2, ExpireFits, RespondStartFits
<1>3. CASE Restart
  BY <1>3, ClosingFits
<1>4. ASSUME NEW c \in Clients,
             \/ AnswerSubscribe(c) \/ \E what \in {"start", "subscribe"} : CarryOutLate(c, what)
             \/ Receive(c) \/ Open(c) \/ TimeOutUnanswered(c) \/ TimeOutAnswered(c)
             \/ Disconnect(c) \/ Reconnect(c)
      PROVE  Fitting'
  <2>1. CASE AnswerSubscribe(c)
    BY <2>1, RespondSubscribeFits, RefuseSubscribeFits DEF AnswerSubscribe
  <2>2. CASE \E what \in {"start", "subscribe"} : CarryOutLate(c, what)
    BY <2>2, CarryOutLateFits
  <2>3. CASE Receive(c)
    BY <2>3, ReceiveEventFits, ReceiveResponseFits, ReceiveReplayFits, ReceiveSilentFits
       DEF Receive
  <2>4. CASE Open(c) \/ TimeOutUnanswered(c) \/ TimeOutAnswered(c)
    BY <2>4, OpenFits, TimeOutUnansweredFits, TimeOutAnsweredFits
  <2>5. CASE Disconnect(c) \/ Reconnect(c)
    BY <2>5, ClosingFits, ReconnectFits
  <2> QED
    BY <1>4, <2>1, <2>2, <2>3, <2>4, <2>5
<1>5. CASE UNCHANGED vars
  <2>1. ASSUME NEW c \in Clients PROVE ClientOK(c)'
    BY <1>5, Untouched DEF Fitting, vars
  <2>2. TypeOK'
    BY <1>5 DEF Fitting, TypeOK, vars
  <2> QED
    BY <2>1, <2>2 DEF Fitting
<1> QED
  BY <1>1, <1>2, <1>3, <1>4, <1>5 DEF Next

LEMMA AlwaysFitting == Spec => []Fitting
BY FittingInit, FittingStep, PTL DEF Spec

(* Type correctness.                                                       *)
THEOREM TypeCorrect == Spec => []TypeOK
<1>1. Fitting => TypeOK
  BY DEF Fitting
<1> QED
  BY <1>1, AlwaysFitting, PTL

(* Nobody is shown a row batch twice, or after a newer one.                *)
THEOREM RowsNeverOutOfOrder == Spec => []RowsInOrder
<1>1. Fitting => RowsInOrder
  <2> SUFFICES ASSUME Fitting, NEW c \in Clients PROVE Ascending(view[c].rows)
    BY DEF RowsInOrder, Ascending
  <2> QED
    BY DEF Fitting, ClientOK, Fits
<1> QED
  BY <1>1, AlwaysFitting, PTL

(* No row batch is on its way to somebody who did not ask for it.          *)
THEOREM RowsOnlyForSubscribers == Spec => []RowsForSubscribers
<1>1. Fitting => RowsForSubscribers
  BY DEF Fitting, ClientOK, Fits, RowEvent, RowsForSubscribers
<1> QED
  BY <1>1, AlwaysFitting, PTL

-----------------------------------------------------------------------------
(* The status.                                                             *)

(* What the status is after the first n events: that of the last of them   *)
(* that sets one.                                                          *)
Shows(status, n) ==
  \/ status = "queued" /\ \A m \in 1..n : ~Sets(m)
  \/ \E m \in 1..n : /\ Sets(m) /\ status = StatusOf(m)
                     /\ \A l \in (m + 1)..n : ~Sets(l)

LEMMA SetsNoRows == \A n : Sets(n) => ~IsRows(n)
BY DEF Sets, IsRows

LEMMA ShowsOne ==
  ASSUME NEW n \in Nat, NEW a, NEW b, Shows(a, n), Shows(b, n)
  PROVE  a = b
<1>1. CASE \A m \in 1..n : ~Sets(m)
  BY <1>1 DEF Shows
<1>2. CASE \E m \in 1..n : Sets(m)
  <2>1. PICK k \in 1..n : Sets(k) /\ a = StatusOf(k) /\ \A l \in (k + 1)..n : ~Sets(l)
    BY <1>2 DEF Shows
  <2>2. PICK m \in 1..n : Sets(m) /\ b = StatusOf(m) /\ \A l \in (m + 1)..n : ~Sets(l)
    BY <1>2 DEF Shows
  <2>3. ~(k < m) /\ ~(m < k)
    <3>1. k < m => m \in (k + 1)..n
      OBVIOUS
    <3>2. m < k => k \in (m + 1)..n
      OBVIOUS
    <3> QED
      BY <2>1, <2>2, <3>1, <3>2
  <2>4. k = m
    BY <2>3
  <2> QED
    BY <2>1, <2>2, <2>4
<1> QED
  BY <1>1, <1>2

(* One event further, those in between being row batches.                  *)
LEMMA ShowsNext ==
  ASSUME NEW k \in Nat, NEW n \in Nat, k < n, NEW status, Shows(status, k),
         \A m \in (k + 1)..(n - 1) : ~Sets(m)
  PROVE  Shows(IF Sets(n) THEN StatusOf(n) ELSE status, n)
<1>1. CASE Sets(n)
  <2>1. n \in 1..n /\ \A l \in (n + 1)..n : ~Sets(l)
    OBVIOUS
  <2> QED
    BY <1>1, <2>1 DEF Shows
<1>2. CASE ~Sets(n)
  <2>1. \A m \in 1..n : m \in 1..k \/ m \in (k + 1)..(n - 1) \/ m = n
    OBVIOUS
  <2>2. CASE status = "queued" /\ \A m \in 1..k : ~Sets(m)
    BY <1>2, <2>1, <2>2 DEF Shows
  <2>3. CASE \E m \in 1..k : /\ Sets(m) /\ status = StatusOf(m)
                             /\ \A l \in (m + 1)..k : ~Sets(l)
    <3>1. PICK m \in 1..k : /\ Sets(m) /\ status = StatusOf(m)
                            /\ \A l \in (m + 1)..k : ~Sets(l)
      BY <2>3
    <3>2. ASSUME NEW l \in (m + 1)..n PROVE ~Sets(l)
      <4>1. l \in 1..n /\ (l \in 1..k => l \in (m + 1)..k)
        OBVIOUS
      <4> QED
        BY <1>2, <2>1, <3>1, <4>1
    <3>3. m \in 1..n
      OBVIOUS
    <3> QED
      BY <1>2, <3>1, <3>2, <3>3 DEF Shows
  <2> QED
    BY <2>2, <2>3 DEF Shows
<1> QED
  BY <1>1, <1>2

LEMMA ShowsFurther ==
  ASSUME NEW k \in Nat, NEW n \in Nat, k <= n, NEW status, Shows(status, k),
         \A m \in (k + 1)..n : ~Sets(m)
  PROVE  Shows(status, n)
<1>1. CASE k = n
  BY <1>1
<1>2. CASE k < n
  <2>1. n \in (k + 1)..n /\ \A m \in (k + 1)..(n - 1) : m \in (k + 1)..n
    BY <1>2
  <2>2. ~Sets(n) /\ \A m \in (k + 1)..(n - 1) : ~Sets(m)
    BY <2>1
  <2>3. Shows(IF Sets(n) THEN StatusOf(n) ELSE status, n)
    BY <1>2, <2>2, ShowsNext
  <2> QED
    BY <2>2, <2>3
<1> QED
  BY <1>1, <1>2

(* A sequence leaves out nothing but row batches of the first n events.    *)
Holds(s, n) == \A m \in 1..n : ~IsRows(m) => \E i \in 1..Len(s) : s[i] = m

LEMMA ShownBySequence ==
  ASSUME NEW n \in 0..Len(Stream), NEW s \in Seq(Numbers), NEW v \in ViewType,
         \A i \in 1..Len(s) : s[i] \in 1..n, Ascending(s), Holds(s, n),
         (\A m \in 1..n : ~Sets(m)) => v.status = "queued"
  PROVE  Shows(ApplyAll(v, s).status, n)
<1>1. \A m \in 1..n : Sets(m) => \E i \in 1..Len(s) : s[i] = m
  BY SetsNoRows DEF Holds
<1>2. CASE (\A i \in 1..Len(s) : ~Sets(s[i])) /\ ApplyAll(v, s).status = v.status
  BY <1>1, <1>2 DEF Shows
<1>3. ASSUME NEW i \in 1..Len(s), LastSets(s, i), ApplyAll(v, s).status = StatusOf(s[i])
      PROVE  Shows(ApplyAll(v, s).status, n)
  <2>1. s[i] \in 1..n /\ Sets(s[i]) /\ \A j \in (i + 1)..Len(s) : ~Sets(s[j])
    BY <1>3 DEF LastSets
  <2>2. ASSUME NEW l \in (s[i] + 1)..n, Sets(l) PROVE FALSE
    <3>1. l \in 1..n /\ s[i] < l
      BY <2>1, <2>2
    <3>2. PICK j \in 1..Len(s) : s[j] = l
      BY <1>1, <2>2, <3>1
    <3>3. j # i /\ ~(j < i)
      BY <2>1, <3>1, <3>2 DEF Ascending
    <3>4. j \in (i + 1)..Len(s)
      BY <3>3
    <3> QED
      BY <2>1, <2>2, <3>2, <3>4
  <2> QED
    BY <1>3, <2>1, <2>2 DEF Shows
<1> QED
  BY <1>2, <1>3, ShownStatus

LEMMA StatusAtIs ==
  ASSUME NEW n \in 0..Len(Stream)
  PROVE  Shows(StatusAt(n), n)
<1> DEFINE s == [m \in 1..n |-> m]
<1>1. Len(Stream) \in Nat
  BY ConstantsAssumption
<1>2. s \in Seq(Numbers) /\ Len(s) = n /\ \A i \in 1..n : s[i] = i
  BY <1>1 DEF Numbers
<1>3. StatusAt(n) = ApplyAll(Queued, s).status
  BY DEF StatusAt
<1> HIDE DEF s
<1>4. (\A i \in 1..Len(s) : s[i] \in 1..n) /\ Ascending(s) /\ Holds(s, n)
  BY <1>2 DEF Ascending, Holds
<1> QED
  BY <1>2, <1>3, <1>4, QueuedIs, ShownBySequence

-----------------------------------------------------------------------------
(* The starter.                                                            *)

(* The replay at i was made when r events were out.                        *)
MadeAt(ch, i, r) ==
  /\ \A e \in 1..Len(ch[i].events) : ch[i].events[e] \in 1..r
  /\ Holds(ch[i].events, r)
  /\ \A j \in 1..Len(ch) :
       ch[j].kind = "event" =>
         (j < i => ch[j].number <= r) /\ (i < j => r < ch[j].number)

(* The response to the start is still to come; a replay is.                *)
Pending(req, ch) == req = "start" \/ \E i \in 1..Len(ch) : ch[i].kind = "response"
Refreshing(req, ch) == req = "subscribe" \/ \E i \in 1..Len(ch) : ch[i].kind = "replay"

(* The starter has followed the execution up to its k-th event: the rest   *)
(* is on its way, in turn with the replays.                                *)
OnTheWay(k, n, ch) ==
  /\ \A i \in 1..Len(ch) : ch[i].kind = "event" => k < ch[i].number
  /\ \A m \in (k + 1)..n :
       ~IsRows(m) => \E i \in 1..Len(ch) : ch[i].kind = "event" /\ ch[i].number = m
  /\ \A i \in 1..Len(ch) : ch[i].kind = "replay" => \E r \in k..n : MadeAt(ch, i, r)

(* One response at most, and no replay before it; every answer is awaited. *)
InTurn(req, ch) ==
  /\ \A i \in 1..Len(ch) : ch[i].kind \in {"event", "response", "replay"}
  /\ \A i, j \in 1..Len(ch) : ch[i].kind = "replay" /\ ch[j].kind = "response" => j < i
  /\ \A i, j \in 1..Len(ch) : ch[i].kind = "response" /\ ch[j].kind = "response" => i = j
  /\ req = "start" => \A i \in 1..Len(ch) : ch[i].kind = "event"

(* Until the response comes, and nothing was opened, what it has heard is  *)
(* put by; later it shows the status, or is to be told it by a replay.     *)
ShowsOrWaits(k, req, ch, v, ea) ==
  /\ req = "start" => ~v.known
  /\ ~v.known => Pending(req, ch) /\ Holds(ea, k)
  /\ ~Pending(req, ch) => ea = <<>>
  /\ Ascending(ea)
  /\ \A i \in 1..Len(ea) : ea[i] \in 1..k
  /\ v.known /\ (\A m \in 1..k : ~Sets(m)) => v.status = "queued"
  /\ v.known => Refreshing(req, ch) \/ (~Pending(req, ch) /\ Shows(v.status, k))

Follows(k, n, req, ch, v, ea) ==
  OnTheWay(k, n, ch) /\ InTurn(req, ch) /\ ShowsOrWaits(k, req, ch, v, ea)

(* The events that are no row batches all fit among those put by.          *)
LifecycleFits == Cardinality({n \in Numbers : ~IsRows(n)}) <= EarlyCap

LEMMA RoomForOne ==
  ASSUME LifecycleFits, NEW s \in Seq(Numbers), Ascending(s), NEW n \in Numbers, ~IsRows(n),
         \A i \in 1..Len(s) : s[i] < n /\ ~IsRows(s[i])
  PROVE  Len(s) < EarlyCap
<1> DEFINE f == Append(s, n)
           T == {m \in Numbers : ~IsRows(m)}
           S == 1..(Len(s) + 1)
<1>1. /\ Len(f) = Len(s) + 1 /\ f[Len(s) + 1] = n /\ Len(s) \in Nat /\ f \in Seq(Numbers)
      /\ \A i \in 1..Len(s) : f[i] = s[i]
      /\ \A i \in S : i \in 1..Len(s) \/ i = Len(s) + 1
  OBVIOUS
<1>2. Ascending(f)
  BY BatchAppended
<1> HIDE DEF f
<1>3. \A i \in S : f[i] \in T
  BY <1>1
<1>4. f \in [S -> T]
  BY <1>1, <1>3
<1>5. \A i, j \in S : f[i] = f[j] => i = j
  <2>1. \A i \in S : f[i] \in Int
    BY <1>3 DEF Numbers
  <2> QED
    BY <1>1, <1>2, <2>1 DEF Ascending
<1>6. f \in Injection(S, T)
  BY <1>4, <1>5 DEF Injection, IsInjective
<1>7. IsFiniteSet(T)
  <2>1. IsFiniteSet(Numbers)
    BY FS_Interval, ConstantsAssumption DEF Numbers
  <2> QED
    BY <2>1, FS_Subset
<1>8. Cardinality(S) <= Cardinality(T)
  BY <1>6, <1>7, FS_Injection
<1>9. Cardinality(S) = Len(s) + 1
  <2>1. Cardinality(1..(Len(s) + 1)) = IF 1 > Len(s) + 1 THEN 0 ELSE Len(s) + 1 - 1 + 1
    BY <1>1, FS_Interval
  <2> QED
    BY <1>1, <2>1
<1>10. Cardinality(T) \in Nat /\ EarlyCap \in Nat
  BY <1>7, FS_CardinalityType, ConstantsAssumption
<1>11. Cardinality(T) <= EarlyCap
  BY DEF LifecycleFits
<1> HIDE DEF S, T
<1> QED
  BY <1>1, <1>8, <1>9, <1>10, <1>11

(* What is on its way, when an event is sent ...                           *)
LEMMA EventOnTheWay ==
  ASSUME NEW n \in Nat, NEW k \in 0..n, NEW ch \in Seq(Messages), OnTheWay(k, n, ch),
         NEW m \in Messages, m.kind = "event", m.number = n + 1
  PROVE  OnTheWay(k, n + 1, Append(ch, m))
<1> DEFINE more == Append(ch, m)
<1>1. /\ more \in Seq(Messages)
      /\ Len(more) = Len(ch) + 1 /\ Len(ch) \in Nat
      /\ more[Len(ch) + 1] = m
      /\ \A i \in 1..Len(ch) : more[i] = ch[i]
      /\ \A i \in 1..Len(more) : i \in 1..Len(ch) \/ i = Len(ch) + 1
  BY LongerChannel
<1> HIDE DEF more
<1>2. \A i \in 1..Len(more) : more[i].kind = "event" => k < more[i].number
  BY <1>1 DEF OnTheWay
<1>3. ASSUME NEW l \in (k + 1)..(n + 1), ~IsRows(l)
      PROVE  \E i \in 1..Len(more) : more[i].kind = "event" /\ more[i].number = l
  <2>1. CASE l = n + 1
    <3>1. Len(ch) + 1 \in 1..Len(more)
      BY <1>1
    <3> QED
      BY <1>1, <2>1, <3>1
  <2>2. CASE l \in (k + 1)..n
    <3>1. PICK i \in 1..Len(ch) : ch[i].kind = "event" /\ ch[i].number = l
      BY <1>3, <2>2 DEF OnTheWay
    <3>2. i \in 1..Len(more)
      BY <1>1
    <3> QED
      BY <1>1, <3>1, <3>2
  <2> QED
    BY <2>1, <2>2
<1>4. ASSUME NEW i \in 1..Len(more), more[i].kind = "replay"
      PROVE  \E r \in k..(n + 1) : MadeAt(more, i, r)
  <2>1. i \in 1..Len(ch) /\ more[i] = ch[i]
    BY <1>1, <1>4
  <2>2. PICK r \in k..n : MadeAt(ch, i, r)
    BY <1>4, <2>1 DEF OnTheWay
  <2>3. MadeAt(more, i, r)
    <3>1. ASSUME NEW j \in 1..Len(more), more[j].kind = "event"
          PROVE  (j < i => more[j].number <= r) /\ (i < j => r < more[j].number)
      <4>1. CASE j \in 1..Len(ch)
        BY <1>1, <2>2, <3>1, <4>1 DEF MadeAt
      <4>2. CASE j = Len(ch) + 1
        BY <1>1, <2>1, <4>2
      <4> QED
        BY <1>1, <4>1, <4>2
    <3> QED
      BY <2>1, <2>2, <3>1 DEF MadeAt
  <2> QED
    BY <2>3
<1>5. OnTheWay(k, n + 1, more)
  BY <1>2, <1>3, <1>4 DEF OnTheWay
<1> QED
  BY <1>5 DEF more

(* ... to the others: a row batch.                                         *)
LEMMA RowNotOnTheWay ==
  ASSUME NEW n \in Nat, NEW k \in 0..n, NEW ch, OnTheWay(k, n, ch), IsRows(n + 1)
  PROVE  OnTheWay(k, n + 1, ch)
<1>1. \A m \in (k + 1)..(n + 1) : ~IsRows(m) => m \in (k + 1)..n
  OBVIOUS
<1>2. \A r \in k..n : r \in k..(n + 1)
  OBVIOUS
<1> QED
  BY <1>1, <1>2 DEF OnTheWay

(* ... when an answer is sent ...                                          *)
LEMMA AnswerOnTheWay ==
  ASSUME NEW n \in Nat, NEW k \in 0..n, NEW ch \in Seq(Messages), OnTheWay(k, n, ch),
         \A i \in 1..Len(ch) : Below(ch[i], n + 1),
         NEW m \in Messages,
         \/ m.kind = "response"
         \/ /\ m.kind = "replay" /\ Holds(m.events, n)
            /\ \A e \in 1..Len(m.events) : m.events[e] \in 1..n
  PROVE  OnTheWay(k, n, Append(ch, m))
<1> DEFINE more == Append(ch, m)
<1>1. /\ more \in Seq(Messages)
      /\ Len(more) = Len(ch) + 1 /\ Len(ch) \in Nat
      /\ more[Len(ch) + 1] = m
      /\ \A i \in 1..Len(ch) : more[i] = ch[i] /\ i \in 1..Len(more)
      /\ \A i \in 1..Len(more) : i \in 1..Len(ch) \/ i = Len(ch) + 1
  BY LongerChannel
<1> HIDE DEF more
<1>2. \A i \in 1..Len(more) : more[i].kind = "event" => i \in 1..Len(ch)
  BY <1>1
<1>3. \A i \in 1..Len(more) : more[i].kind = "event" => k < more[i].number
  BY <1>1, <1>2 DEF OnTheWay
<1>4. \A l \in (k + 1)..n :
        ~IsRows(l) => \E i \in 1..Len(more) : more[i].kind = "event" /\ more[i].number = l
  BY <1>1 DEF OnTheWay
<1>5. ASSUME NEW i \in 1..Len(more), more[i].kind = "replay"
      PROVE  \E r \in k..n : MadeAt(more, i, r)
  <2>1. CASE i \in 1..Len(ch)
    <3>1. PICK r \in k..n : MadeAt(ch, i, r)
      BY <1>1, <1>5, <2>1 DEF OnTheWay
    <3>2. MadeAt(more, i, r)
      BY <1>1, <1>2, <2>1, <3>1 DEF MadeAt
    <3> QED
      BY <3>2
  <2>2. CASE i = Len(ch) + 1
    <3>1. more[i] = m /\ m.kind = "replay"
      BY <1>1, <1>5, <2>2
    <3>2. \A e \in 1..Len(more[i].events) : more[i].events[e] \in 1..n
      BY <3>1
    <3>3. Holds(more[i].events, n)
      BY <3>1
    <3>4. ASSUME NEW j \in 1..Len(more), more[j].kind = "event"
          PROVE  (j < i => more[j].number <= n) /\ (i < j => n < more[j].number)
      <4>1. j \in 1..Len(ch) /\ more[j] = ch[j]
        BY <1>1, <1>2, <3>4
      <4>2. ch[j].number < n + 1 /\ ch[j].number \in Int
        BY <3>4, <4>1, MessageIs DEF Below, Numbers
      <4> QED
        BY <1>1, <2>2, <4>1, <4>2
    <3>5. MadeAt(more, i, n)
      BY <3>2, <3>3, <3>4 DEF MadeAt
    <3> QED
      BY <3>5
  <2> QED
    BY <1>1, <2>1, <2>2
<1>6. OnTheWay(k, n, more)
  BY <1>3, <1>4, <1>5 DEF OnTheWay
<1> QED
  BY <1>6 DEF more

(* ... and when a message is taken.                                        *)
LEMMA MadeAtLater ==
  ASSUME NEW ch \in Seq(Messages), ch # <<>>, NEW i \in 1..Len(Tail(ch)), NEW r,
         MadeAt(ch, i + 1, r)
  PROVE  MadeAt(Tail(ch), i, r)
<1> DEFINE rest == Tail(ch)
<1>1. /\ rest \in Seq(Messages) /\ Len(rest) = Len(ch) - 1 /\ Len(ch) \in Nat \ {0}
      /\ \A j \in 1..Len(rest) : rest[j] = ch[j + 1] /\ j + 1 \in 1..Len(ch)
  BY ShorterChannel
<1> HIDE DEF rest
<1>2. ASSUME NEW j \in 1..Len(rest), rest[j].kind = "event"
      PROVE  (j < i => rest[j].number <= r) /\ (i < j => r < rest[j].number)
  <2>1. (j < i => j + 1 < i + 1) /\ (i < j => i + 1 < j + 1)
    BY DEF rest
  <2> QED
    BY <1>1, <1>2, <2>1 DEF MadeAt
<1>3. i \in 1..Len(rest)
  BY DEF rest
<1>4. MadeAt(rest, i, r)
  BY <1>1, <1>2, <1>3 DEF MadeAt
<1> QED
  BY <1>4 DEF rest

(* The events before the one at the head were heard, row batches aside.    *)
LEMMA NothingBetween ==
  ASSUME NEW n \in Nat, NEW k \in 0..n, NEW ch \in Seq(Messages), OnTheWay(k, n, ch),
         \A i, j \in 1..Len(ch) : i < j /\ ch[j].kind = "event" => Below(ch[i], ch[j].number),
         ch # <<>>, Head(ch).kind = "event", Head(ch).number <= n
  PROVE  /\ k < Head(ch).number
         /\ \A m \in (k + 1)..(Head(ch).number - 1) : IsRows(m)
<1> DEFINE h == Head(ch).number
<1>1. Head(ch) = ch[1] /\ 1 \in 1..Len(ch) /\ Len(ch) \in Nat /\ h \in Int
  BY ShorterChannel, MessageIs DEF Numbers
<1>2. k < h
  BY <1>1 DEF OnTheWay
<1>3. ASSUME NEW m \in (k + 1)..(h - 1), ~IsRows(m) PROVE FALSE
  <2>1. m \in (k + 1)..n /\ m < h
    BY <1>1
  <2>2. PICK i \in 1..Len(ch) : ch[i].kind = "event" /\ ch[i].number = m
    BY <1>3, <2>1 DEF OnTheWay
  <2>3. i # 1
    BY <1>1, <2>1, <2>2
  <2>4. 1 < i
    BY <2>3
  <2>5. Below(ch[1], m)
    BY <1>1, <2>2, <2>4
  <2> QED
    BY <1>1, <2>1, <2>5 DEF Below
<1> QED
  BY <1>2, <1>3

LEMMA EventTakenOnTheWay ==
  ASSUME NEW n \in Nat, NEW k \in 0..n, NEW ch \in Seq(Messages), OnTheWay(k, n, ch),
         \A i, j \in 1..Len(ch) : i < j /\ ch[j].kind = "event" => Below(ch[i], ch[j].number),
         ch # <<>>, Head(ch).kind = "event", Head(ch).number <= n
  PROVE  OnTheWay(Head(ch).number, n, Tail(ch))
<1> DEFINE rest == Tail(ch)
           h == Head(ch).number
<1>1. /\ rest \in Seq(Messages) /\ Len(rest) = Len(ch) - 1 /\ Len(ch) \in Nat \ {0}
      /\ Head(ch) = ch[1] /\ Head(ch) \in Messages
      /\ \A i \in 1..Len(rest) : rest[i] = ch[i + 1] /\ i + 1 \in 1..Len(ch)
  BY ShorterChannel
<1>2. h \in Int /\ 1 \in 1..Len(ch) /\ ch[1].number = h /\ ch[1].kind = "event"
  BY <1>1, MessageIs DEF Numbers
<1>3. k < h
  BY NothingBetween
<1>4. ASSUME NEW i \in 1..Len(rest), rest[i].kind = "event" PROVE h < rest[i].number
  <2>1. 1 < i + 1
    OBVIOUS
  <2>2. Below(ch[1], ch[i + 1].number)
    BY <1>1, <1>2, <1>4, <2>1
  <2> QED
    BY <1>1, <1>2, <2>2 DEF Below
<1>5. ASSUME NEW m \in (h + 1)..n, ~IsRows(m)
      PROVE  \E i \in 1..Len(rest) : rest[i].kind = "event" /\ rest[i].number = m
  <2>1. m \in (k + 1)..n /\ m # h
    BY <1>2, <1>3
  <2>2. PICK i \in 1..Len(ch) : ch[i].kind = "event" /\ ch[i].number = m
    BY <1>5, <2>1 DEF OnTheWay
  <2>3. i # 1
    BY <1>2, <2>1, <2>2
  <2>4. i - 1 \in 1..Len(rest) /\ i - 1 + 1 = i
    BY <1>1, <2>3
  <2>5. rest[i - 1] = ch[i]
    <3>1. rest[i - 1] = ch[i - 1 + 1]
      BY <1>1, <2>4
    <3> QED
      BY <2>4, <3>1
  <2> QED
    BY <2>2, <2>4, <2>5
<1>6. ASSUME NEW i \in 1..Len(rest), rest[i].kind = "replay"
      PROVE  \E r \in h..n : MadeAt(rest, i, r)
  <2>1. i + 1 \in 1..Len(ch) /\ ch[i + 1].kind = "replay" /\ 1 < i + 1
    BY <1>1, <1>6
  <2>2. PICK r \in k..n : MadeAt(ch, i + 1, r)
    BY <2>1 DEF OnTheWay
  <2>3. h <= r
    BY <1>2, <2>1, <2>2 DEF MadeAt
  <2>4. MadeAt(rest, i, r)
    BY <2>2, MadeAtLater
  <2> QED
    BY <1>2, <2>3, <2>4
<1>7. OnTheWay(h, n, rest)
  <2> HIDE DEF rest, h
  <2> QED
    BY <1>4, <1>5, <1>6 DEF OnTheWay
<1> QED
  BY <1>7

(* A replay can be taken for one made when r events were out, if the one   *)
(* before it was made then.                                                *)
LEMMA MadeAtLatest ==
  ASSUME NEW n \in Nat, NEW k \in 0..n, NEW ch \in Seq(Messages), OnTheWay(k, n, ch),
         NEW i \in 1..Len(ch), NEW r \in k..n, NEW q \in k..n, q < r,
         MadeAt(ch, 1, r), 1 < i, MadeAt(ch, i, q)
  PROVE  MadeAt(ch, i, r)
<1>1. \A e \in 1..Len(ch[i].events) : ch[i].events[e] \in 1..r
  BY DEF MadeAt
<1>2. ASSUME NEW m \in 1..r, ~IsRows(m)
      PROVE  \E e \in 1..Len(ch[i].events) : ch[i].events[e] = m
  <2>1. m <= q
    <3> SUFFICES ASSUME ~(m <= q) PROVE FALSE
      OBVIOUS
    <3>1. m \in (k + 1)..n /\ q < m
      OBVIOUS
    <3>2. PICK j \in 1..Len(ch) : ch[j].kind = "event" /\ ch[j].number = m
      BY <1>2, <3>1 DEF OnTheWay
    <3>3. ~(1 < j)
      BY <3>2 DEF MadeAt
    <3>4. j < i
      BY <3>3
    <3> QED
      BY <3>1, <3>2, <3>4 DEF MadeAt
  <2>2. m \in 1..q
    BY <2>1
  <2> QED
    BY <1>2, <2>2 DEF MadeAt, Holds
<1>3. ASSUME NEW j \in 1..Len(ch), ch[j].kind = "event"
      PROVE  (j < i => ch[j].number <= r) /\ (i < j => r < ch[j].number)
  <2>1. ch[j].number \in Int
    BY <1>3, MessageIs DEF Numbers
  <2>2. j < i => ch[j].number <= q
    BY <1>3 DEF MadeAt
  <2>3. i < j => 1 < j
    OBVIOUS
  <2> QED
    BY <1>3, <2>1, <2>2, <2>3 DEF MadeAt
<1> QED
  BY <1>1, <1>2, <1>3 DEF MadeAt, Holds

LEMMA AnswerTakenOnTheWay ==
  ASSUME NEW n \in Nat, NEW k \in 0..n, NEW ch \in Seq(Messages), OnTheWay(k, n, ch),
         ch # <<>>, Head(ch).kind # "event",
         NEW r \in k..n, MadeAt(ch, 1, r) \/ r = k
  PROVE  OnTheWay(r, n, Tail(ch))
<1> DEFINE rest == Tail(ch)
<1>1. /\ rest \in Seq(Messages) /\ Len(rest) = Len(ch) - 1 /\ Len(ch) \in Nat \ {0}
      /\ Head(ch) = ch[1]
      /\ \A i \in 1..Len(rest) : rest[i] = ch[i + 1] /\ i + 1 \in 1..Len(ch)
  BY ShorterChannel
<1>2. ASSUME NEW i \in 1..Len(rest), rest[i].kind = "event" PROVE r < rest[i].number
  <2>1. i + 1 \in 1..Len(ch) /\ 1 < i + 1 /\ ch[i + 1].kind = "event"
    BY <1>1, <1>2
  <2>2. CASE MadeAt(ch, 1, r)
    BY <1>1, <2>1, <2>2 DEF MadeAt
  <2>3. CASE r = k
    BY <1>1, <2>1, <2>3 DEF OnTheWay
  <2> QED
    BY <2>2, <2>3
<1>3. ASSUME NEW m \in (r + 1)..n, ~IsRows(m)
      PROVE  \E i \in 1..Len(rest) : rest[i].kind = "event" /\ rest[i].number = m
  <2>1. m \in (k + 1)..n
    OBVIOUS
  <2>2. PICK i \in 1..Len(ch) : ch[i].kind = "event" /\ ch[i].number = m
    BY <1>3, <2>1 DEF OnTheWay
  <2>3. i # 1
    BY <1>1, <2>2
  <2>4. i - 1 \in 1..Len(rest) /\ i - 1 + 1 = i
    BY <1>1, <2>3
  <2>5. rest[i - 1] = ch[i]
    <3>1. rest[i - 1] = ch[i - 1 + 1]
      BY <1>1, <2>4
    <3> QED
      BY <2>4, <3>1
  <2> QED
    BY <2>2, <2>4, <2>5
<1>4. ASSUME NEW i \in 1..Len(rest), rest[i].kind = "replay"
      PROVE  \E q \in r..n : MadeAt(rest, i, q)
  <2>1. i + 1 \in 1..Len(ch) /\ ch[i + 1].kind = "replay" /\ 1 < i + 1
    BY <1>1, <1>4
  <2>2. PICK q \in k..n : MadeAt(ch, i + 1, q)
    BY <2>1 DEF OnTheWay
  <2>3. CASE q < r
    <3>1. MadeAt(ch, 1, r)
      BY <2>3
    <3>2. MadeAt(ch, i + 1, r)
      BY <2>1, <2>2, <2>3, <3>1, MadeAtLatest
    <3>3. MadeAt(rest, i, r) /\ r \in r..n
      BY <3>2, MadeAtLater
    <3> QED
      BY <3>3
  <2>4. CASE ~(q < r)
    <3>1. MadeAt(rest, i, q) /\ q \in r..n
      BY <2>2, <2>4, MadeAtLater
    <3> QED
      BY <3>1
  <2> QED
    BY <2>3, <2>4
<1>5. OnTheWay(r, n, rest)
  <2> HIDE DEF rest
  <2> QED
    BY <1>2, <1>3, <1>4 DEF OnTheWay
<1> QED
  BY <1>5

(* Events come and go without a change to what is awaited.                 *)
LEMMA SameAnswers ==
  ASSUME NEW ch \in Seq(Messages), NEW m \in Messages, m.kind = "event", NEW req
  PROVE  /\ Pending(req, Append(ch, m)) <=> Pending(req, ch)
         /\ Refreshing(req, Append(ch, m)) <=> Refreshing(req, ch)
<1> DEFINE more == Append(ch, m)
<1>1. /\ Len(more) = Len(ch) + 1 /\ Len(ch) \in Nat /\ more[Len(ch) + 1] = m
      /\ \A i \in 1..Len(ch) : more[i] = ch[i] /\ i \in 1..Len(more)
      /\ \A i \in 1..Len(more) : i \in 1..Len(ch) \/ i = Len(ch) + 1
  BY LongerChannel
<1> HIDE DEF more
<1>2. (\E i \in 1..Len(more) : more[i].kind = "response") <=> \E i \in 1..Len(ch) : ch[i].kind = "response"
  BY <1>1
<1>3. (\E i \in 1..Len(more) : more[i].kind = "replay") <=> \E i \in 1..Len(ch) : ch[i].kind = "replay"
  BY <1>1
<1>4. (Pending(req, more) <=> Pending(req, ch)) /\ (Refreshing(req, more) <=> Refreshing(req, ch))
  BY <1>2, <1>3 DEF Pending, Refreshing
<1> QED
  BY <1>4 DEF more

(* A message of another kind at the head leaves those of this kind.        *)
LEMMA StillThere ==
  ASSUME NEW ch \in Seq(Messages), ch # <<>>, NEW kind, Head(ch).kind # kind
  PROVE  (\E i \in 1..Len(Tail(ch)) : Tail(ch)[i].kind = kind)
           <=> \E i \in 1..Len(ch) : ch[i].kind = kind
<1> DEFINE rest == Tail(ch)
<1>1. /\ Len(rest) = Len(ch) - 1 /\ Len(ch) \in Nat \ {0} /\ Head(ch) = ch[1]
      /\ \A i \in 1..Len(rest) : rest[i] = ch[i + 1] /\ i + 1 \in 1..Len(ch)
  BY ShorterChannel
<1> HIDE DEF rest
<1>2. ASSUME NEW i \in 1..Len(ch), ch[i].kind = kind
      PROVE  \E j \in 1..Len(rest) : rest[j].kind = kind
  <2>1. i # 1
    BY <1>1, <1>2
  <2>2. i - 1 \in 1..Len(rest) /\ i - 1 + 1 = i
    BY <1>1, <2>1
  <2>3. rest[i - 1] = ch[i - 1 + 1]
    BY <1>1, <2>2
  <2> QED
    BY <1>2, <2>2, <2>3
<1>3. (\E i \in 1..Len(rest) : rest[i].kind = kind) => \E i \in 1..Len(ch) : ch[i].kind = kind
  BY <1>1
<1>4. (\E i \in 1..Len(rest) : rest[i].kind = kind) <=> \E i \in 1..Len(ch) : ch[i].kind = kind
  BY <1>2, <1>3
<1> QED
  BY <1>4 DEF rest

LEMMA InTurnLater ==
  ASSUME NEW ch \in Seq(Messages), ch # <<>>, NEW req, InTurn(req, ch)
  PROVE  InTurn(req, Tail(ch))
<1> DEFINE rest == Tail(ch)
<1>1. \A i \in 1..Len(rest) : rest[i] = ch[i + 1] /\ i + 1 \in 1..Len(ch)
  BY ShorterChannel
<1> HIDE DEF rest
<1>2. \A i, j \in 1..Len(rest) : rest[i].kind = "replay" /\ rest[j].kind = "response" => j < i
  <2>1. ASSUME NEW i \in 1..Len(rest), NEW j \in 1..Len(rest),
               rest[i].kind = "replay", rest[j].kind = "response"
        PROVE  j < i
    <3>1. j + 1 < i + 1
      BY <1>1, <2>1 DEF InTurn
    <3> QED
      BY <3>1
  <2> QED
    BY <2>1
<1>3. \A i, j \in 1..Len(rest) : rest[i].kind = "response" /\ rest[j].kind = "response" => i = j
  <2>1. ASSUME NEW i \in 1..Len(rest), NEW j \in 1..Len(rest),
               rest[i].kind = "response", rest[j].kind = "response"
        PROVE  i = j
    <3>1. i + 1 = j + 1
      BY <1>1, <2>1 DEF InTurn
    <3> QED
      BY <3>1
  <2> QED
    BY <2>1
<1>4. /\ req = "start" => \A i \in 1..Len(rest) : rest[i].kind = "event"
      /\ \A i \in 1..Len(rest) : rest[i].kind \in {"event", "response", "replay"}
  BY <1>1 DEF InTurn
<1>5. InTurn(req, rest)
  BY <1>2, <1>3, <1>4 DEF InTurn
<1> QED
  BY <1>5 DEF rest

(* An event is sent to the starter ...                                     *)
LEMMA FollowsEvent ==
  ASSUME NEW n, NEW sub, NEW con, NEW own, NEW lag, NEW req, NEW ch, NEW v, NEW ea, NEW k \in 0..n,
         Typed(n, sub, con, own, lag, req, ch, v, ea), Follows(k, n, req, ch, v, ea),
         NEW m \in Messages, m.kind = "event", m.number = n + 1
  PROVE  Follows(k, n + 1, req, Append(ch, m), v, ea)
<1> DEFINE more == Append(ch, m)
<1>1. n \in Nat /\ ch \in Seq(Messages)
  BY ConstantsAssumption DEF Typed
<1>2. OnTheWay(k, n + 1, more)
  BY <1>1, EventOnTheWay DEF Follows
<1>3. (Pending(req, more) <=> Pending(req, ch)) /\ (Refreshing(req, more) <=> Refreshing(req, ch))
  BY <1>1, SameAnswers
<1>4. /\ Len(more) = Len(ch) + 1 /\ Len(ch) \in Nat /\ more[Len(ch) + 1] = m
      /\ \A i \in 1..Len(ch) : more[i] = ch[i]
      /\ \A i \in 1..Len(more) : i \in 1..Len(ch) \/ i = Len(ch) + 1
  BY <1>1, LongerChannel
<1> HIDE DEF more
<1>5. /\ \A i \in 1..Len(more) : more[i].kind # "event" => i \in 1..Len(ch) /\ more[i] = ch[i]
      /\ req = "start" => \A i \in 1..Len(more) : more[i].kind = "event"
      /\ \A i \in 1..Len(more) : more[i].kind \in {"event", "response", "replay"}
  BY <1>4 DEF Follows, InTurn
<1>6. InTurn(req, more)
  BY <1>5 DEF Follows, InTurn
<1>7. ShowsOrWaits(k, req, more, v, ea)
  BY <1>3 DEF Follows, ShowsOrWaits
<1>8. Follows(k, n + 1, req, more, v, ea)
  BY <1>2, <1>6, <1>7 DEF Follows
<1> QED
  BY <1>8 DEF more

(* ... or, a row batch, is not.                                            *)
LEMMA FollowsRow ==
  ASSUME NEW n, NEW sub, NEW con, NEW own, NEW lag, NEW req, NEW ch, NEW v, NEW ea, NEW k \in 0..n,
         Typed(n, sub, con, own, lag, req, ch, v, ea), Follows(k, n, req, ch, v, ea), IsRows(n + 1)
  PROVE  Follows(k, n + 1, req, ch, v, ea)
<1>1. n \in Nat
  BY ConstantsAssumption DEF Typed
<1>2. OnTheWay(k, n + 1, ch)
  BY <1>1, RowNotOnTheWay DEF Follows
<1> QED
  BY <1>2 DEF Follows

(* The start is answered.                                                  *)
LEMMA FollowsResponse ==
  ASSUME NEW n, NEW sub, NEW con, NEW own, NEW lag, NEW ch, NEW v, NEW ea, NEW k \in 0..n,
         Typed(n, sub, con, own, lag, "start", ch, v, ea),
         Fits(n, sub, con, own, lag, "start", ch, v, ea),
         Follows(k, n, "start", ch, v, ea),
         NEW m \in Messages, m.kind = "response"
  PROVE  Follows(k, n, "none", Append(ch, m), v, ea)
<1> DEFINE more == Append(ch, m)
<1>1. n \in Nat /\ ch \in Seq(Messages) /\ \A i \in 1..Len(ch) : Below(ch[i], n + 1)
  BY ConstantsAssumption DEF Typed, Fits
<1>2. OnTheWay(k, n, more)
  BY <1>1, AnswerOnTheWay DEF Follows
<1>3. /\ Len(more) = Len(ch) + 1 /\ Len(ch) \in Nat /\ more[Len(ch) + 1] = m
      /\ \A i \in 1..Len(ch) : more[i] = ch[i]
      /\ \A i \in 1..Len(more) : i \in 1..Len(ch) \/ i = Len(ch) + 1
  BY <1>1, LongerChannel
<1> HIDE DEF more
<1>4. \A i \in 1..Len(more) : more[i].kind # "event" => i = Len(ch) + 1 /\ more[i].kind = "response"
  BY <1>3 DEF Follows, InTurn
<1>5. InTurn("none", more)
  BY <1>4 DEF InTurn
<1>6. Pending("none", more)
  BY <1>3 DEF Pending
<1>7. ShowsOrWaits(k, "none", more, v, ea)
  BY <1>6 DEF Follows, ShowsOrWaits
<1>8. Follows(k, n, "none", more, v, ea)
  BY <1>2, <1>5, <1>7 DEF Follows
<1> QED
  BY <1>8 DEF more

(* Its opening of the execution from history is.                           *)
LEMMA FollowsReplay ==
  ASSUME NEW n, NEW sub, NEW con, NEW own, NEW lag, NEW ch, NEW v, NEW ea, NEW k \in 0..n,
         Typed(n, sub, con, own, lag, "subscribe", ch, v, ea),
         Fits(n, sub, con, own, lag, "subscribe", ch, v, ea),
         Follows(k, n, "subscribe", ch, v, ea),
         NEW m \in Messages, m.kind = "replay", Holds(m.events, n),
         \A e \in 1..Len(m.events) : m.events[e] \in 1..n
  PROVE  Follows(k, n, "none", Append(ch, m), v, ea)
<1> DEFINE more == Append(ch, m)
<1>1. n \in Nat /\ ch \in Seq(Messages) /\ \A i \in 1..Len(ch) : Below(ch[i], n + 1)
  BY ConstantsAssumption DEF Typed, Fits
<1>2. OnTheWay(k, n, more)
  BY <1>1, AnswerOnTheWay DEF Follows
<1>3. /\ Len(more) = Len(ch) + 1 /\ Len(ch) \in Nat /\ more[Len(ch) + 1] = m
      /\ \A i \in 1..Len(ch) : more[i] = ch[i] /\ i \in 1..Len(more)
      /\ \A i \in 1..Len(more) : i \in 1..Len(ch) \/ i = Len(ch) + 1
  BY <1>1, LongerChannel
<1> HIDE DEF more
<1>4. \A i \in 1..Len(more) : more[i].kind = "response" => i \in 1..Len(ch) /\ ch[i].kind = "response"
  BY <1>3
<1>5. ASSUME NEW i \in 1..Len(more), NEW j \in 1..Len(more),
             more[i].kind = "replay", more[j].kind = "response"
      PROVE  j < i
  <2>1. j \in 1..Len(ch) /\ ch[j].kind = "response"
    BY <1>4, <1>5
  <2>2. CASE i \in 1..Len(ch)
    BY <1>3, <1>5, <2>1, <2>2 DEF Follows, InTurn
  <2>3. CASE i = Len(ch) + 1
    BY <1>3, <2>1, <2>3
  <2> QED
    BY <1>3, <2>2, <2>3
<1>6. InTurn("none", more)
  <2>1. \A i \in 1..Len(more) : more[i].kind \in {"event", "response", "replay"}
    BY <1>3 DEF Follows, InTurn
  <2> QED
    BY <1>4, <1>5, <2>1 DEF Follows, InTurn
<1>7. Refreshing("none", more)
  BY <1>3 DEF Refreshing
<1>8. Pending("none", more) <=> Pending("subscribe", ch)
  BY <1>3, <1>4 DEF Pending
<1>9. ShowsOrWaits(k, "none", more, v, ea)
  BY <1>7, <1>8 DEF Follows, ShowsOrWaits
<1>10. Follows(k, n, "none", more, v, ea)
  BY <1>2, <1>6, <1>9 DEF Follows
<1> QED
  BY <1>10 DEF more

(* It opens the execution.                                                 *)
LEMMA FollowsOpened ==
  ASSUME NEW n, NEW ch, NEW v, NEW ea, NEW k \in 0..n, Follows(k, n, "none", ch, v, ea)
  PROVE  Follows(k, n, "subscribe", ch, IF v.known THEN v ELSE Queued, ea)
<1>1. InTurn("subscribe", ch) /\ Refreshing("subscribe", ch)
  BY DEF Follows, InTurn, Refreshing
<1>2. Pending("subscribe", ch) <=> Pending("none", ch)
  BY DEF Pending
<1> DEFINE w == IF v.known THEN v ELSE Queued
<1>3. w.known /\ ((\A m \in 1..k : ~Sets(m)) => w.status = "queued")
  BY QueuedIs DEF Follows, ShowsOrWaits
<1> HIDE DEF w
<1>4. ShowsOrWaits(k, "subscribe", ch, w, ea)
  BY <1>1, <1>2, <1>3 DEF Follows, ShowsOrWaits
<1> QED
  BY <1>1, <1>4 DEF Follows, w

(* An event is heard: what holds of the channel from now on.               *)
LEMMA HeadHeard ==
  ASSUME NEW n, NEW sub, NEW con, NEW own, NEW lag, NEW req, NEW ch, NEW v, NEW ea, NEW k \in 0..n,
         Typed(n, sub, con, own, lag, req, ch, v, ea), Fits(n, sub, con, own, lag, req, ch, v, ea),
         Follows(k, n, req, ch, v, ea), ch # <<>>, Head(ch).kind = "event"
  PROVE  LET h == Head(ch).number
         IN  /\ h \in k + 1..n /\ h \in Numbers /\ n \in Nat
             /\ OnTheWay(h, n, Tail(ch)) /\ InTurn(req, Tail(ch))
             /\ \A m \in (k + 1)..(h - 1) : IsRows(m)
             /\ Pending(req, Tail(ch)) <=> Pending(req, ch)
             /\ Refreshing(req, Tail(ch)) <=> Refreshing(req, ch)
<1> DEFINE h == Head(ch).number
<1>1. n \in Nat /\ ch \in Seq(Messages)
  BY ConstantsAssumption DEF Typed
<1>2. Head(ch) = ch[1] /\ 1 \in 1..Len(ch) /\ h \in Numbers
  BY <1>1, ShorterChannel, MessageIs
<1>3. h < n + 1
  BY <1>2 DEF Fits, Below
<1>4. \A i, j \in 1..Len(ch) : i < j /\ ch[j].kind = "event" => Below(ch[i], ch[j].number)
  BY DEF Fits
<1>5. h <= n
  BY <1>1, <1>2, <1>3 DEF Numbers
<1>6. k < h /\ \A m \in (k + 1)..(h - 1) : IsRows(m)
  BY <1>1, <1>4, <1>5, NothingBetween DEF Follows
<1>7. OnTheWay(h, n, Tail(ch))
  BY <1>1, <1>4, <1>5, EventTakenOnTheWay DEF Follows
<1>8. InTurn(req, Tail(ch))
  BY <1>1, InTurnLater DEF Follows
<1>9. Pending(req, Tail(ch)) <=> Pending(req, ch)
  <2>1. Head(ch).kind # "response"
    OBVIOUS
  <2> QED
    BY <1>1, <2>1, StillThere DEF Pending
<1>10. Refreshing(req, Tail(ch)) <=> Refreshing(req, ch)
  <2>1. Head(ch).kind # "replay"
    OBVIOUS
  <2> QED
    BY <1>1, <2>1, StillThere DEF Refreshing
<1>11. h \in k + 1..n
  BY <1>1, <1>2, <1>5, <1>6 DEF Numbers
<1> HIDE DEF h
<1> QED
  BY <1>1, <1>2, <1>6, <1>7, <1>8, <1>9, <1>10, <1>11 DEF h

LEMMA FollowsShown ==
  ASSUME NEW n, NEW sub, NEW con, NEW own, NEW lag, NEW req, NEW ch, NEW v, NEW ea, NEW k \in 0..n,
         Typed(n, sub, con, own, lag, req, ch, v, ea), Fits(n, sub, con, own, lag, req, ch, v, ea),
         Follows(k, n, req, ch, v, ea), ch # <<>>, Head(ch).kind = "event", v.known
  PROVE  Follows(Head(ch).number, n, req, Tail(ch), Apply(v, Head(ch).number), ea)
<1> DEFINE h == Head(ch).number
           w == Apply(v, h)
<1>1. /\ h \in k + 1..n /\ h \in Numbers /\ n \in Nat
      /\ OnTheWay(h, n, Tail(ch)) /\ InTurn(req, Tail(ch))
      /\ \A m \in (k + 1)..(h - 1) : IsRows(m)
      /\ Pending(req, Tail(ch)) <=> Pending(req, ch)
      /\ Refreshing(req, Tail(ch)) <=> Refreshing(req, ch)
  BY HeadHeard
<1> HIDE DEF h
<1>2. w.known /\ w.status = IF Sets(h) THEN StatusOf(h) ELSE v.status
  BY <1>1, Applied DEF Typed
<1> HIDE DEF w
<1>3. \A m \in (k + 1)..(h - 1) : ~Sets(m)
  BY <1>1, SetsNoRows
<1>4. 1..k \subseteq 1..h /\ h \in 1..h /\ k < h /\ k \in Nat /\ h \in Nat
  BY <1>1
<1>5. Shows(v.status, k) => Shows(w.status, h)
  BY <1>2, <1>3, <1>4, ShowsNext
<1>6. (\A m \in 1..h : ~Sets(m)) => w.status = "queued"
  <2>1. (\A m \in 1..h : ~Sets(m)) => ~Sets(h) /\ \A m \in 1..k : ~Sets(m)
    BY <1>4
  <2> QED
    BY <1>2, <2>1 DEF Follows, ShowsOrWaits
<1>7. \A i \in 1..Len(ea) : ea[i] \in 1..h
  BY <1>4 DEF Follows, ShowsOrWaits
<1>8. /\ req = "start" => ~v.known
      /\ ~Pending(req, ch) => ea = <<>>
      /\ Ascending(ea)
      /\ Refreshing(req, ch) \/ (~Pending(req, ch) /\ Shows(v.status, k))
  BY DEF Follows, ShowsOrWaits
<1>9. ShowsOrWaits(h, req, Tail(ch), w, ea)
  BY <1>1, <1>2, <1>5, <1>6, <1>7, <1>8 DEF ShowsOrWaits
<1>10. Follows(h, n, req, Tail(ch), w, ea)
  BY <1>1, <1>9 DEF Follows
<1> QED
  BY <1>10 DEF w, h

LEMMA FollowsPutBy ==
  ASSUME LifecycleFits,
         NEW n, NEW sub, NEW con, NEW own, NEW lag, NEW req, NEW ch, NEW v, NEW ea, NEW k \in 0..n,
         Typed(n, sub, con, own, lag, req, ch, v, ea), Fits(n, sub, con, own, lag, req, ch, v, ea),
         Follows(k, n, req, ch, v, ea), ch # <<>>, Head(ch).kind = "event", ~v.known, con, ~lag
  PROVE  Follows(Head(ch).number, n, req, Tail(ch), v,
                 IF Len(ea) < EarlyCap THEN Append(ea, Head(ch).number) ELSE ea)
<1> DEFINE h == Head(ch).number
           put == Append(ea, h)
<1>1. /\ h \in k + 1..n /\ h \in Numbers /\ n \in Nat
      /\ OnTheWay(h, n, Tail(ch)) /\ InTurn(req, Tail(ch))
      /\ \A m \in (k + 1)..(h - 1) : IsRows(m)
      /\ Pending(req, Tail(ch)) <=> Pending(req, ch)
      /\ Refreshing(req, Tail(ch)) <=> Refreshing(req, ch)
  BY HeadHeard
<1>2. ~IsRows(h)
  <2>1. ch[1] = Head(ch) /\ 1 \in 1..Len(ch) /\ 1 - 1 = 0
    BY ShorterChannel DEF Typed
  <2>2. ~Answered(ch, 0)
    BY DEF Answered
  <2>3. RowEvent(ch[1]) => v.known \/ Answered(ch, 0)
    BY <2>1 DEF Fits
  <2> QED
    BY <2>1, <2>2, <2>3 DEF RowEvent
<1> HIDE DEF h
<1>3. ea \in Seq(Numbers) /\ \A i \in 1..Len(ea) : ~IsRows(ea[i])
  BY DEF Typed, Fits, PutBy
<1>4. Ascending(ea) /\ \A i \in 1..Len(ea) : ea[i] \in 1..k /\ ea[i] < h
  <2>1. Ascending(ea) /\ \A i \in 1..Len(ea) : ea[i] \in 1..k
    BY DEF Follows, ShowsOrWaits
  <2>2. \A m \in 1..k : m < h
    BY <1>1
  <2> QED
    BY <2>1, <2>2
<1>5. Len(ea) < EarlyCap
  BY <1>1, <1>2, <1>3, <1>4, RoomForOne
<1>6. Ascending(put)
  BY <1>1, <1>3, <1>4, BatchAppended
<1>7. /\ Len(put) = Len(ea) + 1 /\ Len(ea) \in Nat /\ put[Len(ea) + 1] = h
      /\ \A i \in 1..Len(ea) : put[i] = ea[i] /\ i \in 1..Len(put)
      /\ \A i \in 1..Len(put) : i \in 1..Len(ea) \/ i = Len(ea) + 1
  BY <1>1, <1>3
<1> HIDE DEF put
<1>8. 1..k \subseteq 1..h /\ h \in 1..h
  BY <1>1
<1>9. \A i \in 1..Len(put) : put[i] \in 1..h
  BY <1>4, <1>7, <1>8
<1>10. Pending(req, ch) /\ Holds(ea, k)
  BY DEF Follows, ShowsOrWaits
<1>11. ASSUME NEW m \in 1..h, ~IsRows(m)
       PROVE  \E i \in 1..Len(put) : put[i] = m
  <2>1. CASE m \in 1..k
    BY <1>7, <1>10, <1>11, <2>1 DEF Holds
  <2>2. CASE m = h
    <3>1. Len(ea) + 1 \in 1..Len(put)
      BY <1>7
    <3> QED
      BY <1>7, <2>2, <3>1
  <2>3. m \in 1..k \/ m = h \/ m \in (k + 1)..(h - 1)
    BY <1>1
  <2> QED
    BY <1>1, <1>11, <2>1, <2>2, <2>3
<1>12. ShowsOrWaits(h, req, Tail(ch), v, put)
  BY <1>1, <1>6, <1>9, <1>10, <1>11 DEF ShowsOrWaits, Holds
<1>13. Follows(h, n, req, Tail(ch), v, put)
  BY <1>1, <1>12 DEF Follows
<1> QED
  BY <1>5, <1>13 DEF put, h

(* The response is taken: unless it opened the execution meanwhile, it     *)
(* shows the status of all it has heard.                                   *)
LEMMA FollowsTold ==
  ASSUME NEW n, NEW sub, NEW con, NEW own, NEW lag, NEW req, NEW ch, NEW v, NEW ea, NEW k \in 0..n,
         Typed(n, sub, con, own, lag, req, ch, v, ea), Fits(n, sub, con, own, lag, req, ch, v, ea),
         Follows(k, n, req, ch, v, ea), ch # <<>>, Head(ch).kind = "response"
  PROVE  Follows(k, n, req, Tail(ch), ApplyAll(Queued, ea), <<>>)
<1> DEFINE w == ApplyAll(Queued, ea)
           rest == Tail(ch)
<1>1. n \in 0..Len(Stream) /\ Len(Stream) \in Nat /\ ch \in Seq(Messages) /\ ea \in Seq(Numbers)
  BY ConstantsAssumption DEF Typed
<1>2. k \in 0..Len(Stream) /\ k \in k..n
  BY <1>1
<1>3. OnTheWay(k, n, rest)
  <2>1. n \in Nat /\ Head(ch).kind # "event"
    BY <1>1
  <2> QED
    BY <1>1, <1>2, <2>1, AnswerTakenOnTheWay DEF Follows
<1>4. InTurn(req, rest)
  BY <1>1, InTurnLater DEF Follows
<1>5. /\ Len(rest) = Len(ch) - 1 /\ Len(ch) \in Nat \ {0} /\ Head(ch) = ch[1]
      /\ \A i \in 1..Len(rest) : rest[i] = ch[i + 1] /\ i + 1 \in 1..Len(ch)
  BY <1>1, ShorterChannel
<1>6. ~Pending(req, rest)
  <2>1. 1 \in 1..Len(ch) /\ ch[1].kind = "response"
    BY <1>5
  <2>2. req # "start"
    BY <2>1 DEF Follows, InTurn
  <2>3. ASSUME NEW i \in 1..Len(rest), rest[i].kind = "response" PROVE FALSE
    <3>1. i + 1 = 1
      BY <1>5, <2>1, <2>3 DEF Follows, InTurn
    <3> QED
      BY <3>1
  <2> QED
    BY <2>2, <2>3 DEF Pending
<1>7. Refreshing(req, rest) <=> Refreshing(req, ch)
  BY <1>1, StillThere DEF Refreshing
<1>8. w.known
  BY <1>1, QueuedIs, ApplyAllType
<1>9. Ascending(ea) /\ \A i \in 1..Len(ea) : ea[i] \in 1..k
  BY DEF Follows, ShowsOrWaits
<1>10. (\A m \in 1..k : ~Sets(m)) => w.status = "queued"
  <2> SUFFICES ASSUME \A m \in 1..k : ~Sets(m) PROVE w.status = "queued"
    OBVIOUS
  <2>1. \A i \in 1..Len(ea) : ~Sets(ea[i])
    BY <1>9
  <2>2. w.status = Queued.status
    BY <1>1, <2>1, QueuedIs, ShownStatus DEF LastSets
  <2> QED
    BY <2>2, QueuedIs
<1>11. Holds(ea, k) => Shows(w.status, k)
  <2>1. Queued \in ViewType /\ ((\A m \in 1..k : ~Sets(m)) => Queued.status = "queued")
    BY QueuedIs
  <2> QED
    BY <1>1, <1>2, <1>9, <2>1, ShownBySequence
<1>12. Refreshing(req, ch) \/ Holds(ea, k)
  <2>1. Pending(req, ch)
    BY <1>5 DEF Pending
  <2> QED
    BY <2>1 DEF Follows, ShowsOrWaits
<1>13. Ascending(<<>>) /\ \A i \in 1..Len(<<>>) : <<>>[i] \in 1..k
  BY DEF Ascending
<1>14. req # "start"
  BY <1>6 DEF Pending
<1> HIDE DEF w, rest
<1>15. ShowsOrWaits(k, req, rest, w, <<>>)
  BY <1>6, <1>7, <1>8, <1>10, <1>11, <1>12, <1>13, <1>14 DEF ShowsOrWaits
<1>16. Follows(k, n, req, rest, w, <<>>)
  BY <1>3, <1>4, <1>15 DEF Follows
<1> QED
  BY <1>16 DEF w, rest

(* A replay is taken: it shows the status of the time the replay was made. *)
LEMMA FollowsReplayed ==
  ASSUME NEW n, NEW sub, NEW con, NEW own, NEW lag, NEW req, NEW ch, NEW v, NEW ea, NEW k \in 0..n,
         Typed(n, sub, con, own, lag, req, ch, v, ea), Fits(n, sub, con, own, lag, req, ch, v, ea),
         Follows(k, n, req, ch, v, ea), ch # <<>>, Head(ch).kind = "replay"
  PROVE  \E r \in 0..n :
           Follows(r, n, req, Tail(ch), ApplyAll(v, Head(ch).events \o ea), <<>>)
<1> DEFINE ev == Head(ch).events
           rest == Tail(ch)
<1>1. /\ n \in 0..Len(Stream) /\ Len(Stream) \in Nat /\ n \in Nat
      /\ ch \in Seq(Messages) /\ v \in ViewType
  BY ConstantsAssumption DEF Typed
<1>2. /\ Len(rest) = Len(ch) - 1 /\ Len(ch) \in Nat \ {0} /\ Head(ch) = ch[1] /\ 1 \in 1..Len(ch)
      /\ ev \in Seq(Numbers)
      /\ \A i \in 1..Len(rest) : rest[i] = ch[i + 1] /\ i + 1 \in 1..Len(ch)
  BY <1>1, ShorterChannel, MessageIs
<1>3. ~Pending(req, ch)
  <2>1. req # "start"
    BY <1>2 DEF Follows, InTurn
  <2>2. ASSUME NEW i \in 1..Len(ch), ch[i].kind = "response" PROVE FALSE
    <3>1. i < 1
      BY <1>2, <2>2 DEF Follows, InTurn
    <3> QED
      BY <3>1
  <2> QED
    BY <2>1, <2>2 DEF Pending
<1>4. ea = <<>> /\ v.known /\ ((\A m \in 1..k : ~Sets(m)) => v.status = "queued")
  BY <1>3 DEF Follows, ShowsOrWaits
<1>5. ev \o ea = ev
  BY <1>2, <1>4
<1>6. PICK r \in k..n : MadeAt(ch, 1, r)
  BY <1>2 DEF Follows, OnTheWay
<1>7. r \in 0..n /\ r \in 0..Len(Stream) /\ 1..k \subseteq 1..r
  BY <1>1, <1>6
<1>8. OnTheWay(r, n, rest)
  <2>1. Head(ch).kind # "event"
    OBVIOUS
  <2> QED
    BY <1>1, <1>6, <2>1, AnswerTakenOnTheWay DEF Follows
<1>9. InTurn(req, rest)
  BY <1>1, InTurnLater DEF Follows
<1>10. ~Pending(req, rest)
  BY <1>1, <1>3, StillThere DEF Pending
<1> DEFINE w == ApplyAll(v, ev)
<1>11. w.known
  BY <1>1, <1>2, <1>4, ApplyAllType
<1>12. (\A m \in 1..r : ~Sets(m)) => v.status = "queued"
  BY <1>4, <1>7
<1>13. (\A i \in 1..Len(ev) : ev[i] \in 1..r) /\ Holds(ev, r) /\ Ascending(ev)
  BY <1>2, <1>6 DEF MadeAt, Fits
<1>14. Shows(w.status, r)
  <2> HIDE DEF ev
  <2> QED
    BY <1>1, <1>2, <1>7, <1>12, <1>13, ShownBySequence
<1>15. (\A m \in 1..r : ~Sets(m)) => w.status = "queued"
  BY <1>14 DEF Shows
<1>16. Ascending(<<>>) /\ \A i \in 1..Len(<<>>) : <<>>[i] \in 1..r
  BY DEF Ascending
<1>17. req # "start"
  BY <1>3 DEF Pending
<1> HIDE DEF w, rest, ev
<1>18. ShowsOrWaits(r, req, rest, w, <<>>)
  BY <1>10, <1>11, <1>14, <1>15, <1>16, <1>17 DEF ShowsOrWaits
<1>19. Follows(r, n, req, rest, w, <<>>)
  BY <1>8, <1>9, <1>18 DEF Follows
<1>20. Follows(r, n, req, rest, ApplyAll(v, ev \o ea), <<>>)
  BY <1>5, <1>19 DEF w
<1> QED
  BY <1>7, <1>20 DEF rest, ev

(* While nothing has gone wrong for it, the starter follows.               *)
StarterFollows ==
  mishaps = {} =>
    /\ Starter \in connected
    /\ \E k \in 0..emitted :
         Follows(k, emitted, request[Starter], channel[Starter], view[Starter], early[Starter])

LEMMA StarterFollowsInit == Init => StarterFollows
<1> SUFFICES ASSUME Init PROVE StarterFollows
  OBVIOUS
<1> Starter \in Clients
  BY ConstantsAssumption
<1>1. /\ emitted = 0 /\ Starter \in connected /\ request[Starter] = "start"
      /\ channel[Starter] = <<>> /\ view[Starter] = Unknown /\ early[Starter] = <<>>
  BY DEF Init
<1>2. \A i \in 1..Len(<<>>) : FALSE
  OBVIOUS
<1>3. OnTheWay(0, 0, <<>>) /\ InTurn("start", <<>>)
  BY <1>2 DEF OnTheWay, InTurn
<1>4. Pending("start", <<>>) /\ Holds(<<>>, 0) /\ Ascending(<<>>)
  BY DEF Pending, Holds, Ascending
<1>5. ShowsOrWaits(0, "start", <<>>, Unknown, <<>>)
  BY <1>2, <1>4, QueuedIs DEF ShowsOrWaits
<1>6. Follows(0, 0, "start", <<>>, Unknown, <<>>)
  BY <1>3, <1>5 DEF Follows
<1> QED
  BY <1>1, <1>6 DEF StarterFollows

(* The new state, named for what has become of the k events heard.         *)
Heard(k) ==
  /\ Starter \in connected /\ mishaps = {}
  /\ k \in 0..emitted
  /\ Follows(k, emitted, request[Starter], channel[Starter], view[Starter], early[Starter])

LEMMA HeardSame ==
  ASSUME NEW k, Heard(k), Starter \in connected', mishaps' = {}, emitted' = emitted,
         request'[Starter] = request[Starter], channel'[Starter] = channel[Starter],
         view'[Starter] = view[Starter], early'[Starter] = early[Starter]
  PROVE  Heard(k)'
BY DEF Heard

LEMMA HeardEmit ==
  ASSUME Fitting, NEW k, Heard(k), Emit PROVE Heard(k)'
<1> DEFINE s == Starter
           m == [kind |-> "event", number |-> emitted + 1]
<1> s \in Clients
  BY ConstantsAssumption
<1>1. /\ Typed(emitted, s \in subscribed, s \in connected, Own(s), Lag(s), request[s],
               channel[s], view[s], early[s])
      /\ k \in 0..emitted /\ s \in connected /\ mishaps = {}
      /\ Follows(k, emitted, request[s], channel[s], view[s], early[s])
  BY DEF Fitting, ClientOK, Heard
<1>2. /\ emitted' = emitted + 1 /\ connected' = connected /\ emitted < Len(Stream)
      /\ request' = request /\ view' = view /\ early' = early /\ mishaps' = mishaps
      /\ channel' = [c \in Clients |-> IF c \in Receivers(emitted + 1) THEN Append(channel[c], m)
                                       ELSE channel[c]]
  BY DEF Emit, SendTo
<1>3. /\ emitted \in Nat /\ m \in Messages /\ m.kind = "event" /\ m.number = emitted + 1
  <2>1. emitted \in Nat /\ emitted + 1 \in Numbers
    BY <1>1, <1>2, ConstantsAssumption DEF Typed, Numbers
  <2> QED
    BY <2>1 DEF Messages
<1> HIDE DEF s, m
<1>4. k \in 0..(emitted + 1)
  BY <1>1, <1>3
<1>5. CASE s \in Receivers(emitted + 1)
  <2>1. channel'[s] = Append(channel[s], m)
    BY <1>2, <1>5
  <2>2. Follows(k, emitted + 1, request[s], Append(channel[s], m), view[s], early[s])
    BY <1>1, <1>3, FollowsEvent
  <2> QED
    BY <1>1, <1>2, <1>4, <2>1, <2>2 DEF Heard, s
<1>6. CASE s \notin Receivers(emitted + 1)
  <2>1. channel'[s] = channel[s] /\ IsRows(emitted + 1)
    BY <1>1, <1>2, <1>6 DEF Receivers
  <2>2. Follows(k, emitted + 1, request[s], channel[s], view[s], early[s])
    BY <1>1, <2>1, FollowsRow
  <2> QED
    BY <1>1, <1>2, <1>4, <2>1, <2>2 DEF Heard, s
<1> QED
  BY <1>5, <1>6

LEMMA HeardRespondStart ==
  ASSUME Fitting, NEW k, Heard(k), RespondStart PROVE Heard(k)'
<1> DEFINE s == Starter
           m == [kind |-> "response"]
<1> s \in Clients
  BY ConstantsAssumption
<1>1. /\ Typed(emitted, s \in subscribed, s \in connected, Own(s), Lag(s), request[s],
               channel[s], view[s], early[s])
      /\ Fits(emitted, s \in subscribed, s \in connected, Own(s), Lag(s), request[s],
              channel[s], view[s], early[s])
      /\ k \in 0..emitted /\ s \in connected /\ mishaps = {}
      /\ Follows(k, emitted, request[s], channel[s], view[s], early[s]) /\ TypeOK
  BY DEF Fitting, ClientOK, Heard
<1>2. /\ request[s] = "start" /\ request' = [request EXCEPT ![s] = "none"]
      /\ channel' = [channel EXCEPT ![s] = Append(channel[s], m)]
      /\ emitted' = emitted /\ connected' = connected /\ view' = view /\ early' = early
      /\ mishaps' = mishaps
  BY <1>1, SentToOne DEF RespondStart
<1>3. request'[s] = "none" /\ channel'[s] = Append(channel[s], m)
  BY <1>1, <1>2 DEF TypeOK
<1>4. m \in Messages /\ m.kind = "response"
  BY DEF Messages
<1> HIDE DEF s, m
<1>5. Follows(k, emitted, "none", Append(channel[s], m), view[s], early[s])
  BY <1>1, <1>2, <1>4, FollowsResponse
<1> QED
  BY <1>1, <1>2, <1>3, <1>5 DEF Heard, s

LEMMA HeardRespondSubscribe ==
  ASSUME Fitting, NEW k, Heard(k), RespondSubscribe(Starter) PROVE Heard(k)'
<1> DEFINE s == Starter
           m == [kind |-> "replay", events |-> Replay]
<1> s \in Clients
  BY ConstantsAssumption
<1>1. /\ Typed(emitted, s \in subscribed, s \in connected, Own(s), Lag(s), request[s],
               channel[s], view[s], early[s])
      /\ Fits(emitted, s \in subscribed, s \in connected, Own(s), Lag(s), request[s],
              channel[s], view[s], early[s])
      /\ k \in 0..emitted /\ s \in connected /\ mishaps = {}
      /\ Follows(k, emitted, request[s], channel[s], view[s], early[s]) /\ TypeOK
  BY DEF Fitting, ClientOK, Heard
<1>2. /\ request[s] = "subscribe" /\ request' = [request EXCEPT ![s] = "none"]
      /\ channel' = [channel EXCEPT ![s] = Append(channel[s], m)]
      /\ emitted' = emitted /\ connected' = connected /\ view' = view /\ early' = early
      /\ mishaps' = mishaps
  BY <1>1, SentToOne DEF RespondSubscribe
<1>3. request'[s] = "none" /\ channel'[s] = Append(channel[s], m)
  BY <1>1, <1>2 DEF TypeOK
<1>4. /\ m \in Messages /\ m.kind = "replay" /\ Holds(m.events, emitted)
      /\ \A e \in 1..Len(m.events) : m.events[e] \in 1..emitted
  <2> DEFINE ev == Replay
  <2>1. emitted \in 0..Len(Stream) /\ Len(Stream) \in Nat
    BY <1>1, ConstantsAssumption DEF TypeOK
  <2>2. ev \in Seq(1..emitted) /\ Holds(ev, emitted)
    BY <2>1, ReplayIs DEF Holds
  <2> HIDE DEF ev
  <2>3. ev \in Seq(Numbers) /\ \A e \in 1..Len(ev) : ev[e] \in 1..emitted
    BY <2>1, <2>2 DEF Numbers
  <2>4. /\ [kind |-> "replay", events |-> ev] \in Messages
        /\ [kind |-> "replay", events |-> ev].kind = "replay"
        /\ [kind |-> "replay", events |-> ev].events = ev
    BY <2>3 DEF Messages
  <2> QED
    BY <2>2, <2>3, <2>4 DEF ev
<1> HIDE DEF s, m
<1>5. Follows(k, emitted, "none", Append(channel[s], m), view[s], early[s])
  BY <1>1, <1>2, <1>4, FollowsReplay
<1> QED
  BY <1>1, <1>2, <1>3, <1>5 DEF Heard, s

LEMMA HeardReceive ==
  ASSUME LifecycleFits, Fitting, NEW k, Heard(k), Receive(Starter)
  PROVE  \E l \in 0..emitted : Heard(l)'
<1> DEFINE s == Starter
<1> s \in Clients
  BY ConstantsAssumption
<1>1. /\ Typed(emitted, s \in subscribed, s \in connected, Own(s), Lag(s), request[s],
               channel[s], view[s], early[s])
      /\ Fits(emitted, s \in subscribed, s \in connected, Own(s), Lag(s), request[s],
              channel[s], view[s], early[s])
      /\ k \in 0..emitted /\ s \in connected /\ mishaps = {}
      /\ Follows(k, emitted, request[s], channel[s], view[s], early[s]) /\ TypeOK
  BY DEF Fitting, ClientOK, Heard
<1>2. /\ channel[s] # <<>> /\ Take(s)
      /\ emitted' = emitted /\ connected' = connected /\ request' = request
      /\ mishaps' = mishaps
      /\ ReceiveEvent(s) \/ ReceiveResponse(s) \/ ReceiveReplay(s)
  <2>1. channel[s] # <<>> => Head(channel[s]) = channel[s][1] /\ 1 \in 1..Len(channel[s])
    BY <1>1, ShorterChannel DEF Typed
  <2>2. ~ReceiveRefusal(s) /\ ~ReceiveIgnored(s)
    BY <1>1, <2>1 DEF ReceiveRefusal, ReceiveIgnored, Follows, InTurn
  <2> QED
    BY <2>2 DEF Receive, ReceiveEvent, ReceiveResponse, ReceiveReplay
<1>3. channel'[s] = Tail(channel[s])
  BY <1>1, <1>2 DEF Take, TypeOK
<1> HIDE DEF s
<1>4. ASSUME NEW l \in 0..emitted, Follows(l, emitted, request[s], Tail(channel[s]), view'[s], early'[s])
      PROVE  \E j \in 0..emitted : Heard(j)'
  <2>1. Heard(l)'
    BY <1>1, <1>2, <1>3, <1>4 DEF Heard, s
  <2> QED
    BY <2>1
<1>5. CASE ReceiveEvent(s)
  <2> DEFINE h == Head(channel[s]).number
             put == IF Len(early[s]) < EarlyCap THEN Append(early[s], h) ELSE early[s]
  <2>1. Head(channel[s]).kind = "event"
    BY <1>5 DEF ReceiveEvent
  <2>2. h \in k + 1..emitted /\ emitted \in Nat
    BY <1>1, <1>2, <2>1, HeadHeard
  <2>3. h \in 0..emitted
    BY <1>1, <2>2
  <2>4. CASE view[s].known
    <3>1. view' = [view EXCEPT ![s] = Apply(view[s], h)] /\ early' = early
      BY <1>5, <2>4 DEF ReceiveEvent
    <3> HIDE DEF h
    <3>2. view'[s] = Apply(view[s], h) /\ early'[s] = early[s]
      BY <1>1, <3>1 DEF TypeOK
    <3>3. Follows(h, emitted, request[s], Tail(channel[s]), Apply(view[s], h), early[s])
      BY <1>1, <1>2, <2>1, <2>4, FollowsShown DEF h
    <3> QED
      BY <1>4, <2>3, <3>2, <3>3
  <2>5. CASE ~view[s].known
    <3>1. early' = [early EXCEPT ![s] = put] /\ view' = view
      BY <1>5, <2>5 DEF ReceiveEvent
    <3> HIDE DEF put
    <3>2. view'[s] = view[s] /\ early'[s] = put
      BY <1>1, <3>1 DEF TypeOK
    <3>3. Follows(h, emitted, request[s], Tail(channel[s]), view[s], put)
      <4> DEFINE own == Own(s)
                 sub == s \in subscribed
      <4>1. (s \in connected) = TRUE /\ Lag(s) = FALSE
        BY <1>1 DEF Lag
      <4>2. /\ Typed(emitted, sub, TRUE, own, FALSE, request[s], channel[s], view[s], early[s])
            /\ Fits(emitted, sub, TRUE, own, FALSE, request[s], channel[s], view[s], early[s])
        BY <1>1, <4>1
      <4>3. Head(channel[s]).kind = "event" /\ ~view[s].known /\ channel[s] # <<>>
        BY <1>2, <2>1, <2>5
      <4>4. k \in 0..emitted /\ Follows(k, emitted, request[s], channel[s], view[s], early[s])
        BY <1>1
      <4> HIDE DEF own, sub
      <4> QED
        BY <4>2, <4>3, <4>4, FollowsPutBy DEF put, h
    <3> HIDE DEF h
    <3> QED
      BY <1>4, <2>3, <3>2, <3>3
  <2> QED
    BY <2>4, <2>5
<1>6. CASE ReceiveResponse(s)
  <2> DEFINE w == ApplyAll(Queued, early[s])
  <2>1. /\ Head(channel[s]).kind = "response"
        /\ view' = [view EXCEPT ![s] = w] /\ early' = [early EXCEPT ![s] = <<>>]
    BY <1>6 DEF ReceiveResponse
  <2>2. Follows(k, emitted, request[s], Tail(channel[s]), w, <<>>)
    BY <1>1, <1>2, <2>1, FollowsTold
  <2> HIDE DEF w
  <2>3. view'[s] = w /\ early'[s] = <<>>
    BY <1>1, <2>1 DEF TypeOK
  <2> QED
    BY <1>1, <1>4, <2>2, <2>3
<1>7. CASE ReceiveReplay(s)
  <2> DEFINE w == ApplyAll(view[s], Head(channel[s]).events \o early[s])
  <2>1. /\ Head(channel[s]).kind = "replay"
        /\ view' = [view EXCEPT ![s] = w] /\ early' = [early EXCEPT ![s] = <<>>]
    BY <1>7 DEF ReceiveReplay
  <2>2. PICK r \in 0..emitted : Follows(r, emitted, request[s], Tail(channel[s]), w, <<>>)
    BY <1>1, <1>2, <2>1, FollowsReplayed
  <2> HIDE DEF w
  <2>3. view'[s] = w /\ early'[s] = <<>>
    BY <1>1, <2>1 DEF TypeOK
  <2> QED
    BY <1>4, <2>2, <2>3
<1> QED
  BY <1>2, <1>5, <1>6, <1>7

LEMMA HeardOpen ==
  ASSUME Fitting, NEW k, Heard(k), Open(Starter) PROVE Heard(k)'
<1> DEFINE s == Starter
           w == IF view[s].known THEN view[s] ELSE Queued
<1> s \in Clients
  BY ConstantsAssumption
<1>1. /\ k \in 0..emitted /\ s \in connected /\ mishaps = {}
      /\ Follows(k, emitted, request[s], channel[s], view[s], early[s]) /\ TypeOK
  BY DEF Fitting, Heard
<1>2. /\ request[s] = "none" /\ request' = [request EXCEPT ![s] = "subscribe"]
      /\ view' = [view EXCEPT ![s] = w]
      /\ emitted' = emitted /\ connected' = connected /\ channel' = channel /\ early' = early
      /\ mishaps' = mishaps
  BY DEF Open
<1>3. Follows(k, emitted, "subscribe", channel[s], w, early[s])
  BY <1>1, <1>2, FollowsOpened
<1> HIDE DEF w
<1>4. request'[s] = "subscribe" /\ view'[s] = w
  BY <1>1, <1>2 DEF TypeOK
<1> HIDE DEF s
<1> QED
  BY <1>1, <1>2, <1>3, <1>4 DEF Heard, s

(* What another client does leaves the starter as it is.                   *)
LEMMA HeardOther ==
  ASSUME Fitting, NEW k, Heard(k), NEW c \in Clients, c # Starter,
         \/ AnswerSubscribe(c) \/ Receive(c) \/ Open(c) \/ TimeOutUnanswered(c)
         \/ TimeOutAnswered(c) \/ Disconnect(c) \/ Reconnect(c)
  PROVE  Heard(k)'
<1> DEFINE s == Starter
           Same == /\ emitted' = emitted /\ s \in connected' /\ mishaps' = mishaps
                   /\ request'[s] = request[s] /\ channel'[s] = channel[s]
                   /\ view'[s] = view[s] /\ early'[s] = early[s]
<1> s \in Clients /\ TypeOK /\ s \in connected /\ mishaps = {} /\ c # s
  BY ConstantsAssumption DEF Fitting, Heard
<1> SUFFICES Same
  BY HeardSame
<1>1. CASE AnswerSubscribe(c)
  <2>1. CASE RespondSubscribe(c)
    BY <2>1 DEF RespondSubscribe, TypeOK, SendTo
  <2>2. CASE RefuseSubscribe(c)
    BY <2>2 DEF RefuseSubscribe, TypeOK, SendTo, Mishap
  <2> QED
    BY <1>1, <2>1, <2>2 DEF AnswerSubscribe
<1>2. CASE Receive(c)
  <2>1. CASE ReceiveEvent(c)
    BY <2>1 DEF ReceiveEvent, TypeOK, Take
  <2>2. CASE ReceiveResponse(c) \/ ReceiveReplay(c)
    BY <2>2 DEF ReceiveResponse, ReceiveReplay, TypeOK, Take
  <2>3. CASE ReceiveRefusal(c) \/ ReceiveIgnored(c)
    BY <2>3 DEF ReceiveRefusal, ReceiveIgnored, TypeOK, Take
  <2> QED
    BY <1>2, <2>1, <2>2, <2>3 DEF Receive
<1>3. CASE Open(c)
  BY <1>3 DEF Open, TypeOK
<1>4. CASE TimeOutUnanswered(c)
  BY <1>4 DEF TimeOutUnanswered, GiveUp, Mishap, TypeOK
<1>5. CASE TimeOutAnswered(c)
  BY <1>5 DEF TimeOutAnswered, GiveUp, Mishap, TypeOK
<1>6. CASE Disconnect(c)
  BY <1>6 DEF Disconnect, CloseSockets, TypeOK
<1>7. CASE Reconnect(c)
  BY <1>7 DEF Reconnect, TypeOK
<1> QED
  BY <1>1, <1>2, <1>3, <1>4, <1>5, <1>6, <1>7

(* What has gone wrong for the starter stays on record, and every way it   *)
(* can go wrong is.                                                        *)
LEMMA MishapsStay ==
  ASSUME [Next]_vars PROVE mishaps \subseteq mishaps'
<1>1. CASE Emit \/ Expire \/ RespondStart
  BY <1>1 DEF Emit, Expire, RespondStart
<1>2. CASE Restart
  BY <1>2 DEF Restart, CloseSockets
<1>3. ASSUME NEW c \in Clients,
             \/ AnswerSubscribe(c) \/ \E what \in {"start", "subscribe"} : CarryOutLate(c, what)
             \/ Receive(c) \/ Open(c) \/ TimeOutUnanswered(c) \/ TimeOutAnswered(c)
             \/ Disconnect(c) \/ Reconnect(c)
      PROVE  mishaps \subseteq mishaps'
  <2>1. CASE AnswerSubscribe(c)
    BY <2>1 DEF AnswerSubscribe, RespondSubscribe, RefuseSubscribe, Mishap
  <2>2. CASE \E what \in {"start", "subscribe"} : CarryOutLate(c, what)
    BY <2>2 DEF CarryOutLate
  <2>3. CASE Receive(c)
    BY <2>3 DEF Receive, ReceiveEvent, ReceiveResponse, ReceiveReplay, ReceiveRefusal,
                ReceiveIgnored
  <2>4. CASE Open(c) \/ Reconnect(c)
    BY <2>4 DEF Open, Reconnect
  <2>5. CASE TimeOutUnanswered(c) \/ TimeOutAnswered(c)
    BY <2>5 DEF TimeOutUnanswered, TimeOutAnswered, GiveUp, Mishap
  <2>6. CASE Disconnect(c)
    BY <2>6 DEF Disconnect, CloseSockets
  <2> QED
    BY <1>3, <2>1, <2>2, <2>3, <2>4, <2>5, <2>6
<1>4. CASE UNCHANGED vars
  BY <1>4 DEF vars
<1> QED
  BY <1>1, <1>2, <1>3, <1>4 DEF Next

LEMMA StarterFollowsStep ==
  ASSUME LifecycleFits, Fitting, StarterFollows, [Next]_vars PROVE StarterFollows'
<1> SUFFICES ASSUME mishaps' = {} PROVE \E l : Heard(l)'
  BY DEF StarterFollows, Heard
<1>1. mishaps = {} /\ Starter \in Clients
  BY MishapsStay, ConstantsAssumption
<1>2. PICK k : Heard(k)
  BY <1>1 DEF StarterFollows, Heard
<1>3. CASE Emit
  BY <1>2, <1>3, HeardEmit
<1>4. CASE Expire
  BY <1>1, <1>2, <1>4, HeardSame DEF Expire, Heard
<1>5. CASE RespondStart
  BY <1>2, <1>5, HeardRespondStart
<1>6. ~Restart
  BY <1>1 DEF Restart, CloseSockets
<1>7. ASSUME NEW c \in Clients, NEW what \in {"start", "subscribe"}, CarryOutLate(c, what)
      PROVE  \E l : Heard(l)'
  BY <1>1, <1>2, <1>7, HeardSame DEF CarryOutLate, Heard
<1>8. ASSUME NEW c \in Clients,
             \/ AnswerSubscribe(c) \/ Receive(c) \/ Open(c) \/ TimeOutUnanswered(c)
             \/ TimeOutAnswered(c) \/ Disconnect(c) \/ Reconnect(c)
      PROVE  \E l : Heard(l)'
  <2>1. CASE c # Starter
    BY <1>2, <1>8, <2>1, HeardOther
  <2>2. CASE c = Starter
    <3>1. ~Reconnect(Starter)
      BY <1>2 DEF Heard, Reconnect
    <3>2. /\ ~RefuseSubscribe(Starter) /\ ~TimeOutUnanswered(Starter)
          /\ ~TimeOutAnswered(Starter)
      BY DEF RefuseSubscribe, TimeOutUnanswered, TimeOutAnswered, GiveUp, Mishap
    <3>3. ~Disconnect(Starter)
      BY DEF Disconnect, CloseSockets
    <3>4. CASE RespondSubscribe(Starter)
      BY <1>2, <3>4, HeardRespondSubscribe
    <3>5. CASE Receive(Starter)
      BY <1>2, <3>5, HeardReceive
    <3>6. CASE Open(Starter)
      BY <1>2, <3>6, HeardOpen
    <3> QED
      BY <1>8, <2>2, <3>1, <3>2, <3>3, <3>4, <3>5, <3>6 DEF AnswerSubscribe
  <2> QED
    BY <2>1, <2>2
<1>9. CASE UNCHANGED vars
  BY <1>1, <1>2, <1>9, HeardSame DEF vars, Heard
<1> QED
  BY <1>3, <1>4, <1>5, <1>6, <1>7, <1>8, <1>9 DEF Next

(* Caught up, it shows the status the execution has, provided that what is *)
(* put by for an execution not yet known can hold every event but the row  *)
(* batches.                                                                *)
THEOREM StarterShowsStatus ==
  ASSUME LifecycleFits PROVE Spec => []StarterShowsTheStatus
<1>1. Fitting /\ StarterFollows => StarterShowsTheStatus
  <2> SUFFICES ASSUME Fitting, StarterFollows, mishaps = {}, CaughtUp(Starter)
               PROVE  view[Starter].status = StatusAt(emitted)
    BY DEF StarterShowsTheStatus
  <2> DEFINE ch == channel[Starter]
             st == view[Starter].status
  <2>1. /\ emitted \in 0..Len(Stream) /\ emitted \in Nat
        /\ view[Starter].known /\ request[Starter] = "none" /\ ch = <<>>
    BY ConstantsAssumption DEF Fitting, TypeOK, CaughtUp
  <2>2. PICK k \in 0..emitted :
          Follows(k, emitted, request[Starter], ch, view[Starter], early[Starter])
    BY DEF StarterFollows
  <2>3. \A i \in 1..Len(ch) : FALSE
    BY <2>1
  <2> HIDE DEF ch, st
  <2>4. ~Refreshing(request[Starter], ch)
    BY <2>1, <2>3 DEF Refreshing
  <2>5. Shows(st, k)
    BY <2>1, <2>2, <2>4 DEF Follows, ShowsOrWaits, st
  <2>6. \A m \in (k + 1)..emitted : IsRows(m)
    BY <2>2, <2>3 DEF Follows, OnTheWay
  <2>7. Shows(st, emitted)
    <3>1. k \in Nat /\ k <= emitted /\ \A m \in (k + 1)..emitted : ~Sets(m)
      BY <2>1, <2>6, SetsNoRows
    <3> QED
      BY <2>1, <2>5, <3>1, ShowsFurther
  <2>8. Shows(StatusAt(emitted), emitted)
    BY <2>1, StatusAtIs
  <2>9. st = StatusAt(emitted)
    BY <2>1, <2>7, <2>8, ShowsOne
  <2> QED
    BY <2>9 DEF st
<1>2. Init => Fitting /\ StarterFollows
  BY FittingInit, StarterFollowsInit
<1>3. (Fitting /\ StarterFollows) /\ [Next]_vars => (Fitting /\ StarterFollows)'
  BY FittingStep, StarterFollowsStep
<1> QED
  BY <1>1, <1>2, <1>3, PTL DEF Spec

-----------------------------------------------------------------------------
(* The sessions on one SQLite file.                                        *)

(* The pragma is on only while some sandbox is open.                       *)
OnForSomebody == queryOnly => \E e \in Sandbox : IsOpen(e)

(* ... and whenever one is that no other sandbox has exposed.              *)
OnForTheUnexposed == \A e \in Sandbox : IsOpen(e) /\ e \notin exposed => queryOnly

-----------------------------------------------------------------------------

(* Every variable keeps its type (sqlite/adapter.ts, run and close).       *)
THEOREM SqliteTypeCorrect == SqliteSpec => []SqliteTypeOK
<1>1. SqliteInit => SqliteTypeOK
  <2> SUFFICES ASSUME SqliteInit PROVE SqliteTypeOK
    OBVIOUS
  <2>1. written \subseteq Executions \X Nat /\ exposed \subseteq Sandbox
    BY DEF SqliteInit
  <2>2. pc \in [Executions -> {"idle", "next", "running", "closing", "done"}]
    BY DEF SqliteInit
  <2>3. position \in [Executions -> Nat \ {0}]
    BY DEF SqliteInit
  <2>4. outcome \in [Executions -> {"none", "completed", "cancelled", "failed"}]
    BY DEF SqliteInit
  <2>5. stop \in [Executions -> BOOLEAN] /\ queryOnly \in BOOLEAN
    BY DEF SqliteInit
  <2> QED
    BY <2>1, <2>2, <2>3, <2>4, <2>5 DEF SqliteTypeOK
<1>2. SqliteTypeOK /\ [SqliteNext]_sessionVars => SqliteTypeOK'
  <2> SUFFICES ASSUME SqliteTypeOK, [SqliteNext]_sessionVars PROVE SqliteTypeOK'
    OBVIOUS
  <2> USE DEF SqliteTypeOK, Goto, Return
  <2>1. ASSUME NEW e \in Executions, Begin(e) PROVE SqliteTypeOK'
    BY <2>1 DEF Begin
  <2>2. ASSUME NEW e \in Executions, StopOrComplete(e) PROVE SqliteTypeOK'
    BY <2>2 DEF StopOrComplete
  <2>3. ASSUME NEW e \in Executions, StartStatement(e) PROVE SqliteTypeOK'
    BY <2>3 DEF StartStatement
  <2>4. ASSUME NEW e \in Executions, Succeed(e) PROVE SqliteTypeOK'
    BY <2>4 DEF Succeed
  <2>5. ASSUME NEW e \in Executions, Truncate(e) PROVE SqliteTypeOK'
    BY <2>5 DEF Truncate
  <2>6. ASSUME NEW e \in Executions, Fail(e) PROVE SqliteTypeOK'
    BY <2>6 DEF Fail
  <2>7. ASSUME NEW e \in Executions, Close(e) PROVE SqliteTypeOK'
    BY <2>7 DEF Close, Expose
  <2>8. ASSUME NEW e \in Executions, RequestCancel(e) PROVE SqliteTypeOK'
    BY <2>8 DEF RequestCancel
  <2>9. CASE UNCHANGED sessionVars
    BY <2>9 DEF sessionVars
  <2> QED
    BY <2>1, <2>2, <2>3, <2>4, <2>5, <2>6, <2>7, <2>8, <2>9 DEF SqliteNext
<1> QED
  BY <1>1, <1>2, PTL DEF SqliteSpec

(* Between Begin and Close nothing touches the pragma, and the session     *)
(* stays open.                                                             *)
LEMMA InBetween ==
  ASSUME SqliteTypeOK, NEW e \in Executions,
         \/ StopOrComplete(e) \/ StartStatement(e) \/ Succeed(e) \/ Truncate(e)
         \/ Fail(e) \/ RequestCancel(e)
  PROVE  /\ queryOnly' = queryOnly /\ exposed' = exposed
         /\ \A x \in Executions : IsOpen(x)' <=> IsOpen(x)
BY DEF SqliteTypeOK, StopOrComplete, StartStatement, Succeed, Truncate, Fail, RequestCancel,
       Goto, Return, IsOpen

(* However sandboxes overlap, once all are closed the file is writable     *)
(* again (sqlite/adapter.ts close()).                                      *)
THEOREM PragmaComesBack == SqliteSpec => []PragmaPutBack
<1>1. SqliteInit => OnForSomebody
  BY DEF SqliteInit, OnForSomebody
<1>2. SqliteTypeOK /\ OnForSomebody /\ [SqliteNext]_sessionVars => OnForSomebody'
  <2> SUFFICES ASSUME SqliteTypeOK, OnForSomebody, [SqliteNext]_sessionVars PROVE OnForSomebody'
    OBVIOUS
  <2> USE SqliteConstants
  <2>1. ASSUME NEW e \in Executions, Begin(e) PROVE OnForSomebody'
    BY <2>1 DEF SqliteTypeOK, Begin, Goto, OnForSomebody, IsOpen
  <2>2. ASSUME NEW e \in Executions, Close(e) PROVE OnForSomebody'
    BY <2>2 DEF SqliteTypeOK, Close, Goto, OnForSomebody, IsOpen
  <2>3. CASE UNCHANGED sessionVars
    BY <2>3 DEF sessionVars, OnForSomebody, IsOpen
  <2> QED
    BY <2>1, <2>2, <2>3, InBetween DEF SqliteNext, OnForSomebody
<1>3. OnForSomebody => PragmaPutBack
  BY DEF OnForSomebody, PragmaPutBack, IsOpen
<1> QED
  BY <1>1, <1>2, <1>3, SqliteTypeCorrect, PTL DEF SqliteSpec

(* A sandboxed execution during whose session no other sandbox closed      *)
(* writes nothing, however many sandboxes and editors share the file       *)
(* (sqlite/adapter.ts beginExecution() and close()).                       *)
THEOREM UnexposedSandboxWritesNothing == SqliteSpec => []SandboxWritesNothing
<1> DEFINE Inv == OnForTheUnexposed /\ SandboxWritesNothing
<1>1. SqliteInit => Inv
  BY SqliteConstants DEF SqliteInit, OnForTheUnexposed, SandboxWritesNothing, IsOpen
<1>2. SqliteTypeOK /\ Inv /\ [SqliteNext]_sessionVars => Inv'
  <2> SUFFICES ASSUME SqliteTypeOK, Inv, [SqliteNext]_sessionVars PROVE Inv'
    OBVIOUS
  <2> USE SqliteConstants
  <2>1. OnForTheUnexposed'
    <3>1. ASSUME NEW e \in Executions, Begin(e) PROVE OnForTheUnexposed'
      BY <3>1 DEF SqliteTypeOK, Begin, Goto, OnForTheUnexposed, IsOpen
    <3>2. ASSUME NEW e \in Executions, Close(e) PROVE OnForTheUnexposed'
      <4> SUFFICES ASSUME NEW x \in Sandbox, IsOpen(x)', x \notin exposed' PROVE queryOnly'
        BY DEF OnForTheUnexposed
      <4>1. x # e /\ IsOpen(x) /\ x \notin exposed
        BY <3>2 DEF SqliteTypeOK, Close, Expose, Goto, IsOpen
      <4>2. e \notin Sandbox
        BY <3>2, <4>1 DEF Close, Expose
      <4> QED
        BY <3>2, <4>1, <4>2 DEF Close, OnForTheUnexposed
    <3>3. CASE UNCHANGED sessionVars
      BY <3>3 DEF sessionVars, OnForTheUnexposed, IsOpen
    <3> QED
      BY <3>1, <3>2, <3>3, InBetween DEF SqliteNext, OnForTheUnexposed
  <2>2. SandboxWritesNothing'
    <3>1. ASSUME NEW e \in Executions, Succeed(e) PROVE SandboxWritesNothing'
      BY <3>1 DEF Succeed, Refused, SandboxWritesNothing, OnForTheUnexposed, IsOpen
    <3>2. CASE written' = written /\ exposed \subseteq exposed'
      BY <3>2 DEF SandboxWritesNothing
    <3> QED
      BY <3>1, <3>2 DEF SqliteNext, sessionVars, Begin, StopOrComplete, StartStatement, Truncate, Fail,
                        Close, Expose, RequestCancel
  <2> QED
    BY <2>1, <2>2
<1>3. Inv => SandboxWritesNothing
  OBVIOUS
<1> HIDE DEF Inv
<1> QED
  BY <1>1, <1>2, <1>3, SqliteTypeCorrect, PTL DEF SqliteSpec
=============================================================================
