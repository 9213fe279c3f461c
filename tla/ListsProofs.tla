----------------------------- MODULE ListsProofs ----------------------------
(***************************************************************************)
(* What the operations on one state list do to its elements.  A list is a  *)
(* sequence without duplicates; each lemma says which processes are on the *)
(* list afterwards, and that it still has no duplicates.                   *)
(***************************************************************************)
EXTENDS Lists, FiniteSetTheorems, FunctionTheorems, TLAPS

\* insertHead() adds p, and creates no duplicate of a process that was not there.
LEMMA InsertHeadLemma ==
  ASSUME NEW S, NEW s \in Seq(S), NEW p \in S
  PROVE  /\ insertHead(s, p) \in Seq(S)
         /\ Range(insertHead(s, p)) = Range(s) \cup {p}
         /\ NoDuplicates(s) /\ p \notin Range(s) => NoDuplicates(insertHead(s, p))
<1> DEFINE t == <<p>> \o s
<1>1. /\ t \in Seq(S) /\ Len(t) = Len(s) + 1 /\ Len(s) \in Nat
      /\ DOMAIN t = 1 .. Len(s) + 1 /\ DOMAIN s = 1 .. Len(s)
      /\ t[1] = p /\ \A i \in 1 .. Len(s) : t[i + 1] = s[i]
  OBVIOUS
<1>2. \A i \in DOMAIN t : i = 1 \/ (i - 1 \in DOMAIN s /\ t[i] = s[i - 1])
  BY <1>1
<1>3. Range(t) = Range(s) \cup {p}
  <2>1. ASSUME NEW x \in Range(t) PROVE x \in Range(s) \cup {p}
    BY <1>1, <1>2 DEF Range
  <2>2. ASSUME NEW x \in Range(s) PROVE x \in Range(t)
    <3>1. PICK i \in DOMAIN s : x = s[i]
      BY DEF Range
    <3>2. i + 1 \in DOMAIN t /\ t[i + 1] = x
      BY <1>1, <3>1
    <3> QED BY <3>2 DEF Range
  <2>3. p \in Range(t)
    BY <1>1 DEF Range
  <2> QED BY <2>1, <2>2, <2>3
<1>4. ASSUME NoDuplicates(s), p \notin Range(s) PROVE NoDuplicates(t)
  <2> SUFFICES ASSUME NEW i \in DOMAIN t, NEW j \in DOMAIN t, t[i] = t[j]
               PROVE  i = j
    BY DEF NoDuplicates
  <2>1. \A k \in DOMAIN s : s[k] # p
    BY <1>4 DEF Range
  <2> QED BY <1>1, <1>2, <1>4, <2>1 DEF NoDuplicates
<1> HIDE DEF t
<1> QED BY <1>1, <1>3, <1>4 DEF insertHead, t

\* insertTail() likewise.
LEMMA InsertTailLemma ==
  ASSUME NEW S, NEW s \in Seq(S), NEW p \in S
  PROVE  /\ insertTail(s, p) \in Seq(S)
         /\ Range(insertTail(s, p)) = Range(s) \cup {p}
         /\ NoDuplicates(s) /\ p \notin Range(s) => NoDuplicates(insertTail(s, p))
<1> DEFINE t == Append(s, p)
<1>1. /\ t \in Seq(S) /\ Len(t) = Len(s) + 1 /\ Len(s) \in Nat
      /\ DOMAIN t = 1 .. Len(s) + 1 /\ DOMAIN s = 1 .. Len(s)
      /\ t[Len(s) + 1] = p /\ \A i \in 1 .. Len(s) : t[i] = s[i]
  OBVIOUS
<1>2. \A i \in DOMAIN t : i = Len(s) + 1 \/ (i \in DOMAIN s /\ t[i] = s[i])
  BY <1>1
<1>3. Range(t) = Range(s) \cup {p}
  <2>1. ASSUME NEW x \in Range(t) PROVE x \in Range(s) \cup {p}
    BY <1>1, <1>2 DEF Range
  <2>2. ASSUME NEW x \in Range(s) PROVE x \in Range(t)
    <3>1. PICK i \in DOMAIN s : x = s[i]
      BY DEF Range
    <3>2. i \in DOMAIN t /\ t[i] = x
      BY <1>1, <3>1
    <3> QED BY <3>2 DEF Range
  <2>3. p \in Range(t)
    BY <1>1 DEF Range
  <2> QED BY <2>1, <2>2, <2>3
<1>4. ASSUME NoDuplicates(s), p \notin Range(s) PROVE NoDuplicates(t)
  <2> SUFFICES ASSUME NEW i \in DOMAIN t, NEW j \in DOMAIN t, t[i] = t[j]
               PROVE  i = j
    BY DEF NoDuplicates
  <2>1. \A k \in DOMAIN s : s[k] # p
    BY <1>4 DEF Range
  <2> QED BY <1>1, <1>2, <1>4, <2>1 DEF NoDuplicates
<1> HIDE DEF t
<1> QED BY <1>1, <1>3, <1>4 DEF insertTail, t

\* removeFromStateList() takes p off the list, and nothing else.
LEMMA RemoveLemma ==
  ASSUME NEW S, NEW s \in Seq(S), NEW p, NoDuplicates(s)
  PROVE  /\ removeFromStateList(s, p) \in Seq(S)
         /\ Range(removeFromStateList(s, p)) = Range(s) \ {p}
         /\ NoDuplicates(removeFromStateList(s, p))
<1>1. CASE p \notin Range(s)
  BY <1>1 DEF removeFromStateList
<1>2. CASE p \in Range(s)
  <2> DEFINE i == FirstIndex(s, p)
             n == Len(s) - 1
             t == [j \in 1 .. n |-> IF j < i THEN s[j] ELSE s[j + 1]]
  <2>1. i \in DOMAIN s /\ s[i] = p
    <3>1. PICK k \in DOMAIN s : s[k] = p
      BY <1>2 DEF Range
    <3>2. \A j \in 1 .. k - 1 : s[j] # p
      BY <3>1 DEF NoDuplicates
    <3> QED BY <3>1, <3>2 DEF FirstIndex
  <2>2. DOMAIN s = 1 .. Len(s) /\ Len(s) \in Nat /\ n \in Nat /\ i \in 1 .. Len(s)
    BY <2>1
  <2> HIDE DEF i
  <2>3. \A j \in 1 .. n : j \in DOMAIN s /\ j + 1 \in DOMAIN s
    BY <2>2
  <2>4. t \in Seq(S) /\ DOMAIN t = 1 .. n
    BY <2>2, <2>3
  <2>5. \A j \in 1 .. n : t[j] = IF j < i THEN s[j] ELSE s[j + 1]
    OBVIOUS
  <2> HIDE DEF t
  <2>6. Range(t) = Range(s) \ {p}
    <3>1. ASSUME NEW x \in Range(t) PROVE x \in Range(s) \ {p}
      <4>1. PICK j \in 1 .. n : x = t[j]
        BY <2>4 DEF Range
      <4>2. PICK k \in DOMAIN s : x = s[k] /\ k # i
        BY <4>1, <2>5, <2>3, <2>2
      <4> QED BY <4>2, <2>1 DEF Range, NoDuplicates
    <3>2. ASSUME NEW x \in Range(s) \ {p} PROVE x \in Range(t)
      <4>1. PICK k \in DOMAIN s : x = s[k]
        BY DEF Range
      <4>2. k # i
        BY <4>1, <2>1
      <4>3. CASE k < i
        <5>1. k \in 1 .. n /\ t[k] = x
          BY <4>1, <4>3, <2>2, <2>5
        <5> QED BY <5>1, <2>4 DEF Range
      <4>4. CASE k > i
        <5>1. k - 1 \in 1 .. n /\ t[k - 1] = x
          BY <4>1, <4>4, <2>2, <2>5
        <5> QED BY <5>1, <2>4 DEF Range
      <4> QED BY <4>2, <4>3, <4>4, <2>2
    <3> QED BY <3>1, <3>2
  <2>7. NoDuplicates(t)
    <3> SUFFICES ASSUME NEW j \in 1 .. n, NEW k \in 1 .. n, t[j] = t[k]
                 PROVE  j = k
      BY <2>4 DEF NoDuplicates
    <3> DEFINE at(x) == IF x < i THEN x ELSE x + 1
    <3>1. /\ at(j) \in DOMAIN s /\ t[j] = s[at(j)]
          /\ at(k) \in DOMAIN s /\ t[k] = s[at(k)]
      BY <2>3, <2>5
    <3>2. at(j) = at(k)
      BY <3>1 DEF NoDuplicates
    <3> QED BY <2>2, <3>2
  <2> QED BY <1>2, <2>4, <2>6, <2>7 DEF removeFromStateList, t, i
<1> QED BY <1>1, <1>2

\* Without its head, a list has lost exactly that process.
LEMMA TailLemma ==
  ASSUME NEW S, NEW s \in Seq(S), s # <<>>, NoDuplicates(s)
  PROVE  /\ Head(s) \in Range(s)
         /\ Head(s) \in S
         /\ Tail(s) \in Seq(S)
         /\ Range(Tail(s)) = Range(s) \ {Head(s)}
         /\ NoDuplicates(Tail(s))
<1> DEFINE t == Tail(s)
<1>1. /\ Len(s) \in Nat \ {0} /\ DOMAIN s = 1 .. Len(s)
      /\ Head(s) = s[1] /\ 1 \in DOMAIN s
      /\ t \in Seq(S) /\ DOMAIN t = 1 .. Len(s) - 1
      /\ \A i \in 1 .. Len(s) - 1 : t[i] = s[i + 1]
  OBVIOUS
<1>2. Head(s) \in Range(s) /\ Head(s) \in S
  BY <1>1 DEF Range
<1> HIDE DEF t
<1>3. Range(t) = Range(s) \ {Head(s)}
  <2>1. ASSUME NEW x \in Range(t) PROVE x \in Range(s) \ {Head(s)}
    <3>1. PICK j \in DOMAIN t : x = t[j]
      BY DEF Range
    <3>2. j + 1 \in DOMAIN s /\ x = s[j + 1] /\ j + 1 # 1
      BY <3>1, <1>1
    <3> QED BY <3>2, <1>1 DEF Range, NoDuplicates
  <2>2. ASSUME NEW x \in Range(s) \ {Head(s)} PROVE x \in Range(t)
    <3>1. PICK k \in DOMAIN s : x = s[k]
      BY DEF Range
    <3>2. k - 1 \in DOMAIN t /\ t[k - 1] = x
      BY <3>1, <1>1
    <3> QED BY <3>2 DEF Range
  <2> QED BY <2>1, <2>2
<1>4. NoDuplicates(t)
  BY <1>1 DEF NoDuplicates
<1> QED BY <1>1, <1>2, <1>3, <1>4 DEF t

\* Joining two lists that share no process.
LEMMA ConcatLemma ==
  ASSUME NEW S, NEW s \in Seq(S), NEW t \in Seq(S)
  PROVE  /\ s \o t \in Seq(S)
         /\ Range(s \o t) = Range(s) \cup Range(t)
         /\ (NoDuplicates(s) /\ NoDuplicates(t) /\ Range(s) \cap Range(t) = {})
              => NoDuplicates(s \o t)
<1> DEFINE u == s \o t
<1>1. /\ u \in Seq(S) /\ Len(s) \in Nat /\ Len(t) \in Nat
      /\ DOMAIN s = 1 .. Len(s) /\ DOMAIN t = 1 .. Len(t)
      /\ DOMAIN u = 1 .. Len(s) + Len(t)
      /\ \A i \in 1 .. Len(s) : u[i] = s[i]
      /\ \A i \in 1 .. Len(t) : u[Len(s) + i] = t[i]
  OBVIOUS
<1>2. \A i \in DOMAIN u : \/ i \in DOMAIN s /\ u[i] = s[i]
                          \/ i - Len(s) \in DOMAIN t /\ u[i] = t[i - Len(s)]
  BY <1>1
<1> HIDE DEF u
<1>3. Range(u) = Range(s) \cup Range(t)
  <2>1. ASSUME NEW x \in Range(u) PROVE x \in Range(s) \cup Range(t)
    BY <1>1, <1>2 DEF Range
  <2>2. ASSUME NEW x \in Range(s) PROVE x \in Range(u)
    <3>1. PICK i \in DOMAIN s : x = s[i]
      BY DEF Range
    <3>2. i \in DOMAIN u /\ u[i] = x
      BY <1>1, <3>1
    <3> QED BY <3>2 DEF Range
  <2>3. ASSUME NEW x \in Range(t) PROVE x \in Range(u)
    <3>1. PICK i \in DOMAIN t : x = t[i]
      BY DEF Range
    <3>2. Len(s) + i \in DOMAIN u /\ u[Len(s) + i] = x
      BY <1>1, <3>1
    <3> QED BY <3>2 DEF Range
  <2> QED BY <2>1, <2>2, <2>3
<1>4. ASSUME NoDuplicates(s), NoDuplicates(t), Range(s) \cap Range(t) = {}
      PROVE  NoDuplicates(u)
  <2> SUFFICES ASSUME NEW i \in DOMAIN u, NEW j \in DOMAIN u, u[i] = u[j]
               PROVE  i = j
    BY DEF NoDuplicates
  <2>1. \A k \in DOMAIN s, m \in DOMAIN t : s[k] # t[m]
    BY <1>4 DEF Range
  <2> QED BY <1>1, <1>2, <1>4, <2>1 DEF NoDuplicates
<1> QED BY <1>1, <1>3, <1>4 DEF u

\* The rank of the members of a finite set of numbers is a numbering of it.
LEMMA RankLemma ==
  ASSUME NEW I \in SUBSET Nat, IsFiniteSet(I), NEW r, r = Rank(I)
  PROVE  /\ Cardinality(I) \in Nat
         /\ \A i \in I : r[i] \in 1 .. Cardinality(I)
         /\ \A i, j \in I : r[i] = r[j] => i = j
         /\ \A k \in 1 .. Cardinality(I) : \E i \in I : r[i] = k
<1> DEFINE B(i) == {j \in I : j <= i}
           n == Cardinality(I)
<1>1. n \in Nat
  BY FS_CardinalityType
<1>2. ASSUME NEW i \in I
      PROVE  IsFiniteSet(B(i)) /\ Cardinality(B(i)) \in Nat /\ Cardinality(B(i)) <= n
  <2>1. B(i) \in SUBSET I
    OBVIOUS
  <2> QED BY <2>1, FS_Subset, FS_CardinalityType, Zenon
<1>3. ASSUME NEW i \in I PROVE Cardinality(B(i)) # 0
  <2>1. i \in B(i)
    OBVIOUS
  <2> QED BY <2>1, <1>2, FS_EmptySet, Zenon
<1>4. ASSUME NEW i \in I, NEW j \in I, Cardinality(B(i)) = Cardinality(B(j)), i < j
      PROVE  FALSE
  <2>0. i \in Nat /\ j \in Nat /\ i < j
    BY <1>4
  <2>1. B(i) \in SUBSET B(j) /\ j \in B(j) /\ j \notin B(i)
    <3>1. \A k \in I : k \in Nat /\ (k <= i => k <= j)
      BY <2>0
    <3>2. B(i) \in SUBSET B(j)
      BY <3>1
    <3> QED BY <2>0, <3>2
  <2>2. B(j) = B(i)
    BY <2>1, <1>2, <1>4, FS_Subset, Zenon
  <2> QED BY <2>1, <2>2, Zenon
<1>5. r = [i \in I |-> Cardinality(B(i))]
  BY DEF Rank
<1> HIDE DEF B
<1>6. \A i \in I : r[i] \in 1 .. n
  BY <1>1, <1>2, <1>3, <1>5
<1>7. \A i, j \in I : r[i] = r[j] => i = j
  BY <1>4, <1>5
<1>8. r \in [I -> 1 .. n]
  BY <1>5, <1>6
<1>9. r \in Injection(I, 1 .. n)
  BY <1>7, <1>8 DEF Injection, IsInjective
<1>10. IsFiniteSet(1 .. n) /\ Cardinality(1 .. n) = n
  BY <1>1, FS_Interval
<1>11. r \in Surjection(I, 1 .. n)
  BY <1>9, <1>10, FS_Injection, Zenon
<1>12. \A k \in 1 .. n : \E i \in I : r[i] = k
  BY <1>11 DEF Surjection
<1> QED BY <1>1, <1>6, <1>7, <1>12

\* The part of a list that is in T.
LEMMA SublistLemma ==
  ASSUME NEW S, NEW s \in Seq(S), NEW T
  PROVE  /\ Sublist(s, T) \in Seq(S)
         /\ Range(Sublist(s, T)) = Range(s) \cap T
         /\ NoDuplicates(s) => NoDuplicates(Sublist(s, T))
<1> DEFINE I == {i \in DOMAIN s : s[i] \in T}
           n == Cardinality(I)
           r == Rank(I)
           c == [k \in 1 .. n |-> CHOOSE i \in I : r[i] = k]
           u == [k \in 1 .. n |-> s[CHOOSE i \in I : r[i] = k]]
<1>1. I \in SUBSET Nat /\ I \in SUBSET (1 .. Len(s)) /\ Len(s) \in Nat
  OBVIOUS
<1>2. IsFiniteSet(I)
  BY <1>1, FS_Interval, FS_Subset
<1>3. r = Rank(I)
  OBVIOUS
<1>4. Sublist(s, T) = u
  BY DEF Sublist
<1> HIDE DEF I, r
<1>5. /\ n \in Nat
      /\ \A i \in I : r[i] \in 1 .. n
      /\ \A i, j \in I : r[i] = r[j] => i = j
      /\ \A k \in 1 .. n : \E i \in I : r[i] = k
  BY <1>1, <1>2, <1>3, RankLemma
<1>6. \A k \in 1 .. n : c[k] \in I /\ r[c[k]] = k /\ u[k] = s[c[k]]
  BY <1>5
<1>7. \A i \in I : c[r[i]] = i
  BY <1>5, <1>6
<1> HIDE DEF n, c
<1>8. \A k \in 1 .. n : u[k] = s[c[k]] /\ c[k] \in DOMAIN s /\ s[c[k]] \in T /\ s[c[k]] \in S
  BY <1>6 DEF I
<1>12. DOMAIN u = 1 .. n /\ u = [k \in 1 .. n |-> u[k]]
  OBVIOUS
<1> HIDE DEF u
<1>9. u \in Seq(S) /\ DOMAIN u = 1 .. n
  <2>1. u \in [1 .. n -> S]
    BY <1>8, <1>12
  <2> QED BY <2>1, <1>5
<1>10. Range(u) = Range(s) \cap T
  <2>1. ASSUME NEW x \in Range(u) PROVE x \in Range(s) \cap T
    BY <1>8, <1>9 DEF Range
  <2>2. ASSUME NEW x \in Range(s) \cap T PROVE x \in Range(u)
    <3>1. PICK i \in DOMAIN s : x = s[i]
      BY DEF Range
    <3>2. i \in I
      BY <3>1 DEF I
    <3>3. r[i] \in DOMAIN u /\ u[r[i]] = x
      BY <3>1, <3>2, <1>5, <1>7, <1>8, <1>9
    <3> QED BY <3>3 DEF Range
  <2> QED BY <2>1, <2>2
<1>11. NoDuplicates(s) => NoDuplicates(u)
  BY <1>6, <1>8, <1>9 DEF NoDuplicates
<1> QED BY <1>4, <1>9, <1>10, <1>11

-----------------------------------------------------------------------------
(* The table of lists.  h[p] is the list that process p has to be on. *)

Placed(P, L, h) ==
  /\ L \in [ListName -> Seq(P)]
  /\ h \in [P -> ListName]
  /\ \A l \in ListName : Range(L[l]) = {p \in P : h[p] = l}
  /\ \A l \in ListName : NoDuplicates(L[l])

\* A process that leaves its list for any place on another one.
LEMMA MoveLemma ==
  ASSUME NEW P, NEW L, NEW h, Placed(P, L, h),
         NEW p \in P, NEW to \in ListName, to # h[p],
         NEW t \in Seq(P), Range(t) = Range(L[to]) \cup {p}, NoDuplicates(t),
         NEW M, M = [L EXCEPT ![h[p]] = removeFromStateList(L[h[p]], p), ![to] = t]
  PROVE  Placed(P, M, [h EXCEPT ![p] = to])
<1> DEFINE from == h[p]
           s == removeFromStateList(L[from], p)
           g == [h EXCEPT ![p] = to]
<1>1. from \in ListName /\ L[from] \in Seq(P)
  BY DEF Placed
<1>2. s \in Seq(P) /\ Range(s) = Range(L[from]) \ {p} /\ NoDuplicates(s)
  BY <1>1, RemoveLemma DEF Placed
<1> HIDE DEF s
<1>3. M \in [ListName -> Seq(P)] /\ M[from] = s /\ M[to] = t
      /\ \A l \in ListName \ {from, to} : M[l] = L[l]
  BY <1>1, <1>2 DEF Placed, s
<1>4. g \in [P -> ListName] /\ g[p] = to /\ \A q \in P \ {p} : g[q] = h[q]
  BY DEF Placed
<1> HIDE DEF g
<1>5. ASSUME NEW l \in ListName
      PROVE  Range(M[l]) = {q \in P : g[q] = l} /\ NoDuplicates(M[l])
  <2>0. Range(L[l]) = {q \in P : h[q] = l} /\ NoDuplicates(L[l])
    BY DEF Placed
  <2>1. CASE l = from
    BY <2>0, <2>1, <1>2, <1>3, <1>4
  <2>2. CASE l = to
    BY <2>0, <2>2, <1>3, <1>4
  <2>3. CASE l \notin {from, to}
    BY <2>0, <2>3, <1>3, <1>4
  <2> QED BY <2>1, <2>2, <2>3
<1> QED BY <1>3, <1>4, <1>5 DEF Placed, g

\* To the head of the other list.
LEMMA ToHeadLemma ==
  ASSUME NEW P, NEW L, NEW h, Placed(P, L, h),
         NEW p \in P, NEW to \in ListName, to # h[p]
  PROVE  Placed(P, ToHead(L, p, h[p], to), [h EXCEPT ![p] = to])
<1> DEFINE t == insertHead(L[to], p)
<1>1. L[to] \in Seq(P) /\ p \notin Range(L[to]) /\ NoDuplicates(L[to])
  BY DEF Placed
<1>2. t \in Seq(P) /\ Range(t) = Range(L[to]) \cup {p} /\ NoDuplicates(t)
  BY <1>1, InsertHeadLemma
<1>3. ToHead(L, p, h[p], to)
        = [L EXCEPT ![h[p]] = removeFromStateList(L[h[p]], p), ![to] = t]
  BY DEF ToHead, Placed
<1> HIDE DEF t
<1> QED BY <1>2, <1>3, MoveLemma

\* To its tail.
LEMMA ToTailLemma ==
  ASSUME NEW P, NEW L, NEW h, Placed(P, L, h),
         NEW p \in P, NEW to \in ListName, to # h[p]
  PROVE  Placed(P, ToTail(L, p, h[p], to), [h EXCEPT ![p] = to])
<1> DEFINE t == insertTail(L[to], p)
<1>1. L[to] \in Seq(P) /\ p \notin Range(L[to]) /\ NoDuplicates(L[to])
  BY DEF Placed
<1>2. t \in Seq(P) /\ Range(t) = Range(L[to]) \cup {p} /\ NoDuplicates(t)
  BY <1>1, InsertTailLemma
<1>3. ToTail(L, p, h[p], to)
        = [L EXCEPT ![h[p]] = removeFromStateList(L[h[p]], p), ![to] = t]
  BY DEF ToTail, Placed
<1> HIDE DEF t
<1> QED BY <1>2, <1>3, MoveLemma

\* wakeup1() takes the sleepers in W to the ready lists of their priorities.
LEMMA WakeLemma ==
  ASSUME NEW P, NEW L, NEW h, Placed(P, L, h),
         NEW W \in SUBSET P, \A p \in W : h[p] = sleep,
         NEW prio \in [P -> ReadyList]
  PROVE  Placed(P, WakeLists(L, W, prio),
                [p \in P |-> IF p \in W THEN prio[p] ELSE h[p]])
<1> DEFINE M == WakeLists(L, W, prio)
           g == [p \in P |-> IF p \in W THEN prio[p] ELSE h[p]]
           Z == L[sleep]
           C(l) == {p \in W : prio[p] = l}
<1>1. /\ sleep \in ListName /\ sleep \notin ReadyList /\ ReadyList \subseteq ListName
      /\ Z \in Seq(P) /\ NoDuplicates(Z) /\ Range(Z) = {p \in P : h[p] = sleep}
  BY MaxAssumption DEF Placed, ListName, ReadyList, sleep
<1>2. g \in [P -> ListName]
  BY <1>1 DEF Placed
<1>3. /\ M = [l \in ListName |-> M[l]]
      /\ M[sleep] = Sublist(Z, Range(Z) \ W)
      /\ \A l \in ReadyList : M[l] = L[l] \o Sublist(Z, C(l))
      /\ \A l \in ListName : l # sleep /\ l \notin ReadyList => M[l] = L[l]
  BY <1>1 DEF WakeLists
<1> HIDE DEF M, Z
<1>4. ASSUME NEW l \in ListName
      PROVE  /\ M[l] \in Seq(P)
             /\ Range(M[l]) = {p \in P : g[p] = l}
             /\ NoDuplicates(M[l])
  <2>1. CASE l = sleep
    <3>1. /\ M[l] \in Seq(P) /\ NoDuplicates(M[l])
          /\ Range(M[l]) = Range(Z) \cap (Range(Z) \ W)
      BY <2>1, <1>1, <1>3, SublistLemma
    <3> QED BY <2>1, <3>1, <1>1
  <2>2. CASE l \in ReadyList
    <3> DEFINE z == Sublist(Z, C(l))
    <3>1. z \in Seq(P) /\ NoDuplicates(z) /\ Range(z) = Range(Z) \cap C(l)
      BY <1>1, SublistLemma
    <3> HIDE DEF z
    <3>2. L[l] \in Seq(P) /\ NoDuplicates(L[l]) /\ Range(L[l]) = {p \in P : h[p] = l}
      BY DEF Placed
    <3>3. l # sleep
      BY <2>2, <1>1
    <3>4. Range(L[l]) \cap Range(z) = {}
      BY <3>1, <3>2, <3>3, <1>1
    <3>5. M[l] = L[l] \o z
      BY <2>2, <1>3 DEF z
    <3>6. /\ M[l] \in Seq(P) /\ NoDuplicates(M[l])
          /\ Range(M[l]) = Range(L[l]) \cup Range(z)
      BY <3>1, <3>2, <3>4, <3>5, ConcatLemma
    <3>7. Range(z) = C(l)
      BY <3>1, <1>1
    <3> QED BY <3>2, <3>3, <3>6, <3>7
  <2>3. CASE l # sleep /\ l \notin ReadyList
    BY <2>3, <1>3 DEF Placed
  <2> QED BY <2>1, <2>2, <2>3
<1>5. M \in [ListName -> Seq(P)]
  BY <1>3, <1>4
<1> HIDE DEF g
<1> QED BY <1>2, <1>4, <1>5 DEF Placed, M, g

\* The processes that prioadjust() moves are the heads of the ready lists of a
\* nonzero priority.
LEMMA HeadsLemma ==
  ASSUME NEW P, NEW L, NEW h, Placed(P, L, h)
  PROVE  /\ Heads(L) \subseteq P
         /\ \A p \in Heads(L) : h[p] \in 1 .. MAX
         /\ \A i \in 1 .. MAX : L[i] # <<>> =>
              Head(L[i]) \in Heads(L) /\ h[Head(L[i])] = i
         /\ \A p \in Heads(L) : L[h[p]] # <<>> /\ p = Head(L[h[p]])
<1>1. ASSUME NEW i \in 1 .. MAX, L[i] # <<>>
      PROVE  Head(L[i]) \in P /\ h[Head(L[i])] = i /\ Head(L[i]) \in Heads(L)
  <2>1. i \in ListName
    BY MaxAssumption DEF ListName
  <2>2. Head(L[i]) \in Range(L[i])
    BY <2>1, <1>1, TailLemma DEF Placed
  <2> QED BY <2>1, <2>2, <1>1 DEF Placed, Heads
<1>2. ASSUME NEW p \in Heads(L)
      PROVE  \E i \in 1 .. MAX : L[i] # <<>> /\ p = Head(L[i])
  BY DEF Heads
<1> QED BY <1>1, <1>2

\* prioadjust() takes each of them to the next better ready list.
LEMMA PromoteLemma ==
  ASSUME NEW P, NEW L, NEW h, Placed(P, L, h)
  PROVE  Placed(P, PromoteHeads(L),
                [p \in P |-> IF p \in Heads(L) THEN h[p] - 1 ELSE h[p]])
<1> DEFINE M == PromoteHeads(L)
           g == [p \in P |-> IF p \in Heads(L) THEN h[p] - 1 ELSE h[p]]
           Stay(i) == IF i > 0 /\ L[i] # <<>> THEN Tail(L[i]) ELSE L[i]
           Come(i) == IF i < MAX /\ L[i + 1] # <<>> THEN <<Head(L[i + 1])>> ELSE <<>>
<1>1. /\ \A l \in ListName : l \in Int /\ (l \in 1 .. MAX => l - 1 \in ListName)
      /\ ReadyList \subseteq ListName
      /\ \A l \in ReadyList : l < MAX => l + 1 \in 1 .. MAX /\ l + 1 \in ListName
      /\ \A l \in ReadyList : l > 0 <=> l \in 1 .. MAX
      /\ 1 .. MAX \subseteq ReadyList
  BY MaxAssumption DEF ListName, ReadyList
<1>2. g \in [P -> ListName]
  BY <1>1, HeadsLemma DEF Placed
<1>3. /\ M = [l \in ListName |-> M[l]]
      /\ \A l \in ReadyList : M[l] = Stay(l) \o Come(l)
      /\ \A l \in ListName \ ReadyList : M[l] = L[l]
  BY <1>1 DEF PromoteHeads
<1> HIDE DEF M
<1>4. \A p \in P : (p \in Heads(L) => g[p] = h[p] - 1) /\ (p \notin Heads(L) => g[p] = h[p])
  OBVIOUS
<1> HIDE DEF g
<1>5. ASSUME NEW l \in ReadyList
      PROVE  /\ Stay(l) \in Seq(P) /\ NoDuplicates(Stay(l))
             /\ Range(Stay(l)) = {p \in P : h[p] = l /\ p \notin Heads(L)}
  <2>1. /\ L[l] \in Seq(P) /\ NoDuplicates(L[l])
        /\ Range(L[l]) = {p \in P : h[p] = l}
    BY <1>1 DEF Placed
  <2>2. CASE l > 0 /\ L[l] # <<>>
    <3>1. /\ Tail(L[l]) \in Seq(P) /\ NoDuplicates(Tail(L[l]))
          /\ Range(Tail(L[l])) = Range(L[l]) \ {Head(L[l])}
      BY <2>1, <2>2, TailLemma
    <3>2. l \in 1 .. MAX
      BY <2>2, <1>1
    <3>3. \A p \in P : h[p] = l => (p \in Heads(L) <=> p = Head(L[l]))
      BY <3>2, <2>2, HeadsLemma
    <3> HIDE DEF Placed
    <3>4. Range(Tail(L[l])) = {p \in P : h[p] = l /\ p \notin Heads(L)}
      BY <3>1, <3>3, <2>1
    <3> QED BY <2>2, <3>1, <3>4
  <2>3. CASE ~(l > 0 /\ L[l] # <<>>)
    <3>1. \A p \in P : h[p] = l => p \notin Heads(L)
      BY <2>3, <1>1, HeadsLemma
    <3>2. Stay(l) = L[l]
      BY <2>3
    <3> QED BY <2>1, <3>1, <3>2
  <2> QED BY <2>2, <2>3
<1>6. ASSUME NEW l \in ReadyList
      PROVE  /\ Come(l) \in Seq(P) /\ NoDuplicates(Come(l))
             /\ Range(Come(l)) = {p \in P : h[p] = l + 1 /\ p \in Heads(L)}
  <2>0. l \in Int
    BY <1>1
  <2>1. CASE l < MAX /\ L[l + 1] # <<>>
    <3> DEFINE q == Head(L[l + 1])
    <3>1. l + 1 \in 1 .. MAX
      BY <2>1, <1>1
    <3>2. q \in P /\ q \in Heads(L) /\ h[q] = l + 1
      BY <2>1, <3>1, HeadsLemma
    <3>3. \A p \in Heads(L) : h[p] = l + 1 => p = q
      BY HeadsLemma
    <3>4. Come(l) = <<q>>
      BY <2>1
    <3> HIDE DEF q, Come
    <3>5. Come(l) \in Seq(P) /\ DOMAIN Come(l) = {1} /\ Come(l)[1] = q
      BY <3>2, <3>4
    <3>6. Range(Come(l)) = {q} /\ NoDuplicates(Come(l))
      BY <3>5 DEF Range, NoDuplicates
    <3>7. {p \in P : h[p] = l + 1 /\ p \in Heads(L)} = {q}
      BY <3>2, <3>3
    <3> QED BY <3>5, <3>6, <3>7
  <2>2. CASE ~(l < MAX /\ L[l + 1] # <<>>)
    <3>1. Come(l) = <<>>
      BY <2>2
    <3>2. \A p \in P : h[p] = l + 1 => p \notin Heads(L)
      BY <2>0, <2>2, MaxAssumption, HeadsLemma
    <3> HIDE DEF Come
    <3>3. Come(l) \in Seq(P) /\ DOMAIN Come(l) = {}
      BY <3>1
    <3> QED BY <3>2, <3>3 DEF Range, NoDuplicates
  <2> QED BY <2>1, <2>2
<1> HIDE DEF Stay, Come
<1>7. ASSUME NEW l \in ListName
      PROVE  /\ M[l] \in Seq(P)
             /\ Range(M[l]) = {p \in P : g[p] = l}
             /\ NoDuplicates(M[l])
  <2>1. CASE l \in ReadyList
    <3>1. Range(Stay(l)) \cap Range(Come(l)) = {}
      BY <2>1, <1>5, <1>6
    <3>2. /\ M[l] \in Seq(P) /\ NoDuplicates(M[l])
          /\ Range(M[l]) = Range(Stay(l)) \cup Range(Come(l))
      <4>1. /\ Stay(l) \in Seq(P) /\ NoDuplicates(Stay(l))
            /\ Come(l) \in Seq(P) /\ NoDuplicates(Come(l))
        BY <2>1, <1>5, <1>6
      <4>2. M[l] = Stay(l) \o Come(l)
        BY <2>1, <1>3
      <4> QED BY <3>1, <4>1, <4>2, ConcatLemma
    <3>3. \A p \in P : h[p] \in Int
      BY <1>1 DEF Placed
    <3>4. \A p \in P : g[p] = l <=> \/ h[p] = l /\ p \notin Heads(L)
                                    \/ h[p] = l + 1 /\ p \in Heads(L)
      BY <1>1, <1>4, <3>3
    <3> QED BY <2>1, <3>2, <3>4, <1>5, <1>6
  <2>2. CASE l \notin ReadyList
    <3>1. M[l] = L[l]
      BY <2>2, <1>3
    <3>2. \A p \in P : g[p] = l <=> h[p] = l
      BY <2>2, <1>1, <1>4, HeadsLemma, MaxAssumption DEF ReadyList
    <3> QED BY <3>1, <3>2 DEF Placed
  <2> QED BY <2>1, <2>2
<1>8. M \in [ListName -> Seq(P)]
  BY <1>3, <1>7
<1> QED BY <1>2, <1>7, <1>8 DEF Placed, M, g

-----------------------------------------------------------------------------
(* The order of a list.  InOrder(s, t): whoever is ahead of an old element *)
(* of the list on t was already ahead of it on s.                          *)

InOrder(s, t) ==
  \A j, k \in DOMAIN t :
    j < k /\ t[k] \in Range(s) =>
      \E a, b \in DOMAIN s : a < b /\ s[a] = t[j] /\ s[b] = t[k]

LEMMA OrderSame ==
  ASSUME NEW S, NEW s \in Seq(S)
  PROVE  InOrder(s, s)
  BY DEF InOrder

LEMMA OrderTrans ==
  ASSUME NEW s, NEW t, NEW u, InOrder(s, t), InOrder(t, u),
         \A x \in Range(s) \cap Range(u) : x \in Range(t)
  PROVE  InOrder(s, u)
<1> SUFFICES ASSUME NEW j \in DOMAIN u, NEW k \in DOMAIN u, j < k, u[k] \in Range(s)
             PROVE  \E a, b \in DOMAIN s : a < b /\ s[a] = u[j] /\ s[b] = u[k]
  BY DEF InOrder
<1>1. u[k] \in Range(t)
  BY DEF Range
<1>2. PICK a, b \in DOMAIN t : a < b /\ t[a] = u[j] /\ t[b] = u[k]
  BY <1>1 DEF InOrder
<1> QED BY <1>2 DEF InOrder

LEMMA OrderRemove ==
  ASSUME NEW S, NEW s \in Seq(S), NEW p, NoDuplicates(s)
  PROVE  InOrder(s, removeFromStateList(s, p))
<1>1. CASE p \notin Range(s)
  BY <1>1, OrderSame DEF removeFromStateList
<1>2. CASE p \in Range(s)
  <2> DEFINE i == FirstIndex(s, p)
             n == Len(s) - 1
             t == [j \in 1 .. n |-> IF j < i THEN s[j] ELSE s[j + 1]]
  <2>1. i \in DOMAIN s
    <3>1. PICK k \in DOMAIN s : s[k] = p
      BY <1>2 DEF Range
    <3>2. \A j \in 1 .. k - 1 : s[j] # p
      BY <3>1 DEF NoDuplicates
    <3> QED BY <3>1, <3>2 DEF FirstIndex
  <2> HIDE DEF i
  <2>2. /\ DOMAIN s = 1 .. Len(s) /\ Len(s) \in Nat /\ n \in Nat /\ i \in 1 .. Len(s)
        /\ DOMAIN t = 1 .. n
        /\ \A j \in 1 .. n : t[j] = IF j < i THEN s[j] ELSE s[j + 1]
    BY <2>1
  <2> HIDE DEF t
  <2>3. ASSUME NEW j \in DOMAIN t, NEW k \in DOMAIN t, j < k
        PROVE  \E a, b \in DOMAIN s : a < b /\ s[a] = t[j] /\ s[b] = t[k]
    <3> DEFINE at(x) == IF x < i THEN x ELSE x + 1
    <3>1. at(j) \in DOMAIN s /\ at(k) \in DOMAIN s /\ at(j) < at(k)
      BY <2>2, <2>3
    <3>2. t[j] = s[at(j)] /\ t[k] = s[at(k)]
      BY <2>2
    <3> QED BY <3>1, <3>2
  <2>4. removeFromStateList(s, p) = t
    BY <1>2 DEF removeFromStateList, t, i
  <2> QED BY <2>3, <2>4 DEF InOrder
<1> QED BY <1>1, <1>2

LEMMA OrderTail ==
  ASSUME NEW S, NEW s \in Seq(S), s # <<>>
  PROVE  InOrder(s, Tail(s))
<1> DEFINE t == Tail(s)
<1>1. /\ DOMAIN s = 1 .. Len(s) /\ Len(s) \in Nat \ {0}
      /\ DOMAIN t = 1 .. Len(s) - 1
      /\ \A i \in 1 .. Len(s) - 1 : t[i] = s[i + 1]
  OBVIOUS
<1> HIDE DEF t
<1>2. ASSUME NEW j \in DOMAIN t, NEW k \in DOMAIN t, j < k
      PROVE  \E a, b \in DOMAIN s : a < b /\ s[a] = t[j] /\ s[b] = t[k]
  <2>1. j + 1 \in DOMAIN s /\ k + 1 \in DOMAIN s /\ j + 1 < k + 1
    BY <1>1, <1>2
  <2> QED BY <1>1, <2>1
<1>3. InOrder(s, t)
  BY <1>2 DEF InOrder
<1> QED BY <1>3 DEF t

LEMMA OrderConcat ==
  ASSUME NEW S, NEW s \in Seq(S), NEW v \in Seq(S), Range(s) \cap Range(v) = {}
  PROVE  InOrder(s, s \o v)
<1> DEFINE t == s \o v
<1>1. /\ DOMAIN s = 1 .. Len(s) /\ Len(s) \in Nat /\ DOMAIN v = 1 .. Len(v) /\ Len(v) \in Nat
      /\ DOMAIN t = 1 .. Len(s) + Len(v)
      /\ \A i \in 1 .. Len(s) : t[i] = s[i]
      /\ \A i \in 1 .. Len(v) : t[Len(s) + i] = v[i]
  OBVIOUS
<1> HIDE DEF t
<1>2. ASSUME NEW j \in DOMAIN t, NEW k \in DOMAIN t, j < k, t[k] \in Range(s)
      PROVE  \E a, b \in DOMAIN s : a < b /\ s[a] = t[j] /\ s[b] = t[k]
  <2>1. k <= Len(s)
    <3> SUFFICES ASSUME k > Len(s) PROVE FALSE
      BY <1>1
    <3>1. k - Len(s) \in DOMAIN v /\ t[k] = v[k - Len(s)]
      BY <1>1
    <3>2. t[k] \in Range(v)
      BY <3>1 DEF Range
    <3> QED BY <1>2, <3>2
  <2>2. j \in DOMAIN s /\ k \in DOMAIN s
    BY <1>1, <1>2, <2>1
  <2> QED BY <1>1, <1>2, <2>2
<1>3. InOrder(s, t)
  BY <1>2 DEF InOrder
<1> QED BY <1>3 DEF t

\* On lists without duplicates a place is the first one.
LEMMA FirstIndexLemma ==
  ASSUME NEW S, NEW s \in Seq(S), NoDuplicates(s), NEW i \in DOMAIN s
  PROVE  FirstIndex(s, s[i]) = i
<1>1. \A j \in 1 .. i - 1 : s[j] # s[i]
  BY DEF NoDuplicates
<1> QED BY <1>1 DEF FirstIndex, NoDuplicates

LEMMA OrderFirst ==
  ASSUME NEW S, NEW s \in Seq(S), NEW t \in Seq(S), NoDuplicates(s), NoDuplicates(t),
         InOrder(s, t), NEW p \in Range(s) \cap Range(t), NEW q \in Range(t),
         FirstIndex(t, q) < FirstIndex(t, p)
  PROVE  q \in Range(s) /\ FirstIndex(s, q) < FirstIndex(s, p)
<1>1. PICK j, k \in DOMAIN t : t[j] = q /\ t[k] = p
  BY DEF Range
<1>2. j < k
  BY <1>1, FirstIndexLemma
<1>3. PICK a, b \in DOMAIN s : a < b /\ s[a] = q /\ s[b] = p
  BY <1>1, <1>2 DEF InOrder
<1> QED BY <1>3, FirstIndexLemma DEF Range

TableInOrder(L, M) == \A i \in ReadyList : InOrder(L[i], M[i])

LEMMA OrderToHead ==
  ASSUME NEW P, NEW L, NEW h, Placed(P, L, h), NEW p,
         NEW from \in ListName, NEW to \in ListName \ ReadyList, from # to
  PROVE  TableInOrder(L, ToHead(L, p, from, to))
<1> DEFINE M == ToHead(L, p, from, to)
<1>1. /\ L \in [ListName -> Seq(P)] /\ \A l \in ListName : NoDuplicates(L[l])
      /\ ReadyList \subseteq ListName
  BY MaxAssumption DEF Placed, ReadyList, ListName
<1>2. \A l \in ReadyList : M[l] = IF l = from THEN removeFromStateList(L[l], p) ELSE L[l]
  BY <1>1 DEF ToHead
<1> HIDE DEF M
<1>3. TableInOrder(L, M)
  BY <1>1, <1>2, OrderSame, OrderRemove DEF TableInOrder
<1> QED BY <1>3 DEF M

LEMMA OrderToTail ==
  ASSUME NEW P, NEW L, NEW h, Placed(P, L, h), NEW p \in P,
         NEW from \in ListName, NEW to \in ListName, from # to, p \notin Range(L[to])
  PROVE  TableInOrder(L, ToTail(L, p, from, to))
<1> DEFINE M == ToTail(L, p, from, to)
<1>1. /\ L \in [ListName -> Seq(P)] /\ \A l \in ListName : NoDuplicates(L[l])
      /\ ReadyList \subseteq ListName
  BY MaxAssumption DEF Placed, ReadyList, ListName
<1>2. \A l \in ReadyList : M[l] = IF l = to THEN Append(L[l], p)
                                  ELSE IF l = from THEN removeFromStateList(L[l], p) ELSE L[l]
  BY <1>1 DEF ToTail, insertTail
<1> HIDE DEF M
<1>3. InOrder(L[to], Append(L[to], p))
  <2>1. <<p>> \in Seq(P) /\ Append(L[to], p) = L[to] \o <<p>> /\ Range(<<p>>) = {p}
    BY <1>1 DEF Range
  <2>2. Range(L[to]) \cap Range(<<p>>) = {}
    BY <2>1
  <2>3. L[to] \in Seq(P)
    BY <1>1
  <2>4. InOrder(L[to], L[to] \o <<p>>)
    BY <2>1, <2>2, <2>3, OrderConcat
  <2> QED BY <2>1, <2>4
<1>4. TableInOrder(L, M)
  BY <1>1, <1>2, <1>3, OrderSame, OrderRemove DEF TableInOrder
<1> QED BY <1>4 DEF M

\* wakeup1() keeps the ready lists as they are, and adds to them at the tail.
LEMMA OrderWake ==
  ASSUME NEW P, NEW L, NEW h, Placed(P, L, h), NEW W, NEW prio
  PROVE  /\ TableInOrder(L, WakeLists(L, W, prio))
         /\ \A i \in ReadyList : Range(L[i]) \subseteq Range(WakeLists(L, W, prio)[i])
<1>1. /\ L \in [ListName -> Seq(P)] /\ ReadyList \subseteq ListName
      /\ sleep \in ListName /\ sleep \notin ReadyList
  BY MaxAssumption DEF Placed, ReadyList, ListName, sleep
<1>2. ASSUME NEW i \in ReadyList
      PROVE  /\ InOrder(L[i], WakeLists(L, W, prio)[i])
             /\ Range(L[i]) \subseteq Range(WakeLists(L, W, prio)[i])
  <2> DEFINE v == Sublist(L[sleep], {p \in W : prio[p] = i})
  <2>1. WakeLists(L, W, prio)[i] = L[i] \o v
    BY <1>1 DEF WakeLists
  <2>2. v \in Seq(P) /\ Range(v) \subseteq Range(L[sleep])
    BY <1>1, SublistLemma
  <2>3. Range(L[i]) \cap Range(L[sleep]) = {}
    BY <1>1 DEF Placed
  <2> HIDE DEF v
  <2>4. L[i] \in Seq(P) /\ Range(L[i]) \cap Range(v) = {}
    BY <1>1, <2>2, <2>3
  <2>5. Range(L[i] \o v) = Range(L[i]) \cup Range(v)
    BY <2>2, <2>4, ConcatLemma
  <2> QED BY <2>1, <2>2, <2>4, <2>5, OrderConcat
<1> QED BY <1>2 DEF TableInOrder

\* prioadjust() too: who is promoted leaves one list at its head and joins the
\* next at its tail.
LEMMA OrderPromote ==
  ASSUME NEW P, NEW L, NEW h, Placed(P, L, h)
  PROVE  TableInOrder(L, PromoteHeads(L))
<1>1. /\ L \in [ListName -> Seq(P)] /\ ReadyList \subseteq ListName
      /\ \A i \in ReadyList : i < MAX => i + 1 \in ListName /\ i + 1 # i
  BY MaxAssumption DEF Placed, ReadyList, ListName
<1>2. ASSUME NEW i \in ReadyList
      PROVE  InOrder(L[i], PromoteHeads(L)[i])
  <2> DEFINE s == IF i > 0 /\ L[i] # <<>> THEN Tail(L[i]) ELSE L[i]
             v == IF i < MAX /\ L[i + 1] # <<>> THEN <<Head(L[i + 1])>> ELSE <<>>
  <2>1. PromoteHeads(L)[i] = s \o v
    BY <1>1 DEF PromoteHeads
  <2>2. L[i] \in Seq(P) /\ NoDuplicates(L[i])
    BY <1>1 DEF Placed
  <2>3. s \in Seq(P) /\ InOrder(L[i], s) /\ Range(s) \subseteq Range(L[i])
    BY <2>2, OrderSame, OrderTail, TailLemma
  <2>4. v \in Seq(P) /\ Range(L[i]) \cap Range(v) = {}
    <3>1. CASE i < MAX /\ L[i + 1] # <<>>
      <4>1. Head(L[i + 1]) \in Range(L[i + 1]) /\ Head(L[i + 1]) \in P
        BY <1>1, <3>1, TailLemma DEF Placed
      <4>2. Head(L[i + 1]) \notin Range(L[i])
        BY <1>1, <3>1, <4>1 DEF Placed
      <4>3. v = <<Head(L[i + 1])>> /\ Range(v) = {Head(L[i + 1])}
        BY <3>1 DEF Range
      <4> QED BY <4>1, <4>2, <4>3
    <3>2. CASE ~(i < MAX /\ L[i + 1] # <<>>)
      <4>1. v = <<>> /\ Range(v) = {}
        BY <3>2 DEF Range
      <4> QED BY <4>1
    <3> QED BY <3>1, <3>2
  <2> HIDE DEF s, v
  <2>5. InOrder(s, s \o v) /\ Range(s \o v) = Range(s) \cup Range(v)
    BY <2>3, <2>4, OrderConcat, ConcatLemma
  <2> QED BY <2>1, <2>3, <2>4, <2>5, OrderTrans
<1> QED BY <1>2 DEF TableInOrder
=============================================================================
