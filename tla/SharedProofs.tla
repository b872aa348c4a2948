----------------------------- MODULE SharedProofs -----------------------------
(***************************************************************************)
(* What ActivityRouteProofs and WorldsProofs both rest on: what filtering  *)
(* a list keeps, for lists of any length, and what a call of the limiter   *)
(* leaves in its map.                                                      *)
(*                                                                         *)
(* The induction over a list is on its length, and rests on the least      *)
(* counterexample: a set of natural numbers that is not empty has a        *)
(* smallest element, because < is well-founded on them.                    *)
(***************************************************************************)
EXTENDS Lists, RequestGuard, WellFoundedInduction, TLAPS

-----------------------------------------------------------------------------
(* Lists: Array.prototype.filter                                             *)

\* The least element of a set of numbers.
LEMMA LeastExists ==
    ASSUME NEW T, T \subseteq Nat, T # {}
    PROVE  \E n \in T : \A m \in T : n <= m
<1>1. PICK R : R = OpToRel(<, Nat)
  OBVIOUS
<1>2. R = {ss \in Nat \X Nat : ss[1] < ss[2]}
  BY <1>1 DEF OpToRel
<1>3. IsWellFoundedOn(R, Nat)
  BY <1>1, NatLessThanWellFounded
<1>4. PICK n \in T : \A m \in T : ~ (<<m, n>> \in R)
  BY <1>3, WFMin
<1>5. \A m \in T : ~ (m < n)
  BY <1>2, <1>4
<1> QED
  BY <1>4, <1>5

\* A set of numbers with 0, and with n + 1 for each n of it up to a bound, has them all.
LEMMA InductionUpTo ==
    ASSUME NEW bound \in Nat, NEW P, 0 \in P,
           \A n \in 0 .. bound : n + 1 <= bound /\ n \in P => n + 1 \in P
    PROVE  0 .. bound \subseteq P
<1> DEFINE Bad == {n \in 0 .. bound : n \notin P}
<1>1. CASE Bad # {}
  <2>1. Bad \subseteq Nat
    OBVIOUS
  <2>2. PICK n \in Bad : \A m \in Bad : n <= m
    BY <1>1, <2>1, LeastExists
  <2>3. n \in Nat /\ n # 0 /\ n \notin P /\ n <= bound
    BY <2>1, <2>2
  <2>4. n - 1 \in 0 .. bound /\ n - 1 \notin Bad
    BY <2>2, <2>3
  <2>5. n - 1 \in P
    BY <2>4
  <2>6. (n - 1) + 1 \in P
    BY <2>3, <2>4, <2>5
  <2> QED
    BY <2>3, <2>6
<1> QED
  BY <1>1

-----------------------------------------------------------------------------
\* f is the list of what was chosen of the first n elements, for each n up to bound.
Chooses(f, list, keep, bound) ==
    f = [n \in 0 .. bound |->
            IF n = 0 THEN <<>>
            ELSE IF list[n] \in keep THEN Append(f[n - 1], list[n])
            ELSE f[n - 1]]

\* Such a function exists, so that Only is what its definition says.
LEMMA ChoiceExists ==
    ASSUME NEW list, NEW keep, Len(list) \in Nat
    PROVE  \E f : Chooses(f, list, keep, Len(list))
<1> DEFINE P == {n \in 0 .. Len(list) : \E f : Chooses(f, list, keep, n)}
<1>1. 0 \in P
  <2>1. Chooses([n \in 0 .. 0 |-> <<>>], list, keep, 0)
    BY DEF Chooses
  <2> QED
    BY <2>1
<1>2. ASSUME NEW n \in 0 .. Len(list), n + 1 <= Len(list), n \in P
      PROVE  n + 1 \in P
  <2>1. PICK f : Chooses(f, list, keep, n)
    BY <1>2
  <2> DEFINE last == IF list[n + 1] \in keep THEN Append(f[n], list[n + 1]) ELSE f[n]
             g == [m \in 0 .. n + 1 |-> IF m = n + 1 THEN last ELSE f[m]]
  <2>2. ASSUME NEW m \in 0 .. n + 1
        PROVE  g[m] = (IF m = 0 THEN <<>>
                       ELSE IF list[m] \in keep THEN Append(g[m - 1], list[m])
                       ELSE g[m - 1])
    <3>1. CASE m = n + 1
      <4>1. g[m] = last /\ m # 0 /\ m - 1 = n /\ g[m - 1] = f[n]
        BY <3>1
      <4> QED
        BY <3>1, <4>1
    <3>2. CASE m # n + 1
      <4>1. m \in 0 .. n /\ g[m] = f[m] /\ (m # 0 => g[m - 1] = f[m - 1])
        BY <3>2
      <4>2. f[m] = (IF m = 0 THEN <<>>
                    ELSE IF list[m] \in keep THEN Append(f[m - 1], list[m])
                    ELSE f[m - 1])
        BY <2>1, <4>1 DEF Chooses
      <4> HIDE DEF g
      <4> QED
        BY <4>1, <4>2
    <3> QED
      BY <3>1, <3>2
  <2>3. g = [m \in 0 .. n + 1 |-> g[m]]
    OBVIOUS
  <2> HIDE DEF g
  <2>4. Chooses(g, list, keep, n + 1)
    BY <2>2, <2>3 DEF Chooses
  <2>5. n + 1 \in 0 .. Len(list)
    BY <1>2
  <2> QED
    BY <2>4, <2>5
<1> HIDE DEF P
<1>3. 0 .. Len(list) \subseteq P
  BY <1>1, <1>2, InductionUpTo
<1>4. Len(list) \in P
  BY <1>3
<1> QED
  BY <1>4 DEF P

LEMMA OnlyIsChosen ==
    ASSUME NEW list, NEW keep, Len(list) \in Nat
    PROVE  \E f : Chooses(f, list, keep, Len(list)) /\ Only(list, keep) = f[Len(list)]
<1> DEFINE f == CHOOSE f : Chooses(f, list, keep, Len(list))
<1>1. Chooses(f, list, keep, Len(list))
  BY ChoiceExists
<1>2. Only(list, keep) = f[Len(list)]
  BY DEF Only, Chooses
<1> QED
  BY <1>1, <1>2

\* What filtering keeps: the elements that are wanted, in the order they were in.
Subsequence(short, list, n) ==
    \A i, j \in 1 .. Len(short) : i < j =>
        \E p, q \in 1 .. n : p < q /\ short[i] = list[p] /\ short[j] = list[q]

Filtered(short, list, keep, n, S) ==
    /\ short \in Seq(S) /\ Len(short) <= n
    /\ \A i \in 1 .. Len(short) :
          short[i] \in keep /\ \E p \in 1 .. n : short[i] = list[p]
    /\ \A p \in 1 .. n : list[p] \in keep => \E i \in 1 .. Len(short) : short[i] = list[p]
    /\ Subsequence(short, list, n)

\* One more element is looked at.
LEMMA FilteredStep ==
    ASSUME NEW S, NEW list \in Seq(S), NEW keep, NEW n \in Nat, n + 1 <= Len(list),
           NEW short, Filtered(short, list, keep, n, S)
    PROVE  Filtered(IF list[n + 1] \in keep THEN Append(short, list[n + 1]) ELSE short,
                    list, keep, n + 1, S)
<1>1. list[n + 1] \in S /\ short \in Seq(S) /\ Len(short) \in Nat /\ Len(short) <= n
  BY DEF Filtered
<1>2. CASE list[n + 1] \notin keep
  <2>1. \A p \in 1 .. n + 1 : list[p] \in keep => p \in 1 .. n
    BY <1>2
  <2>2. 1 .. n \subseteq 1 .. n + 1
    OBVIOUS
  <2>3. Subsequence(short, list, n + 1)
    <3>1. Subsequence(short, list, n)
      BY DEF Filtered
    <3> SUFFICES ASSUME NEW i \in 1 .. Len(short), NEW j \in 1 .. Len(short), i < j
                 PROVE  \E p, q \in 1 .. n + 1 :
                           p < q /\ short[i] = list[p] /\ short[j] = list[q]
      BY DEF Subsequence
    <3>2. PICK p \in 1 .. n, q \in 1 .. n : p < q /\ short[i] = list[p] /\ short[j] = list[q]
      BY <3>1 DEF Subsequence
    <3> QED
      BY <2>2, <3>2
  <2>4. Filtered(short, list, keep, n + 1, S)
    BY <1>1, <2>1, <2>2, <2>3 DEF Filtered
  <2> QED
    BY <1>2, <2>4
<1>3. CASE list[n + 1] \in keep
  <2> DEFINE long == Append(short, list[n + 1])
  <2>1. /\ long \in Seq(S) /\ Len(long) = Len(short) + 1
        /\ long[Len(short) + 1] = list[n + 1]
        /\ \A i \in 1 .. Len(short) : long[i] = short[i]
    BY <1>1
  <2> HIDE DEF long
  <2>2. ASSUME NEW i \in 1 .. Len(long)
        PROVE  long[i] \in keep /\ \E p \in 1 .. n + 1 : long[i] = list[p]
    <3>1. CASE i = Len(short) + 1
      BY <1>3, <2>1, <3>1
    <3>2. CASE i \in 1 .. Len(short)
      BY <2>1, <3>2 DEF Filtered
    <3> QED
      BY <1>1, <2>1, <3>1, <3>2
  <2>3. ASSUME NEW p \in 1 .. n + 1, list[p] \in keep
        PROVE  \E i \in 1 .. Len(long) : long[i] = list[p]
    <3>1. CASE p = n + 1
      BY <1>1, <2>1, <3>1
    <3>2. CASE p \in 1 .. n
      <4>1. PICK i \in 1 .. Len(short) : short[i] = list[p]
        BY <2>3, <3>2 DEF Filtered
      <4> QED
        BY <1>1, <2>1, <4>1
    <3> QED
      BY <3>1, <3>2
  <2>4. ASSUME NEW i \in 1 .. Len(long), NEW j \in 1 .. Len(long), i < j
        PROVE  \E p, q \in 1 .. n + 1 : p < q /\ long[i] = list[p] /\ long[j] = list[q]
    <3>1. i \in 1 .. Len(short) /\ long[i] = short[i]
      BY <1>1, <2>1, <2>4
    <3>2. CASE j = Len(short) + 1
      <4>1. PICK p \in 1 .. n : short[i] = list[p]
        BY <3>1 DEF Filtered
      <4> QED
        BY <2>1, <3>1, <3>2, <4>1
    <3>3. CASE j \in 1 .. Len(short)
      <4>1. PICK p \in 1 .. n, q \in 1 .. n : p < q /\ short[i] = list[p] /\ short[j] = list[q]
        BY <2>4, <3>1, <3>3 DEF Filtered, Subsequence
      <4> QED
        BY <2>1, <3>1, <3>3, <4>1
    <3> QED
      BY <1>1, <2>1, <3>2, <3>3
  <2>5. Filtered(long, list, keep, n + 1, S)
    <3>1. Subsequence(long, list, n + 1)
      BY <2>4 DEF Subsequence
    <3>2. Len(long) <= n + 1
      BY <1>1, <2>1
    <3> QED
      BY <2>1, <2>2, <2>3, <3>1, <3>2 DEF Filtered
  <2> QED
    BY <1>3, <2>5 DEF long
<1> QED
  BY <1>2, <1>3

\* Array.prototype.filter keeps exactly what it is asked to, in order.
LEMMA OnlyFilters ==
    ASSUME NEW S, NEW list \in Seq(S), NEW keep
    PROVE  Filtered(Only(list, keep), list, keep, Len(list), S)
<1>1. Len(list) \in Nat
  OBVIOUS
<1>2. PICK f : Chooses(f, list, keep, Len(list)) /\ Only(list, keep) = f[Len(list)]
  BY <1>1, OnlyIsChosen
<1> DEFINE P == {n \in 0 .. Len(list) : Filtered(f[n], list, keep, n, S)}
<1>3. 0 \in P
  <2>1. f[0] = <<>>
    BY <1>1, <1>2 DEF Chooses
  <2> QED
    <3>1. <<>> \in Seq(S) /\ Len(<<>>) = 0 /\ 1 .. Len(<<>>) = {} /\ 1 .. 0 = {}
      OBVIOUS
    <3>2. Filtered(<<>>, list, keep, 0, S)
      BY <3>1 DEF Filtered, Subsequence
    <3> QED
      BY <1>1, <2>1, <3>2
<1>4. ASSUME NEW n \in 0 .. Len(list), n + 1 <= Len(list), n \in P
      PROVE  n + 1 \in P
  <2>1. f[n + 1] = (IF list[n + 1] \in keep THEN Append(f[n], list[n + 1]) ELSE f[n])
    <3>1. n + 1 \in 0 .. Len(list) /\ n + 1 # 0 /\ (n + 1) - 1 = n
      BY <1>1, <1>4
    <3> QED
      BY <1>2, <3>1 DEF Chooses
  <2>2. n \in Nat /\ Filtered(f[n], list, keep, n, S)
    BY <1>1, <1>4
  <2>3. Filtered(f[n + 1], list, keep, n + 1, S)
    BY <1>4, <2>1, <2>2, FilteredStep
  <2> QED
    BY <1>1, <1>4, <2>3
<1> HIDE DEF P
<1>5. 0 .. Len(list) \subseteq P
  BY <1>1, <1>3, <1>4, InductionUpTo
<1>6. Len(list) \in P
  BY <1>1, <1>5
<1> QED
  BY <1>2, <1>6 DEF P

-----------------------------------------------------------------------------
(* RequestGuard: the buckets of a map b                                      *)

Buckets(b) == \A k \in DOMAIN b : b[k] \in Bucket

\* What a sweep leaves of a key.
LEMMA SweptKey ==
    ASSUME NEW b, Buckets(b), NEW ops
    PROVE  /\ Buckets(Swept(b, ops))
           /\ \A k \in DOMAIN Swept(b, ops) : k \in DOMAIN b /\ Swept(b, ops)[k] = b[k]
           /\ \A k \in DOMAIN b : b[k].resetAt > now => k \in DOMAIN Swept(b, ops)
<1>1. /\ DOMAIN Pruned(b) = {k \in DOMAIN b : b[k].resetAt > now}
      /\ \A k \in DOMAIN Pruned(b) : Pruned(b)[k] = b[k]
  BY DEF Pruned, Restrict
<1> QED
  BY <1>1 DEF Swept, Buckets

\* What a call of consume leaves of the key it counts under, and of the others.
LEMMA ConsumedKey ==
    ASSUME NEW b, Buckets(b), now \in Nat, NEW key, NEW window \in Nat,
           NEW k, k = BoundedKey(b, key), NEW after, after = Consumed(b, key, window)
    PROVE  /\ Buckets(after)
           /\ DOMAIN after = DOMAIN b \cup {k}
           /\ \A j \in DOMAIN b : j # k => after[j] = b[j]
           /\ Running(b, k) => /\ after[k].count = b[k].count + 1
                               /\ after[k].resetAt = b[k].resetAt
           /\ ~ Running(b, k) => after[k].count = 1 /\ after[k].resetAt = now + window
<1> DEFINE bucket == IF Running(b, k)
                     THEN [b[k] EXCEPT !.count = @ + 1]
                     ELSE [count |-> 1, resetAt |-> now + window]
<1>1. after = [j \in DOMAIN b \cup {k} |-> IF j = k THEN bucket ELSE b[j]]
  BY DEF Consumed
<1>2. CASE Running(b, k)
  <2>1. bucket = [b[k] EXCEPT !.count = @ + 1] /\ b[k] \in Bucket
    BY <1>2 DEF Running, Buckets
  <2>2. /\ bucket \in Bucket /\ bucket.count = b[k].count + 1
        /\ bucket.resetAt = b[k].resetAt
    BY <2>1 DEF Bucket
  <2> HIDE DEF bucket
  <2> QED
    BY <1>1, <1>2, <2>2 DEF Buckets
<1>3. CASE ~ Running(b, k)
  <2>1. bucket = [count |-> 1, resetAt |-> now + window]
    BY <1>3
  <2>2. bucket \in Bucket /\ bucket.count = 1 /\ bucket.resetAt = now + window
    BY <2>1 DEF Bucket
  <2> HIDE DEF bucket
  <2> QED
    BY <1>1, <1>3, <2>2 DEF Buckets
<1> QED
  BY <1>2, <1>3

-----------------------------------------------------------------------------
(* RequestGuard: the types of the limiter's map                              *)

MapTyped(b) == DOMAIN b \subseteq BucketKey /\ Buckets(b)

LEMMA SweptTyped ==
    ASSUME NEW b, MapTyped(b), NEW ops
    PROVE  MapTyped(Swept(b, ops))
BY SweptKey DEF MapTyped

LEMMA ConsumedTyped ==
    ASSUME now \in Time, NEW b, MapTyped(b), NEW key \in BucketKey, NEW window \in Nat
    PROVE  MapTyped(Consumed(b, key, window))
<1>1. PICK k : k = BoundedKey(b, key)
  OBVIOUS
<1>2. k \in BucketKey
  BY <1>1 DEF BoundedKey, BucketKey
<1>3. now \in Nat
  BY ClockAssumption DEF Time
<1>4. PICK after : after = Consumed(b, key, window)
  OBVIOUS
<1>5. Buckets(after) /\ DOMAIN after = DOMAIN b \cup {k}
  <2>1. Buckets(b)
    BY DEF MapTyped
  <2> QED
    BY <1>1, <1>3, <1>4, <2>1, ConsumedKey
<1>6. MapTyped(after)
  BY <1>2, <1>5 DEF MapTyped
<1> QED
  BY <1>4, <1>6

LEMMA GuardTyped ==
    ASSUME now \in Time, GuardTypeOK, NEW s \in Scope, NEW c \in Client,
           Admit(s, c) \/ DenyClient(s, c) \/ DenyGlobal(s, c)
    PROVE  GuardTypeOK'
<1>1. ClientKey(s, c) \in BucketKey /\ GlobalKey(s) \in BucketKey
  BY DEF ClientKey, GlobalKey, BucketKey
<1>2. Policy[s].windowMs \in Nat /\ Policy[s].globalWindowMs \in Nat
  BY GuardAssumption DEF Limits
<1>3. MapTyped(ForClient)
  <2>1. MapTyped(buckets)
    BY DEF GuardTypeOK, MapTyped, Buckets
  <2> QED
    BY <2>1, SweptTyped DEF ForClient
<1>4. MapTyped(ForGlobal(s, c))
  <2>1. MapTyped(Consumed(ForClient, ClientKey(s, c), Policy[s].windowMs))
    BY <1>1, <1>2, <1>3, ConsumedTyped
  <2> QED
    BY <2>1, SweptTyped DEF ForGlobal
<1>5. MapTyped(Consumed(ForGlobal(s, c), GlobalKey(s), Policy[s].globalWindowMs))
  BY <1>1, <1>2, <1>4, ConsumedTyped
<1>6. MapTyped(buckets')
  BY <1>3, <1>4, <1>5 DEF Admit, DenyClient, DenyGlobal
<1>7. ASSUME NEW n \in {1, 2} PROVE NextOp(n) \in 0 .. PruneEvery - 1
  <2>1. operations + n \in Nat /\ PruneEvery \in Nat \ {0}
    BY GuardAssumption DEF GuardTypeOK
  <2> QED
    BY <2>1 DEF NextOp
<1>8. operations' \in 0 .. PruneEvery - 1
  BY <1>7 DEF Admit, DenyClient, DenyGlobal
<1>9. granted' \in [Scope -> [Time -> Nat]]
  <2>1. granted[s] \in [Time -> Nat] /\ granted \in [Scope -> [Time -> Nat]]
    BY DEF GuardTypeOK
  <2>2. OneMore(granted[s]) \in [Time -> Nat]
    BY <2>1 DEF OneMore
  <2>3. granted' = granted \/ granted' = [granted EXCEPT ![s] = OneMore(granted[s])]
    BY DEF Admit, DenyClient, DenyGlobal
  <2> QED
    BY <2>1, <2>2, <2>3
<1> QED
  BY <1>6, <1>8, <1>9 DEF GuardTypeOK, MapTyped, Buckets
=============================================================================
