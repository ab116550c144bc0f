-------------------------- MODULE ClaimOrderProofs --------------------------
(***************************************************************************)
(* Which message comes next, for any number of messages, priorities,       *)
(* publishing tasks and resets, and however removals and recoveries have   *)
(* ordered the index: claims and drops follow their policy, no retry is    *)
(* early, and the counters of edgesync_get_stats account for every message *)
(* and every attempt.                                                      *)
(***************************************************************************)
EXTENDS ClaimOrder, FiniteSetTheorems, WellFoundedInduction, TLAPS

(* The scan.  Its recursive definition is shown to define something from   *)
(* the principle that every set of naturals has a least element.           *)

LEMMA Least ==
  ASSUME NEW T, T \subseteq Nat, T # {}
  PROVE  \E x \in T : \A y \in T : x <= y
<1>1. IsWellFoundedOn(OpToRel(<, Nat), Nat)
  BY NatLessThanWellFounded
<1>2. PICK x \in T : \A y \in T : ~ (<<y, x>> \in OpToRel(<, Nat))
  BY <1>1, WFMin, Zenon
<1>3. \A y \in T : ~ (y < x)
  BY <1>2 DEF OpToRel
<1> QED BY <1>3

\* One iteration of the loop; g is what the loop computes for the first n entries.
Step(C, B, n, best) ==
  CASE n = 0 -> Nothing
    [] n # 0 /\ n \in C /\ (best = Nothing \/ <<n, best>> \in B) -> n
    [] OTHER -> best
UpTo(C, B, g, n) == g = [k \in 0 .. n |-> Step(C, B, k, g[k - 1])]

\* Such a g exists for every number of entries.
LEMMA ScanExists ==
  ASSUME NEW C, NEW B, NEW n \in Nat
  PROVE  \E g : UpTo(C, B, g, n)
<1> DEFINE T == {x \in Nat : \A g : ~UpTo(C, B, g, x)}
<1>1. T = {}
  <2> SUFFICES ASSUME T # {} PROVE FALSE
    OBVIOUS
  <2>1. PICK x \in T : \A y \in T : x <= y
    BY Least
  <2>2. x # 0
    <3> DEFINE one == [k \in 0 .. 0 |-> Nothing]
    <3>1. \A k \in 0 .. 0 : one[k] = Step(C, B, k, one[k - 1])
      BY DEF Step
    <3>2. UpTo(C, B, one, 0)
      BY <3>1 DEF UpTo
    <3> QED BY <3>2
  <2>3. PICK g : UpTo(C, B, g, x - 1)
    BY <2>1, <2>2
  <2> DEFINE f == [k \in 0 .. x |-> IF k = x THEN Step(C, B, x, g[x - 1]) ELSE g[k]]
  <2>4. ASSUME NEW k \in 0 .. x
        PROVE  f[k] = Step(C, B, k, f[k - 1])
    <3>1. k # 0 => k - 1 \in 0 .. x /\ k - 1 # x
      BY <2>1
    <3>2. k # x => k \in 0 .. x - 1
      BY <2>1
    <3>3. \A j \in 0 .. x - 1 : g[j] = Step(C, B, j, g[j - 1])
      BY <2>3 DEF UpTo
    <3>4. \A b, c : Step(C, B, 0, b) = Step(C, B, 0, c)
      BY DEF Step
    <3>5. CASE k = x
      BY <2>2, <3>1, <3>5
    <3>6. CASE k # x /\ k # 0
      BY <3>1, <3>2, <3>3, <3>6
    <3>7. CASE k # x /\ k = 0
      BY <3>2, <3>3, <3>4, <3>7
    <3> QED BY <3>5, <3>6, <3>7
  <2>5. f = [k \in 0 .. x |-> Step(C, B, k, f[k - 1])]
    BY <2>4
  <2> HIDE DEF f
  <2>6. UpTo(C, B, f, x)
    BY <2>5 DEF UpTo
  <2> QED BY <2>1, <2>6
<1> QED BY <1>1

\* The scan returns a candidate that no candidate beats, if there is one.
LEMMA ScanFirst ==
  ASSUME NEW C, NEW B, Len(index) \in Nat, C \subseteq 1 .. Len(index),
         \A a \in C : <<a, a>> \notin B,
         \A a, b, c \in C : <<a, b>> \in B /\ <<b, c>> \in B => <<a, c>> \in B
  PROVE  \/ C = {} /\ Scan(C, B) = Nothing
         \/ /\ Scan(C, B) \in C
            /\ \A j \in C : <<j, Scan(C, B)>> \notin B
<1> DEFINE N == Len(index)
           best == CHOOSE g : g = [n \in 0 .. N |->
                     CASE n = 0 -> Nothing
                       [] n # 0 /\ n \in C /\ (g[n - 1] = Nothing \/ <<n, g[n - 1]>> \in B) -> n
                       [] OTHER -> g[n - 1]]
<1>1. Scan(C, B) = best[N]
  BY DEF Scan
<1>2. UpTo(C, B, best, N)
  <2>1. PICK g : UpTo(C, B, g, N)
    BY ScanExists
  <2> QED BY <2>1 DEF UpTo, Step
<1> HIDE DEF best
<1>3. \A k \in 0 .. N : best[k] = Step(C, B, k, best[k - 1])
  BY <1>2 DEF UpTo
<1> DEFINE first(n) == \/ best[n] = 0 /\ \A j \in C : j > n
                       \/ best[n] \in C /\ best[n] <= n
                          /\ \A j \in C : j <= n => <<j, best[n]>> \notin B
           T == {n \in 0 .. N : ~first(n)}
<1>4. T = {}
  <2> SUFFICES ASSUME T # {} PROVE FALSE
    OBVIOUS
  <2>0. T \subseteq Nat
    OBVIOUS
  <2>1. PICK n \in T : \A y \in T : n <= y
    <3> HIDE DEF T
    <3> QED BY <2>0, Least
  <2>2. n \in Nat /\ n # 0
    <3>0. \A x : Step(C, B, 0, x) = 0
      BY Zenon DEF Step, Nothing
    <3>1. best[0] = 0
      <4>1. 0 \in 0 .. N
        OBVIOUS
      <4> HIDE DEF N
      <4> QED BY <1>3, <3>0, <4>1
    <3>2. first(0)
      BY <3>1
    <3> QED BY <3>2
  <2>3. n - 1 \in 0 .. N /\ first(n - 1)
    BY <2>1, <2>2
  <2>4. best[n] = Step(C, B, n, best[n - 1])
    BY <1>3
  <2> DEFINE b == best[n - 1]
             c == best[n]
  <2>5. \/ b = 0 /\ \A j \in C : j > n - 1
        \/ b \in C /\ b <= n - 1 /\ \A j \in C : j <= n - 1 => <<j, b>> \notin B
    BY <2>3
  <2>6. \/ n \in C /\ (b = 0 \/ <<n, b>> \in B) /\ c = n
        \/ ~(n \in C /\ (b = 0 \/ <<n, b>> \in B)) /\ c = b
    BY <2>2, <2>4, Zenon DEF Step, Nothing
  <2> HIDE DEF b, c
  <2>7. \A j \in C : j \in Nat /\ j # 0 /\ (j <= n - 1 \/ j = n \/ j > n)
    BY <2>2
  <2>8. CASE n \in C /\ (b = 0 \/ <<n, b>> \in B) /\ c = n
    <3>1. ASSUME NEW j \in C, j <= n
          PROVE  <<j, n>> \notin B
      <4>1. CASE b = 0
        BY <2>2, <2>5, <2>7, <2>8, <3>1, <4>1
      <4>2. CASE b \in C /\ <<n, b>> \in B /\ \A k \in C : k <= n - 1 => <<k, b>> \notin B
        <5>1. j = n \/ j <= n - 1
          BY <2>2, <2>7, <3>1
        <5>2. j <= n - 1 => <<j, b>> \notin B
          BY <4>2
        <5>3. n \in C /\ b \in C /\ <<n, b>> \in B
          BY <2>8, <4>2
        <5> QED BY <5>1, <5>2, <5>3, Zenon
      <4>3. b = 0 \/ (b \in C /\ \A k \in C : k <= n - 1 => <<k, b>> \notin B)
        BY <2>5, Zenon
      <4>4. b = 0 \/ <<n, b>> \in B
        BY <2>8
      <4> QED BY <4>1, <4>2, <4>3, <4>4
    <3> QED BY <2>1, <2>8, <3>1 DEF c
  <2>9. CASE ~(n \in C /\ (b = 0 \/ <<n, b>> \in B)) /\ c = b
    <3>1. CASE b = 0
      <4>1. n \notin C
        BY <2>9, <3>1
      <4>2. \A j \in C : j > n
        BY <2>2, <2>5, <2>7, <3>1, <4>1
      <4> QED BY <2>9, <3>1, <4>2 DEF c
    <3>2. CASE b # 0
      <4>0. b \in C /\ b <= n - 1
        BY <2>5, <3>2, Zenon
      <4>1. b \in C /\ b <= n
        <5>1. b \in Nat
          BY <2>7, <4>0
        <5> QED BY <2>2, <4>0, <5>1
      <4>2. \A j \in C : j <= n => <<j, b>> \notin B
        BY <2>2, <2>5, <2>7, <2>9, <3>2
      <4> QED BY <2>9, <4>1, <4>2 DEF c
    <3> QED BY <3>1, <3>2
  <2> QED BY <2>6, <2>8, <2>9
<1>5. first(N)
  BY <1>4
<1> QED BY <1>1, <1>5 DEF Nothing

-----------------------------------------------------------------------------
(* The array.  An update, an append, a removal that moves the last entry   *)
(* and a recovery in any order all keep one entry for each id; the rest of *)
(* the argument is about the set of the entries.                           *)

EntryRec == [id : Ids, st : {"PENDING", "IN_FLIGHT", "DEAD_LETTER"}, prio : Priorities,
             created : Nat, retry : Nat, att : Nat]
Good(x) == /\ x \in Seq(EntryRec)
           /\ \A i, j \in DOMAIN x : x[i].id = x[j].id => i = j
Contents(x) == {x[i] : i \in DOMAIN x}

\* What a good array is, without its sequence operators.
LEMMA GoodIs ==
  ASSUME NEW x, Good(x)
  PROVE  /\ Len(x) \in Nat /\ DOMAIN x = 1 .. Len(x)
         /\ x \in [1 .. Len(x) -> EntryRec]
         /\ Contents(x) \subseteq EntryRec
         /\ \A d, e \in Contents(x) : d.id = e.id => d = e
<1>1. x \in Seq(EntryRec)
  BY DEF Good
<1>2. Len(x) \in Nat /\ DOMAIN x = 1 .. Len(x) /\ x \in [1 .. Len(x) -> EntryRec]
  BY <1>1
<1> QED BY <1>2 DEF Good, Contents

\* A function on 1 .. n is a sequence of length n.
LEMMA FunctionIsSeq ==
  ASSUME NEW n \in Nat, NEW S, NEW f \in [1 .. n -> S]
  PROVE  f \in Seq(S) /\ Len(f) = n
OBVIOUS

LEMMA PositionIs ==
  ASSUME Good(index), NEW p \in DOMAIN index
  PROVE  Position(index[p].id) = p /\ Entry(index[p].id) = index[p]
<1>1. Position(index[p].id) = p
  BY DEF Good, Position
<1>2. index[p] \in Entries /\ \A e \in Entries : e.id = index[p].id => e = index[p]
  BY DEF Good, Entries
<1>3. Entry(index[p].id) = index[p]
  BY <1>2 DEF Entry
<1> QED BY <1>1, <1>3

\* The hole is filled with the last entry.
LEMMA RemoveIs ==
  ASSUME Good(index), NEW p \in DOMAIN index
  PROVE  LET x == remove_entry(index[p].id)
         IN  /\ Good(x) /\ Len(x) = Len(index) - 1
             /\ Contents(x) = Entries \ {index[p]}
<1> DEFINE x == remove_entry(index[p].id)
           n == Len(index)
<1>1. n \in Nat /\ p \in 1 .. n /\ index \in [1 .. n -> EntryRec] /\ n - 1 \in Nat
  BY GoodIs
<1>2. x = [i \in 1 .. (n - 1) |-> IF i = p THEN index[n] ELSE index[i]]
  BY PositionIs DEF remove_entry
<1>3. \A i, j \in 1 .. n : index[i].id = index[j].id => i = j
  BY <1>1 DEF Good
<1> HIDE DEF x, n
<1>4. x \in [1 .. (n - 1) -> EntryRec]
  BY <1>1, <1>2
<1>5. x \in Seq(EntryRec) /\ Len(x) = n - 1
  BY <1>1, <1>4, FunctionIsSeq
<1>6. \A i, j \in 1 .. (n - 1) : x[i].id = x[j].id => i = j
  BY <1>1, <1>2, <1>3
<1>7. Contents(x) = Entries \ {index[p]}
  <2>1. Entries = {index[i] : i \in 1 .. n}
    BY <1>1 DEF Entries
  <2>2. Contents(x) = {x[i] : i \in 1 .. (n - 1)}
    BY <1>4 DEF Contents
  <2>3. ASSUME NEW i \in 1 .. (n - 1)
        PROVE  x[i] \in Entries \ {index[p]}
    <3>1. \E k \in 1 .. n : x[i] = index[k] /\ k # p
      BY <1>1, <1>2
    <3> QED BY <1>1, <1>3, <2>1, <3>1
  <2>4. ASSUME NEW i \in 1 .. n, i # p
        PROVE  \E k \in 1 .. (n - 1) : x[k] = index[i]
    <3>1. CASE i = n
      <4>1. p \in 1 .. (n - 1) /\ x[p] = index[i]
        BY <1>1, <1>2, <2>4, <3>1
      <4> QED BY <4>1
    <3>2. CASE i # n
      <4>1. i \in 1 .. (n - 1) /\ x[i] = index[i]
        BY <1>1, <1>2, <2>4, <3>2
      <4> QED BY <4>1
    <3> QED BY <3>1, <3>2
  <2> QED BY <2>1, <2>2, <2>3, <2>4
<1> QED BY <1>4, <1>5, <1>6, <1>7 DEF Good, x, n

\* An entry is rewritten in place.
LEMMA UpdateIs ==
  ASSUME Good(index), NEW p \in DOMAIN index, NEW e \in EntryRec, e.id = index[p].id
  PROVE  LET x == Update(index[p].id, e)
         IN  /\ Good(x) /\ Len(x) = Len(index)
             /\ Contents(x) = (Entries \ {index[p]}) \cup {e}
<1> DEFINE x == Update(index[p].id, e)
           n == Len(index)
<1>1. n \in Nat /\ p \in 1 .. n /\ index \in [1 .. n -> EntryRec]
  BY GoodIs
<1>2. x = [index EXCEPT ![p] = e]
  BY PositionIs DEF Update
<1>3. \A i, j \in 1 .. n : index[i].id = index[j].id => i = j
  BY <1>1 DEF Good
<1> HIDE DEF x, n
<1>4. x \in [1 .. n -> EntryRec] /\ \A i \in 1 .. n : x[i] = IF i = p THEN e ELSE index[i]
  BY <1>1, <1>2
<1>5. x \in Seq(EntryRec) /\ Len(x) = n
  BY <1>1, <1>4, FunctionIsSeq
<1>6. \A i, j \in 1 .. n : x[i].id = x[j].id => i = j
  BY <1>1, <1>3, <1>4
<1>7. Contents(x) = (Entries \ {index[p]}) \cup {e}
  <2>1. Entries = {index[i] : i \in 1 .. n} /\ Contents(x) = {x[i] : i \in 1 .. n}
    BY <1>1, <1>4 DEF Entries, Contents
  <2>2. \A i \in 1 .. n : i # p => index[i] # index[p] /\ x[i] = index[i]
    BY <1>1, <1>3, <1>4
  <2>3. x[p] = e
    BY <1>1, <1>4
  <2> QED BY <1>1, <2>1, <2>2, <2>3
<1> QED BY <1>4, <1>5, <1>6, <1>7 DEF Good, x, n

\* A new id goes to the end.
LEMMA AppendIs ==
  ASSUME NEW y, Good(y), NEW e \in EntryRec, \A d \in Contents(y) : d.id # e.id
  PROVE  LET x == Append(y, e)
         IN  Good(x) /\ Len(x) = Len(y) + 1 /\ Contents(x) = Contents(y) \cup {e}
<1> DEFINE x == Append(y, e)
           n == Len(y)
<1>1. n \in Nat /\ y \in [1 .. n -> EntryRec] /\ y \in Seq(EntryRec)
  BY GoodIs DEF Good
<1>2. /\ x \in Seq(EntryRec) /\ Len(x) = n + 1 /\ DOMAIN x = 1 .. (n + 1)
      /\ x[n + 1] = e /\ \A i \in 1 .. n : x[i] = y[i]
  BY <1>1
<1>3. /\ \A i, j \in 1 .. n : y[i].id = y[j].id => i = j
      /\ \A i \in 1 .. n : y[i].id # e.id
      /\ Contents(y) = {y[i] : i \in 1 .. n}
  BY <1>1 DEF Good, Contents
<1> HIDE DEF x, n
<1>4. \A i \in 1 .. (n + 1) : i = n + 1 \/ i \in 1 .. n
  BY <1>1
<1>5. \A i, j \in 1 .. (n + 1) : x[i].id = x[j].id => i = j
  BY <1>2, <1>3, <1>4
<1>6. Contents(x) = Contents(y) \cup {e}
  <2>1. Contents(x) = {x[i] : i \in 1 .. (n + 1)}
    BY <1>2 DEF Contents
  <2>2. n + 1 \in 1 .. (n + 1) /\ 1 .. n \subseteq 1 .. (n + 1)
    BY <1>1
  <2> QED BY <1>2, <1>3, <1>4, <2>1, <2>2
<1> QED BY <1>2, <1>5, <1>6 DEF Good, x, n

\* A recovery finds the entries in some order, none of them IN_FLIGHT.
LEMMA RequeuedIs ==
  ASSUME NEW e \in EntryRec
  PROVE  /\ Requeued(e) \in EntryRec /\ Requeued(e).id = e.id
         /\ Requeued(e).st = IF e.st = "IN_FLIGHT" THEN "PENDING" ELSE e.st
         /\ Requeued(e).retry = IF e.st = "IN_FLIGHT" THEN 0 ELSE e.retry
         /\ Requeued(e).att = e.att
BY DEF Requeued, EntryRec

LEMMA PermuteIs ==
  ASSUME Good(index), NEW perm \in Bijection(DOMAIN index, DOMAIN index)
  PROVE  LET x == [i \in DOMAIN index |-> Requeued(index[perm[i]])]
         IN  /\ Good(x) /\ Len(x) = Len(index)
             /\ Contents(x) = {Requeued(e) : e \in Entries}
<1> DEFINE x == [i \in DOMAIN index |-> Requeued(index[perm[i]])]
           n == Len(index)
<1>1. n \in Nat /\ DOMAIN index = 1 .. n /\ index \in [1 .. n -> EntryRec]
  BY GoodIs
<1>2. /\ perm \in [1 .. n -> 1 .. n]
      /\ \A i, j \in 1 .. n : perm[i] = perm[j] => i = j
      /\ \A j \in 1 .. n : \E i \in 1 .. n : perm[i] = j
  BY <1>1 DEF Bijection, Injection, Surjection, IsInjective
<1>3. \A i, j \in 1 .. n : index[i].id = index[j].id => i = j
  BY <1>1 DEF Good
<1>4. /\ DOMAIN x = 1 .. n
      /\ \A i \in 1 .. n : x[i] = Requeued(index[perm[i]])
  BY <1>1
<1>5. x = [i \in 1 .. n |-> x[i]]
  BY <1>1
<1> HIDE DEF x, n
<1>6. \A i \in 1 .. n : x[i] \in EntryRec /\ x[i].id = index[perm[i]].id
  <2> SUFFICES ASSUME NEW i \in 1 .. n
               PROVE  x[i] \in EntryRec /\ x[i].id = index[perm[i]].id
    OBVIOUS
  <2>1. index[perm[i]] \in EntryRec
    BY <1>1, <1>2
  <2> QED BY <1>4, <2>1, RequeuedIs
<1>7. x \in Seq(EntryRec) /\ Len(x) = n
  <2>1. x \in [1 .. n -> EntryRec]
    BY <1>5, <1>6
  <2> QED BY <1>1, <2>1, FunctionIsSeq
<1>8. \A i, j \in 1 .. n : x[i].id = x[j].id => i = j
  <2> SUFFICES ASSUME NEW i \in 1 .. n, NEW j \in 1 .. n, x[i].id = x[j].id
               PROVE  i = j
    OBVIOUS
  <2>1. perm[i] \in 1 .. n /\ perm[j] \in 1 .. n
    BY <1>2
  <2>2. perm[i] = perm[j]
    BY <1>3, <1>6, <2>1
  <2> QED BY <1>2, <2>2
<1>9. Contents(x) = {Requeued(e) : e \in Entries}
  <2>1. Contents(x) = {x[i] : i \in 1 .. n}
    BY <1>4 DEF Contents
  <2>2. Entries = {index[i] : i \in 1 .. n}
    BY <1>1 DEF Entries
  <2>3. \A i \in 1 .. n : perm[i] \in 1 .. n
    BY <1>2
  <2>4. \A i \in 1 .. n : x[i] \in {Requeued(e) : e \in Entries}
    BY <1>4, <2>2, <2>3
  <2>5. \A e \in Entries : Requeued(e) \in Contents(x)
    <3> SUFFICES ASSUME NEW j \in 1 .. n PROVE Requeued(index[j]) \in Contents(x)
      BY <2>2
    <3>1. PICK i \in 1 .. n : perm[i] = j
      BY <1>2
    <3> QED BY <1>4, <2>1, <3>1
  <2> QED BY <2>1, <2>4, <2>5
<1> QED BY <1>4, <1>7, <1>8, <1>9 DEF Good, x, n

-----------------------------------------------------------------------------
(* What the two scans choose.                                              *)

\* No eligible entry precedes the one that is claimed.
LEMMA ClaimIs ==
  ASSUME Good(index), OrderAssumption, claim_next # Nothing
  PROVE  /\ claim_next \in DOMAIN index /\ Eligible(index[claim_next])
         /\ \A e \in Entries : Eligible(e) => ~Before(e, index[claim_next])
<1> DEFINE C == {i \in DOMAIN index : Eligible(index[i])}
           B == {p \in Pairs : Before(index[p[1]], index[p[2]])}
<1>1. /\ Len(index) \in Nat /\ DOMAIN index = 1 .. Len(index)
      /\ \A i \in DOMAIN index : /\ index[i].prio \in Nat /\ index[i].retry \in Nat
                                 /\ index[i].created \in Nat
  <2>1. /\ Len(index) \in Nat /\ DOMAIN index = 1 .. Len(index)
        /\ \A i \in DOMAIN index : index[i] \in EntryRec
    BY GoodIs
  <2> QED BY <2>1, OrderAssumption DEF EntryRec
<1>2. \A a, b \in DOMAIN index : <<a, b>> \in B <=> Before(index[a], index[b])
  BY DEF Pairs
<1>3. claim_next = Scan(C, B)
  BY DEF claim_next
<1> HIDE DEF B
<1>4. \A a \in C : <<a, a>> \notin B
  BY <1>1, <1>2 DEF Before
<1>5. \A a, b, c \in C : <<a, b>> \in B /\ <<b, c>> \in B => <<a, c>> \in B
  <2>1. ASSUME NEW a \in DOMAIN index, NEW b \in DOMAIN index, NEW c \in DOMAIN index,
               Before(index[a], index[b]), Before(index[b], index[c])
        PROVE  Before(index[a], index[c])
    BY <1>1, <2>1 DEF Before
  <2>2. C \subseteq DOMAIN index
    OBVIOUS
  <2> HIDE DEF C
  <2> QED BY <1>2, <2>1, <2>2, Zenon
<1>6. Scan(C, B) \in C /\ \A j \in C : <<j, Scan(C, B)>> \notin B
  <2>1. C \subseteq 1 .. Len(index)
    BY <1>1
  <2> HIDE DEF C
  <2> QED BY <1>1, <1>3, <1>4, <1>5, <2>1, ScanFirst
<1> QED BY <1>2, <1>3, <1>6 DEF Entries

\* No PENDING entry precedes the one that is dropped.
LEMMA DropIs ==
  ASSUME Good(index), OrderAssumption, find_drop_candidate # Nothing
  PROVE  /\ find_drop_candidate \in DOMAIN index /\ Pending(index[find_drop_candidate])
         /\ \A e \in Entries : Pending(e) => ~DropBefore(e, index[find_drop_candidate])
<1> DEFINE C == {i \in DOMAIN index : Pending(index[i])}
           B == {p \in Pairs : DropBefore(index[p[1]], index[p[2]])}
<1>1. /\ Len(index) \in Nat /\ DOMAIN index = 1 .. Len(index)
      /\ \A i \in DOMAIN index : index[i].prio \in Nat /\ index[i].created \in Nat
  <2>1. /\ Len(index) \in Nat /\ DOMAIN index = 1 .. Len(index)
        /\ \A i \in DOMAIN index : index[i] \in EntryRec
    BY GoodIs
  <2> QED BY <2>1, OrderAssumption DEF EntryRec
<1>2. \A a, b \in DOMAIN index : <<a, b>> \in B <=> DropBefore(index[a], index[b])
  BY DEF Pairs
<1>3. find_drop_candidate = Scan(C, B)
  BY DEF find_drop_candidate
<1> HIDE DEF B
<1>4. \A a \in C : <<a, a>> \notin B
  BY <1>1, <1>2 DEF DropBefore
<1>5. \A a, b, c \in C : <<a, b>> \in B /\ <<b, c>> \in B => <<a, c>> \in B
  <2>1. ASSUME NEW a \in DOMAIN index, NEW b \in DOMAIN index, NEW c \in DOMAIN index,
               DropBefore(index[a], index[b]), DropBefore(index[b], index[c])
        PROVE  DropBefore(index[a], index[c])
    <3>1. CASE policy = "DROP_LOWEST_PRIORITY"
      BY <1>1, <2>1, <3>1 DEF DropBefore
    <3>2. CASE policy # "DROP_LOWEST_PRIORITY"
      BY <1>1, <2>1, <3>2 DEF DropBefore
    <3> QED BY <3>1, <3>2
  <2>2. C \subseteq DOMAIN index
    OBVIOUS
  <2> HIDE DEF C
  <2> QED BY <1>2, <2>1, <2>2, Zenon
<1>6. Scan(C, B) \in C /\ \A j \in C : <<j, Scan(C, B)>> \notin B
  <2>1. C \subseteq 1 .. Len(index)
    BY <1>1
  <2> HIDE DEF C
  <2> QED BY <1>1, <1>3, <1>4, <1>5, <2>1, ScanFirst
<1> QED BY <1>2, <1>3, <1>6 DEF Entries

-----------------------------------------------------------------------------
(* The invariant.                                                          *)

TypeOK ==
  /\ Good(index) /\ now \in Nat /\ policy \in Policies
  /\ stamped \subseteq [id : Ids, prio : Priorities, created : Nat]
  /\ counters \in [successful : Nat, failed : Nat]
  /\ offered \in Nat /\ born \in [Ids -> Nat] /\ due \in [Ids -> Nat]
  /\ bootedAt \in Nat /\ resets \in Nat /\ since \in [taken : Nat, claimed : Nat]

\* Ids are given out once, one message is in flight at most, its attempt is
\* counted, and a message that was never attempted has no retry time.
EntriesInv ==
  /\ \A e \in Entries : e.id <= offered /\ \A s \in stamped : s.id # e.id
  /\ \A s \in stamped : s.id <= offered
  /\ \A s, t \in stamped : s.id = t.id => s = t
  /\ \A d, e \in InFlight : d = e
  /\ \A e \in InFlight : e.att > 0
  /\ \A e \in Entries : e.st = "PENDING" /\ e.att = 0 => e.retry = 0

\* A back-off that has not ended is in the entry, in the clock of this boot or
\* of an earlier one, which is later.
DueInv ==
  /\ \A e \in Entries : e.st = "PENDING" =>
       due[e.id] <= bootedAt + now \/ due[e.id] <= bootedAt + e.retry
  /\ \A e \in InFlight : due[e.id] <= bootedAt + now
  /\ \A m \in Ids : m > offered => due[m] = 0
  /\ \A s \in stamped : due[s.id] = 0

CountInv ==
  /\ Len(index) + counters.successful = since.taken
  /\ InFlight = {} => counters.successful + counters.failed = since.claimed
  /\ InFlight # {} => counters.successful + counters.failed + 1 = since.claimed

OrderInv == TypeOK /\ EntriesInv /\ DueInv /\ CountInv

\* The entries of a state that satisfies the types.
LEMMA EntriesTyped ==
  ASSUME TypeOK
  PROVE  /\ Entries = Contents(index) /\ Entries \subseteq EntryRec /\ Len(index) \in Nat
         /\ \A d, e \in Entries : d.id = e.id => d = e
         /\ \A e \in Entries : \E p \in DOMAIN index : e = index[p]
<1>1. Good(index)
  BY DEF TypeOK
<1>2. Entries = Contents(index)
  BY DEF Entries, Contents
<1> QED BY <1>1, <1>2, GoodIs DEF Entries

LEMMA OrderInit == Init => OrderInv
<1> SUFFICES ASSUME Init PROVE OrderInv
  OBVIOUS
<1>1. index = <<>> /\ Len(index) = 0 /\ DOMAIN index = {}
  BY DEF Init
<1>2. Good(index) /\ Entries = {} /\ InFlight = {}
  BY <1>1 DEF Good, Entries, InFlight
<1>3. TypeOK
  BY <1>2 DEF Init, TypeOK
<1> QED BY <1>1, <1>2, <1>3 DEF Init, OrderInv, EntriesInv, DueInv, CountInv

\* The claimed entry goes in flight, with one more attempt.
LEMMA OrderClaim ==
  ASSUME OrderInv, Claim
  PROVE  /\ OrderInv' /\ \A x \in InFlight' : x.id = index[claim_next].id
         /\ due[index[claim_next].id] <= bootedAt + now
         /\ \A x \in Entries : \E y \in Entries' : y.id = x.id
<1> DEFINE e == index[claim_next]
           f == [e EXCEPT !.st = "IN_FLIGHT", !.att = @ + 1]
<1>1. Good(index) /\ claim_next # Nothing /\ InFlight = {} /\ TypeOK
  BY DEF Claim, OrderInv, TypeOK
<1>2. /\ claim_next \in DOMAIN index /\ Eligible(e) /\ e \in Entries
  BY <1>1, ClaimIs, OrderAssumption DEF Entries
<1>3. e \in EntryRec
  BY <1>1, <1>2, EntriesTyped
<1>4. index' = Update(e.id, f)
  BY DEF Claim
<1>5. /\ f \in EntryRec /\ f.id = e.id /\ f.st = "IN_FLIGHT" /\ f.retry = e.retry
      /\ f.att = e.att + 1
  <2> HIDE DEF e
  <2>1. PICK n \in Nat : n = e.att + 1
    BY <1>3 DEF EntryRec
  <2>2. f = [e EXCEPT !.st = "IN_FLIGHT", !.att = n]
    BY <1>3, <2>1 DEF EntryRec
  <2> HIDE DEF f
  <2>3. f \in EntryRec /\ f.id = e.id /\ f.st = "IN_FLIGHT" /\ f.retry = e.retry /\ f.att = n
    BY <1>3, <2>2 DEF EntryRec
  <2> QED BY <2>1, <2>3
<1> HIDE DEF f
<1>6. Good(index') /\ Len(index') = Len(index) /\ Contents(index') = (Entries \ {e}) \cup {f}
  BY <1>1, <1>2, <1>4, <1>5, UpdateIs
<1>7. Entries' = (Entries \ {e}) \cup {f}
  BY <1>6 DEF Entries, Contents
<1> HIDE DEF e
<1>8. InFlight' = {f}
  BY <1>1, <1>5, <1>7 DEF InFlight
<1>9. TypeOK'
  <2>1. since' \in [taken : Nat, claimed : Nat]
    BY <1>1 DEF Claim, TypeOK
  <2> QED BY <1>1, <1>6, <2>1 DEF Claim, TypeOK
<1>10. EntriesInv'
  <2>1. f.att > 0
    BY <1>3, <1>5 DEF EntryRec
  <2> QED BY <1>2, <1>5, <1>7, <1>8, <2>1 DEF OrderInv, EntriesInv, Claim
<1>11. due[e.id] <= bootedAt + now
  BY <1>1, <1>2, <1>3 DEF OrderInv, DueInv, TypeOK, Eligible, EntryRec
<1>12. DueInv'
  BY <1>2, <1>5, <1>7, <1>8, <1>11 DEF OrderInv, DueInv, Claim
<1>13. CountInv'
  <2>1. since' = [since EXCEPT !.claimed = @ + 1] /\ counters' = counters
    BY DEF Claim
  <2>2. since'.taken = since.taken /\ since'.claimed = since.claimed + 1
    BY <1>1, <2>1 DEF TypeOK
  <2> QED BY <1>1, <1>6, <1>8, <2>1, <2>2 DEF OrderInv, CountInv
<1>14. \A x \in Entries : \E y \in Entries' : y.id = x.id
  BY <1>5, <1>7
<1> QED BY <1>5, <1>8, <1>9, <1>10, <1>11, <1>12, <1>13, <1>14 DEF OrderInv, e

\* What an enqueue stores, and what becomes of the entries: it is added, with
\* or without a victim, or refused.
LEMMA PublishedIs ==
  ASSUME TypeOK, NEW s \in stamped, \A e \in Entries : e.id # s.id, index' = Published(s)[1]
  PROVE  LET n == NewEntry(s)
             k == Published(s)[2]
         IN /\ n \in EntryRec /\ n.id = s.id /\ n.st = "PENDING" /\ n.att = 0 /\ n.retry = 0
            /\ Good(index')
            /\ \/ Entries' = Entries \cup {n} /\ Len(index') = Len(index) + 1 /\ k = 1
               \/ Entries' = Entries /\ Len(index') = Len(index) /\ k = 0
               \/ /\ find_drop_candidate # Nothing /\ policy # "REJECT_NEW"
                  /\ Entries' = (Entries \ {index[find_drop_candidate]}) \cup {n}
                  /\ Len(index') = Len(index) /\ k = 0
<1> DEFINE n == NewEntry(s)
           v == find_drop_candidate
<1>1. s \in [id : Ids, prio : Priorities, created : Nat]
  BY DEF TypeOK
<1>2. n \in EntryRec /\ n.id = s.id /\ n.st = "PENDING" /\ n.att = 0 /\ n.retry = 0
  BY <1>1 DEF NewEntry, EntryRec
<1>3. /\ Good(index) /\ Entries = Contents(index) /\ Entries' = Contents(index')
      /\ Len(index) \in Nat
  BY EntriesTyped DEF TypeOK, Entries, Contents
<1>4. \/ Published(s) = <<Append(index, n), 1>>
      \/ Published(s) = <<index, 0>>
      \/ /\ v # Nothing /\ policy # "REJECT_NEW"
         /\ Published(s) = <<Append(remove_entry(index[v].id), n), 0>>
  <2>1. Len(index) < MaxMessages \/ Len(index) >= MaxMessages
    BY <1>3, OrderAssumption
  <2> HIDE DEF n, v
  <2> QED BY <2>1 DEF Published, n, v
<1>5. CASE Published(s) = <<Append(index, n), 1>>
  <2>1. index' = Append(index, n)
    BY <1>5
  <2> HIDE DEF n
  <2>2. Good(index') /\ Len(index') = Len(index) + 1 /\ Contents(index') = Contents(index) \cup {n}
    BY <1>2, <1>3, <2>1, AppendIs
  <2> QED BY <1>2, <1>3, <1>5, <2>2 DEF n
<1>6. CASE Published(s) = <<index, 0>>
  <2>1. index' = index
    BY <1>6
  <2> QED BY <1>2, <1>3, <1>6, <2>1
<1>7. CASE /\ v # Nothing /\ policy # "REJECT_NEW"
           /\ Published(s) = <<Append(remove_entry(index[v].id), n), 0>>
  <2> DEFINE y == remove_entry(index[v].id)
  <2>1. v \in DOMAIN index
    BY <1>3, <1>7, DropIs, OrderAssumption
  <2>2. Good(y) /\ Len(y) = Len(index) - 1 /\ Contents(y) = Entries \ {index[v]}
    BY <1>3, <2>1, RemoveIs
  <2>3. index' = Append(y, n)
    BY <1>7
  <2> HIDE DEF n, y, v
  <2>4. \A d \in Contents(y) : d.id # n.id
    BY <1>2, <2>2
  <2>5. Good(index') /\ Len(index') = Len(y) + 1 /\ Contents(index') = Contents(y) \cup {n}
    BY <1>2, <2>2, <2>3, <2>4, AppendIs
  <2>6. Len(index') = Len(index)
    BY <1>3, <2>2, <2>5
  <2> QED BY <1>2, <1>3, <1>7, <2>2, <2>5, <2>6 DEF n, v
<1> QED BY <1>4, <1>5, <1>6, <1>7

\* A publish under the mutex keeps the invariant; the message in flight stays.
LEMMA OrderPublish ==
  ASSUME OrderInv, NEW s \in stamped, Publish(s)
  PROVE  OrderInv' /\ InFlight' = InFlight
<1> DEFINE n == NewEntry(s)
           k == Published(s)[2]
           v == index[find_drop_candidate]
<1>1. TypeOK /\ \A e \in Entries : e.id # s.id
  BY DEF OrderInv, EntriesInv
<1>2. /\ n \in EntryRec /\ n.id = s.id /\ n.st = "PENDING" /\ n.att = 0 /\ n.retry = 0
      /\ Good(index')
      /\ \/ Entries' = Entries \cup {n} /\ Len(index') = Len(index) + 1 /\ k = 1
         \/ Entries' = Entries /\ Len(index') = Len(index) /\ k = 0
         \/ /\ find_drop_candidate # Nothing
            /\ Entries' = (Entries \ {v}) \cup {n} /\ Len(index') = Len(index) /\ k = 0
  BY <1>1, PublishedIs DEF Publish
<1>3. find_drop_candidate # Nothing => v.st = "PENDING"
  BY <1>1, DropIs, OrderAssumption DEF TypeOK, Pending
<1>4. /\ stamped' = stamped \ {s} /\ since' = [since EXCEPT !.taken = @ + k]
      /\ UNCHANGED <<now, policy, counters, offered, born, due, bootedAt, resets>>
  BY DEF Publish
<1>5. Len(index) \in Nat /\ s.id \in Ids /\ s.id <= offered /\ due[s.id] = 0
  BY <1>1, EntriesTyped DEF TypeOK, OrderInv, EntriesInv, DueInv
<1> HIDE DEF n, k, v
<1>6. InFlight' = InFlight
  BY <1>2, <1>3 DEF InFlight
<1>7. \A e \in Entries' : e \in Entries \/ e = n
  BY <1>2
<1>8. TypeOK'
  <2>1. since' \in [taken : Nat, claimed : Nat]
    <3>1. since \in [taken : Nat, claimed : Nat] /\ since.taken + k \in Nat
      BY <1>1, <1>2 DEF TypeOK
    <3> QED BY <1>4, <3>1
  <2> QED BY <1>1, <1>2, <1>4, <2>1 DEF TypeOK
<1>9. EntriesInv'
  <2>1. \A t \in stamped' : t \in stamped /\ t.id # s.id
    BY <1>4 DEF OrderInv, EntriesInv
  <2> QED BY <1>2, <1>4, <1>5, <1>6, <1>7, <2>1 DEF OrderInv, EntriesInv
<1>10. DueInv'
  <2>1. 0 <= bootedAt + now
    BY <1>1 DEF TypeOK
  <2> QED BY <1>2, <1>4, <1>5, <1>6, <1>7, <2>1 DEF OrderInv, DueInv
<1>11. CountInv'
  <2>1. since'.taken = since.taken + k /\ since'.claimed = since.claimed
    BY <1>1, <1>4 DEF TypeOK
  <2>2. Len(index') = Len(index) + k
    BY <1>2, <1>5
  <2>3. counters.successful \in Nat /\ k \in Nat
    BY <1>1, <1>2 DEF TypeOK
  <2> QED BY <1>4, <1>5, <1>6, <2>1, <2>2, <2>3 DEF OrderInv, CountInv
<1> QED BY <1>6, <1>8, <1>9, <1>10, <1>11 DEF OrderInv

\* A publish call that has not got the mutex yet has an id of its own.
LEMMA OrderStamp ==
  ASSUME OrderInv, NEW p \in Priorities, Stamp(p)
  PROVE  OrderInv' /\ InFlight' = InFlight /\ Entries' = Entries
<1> DEFINE s == [id |-> offered + 1, prio |-> p, created |-> now]
<1>1. TypeOK /\ Entries' = Entries /\ InFlight' = InFlight
  BY DEF OrderInv, Stamp, Entries, InFlight
<1>2. /\ offered' = offered + 1 /\ offered + 1 \in Ids /\ stamped' = stamped \cup {s}
      /\ born' = [born EXCEPT ![offered + 1] = resets]
      /\ s \in [id : Ids, prio : Priorities, created : Nat] /\ s.id = offered + 1
      /\ UNCHANGED <<index, now, policy, counters, due, bootedAt, resets, since>>
  BY <1>1, OrderAssumption DEF Stamp, Ids, TypeOK
<1> HIDE DEF s
<1>3. TypeOK'
  <2>1. Good(index')
    BY <1>1, <1>2 DEF TypeOK
  <2> QED BY <1>1, <1>2, <2>1 DEF TypeOK
<1>4. /\ \A e \in Entries : e.id \in Nat /\ e.id < offered + 1
      /\ \A t \in stamped : t.id \in Nat /\ t.id < offered + 1
  BY <1>1, EntriesTyped DEF EntryRec, OrderInv, EntriesInv, Ids, TypeOK
<1>5. EntriesInv'
  BY <1>1, <1>2, <1>4 DEF OrderInv, EntriesInv, TypeOK
<1>6. DueInv'
  <2>1. \A m \in Ids : m > offered + 1 => m > offered
    BY <1>1 DEF TypeOK, Ids
  <2>2. due[s.id] = 0
    BY <1>1, <1>2 DEF OrderInv, DueInv, TypeOK
  <2> QED BY <1>1, <1>2, <2>1, <2>2 DEF OrderInv, DueInv
<1>7. CountInv'
  BY <1>1, <1>2 DEF OrderInv, CountInv
<1> QED BY <1>1, <1>3, <1>5, <1>6, <1>7 DEF OrderInv

\* The entry in flight is the only one.
LEMMA InFlightIs ==
  ASSUME OrderInv, NEW e \in InFlight
  PROVE  /\ InFlight = {e} /\ e \in Entries /\ e \in EntryRec
         /\ \E p \in DOMAIN index : e = index[p]
         /\ due[e.id] <= bootedAt + now
         /\ counters.successful + counters.failed + 1 = since.claimed
<1>1. e \in Entries /\ InFlight = {e}
  BY DEF InFlight, OrderInv, EntriesInv
<1> QED BY <1>1, EntriesTyped DEF OrderInv, DueInv, CountInv

\* A delivered message leaves the index and is counted.
LEMMA OrderDelivered ==
  ASSUME OrderInv, NEW e \in InFlight, MarkDelivered(e)
  PROVE  OrderInv' /\ InFlight' = {} /\ Entries' = Entries \ {e}
<1>1. /\ TypeOK /\ InFlight = {e} /\ e \in Entries
      /\ counters.successful + counters.failed + 1 = since.claimed
  BY InFlightIs DEF OrderInv
<1>2. Good(index') /\ Len(index') = Len(index) - 1 /\ Entries' = Entries \ {e}
  <2>1. PICK p \in DOMAIN index : e = index[p]
    BY InFlightIs
  <2>2. index' = remove_entry(index[p].id)
    BY <2>1 DEF MarkDelivered
  <2>3. Good(index') /\ Len(index') = Len(index) - 1 /\ Contents(index') = Entries \ {index[p]}
    BY <1>1, <2>2, RemoveIs DEF TypeOK
  <2> QED BY <2>1, <2>3 DEF Entries, Contents
<1>3. /\ counters' = [counters EXCEPT !.successful = @ + 1]
      /\ UNCHANGED <<now, policy, stamped, offered, born, due, bootedAt, resets, since>>
  BY DEF MarkDelivered, history
<1>4. InFlight' = {}
  BY <1>1, <1>2 DEF InFlight
<1>5. /\ counters' \in [successful : Nat, failed : Nat]
      /\ counters'.successful = counters.successful + 1 /\ counters'.failed = counters.failed
  <2>1. counters \in [successful : Nat, failed : Nat] /\ counters.successful + 1 \in Nat
    BY <1>1 DEF TypeOK
  <2> QED BY <1>3, <2>1
<1>6. TypeOK'
  BY <1>1, <1>2, <1>3, <1>5 DEF TypeOK
<1>7. EntriesInv'
  BY <1>2, <1>3, <1>4 DEF OrderInv, EntriesInv
<1>8. DueInv'
  BY <1>2, <1>3, <1>4 DEF OrderInv, DueInv
<1>9. CountInv'
  <2>1. Len(index) \in Nat /\ counters.successful \in Nat /\ counters.failed \in Nat
    BY <1>1, EntriesTyped DEF TypeOK
  <2>2. Len(index) + counters.successful = since.taken
    BY DEF OrderInv, CountInv
  <2>3. Len(index') + counters'.successful = since'.taken
    BY <1>2, <1>3, <1>5, <2>1, <2>2
  <2>4. counters'.successful + counters'.failed = since'.claimed
    BY <1>1, <1>3, <1>5, <2>1
  <2> QED BY <1>4, <2>3, <2>4 DEF CountInv
<1> QED BY <1>2, <1>4, <1>6, <1>7, <1>8, <1>9 DEF OrderInv

\* A failed attempt is counted; a retry is due as late as its entry says.
LEMMA OrderFailed ==
  ASSUME OrderInv, NEW e \in InFlight,
         (\E d \in Delays : ScheduleRetry(e, d)) \/ DeadLetter(e)
  PROVE  OrderInv' /\ InFlight' = {} /\ \A x \in Entries : \E y \in Entries' : y.id = x.id
<1>1. /\ TypeOK /\ InFlight = {e} /\ e \in Entries /\ e \in EntryRec /\ e.st = "IN_FLIGHT"
      /\ counters.successful + counters.failed + 1 = since.claimed
      /\ now \in Nat /\ bootedAt \in Nat
  BY InFlightIs DEF OrderInv, InFlight, TypeOK
<1>2. PICK f : /\ f \in EntryRec /\ f.id = e.id /\ f.att = e.att
               /\ index' = Update(e.id, f)
               /\ \/ /\ f.st = "PENDING"
                     /\ due' = [due EXCEPT ![e.id] = bootedAt + f.retry]
                  \/ f.st = "DEAD_LETTER" /\ due' = due
  <2>1. CASE \E d \in Delays : ScheduleRetry(e, d)
    <3>0. PICK d \in Delays : ScheduleRetry(e, d)
      BY <2>1
    <3> DEFINE f == [e EXCEPT !.st = "PENDING", !.retry = now + d]
    <3>1. now + d \in Nat /\ bootedAt + now + d = bootedAt + (now + d)
      BY <1>1, OrderAssumption
    <3>2. f \in EntryRec /\ f.id = e.id /\ f.att = e.att /\ f.st = "PENDING" /\ f.retry = now + d
      BY <1>1, <3>1 DEF EntryRec
    <3>3. /\ index' = Update(e.id, f)
          /\ due' = [due EXCEPT ![e.id] = bootedAt + now + d]
      BY <3>0 DEF ScheduleRetry
    <3> HIDE DEF f
    <3> QED BY <3>1, <3>2, <3>3
  <2>2. CASE DeadLetter(e)
    <3> DEFINE f == [e EXCEPT !.st = "DEAD_LETTER", !.retry = 0]
    <3>1. f \in EntryRec /\ f.id = e.id /\ f.att = e.att /\ f.st = "DEAD_LETTER"
      BY <1>1 DEF EntryRec
    <3>2. index' = Update(e.id, f) /\ due' = due
      BY <2>2 DEF DeadLetter, history
    <3> HIDE DEF f
    <3> QED BY <3>1, <3>2
  <2> QED BY <2>1, <2>2
<1>3. Good(index') /\ Len(index') = Len(index) /\ Entries' = (Entries \ {e}) \cup {f}
  <2>1. PICK p \in DOMAIN index : e = index[p]
    BY InFlightIs
  <2>2. /\ Good(index') /\ Len(index') = Len(index)
        /\ Contents(index') = (Entries \ {index[p]}) \cup {f}
    BY <1>1, <1>2, <2>1, UpdateIs DEF TypeOK
  <2> QED BY <2>1, <2>2 DEF Entries, Contents
<1>4. /\ counters' = [counters EXCEPT !.failed = @ + 1]
      /\ UNCHANGED <<now, policy, stamped, offered, born, bootedAt, resets, since>>
  BY DEF ScheduleRetry, DeadLetter, history
<1>5. InFlight' = {}
  BY <1>1, <1>2, <1>3 DEF InFlight
<1>6. /\ counters' \in [successful : Nat, failed : Nat]
      /\ counters'.successful = counters.successful /\ counters'.failed = counters.failed + 1
  <2>1. counters \in [successful : Nat, failed : Nat] /\ counters.failed + 1 \in Nat
    BY <1>1 DEF TypeOK
  <2> QED BY <1>4, <2>1
<1>7. due' \in [Ids -> Nat] /\ \A m \in Ids : m # e.id => due'[m] = due[m]
  <2>1. due \in [Ids -> Nat] /\ bootedAt + f.retry \in Nat
    BY <1>1, <1>2 DEF TypeOK, EntryRec
  <2> QED BY <1>2, <2>1
<1>8. TypeOK'
  BY <1>1, <1>3, <1>4, <1>6, <1>7 DEF TypeOK
<1>9. EntriesInv'
  <2>1. e.id \in Ids /\ e.att \in Nat /\ e.id <= offered /\ \A s \in stamped : s.id # e.id
    BY <1>1 DEF EntryRec, OrderInv, EntriesInv
  <2>2. f.st = "PENDING" /\ f.att = 0 => f.retry = 0
    <3>1. e.att > 0
      BY DEF OrderInv, EntriesInv
    <3> QED BY <1>2, <3>1
  <2> QED BY <1>2, <1>3, <1>4, <1>5, <2>1, <2>2 DEF OrderInv, EntriesInv
<1>10. DueInv'
  <2>1. \A x \in Entries' : x = f \/ (x \in Entries /\ x.id # e.id)
    BY <1>1, <1>3, EntriesTyped
  <2>2. e.id \in Ids /\ e.id <= offered /\ \A s \in stamped : s.id # e.id
    BY <1>1 DEF EntryRec, OrderInv, EntriesInv
  <2>3. f.st = "PENDING" => due'[f.id] <= bootedAt + f.retry
    <3> SUFFICES ASSUME f.st = "PENDING" PROVE due'[f.id] <= bootedAt + f.retry
      OBVIOUS
    <3>1. due' = [due EXCEPT ![e.id] = bootedAt + f.retry]
      BY <1>2
    <3>2. due \in [Ids -> Nat] /\ bootedAt + f.retry \in Nat
      BY <1>1, <1>2 DEF TypeOK, EntryRec
    <3> QED BY <1>1, <1>2, <2>2, <3>1, <3>2
  <2>4. \A x \in Entries' : x.st = "PENDING" =>
          due'[x.id] <= bootedAt' + now' \/ due'[x.id] <= bootedAt' + x.retry
    <3> SUFFICES ASSUME NEW x \in Entries', x.st = "PENDING"
                 PROVE  due'[x.id] <= bootedAt + now \/ due'[x.id] <= bootedAt + x.retry
      BY <1>4
    <3>1. CASE x = f
      BY <2>3, <3>1
    <3>2. CASE x \in Entries /\ x.id # e.id
      <4>1. x.id \in Ids
        BY <1>1, <3>2, EntriesTyped DEF EntryRec
      <4>2. due'[x.id] = due[x.id]
        BY <1>7, <3>2, <4>1
      <4> QED BY <3>2, <4>2 DEF OrderInv, DueInv
    <3> QED BY <2>1, <3>1, <3>2
  <2>5. \A m \in Ids : m > offered' => due'[m] = 0
    BY <1>1, <1>4, <1>7, <2>2 DEF OrderInv, DueInv, TypeOK, Ids
  <2>6. \A s \in stamped' : due'[s.id] = 0
    <3>1. \A s \in stamped : s.id \in Ids
      BY <1>1 DEF TypeOK
    <3> QED BY <1>4, <1>7, <2>2, <3>1 DEF OrderInv, DueInv
  <2> QED BY <1>5, <2>4, <2>5, <2>6 DEF DueInv
<1>11. CountInv'
  <2>1. Len(index) \in Nat /\ counters.successful \in Nat /\ counters.failed \in Nat
    BY <1>1, EntriesTyped DEF TypeOK
  <2>2. counters'.successful + counters'.failed = since'.claimed
    BY <1>1, <1>4, <1>6, <2>1
  <2> QED BY <1>3, <1>4, <1>5, <1>6, <2>2 DEF OrderInv, CountInv
<1> QED BY <1>1, <1>2, <1>3, <1>5, <1>8, <1>9, <1>10, <1>11 DEF OrderInv

\* Time passes: a back-off may end.
LEMMA OrderTick == OrderInv /\ Tick => OrderInv' /\ InFlight' = InFlight /\ Entries' = Entries
<1> SUFFICES ASSUME OrderInv, Tick
             PROVE  OrderInv' /\ InFlight' = InFlight /\ Entries' = Entries
  OBVIOUS
<1>1. /\ now' = now + 1
      /\ UNCHANGED <<index, policy, stamped, counters, offered, born, due, bootedAt, resets, since>>
      /\ Entries' = Entries /\ InFlight' = InFlight
  BY DEF Tick, history, Entries, InFlight
<1>2. TypeOK'
  <2>1. Good(index')
    BY <1>1 DEF OrderInv, TypeOK
  <2> QED BY <1>1, <2>1 DEF OrderInv, TypeOK
<1>3. DueInv'
  <2>1. now \in Nat /\ bootedAt \in Nat /\ due \in [Ids -> Nat]
    BY DEF OrderInv, TypeOK
  <2>2. \A e \in Entries : e.id \in Ids
    BY EntriesTyped DEF OrderInv, EntryRec
  <2>3. InFlight \subseteq Entries
    BY DEF InFlight
  <2>4. \A m \in Ids : due[m] <= bootedAt + now => due[m] <= bootedAt + (now + 1)
    BY <2>1
  <2> QED BY <1>1, <2>2, <2>3, <2>4 DEF OrderInv, DueInv
<1>4. EntriesInv' /\ CountInv'
  BY <1>1 DEF OrderInv, EntriesInv, CountInv
<1> QED BY <1>1, <1>2, <1>3, <1>4 DEF OrderInv

\* After a reset nothing is in flight, and what was counts its back-off as over.
LEMMA OrderReset ==
  OrderInv /\ Reset => /\ OrderInv' /\ InFlight' = {}
                       /\ \A x \in Entries : \E y \in Entries' : y.id = x.id
<1> SUFFICES ASSUME OrderInv, Reset
             PROVE  /\ OrderInv' /\ InFlight' = {}
                    /\ \A x \in Entries : \E y \in Entries' : y.id = x.id
  OBVIOUS
<1>1. TypeOK /\ Entries \subseteq EntryRec /\ Len(index) \in Nat
  BY EntriesTyped DEF OrderInv
<1>2. Good(index') /\ Len(index') = Len(index) /\ Entries' = {Requeued(e) : e \in Entries}
  <2>1. PICK perm \in Bijection(DOMAIN index, DOMAIN index) :
          index' = [i \in DOMAIN index |-> Requeued(index[perm[i]])]
    BY DEF Reset
  <2>2. /\ Good(index') /\ Len(index') = Len(index)
        /\ Contents(index') = {Requeued(e) : e \in Entries}
    BY <1>1, <2>1, PermuteIs DEF TypeOK
  <2> QED BY <2>2 DEF Entries, Contents
<1>3. /\ bootedAt' = bootedAt + now /\ now' = 0 /\ stamped' = {} /\ resets' = resets + 1
      /\ counters' = [successful |-> 0, failed |-> 0]
      /\ since' = [taken |-> Len(index), claimed |-> 0]
      /\ UNCHANGED <<policy, offered, born, due>>
  BY DEF Reset
<1>4. \A x \in Entries' : \E e \in Entries :
        /\ e \in EntryRec /\ x.id = e.id /\ x.att = e.att
        /\ \/ e.st = "IN_FLIGHT" /\ x.st = "PENDING" /\ x.retry = 0
           \/ e.st # "IN_FLIGHT" /\ x.st = e.st /\ x.retry = e.retry
  BY <1>1, <1>2, RequeuedIs
<1>5. InFlight' = {}
  BY <1>4 DEF InFlight
<1>6. TypeOK'
  BY <1>1, <1>2, <1>3 DEF TypeOK
<1>7. EntriesInv'
  <2>1. \A x \in Entries' : x.id <= offered /\ (x.st = "PENDING" /\ x.att = 0 => x.retry = 0)
    <3> SUFFICES ASSUME NEW x \in Entries'
                 PROVE  x.id <= offered /\ (x.st = "PENDING" /\ x.att = 0 => x.retry = 0)
      OBVIOUS
    <3>1. PICK e \in Entries :
            /\ e \in EntryRec /\ x.id = e.id /\ x.att = e.att
            /\ \/ e.st = "IN_FLIGHT" /\ x.st = "PENDING" /\ x.retry = 0
               \/ e.st # "IN_FLIGHT" /\ x.st = e.st /\ x.retry = e.retry
      BY <1>4
    <3> QED BY <3>1 DEF OrderInv, EntriesInv
  <2> QED BY <1>3, <1>5, <2>1 DEF EntriesInv
<1>8. DueInv'
  <2>1. \A x \in Entries' : x.st = "PENDING" =>
          due[x.id] <= bootedAt + now \/ due[x.id] <= (bootedAt + now) + x.retry
    <3> SUFFICES ASSUME NEW x \in Entries', x.st = "PENDING"
                 PROVE  due[x.id] <= bootedAt + now \/ due[x.id] <= (bootedAt + now) + x.retry
      OBVIOUS
    <3>1. PICK e \in Entries :
            /\ e \in EntryRec /\ x.id = e.id
            /\ \/ e.st = "IN_FLIGHT" /\ x.st = "PENDING" /\ x.retry = 0
               \/ e.st # "IN_FLIGHT" /\ x.st = e.st /\ x.retry = e.retry
      BY <1>4
    <3>2. now \in Nat /\ bootedAt \in Nat /\ due[e.id] \in Nat /\ e.retry \in Nat
      BY <1>1, <3>1 DEF TypeOK, EntryRec
    <3>3. CASE e.st = "IN_FLIGHT"
      BY <3>1, <3>3 DEF OrderInv, DueInv, InFlight
    <3>4. CASE e.st # "IN_FLIGHT" /\ x.st = e.st /\ x.retry = e.retry
      <4>1. due[e.id] <= bootedAt + now \/ due[e.id] <= bootedAt + e.retry
        BY <3>4 DEF OrderInv, DueInv
      <4> QED BY <3>1, <3>2, <3>4, <4>1
    <3> QED BY <3>1, <3>3, <3>4
  <2>2. bootedAt + now \in Nat
    BY <1>1 DEF TypeOK
  <2>3. \A m \in Ids : m > offered' => due'[m] = 0
    BY <1>3 DEF OrderInv, DueInv
  <2>4. \A x \in Entries' : x.st = "PENDING" =>
          due'[x.id] <= bootedAt' + now' \/ due'[x.id] <= bootedAt' + x.retry
    BY <1>3, <2>1, <2>2
  <2> QED BY <1>3, <1>5, <2>3, <2>4 DEF DueInv
<1>9. CountInv'
  BY <1>1, <1>2, <1>3, <1>5 DEF CountInv
<1>10. \A x \in Entries : \E y \in Entries' : y.id = x.id
  BY <1>1, <1>2, RequeuedIs
<1> QED BY <1>5, <1>6, <1>7, <1>8, <1>9, <1>10 DEF OrderInv

LEMMA OrderNext == OrderInv /\ [Next]_vars => OrderInv'
<1> SUFFICES ASSUME OrderInv, [Next]_vars PROVE OrderInv'
  OBVIOUS
<1>1. CASE Claim
  BY <1>1, OrderClaim
<1>2. CASE \E p \in Priorities : Stamp(p)
  BY <1>2, OrderStamp
<1>3. CASE \E s \in stamped : Publish(s)
  BY <1>3, OrderPublish
<1>4. CASE Outcome
  <2>1. PICK e \in InFlight :
          MarkDelivered(e) \/ (\E d \in Delays : ScheduleRetry(e, d)) \/ DeadLetter(e)
    BY <1>4 DEF Outcome
  <2> QED BY <2>1, OrderDelivered, OrderFailed
<1>5. CASE Tick
  BY <1>5, OrderTick
<1>6. CASE Reset
  BY <1>6, OrderReset
<1>7. CASE UNCHANGED vars
  <2>1. Entries' = Entries /\ InFlight' = InFlight /\ Good(index')
    BY <1>7 DEF vars, OrderInv, TypeOK, Entries, InFlight
  <2>2. TypeOK'
    BY <1>7, <2>1 DEF vars, OrderInv, TypeOK
  <2> QED BY <1>7, <2>1, <2>2 DEF vars, OrderInv, EntriesInv, DueInv, CountInv
<1> QED BY <1>1, <1>2, <1>3, <1>4, <1>5, <1>6, <1>7 DEF Next, Quiescent

-----------------------------------------------------------------------------
(* Theorems.                                                               *)

\* At every moment a message has one entry at most, one message is in flight at
\* most, a back-off that runs is in its entry, and the counters agree with the
\* index.
THEOREM OrderInvariant == Spec => []OrderInv
BY OrderInit, OrderNext, PTL DEF Spec

\* Nothing but a claim puts a message in flight.
LEMMA ClaimedByClaim ==
  ASSUME OrderInv, [Next]_vars, NEW m, Claimed(m)
  PROVE  Claim /\ m = index[claim_next].id
<1>1. InFlight' \subseteq InFlight \/ Claim
  <2>1. CASE \E p \in Priorities : Stamp(p)
    BY <2>1, OrderStamp
  <2>2. CASE \E s \in stamped : Publish(s)
    BY <2>2, OrderPublish
  <2>3. CASE Outcome
    <3>1. PICK e \in InFlight :
            MarkDelivered(e) \/ (\E d \in Delays : ScheduleRetry(e, d)) \/ DeadLetter(e)
      BY <2>3 DEF Outcome
    <3> QED BY <3>1, OrderDelivered, OrderFailed
  <2>4. CASE Tick \/ Reset
    BY <2>4, OrderTick, OrderReset
  <2>5. CASE UNCHANGED vars
    BY <2>5 DEF vars, InFlight, Entries
  <2> QED BY <2>1, <2>2, <2>3, <2>4, <2>5 DEF Next, Quiescent
<1>2. Claim
  BY <1>1 DEF Claimed
<1> QED BY <1>2, OrderClaim DEF Claimed

\* Whichever way removals have shuffled the array, claim_next serves the most
\* urgent priority that is eligible, and first attempts of one boot in the
\* order of creation (edgesync_storage_flashq.c:603-617).
THEOREM ClaimsFollowOrder == Spec => ClaimsInOrder
<1>1. OrderInv /\ [Next]_vars =>
        [\A m \in Ids : Claimed(m) =>
          \A e \in Entries : Eligible(e) =>
            /\ e.prio <= Entry(m).prio
            /\ (e.prio = Entry(m).prio /\ e.att = 0 /\ Entry(m).att = 0
                /\ born[e.id] = born[m]) => Entry(m).created <= e.created]_vars
  <2> SUFFICES ASSUME OrderInv, [Next]_vars, NEW m \in Ids, Claimed(m),
                      NEW e \in Entries, Eligible(e)
               PROVE  /\ e.prio <= Entry(m).prio
                      /\ (e.prio = Entry(m).prio /\ e.att = 0 /\ Entry(m).att = 0)
                           => Entry(m).created <= e.created
    OBVIOUS
  <2> DEFINE c == index[claim_next]
  <2>1. Claim /\ m = c.id
    BY ClaimedByClaim
  <2>2. Good(index) /\ TypeOK
    BY DEF OrderInv, TypeOK
  <2>3. claim_next \in DOMAIN index /\ Eligible(c) /\ ~Before(e, c)
    BY <2>1, <2>2, ClaimIs, OrderAssumption DEF Claim
  <2>4. Entry(m) = c /\ c \in Entries
    BY <2>1, <2>2, <2>3, PositionIs DEF Entries
  <2> HIDE DEF c
  <2>5. /\ c.prio \in Nat /\ c.created \in Nat /\ e.prio \in Nat /\ e.created \in Nat
        /\ c.retry \in Nat /\ e.retry \in Nat
    BY <2>2, <2>4, EntriesTyped, OrderAssumption DEF EntryRec
  <2>6. e.att = 0 /\ c.att = 0 => e.retry = 0 /\ c.retry = 0
    BY <2>3, <2>4 DEF OrderInv, EntriesInv, Eligible
  <2> QED BY <2>3, <2>4, <2>5, <2>6 DEF Before
<1> QED BY <1>1, OrderInvariant, PTL DEF Spec, ClaimsInOrder

\* No retry is attempted before its back-off has elapsed in real time, though
\* next_retry_at_us counts from the boot that stored it
\* (edgesync_storage_flashq.c:446, edgesync_worker.c:49-51).
THEOREM NoRetryIsEarly == Spec => BackoffRespected
<1>1. OrderInv /\ [Next]_vars =>
        [\A m \in Ids : Claimed(m) => bootedAt + now >= due[m]]_vars
  <2> SUFFICES ASSUME OrderInv, [Next]_vars, NEW m \in Ids, Claimed(m)
               PROVE  bootedAt + now >= due[m]
    OBVIOUS
  <2>1. due[m] <= bootedAt + now
    BY ClaimedByClaim, OrderClaim
  <2>2. due[m] \in Nat /\ bootedAt + now \in Nat
    BY DEF OrderInv, TypeOK
  <2> QED BY <2>1, <2>2
<1> QED BY <1>1, OrderInvariant, PTL DEF Spec, BackoffRespected

\* Nothing but the publish that takes a victim removes a PENDING message.
LEMMA DroppedByPublish ==
  ASSUME OrderInv, [Next]_vars, NEW m \in Ids, Dropped(m)
  PROVE  /\ find_drop_candidate # Nothing /\ policy # "REJECT_NEW"
         /\ m = index[find_drop_candidate].id
<1>1. PICK e \in Entries : e.id = m /\ e.st = "PENDING" /\ \A y \in Entries' : y.id # m
  BY DEF Dropped
<1>2. CASE \E s \in stamped : Publish(s)
  <2>1. PICK s \in stamped : Publish(s)
    BY <1>2
  <2>2. TypeOK /\ \A d \in Entries : d.id # s.id
    BY DEF OrderInv, EntriesInv
  <2>3. \/ Entries \subseteq Entries'
        \/ /\ find_drop_candidate # Nothing /\ policy # "REJECT_NEW"
           /\ Entries \ {index[find_drop_candidate]} \subseteq Entries'
    BY <2>1, <2>2, PublishedIs DEF Publish
  <2> QED BY <1>1, <2>3
<1>3. CASE \E f \in InFlight : MarkDelivered(f)
  <2>1. PICK f \in InFlight : MarkDelivered(f)
    BY <1>3
  <2>2. Entries' = Entries \ {f} /\ f.st = "IN_FLIGHT"
    BY <2>1, OrderDelivered DEF InFlight
  <2> QED BY <1>1, <2>2
<1>4. CASE ~(\E s \in stamped : Publish(s)) /\ ~(\E f \in InFlight : MarkDelivered(f))
  <2>1. \A x \in Entries : \E y \in Entries' : y.id = x.id
    <3>1. CASE \E p \in Priorities : Stamp(p)
      BY <3>1, OrderStamp
    <3>2. CASE Claim
      BY <3>2, OrderClaim
    <3>3. CASE Outcome
      <4>1. PICK f \in InFlight : (\E d \in Delays : ScheduleRetry(f, d)) \/ DeadLetter(f)
        BY <1>4, <3>3 DEF Outcome
      <4> QED BY <4>1, OrderFailed
    <3>4. CASE Tick \/ Reset
      BY <3>4, OrderTick, OrderReset
    <3>5. CASE UNCHANGED vars
      BY <3>5 DEF vars, Entries
    <3> QED BY <1>4, <3>1, <3>2, <3>3, <3>4, <3>5 DEF Next, Quiescent
  <2> QED BY <1>1, <2>1
<1> QED BY <1>2, <1>3, <1>4

\* An overflow drops what its policy says, and no message of the same boot (and
\* priority) that stays is older (edgesync_storage_flashq.c:749-785,
\* edgesync_queue.c:71-84).
THEOREM DropsFollowPolicy == Spec => DropsByPolicy
<1>1. OrderInv /\ [Next]_vars =>
        [\A m \in Ids : Dropped(m) =>
          /\ policy # "REJECT_NEW"
          /\ \A e \in Entries : Pending(e) =>
               /\ policy = "DROP_LOWEST_PRIORITY" => Entry(m).prio <= e.prio
               /\ (born[e.id] = born[m]
                   /\ (policy = "DROP_OLDEST" \/ e.prio = Entry(m).prio))
                  => Entry(m).created <= e.created]_vars
  <2> SUFFICES ASSUME OrderInv, [Next]_vars, NEW m \in Ids, Dropped(m)
               PROVE  /\ policy # "REJECT_NEW"
                      /\ \A e \in Entries : Pending(e) =>
                           /\ policy = "DROP_LOWEST_PRIORITY" => Entry(m).prio <= e.prio
                           /\ (policy = "DROP_OLDEST" \/ e.prio = Entry(m).prio)
                              => Entry(m).created <= e.created
    OBVIOUS
  <2> DEFINE v == index[find_drop_candidate]
  <2>1. find_drop_candidate # Nothing /\ policy # "REJECT_NEW" /\ m = v.id
    BY DroppedByPublish
  <2>2. Good(index) /\ TypeOK /\ policy \in Policies
    BY DEF OrderInv, TypeOK
  <2>3. /\ find_drop_candidate \in DOMAIN index
        /\ \A e \in Entries : Pending(e) => ~DropBefore(e, v)
    BY <2>1, <2>2, DropIs, OrderAssumption
  <2>4. Entry(m) = v /\ v \in Entries
    BY <2>1, <2>2, <2>3, PositionIs DEF Entries
  <2> HIDE DEF v
  <2>5. \A e \in Entries : e.prio \in Nat /\ e.created \in Nat
    BY <2>2, EntriesTyped, OrderAssumption DEF EntryRec
  <2> QED BY <2>1, <2>2, <2>3, <2>4, <2>5 DEF DropBefore, Policies
<1> QED BY <1>1, OrderInvariant, PTL DEF Spec, DropsByPolicy

\* An array of different entries has as many as it is long.
LEMMA EntriesCounted ==
  ASSUME TypeOK
  PROVE  IsFiniteSet(Entries) /\ Cardinality(Entries) = Len(index)
<1> DEFINE n == Len(index)
<1>1. n \in Nat /\ index \in [1 .. n -> EntryRec] /\ DOMAIN index = 1 .. n
  BY GoodIs DEF TypeOK
<1>2. \A i, j \in 1 .. n : index[i] = index[j] => i = j
  BY <1>1 DEF TypeOK, Good
<1>3. Entries = {index[i] : i \in 1 .. n}
  BY <1>1 DEF Entries
<1> HIDE DEF n
<1>4. index \in [1 .. n -> Entries]
  BY <1>1, <1>3
<1>5. index \in Bijection(1 .. n, Entries)
  BY <1>2, <1>3, <1>4 DEF Bijection, Injection, Surjection, IsInjective
<1>6. ExistsBijection(1 .. n, Entries)
  BY <1>5 DEF ExistsBijection
<1>7. IsFiniteSet(Entries)
  BY <1>1, <1>6, FS_NatBijection
<1> QED BY <1>1, <1>6, <1>7, FS_CountingElements DEF n

\* The numbers of edgesync_get_stats account for every message found or
\* accepted since boot, and for every attempt (edgesync_storage_flashq.c:787-823,
\* edgesync_queue.c:117-139).
THEOREM StatsAddUp == Spec => []StatsAccount
<1>1. OrderInv => StatsAccount
  <2> SUFFICES ASSUME OrderInv PROVE StatsAccount
    OBVIOUS
  <2> DEFINE P == {e \in Entries : e.st = "PENDING"}
             R == {e \in Entries : e.st = "PENDING" /\ e.att > 0}
             F == {e \in Entries : e.st = "IN_FLIGHT"}
             D == {e \in Entries : e.st = "DEAD_LETTER"}
  <2>1. TypeOK /\ IsFiniteSet(Entries) /\ Cardinality(Entries) = Len(index)
    BY EntriesCounted DEF OrderInv
  <2>2. /\ IsFiniteSet(P) /\ IsFiniteSet(R) /\ IsFiniteSet(F) /\ IsFiniteSet(D)
        /\ Cardinality(P) \in Nat /\ Cardinality(R) \in Nat
        /\ Cardinality(F) \in Nat /\ Cardinality(D) \in Nat
    <3>1. \A S \in SUBSET Entries : IsFiniteSet(S) /\ Cardinality(S) \in Nat
      BY <2>1, FS_Subset, FS_CardinalityType
    <3>2. P \in SUBSET Entries /\ R \in SUBSET Entries /\ F \in SUBSET Entries
          /\ D \in SUBSET Entries
      OBVIOUS
    <3> HIDE DEF P, R, F, D
    <3> QED BY <3>1, <3>2
  <2>3. P \cap F = {} /\ (P \cup F) \cap D = {} /\ (P \cup F) \cup D = Entries
    BY <2>1, EntriesTyped DEF EntryRec
  <2>4. F = InFlight
    BY DEF InFlight
  <2>5. Cardinality(F) = IF F = {} THEN 0 ELSE 1
    <3>1. CASE F = {}
      BY <3>1, FS_EmptySet
    <3>2. CASE F # {}
      <4>1. PICK e : F = {e}
        BY <2>4, <3>2, InFlightIs
      <4> QED BY <3>2, <4>1, FS_Singleton
    <3> QED BY <3>1, <3>2
  <2>6. /\ Stats.pending_messages = Cardinality(P) - Cardinality(R)
        /\ Stats.retrying_messages = Cardinality(R)
        /\ Stats.in_flight_messages = Cardinality(F)
        /\ Stats.dead_letter_messages = Cardinality(D)
        /\ Stats.successful_deliveries = counters.successful
        /\ Stats.failed_deliveries = counters.failed
    BY DEF Stats, Count, Retrying
  <2> HIDE DEF P, R, F, D
  <2>7. Cardinality(P) + Cardinality(F) + Cardinality(D) = Len(index)
    <3>1. IsFiniteSet(P \cup F) /\ Cardinality(P \cup F) = Cardinality(P) + Cardinality(F)
      <4>1. Cardinality(P \cap F) = 0
        BY <2>3, FS_EmptySet
      <4>2. /\ IsFiniteSet(P \cup F)
            /\ Cardinality(P \cup F) = Cardinality(P) + Cardinality(F) - Cardinality(P \cap F)
        BY <2>2, FS_Union
      <4> QED BY <2>2, <4>1, <4>2
    <3>2. Cardinality((P \cup F) \cup D) = Cardinality(P \cup F) + Cardinality(D)
      <4>1. Cardinality((P \cup F) \cap D) = 0
        BY <2>3, FS_EmptySet
      <4>2. Cardinality((P \cup F) \cup D)
              = Cardinality(P \cup F) + Cardinality(D) - Cardinality((P \cup F) \cap D)
        BY <2>2, <3>1, FS_Union
      <4>3. Cardinality(P \cup F) \in Nat
        BY <2>2, <3>1
      <4> QED BY <2>2, <4>1, <4>2, <4>3
    <3> QED BY <2>1, <2>2, <2>3, <3>1, <3>2
  <2>8. counters.successful \in Nat /\ counters.failed \in Nat
    BY <2>1 DEF TypeOK
  <2>9. Len(index) + counters.successful = since.taken
    BY DEF OrderInv, CountInv
  <2>10. counters.successful + counters.failed + Cardinality(F) = since.claimed
    BY <2>4, <2>5, <2>8 DEF OrderInv, CountInv
  <2>11. Stats.pending_messages + Stats.retrying_messages = Cardinality(P)
    BY <2>2, <2>6
  <2> QED BY <2>2, <2>6, <2>7, <2>8, <2>9, <2>10, <2>11 DEF StatsAccount
<1> QED BY <1>1, OrderInvariant, PTL
=============================================================================
