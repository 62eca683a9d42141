------------------------- MODULE ChainClientsProofs -------------------------
(***************************************************************************)
(* Proofs about ChainClients, for any validators, providers, rounds, seeds *)
(* and answers: the committee is a fair draw, a pass is sustained by every *)
(* probe, closes are bounded. The two loops of Committee are recursive     *)
(* functions; what they return is proved by induction over the length of   *)
(* the loop, as a least counterexample (SetInduction).                     *)
(***************************************************************************)
EXTENDS ChainClients, TLAPS, WellFoundedInduction, FiniteSetTheorems

\* Induction, as a statement about a set of numbers.
LEMMA SetInduction ==
  ASSUME NEW S, 0 \in S, \A n \in Nat : n \in S => n + 1 \in S
  PROVE  Nat \subseteq S
<1> DEFINE R == {ss \in Nat \X Nat : ss[1] < ss[2]}
<1>1. IsWellFoundedOn(R, Nat)
  BY NatLessThanWellFounded DEF OpToRel
<1>2. \A x, y \in Nat : <<y, x>> \in R <=> y < x
  OBVIOUS
<1> HIDE DEF R
<1> SUFFICES ASSUME NEW m \in Nat, m \notin S PROVE FALSE
  OBVIOUS
<1>3. PICK x \in Nat \ S : \A y \in Nat \ S : ~(<<y, x>> \in R)
  BY <1>1, WFMin
<1>4. x # 0 /\ x - 1 \in Nat /\ x - 1 < x /\ (x - 1) + 1 = x
  BY <1>3
<1>5. x - 1 \in S
  BY <1>2, <1>3, <1>4
<1> QED  BY <1>3, <1>4, <1>5

\* Some element of a non-empty set of numbers is the least.
LEMMA LeastExists ==
  ASSUME NEW S \in SUBSET Nat, S # {}
  PROVE  \E x \in S : \A y \in S : x <= y
<1> DEFINE R == {ss \in Nat \X Nat : ss[1] < ss[2]}
<1>1. IsWellFoundedOn(R, Nat)
  BY NatLessThanWellFounded DEF OpToRel
<1>2. \A x, y \in Nat : <<y, x>> \in R <=> y < x
  OBVIOUS
<1> HIDE DEF R
<1>3. PICK x \in S : \A y \in S : ~(<<y, x>> \in R)
  BY <1>1, WFMin
<1>4. x \in Nat /\ \A y \in S : y \in Nat /\ ~(y < x)
  BY <1>2, <1>3
<1>5. \A y \in S : x <= y
  BY <1>4
<1> QED  BY <1>3, <1>5
-----------------------------------------------------------------------------
(* The committee.                                                          *)

\* A sequence with no element twice is as long as its set is large.
LEMMA DistinctLength ==
  ASSUME NEW T, NEW s \in Seq(T), IsInjective(s)
  PROVE  Cardinality(ToSet(s)) = Len(s)
<1>1. s \in Bijection(1..Len(s), ToSet(s))
  BY DEF Bijection, Injection, Surjection, IsInjective, ToSet
<1>2. ExistsBijection(1..Len(s), ToSet(s)) /\ Len(s) \in Nat
  BY <1>1 DEF ExistsBijection
<1> QED  BY <1>2, FS_CountingElements

\* A new element at the end.
LEMMA AppendDistinct ==
  ASSUME NEW T, NEW s \in Seq(T), IsInjective(s), NEW e \in T, e \notin ToSet(s)
  PROVE  /\ Append(s, e) \in Seq(T) /\ IsInjective(Append(s, e))
         /\ Len(Append(s, e)) = Len(s) + 1
         /\ ToSet(Append(s, e)) = ToSet(s) \union {e}
BY DEF IsInjective, ToSet

\* Drawing an element out of a sequence.
LEMMA RemoveDistinct ==
  ASSUME NEW T, NEW s \in Seq(T), IsInjective(s), NEW i \in 1..Len(s)
  PROVE  /\ RemoveAt(s, i) \in Seq(T) /\ IsInjective(RemoveAt(s, i))
         /\ Len(RemoveAt(s, i)) = Len(s) - 1
         /\ ToSet(RemoveAt(s, i)) = ToSet(s) \ {s[i]}
<1> DEFINE t == RemoveAt(s, i)
           a == SubSeq(s, 1, i - 1)
           b == SubSeq(s, i + 1, Len(s))
<1>1. /\ t \in Seq(T) /\ Len(t) = Len(s) - 1
      /\ \A j \in 1..(Len(s) - 1) : t[j] = IF j < i THEN s[j] ELSE s[j + 1]
  <2>1. a \in Seq(T) /\ Len(a) = i - 1 /\ \A j \in 1..(i - 1) : a[j] = s[j]
    OBVIOUS
  <2>2. b \in Seq(T) /\ Len(b) = Len(s) - i /\ \A j \in 1..(Len(s) - i) : b[j] = s[i + j]
    OBVIOUS
  <2>3. t = a \o b
    BY DEF RemoveAt
  <2> HIDE DEF a, b, t
  <2>4. t \in Seq(T) /\ Len(t) = Len(s) - 1
    BY <2>1, <2>2, <2>3
  <2>5. ASSUME NEW j \in 1..(Len(s) - 1) PROVE t[j] = IF j < i THEN s[j] ELSE s[j + 1]
    <3>1. CASE j < i
      BY <2>1, <2>2, <2>3, <3>1
    <3>2. CASE j >= i
      <4>1. t[j] = b[j - (i - 1)] /\ j - (i - 1) \in 1..(Len(s) - i)
        BY <2>1, <2>2, <2>3, <3>2
      <4>2. i + (j - (i - 1)) = j + 1
        OBVIOUS
      <4> QED  BY <2>2, <3>2, <4>1, <4>2
    <3> QED  BY <3>1, <3>2
  <2> QED  BY <2>4, <2>5
<1> HIDE DEF t
<1>2. IsInjective(t)
  BY <1>1, SMTT(30) DEF IsInjective
<1>3. ToSet(t) \subseteq ToSet(s) \ {s[i]}
  BY <1>1 DEF IsInjective, ToSet
<1>4. ASSUME NEW x \in ToSet(s) \ {s[i]} PROVE x \in ToSet(t)
  <2>1. PICK j \in 1..Len(s) : x = s[j] /\ j # i
    BY <1>4 DEF ToSet
  <2>2. CASE j < i
    <3>1. j \in DOMAIN t /\ t[j] = x
      BY <1>1, <2>1, <2>2
    <3> QED  BY <3>1 DEF ToSet
  <2>3. CASE j > i
    <3>1. j - 1 \in DOMAIN t /\ t[j - 1] = x
      BY <1>1, <2>1, <2>3
    <3> QED  BY <3>1 DEF ToSet
  <2> QED  BY <2>1, <2>2, <2>3
<1> QED  BY <1>1, <1>2, <1>3, <1>4 DEF t

\* One turn of the loop over the active validators.
KeptAt(p, vs, f, n) ==
  IF n = 0 THEN <<>> ELSE IF vs[n] = p THEN f[n - 1] ELSE Append(f[n - 1], vs[n])

\* The loop over the active validators is well defined.
LEMMA CandidatesLoop ==
  ASSUME NEW p, NEW vs, Len(vs) \in Nat
  PROVE  \E f : f = [n \in 0..Len(vs) |-> KeptAt(p, vs, f, n)] /\ Candidates(p, vs) = f[Len(vs)]
<1> DEFINE IsKept(f, m) == f = [n \in 0..m |-> KeptAt(p, vs, f, n)]
           S == {m \in Nat : \E f : IsKept(f, m)}
<1>1. 0 \in S
  <2>1. IsKept([n \in 0..0 |-> <<>>], 0)
    BY DEF KeptAt
  <2> QED  BY <2>1
<1>2. ASSUME NEW m \in Nat, m \in S PROVE m + 1 \in S
  <2>1. PICK f : IsKept(f, m)
    BY <1>2
  <2> DEFINE g == [n \in 0..(m + 1) |-> IF n = m + 1 THEN KeptAt(p, vs, f, n) ELSE f[n]]
  <2>2. ASSUME NEW n \in 0..(m + 1) PROVE g[n] = KeptAt(p, vs, g, n)
    <3>1. CASE n = m + 1
      BY <3>1 DEF KeptAt
    <3>2. CASE n \in 0..m
      <4>1. g[n] = f[n] /\ f[n] = KeptAt(p, vs, f, n)
        BY <2>1, <3>2
      <4>2. n # 0 => g[n - 1] = f[n - 1]
        BY <3>2
      <4> QED  BY <4>1, <4>2 DEF KeptAt
    <3> QED  BY <3>1, <3>2
  <2>3. g = [n \in 0..(m + 1) |-> KeptAt(p, vs, g, n)]
    BY <2>2
  <2>4. IsKept(g, m + 1) /\ m + 1 \in Nat
    BY <2>3
  <2> HIDE DEF IsKept, g
  <2> QED  BY <2>4
<1>3. Len(vs) \in S
  <2> HIDE DEF S
  <2> QED  BY <1>1, <1>2, SetInduction
<1>4. \E f : IsKept(f, Len(vs))
  BY <1>3
<1> DEFINE kept == CHOOSE f : f = [n \in 0..Len(vs) |-> KeptAt(p, vs, f, n)]
<1>5. kept = [n \in 0..Len(vs) |-> KeptAt(p, vs, kept, n)]
  BY <1>4
<1>6. Candidates(p, vs) = kept[Len(vs)]
  BY DEF Candidates, KeptAt
<1> HIDE DEF kept
<1> QED  BY <1>5, <1>6

\* The candidates are the other validators, each of them once.
LEMMA CandidatesAre ==
  ASSUME NEW T, NEW p, NEW vs \in Seq(T), IsInjective(vs)
  PROVE  /\ Candidates(p, vs) \in Seq(T) /\ IsInjective(Candidates(p, vs))
         /\ ToSet(Candidates(p, vs)) = ToSet(vs) \ {p}
<1>1. Len(vs) \in Nat /\ DOMAIN vs = 1..Len(vs)
  OBVIOUS
<1>2. PICK f : f = [n \in 0..Len(vs) |-> KeptAt(p, vs, f, n)] /\ Candidates(p, vs) = f[Len(vs)]
  BY <1>1, CandidatesLoop
<1> DEFINE first(n) == {vs[i] : i \in 1..n}
           ok(n) == f[n] \in Seq(T) /\ IsInjective(f[n]) /\ ToSet(f[n]) = first(n) \ {p}
           S == {n \in Nat : n <= Len(vs) => ok(n)}
<1>3. ok(0)
  <2>1. f[0] = <<>>
    BY <1>1, <1>2 DEF KeptAt
  <2> QED  BY <2>1 DEF ToSet, IsInjective
<1>4. ASSUME NEW n \in Nat, n + 1 <= Len(vs), ok(n) PROVE ok(n + 1)
  <2>1. f[n + 1] = IF vs[n + 1] = p THEN f[n] ELSE Append(f[n], vs[n + 1])
    <3>1. n + 1 \in 0..Len(vs) /\ n + 1 # 0 /\ (n + 1) - 1 = n
      BY <1>1, <1>4
    <3>2. f[n + 1] = KeptAt(p, vs, f, n + 1)
      BY <1>2, <3>1
    <3> QED  BY <3>1, <3>2 DEF KeptAt
  <2>2. n + 1 \in DOMAIN vs /\ vs[n + 1] \in T
    BY <1>1, <1>4
  <2>3. vs[n + 1] \notin first(n)
    BY <1>1, <1>4, <2>2 DEF IsInjective
  <2>4. first(n + 1) = first(n) \union {vs[n + 1]}
    BY <1>4
  <2> HIDE DEF first
  <2>5. CASE vs[n + 1] = p
    BY <1>4, <2>1, <2>4, <2>5
  <2>6. CASE vs[n + 1] # p
    BY <1>4, <2>1, <2>2, <2>3, <2>4, <2>6, AppendDistinct
  <2> QED  BY <2>5, <2>6
<1>5. ok(Len(vs))
  <2> HIDE DEF ok
  <2>1. 0 \in S
    BY <1>3
  <2>2. ASSUME NEW n \in Nat, n \in S PROVE n + 1 \in S
    BY <1>1, <1>4, <2>2
  <2>3. Len(vs) \in S
    <3> HIDE DEF S
    <3> QED  BY <1>1, <2>1, <2>2, SetInduction
  <2> QED  BY <1>1, <2>3
<1>6. first(Len(vs)) = ToSet(vs)
  BY <1>1 DEF ToSet
<1> QED  BY <1>2, <1>5, <1>6

\* One turn of the loop that draws.
DrawnAt(p, r, cs, f, n) ==
  IF n = 0 THEN [left |-> cs, chosen |-> <<>>] ELSE Draw(p, r, n - 1, f[n - 1])

\* The loop that draws is well defined.
LEMMA DrawLoop ==
  ASSUME NEW p, NEW r, NEW vs, Wanted(Candidates(p, vs)) \in Nat
  PROVE  \E f : /\ f = [n \in 0..Wanted(Candidates(p, vs)) |-> DrawnAt(p, r, Candidates(p, vs), f, n)]
                /\ Committee(p, r, vs) = f[Wanted(Candidates(p, vs))].chosen
<1> DEFINE cs == Candidates(p, vs)
           w == Wanted(cs)
           IsDrawn(f, m) == f = [n \in 0..m |-> DrawnAt(p, r, cs, f, n)]
           S == {m \in Nat : \E f : IsDrawn(f, m)}
           draw == CHOOSE f : f = [n \in 0..w |-> DrawnAt(p, r, cs, f, n)]
<1>1. Committee(p, r, vs) = draw[w].chosen
  BY DEF Committee, DrawnAt
<1> HIDE DEF cs, w
<1>2. 0 \in S
  <2>1. IsDrawn([n \in 0..0 |-> [left |-> cs, chosen |-> <<>>]], 0)
    BY DEF DrawnAt
  <2> QED  BY <2>1
<1>3. ASSUME NEW m \in Nat, m \in S PROVE m + 1 \in S
  <2>1. PICK f : IsDrawn(f, m)
    BY <1>3
  <2> DEFINE g == [n \in 0..(m + 1) |-> IF n = m + 1 THEN DrawnAt(p, r, cs, f, n) ELSE f[n]]
  <2>2. ASSUME NEW n \in 0..(m + 1) PROVE g[n] = DrawnAt(p, r, cs, g, n)
    <3>1. CASE n = m + 1
      BY <3>1 DEF DrawnAt
    <3>2. CASE n \in 0..m
      <4>1. g[n] = f[n] /\ f[n] = DrawnAt(p, r, cs, f, n)
        BY <2>1, <3>2
      <4>2. n # 0 => g[n - 1] = f[n - 1]
        BY <3>2
      <4> QED  BY <4>1, <4>2 DEF DrawnAt
    <3> QED  BY <3>1, <3>2
  <2>3. g = [n \in 0..(m + 1) |-> DrawnAt(p, r, cs, g, n)]
    BY <2>2
  <2>4. IsDrawn(g, m + 1) /\ m + 1 \in Nat
    BY <2>3
  <2> HIDE DEF IsDrawn, g
  <2> QED  BY <2>4
<1>4. w \in S
  <2>1. w \in Nat
    BY DEF w, cs
  <2> HIDE DEF S
  <2> QED  BY <1>2, <1>3, <2>1, SetInduction
<1>5. \E f : IsDrawn(f, w)
  BY <1>4
<1>6. draw = [n \in 0..w |-> DrawnAt(p, r, cs, draw, n)]
  BY <1>5
<1> HIDE DEF draw
<1> QED  BY <1>1, <1>6 DEF w, cs

\* Drawing without replacement: the chosen are distinct candidates.
LEMMA CommitteeFacts ==
  ASSUME NEW T, NEW vs \in Seq(T), IsInjective(vs), NEW p \in Registry, NEW r \in Rounds
  PROVE  LET others == ToSet(vs) \ {p}
             committee == Committee(p, r, vs)
         IN  /\ IsInjective(committee)
             /\ ToSet(committee) \subseteq others
             /\ Len(committee) = IF TargetCommitteeSize < Cardinality(others)
                                 THEN TargetCommitteeSize ELSE Cardinality(others)
<1> DEFINE cs == Candidates(p, vs)
           w == Wanted(cs)
<1>1. cs \in Seq(T) /\ IsInjective(cs) /\ ToSet(cs) = ToSet(vs) \ {p}
  BY CandidatesAre
<1> HIDE DEF cs
<1>2. Cardinality(ToSet(cs)) = Len(cs) /\ Len(cs) \in Nat
  <2>1. Len(cs) \in Nat
    BY <1>1
  <2>2. Cardinality(ToSet(cs)) = Len(cs)
    BY <1>1, DistinctLength
  <2> QED  BY <2>1, <2>2
<1>3. w \in Nat /\ w <= Len(cs) /\ w <= TargetCommitteeSize
  BY <1>2, DaemonAssumption DEF Wanted
<1>4. w = IF TargetCommitteeSize < Len(cs) THEN TargetCommitteeSize ELSE Len(cs)
  BY DEF Wanted
<1>5. PICK f : f = [n \in 0..w |-> DrawnAt(p, r, cs, f, n)] /\ Committee(p, r, vs) = f[w].chosen
  <2>1. \E f : f = [n \in 0..w |-> DrawnAt(p, r, cs, f, n)] /\ Committee(p, r, vs) = f[w].chosen
    BY <1>3, DrawLoop DEF cs
  <2> QED  BY <2>1
<1> HIDE DEF w
<1> DEFINE ok(d, n) ==
             /\ d.left \in Seq(T) /\ IsInjective(d.left) /\ Len(d.left) = Len(cs) - n
             /\ d.chosen \in Seq(T) /\ IsInjective(d.chosen) /\ Len(d.chosen) = n
             /\ ToSet(d.left) \subseteq ToSet(cs) /\ ToSet(d.chosen) \subseteq ToSet(cs)
             /\ ToSet(d.left) \cap ToSet(d.chosen) = {}
           S == {n \in Nat : n <= w => ok(f[n], n)}
<1>6. ok(f[0], 0)
  <2>1. f[0] = [left |-> cs, chosen |-> <<>>]
    BY <1>3, <1>5 DEF DrawnAt
  <2> QED  BY <1>1, <1>2, <2>1 DEF ToSet, IsInjective
<1>7. ASSUME NEW n \in Nat, n + 1 <= w, ok(f[n], n) PROVE ok(f[n + 1], n + 1)
  <2> DEFINE d == f[n]
             i == 1 + (Seed[<<p, r, n>>] % Len(d.left))
  <2>1. f[n + 1] = [left |-> RemoveAt(d.left, i), chosen |-> Append(d.chosen, d.left[i])]
    <3>1. n + 1 \in 0..w /\ n + 1 # 0 /\ (n + 1) - 1 = n
      BY <1>3, <1>7
    <3>2. f[n + 1] = DrawnAt(p, r, cs, f, n + 1)
      BY <1>5, <3>1
    <3>3. f[n + 1] = Draw(p, r, n, f[n])
      BY <3>1, <3>2 DEF DrawnAt
    <3> QED  BY <3>3 DEF Draw
  <2>2. i \in 1..Len(d.left)
    <3>1. Seed[<<p, r, n>>] \in Nat /\ Len(d.left) \in Nat \ {0}
      <4>1. n \in 0..(TargetCommitteeSize - 1) /\ Len(d.left) = Len(cs) - n
        BY <1>3, <1>7, DaemonAssumption
      <4> QED  BY <1>2, <1>3, <1>7, <4>1, DaemonAssumption
    <3> HIDE DEF d
    <3> DEFINE x == Seed[<<p, r, n>>]
               y == Len(d.left)
    <3>2. x \in Nat /\ y \in Nat \ {0}
      BY <3>1
    <3> HIDE DEF x, y
    <3>3. x % y \in 0..(y - 1)
      BY <3>2
    <3> QED  BY <3>2, <3>3 DEF x, y
  <2> HIDE DEF d, i
  <2>3. ok(d, n)
    BY <1>7 DEF d
  <2> DEFINE e == d.left[i]
  <2>4. e \in T /\ e \in ToSet(d.left)
    BY <2>2, <2>3 DEF ToSet
  <2>5. e \notin ToSet(d.chosen) /\ e \in ToSet(cs)
    BY <2>3, <2>4
  <2>6. /\ RemoveAt(d.left, i) \in Seq(T) /\ IsInjective(RemoveAt(d.left, i))
        /\ Len(RemoveAt(d.left, i)) = Len(d.left) - 1
        /\ ToSet(RemoveAt(d.left, i)) = ToSet(d.left) \ {e}
    BY <2>2, <2>3, RemoveDistinct
  <2> HIDE DEF e
  <2>7. /\ Append(d.chosen, e) \in Seq(T) /\ IsInjective(Append(d.chosen, e))
        /\ Len(Append(d.chosen, e)) = Len(d.chosen) + 1
        /\ ToSet(Append(d.chosen, e)) = ToSet(d.chosen) \union {e}
    BY <2>3, <2>4, <2>5, AppendDistinct
  <2> DEFINE a == RemoveAt(d.left, i)
             b == Append(d.chosen, e)
  <2>8. f[n + 1].left = a /\ f[n + 1].chosen = b
    BY <2>1 DEF e
  <2> HIDE DEF a, b
  <2> SUFFICES /\ a \in Seq(T) /\ IsInjective(a) /\ Len(a) = Len(cs) - (n + 1)
               /\ b \in Seq(T) /\ IsInjective(b) /\ Len(b) = n + 1
               /\ ToSet(a) \subseteq ToSet(cs) /\ ToSet(b) \subseteq ToSet(cs)
               /\ ToSet(a) \cap ToSet(b) = {}
    BY <2>8
  <2>9. Len(a) = Len(cs) - (n + 1) /\ Len(b) = n + 1
    BY <1>2, <2>3, <2>6, <2>7 DEF a, b
  <2>10. ToSet(a) = ToSet(d.left) \ {e} /\ ToSet(b) = ToSet(d.chosen) \union {e}
    BY <2>6, <2>7 DEF a, b
  <2>11. /\ ToSet(a) \subseteq ToSet(cs) /\ ToSet(b) \subseteq ToSet(cs)
         /\ ToSet(a) \cap ToSet(b) = {}
    BY <2>3, <2>5, <2>10
  <2> QED  BY <2>6, <2>7, <2>9, <2>11 DEF a, b
<1>8. ok(f[w], w)
  <2> HIDE DEF ok
  <2>1. 0 \in S
    BY <1>6
  <2>2. ASSUME NEW n \in Nat, n \in S PROVE n + 1 \in S
    BY <1>3, <1>7, <2>2
  <2>3. w \in S
    <3> HIDE DEF S
    <3> QED  BY <1>3, <2>1, <2>2, SetInduction
  <2> QED  BY <1>3, <2>3
<1> QED  BY <1>1, <1>2, <1>4, <1>5, <1>8

\* The committee of every provider and round is a draw among the validators that
\* are active, the provider excluded.
LEMMA CommitteeDrawn == CommitteeIsDrawn
<1> DEFINE T == ToSet(Peers) \union {Self}
           all == Append(Peers, Self)
<1>1. Peers \in Seq(T) /\ all \in Seq(T) /\ IsInjective(all)
  BY DaemonAssumption
<1>2. IsInjective(Peers)
  BY <1>1 DEF IsInjective
<1>3. ActiveValidators \in Seq(T) /\ IsInjective(ActiveValidators)
  BY <1>1, <1>2 DEF ActiveValidators
<1>4. ActiveValidators \in {Peers, all}
  BY DEF ActiveValidators
<1>5. \A p \in Registry, r \in Rounds :
        Committees[p][r][ActiveValidators] = Committee(p, r, ActiveValidators)
  BY <1>4 DEF Committees
<1> HIDE DEF T
<1>6. SUFFICES ASSUME NEW p \in Registry, NEW r \in Rounds
               PROVE  LET committee == Committee(p, r, ActiveValidators)
                          others == ToSet(ActiveValidators) \ {p}
                      IN  /\ IsInjective(committee)
                          /\ ToSet(committee) \subseteq others
                          /\ Len(committee) = IF TargetCommitteeSize < Cardinality(others)
                                              THEN TargetCommitteeSize ELSE Cardinality(others)
  BY <1>5, Zenon DEF CommitteeIsDrawn
<1> QED  BY <1>3, CommitteeFacts
-----------------------------------------------------------------------------
(* Verdicts.                                                               *)

\* The verdict v on k is a pass only if every probe was good.
Justified(k, v) == k[3] = "network" /\ v.score = "passing" => v.sustained

\* A rate that is sustained is sustained by any higher one.
LEMMA SustainsUpwards ==
  ASSUME NEW slow \in Nat, NEW fast \in Nat, slow <= fast, NEW claim \in Claims, Sustains(slow, claim)
  PROVE  Sustains(fast, claim)
<1>1. claim.ingress \in Nat /\ claim.egress \in Nat /\ ToleranceBps \in Nat
  BY DaemonAssumption
<1>2. ASSUME NEW c \in Nat, passesBandwidthTolerance(slow, c) PROVE passesBandwidthTolerance(fast, c)
  <2> DEFINE x == c * ToleranceBps
  <2>1. c > 0 /\ slow * 10000 >= x /\ x \in Nat
    BY <1>1, <1>2 DEF passesBandwidthTolerance
  <2> HIDE DEF x
  <2>2. fast * 10000 >= x
    BY <2>1
  <2> QED  BY <2>1, <2>2 DEF passesBandwidthTolerance, x
<1> QED  BY <1>1, <1>2 DEF Sustains

\* The slowest probe is one of them, and no probe is slower.
LEMMA SlowestIs ==
  ASSUME NEW answers \in [1..ProbesPerRound -> Responses], \A i \in DOMAIN answers : Measured(answers[i])
  PROVE  /\ Slowest(answers) \in Nat
         /\ \A i \in DOMAIN answers : Rate(answers[i]) \in Nat /\ Slowest(answers) <= Rate(answers[i])
<1> DEFINE rates == {Rate(answers[i]) : i \in DOMAIN answers}
<1>1. ASSUME NEW i \in DOMAIN answers PROVE Rate(answers[i]) \in Nat
  <2> DEFINE d == answers[i].elapsed - answers[i].processing
  <2>1. answers[i] \in Responses /\ ~(d < 1)
    BY <1>1 DEF Measured, implausible
  <2>2. d \in Nat \ {0} /\ ProbeBits \in Nat
    BY <2>1, DaemonAssumption
  <2>3. Rate(answers[i]) = ProbeBits \div d
    BY DEF Rate
  <2> HIDE DEF d
  <2>4. ProbeBits \div d \in Nat
    BY <2>2
  <2> QED  BY <2>3, <2>4
<1>2. rates \in SUBSET Nat /\ rates # {}
  <2>1. 1 \in DOMAIN answers
    BY DaemonAssumption
  <2> QED  BY <1>1, <2>1
<1>3. \E x \in rates : \A y \in rates : x <= y
  <2> HIDE DEF rates
  <2> QED  BY <1>2, LeastExists
<1>4. \E x \in rates : \A i \in DOMAIN answers : x <= Rate(answers[i])
  BY <1>3
<1>5. Slowest(answers) \in rates /\ \A i \in DOMAIN answers : Slowest(answers) <= Rate(answers[i])
  BY <1>4 DEF Slowest
<1> QED  BY <1>1, <1>2, <1>5

\* MeasureBandwidth passes a provider only if every probe kept its declaration.
LEMMA VerdictsAreJustified ==
  ASSUME NEW k \in Keys, declared \in [Registry -> Claims], NEW v \in Verdicts(k)
  PROVE  Justified(k, v)
<1> SUFFICES ASSUME k[3] = "network", v.score = "passing" PROVE v.sustained
  BY DEF Justified
<1> DEFINE claim == declared[k[1]]
<1>1. claim \in Claims
  BY DEF Keys
<1>2. PICK answers \in [1..ProbesPerRound -> Responses] :
        v = [score |-> MeasureBandwidth(claim, answers),
             sustained |-> \A i \in DOMAIN answers : /\ Measured(answers[i])
                                                     /\ Sustains(Rate(answers[i]), claim)]
  BY DEF Verdicts
<1> HIDE DEF claim
<1>3. MeasureBandwidth(claim, answers) = "passing"
  BY <1>2
<1>4. (\A i \in DOMAIN answers : Measured(answers[i])) /\ Sustains(Slowest(answers), claim)
  BY <1>3 DEF MeasureBandwidth
<1>5. \A i \in DOMAIN answers : Measured(answers[i]) /\ Sustains(Rate(answers[i]), claim)
  BY <1>1, <1>4, SlowestIs, SustainsUpwards
<1> QED  BY <1>2, <1>5
-----------------------------------------------------------------------------
(* The inductive invariant.                                                *)

\* What holds the account's place in the pool.
SlotSound ==
  slot # None =>
    /\ slot = [call |-> slot.call, tip |-> slot.tip, included |-> slot.included]
    /\ slot.tip \in ToSet(Tips) /\ slot.included \in BOOLEAN
    /\ slot.call[1] = "submit_evidence" =>
         slot.call[2] \in Keys /\ Justified(slot.call[2], slot.call[3])

\* What a tick has left: keys that are not done, or whose close is pending.
TickSound ==
  /\ tick = [pc |-> tick.pc, todo |-> tick.todo]
  /\ tick.todo \subseteq Keys
  /\ tick.pc = "challenge" => tick.todo \cap done = {}
  /\ tick.pc = "close" => \A k \in tick.todo : pending[k] # None

\* A pending close is of a key that is done, and was tried as often as it counts;
\* a key that is not done was never closed.
ClosesSound ==
  /\ closes \in [Keys -> 0..MaxCloseAttempts]
  /\ \A k \in Keys : /\ pending[k] # None => closes[k] = pending[k] /\ k \in done
                     /\ k \notin done => closes[k] = 0

EvidenceSound ==
  /\ DOMAIN evidence = Keys
  /\ \A k \in Keys : evidence[k] # None => Justified(k, evidence[k])

DaemonInv ==
  /\ DaemonTypeOK /\ declared \in [Registry -> Claims]
  /\ TickSound /\ ClosesSound /\ EvidenceSound

ChainInv == SlotSound /\ OfferTypeOK /\ DaemonInv

\* A call that the pool takes is sound if it carries a justified verdict.
LEMMA EnterSound ==
  ASSUME SlotSound, NEW call, Accepted(call), Enter(call),
         call[1] = "submit_evidence" => call[2] \in Keys /\ Justified(call[2], call[3])
  PROVE  SlotSound'
<1> DEFINE least == CHOOSE i \in Outbids : \A j \in Outbids : i <= j
<1>1. Len(Tips) = 4 /\ DOMAIN Tips = 1..4
  BY DEF Tips
<1>2. Outbids \in SUBSET Nat /\ Outbids \subseteq 1..4
  BY <1>1 DEF Outbids
<1>3. Outbids # {}
  BY <1>1 DEF Accepted, Outbids
<1>4. \E i \in Outbids : \A j \in Outbids : i <= j
  BY <1>2, <1>3, LeastExists
<1>5. least \in Outbids
  BY <1>4
<1>6. WinningTip = Tips[least]
  BY DEF WinningTip
<1> HIDE DEF least
<1>7. WinningTip \in ToSet(Tips)
  BY <1>1, <1>2, <1>5, <1>6 DEF ToSet
<1> DEFINE tip == WinningTip
           new == [call |-> call, tip |-> tip, included |-> FALSE]
<1>8. slot' = new
  BY DEF Enter
<1> HIDE DEF tip
<1>9. new.call = call /\ new.tip = tip /\ new.included = FALSE
  OBVIOUS
<1>10. tip \in ToSet(Tips)
  BY <1>7 DEF tip
<1> QED  BY <1>8, <1>9, <1>10 DEF SlotSound, Justified

\* A submission, whatever its answer.
LEMMA SubmitSound ==
  ASSUME SlotSound, NEW call, SubmitSigned(call) \/ SubmitFails(call),
         call[1] = "submit_evidence" => call[2] \in Keys /\ Justified(call[2], call[3])
  PROVE  SlotSound'
<1>1. CASE UNCHANGED slot
  BY <1>1 DEF SlotSound, Justified
<1>2. CASE Accepted(call) /\ Enter(call)
  BY <1>2, EnterSound
<1> QED  BY <1>1, <1>2 DEF SubmitSigned, SubmitFails, signerVars

\* The pool and the chain by themselves.
LEMMA PoolSound ==
  ASSUME SlotSound, Include \/ PoolLoses \/ (\E call : Finalizes(call)) \/ UNCHANGED slot
  PROVE  SlotSound'
<1>1. CASE Include
  <2> DEFINE new == [slot EXCEPT !.included = TRUE]
  <2>1. slot # None /\ slot' = new
    BY <1>1 DEF Include
  <2>2. PICK c, t, i : slot = [call |-> c, tip |-> t, included |-> i]
    BY <2>1 DEF SlotSound
  <2> DEFINE yes == TRUE
  <2> HIDE DEF yes
  <2>3. /\ [slot EXCEPT !.included = yes] = [call |-> c, tip |-> t, included |-> yes]
        /\ slot.call = c /\ slot.tip = t
    BY <2>2
  <2>4. /\ new = [call |-> c, tip |-> t, included |-> TRUE]
        /\ new.call = c /\ new.tip = t /\ new.included = TRUE
    BY <2>3 DEF yes
  <2> HIDE DEF new
  <2> QED  BY <2>1, <2>3, <2>4 DEF SlotSound, Justified
<1>2. CASE PoolLoses \/ \E call : Finalizes(call)
  BY <1>2 DEF PoolLoses, Finalizes, SlotSound
<1>3. CASE UNCHANGED slot
  BY <1>3 DEF SlotSound, Justified
<1> QED  BY <1>1, <1>2, <1>3
-----------------------------------------------------------------------------
(* The validator daemon's steps.                                           *)

\* What the daemon's invariant speaks of.
daemonState == <<seat, declared, evidence, done, pending, tick, closes>>

\* Nothing of it changes.
LEMMA DaemonFrame == ASSUME DaemonInv, UNCHANGED daemonState PROVE DaemonInv'
BY DEF DaemonInv, daemonState, DaemonTypeOK, TickSound, ClosesSound, EvidenceSound, Justified

\* A key is off the list.
LEMMA DidFacts ==
  ASSUME TickSound, NEW k, Did(k)
  PROVE  /\ tick' = [pc |-> tick'.pc, todo |-> tick'.todo]
         /\ tick'.pc = tick.pc /\ tick'.todo = tick.todo \ {k}
<1>1. PICK c, t : tick = [pc |-> c, todo |-> t]
  BY DEF TickSound
<1>2. tick' = [pc |-> c, todo |-> t \ {k}]
  BY <1>1 DEF Did
<1> QED  BY <1>1, <1>2

\* A new list begins.
LEMMA TickBegins ==
  ASSUME DaemonInv, NEW c, NEW todo \in SUBSET Keys, tick' = [pc |-> c, todo |-> todo],
         c = "challenge" => todo \cap done = {},
         c = "close" => \A k \in todo : pending[k] # None,
         UNCHANGED <<seat, declared, evidence, done, pending, closes>>
  PROVE  DaemonInv'
<1>1. tick'.pc = c /\ tick'.todo = todo
  OBVIOUS
<1>2. TickSound' /\ DaemonTypeOK'
  BY <1>1 DEF DaemonInv, DaemonTypeOK, TickSound
<1> QED  BY <1>2 DEF DaemonInv, ClosesSound, EvidenceSound, Justified

\* tick and attemptPendingCloses list their keys.
LEMMA ListSteps == ASSUME DaemonInv, Tick \/ AttemptPendingCloses \/ TickEnds PROVE DaemonInv'
<1>1. CASE Tick
  <2>1. AssignedWork \in SUBSET Keys /\ AssignedWork \cap done = {}
    BY DEF AssignedWork
  <2> QED  BY <1>1, <2>1, TickBegins DEF Tick
<1>2. CASE AttemptPendingCloses
  BY <1>2, TickBegins DEF AttemptPendingCloses
<1>3. CASE TickEnds
  BY <1>3, TickBegins DEF TickEnds, Waiting
<1> QED  BY <1>1, <1>2, <1>3

\* A key is looked at and nothing comes of it.
LEMMA SkipStep ==
  ASSUME DaemonInv, NEW k, Did(k), UNCHANGED <<seat, declared, evidence, done, pending, closes>>
  PROVE  DaemonInv'
<1>1. /\ tick' = [pc |-> tick'.pc, todo |-> tick'.todo]
      /\ tick'.pc = tick.pc /\ tick'.todo = tick.todo \ {k}
  BY DidFacts DEF DaemonInv
<1>2. TickSound' /\ DaemonTypeOK'
  BY <1>1 DEF DaemonInv, DaemonTypeOK, TickSound
<1> QED  BY <1>2 DEF DaemonInv, ClosesSound, EvidenceSound, Justified

\* Evidence is submitted for a key that was not done: its closes begin at none.
LEMMA MarkedStep ==
  ASSUME DaemonInv, NEW k \in Keys, tick.pc = "challenge", k \in tick.todo, Did(k), MarkDone(k),
         pending' = [pending EXCEPT ![k] = 0], UNCHANGED <<seat, declared, evidence, closes>>
  PROVE  DaemonInv'
<1>1. /\ tick' = [pc |-> tick'.pc, todo |-> tick'.todo]
      /\ tick'.pc = "challenge" /\ tick'.todo = tick.todo \ {k}
  BY DidFacts DEF DaemonInv
<1>2. done' = done \union {k} /\ k \notin done
  BY DEF MarkDone, DaemonInv, TickSound
<1>3. 0 \in 0..(MaxCloseAttempts - 1) /\ MaxCloseAttempts \in Nat
  BY DaemonAssumption
<1>4. /\ pending' \in [Keys -> (0..(MaxCloseAttempts - 1)) \union {None}]
      /\ pending'[k] = 0 /\ \A j \in Keys \ {k} : pending'[j] = pending[j]
  BY <1>3 DEF DaemonInv, DaemonTypeOK
<1>5. TickSound' /\ DaemonTypeOK'
  BY <1>1, <1>2, <1>4 DEF DaemonInv, DaemonTypeOK, TickSound
<1>6. ClosesSound'
  BY <1>2, <1>4 DEF DaemonInv, ClosesSound
<1> QED  BY <1>5, <1>6 DEF DaemonInv, EvidenceSound, Justified

\* A close is attempted: the count goes up with the attempts until it is dropped.
LEMMA CloseStep ==
  ASSUME DaemonInv, NEW k \in Keys, CloseRound(k)
  PROVE  DaemonInv'
<1> DEFINE n == pending[k]
           m == IF n + 1 >= MaxCloseAttempts THEN None ELSE n + 1
<1>1. /\ tick' = [pc |-> tick'.pc, todo |-> tick'.todo]
      /\ tick'.pc = "close" /\ tick'.todo = tick.todo \ {k} /\ k \in tick.todo
  BY DidFacts DEF CloseRound, DaemonInv
<1>2. /\ pending' = [pending EXCEPT ![k] = m] /\ closes' = [closes EXCEPT ![k] = @ + 1]
      /\ UNCHANGED <<seat, declared, evidence, done>>
  BY DEF CloseRound
<1>3. n \in 0..(MaxCloseAttempts - 1) /\ closes[k] = n
  BY <1>1 DEF CloseRound, DaemonInv, DaemonTypeOK, TickSound, ClosesSound
<1>4. MaxCloseAttempts \in Nat /\ None \notin Nat
  BY DaemonAssumption
<1>5. m \in (0..(MaxCloseAttempts - 1)) \union {None} /\ (m # None => m = n + 1) /\ n + 1 \in 0..MaxCloseAttempts
  BY <1>3, <1>4
<1> HIDE DEF m
<1>6. /\ pending' \in [Keys -> (0..(MaxCloseAttempts - 1)) \union {None}]
      /\ pending'[k] = m /\ \A j \in Keys \ {k} : pending'[j] = pending[j]
  BY <1>2, <1>5 DEF DaemonInv, DaemonTypeOK
<1>7. /\ closes' \in [Keys -> 0..MaxCloseAttempts]
      /\ closes'[k] = n + 1 /\ \A j \in Keys \ {k} : closes'[j] = closes[j]
  BY <1>2, <1>3, <1>5 DEF DaemonInv, ClosesSound
<1>8. k \in done
  BY <1>1 DEF CloseRound, DaemonInv, TickSound, ClosesSound
<1>9. TickSound' /\ DaemonTypeOK'
  <2>1. tick.todo \subseteq Keys /\ tick.pc = "close" /\ \A j \in tick.todo : pending[j] # None
    BY DEF CloseRound, DaemonInv, TickSound
  <2>2. \A j \in tick'.todo : pending'[j] # None
    BY <1>1, <1>6, <2>1
  <2>3. TickSound'
    BY <1>1, <2>1, <2>2 DEF TickSound
  <2>4. tick'.todo \subseteq Keys /\ done' \subseteq Keys /\ seat' \in {"absent", "active", "exiting"}
    BY <1>1, <1>2, <2>1 DEF DaemonInv, DaemonTypeOK
  <2> QED  BY <1>6, <2>3, <2>4 DEF DaemonTypeOK
<1>10. ClosesSound'
  BY <1>2, <1>5, <1>6, <1>7, <1>8 DEF DaemonInv, ClosesSound
<1> QED  BY <1>2, <1>9, <1>10 DEF DaemonInv, EvidenceSound, Justified

\* The pallet executes a call: evidence comes from the slot.
LEMMA ExecuteStep ==
  ASSUME SlotSound, DaemonInv, ExecuteCall
  PROVE  DaemonInv'
<1>1. UNCHANGED <<declared, done, pending, tick, closes>>
  BY DEF ExecuteCall
<1>2. seat' \in {"absent", "active", "exiting"}
  BY DEF ExecuteCall, DaemonInv, DaemonTypeOK
<1>3. EvidenceSound'
  <2>1. CASE UNCHANGED evidence
    BY <2>1 DEF DaemonInv, EvidenceSound, Justified
  <2>2. CASE /\ slot # None /\ slot.call[1] = "submit_evidence"
             /\ evidence' = [evidence EXCEPT ![slot.call[2]] =
                  IF @ = None /\ seat = "active" /\ Assigned(slot.call[2][1], slot.call[2][2])
                  THEN slot.call[3] ELSE @]
    <3> DEFINE k == slot.call[2]
               v == slot.call[3]
    <3>1. k \in Keys /\ Justified(k, v)
      BY <2>2 DEF SlotSound
    <3>2. /\ DOMAIN evidence' = Keys
          /\ evidence'[k] \in {v, evidence[k]} /\ \A j \in Keys \ {k} : evidence'[j] = evidence[j]
      BY <2>2, <3>1 DEF DaemonInv, EvidenceSound
    <3> HIDE DEF k, v
    <3> QED  BY <3>1, <3>2 DEF DaemonInv, EvidenceSound, Justified
  <2> QED  BY <2>1, <2>2 DEF ExecuteCall
<1>4. DaemonTypeOK'
  BY <1>1, <1>2 DEF DaemonInv, DaemonTypeOK
<1>5. TickSound' /\ ClosesSound' /\ declared' \in [Registry -> Claims]
  BY <1>1 DEF DaemonInv, TickSound, ClosesSound
<1> QED  BY <1>3, <1>4, <1>5 DEF DaemonInv

\* challengeAndSubmit, in each of its outcomes.
LEMMA ChallengeStep ==
  ASSUME SlotSound, DaemonInv, NEW k \in Keys, ChallengeAndSubmit(k)
  PROVE  SlotSound' /\ DaemonInv'
<1>1. /\ tick.pc = "challenge" /\ k \in tick.todo /\ Did(k)
      /\ UNCHANGED <<seat, declared, evidence, closes>> /\ declared \in [Registry -> Claims]
  BY DEF ChallengeAndSubmit, DaemonInv
<1>2. CASE UNCHANGED <<slot, done, pending>>
  BY <1>1, <1>2, SkipStep, PoolSound
<1>3. ASSUME NEW v \in Verdicts(k), SubmitSigned(Evidence(k, v)) \/ SubmitFails(Evidence(k, v))
      PROVE  SlotSound'
  <2>1. Justified(k, v)
    BY <1>1, <1>3, VerdictsAreJustified
  <2> DEFINE call == Evidence(k, v)
  <2>2. call[2] = k /\ call[3] = v
    BY DEF Evidence
  <2> HIDE DEF call
  <2> QED  BY <1>3, <2>1, <2>2, SubmitSound DEF call
<1>4. ASSUME NEW v \in Verdicts(k), SubmitSigned(Evidence(k, v)), MarkDone(k), pending' = [pending EXCEPT ![k] = 0]
      PROVE  SlotSound' /\ DaemonInv'
  BY <1>1, <1>3, <1>4, MarkedStep
<1>5. ASSUME NEW v \in Verdicts(k), SubmitFails(Evidence(k, v)), UNCHANGED <<done, pending>>
      PROVE  SlotSound' /\ DaemonInv'
  BY <1>1, <1>3, <1>5, SkipStep
<1> QED  BY <1>2, <1>4, <1>5 DEF ChallengeAndSubmit, signerVars

\* Every step of the daemon, its commands and its environment.
LEMMA DaemonStep ==
  ASSUME SlotSound, DaemonInv, DaemonNext
  PROVE  SlotSound' /\ DaemonInv'
<1>1. CASE Tick \/ AttemptPendingCloses \/ TickEnds
  <2>1. UNCHANGED slot
    BY <1>1 DEF Tick, AttemptPendingCloses, TickEnds, signerVars
  <2> QED  BY <1>1, <2>1, ListSteps, PoolSound
<1>2. ASSUME NEW k \in Keys, ChallengeAndSubmit(k) PROVE SlotSound' /\ DaemonInv'
  BY <1>2, ChallengeStep
<1>3. ASSUME NEW k \in Keys, CloseNotDue(k) PROVE SlotSound' /\ DaemonInv'
  BY <1>3, SkipStep, PoolSound DEF CloseNotDue, signerVars
<1>4. ASSUME NEW k \in Keys, CloseRound(k) PROVE SlotSound' /\ DaemonInv'
  <2> DEFINE call == Close(k)
  <2>1. call[1] # "submit_evidence" /\ (SubmitSigned(call) \/ SubmitFails(call))
    BY <1>4 DEF Close, CloseRound
  <2> HIDE DEF call
  <2> QED  BY <1>4, <2>1, CloseStep, SubmitSound
<1>5. ASSUME NEW k \in Keys, BackoffEnds(k) PROVE SlotSound' /\ DaemonInv'
  BY <1>5, DaemonFrame, PoolSound DEF BackoffEnds, daemonState, signerVars
<1>6. CASE DaemonRestart
  <2>1. /\ done' = {} /\ pending' = [k \in Keys |-> None] /\ closes' = [k \in Keys |-> 0]
        /\ tick' = [pc |-> "wait", todo |-> {}] /\ UNCHANGED <<slot, seat, declared, evidence>>
    BY <1>6 DEF DaemonRestart, Waiting
  <2>2. DaemonTypeOK' /\ TickSound'
    BY <2>1 DEF DaemonInv, DaemonTypeOK, TickSound
  <2>3. ClosesSound'
    BY <2>1, DaemonAssumption DEF ClosesSound
  <2> QED  BY <2>1, <2>2, <2>3, PoolSound DEF DaemonInv, EvidenceSound, Justified
<1>7. CASE Command
  <2>1. PICK c \in Commands : SubmitSigned(c) \/ SubmitFails(c)
    BY <1>7 DEF Command
  <2>2. c[1] # "submit_evidence"
    BY DEF Commands
  <2>3. SlotSound'
    BY <2>1, <2>2, SubmitSound
  <2> QED  BY <1>7, <2>3, DaemonFrame DEF Command, daemonState
<1>8. CASE ExecuteCall
  <2>1. \E call : Finalizes(call)
    BY <1>8 DEF ExecuteCall
  <2> QED  BY <1>8, <2>1, ExecuteStep, PoolSound
<1>9. CASE RoundAdvances
  BY <1>9, DaemonFrame, PoolSound DEF RoundAdvances, daemonState, signerVars
<1>10. ASSUME NEW p \in Registry, ClaimChanges(p) PROVE SlotSound' /\ DaemonInv'
  <2>1. UNCHANGED <<slot, seat, evidence, done, pending, tick, closes>>
    BY <1>10 DEF ClaimChanges, signerVars
  <2>2. declared' \in [Registry -> Claims]
    BY <1>10 DEF ClaimChanges, DaemonInv
  <2> QED  BY <2>1, <2>2, PoolSound
           DEF DaemonInv, DaemonTypeOK, TickSound, ClosesSound, EvidenceSound, Justified
<1>11. CASE (Include \/ PoolLoses) /\ UNCHANGED daemonVars
  BY <1>11, DaemonFrame, PoolSound DEF daemonVars, daemonState
<1> QED  BY <1>1, <1>2, <1>3, <1>4, <1>5, <1>6, <1>7, <1>8, <1>9, <1>10, <1>11 DEF DaemonNext, TickStep
-----------------------------------------------------------------------------
(* The offer reconciler's steps, and the theorems.                         *)

\* What a pass changes of the offers it keeps.
LEMMA OfferFrame ==
  ASSUME OfferTypeOK, UNCHANGED <<capacity, active, offers, offering, attempts, blocked>>
  PROVE  OfferTypeOK'
BY DEF OfferTypeOK

\* A call of the reconciler carries no evidence.
LEMMA OfferCalls ==
  ASSUME SlotSound, NEW p, NEW c, NEW call \in {Announcement(p, c), Withdrawal(p)},
         SubmitSigned(call) \/ SubmitFails(call)
  PROVE  SlotSound'
<1>1. call[1] # "submit_evidence"
  BY DEF Announcement, Withdrawal
<1> QED  BY <1>1, SubmitSound

\* Every step of the reconciler, the directory and the market pallet.
LEMMA OfferStep ==
  ASSUME SlotSound, OfferTypeOK, OfferNext
  PROVE  SlotSound' /\ OfferTypeOK'
<1>0. blocked' \in BOOLEAN
  BY DEF OfferNext, PassStep, MutexTaken, MutexFreed, ExecuteOffer, offerVars, DirectoryChanges,
         RegistryChanges, ControlPlaneRestart, OfferTypeOK
<1>1. ASSUME NEW p \in Providers,
             AnnounceSkipped(p) \/ AlreadyGone(p) \/ GivesUp(p) \/ OfferReadFails(p)
      PROVE  SlotSound' /\ OfferTypeOK'
  <2>1. UNCHANGED <<slot, capacity, active, offers>>
    BY <1>1 DEF AnnounceSkipped, AlreadyGone, GivesUp, OfferReadFails, signerVars
  <2>2. offering' \subseteq Providers /\ attempts' \in [Providers -> 0..MaxWithdrawAttempts]
    BY <1>1, OfferAssumption
       DEF AnnounceSkipped, AlreadyGone, GivesUp, OfferReadFails, Forget, OfferTypeOK
  <2> QED  BY <2>1, <2>2, PoolSound, <1>0 DEF OfferTypeOK
<1>2. ASSUME NEW p \in Providers, AnnounceOfferFor(p) PROVE SlotSound' /\ OfferTypeOK'
  <2>1. SlotSound'
    BY <1>2, OfferCalls DEF AnnounceOfferFor
  <2> QED  BY <1>2, <2>1, <1>0 DEF AnnounceOfferFor, OfferTypeOK
<1>3. ASSUME NEW p \in Providers, RemoveOfferFor(p) PROVE SlotSound' /\ OfferTypeOK'
  <2>1. SlotSound'
    BY <1>3, OfferCalls DEF RemoveOfferFor
  <2>2. attempts[p] \in 0..MaxWithdrawAttempts /\ ~(attempts[p] >= MaxWithdrawAttempts)
    BY <1>3 DEF RemoveOfferFor, BudgetSpent, OfferTypeOK
  <2>3. attempts[p] + 1 \in 0..MaxWithdrawAttempts /\ 0 \in 0..MaxWithdrawAttempts
    BY <2>2, OfferAssumption
  <2>4. offering' \subseteq Providers /\ attempts' \in [Providers -> 0..MaxWithdrawAttempts]
    BY <1>3, <2>3 DEF RemoveOfferFor, Forget, OfferTypeOK
  <2>5. UNCHANGED <<capacity, active, offers>>
    BY <1>3 DEF RemoveOfferFor
  <2> QED  BY <2>1, <2>4, <2>5, <1>0 DEF OfferTypeOK
<1>4. CASE ReconcileOnce \/ PassEnds
  <2>1. UNCHANGED <<slot, capacity, active, offers, offering, attempts>>
    BY <1>4 DEF ReconcileOnce, PassEnds, signerVars
  <2> QED  BY <2>1, PoolSound, <1>0 DEF OfferTypeOK
<1>5. CASE WithdrawLoop
  <2>1. UNCHANGED <<slot, capacity, active, offers, offering>>
    BY <1>5 DEF WithdrawLoop, signerVars
  <2>2. attempts' \in [Providers -> 0..MaxWithdrawAttempts]
    BY <1>5, OfferAssumption DEF WithdrawLoop, OfferTypeOK
  <2> QED  BY <2>1, <2>2, PoolSound, <1>0 DEF OfferTypeOK
<1>6. CASE ExecuteOffer
  <2>1. \E call : Finalizes(call)
    BY <1>6 DEF ExecuteOffer
  <2>2. UNCHANGED <<capacity, active, offering, attempts>>
    BY <1>6 DEF ExecuteOffer
  <2>3. offers' \in [Providers -> Capacities \union {None}]
    BY <1>6 DEF ExecuteOffer, OfferTypeOK
  <2> QED  BY <2>1, <2>2, <2>3, PoolSound, <1>0 DEF OfferTypeOK
<1>7. CASE (Include \/ PoolLoses) /\ UNCHANGED offerVars
  BY <1>7, PoolSound, OfferFrame DEF offerVars
<1>8. ASSUME NEW p \in Providers, DirectoryChanges(p) \/ RegistryChanges(p)
      PROVE  SlotSound' /\ OfferTypeOK'
  <2>1. UNCHANGED <<slot, offers, offering, attempts>>
    BY <1>8 DEF DirectoryChanges, RegistryChanges, signerVars
  <2>2. capacity' \in [Providers -> Capacities \union {None}]
    BY <1>8 DEF DirectoryChanges, RegistryChanges, OfferTypeOK
  <2>3. active' \in [Providers -> BOOLEAN]
    BY <1>8 DEF DirectoryChanges, RegistryChanges, OfferTypeOK
  <2> QED  BY <2>1, <2>2, <2>3, PoolSound, <1>0 DEF OfferTypeOK
<1>9. CASE ControlPlaneRestart
  <2>1. UNCHANGED <<slot, capacity, active, offers>> /\ offering' = {}
    BY <1>9 DEF ControlPlaneRestart
  <2>2. attempts' \in [Providers -> 0..MaxWithdrawAttempts]
    BY <1>9, OfferAssumption DEF ControlPlaneRestart
  <2> QED  BY <2>1, <2>2, PoolSound, <1>0 DEF OfferTypeOK
<1>10. CASE MutexTaken \/ MutexFreed
  <2>1. UNCHANGED <<slot, capacity, active, offers, offering, attempts>>
    BY <1>10 DEF MutexTaken, MutexFreed, signerVars
  <2> QED  BY <2>1, PoolSound, <1>0 DEF OfferTypeOK
<1> QED  BY <1>1, <1>2, <1>3, <1>4, <1>5, <1>6, <1>7, <1>8, <1>9, <1>10 DEF OfferNext, PassStep

\* Nothing was submitted yet.
LEMMA ChainStart == Init => ChainInv
<1> SUFFICES ASSUME Init PROVE ChainInv
  OBVIOUS
<1>1. SlotSound
  BY DEF Init, SignerInit, SlotSound
<1>2. OfferTypeOK
  <2>1. 0 \in 0..MaxWithdrawAttempts
    BY OfferAssumption
  <2> QED  BY <2>1 DEF Init, OfferInit, OfferTypeOK
<1>3. DaemonTypeOK /\ declared \in [Registry -> Claims] /\ TickSound
  BY DEF Init, DaemonInit, DaemonTypeOK, TickSound, Waiting
<1>4. ClosesSound /\ EvidenceSound
  BY DaemonAssumption DEF Init, DaemonInit, ClosesSound, EvidenceSound
<1> QED  BY <1>1, <1>2, <1>3, <1>4 DEF ChainInv, DaemonInv

\* Whichever of the two programs a behaviour follows, the other's state stands
\* still and the slot stays sound.
LEMMA ChainStep == ASSUME ChainInv, [Next]_vars PROVE ChainInv'
<1>1. CASE OfferNext /\ UNCHANGED daemonVars
  BY <1>1, OfferStep, DaemonFrame DEF ChainInv, daemonVars, daemonState
<1>2. CASE DaemonNext /\ UNCHANGED offerVars
  BY <1>2, DaemonStep, OfferFrame DEF ChainInv, offerVars
<1>3. CASE UNCHANGED vars
  BY <1>3, DaemonFrame, OfferFrame, PoolSound
     DEF ChainInv, vars, signerVars, offerVars, daemonVars, daemonState
<1> QED  BY <1>1, <1>2, <1>3 DEF Next

\* The inductive invariant of the two programs holds in every behaviour.
THEOREM ChainInvariant == Spec => []ChainInv
BY ChainStart, ChainStep, PTL DEF Spec

\* For any validators, seeds, answers and faults: the committee of a round is a
\* draw without replacement among the other active validators, a passing score
\* reaches the chain only if every probe sustained what was declared, and a
\* process asks for a close at most MaxCloseAttempts times (Committee,
\* MeasureBandwidth, attemptPendingCloses).
THEOREM RoundsStaySound == Spec => []RoundsAreSound
<1>1. ASSUME ChainInv PROVE RoundsAreSound
  <2>1. TypeOK
    BY <1>1 DEF ChainInv, SlotSound, DaemonInv, TypeOK
  <2>2. PassIsSustained
    BY <1>1 DEF ChainInv, DaemonInv, EvidenceSound, Justified, PassIsSustained
  <2>3. ClosesAreBounded
    BY <1>1, DaemonAssumption DEF ChainInv, DaemonInv, ClosesSound, ClosesAreBounded
  <2> QED  BY <2>1, <2>2, <2>3, CommitteeDrawn DEF RoundsAreSound
<1> QED  BY <1>1, ChainInvariant, PTL
=============================================================================
