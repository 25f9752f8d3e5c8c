--------------------------- MODULE DataSources_proofs ---------------------------
(***************************************************************************)
(* What the data sources promise, for every organisation, every size of    *)
(* the pages and any number of objects created and deleted meanwhile.      *)
(***************************************************************************)
EXTENDS DataSources, FiniteSetTheorems, SequenceTheorems, WellFoundedInduction, TLAPS

-----------------------------------------------------------------------------
(* Filtering a list                                                        *)

Below == {p \in Nat \X Nat : p[1] < p[2]}

LEMMA LeastNumber ==
    ASSUME NEW T \in SUBSET Nat, T # {}
    PROVE  \E m \in T : \A n \in T : m <= n
<1>1. IsWellFoundedOn(Below, Nat)
  BY NatLessThanWellFounded DEF OpToRel, Below
<1>2. PICK m \in T : \A n \in T : <<n, m>> \notin Below
  BY <1>1, WFMin
<1>3. ASSUME NEW n \in T PROVE m <= n
  <2>1. m \in Nat /\ n \in Nat
    OBVIOUS
  <2>2. n < m => <<n, m>> \in Below
    BY <2>1 DEF Below
  <2>. QED
    BY <1>2, <2>1, <2>2
<1>. QED
  BY <1>3

\* What the loop has after n elements, given what it had after n - 1.
After(list, S, f, n) ==
    IF n = 0 THEN <<>>
    ELSE IF list[n] \in S THEN Append(f[n - 1], list[n]) ELSE f[n - 1]

Loop(list, S, m, f) ==
    f \in [0..m -> Seq(Ids)] /\ \A n \in 0..m : f[n] = After(list, S, f, n)

LEMMA LoopRuns ==
    ASSUME NEW list \in Seq(Ids), NEW S
    PROVE  \E f : Loop(list, S, Len(list), f)
<1>. DEFINE Stops == {m \in 0..Len(list) : ~ \E f : Loop(list, S, m, f)}
<1>1. Len(list) \in Nat
  OBVIOUS
<1>2. SUFFICES ASSUME Stops # {} PROVE FALSE
  BY <1>1
<1>3. PICK m \in Stops : \A n \in Stops : m <= n
  <2>1. Stops \in SUBSET Nat
    BY <1>1
  <2>. HIDE DEF Stops
  <2>. QED
    BY <1>2, <2>1, LeastNumber
<1>4. m # 0
  <2>1. Loop(list, S, 0, [n \in 0..0 |-> <<>>])
    BY DEF Loop, After
  <2>. QED
    BY <1>3, <2>1
<1>5. PICK f : Loop(list, S, m - 1, f)
  <2>1. m - 1 \in 0..Len(list) /\ m - 1 < m
    BY <1>1, <1>4
  <2>2. m - 1 \notin Stops
    BY <1>1, <1>3, <2>1
  <2>. QED
    BY <2>1, <2>2
<1>. DEFINE g == [n \in 0..m |-> IF n < m THEN f[n] ELSE After(list, S, f, m)]
<1>6. m - 1 \in 0..m /\ m \in 1..Len(list) /\ m \in Nat
  BY <1>1, <1>3, <1>4
<1>7. After(list, S, f, m) \in Seq(Ids)
  <2>1. f[m - 1] \in Seq(Ids) /\ list[m] \in Ids
    BY <1>5, <1>6 DEF Loop
  <2>. QED
    BY <2>1 DEF After
<1>8. g \in [0..m -> Seq(Ids)]
  <2>1. ASSUME NEW n \in 0..m, n < m PROVE f[n] \in Seq(Ids)
    BY <1>5, <1>6, <2>1 DEF Loop
  <2>. QED
    BY <1>7, <2>1
<1>9. ASSUME NEW n \in 0..m PROVE g[n] = After(list, S, g, n)
  <2>1. n # 0 => n - 1 \in 0..m /\ n - 1 < m
    BY <1>6
  <2>2. After(list, S, g, n) = After(list, S, f, n)
    BY <2>1 DEF After
  <2>3. n < m => f[n] = After(list, S, f, n)
    BY <1>5, <1>6 DEF Loop
  <2>. QED
    BY <1>6, <2>2, <2>3
<1>10. Loop(list, S, m, g)
  BY <1>8, <1>9 DEF Loop
<1>. QED
  BY <1>3, <1>10

\* Filtered is what such a loop ends with.
LEMMA FilteredByLoop ==
    ASSUME NEW list \in Seq(Ids), NEW S
    PROVE  \E f : Loop(list, S, Len(list), f) /\ Filtered(list, S) = f[Len(list)]
<1>. DEFINE Body(g) == [n \in 0..Len(list) |-> After(list, S, g, n)]
            F == CHOOSE g : g = Body(g)
<1>1. Filtered(list, S) = F[Len(list)]
  BY DEF Filtered, After
<1>2. PICK f : Loop(list, S, Len(list), f)
  BY LoopRuns
<1>3. f = Body(f)
  BY <1>2 DEF Loop
<1>4. F = Body(F)
  BY <1>3
<1>5. \A n \in 0..Len(list) : F[n] = After(list, S, F, n)
  BY <1>4
<1>. DEFINE Wrong == {n \in 0..Len(list) : F[n] # f[n]}
<1>. HIDE DEF F
<1>6. Wrong = {}
  <2>1. SUFFICES ASSUME Wrong # {} PROVE FALSE
    OBVIOUS
  <2>2. PICK m \in Wrong : \A n \in Wrong : m <= n
    <3>1. Wrong \in SUBSET Nat
      OBVIOUS
    <3>. HIDE DEF Wrong
    <3>. QED
      BY <2>1, <3>1, LeastNumber
  <2>3. m # 0 => m - 1 \in 0..Len(list) /\ m - 1 \notin Wrong
    BY <2>2
  <2>4. After(list, S, F, m) = After(list, S, f, m)
    BY <2>3 DEF After
  <2>. QED
    BY <1>2, <1>5, <2>4 DEF Loop
<1>7. F[Len(list)] = f[Len(list)]
  <2>1. Len(list) \in 0..Len(list)
    OBVIOUS
  <2>. QED
    BY <1>6, <2>1
<1>. QED
  BY <1>1, <1>2, <1>7

\* A list is what is left of the first n elements of another: at says where
\* each of its elements was.
Picks(part, list, S, n, at) ==
    /\ at \in [1..Len(part) -> 1..n]
    /\ \A a, b \in 1..Len(part) : a < b => at[a] < at[b]
    /\ \A a \in 1..Len(part) : part[a] = list[at[a]] /\ part[a] \in S
    /\ \A k \in 1..n : list[k] \in S => \E a \in 1..Len(part) : at[a] = k

LEMMA PicksGrows ==
    ASSUME NEW list \in Seq(Ids), NEW S, NEW n \in 1..Len(list),
           NEW part \in Seq(Ids), NEW at, Picks(part, list, S, n - 1, at)
    PROVE  /\ list[n] \notin S => Picks(part, list, S, n, at)
           /\ list[n] \in S =>
                 \E new : Picks(Append(part, list[n]), list, S, n, new)
<1>1. /\ n \in Nat /\ n >= 1 /\ n - 1 \in Nat /\ Len(part) \in Nat
      /\ \A k \in 1..n : k = n \/ k \in 1..(n - 1)
      /\ \A k \in 1..(n - 1) : k \in 1..n /\ k < n
  OBVIOUS
<1>2. CASE list[n] \notin S
  BY <1>1, <1>2 DEF Picks
<1>3. CASE list[n] \in S
  <2>. DEFINE more == Append(part, list[n])
              new == [a \in 1..(Len(part) + 1) |-> IF a = Len(part) + 1 THEN n ELSE at[a]]
  <2>1. /\ list[n] \in Ids /\ Len(more) = Len(part) + 1
        /\ more[Len(part) + 1] = list[n]
        /\ \A a \in 1..Len(part) : more[a] = part[a]
    OBVIOUS
  <2>2. \A a \in 1..(Len(part) + 1) : a = Len(part) + 1 \/ a \in 1..Len(part)
    BY <1>1
  <2>. HIDE DEF more
  <2>3. \A a \in 1..Len(part) :
           a \in 1..(Len(part) + 1) /\ new[a] = at[a] /\ at[a] \in 1..n /\ at[a] < n
    <3>1. \A a \in 1..Len(part) : a # Len(part) + 1 /\ a \in 1..(Len(part) + 1)
      BY <1>1
    <3>. QED
      BY <1>1, <3>1 DEF Picks
  <2>4. Len(part) + 1 \in 1..(Len(part) + 1) /\ new[Len(part) + 1] = n
    BY <1>1
  <2>. HIDE DEF new
  <2>5. DOMAIN new = 1..Len(more) /\ new \in [1..Len(more) -> 1..n]
    <3>1. new = [a \in 1..Len(more) |-> new[a]]
      BY <2>1 DEF new
    <3>2. \A a \in 1..Len(more) : new[a] \in 1..n
      BY <1>1, <2>1, <2>2, <2>3, <2>4
    <3>. QED
      BY <3>1, <3>2
  <2>6. \A a, b \in 1..Len(more) : a < b => new[a] < new[b]
    <3>1. SUFFICES ASSUME NEW a \in 1..Len(more), NEW b \in 1..Len(more), a < b
                   PROVE  new[a] < new[b]
      OBVIOUS
    <3>2. a \in 1..Len(part)
      BY <1>1, <2>1, <3>1
    <3>3. CASE b \in 1..Len(part)
      BY <2>3, <3>1, <3>2, <3>3 DEF Picks
    <3>4. CASE b = Len(part) + 1
      BY <2>3, <2>4, <3>2, <3>4
    <3>. QED
      BY <2>1, <2>2, <3>3, <3>4
  <2>7. \A a \in 1..Len(more) : more[a] = list[new[a]] /\ more[a] \in S
    BY <1>3, <2>1, <2>2, <2>3, <2>4 DEF Picks
  <2>8. \A k \in 1..n : list[k] \in S => \E a \in 1..Len(more) : new[a] = k
    BY <1>1, <2>1, <2>3, <2>4 DEF Picks
  <2>9. Picks(more, list, S, n, new)
    BY <2>5, <2>6, <2>7, <2>8 DEF Picks
  <2>. QED
    BY <1>3, <2>9 DEF more
<1>. QED
  BY <1>2, <1>3

\* Every element of S is picked, in the order of the list.
LEMMA FilteredPicks ==
    ASSUME NEW list \in Seq(Ids), NEW S
    PROVE  /\ Filtered(list, S) \in Seq(Ids)
           /\ \E at : Picks(Filtered(list, S), list, S, Len(list), at)
<1>1. PICK f : Loop(list, S, Len(list), f) /\ Filtered(list, S) = f[Len(list)]
  BY FilteredByLoop
<1>2. Len(list) \in Nat /\ Len(list) \in 0..Len(list)
  OBVIOUS
<1>. DEFINE Good(n) == \E at : Picks(f[n], list, S, n, at)
            Bad == {n \in 0..Len(list) : ~Good(n)}
<1>3. Bad = {}
  <2>. HIDE DEF Good
  <2>1. SUFFICES ASSUME Bad # {} PROVE FALSE
    OBVIOUS
  <2>2. PICK m \in Bad : \A n \in Bad : m <= n
    <3>1. Bad \in SUBSET Nat
      OBVIOUS
    <3>. HIDE DEF Bad
    <3>. QED
      BY <2>1, <3>1, LeastNumber
  <2>3. m \in 0..Len(list) /\ ~Good(m)
    OBVIOUS
  <2>4. m # 0
    <3>1. f[0] = <<>>
      BY <1>2, <1>1 DEF Loop, After
    <3>2. Picks(<<>>, list, S, 0, <<>>)
      BY DEF Picks
    <3>3. Good(0)
      BY <3>1, <3>2 DEF Good
    <3>. QED
      BY <2>3, <3>3
  <2>5. m \in 1..Len(list) /\ m - 1 \in 0..Len(list) /\ ~(m <= m - 1)
    BY <1>2, <2>3, <2>4
  <2>6. Good(m - 1)
    BY <2>2, <2>5
  <2>7. PICK at : Picks(f[m - 1], list, S, m - 1, at)
    BY <2>6 DEF Good
  <2>8. f[m - 1] \in Seq(Ids) /\ f[m] = After(list, S, f, m)
    BY <1>1, <2>3, <2>5 DEF Loop
  <2>9. f[m] = IF list[m] \in S THEN Append(f[m - 1], list[m]) ELSE f[m - 1]
    BY <2>4, <2>8 DEF After
  <2>10. Good(m)
    BY <2>5, <2>7, <2>8, <2>9, PicksGrows DEF Good
  <2>. QED
    BY <2>3, <2>10
<1>4. Good(Len(list))
  <2>. HIDE DEF Good
  <2>. QED
    BY <1>2, <1>3
<1>. QED
  BY <1>1, <1>2, <1>4 DEF Loop

LEMMA FilteredFacts ==
    ASSUME NEW list \in Seq(Ids), NEW S
    PROVE  /\ Filtered(list, S) \in Seq(Ids)
           /\ ToSet(Filtered(list, S)) = ToSet(list) \cap S
           /\ IsInjective(list) => IsInjective(Filtered(list, S))
<1>. DEFINE F == Filtered(list, S)
<1>1. PICK at : F \in Seq(Ids) /\ Picks(F, list, S, Len(list), at)
  BY FilteredPicks
<1>. HIDE DEF F
<1>2. DOMAIN F = 1..Len(F) /\ DOMAIN list = 1..Len(list) /\ Len(F) \in Nat
  BY <1>1
<1>3. ToSet(F) \subseteq ToSet(list) \cap S
  BY <1>1, <1>2 DEF Picks, ToSet
<1>4. ToSet(list) \cap S \subseteq ToSet(F)
  BY <1>1, <1>2 DEF Picks, ToSet
<1>5. ASSUME IsInjective(list) PROVE IsInjective(F)
  <2>1. SUFFICES ASSUME NEW a \in 1..Len(F), NEW b \in 1..Len(F), F[a] = F[b]
                 PROVE  a = b
    BY <1>2 DEF IsInjective
  <2>2. at[a] = at[b] /\ at[a] \in Nat
    BY <1>1, <1>2, <1>5, <2>1 DEF Picks, IsInjective
  <2>3. ~(a < b) /\ ~(b < a)
    BY <1>1, <2>2 DEF Picks
  <2>. QED
    BY <1>2, <2>3
<1>. QED
  BY <1>1, <1>3, <1>4, <1>5 DEF F

LEMMA ListLength ==
    ASSUME NEW list \in Seq(Ids)
    PROVE  /\ Len(list) \in Nat
           /\ DOMAIN list = 1..Len(list)
           /\ list = <<>> <=> ToSet(list) = {}
           /\ list # <<>> => 1 \in DOMAIN list /\ list[1] \in ToSet(list)
           /\ Len(list) = 1 => ToSet(list) = {list[1]}
           /\ list = <<>> => Len(list) = 0
           /\ ToSet(list) \subseteq Ids
<1>1. Len(list) \in Nat /\ DOMAIN list = 1..Len(list) /\ list \in [1..Len(list) -> Ids]
  OBVIOUS
<1>2. list # <<>> => Len(list) # 0
  OBVIOUS
<1>3. list = <<>> => Len(list) = 0
  OBVIOUS
<1>4. list # <<>> => 1 \in DOMAIN list
  BY <1>1, <1>2
<1>5. Len(list) = 1 => ToSet(list) = {list[1]}
  BY <1>1 DEF ToSet
<1>6. list = <<>> => ToSet(list) = {}
  BY <1>1, <1>3 DEF ToSet
<1>. QED
  BY <1>1, <1>3, <1>4, <1>5, <1>6 DEF ToSet

LEMMA EmptyList == <<>> \in Seq(Ids) /\ ToSet(<<>>) = {} /\ IsInjective(<<>>)
<1>1. <<>> \in Seq(Ids) /\ Len(<<>>) = 0
  BY EmptySeq
<1>2. DOMAIN <<>> = {}
  <2>1. \A s \in Seq(Ids) : DOMAIN s = 1..Len(s)
    OBVIOUS
  <2>. QED
    BY <1>1, <2>1
<1>. QED
  BY <1>1, <1>2 DEF ToSet, IsInjective

\* Whatever stands before an element in s stands before it in t.
Embeds(s, t) ==
    \A a, b \in DOMAIN s :
        a <= b => \E c, d \in DOMAIN t : c <= d /\ t[c] = s[a] /\ t[d] = s[b]

\* So an element is not further in front in t than in s, whichever are taken.
LEMMA EmbeddedLater ==
    ASSUME NEW s \in Seq(Ids), NEW t \in Seq(Ids),
           IsInjective(s), IsInjective(t), Embeds(s, t),
           NEW S, NEW m \in DOMAIN Filtered(s, S)
    PROVE  \E n \in DOMAIN Filtered(t, S) :
              m <= n /\ Filtered(t, S)[n] = Filtered(s, S)[m]
<1>. DEFINE F == Filtered(s, S)
            G == Filtered(t, S)
<1>1. PICK at : F \in Seq(Ids) /\ Picks(F, s, S, Len(s), at)
  BY FilteredPicks
<1>2. PICK in : G \in Seq(Ids) /\ Picks(G, t, S, Len(t), in)
  BY FilteredPicks
<1>3. IsInjective(F)
  BY FilteredFacts
<1>4. m \in DOMAIN F
  OBVIOUS
<1>. HIDE DEF F, G
<1>5. /\ DOMAIN F = 1..Len(F) /\ DOMAIN G = 1..Len(G)
      /\ DOMAIN s = 1..Len(s) /\ DOMAIN t = 1..Len(t)
      /\ Len(F) \in Nat /\ Len(G) \in Nat /\ Len(s) \in Nat /\ Len(t) \in Nat
  BY <1>1, <1>2
<1>6. ASSUME NEW a \in 1..m
      PROVE  \E c, d \in DOMAIN G : c <= d /\ G[c] = F[a] /\ G[d] = F[m]
  <2>1. a \in 1..Len(F) /\ m \in 1..Len(F) /\ (a < m \/ a = m)
    BY <1>4, <1>5
  <2>2. /\ at[a] \in 1..Len(s) /\ at[m] \in 1..Len(s) /\ at[a] <= at[m]
        /\ F[a] = s[at[a]] /\ F[m] = s[at[m]] /\ F[a] \in S /\ F[m] \in S
    BY <1>1, <1>5, <2>1 DEF Picks
  <2>3. PICK c \in 1..Len(t), d \in 1..Len(t) :
           c <= d /\ t[c] = F[a] /\ t[d] = F[m]
    BY <1>5, <2>2 DEF Embeds
  <2>4. PICK u \in 1..Len(G), v \in 1..Len(G) : in[u] = c /\ in[v] = d
    BY <1>2, <2>2, <2>3 DEF Picks
  <2>5. G[u] = F[a] /\ G[v] = F[m]
    BY <1>2, <2>3, <2>4 DEF Picks
  <2>6. ~(v < u)
    BY <1>2, <2>3, <2>4 DEF Picks
  <2>. QED
    BY <1>5, <2>5, <2>6
<1>7. PICK n \in DOMAIN G : G[n] = F[m]
  BY <1>4, <1>5, <1>6
<1>8. IsInjective(G)
  BY FilteredFacts DEF G
<1>9. \A a \in 1..m : \E c \in 1..n : G[c] = F[a]
  <2>1. ASSUME NEW a \in 1..m PROVE \E c \in 1..n : G[c] = F[a]
    <3>1. PICK c \in DOMAIN G, d \in DOMAIN G : c <= d /\ G[c] = F[a] /\ G[d] = F[m]
      BY <1>6
    <3>2. d = n
      BY <1>7, <1>8, <3>1 DEF IsInjective
    <3>. QED
      BY <1>5, <3>1, <3>2
  <2>. QED
    BY <2>1
<1>10. m <= n
  <2>. DEFINE f == [a \in 1..m |-> CHOOSE c \in 1..n : G[c] = F[a]]
  <2>1. \A a \in 1..m : f[a] \in 1..n /\ G[f[a]] = F[a]
    BY <1>9
  <2>2. m \in Nat /\ n \in Nat /\ (\A a \in 1..m : a \in DOMAIN F)
    BY <1>4, <1>5
  <2>3. \A a, b \in 1..m : f[a] = f[b] => a = b
    <3>. HIDE DEF f
    <3>. QED
      BY <1>3, <2>1, <2>2 DEF IsInjective
  <2>4. f \in Injection(1..m, 1..n)
    BY <2>1, <2>3 DEF Injection, IsInjective
  <2>5. IsFiniteSet(1..n) /\ Cardinality(1..n) = n /\ Cardinality(1..m) = m
    <3>1. n >= 0 /\ m >= 0 /\ 1 \in Int /\ m \in Int /\ n \in Int
      BY <2>2
    <3>2. \A k \in Nat : IsFiniteSet(1..k) /\ Cardinality(1..k) = k
      BY FS_Interval
    <3>. QED
      BY <2>2, <3>2
  <2>6. Cardinality(1..m) <= Cardinality(1..n)
    BY ONLY <2>4, <2>5, FS_Injection
  <2>. QED
    BY <2>5, <2>6
<1>. QED
  BY <1>7, <1>10 DEF F, G

LEMMA JoinedAt ==
    ASSUME NEW s \in Seq(Ids), NEW t \in Seq(Ids)
    PROVE  /\ s \o t \in Seq(Ids) /\ Len(s \o t) = Len(s) + Len(t)
           /\ \A k \in 1..(Len(s) + Len(t)) :
                 (s \o t)[k] = IF k <= Len(s) THEN s[k] ELSE t[k - Len(s)]
OBVIOUS

-----------------------------------------------------------------------------
(* Others create and delete                                                *)

LEMMA Deleted ==
    ASSUME NEW s \in Seq(Ids), IsInjective(s), NEW i
    PROVE  LET t == Filtered(s, Ids \ {i})
           IN  /\ t \in Seq(Ids) /\ IsInjective(t)
               /\ ToSet(t) = ToSet(s) \ {i}
               /\ Embeds(t, s)
<1>. DEFINE t == Filtered(s, Ids \ {i})
<1>1. PICK at : t \in Seq(Ids) /\ Picks(t, s, Ids \ {i}, Len(s), at)
  BY FilteredPicks
<1>2. ToSet(t) = ToSet(s) \cap (Ids \ {i}) /\ IsInjective(t)
  BY FilteredFacts
<1>3. ToSet(s) \subseteq Ids
  BY ListLength
<1>. HIDE DEF t
<1>4. /\ DOMAIN t = 1..Len(t) /\ DOMAIN s = 1..Len(s)
      /\ Len(t) \in Nat /\ Len(s) \in Nat
  BY <1>1
<1>5. ASSUME NEW a \in DOMAIN t, NEW b \in DOMAIN t, a <= b
      PROVE  \E c, d \in DOMAIN s : c <= d /\ s[c] = t[a] /\ s[d] = t[b]
  <2>1. a < b \/ a = b
    BY <1>4, <1>5
  <2>2. at[a] \in 1..Len(s) /\ at[b] \in 1..Len(s) /\ at[a] <= at[b]
    BY <1>1, <1>4, <2>1 DEF Picks
  <2>. QED
    BY <1>1, <1>4, <2>2 DEF Picks
<1>. QED
  BY <1>1, <1>2, <1>3, <1>5 DEF Embeds, t

LEMMA Inserted ==
    ASSUME NEW s \in Seq(Ids), IsInjective(s), NEW i \in Ids, i \notin ToSet(s),
           NEW n \in 1..(Len(s) + 1)
    PROVE  LET t == InsertAt(s, n, i)
           IN  /\ t \in Seq(Ids) /\ IsInjective(t)
               /\ ToSet(t) = ToSet(s) \cup {i}
               /\ Embeds(s, t)
<1>. DEFINE t == InsertAt(s, n, i)
<1>1. /\ Len(s) \in Nat /\ n \in Nat /\ DOMAIN s = 1..Len(s)
      /\ n >= 1 /\ n - 1 <= Len(s)
  OBVIOUS
<1>2. /\ SubSeq(s, 1, n - 1) \in Seq(Ids) /\ Len(SubSeq(s, 1, n - 1)) = n - 1
      /\ \A k \in 1..(n - 1) : SubSeq(s, 1, n - 1)[k] = s[k]
  BY <1>1
<1>3. /\ SubSeq(s, n, Len(s)) \in Seq(Ids)
      /\ Len(SubSeq(s, n, Len(s))) = Len(s) + 1 - n
      /\ \A k \in 1..(Len(s) + 1 - n) : SubSeq(s, n, Len(s))[k] = s[n + k - 1]
  BY <1>1
<1>. DEFINE l == SubSeq(s, 1, n - 1)
            r == SubSeq(s, n, Len(s))
            front == l \o <<i>>
<1>4. t = front \o r
  BY DEF InsertAt
<1>5. /\ l \in Seq(Ids) /\ Len(l) = n - 1 /\ \A k \in 1..(n - 1) : l[k] = s[k]
      /\ r \in Seq(Ids) /\ Len(r) = Len(s) + 1 - n
      /\ \A k \in 1..(Len(s) + 1 - n) : r[k] = s[n + k - 1]
  BY <1>2, <1>3
<1>6. /\ t \in Seq(Ids) /\ Len(t) = Len(s) + 1
      /\ \A k \in 1..(n - 1) : t[k] = s[k]
      /\ t[n] = i
      /\ \A k \in 1..(Len(s) + 1 - n) : t[n + k] = s[n + k - 1]
  <2>. HIDE DEF t, l, r
  <2>1. /\ front \in Seq(Ids) /\ Len(front) = n
        /\ \A k \in 1..(n - 1) : front[k] = l[k]
        /\ front[n] = i
    <3>1. <<i>> \in Seq(Ids) /\ Len(<<i>>) = 1 /\ <<i>>[1] = i
      OBVIOUS
    <3>2. front \in Seq(Ids) /\ Len(front) = Len(l) + Len(<<i>>)
      BY <1>5, <3>1, JoinedAt
    <3>3. \A k \in 1..(Len(l) + Len(<<i>>)) :
             front[k] = IF k <= Len(l) THEN l[k] ELSE <<i>>[k - Len(l)]
      BY <1>5, <3>1, JoinedAt
    <3>. QED
      BY <1>1, <1>5, <3>1, <3>2, <3>3
  <2>. HIDE DEF front
  <2>2. t \in Seq(Ids) /\ Len(t) = Len(front) + Len(r)
    BY <1>4, <1>5, <2>1, JoinedAt
  <2>3. \A k \in 1..(Len(front) + Len(r)) : t[k] = IF k <= Len(front) THEN front[k] ELSE r[k - Len(front)]
    BY <1>4, <1>5, <2>1, JoinedAt
  <2>4. \A k \in 1..(Len(s) + 1 - n) :
           n + k \in 1..(Len(front) + Len(r)) /\ ~(n + k <= Len(front)) /\ n + k - Len(front) = k
    BY <1>1, <1>5, <2>1
  <2>5. \A k \in 1..n : k \in 1..(Len(front) + Len(r)) /\ k <= Len(front)
    BY <1>1, <1>5, <2>1
  <2>6. \A k \in 1..(n - 1) : k \in 1..n
    BY <1>1
  <2>7. n \in 1..n /\ Len(front) + Len(r) = Len(s) + 1
    BY <1>1, <1>5, <2>1
  <2>8. ASSUME NEW k \in 1..(Len(s) + 1 - n) PROVE t[n + k] = s[n + k - 1]
    <3>1. t[n + k] = r[n + k - Len(front)]
      BY <2>3, <2>4
    <3>2. n + k - Len(front) = k
      BY <2>4
    <3>3. t[n + k] = r[k]
      BY <3>1, <3>2, Zenon
    <3>. QED
      BY <1>5, <3>3
  <2>9. \A k \in 1..n : t[k] = front[k]
    BY <2>3, <2>5
  <2>. QED
    BY <1>5, <2>1, <2>2, <2>6, <2>7, <2>8, <2>9
<1>. HIDE DEF t, l, r, front
<1>7. DOMAIN t = 1..(Len(s) + 1)
  BY <1>6
<1>8. \A k \in 1..Len(s) : k < n => t[k] = s[k]
  <2>1. \A k \in 1..Len(s) : k < n => k \in 1..(n - 1)
    BY <1>1
  <2>. QED
    BY <1>6, <2>1
<1>9. \A k \in 1..Len(s) : k >= n => t[k + 1] = s[k]
  <2>1. ASSUME NEW k \in 1..Len(s), k >= n PROVE t[k + 1] = s[k]
    <3>1. k + 1 - n \in 1..(Len(s) + 1 - n) /\ n + (k + 1 - n) = k + 1
          /\ n + (k + 1 - n) - 1 = k
      BY <1>1, <2>1
    <3>2. t[n + (k + 1 - n)] = s[n + (k + 1 - n) - 1]
      BY <1>6, <3>1
    <3>. QED
      BY <3>1, <3>2
  <2>. QED
    BY <2>1
<1>10. t[n] = i /\ n \in DOMAIN t
  BY <1>1, <1>6, <1>7
<1>. DEFINE to(k) == IF k < n THEN k ELSE k + 1
<1>11. \A k \in 1..Len(s) : to(k) \in DOMAIN t /\ t[to(k)] = s[k]
  BY <1>1, <1>7, <1>8, <1>9
<1>12. \A k \in DOMAIN t : k = n \/ \E m \in 1..Len(s) : to(m) = k
  <2>1. ASSUME NEW k \in DOMAIN t, k # n PROVE \E m \in 1..Len(s) : to(m) = k
    <3>1. CASE k < n
      BY <1>1, <1>7, <3>1
    <3>2. CASE k > n
      <4>1. k - 1 \in 1..Len(s) /\ ~(k - 1 < n) /\ (k - 1) + 1 = k
        BY <1>1, <1>7, <3>2
      <4>. QED
        BY <4>1
    <3>. QED
      BY <1>1, <1>7, <2>1, <3>1, <3>2
  <2>. QED
    BY <2>1
<1>13. \A k, m \in 1..Len(s) : k <= m => to(k) <= to(m)
  BY <1>1
<1>. HIDE DEF to
<1>14. Embeds(s, t)
  BY <1>1, <1>11, <1>13 DEF Embeds
<1>15. ToSet(t) = ToSet(s) \cup {i}
  BY <1>1, <1>10, <1>11, <1>12 DEF ToSet
<1>16. IsInjective(t)
  <2>1. SUFFICES ASSUME NEW a \in DOMAIN t, NEW b \in DOMAIN t, t[a] = t[b]
                 PROVE  a = b
    BY DEF IsInjective
  <2>2. \A k \in 1..Len(s) : s[k] # i
    BY <1>1 DEF ToSet
  <2>3. CASE a = n \/ b = n
    BY <1>10, <1>11, <1>12, <2>1, <2>2, <2>3
  <2>4. CASE a # n /\ b # n
    <3>1. PICK c \in 1..Len(s), d \in 1..Len(s) : to(c) = a /\ to(d) = b
      BY <1>12, <2>4
    <3>2. s[c] = s[d]
      BY <1>11, <2>1, <3>1
    <3>. QED
      BY <1>1, <3>1, <3>2 DEF IsInjective
  <2>. QED
    BY <2>3, <2>4
<1>. QED
  BY <1>6, <1>14, <1>15, <1>16 DEF t

-----------------------------------------------------------------------------
(* Pages                                                                   *)

LEMMA PageFacts ==
    ASSUME NEW list \in Seq(Ids), NEW lo \in Nat, NEW hi \in Nat, lo <= hi,
           NEW part,
           part = SubSeq(list, lo + 1, IF hi < Len(list) THEN hi ELSE Len(list))
    PROVE  /\ part \in Seq(Ids)
           /\ \A n \in DOMAIN list : lo < n /\ n <= hi => list[n] \in ToSet(part)
           /\ \A k \in DOMAIN part :
                 /\ lo + k \in DOMAIN list /\ lo + k <= hi
                 /\ part[k] = list[lo + k]
           /\ hi <= Len(list) => Len(part) = hi - lo
<1>. DEFINE top == IF hi < Len(list) THEN hi ELSE Len(list)
<1>1. /\ Len(list) \in Nat /\ DOMAIN list = 1..Len(list) /\ top \in Nat
      /\ top <= Len(list) /\ top <= hi /\ (hi <= Len(list) => top = hi)
      /\ \A n \in DOMAIN list : n <= hi => n <= top
  OBVIOUS
<1>. HIDE DEF top
<1>2. /\ part \in Seq(Ids)
      /\ Len(part) = IF lo + 1 <= top THEN top - lo ELSE 0
      /\ \A k \in 1..(top - lo) : part[k] = list[lo + k]
  <2>1. part = SubSeq(list, lo + 1, top)
    BY DEF top
  <2>. QED
    BY <1>1, <2>1
<1>3. DOMAIN part = 1..Len(part) /\ Len(part) \in Nat
  BY <1>2
<1>4. ASSUME NEW n \in DOMAIN list, lo < n, n <= hi
      PROVE  list[n] \in ToSet(part)
  <2>1. n - lo \in 1..(top - lo) /\ lo + (n - lo) = n /\ n - lo \in DOMAIN part
    BY <1>1, <1>2, <1>3, <1>4
  <2>2. part[n - lo] = list[n]
    BY <1>2, <2>1
  <2>. QED
    BY <2>1, <2>2 DEF ToSet
<1>5. ASSUME NEW k \in DOMAIN part
      PROVE  /\ lo + k \in DOMAIN list /\ lo + k <= hi
             /\ part[k] = list[lo + k]
  <2>1. k \in 1..(top - lo)
    BY <1>1, <1>2, <1>3
  <2>2. /\ k \in Nat \ {0} /\ lo + k \in Nat \ {0}
        /\ lo + k <= top
    BY <1>1, <2>1
  <2>3. lo + k \in 1..Len(list) /\ lo + k <= hi
    BY <1>1, <2>2
  <2>4. part[k] = list[lo + k]
    BY <1>2, <2>1
  <2>. QED
    BY <1>1, <2>3, <2>4
<1>6. ASSUME hi <= Len(list) PROVE Len(part) = hi - lo
  <2>1. top = hi
    BY <1>1, <1>6
  <2>2. Len(part) = IF lo + 1 <= hi THEN hi - lo ELSE 0
    BY <1>2, <2>1
  <2>3. ~(lo + 1 <= hi) => hi - lo = 0
    OBVIOUS
  <2>. QED
    BY ONLY <2>2, <2>3, Zenon
<1>. QED
  BY <1>2, <1>4, <1>5, <1>6

LEMMA Joined ==
    ASSUME NEW s \in Seq(Ids), NEW t \in Seq(Ids)
    PROVE  /\ s \o t \in Seq(Ids)
           /\ ToSet(s \o t) = ToSet(s) \cup ToSet(t)
           /\ IsInjective(s) /\ IsInjective(t) /\ ToSet(s) \cap ToSet(t) = {}
              => IsInjective(s \o t)
<1>. DEFINE u == s \o t
<1>1. /\ u \in Seq(Ids) /\ DOMAIN u = 1..(Len(s) + Len(t))
      /\ Len(s) \in Nat /\ Len(t) \in Nat
      /\ DOMAIN s = 1..Len(s) /\ DOMAIN t = 1..Len(t)
      /\ \A k \in DOMAIN u : u[k] = IF k <= Len(s) THEN s[k] ELSE t[k - Len(s)]
  OBVIOUS
<1>2. \A k \in DOMAIN s : k \in DOMAIN u /\ u[k] = s[k]
  BY <1>1
<1>3. \A k \in DOMAIN t : Len(s) + k \in DOMAIN u /\ u[Len(s) + k] = t[k]
  <2>1. ASSUME NEW k \in DOMAIN t
        PROVE  Len(s) + k \in DOMAIN u /\ u[Len(s) + k] = t[k]
    <3>1. Len(s) + k \in DOMAIN u /\ ~(Len(s) + k <= Len(s)) /\ Len(s) + k - Len(s) = k
      BY <1>1
    <3>. QED
      BY <1>1, <3>1
  <2>. QED
    BY <2>1
<1>. HIDE DEF u
<1>4. \A k \in DOMAIN u :
         \/ k \in DOMAIN s /\ u[k] = s[k]
         \/ k - Len(s) \in DOMAIN t /\ u[k] = t[k - Len(s)]
  BY <1>1
<1>5. ToSet(u) = ToSet(s) \cup ToSet(t)
  BY <1>2, <1>3, <1>4 DEF ToSet
<1>6. ASSUME IsInjective(s), IsInjective(t), ToSet(s) \cap ToSet(t) = {},
             NEW a \in DOMAIN u, NEW b \in DOMAIN u, u[a] = u[b]
      PROVE  a = b
  <2>1. CASE a \in DOMAIN s /\ u[a] = s[a] /\ b \in DOMAIN s /\ u[b] = s[b]
    BY <1>6, <2>1 DEF IsInjective
  <2>2. CASE /\ a - Len(s) \in DOMAIN t /\ u[a] = t[a - Len(s)]
             /\ b - Len(s) \in DOMAIN t /\ u[b] = t[b - Len(s)]
    <3>1. a - Len(s) = b - Len(s)
      BY <1>6, <2>2 DEF IsInjective
    <3>. QED
      BY <1>1, <3>1
  <2>3. ASSUME NEW c \in DOMAIN s, NEW d \in DOMAIN t PROVE s[c] # t[d]
    BY <1>6 DEF ToSet
  <2>. QED
    BY <1>4, <1>6, <2>1, <2>2, <2>3
<1>. QED
  BY <1>1, <1>5, <1>6 DEF u, IsInjective

-----------------------------------------------------------------------------
(* The invariant                                                           *)

TypeOK ==
    /\ src \in Sources /\ kind \in [Ids -> Kinds]
    /\ world \in Seq(Ids) /\ IsInjective(world) /\ stayed \subseteq ToSet(world)
    /\ pc \in {"ask", "details", "done"} /\ page \in Nat
    /\ got \in Seq(Ids) /\ chosen \in Seq(Ids) /\ result \in Seq(Ids \cup {None})
    /\ {inserted, deleted, hidden} \subseteq BOOLEAN

\* While pages are asked for, what stayed is on a page that was read or on one
\* that is still to come, and nothing is on both.
AskKnows ==
    pc = "ask" =>
        /\ outcome = "none yet" /\ result = <<>>
        /\ src.by \in ByList =>
              /\ \A i \in ToSet(got) : Asks(i)
              /\ src.paging = "whole" => page = 0 /\ got = <<>>
              /\ ~deleted \/ src.paging = "whole" =>
                    \A i \in stayed :
                        Asks(i) => \/ i \in ToSet(got)
                                   \/ \E n \in DOMAIN Matching :
                                         n > page * PageSize /\ Matching[n] = i
              /\ ~inserted =>
                    \A n \in DOMAIN Matching :
                        n > page * PageSize => Matching[n] \notin ToSet(got)
        /\ ~inserted \/ src.by \notin ByList => IsInjective(got)

IsWanted(i) ==
    /\ src.name \in ByName /\ src.by # "id" => Exact(i)
    /\ src.by = "id" => i \in Asked
    /\ src.others \in {"skip", "refuse"} => ~kind[i].other

IsOnly(i) ==
    src.by \in ByList /\ src.name \notin FirstWins \union FirstPage
    /\ (src.paging # "whole" => ~deleted) =>
        \A j \in stayed \ {i} :
            ~(Fits(j) /\ (src.several = "only exact" => Exact(j)))

IsDue(i) ==
    /\ Fits(i)
    /\ src.odd \in {"skip", "hole"} => ~kind[i].odd
    /\ src.details => Exact(i)

\* While what was chosen is read once more, it is the one that is meant, or
\* what is due is in the result or still to be read, and not in both.
DetailsKnow ==
    pc = "details" =>
        /\ outcome = "none yet" /\ src.by \in ByList /\ src.details
        /\ src.several # "list" =>
              /\ result = <<>>
              /\ \E i \in Ids : chosen = <<i>> /\ IsWanted(i) /\ IsOnly(i)
        /\ src.several = "list" =>
              /\ result \in Seq(Ids)
              /\ ~deleted /\ ~hidden /\ src.name \notin FirstPage =>
                    \A i \in stayed :
                        IsDue(i) => i \in ToSet(result) \cup ToSet(chosen)
              /\ ~inserted =>
                    /\ IsInjective(result) /\ IsInjective(chosen)
                    /\ ToSet(result) \cap ToSet(chosen) = {}

IInv ==
    /\ TypeOK /\ AskKnows /\ DetailsKnow
    /\ pc = "done" => FoundIsTheOne /\ NothingIsMissed

-----------------------------------------------------------------------------
(* One page                                                                *)

AskedFor == {i \in Ids : Asks(i)}

LEMMA MatchingFacts ==
    ASSUME TypeOK
    PROVE  /\ Matching \in Seq(Ids) /\ IsInjective(Matching)
           /\ ToSet(Matching) = ToSet(world) \cap AskedFor
           /\ Len(Matching) \in Nat /\ DOMAIN Matching = 1..Len(Matching)
           /\ stayed \subseteq Ids
<1>1. Matching = Filtered(world, AskedFor)
  BY DEF Matching, AskedFor
<1>2. world \in Seq(Ids) /\ IsInjective(world) /\ stayed \subseteq ToSet(world)
  BY DEF TypeOK
<1>3. ToSet(world) \subseteq Ids
  BY <1>2, ListLength
<1>4. /\ Matching \in Seq(Ids) /\ IsInjective(Matching)
      /\ ToSet(Matching) = ToSet(world) \cap AskedFor
  BY <1>1, <1>2, FilteredFacts
<1>. QED
  BY <1>2, <1>3, <1>4, ListLength

\* What the loop has when page p is read too.
LEMMA PageRead ==
    ASSUME TypeOK, AskKnows, pc = "ask", src.by \in ByList
    PROVE  LET list == got \o Answer(page)
           IN  /\ list \in Seq(Ids)
               /\ \A i \in ToSet(list) : Asks(i)
               /\ ~inserted => IsInjective(list)
               /\ src.paging = "whole" =>
                     \A i \in stayed : Asks(i) => i \in ToSet(list)
               /\ src.paging # "whole" =>
                     /\ ~deleted =>
                           \A i \in stayed :
                              Asks(i) => \/ i \in ToSet(list)
                                         \/ \E n \in DOMAIN Matching :
                                               n > (page + 1) * PageSize /\ Matching[n] = i
                     /\ ~inserted =>
                           \A n \in DOMAIN Matching :
                              n > (page + 1) * PageSize => Matching[n] \notin ToSet(list)
<1>. DEFINE A == Answer(page)
            list == got \o A
            lo == page * PageSize
            hi == (page + 1) * PageSize
<1>1. /\ page \in Nat /\ got \in Seq(Ids)
      /\ lo \in Nat /\ hi \in Nat /\ hi = lo + PageSize /\ PageSize \in Nat
  BY PageSizeAssumption DEF TypeOK
<1>. HIDE DEF lo, hi
<1>2. /\ Matching \in Seq(Ids) /\ IsInjective(Matching)
      /\ ToSet(Matching) = ToSet(world) \cap AskedFor
      /\ Len(Matching) \in Nat /\ DOMAIN Matching = 1..Len(Matching)
      /\ stayed \subseteq Ids /\ stayed \subseteq ToSet(world)
  BY MatchingFacts DEF TypeOK
<1>3. ToSet(Matching) \subseteq AskedFor
  BY <1>2
<1>4. CASE src.paging = "whole"
  <2>1. A = Matching /\ got = <<>>
    BY <1>4 DEF AskKnows, Answer
  <2>2. list = Matching
    BY <1>2, <2>1
  <2>3. \A i \in stayed : Asks(i) => i \in ToSet(list)
    BY <1>2, <2>2 DEF AskedFor
  <2>4. \A i \in ToSet(list) : Asks(i)
    BY <1>3, <2>2 DEF AskedFor
  <2>. QED
    BY <1>2, <1>4, <2>2, <2>3, <2>4
<1>5. CASE src.paging # "whole"
  <2>1. A = SubSeq(Matching, lo + 1, IF hi < Len(Matching) THEN hi ELSE Len(Matching))
    BY <1>5 DEF Answer, Page, lo, hi
  <2>2. lo <= hi
    BY <1>1
  <2>3. /\ A \in Seq(Ids)
        /\ \A n \in DOMAIN Matching : lo < n /\ n <= hi => Matching[n] \in ToSet(A)
        /\ \A k \in DOMAIN A :
              /\ lo + k \in DOMAIN Matching /\ lo + k <= hi
              /\ A[k] = Matching[lo + k]
    BY ONLY <1>1, <1>2, <2>1, <2>2, PageFacts
  <2>. HIDE DEF A
  <2>4. \A k \in DOMAIN A : k \in Nat /\ k >= 1
    BY <2>3
  <2>5. list \in Seq(Ids) /\ ToSet(list) = ToSet(got) \cup ToSet(A)
    BY <1>1, <2>3, Joined
  <2>6. ASSUME NEW i \in ToSet(A)
        PROVE  \E n \in DOMAIN Matching : lo < n /\ n <= hi /\ Matching[n] = i
    <3>1. PICK k \in DOMAIN A : A[k] = i
      BY <2>6 DEF ToSet
    <3>2. lo < lo + k
      BY <1>1, <2>4
    <3>. QED
      BY <2>3, <3>1, <3>2
  <2>7. \A i \in ToSet(list) : Asks(i)
    <3>1. ToSet(A) \subseteq ToSet(Matching)
      BY <2>6 DEF ToSet
    <3>. QED
      BY <1>3, <2>5, <3>1 DEF AskKnows, AskedFor
  <2>8. ASSUME ~inserted PROVE IsInjective(list)
    <3>1. IsInjective(A)
      <4>1. SUFFICES ASSUME NEW j \in DOMAIN A, NEW k \in DOMAIN A, A[j] = A[k]
                     PROVE  j = k
        BY DEF IsInjective
      <4>2. lo + j = lo + k
        BY <1>2, <2>3, <4>1 DEF IsInjective
      <4>. QED
        BY <1>1, <2>4, <4>2
    <3>2. ToSet(got) \cap ToSet(A) = {}
      BY <1>2, <2>6, <2>8 DEF AskKnows, lo
    <3>3. IsInjective(got)
      BY <2>8 DEF AskKnows
    <3>. QED
      BY <1>1, <2>3, <3>1, <3>2, <3>3, Joined
  <2>9. ASSUME ~deleted, NEW i \in stayed, Asks(i), i \notin ToSet(list)
        PROVE  \E n \in DOMAIN Matching : n > hi /\ Matching[n] = i
    <3>1. PICK n \in DOMAIN Matching : n > lo /\ Matching[n] = i
      BY <2>5, <2>9 DEF AskKnows, lo
    <3>2. ~(n <= hi)
      BY <1>1, <1>2, <2>3, <2>5, <2>9, <3>1
    <3>. QED
      BY <1>1, <1>2, <3>1, <3>2
  <2>10. ASSUME ~inserted, NEW n \in DOMAIN Matching, n > hi
         PROVE  Matching[n] \notin ToSet(list)
    <3>1. n > lo
      BY <1>1, <1>2, <2>10
    <3>2. Matching[n] \notin ToSet(got)
      BY <2>10, <3>1 DEF AskKnows, lo
    <3>3. Matching[n] \notin ToSet(A)
      <4>1. SUFFICES ASSUME Matching[n] \in ToSet(A) PROVE FALSE
        OBVIOUS
      <4>2. PICK m \in DOMAIN Matching : m <= hi /\ Matching[m] = Matching[n]
        BY <2>6, <4>1
      <4>3. m = n
        BY <1>2, <4>2 DEF IsInjective
      <4>. QED
        BY <1>1, <1>2, <2>10, <4>2, <4>3
    <3>. QED
      BY <2>5, <3>2, <3>3
  <2>. QED
    BY <1>5, <2>5, <2>7, <2>8, <2>9, <2>10 DEF hi, A
<1>. QED
  BY <1>4, <1>5

\* When no loop wants another page, no object is on one.
LEMMA LastPage ==
    ASSUME TypeOK, pc = "ask", Careful(src), src.name \notin FirstPage, ~More(page),
           src.paging # "whole"
    PROVE  \A n \in DOMAIN Matching : ~(n > (page + 1) * PageSize)
<1>. DEFINE lo == page * PageSize
            hi == (page + 1) * PageSize
            L == Len(Matching)
<1>1. /\ page \in Nat /\ PageSize \in Nat /\ PageSize >= 1
      /\ lo \in Nat /\ hi \in Nat /\ hi = lo + PageSize /\ hi = PageSize * (page + 1)
  BY PageSizeAssumption DEF TypeOK
<1>2. L \in Nat /\ DOMAIN Matching = 1..L /\ Matching \in Seq(Ids)
  BY MatchingFacts
<1>3. src.paging \in {"short", "total", "past", "last"}
  BY DEF Careful
<1>4. (L - 1) \div PageSize > page <=> L - 1 >= hi
  <2>. DEFINE q == (L - 1) \div PageSize
  <2>1. q \in Int /\ q * PageSize <= L - 1 /\ L - 1 < (q + 1) * PageSize
    BY <1>1, <1>2
  <2>. HIDE DEF q, L
  <2>2. q > page => q * PageSize >= hi
    BY <1>1, <2>1
  <2>3. ~(q > page) => (q + 1) * PageSize <= hi
    BY <1>1, <2>1
  <2>. QED
    BY <1>1, <1>2, <2>1, <2>2, <2>3 DEF q
<1>5. SUFFICES ASSUME L > hi PROVE FALSE
  BY <1>1, <1>2
<1>6. MoreByTotal(page)
  BY <1>1, <1>2, <1>5 DEF MoreByTotal
<1>7. MoreByPast(page)
  BY <1>1, <1>2, <1>5 DEF MoreByPast
<1>8. MoreByShort(page)
  <2>. DEFINE A == Answer(page)
  <2>1. A = SubSeq(Matching, lo + 1, IF hi < L THEN hi ELSE L)
    BY DEF Answer, Page
  <2>. HIDE DEF lo, hi, A
  <2>3. lo <= hi /\ hi <= L
    BY <1>1, <1>2, <1>5
  <2>2. Len(A) = hi - lo
    BY ONLY <1>1, <1>2, <2>1, <2>3, PageFacts
  <2>. QED
    BY <1>1, <2>2 DEF MoreByShort, A
<1>9. MoreByLast(page)
  BY <1>1, <1>2, <1>4, <1>5, <1>8 DEF MoreByLast
<1>. QED
  BY <1>3, <1>6, <1>7, <1>8, <1>9 DEF More

-----------------------------------------------------------------------------
(* How a read ends                                                         *)

\* A read that does not end but fails says nothing wrong.
NothingWas ==
    ~deleted /\ src.by \notin {"id", "quoted"} /\ src.name \notin FirstPage =>
        \A i \in stayed : ~(Exact(i) /\ Fits(i) /\ ~kind[i].odd)

LEMMA FailsWell ==
    ASSUME TypeOK, Idle, UNCHANGED hidden, page' \in Nat, got' \in Seq(Ids),
           NEW how \in {"error", "several", "none", "forgotten"}, Fails(how),
           how = "none" => NothingWas
    PROVE  IInv'
<1>1. /\ pc' = "done" /\ outcome' = how /\ result' = <<>> /\ chosen' = <<>>
      /\ UNCHANGED <<src, kind, world, stayed, inserted, deleted, hidden>>
  BY DEF Fails, Ends, Idle, people
<1>2. TypeOK'
  BY <1>1 DEF TypeOK
<1>3. FoundIsTheOne' /\ ListsWhatStayed'
  BY <1>1 DEF FoundIsTheOne, FoundIsWanted, FoundIsOnly, ListsWhatStayed
<1>4. NoneMeansNone'
  BY <1>1 DEF NoneMeansNone, NothingWas, Exact, Fits, Asks, Meant
<1>5. NoRepeats'
  BY <1>1 DEF NoRepeats
<1>. QED
  BY <1>1, <1>2, <1>3, <1>4, <1>5 DEF IInv, AskKnows, DetailsKnow, NothingIsMissed

LEMMA FoundWell ==
    ASSUME TypeOK, Idle, UNCHANGED hidden, page' \in Nat, got' \in Seq(Ids),
           NEW i \in Ids, Ends("found", <<i>>), IsWanted(i), IsOnly(i)
    PROVE  IInv'
<1>1. /\ pc' = "done" /\ outcome' = "found" /\ result' = <<i>> /\ chosen' = <<>>
      /\ UNCHANGED <<src, kind, world, stayed, inserted, deleted, hidden>>
  BY DEF Ends, Idle, people
<1>2. result' \in Seq(Ids \cup {None}) /\ result'[1] = i /\ DOMAIN result' = 1..1
  BY <1>1
<1>3. TypeOK'
  BY <1>1, <1>2 DEF TypeOK
<1>4. FoundIsWanted'
  BY <1>1, <1>2 DEF FoundIsWanted, IsWanted, Exact
<1>5. FoundIsOnly'
  BY <1>1, <1>2 DEF FoundIsOnly, IsOnly, ByList, Fits, Asks, Meant, Exact
<1>6. NothingIsMissed'
  BY <1>1, <1>2 DEF NothingIsMissed, ListsWhatStayed, NoneMeansNone, NoRepeats
<1>. QED
  BY <1>1, <1>3, <1>4, <1>5, <1>6 DEF IInv, AskKnows, DetailsKnow, FoundIsTheOne

\* The object that was chosen is taken, refused, or read once more.
LEMMA TakesWell ==
    ASSUME TypeOK, Idle, UNCHANGED hidden, page' \in Nat, got' \in Seq(Ids),
           outcome = "none yet", result = <<>>,
           NEW i \in Ids, Takes(i),
           (src.others = "refuse" /\ kind[i].other) \/ IsWanted(i), IsOnly(i),
           src.details => src.by \in ByList /\ src.several # "list"
    PROVE  IInv'
<1>1. CASE \/ src.odd = "error" /\ kind[i].odd
           \/ src.others = "refuse" /\ kind[i].other
  BY <1>1, FailsWell DEF Takes
<1>2. CASE ~(\/ src.odd = "error" /\ kind[i].odd
             \/ src.others = "refuse" /\ kind[i].other)
  <2>1. IsWanted(i)
    BY <1>2
  <2>2. CASE src.details
    <3>1. /\ pc' = "details" /\ chosen' = <<i>>
          /\ UNCHANGED <<outcome, result, src, kind, world, stayed, inserted,
                         deleted, hidden>>
      BY <1>2, <2>2 DEF Takes, Idle, people
    <3>2. <<i>> \in Seq(Ids)
      <4>1. i \in Ids
        OBVIOUS
      <4>. QED
        BY ONLY <4>1
    <3>3. TypeOK'
      BY <3>1, <3>2 DEF TypeOK
    <3>4. IsWanted(i)' /\ IsOnly(i)'
      BY <2>1, <3>1 DEF IsWanted, IsOnly, Exact, Fits, Asks, Meant, ByList
    <3>5. DetailsKnow'
      BY <2>2, <3>1, <3>4 DEF DetailsKnow, ByList
    <3>6. AskKnows'
      BY <3>1 DEF AskKnows
    <3>. QED
      BY <3>1, <3>3, <3>5, <3>6 DEF IInv
  <2>3. CASE ~src.details
    BY <1>2, <2>1, <2>3, FoundWell DEF Takes
  <2>. QED
    BY <2>2, <2>3
<1>. QED
  BY <1>1, <1>2

\* A list with everything that is due is answered with.
LEMMA ListedWell ==
    ASSUME TypeOK, Idle, UNCHANGED hidden, page' \in Nat, got' \in Seq(Ids),
           NEW answer \in Seq(Ids \cup {None}), Ends("listed", answer),
           ~deleted /\ ~hidden /\ src.name \notin FirstPage =>
              \A i \in stayed : IsDue(i) => i \in ToSet(answer),
           ~inserted => \A m, n \in DOMAIN answer :
                           answer[m] = answer[n] /\ answer[m] # None => m = n
    PROVE  IInv'
<1>1. /\ pc' = "done" /\ outcome' = "listed" /\ result' = answer /\ chosen' = <<>>
      /\ UNCHANGED <<src, kind, world, stayed, inserted, deleted, hidden>>
  BY DEF Ends, Idle, people
<1>2. TypeOK'
  BY <1>1 DEF TypeOK
<1>3. ListsWhatStayed'
  BY <1>1 DEF ListsWhatStayed, IsDue, Fits, Asks, Meant, Exact
<1>4. FoundIsTheOne' /\ NoneMeansNone' /\ NoRepeats'
  BY <1>1 DEF FoundIsTheOne, FoundIsWanted, FoundIsOnly, NoneMeansNone, NoRepeats
<1>. QED
  BY <1>1, <1>2, <1>3, <1>4 DEF IInv, AskKnows, DetailsKnow, NothingIsMissed

LEMMA KeptFacts ==
    ASSUME NEW list \in Seq(Ids)
    PROVE  /\ Kept(list) \in Seq(Ids)
           /\ \A i : i \in ToSet(Kept(list)) <=>
                 /\ i \in ToSet(list) /\ Meant(i)
                 /\ src.odd = "skip" => ~kind[i].odd
           /\ IsInjective(list) => IsInjective(Kept(list))
<1>. DEFINE S == {i \in Ids : Meant(i) /\ (src.odd = "skip" => ~kind[i].odd)}
<1>1. Kept(list) = Filtered(list, S)
  BY DEF Kept
<1>2. ToSet(list) \subseteq Ids
  BY ListLength
<1>. QED
  BY <1>1, <1>2, FilteredFacts

LEMMA ChoiceFacts ==
    ASSUME Careful(src), src.several # "list", NEW k \in Seq(Ids)
    PROVE  /\ Choice(k) \subseteq ToSet(k)
           /\ src.several = "error" => \A i \in Choice(k) : ToSet(k) = {i}
           /\ src.several = "only exact" =>
                 \A i \in Choice(k) :
                    Exact(i) /\ \A j \in ToSet(k) : Exact(j) => j = i
           /\ src.several = "first" /\ k # <<>> => Choice(k) # {}
           /\ /\ Choice(k) = {}
              /\ ~(/\ Len(k) > 1
                   /\ src.several = "only exact" => \E i \in ToSet(k) : Exact(i))
              => \A j \in ToSet(k) : ~Exact(j)
<1>. DEFINE e == Filtered(k, {i \in Ids : Exact(i)})
<1>1. e \in Seq(Ids) /\ ToSet(e) = ToSet(k) \cap {i \in Ids : Exact(i)}
  BY FilteredFacts
<1>. HIDE DEF e
<1>2. \A s \in {k, e} :
         /\ Len(s) \in Nat
         /\ s = <<>> <=> ToSet(s) = {}
         /\ s # <<>> => s[1] \in ToSet(s)
         /\ Len(s) = 1 => ToSet(s) = {s[1]}
         /\ s = <<>> => Len(s) = 0
         /\ Len(s) = 0 => s = <<>>
         /\ ToSet(s) \subseteq Ids
  BY <1>1, ListLength
<1>7. \A s \in {k, e} : Len(s) = 0 \/ Len(s) = 1 \/ Len(s) > 1
  <2>1. \A l \in Nat : l = 0 \/ l = 1 \/ l > 1
    OBVIOUS
  <2>2. Len(k) \in Nat /\ Len(e) \in Nat
    BY <1>2
  <2>. QED
    BY ONLY <2>1, <2>2, Zenon
<1>3. CASE src.several = "error"
  <2>1. Choice(k) = OnlyOne(k)
    BY <1>3 DEF Choice
  <2>2. CASE Len(k) = 1
    BY <1>2, <1>3, <2>1, <2>2 DEF OnlyOne
  <2>3. CASE Len(k) # 1
    <3>1. Choice(k) = {}
      BY <2>1, <2>3 DEF OnlyOne
    <3>2. Len(k) = 0 => ToSet(k) = {}
      BY <1>2
    <3>3. Len(k) = 0 \/ Len(k) > 1
      BY <1>7, <2>3
    <3>. QED
      BY <1>3, <3>1, <3>2, <3>3
  <2>. QED
    BY <2>2, <2>3
<1>4. CASE src.several = "first"
  <2>1. Choice(k) = FirstOf(k)
    BY <1>4 DEF Choice
  <2>. QED
    BY <1>2, <1>4, <2>1 DEF FirstOf
<1>5. CASE src.several = "only exact"
  <2>1. Choice(k) = OnlyOne(e)
    BY <1>5 DEF Choice, e
  <2>2. \A j \in ToSet(k) : Exact(j) <=> j \in ToSet(e)
    BY <1>1, <1>2
  <2>3. CASE Len(e) = 1
    <3>1. Choice(k) = {e[1]} /\ ToSet(e) = {e[1]}
      BY <1>2, <2>1, <2>3 DEF OnlyOne
    <3>2. e[1] \in ToSet(k) /\ Exact(e[1])
      BY <1>1, <3>1
    <3>. QED
      BY <1>5, <2>2, <3>1, <3>2
  <2>4. CASE Len(e) # 1
    <3>1. Choice(k) = {}
      BY <2>1, <2>4 DEF OnlyOne
    <3>2. (\E i \in ToSet(k) : Exact(i)) => Len(k) > 1
      <4>1. SUFFICES ASSUME NEW i \in ToSet(k), Exact(i), ~(Len(k) > 1)
                     PROVE  FALSE
        OBVIOUS
      <4>2. Len(k) # 0
        BY <1>2, <4>1
      <4>3. Len(k) = 1
        BY <1>7, <4>1, <4>2
      <4>4. ToSet(k) = {i} /\ IsInjective(k)
        <5>1. DOMAIN k = 1..1
          BY <4>3
        <5>. QED
          BY <1>2, <4>1, <4>3, <5>1 DEF IsInjective
      <4>5. ToSet(e) = {i} /\ IsInjective(e)
        BY <1>1, <1>2, <2>2, <4>1, <4>4, FilteredFacts DEF e
      <4>6. Len(e) > 1
        BY <1>2, <1>7, <2>4, <4>5
      <4>7. 1 \in DOMAIN e /\ 2 \in DOMAIN e
        BY <1>1, <4>6
      <4>8. e[1] = i /\ e[2] = i
        BY <4>5, <4>7 DEF ToSet
      <4>. QED
        BY <4>5, <4>7, <4>8 DEF IsInjective
    <3>. QED
      BY <1>5, <3>1, <3>2
  <2>. QED
    BY <2>3, <2>4
<1>6. CASE src.several = "first exact"
  <2>1. Choice(k) = IF Len(k) = 1 THEN {k[1]} ELSE FirstOf(e)
    BY <1>6 DEF Choice, e
  <2>. QED
    BY <1>1, <1>2, <1>6, <2>1 DEF FirstOf
<1>. QED
  BY <1>3, <1>4, <1>5, <1>6 DEF Careful

-----------------------------------------------------------------------------
(* What follows the last page                                              *)

Complete(list) ==
    src.name \notin FirstPage /\ (src.paging # "whole" => ~deleted) =>
        \A i \in stayed : Asks(i) => i \in ToSet(list)

\* The list is complete, or the loop has stopped at the first that it keeps.
LEMMA ConcludesWell ==
    ASSUME TypeOK, Careful(src), src.by \in ByList,
           outcome = "none yet", result = <<>>,
           Idle, UNCHANGED hidden, page' \in Nat, got' \in Seq(Ids),
           NEW list \in Seq(Ids), \A i \in ToSet(list) : Asks(i),
           ~inserted => IsInjective(list),
           Complete(list) \/ (src.several = "first" /\ Kept(list) # <<>>),
           Concludes(list)
    PROVE  IInv'
<1>. DEFINE k == Kept(list)
<1>1. /\ k \in Seq(Ids) /\ ToSet(k) \subseteq Ids
      /\ k = <<>> <=> ToSet(k) = {}
      /\ \A i : i \in ToSet(k) <=>
            /\ i \in ToSet(list) /\ Meant(i)
            /\ src.odd = "skip" => ~kind[i].odd
      /\ ~inserted => IsInjective(k)
  <2>1. k \in Seq(Ids)
    BY KeptFacts
  <2>2. ToSet(k) \subseteq Ids /\ (k = <<>> <=> ToSet(k) = {})
    BY <2>1, ListLength
  <2>. QED
    BY <2>1, <2>2, KeptFacts
<1>2. /\ UNCHANGED <<src, kind, world, stayed, inserted, deleted, hidden>>
      /\ src.by \notin {"id", "ids", "quoted"}
  BY DEF Idle, people, ByList
<1>3. ASSUME Complete(list), src.name \notin FirstPage,
             src.paging # "whole" => ~deleted, NEW i \in stayed, Fits(i),
             src.odd = "skip" => ~kind[i].odd
      PROVE  i \in ToSet(k)
  BY <1>1, <1>3 DEF Complete, Fits
<1>4. CASE src.several = "list"
  <2>1. Complete(list)
    BY <1>4
  <2>2. ASSUME ~deleted, src.name \notin FirstPage, NEW i \in stayed, IsDue(i)
        PROVE  i \in ToSet(k)
    BY <1>3, <2>1, <2>2 DEF IsDue
  <2>3. CASE Refused(list, k)
    <3>1. Fails("none")
      BY <1>4, <2>3 DEF Concludes
    <3>2. ToSet(k) = {}
      <4>1. list = <<>> => ToSet(list) = {}
        BY ListLength
      <4>. QED
        BY <1>1, <2>3, <4>1 DEF Refused
    <3>3. NothingWas
      BY <1>1, <1>3, <2>1, <3>2 DEF NothingWas
    <3>. QED
      BY <3>1, <3>3, FailsWell
  <2>4. CASE ~Refused(list, k) /\ src.details
    <3>1. pc' = "details" /\ chosen' = k /\ outcome' = outcome /\ result' = result
      BY <1>4, <2>4 DEF Concludes
    <3>2. TypeOK'
      BY <1>1, <1>2, <3>1 DEF TypeOK
    <3>3. result' = <<>> /\ result' \in Seq(Ids) /\ ToSet(result') = {}
          /\ IsInjective(result')
      <4>1. result' = <<>>
        BY <3>1
      <4>. QED
        BY <4>1, EmptyList, Zenon
    <3>4. \A i \in Ids : IsDue(i)' <=> IsDue(i)
      BY <1>2 DEF IsDue, Fits, Asks, Meant, Exact
    <3>5. stayed \subseteq Ids
      BY MatchingFacts
    <3>6. DetailsKnow'
      BY <1>1, <1>2, <1>4, <2>2, <2>4, <3>1, <3>3, <3>4, <3>5 DEF DetailsKnow
    <3>. QED
      BY <3>1, <3>2, <3>6 DEF IInv, AskKnows
  <2>5. CASE ~Refused(list, k) /\ ~src.details
    <3>. DEFINE h == Holes(k)
    <3>1. Ends("listed", h)
      BY <1>4, <2>5 DEF Concludes
    <3>2. DOMAIN k = 1..Len(k) /\ Len(k) \in Nat /\ \A n \in DOMAIN k : k[n] \in Ids
      <4>1. k \in Seq(Ids)
        BY <1>1
      <4>. HIDE DEF k
      <4>. QED
        BY ONLY <4>1
    <3>3. /\ DOMAIN h = DOMAIN k
          /\ \A n \in DOMAIN k : h[n] = IF src.odd = "hole" /\ kind[k[n]].odd
                                        THEN None ELSE k[n]
      BY DEF Holes
    <3>4. h \in Seq(Ids \cup {None})
      <4>1. h = [n \in 1..Len(k) |-> IF src.odd = "hole" /\ kind[k[n]].odd
                                     THEN None ELSE k[n]]
        BY <3>2 DEF Holes
      <4>. HIDE DEF h, k
      <4>2. h \in [1..Len(k) -> Ids \cup {None}]
        BY <3>2, <4>1
      <4>. QED
        BY ONLY <3>2, <4>2
    <3>. HIDE DEF h
    <3>5. ASSUME ~deleted /\ ~hidden /\ src.name \notin FirstPage,
                 NEW i \in stayed, IsDue(i)
          PROVE  i \in ToSet(h)
      <4>1. PICK n \in DOMAIN k : k[n] = i
        BY <2>2, <3>5 DEF ToSet
      <4>2. h[n] = i
        BY <3>3, <3>5, <4>1 DEF IsDue
      <4>. QED
        BY <3>3, <4>1, <4>2 DEF ToSet
    <3>6. ASSUME ~inserted, NEW m \in DOMAIN h, NEW n \in DOMAIN h,
                 h[m] = h[n], h[m] # None
          PROVE  m = n
      BY <1>1, <3>3, <3>6 DEF IsInjective
    <3>. QED
      BY <3>1, <3>4, <3>5, <3>6, ListedWell
  <2>. QED
    BY <2>3, <2>4, <2>5
<1>5. CASE src.several # "list"
  <2>. HIDE DEF k
  <2>1. /\ Choice(k) \subseteq ToSet(k)
        /\ src.several = "error" => \A i \in Choice(k) : ToSet(k) = {i}
        /\ src.several = "only exact" =>
              \A i \in Choice(k) :
                 Exact(i) /\ \A j \in ToSet(k) : Exact(j) => j = i
        /\ src.several = "first" /\ k # <<>> => Choice(k) # {}
        /\ /\ Choice(k) = {}
           /\ ~(/\ Len(k) > 1
                /\ src.several = "only exact" => \E i \in ToSet(k) : Exact(i))
           => \A j \in ToSet(k) : ~Exact(j)
    BY <1>1, <1>5, ChoiceFacts
  <2>2. CASE Choice(k) # {}
    <3>1. PICK i \in Choice(k) : Takes(i)
      BY <1>5, <2>2 DEF Concludes, k
    <3>2. i \in Ids /\ i \in ToSet(k) /\ Asks(i) /\ Meant(i)
      BY <1>1, <2>1, <3>1
    <3>3. (src.others = "refuse" /\ kind[i].other) \/ IsWanted(i)
      <4>1. ASSUME src.name \in ByName PROVE Exact(i)
        <5>1. CASE src.by = "exact"
          BY <3>2, <5>1 DEF Asks, Exact
        <5>2. CASE src.keeps = "exact"
          BY <3>2, <5>2 DEF Meant
        <5>3. CASE src.several = "only exact"
          BY <2>1, <3>1, <5>3
        <5>. QED
          BY <1>2, <4>1, <5>1, <5>2, <5>3 DEF Careful
      <4>. QED
        BY <1>2, <3>2, <4>1 DEF IsWanted, Meant
    <3>4. IsOnly(i)
      <4>1. SUFFICES ASSUME src.name \notin FirstWins \cup FirstPage,
                            src.paging # "whole" => ~deleted,
                            NEW j \in stayed \ {i}, Fits(j),
                            src.several = "only exact" => Exact(j)
                     PROVE  FALSE
        BY DEF IsOnly
      <4>2. src.several \in {"error", "only exact"} /\ src.odd # "skip"
        BY <1>5, <4>1 DEF Careful
      <4>3. j \in ToSet(k)
        BY <1>3, <4>1, <4>2 DEF k
      <4>. QED
        BY <2>1, <3>1, <4>1, <4>2, <4>3
    <3>. QED
      BY <1>5, <3>1, <3>2, <3>3, <3>4, TakesWell
  <2>3. CASE Choice(k) = {}
    <3>. DEFINE unclear == /\ Len(k) > 1
                           /\ src.several = "only exact" => \E i \in ToSet(k) : Exact(i)
    <3>1. Fails(IF unclear THEN "several" ELSE "none")
      BY <1>5, <2>3 DEF Concludes, k
    <3>2. CASE unclear
      BY <3>1, <3>2, FailsWell
    <3>3. CASE ~unclear
      <4>1. Fails("none")
        BY <3>1, <3>3
      <4>2. Complete(list)
        BY <2>1, <2>3 DEF k
      <4>3. \A j \in ToSet(k) : ~Exact(j)
        BY <2>1, <2>3, <3>3
      <4>4. NothingWas
        BY <1>3, <4>2, <4>3 DEF NothingWas, k
      <4>. QED
        BY <4>1, <4>4, FailsWell
    <3>. QED
      BY <3>2, <3>3
  <2>. QED
    BY <2>2, <2>3
<1>. QED
  BY <1>4, <1>5

-----------------------------------------------------------------------------
(* The steps of a read                                                     *)

LEMMA ListStep ==
    ASSUME IInv, List
    PROVE  IInv'
<1>. DEFINE list == got \o Answer(page)
            early == src.several = "first" /\ Kept(list) # <<>>
<1>1. TypeOK /\ AskKnows /\ pc = "ask" /\ outcome = "none yet" /\ result = <<>>
  BY DEF IInv, List, AskKnows
<1>2. Careful(src) /\ src.by \in ByList
  BY <1>1, SourcesAssumption DEF TypeOK, List, Careful
<1>3. /\ got' = list /\ page' = page + 1 /\ Idle /\ UNCHANGED hidden
      /\ IF More(page) /\ ~early
         THEN UNCHANGED <<pc, chosen, result, outcome>>
         ELSE Concludes(list)
  BY DEF List, NextPage
<1>4. /\ UNCHANGED <<src, kind, world, stayed, inserted, deleted, hidden>>
      /\ src.by \notin {"id", "ids", "quoted"}
  BY <1>2, <1>3 DEF Idle, people, ByList
<1>5. /\ list \in Seq(Ids)
      /\ \A i \in ToSet(list) : Asks(i)
      /\ ~inserted => IsInjective(list)
      /\ src.paging = "whole" =>
            \A i \in stayed : Asks(i) => i \in ToSet(list)
      /\ src.paging # "whole" =>
            /\ ~deleted =>
                  \A i \in stayed :
                     Asks(i) => \/ i \in ToSet(list)
                                \/ \E n \in DOMAIN Matching :
                                      n > (page + 1) * PageSize /\ Matching[n] = i
            /\ ~inserted =>
                  \A n \in DOMAIN Matching :
                     n > (page + 1) * PageSize => Matching[n] \notin ToSet(list)
  BY <1>1, <1>2, PageRead
<1>. HIDE DEF list
<1>6. page' \in Nat /\ got' \in Seq(Ids)
  <2>1. page' = page + 1 /\ page \in Nat /\ got' = list /\ list \in Seq(Ids)
    BY <1>1, <1>3, <1>5 DEF TypeOK
  <2>. QED
    BY ONLY <2>1
<1>7. CASE More(page) /\ ~early
  <2>1. src.paging # "whole"
    BY <1>7 DEF More
  <2>2. UNCHANGED <<pc, chosen, result, outcome>>
    BY <1>3, <1>7
  <2>3. TypeOK'
    BY <1>1, <1>4, <1>6, <2>2 DEF TypeOK
  <2>4. Matching' = Matching /\ \A i : Asks(i)' <=> Asks(i)
    BY <1>4 DEF Matching, Asks
  <2>5. AskKnows'
    BY <1>1, <1>2, <1>3, <1>4, <1>5, <2>1, <2>2, <2>4 DEF AskKnows
  <2>. QED
    BY <1>1, <2>2, <2>3, <2>5 DEF IInv, DetailsKnow
<1>8. CASE ~(More(page) /\ ~early)
  <2>1. Concludes(list)
    BY <1>3, <1>8
  <2>2. Complete(list) \/ early
    <3>1. SUFFICES ASSUME ~More(page), src.name \notin FirstPage,
                          src.paging # "whole" => ~deleted,
                          NEW i \in stayed, Asks(i)
                   PROVE  i \in ToSet(list)
      BY <1>8 DEF Complete
    <3>2. CASE src.paging = "whole"
      BY <1>5, <3>1, <3>2
    <3>3. CASE src.paging # "whole"
      <4>1. \A n \in DOMAIN Matching : ~(n > (page + 1) * PageSize)
        BY <1>1, <1>2, <3>1, <3>3, LastPage
      <4>. QED
        BY <1>5, <3>1, <3>3, <4>1
    <3>. QED
      BY <3>2, <3>3
  <2>. QED
    BY <1>1, <1>2, <1>3, <1>5, <1>6, <2>1, <2>2, ConcludesWell
<1>. QED
  BY <1>7, <1>8

LEMMA GetStep ==
    ASSUME IInv, Get
    PROVE  IInv'
<1>1. TypeOK /\ outcome = "none yet" /\ result = <<>>
      /\ page' \in Nat /\ got' \in Seq(Ids) /\ Idle /\ UNCHANGED hidden
  BY DEF IInv, Get, AskKnows, TypeOK
<1>2. src.by = "id" /\ src.by \notin ByList /\ ~src.details /\ src.others # "skip"
  BY <1>1, SourcesAssumption DEF Get, ByList, Careful, TypeOK
<1>3. PICK i \in Asked :
         IF i \in ToSet(world) THEN Takes(i)
         ELSE Fails(IF src.gone = "forget" THEN "forgotten" ELSE "none")
  BY DEF Get
<1>4. i \in Ids
  BY AskedAssumption
<1>5. CASE i \in ToSet(world)
  <2>1. (src.others = "refuse" /\ kind[i].other) \/ IsWanted(i)
    BY <1>2 DEF IsWanted
  <2>2. IsOnly(i)
    BY <1>2 DEF IsOnly
  <2>3. Takes(i)
    BY <1>3, <1>5
  <2>. QED
    BY <1>1, <1>2, <1>4, <2>1, <2>2, <2>3, TakesWell
<1>6. CASE i \notin ToSet(world)
  <2>1. NothingWas
    BY <1>2 DEF NothingWas
  <2>. QED
    BY <1>1, <1>3, <1>6, <2>1, FailsWell
<1>. QED
  BY <1>5, <1>6

LEMMA GetQuotedStep ==
    ASSUME IInv, GetQuoted
    PROVE  IInv'
<1>1. TypeOK /\ page' \in Nat /\ got' \in Seq(Ids) /\ Idle /\ UNCHANGED hidden
  BY DEF IInv, GetQuoted, TypeOK
<1>2. src.by = "quoted" /\ src.by \notin ByList /\ src.others # "skip"
      /\ src.others # "refuse" /\ ~(src.name \in ByName)
  BY <1>1, SourcesAssumption DEF GetQuoted, ByList, Careful, TypeOK
<1>3. CASE Fails("none")
  <2>1. NothingWas
    BY <1>2 DEF NothingWas
  <2>. QED
    BY <1>1, <1>3, <2>1, FailsWell
<1>4. CASE Matching # <<>> /\ Ends("found", <<Matching[1]>>)
  <2>1. Matching[1] \in Ids
    BY <1>1, <1>4, MatchingFacts, ListLength
  <2>2. IsWanted(Matching[1]) /\ IsOnly(Matching[1])
    BY <1>2 DEF IsWanted, IsOnly
  <2>. QED
    BY <1>1, <1>4, <2>1, <2>2, FoundWell
<1>. QED
  BY <1>3, <1>4 DEF GetQuoted

LEMMA GetRowsStep ==
    ASSUME IInv, GetRows
    PROVE  IInv'
<1>1. /\ TypeOK /\ AskKnows /\ pc = "ask" /\ outcome = "none yet" /\ result = <<>>
      /\ src.by = "ids" /\ src.by \notin ByList
      /\ got' = Matching /\ page' = page /\ page \in Nat
      /\ Idle /\ UNCHANGED hidden
  BY DEF IInv, GetRows, AskKnows, TypeOK, ByList
<1>2. Matching \in Seq(Ids) /\ IsInjective(Matching)
      /\ ToSet(Matching) = ToSet(world) \cap AskedFor
      /\ stayed \subseteq ToSet(world) /\ stayed \subseteq Ids
  BY <1>1, MatchingFacts DEF TypeOK
<1>3. UNCHANGED <<src, kind, world, stayed, inserted, deleted, hidden>>
  BY <1>1 DEF Idle, people
<1>4. CASE UNCHANGED <<pc, chosen, result, outcome>>
  <2>1. TypeOK'
    BY <1>1, <1>2, <1>3, <1>4 DEF TypeOK
  <2>2. AskKnows'
    BY <1>1, <1>2, <1>3, <1>4 DEF AskKnows
  <2>. QED
    BY <1>1, <1>4, <2>1, <2>2 DEF IInv, DetailsKnow
<1>5. CASE Ends("listed", Matching)
  <2>1. Matching \in Seq(Ids \cup {None})
    <3>. HIDE DEF Matching
    <3>. QED
      BY ONLY <1>2
  <2>2. \A i \in stayed : IsDue(i) => i \in ToSet(Matching)
    BY <1>2 DEF IsDue, Fits, AskedFor
  <2>3. \A m, n \in DOMAIN Matching :
           Matching[m] = Matching[n] /\ Matching[m] # None => m = n
    BY <1>2 DEF IsInjective
  <2>4. page' \in Nat /\ got' \in Seq(Ids)
    BY <1>1, <1>2
  <2>. QED
    BY <1>1, <1>5, <2>1, <2>2, <2>3, <2>4, ListedWell
<1>. QED
  BY <1>4, <1>5 DEF GetRows

LEMMA RequestFailsStep ==
    ASSUME IInv, RequestFails
    PROVE  IInv'
<1>1. TypeOK /\ page' \in Nat /\ got' \in Seq(Ids) /\ Idle /\ UNCHANGED hidden
  BY DEF IInv, RequestFails, TypeOK
<1>. QED
  BY <1>1, FailsWell DEF RequestFails

LEMMA TimeOutStep ==
    ASSUME IInv, TimeOut
    PROVE  IInv'
<1>1. /\ TypeOK /\ page' \in Nat /\ got' \in Seq(Ids) /\ Idle /\ UNCHANGED hidden
      /\ got \in Seq(Ids) /\ (~inserted => IsInjective(got))
  BY DEF IInv, TimeOut, TypeOK, AskKnows
<1>2. CASE Fails("error")
  BY <1>1, <1>2, FailsWell
<1>3. CASE Ends("partial", got)
  <2>1. /\ pc' = "done" /\ outcome' = "partial" /\ result' = got /\ chosen' = <<>>
        /\ UNCHANGED <<src, kind, world, stayed, inserted, deleted, hidden>>
    BY <1>1, <1>3 DEF Ends, Idle, people
  <2>2. got \in Seq(Ids \cup {None})
    BY ONLY <1>1
  <2>3. TypeOK'
    BY <1>1, <2>1, <2>2 DEF TypeOK
  <2>4. FoundIsTheOne' /\ ListsWhatStayed' /\ NoneMeansNone'
    BY <2>1 DEF FoundIsTheOne, FoundIsWanted, FoundIsOnly, ListsWhatStayed, NoneMeansNone
  <2>5. NoRepeats'
    BY <1>1, <2>1 DEF NoRepeats, IsInjective
  <2>. QED
    BY <2>1, <2>3, <2>4, <2>5 DEF IInv, AskKnows, DetailsKnow, NothingIsMissed
<1>. QED
  BY <1>2, <1>3 DEF TimeOut

LEMMA RereadStep ==
    ASSUME IInv, Reread
    PROVE  IInv'
<1>1. /\ TypeOK /\ page' \in Nat /\ got' \in Seq(Ids) /\ Idle /\ UNCHANGED hidden
      /\ \E i \in Ids : chosen = <<i>> /\ IsWanted(i) /\ IsOnly(i)
  BY DEF IInv, Reread, TypeOK, DetailsKnow
<1>2. CASE Fails("error")
  BY <1>1, <1>2, FailsWell
<1>3. CASE Ends("found", chosen)
  BY <1>1, <1>3, FoundWell
<1>. QED
  BY <1>2, <1>3 DEF Reread

LEMMA HeadAndTail ==
    ASSUME NEW s \in Seq(Ids), s # <<>>
    PROVE  /\ Head(s) \in Ids /\ Tail(s) \in Seq(Ids)
           /\ ToSet(s) = {Head(s)} \cup ToSet(Tail(s))
           /\ IsInjective(s) => IsInjective(Tail(s)) /\ Head(s) \notin ToSet(Tail(s))
<1>1. /\ Len(s) \in Nat /\ Len(s) >= 1 /\ DOMAIN s = 1..Len(s)
      /\ Tail(s) \in Seq(Ids) /\ DOMAIN Tail(s) = 1..(Len(s) - 1)
      /\ \A n \in 1..(Len(s) - 1) : Tail(s)[n] = s[n + 1]
      /\ Head(s) = s[1] /\ Head(s) \in Ids
  OBVIOUS
<1>. DEFINE t == Tail(s)
<1>. HIDE DEF t
<1>2. \A n \in DOMAIN t : n + 1 \in DOMAIN s /\ n + 1 # 1 /\ t[n] = s[n + 1]
  BY <1>1 DEF t
<1>3. \A n \in DOMAIN s : n = 1 \/ (n - 1 \in DOMAIN t /\ s[n] = t[n - 1])
  BY <1>1 DEF t
<1>4. 1 \in DOMAIN s
  BY <1>1
<1>5. ToSet(s) = {Head(s)} \cup ToSet(t)
  BY <1>1, <1>2, <1>3, <1>4 DEF ToSet
<1>6. ASSUME IsInjective(s)
      PROVE  IsInjective(t) /\ Head(s) \notin ToSet(t)
  <2>1. ASSUME NEW m \in DOMAIN t, NEW n \in DOMAIN t, t[m] = t[n] PROVE m = n
    <3>1. m + 1 = n + 1
      BY <1>2, <1>6, <2>1 DEF IsInjective
    <3>. QED
      BY <1>1, <2>1, <3>1 DEF t
  <2>2. \A n \in DOMAIN t : t[n] # s[1]
    BY <1>2, <1>4, <1>6 DEF IsInjective
  <2>. QED
    BY <1>1, <2>1, <2>2 DEF IsInjective, ToSet
<1>. QED
  BY <1>1, <1>5, <1>6 DEF t

LEMMA OneMore ==
    ASSUME NEW s \in Seq(Ids), NEW i \in Ids
    PROVE  /\ Append(s, i) \in Seq(Ids)
           /\ ToSet(Append(s, i)) = ToSet(s) \cup {i}
           /\ IsInjective(s) /\ i \notin ToSet(s) => IsInjective(Append(s, i))
<1>. DEFINE t == Append(s, i)
            l == Len(s) + 1
<1>1. /\ Len(s) \in Nat /\ DOMAIN s = 1..Len(s)
      /\ t \in Seq(Ids) /\ DOMAIN t = 1..l /\ t[l] = i
      /\ \A n \in 1..Len(s) : t[n] = s[n]
  OBVIOUS
<1>. HIDE DEF t
<1>2. /\ l \in DOMAIN t /\ l \notin DOMAIN s
      /\ \A n \in DOMAIN t : n = l \/ n \in DOMAIN s
      /\ DOMAIN s \subseteq DOMAIN t
  BY <1>1
<1>. HIDE DEF l
<1>3. ToSet(t) = ToSet(s) \cup {i}
  BY <1>1, <1>2 DEF ToSet
<1>4. ASSUME IsInjective(s), i \notin ToSet(s) PROVE IsInjective(t)
  BY <1>1, <1>2, <1>4 DEF IsInjective, ToSet
<1>. QED
  BY <1>1, <1>3, <1>4 DEF t

LEMMA RereadEachStep ==
    ASSUME IInv, RereadEach
    PROVE  IInv'
<1>. DEFINE i == Head(chosen)
            rest == Tail(chosen)
            up == gateway = "up"
            kept == up /\ i \in ToSet(world) /\ Exact(i)
<1>1. /\ TypeOK /\ DetailsKnow /\ pc = "details" /\ src.several = "list"
      /\ chosen # <<>> /\ pc' = pc /\ page' = page /\ got' = got /\ outcome' = outcome
      /\ result' = (IF kept THEN Append(result, i) ELSE result)
      /\ hidden' = (hidden \/ ~up)
      /\ chosen' = rest
      /\ UNCHANGED <<src, kind, world, stayed, inserted, deleted>>
  BY DEF IInv, RereadEach, Idle, people
<1>2. /\ outcome = "none yet" /\ src.by \in ByList /\ src.details
      /\ result \in Seq(Ids) /\ chosen \in Seq(Ids)
      /\ ~deleted /\ ~hidden /\ src.name \notin FirstPage =>
            \A j \in stayed : IsDue(j) => j \in ToSet(result) \cup ToSet(chosen)
      /\ ~inserted =>
            /\ IsInjective(result) /\ IsInjective(chosen)
            /\ ToSet(result) \cap ToSet(chosen) = {}
  BY <1>1 DEF DetailsKnow, TypeOK
<1>3. /\ i \in Ids /\ rest \in Seq(Ids)
      /\ ToSet(chosen) = {i} \cup ToSet(rest)
      /\ IsInjective(chosen) => IsInjective(rest) /\ i \notin ToSet(rest)
  BY <1>1, <1>2, HeadAndTail
<1>. HIDE DEF i, rest
<1>4. /\ result' \in Seq(Ids)
      /\ ToSet(result') = IF kept THEN ToSet(result) \cup {i} ELSE ToSet(result)
      /\ IsInjective(result) /\ i \notin ToSet(result) => IsInjective(result')
  BY <1>1, <1>2, <1>3, OneMore
<1>5. result' \in Seq(Ids \cup {None}) /\ hidden' \in BOOLEAN
  <2>1. hidden' \in BOOLEAN
    BY <1>1 DEF TypeOK
  <2>2. result' \in Seq(Ids \cup {None})
    BY ONLY <1>4
  <2>. QED
    BY <2>1, <2>2
<1>6. TypeOK'
  BY <1>1, <1>3, <1>5 DEF TypeOK
<1>7. ASSUME ~deleted /\ ~hidden' /\ src.name \notin FirstPage,
             NEW j \in stayed, IsDue(j)
      PROVE  j \in ToSet(result') \cup ToSet(rest)
  <2>1. ~hidden /\ up
    BY <1>1, <1>7
  <2>2. j \in ToSet(world) /\ Exact(j)
    BY <1>1, <1>2, <1>7 DEF TypeOK, IsDue
  <2>3. j \in ToSet(result) \cup ToSet(chosen)
    BY <1>2, <1>7, <2>1
  <2>. QED
    BY <1>3, <1>4, <2>1, <2>2, <2>3
<1>8. ASSUME ~inserted
      PROVE  /\ IsInjective(result') /\ IsInjective(rest)
             /\ ToSet(result') \cap ToSet(rest) = {}
  BY <1>2, <1>3, <1>4, <1>8
<1>9. \A j : IsDue(j)' <=> IsDue(j)
  BY <1>1 DEF IsDue, Fits, Asks, Meant, Exact
<1>10. DetailsKnow'
  BY <1>1, <1>2, <1>4, <1>7, <1>8, <1>9 DEF DetailsKnow
<1>. QED
  BY <1>1, <1>6, <1>10 DEF IInv, AskKnows

LEMMA RereadDoneStep ==
    ASSUME IInv, RereadDone
    PROVE  IInv'
<1>1. /\ TypeOK /\ DetailsKnow /\ pc = "details" /\ src.several = "list"
      /\ chosen = <<>> /\ Ends("listed", result)
      /\ page' \in Nat /\ got' \in Seq(Ids) /\ Idle /\ UNCHANGED hidden
      /\ result \in Seq(Ids \cup {None})
  BY DEF IInv, RereadDone, TypeOK
<1>2. ToSet(chosen) = {}
  BY <1>1, EmptyList, Zenon
<1>3. ~deleted /\ ~hidden /\ src.name \notin FirstPage =>
         \A i \in stayed : IsDue(i) => i \in ToSet(result)
  BY <1>1, <1>2 DEF DetailsKnow
<1>4. ~inserted => \A m, n \in DOMAIN result :
                      result[m] = result[n] /\ result[m] # None => m = n
  BY <1>1 DEF DetailsKnow, IsInjective
<1>. QED
  BY <1>1, <1>3, <1>4, ListedWell

-----------------------------------------------------------------------------
(* The steps of others                                                     *)

LEMMA NothingSeen ==
    ASSUME IInv, UNCHANGED <<src, kind, world, pc, page, got, chosen, result,
                             outcome, people, hidden>>
    PROVE  IInv'
<1>1. TypeOK'
  BY DEF IInv, TypeOK, people
<1>2. Matching' = Matching /\ \A i : Asks(i)' <=> Asks(i)
  BY DEF Matching, Asks
<1>3. AskKnows'
  BY <1>2 DEF IInv, AskKnows, people
<1>4. DetailsKnow'
  BY DEF IInv, DetailsKnow, IsWanted, IsOnly, IsDue, Fits, Asks, Meant, Exact, people
<1>5. (pc = "done" => FoundIsTheOne)'
  BY DEF IInv, FoundIsTheOne, FoundIsWanted, FoundIsOnly, Fits, Asks, Meant, Exact, people
<1>6. (pc = "done" => NothingIsMissed)'
  BY DEF IInv, NothingIsMissed, ListsWhatStayed, NoneMeansNone, NoRepeats,
         Fits, Asks, Meant, Exact, people
<1>. QED
  BY <1>1, <1>3, <1>4, <1>5, <1>6 DEF IInv

\* What is chosen already does not depend on the objects there are.
LEMMA ChosenStays ==
    ASSUME DetailsKnow, UNCHANGED <<src, kind, pc, chosen, result, outcome, hidden>>,
           stayed' \subseteq stayed, deleted => deleted', inserted => inserted',
           stayed \subseteq Ids
    PROVE  DetailsKnow'
<1>1. \A i \in Ids : /\ IsWanted(i)' <=> IsWanted(i)
                     /\ IsDue(i)' <=> IsDue(i)
                     /\ IsOnly(i) => IsOnly(i)'
  BY DEF IsWanted, IsOnly, IsDue, Fits, Asks, Meant, Exact
<1>. QED
  BY <1>1 DEF DetailsKnow

LEMMA CreateStep ==
    ASSUME IInv, NEW i \in Ids, NEW n \in 1..(Len(world) + 1), Create(i, n)
    PROVE  IInv'
<1>1. /\ TypeOK /\ AskKnows /\ DetailsKnow /\ pc # "done"
      /\ world' = InsertAt(world, n, i) /\ inserted' = TRUE
      /\ UNCHANGED <<src, kind, pc, page, got, chosen, result, outcome, hidden,
                     stayed, deleted>>
      /\ i \notin ToSet(world)
  BY DEF IInv, Create, Meanwhile
<1>2. world \in Seq(Ids) /\ IsInjective(world) /\ stayed \subseteq ToSet(world)
  BY <1>1 DEF TypeOK
<1>3. /\ world' \in Seq(Ids) /\ IsInjective(world')
      /\ ToSet(world') = ToSet(world) \cup {i}
      /\ Embeds(world, world')
  BY <1>1, <1>2, Inserted
<1>4. TypeOK'
  BY <1>1, <1>2, <1>3 DEF TypeOK
<1>5. Matching = Filtered(world, AskedFor) /\ Matching' = Filtered(world', AskedFor)
  BY <1>1 DEF Matching, AskedFor, Asks
<1>6. \A m \in DOMAIN Matching :
         \E k \in DOMAIN Matching' : m <= k /\ Matching'[k] = Matching[m]
  BY <1>2, <1>3, <1>5, EmbeddedLater
<1>7. ASSUME pc = "ask", src.by \in ByList, ~deleted \/ src.paging = "whole",
             NEW j \in stayed, Asks(j), j \notin ToSet(got)
      PROVE  \E k \in DOMAIN Matching' : k > page * PageSize /\ Matching'[k] = j
  <2>1. PICK m \in DOMAIN Matching : m > page * PageSize /\ Matching[m] = j
    BY <1>1, <1>7 DEF AskKnows
  <2>2. PICK k \in DOMAIN Matching' : m <= k /\ Matching'[k] = j
    BY <1>6, <2>1
  <2>3. m \in Nat /\ page * PageSize \in Nat
    BY <1>1, MatchingFacts, PageSizeAssumption DEF TypeOK
  <2>4. k \in Nat
    <3>1. DOMAIN Matching' = 1..Len(Matching') /\ Len(Matching') \in Nat
      BY <1>3, <1>5, FilteredFacts, ListLength
    <3>. QED
      BY <3>1
  <2>. QED
    BY <2>1, <2>2, <2>3, <2>4
<1>8. \A j : Asks(j)' <=> Asks(j)
  BY <1>1 DEF Asks
<1>9. AskKnows'
  BY <1>1, <1>7, <1>8 DEF AskKnows, ByList
<1>10. DetailsKnow'
  BY <1>1, MatchingFacts, ChosenStays
<1>. QED
  BY <1>1, <1>4, <1>9, <1>10 DEF IInv

LEMMA DeleteStep ==
    ASSUME IInv, NEW i \in Ids, Delete(i)
    PROVE  IInv'
<1>1. /\ TypeOK /\ AskKnows /\ DetailsKnow /\ pc # "done"
      /\ world' = Filtered(world, Ids \ {i}) /\ deleted' = TRUE
      /\ stayed' = stayed \ {i}
      /\ UNCHANGED <<src, kind, pc, page, got, chosen, result, outcome, hidden,
                     inserted>>
  BY DEF IInv, Delete, Meanwhile
<1>2. world \in Seq(Ids) /\ IsInjective(world) /\ stayed \subseteq ToSet(world)
  BY <1>1 DEF TypeOK
<1>3. /\ world' \in Seq(Ids) /\ IsInjective(world')
      /\ ToSet(world') = ToSet(world) \ {i}
      /\ Embeds(world', world)
  BY <1>1, <1>2, Deleted
<1>4. TypeOK'
  BY <1>1, <1>2, <1>3 DEF TypeOK
<1>5. Matching = Filtered(world, AskedFor) /\ Matching' = Filtered(world', AskedFor)
  BY <1>1 DEF Matching, AskedFor, Asks
<1>6. \A m \in DOMAIN Matching' :
         \E k \in DOMAIN Matching : m <= k /\ Matching[k] = Matching'[m]
  BY <1>2, <1>3, <1>5, EmbeddedLater
<1>7. /\ DOMAIN Matching' = 1..Len(Matching') /\ Len(Matching') \in Nat
      /\ ToSet(Matching') = ToSet(world') \cap AskedFor
      /\ stayed \subseteq Ids
  BY <1>1, <1>3, <1>5, FilteredFacts, ListLength, MatchingFacts
<1>8. ASSUME pc = "ask", src.by \in ByList, src.paging = "whole",
             NEW j \in stayed', Asks(j)
      PROVE  \E k \in DOMAIN Matching' : k > page * PageSize /\ Matching'[k] = j
  <2>1. page * PageSize = 0
    <3>1. page = 0 /\ PageSize \in Nat
      BY <1>1, <1>8, PageSizeAssumption DEF AskKnows
    <3>. QED
      BY ONLY <3>1
  <2>2. j \in ToSet(Matching')
    BY <1>1, <1>2, <1>3, <1>7, <1>8 DEF AskedFor
  <2>3. PICK k \in DOMAIN Matching' : Matching'[k] = j
    BY <2>2 DEF ToSet
  <2>. QED
    BY <1>7, <2>1, <2>3
<1>9. ASSUME pc = "ask", src.by \in ByList, ~inserted,
             NEW k \in DOMAIN Matching', k > page * PageSize
      PROVE  Matching'[k] \notin ToSet(got)
  <2>1. PICK m \in DOMAIN Matching : k <= m /\ Matching[m] = Matching'[k]
    BY <1>6
  <2>2. m \in Nat /\ page * PageSize \in Nat /\ k \in Nat
    BY <1>1, <1>7, MatchingFacts, PageSizeAssumption DEF TypeOK
  <2>3. m > page * PageSize
    BY <1>9, <2>1, <2>2
  <2>. QED
    BY <1>1, <1>9, <2>1, <2>3 DEF AskKnows
<1>10. \A j : Asks(j)' <=> Asks(j)
  BY <1>1 DEF Asks
<1>11. AskKnows'
  BY <1>1, <1>8, <1>9, <1>10 DEF AskKnows, ByList
<1>12. DetailsKnow'
  BY <1>1, <1>7, ChosenStays
<1>. QED
  BY <1>1, <1>4, <1>11, <1>12 DEF IInv

-----------------------------------------------------------------------------
(* Theorems                                                                *)

LEMMA AtFirst == Init => IInv
<1>1. SUFFICES ASSUME Init PROVE IInv
  OBVIOUS
<1>2. PICK o \in Organisations :
         kind = o.kind /\ world = o.world /\ stayed = ToSet(o.world)
  BY <1>1 DEF Init
<1>3. /\ o.kind \in [Ids -> Kinds] /\ o.world \in Seq(Ids) /\ IsInjective(o.world)
  BY OrganisationsAssumption
<1>4. /\ <<>> \in Seq(Ids) /\ <<>> \in Seq(Ids \cup {None})
      /\ ToSet(<<>>) = {} /\ IsInjective(<<>>)
  BY EmptyList, EmptySeq
<1>5. /\ src \in Sources /\ pc = "ask" /\ page = 0 /\ got = <<>> /\ chosen = <<>>
      /\ result = <<>> /\ outcome = "none yet"
      /\ inserted = FALSE /\ deleted = FALSE /\ hidden = FALSE
  BY <1>1 DEF Init
<1>6. TypeOK
  BY <1>2, <1>3, <1>4, <1>5 DEF TypeOK
<1>7. ASSUME NEW i \in stayed, Asks(i)
      PROVE  \E n \in DOMAIN Matching : n > page * PageSize /\ Matching[n] = i
  <2>1. i \in ToSet(Matching)
    BY <1>2, <1>6, <1>7, MatchingFacts DEF AskedFor
  <2>2. PICK n \in DOMAIN Matching : Matching[n] = i
    BY <2>1 DEF ToSet
  <2>3. n > page * PageSize
    <3>1. DOMAIN Matching = 1..Len(Matching) /\ Len(Matching) \in Nat
      BY <1>6, MatchingFacts
    <3>2. n \in Nat /\ n >= 1
      BY <3>1
    <3>3. page = 0 /\ PageSize \in Nat
      BY <1>5, PageSizeAssumption
    <3>. QED
      BY ONLY <3>2, <3>3
  <2>. QED
    BY <2>2, <2>3
<1>8. AskKnows
  BY <1>4, <1>5, <1>7 DEF AskKnows
<1>. QED
  BY <1>5, <1>6, <1>8 DEF IInv, DetailsKnow

LEMMA EveryStep == IInv /\ [Next]_vars => IInv'
<1>1. SUFFICES ASSUME IInv, [Next]_vars PROVE IInv'
  OBVIOUS
<1>2. CASE List
  BY <1>1, <1>2, ListStep
<1>3. CASE Get
  BY <1>1, <1>3, GetStep
<1>4. CASE GetQuoted
  BY <1>1, <1>4, GetQuotedStep
<1>5. CASE GetRows
  BY <1>1, <1>5, GetRowsStep
<1>6. CASE RequestFails
  BY <1>1, <1>6, RequestFailsStep
<1>7. CASE TimeOut
  BY <1>1, <1>7, TimeOutStep
<1>8. CASE Reread
  BY <1>1, <1>8, RereadStep
<1>9. CASE RereadEach
  BY <1>1, <1>9, RereadEachStep
<1>10. CASE RereadDone
  BY <1>1, <1>10, RereadDoneStep
<1>11. CASE Gateway
  BY <1>1, <1>11, NothingSeen DEF Gateway
<1>12. ASSUME NEW i \in Ids, Delete(i) PROVE IInv'
  BY <1>1, <1>12, DeleteStep
<1>13. ASSUME NEW i \in Ids, NEW n \in 1..(Len(world) + 1), Create(i, n) PROVE IInv'
  BY <1>1, <1>13, CreateStep
<1>14. CASE UNCHANGED vars
  BY <1>1, <1>14, NothingSeen DEF vars
<1>. QED
  BY <1>1, <1>2, <1>3, <1>4, <1>5, <1>6, <1>7, <1>8, <1>9, <1>10, <1>11, <1>12,
     <1>13, <1>14 DEF Next, Read

LEMMA Always == Spec => []IInv
  BY AtFirst, EveryStep, PTL DEF Spec

\* The reads keep to their types: what Datadog has and what a read holds are
\* lists of objects, and only an answer may have empty elements in it.
THEOREM TypeCorrect == Spec => []TypeOK
<1>1. IInv => TypeOK
  BY DEF IInv
<1>. QED
  BY <1>1, Always, PTL

\* What a data source finds is what is meant: it has the name that was looked
\* for and is not of another kind, and none that fits as well was left on a
\* page that was not read, whatever others do between the requests.
THEOREM FoundSafe == Spec => []FoundIsTheOne
<1>1. IInv => FoundIsTheOne
  BY DEF IInv, AskKnows, DetailsKnow, TypeOK, FoundIsTheOne, FoundIsWanted, FoundIsOnly
<1>. QED
  BY <1>1, Always, PTL

\* What was there all the time is in the list, "not found" means that there is
\* none, and no object is in a list twice.
THEOREM MissedSafe == Spec => []NothingIsMissed
<1>1. IInv => NothingIsMissed
  <2>1. SUFFICES ASSUME IInv PROVE NothingIsMissed
    OBVIOUS
  <2>2. CASE pc = "done"
    BY <2>1, <2>2 DEF IInv
  <2>3. (~inserted => IsInjective(result)) => NoRepeats
    BY DEF NoRepeats, IsInjective
  <2>4. result = <<>> => IsInjective(result)
    BY EmptyList, Zenon
  <2>5. CASE pc = "ask"
    BY <2>1, <2>3, <2>4, <2>5 DEF IInv, AskKnows, NothingIsMissed, ListsWhatStayed,
                                  NoneMeansNone
  <2>6. CASE pc = "details"
    BY <2>1, <2>3, <2>4, <2>6 DEF IInv, DetailsKnow, NothingIsMissed, ListsWhatStayed,
                                  NoneMeansNone
  <2>. QED
    BY <2>1, <2>2, <2>5, <2>6 DEF IInv, TypeOK
<1>. QED
  BY <1>1, Always, PTL
=============================================================================
