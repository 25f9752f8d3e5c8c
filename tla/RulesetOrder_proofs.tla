-------------------------- MODULE RulesetOrder_proofs --------------------------
(***************************************************************************)
(* For every finite set of rulesets and every set of configurations: the   *)
(* orders stay orders, and the safety properties the model checker tests   *)
(* on three rulesets.                                                      *)
(***************************************************************************)
EXTENDS RulesetOrder, FiniteSetTheorems, TLAPS

-----------------------------------------------------------------------------
(* Lists of ids *)

\* Every set of rulesets has a cardinality, and a proper subset a smaller one.
LEMMA SubsetCardinality ==
    ASSUME NEW S \in SUBSET Rulesets
    PROVE  /\ IsFiniteSet(S)
           /\ Cardinality(S) \in Nat
           /\ \A T \in SUBSET S :
                 /\ Cardinality(T) \in Nat
                 /\ Cardinality(T) <= Cardinality(S)
                 /\ Cardinality(T) = Cardinality(S) => T = S
  <1>1. IsFiniteSet(S)
    BY FS_Subset, RulesetsAssumption
  <1>2. ASSUME NEW T \in SUBSET S
        PROVE  /\ IsFiniteSet(T)
               /\ Cardinality(T) <= Cardinality(S)
               /\ Cardinality(T) = Cardinality(S) => T = S
    BY <1>1, FS_Subset
  <1>3. QED
    BY <1>1, <1>2, FS_CardinalityType

\* Two disjoint parts of a set of rulesets have its size together.
LEMMA PartsCardinality ==
    ASSUME NEW S \in SUBSET Rulesets, NEW T \in SUBSET S
    PROVE  Cardinality(S) = Cardinality(T) + Cardinality(S \ T)
  <1>1. IsFiniteSet(T) /\ IsFiniteSet(S \ T)
    BY SubsetCardinality
  <1>2. T \cap (S \ T) = {} /\ T \cup (S \ T) = S
    OBVIOUS
  <1>3. Cardinality(T \cup (S \ T)) =
          Cardinality(T) + Cardinality(S \ T) - Cardinality(T \cap (S \ T))
    BY ONLY <1>1, FS_Union
  <1>4. Cardinality(S) = Cardinality(T) + Cardinality(S \ T) - Cardinality({})
    BY ONLY <1>2, <1>3, Zenon
  <1>5. Cardinality(T) \in Nat /\ Cardinality(S \ T) \in Nat
    BY SubsetCardinality
  <1>6. Cardinality({}) = 0
    BY FS_EmptySet
  <1>7. QED
    BY <1>4, <1>5, <1>6

\* Sorting numbers the members from 1 and keeps the order of their positions.
LEMMA SortedFacts ==
    ASSUME NEW o \in [Rulesets -> Nat], NEW S \in SUBSET Rulesets
    PROVE  /\ Sorted(o, S) \in [Rulesets -> Nat]
           /\ Members(Sorted(o, S)) = S
           /\ \A r \in S : Sorted(o, S)[r] \in 1..Cardinality(S)
           /\ \A r \in Rulesets \ S : Sorted(o, S)[r] = 0
           /\ \A r, q \in S : o[r] < o[q] <=> Sorted(o, S)[r] < Sorted(o, S)[q]
  <1> DEFINE Upto(r) == {q \in S : o[q] <= o[r]}
  <1>1. \A r \in S : Sorted(o, S)[r] = Cardinality(Upto(r))
    BY DEF Sorted
  <1>2. \A r \in Rulesets \ S : Sorted(o, S)[r] = 0
    BY DEF Sorted
  <1>3. ASSUME NEW r \in S
        PROVE  Cardinality(Upto(r)) \in 1..Cardinality(S)
    <2>1. Upto(r) \in SUBSET S /\ Upto(r) \in SUBSET Rulesets
      OBVIOUS
    <2>2. /\ Cardinality(Upto(r)) \in Nat
          /\ Cardinality(S) \in Nat
          /\ Cardinality(Upto(r)) <= Cardinality(S)
          /\ IsFiniteSet(Upto(r))
      BY <2>1, SubsetCardinality
    <2>3. r \in Upto(r)
      BY DEF Upto
    <2>4. Cardinality(Upto(r)) # 0
      BY <2>2, <2>3, FS_EmptySet
    <2>5. QED
      BY <2>2, <2>4
  <1>4. ASSUME NEW r \in S, NEW q \in S, o[r] <= o[q]
        PROVE  Cardinality(Upto(r)) <= Cardinality(Upto(q))
    <2>1. Upto(r) \in SUBSET Upto(q) /\ Upto(q) \in SUBSET Rulesets
      BY <1>4
    <2>2. QED
      BY <2>1, SubsetCardinality
  <1>5. ASSUME NEW r \in S, NEW q \in S, o[r] < o[q]
        PROVE  Cardinality(Upto(r)) < Cardinality(Upto(q))
    <2>1. Upto(r) \in SUBSET Upto(q) /\ Upto(q) \in SUBSET Rulesets
      BY <1>5
    <2>2. q \in Upto(q) /\ q \notin Upto(r)
      BY <1>5
    <2>3. Upto(r) # Upto(q)
      BY <2>2
    <2>4. QED
      BY <2>1, <2>3, SubsetCardinality
  <1>6. \A r, q \in S : o[r] < o[q] <=> Sorted(o, S)[r] < Sorted(o, S)[q]
    <2> SUFFICES ASSUME NEW r \in S, NEW q \in S
                 PROVE  o[r] < o[q] <=> Sorted(o, S)[r] < Sorted(o, S)[q]
      OBVIOUS
    <2>1. Cardinality(Upto(r)) \in Nat /\ Cardinality(Upto(q)) \in Nat
      BY <1>3
    <2>2. o[r] < o[q] => Cardinality(Upto(r)) < Cardinality(Upto(q))
      BY <1>5
    <2>3. o[q] <= o[r] => Cardinality(Upto(q)) <= Cardinality(Upto(r))
      BY <1>4
    <2>4. o[r] \in Nat /\ o[q] \in Nat
      OBVIOUS
    <2> HIDE DEF Upto
    <2>5. o[r] < o[q] <=> Cardinality(Upto(r)) < Cardinality(Upto(q))
      BY <2>1, <2>2, <2>3, <2>4
    <2>6. QED
      BY <1>1, <2>5
  <1>7. Sorted(o, S) \in [Rulesets -> Nat]
    <2>1. ASSUME NEW r \in Rulesets
          PROVE  (IF r \in S THEN Cardinality(Upto(r)) ELSE 0) \in Nat
      BY <1>3
    <2>2. QED
      BY <2>1 DEF Sorted
  <1>8. Members(Sorted(o, S)) = S
    <2> HIDE DEF Upto
    <2>1. ASSUME NEW r \in S PROVE Sorted(o, S)[r] > 0
      <3>1. Cardinality(S) \in Nat
        BY SubsetCardinality
      <3>2. QED
        BY <1>1, <1>3, <3>1
    <2>2. \A r \in Rulesets \ S : ~(Sorted(o, S)[r] > 0)
      BY <1>2
    <2>3. QED
      BY <2>1, <2>2 DEF Members
  <1>9. QED
    BY <1>1, <1>2, <1>3, <1>6, <1>7, <1>8

\* Sorting by distinct positions yields a list.
LEMMA SortedIsList ==
    ASSUME NEW o \in [Rulesets -> Nat], NEW S \in SUBSET Rulesets,
           \A r, q \in S : o[r] = o[q] => r = q
    PROVE  Sorted(o, S) \in Lists
  <1> DEFINE s == Sorted(o, S)
  <1>1. /\ s \in [Rulesets -> Nat]
        /\ Members(s) = S
        /\ \A r \in S : s[r] \in 1..Cardinality(S)
        /\ \A r \in Rulesets \ S : s[r] = 0
        /\ \A r, q \in S : o[r] < o[q] <=> s[r] < s[q]
    BY SortedFacts
  <1>2. Cardinality(S) \in Nat
    BY SubsetCardinality
  <1>3. \A r \in Rulesets : s[r] <= Cardinality(S)
    BY <1>1, <1>2
  <1>4. ASSUME NEW r \in S, NEW q \in S, s[r] = s[q]
        PROVE  r = q
    <2>1. ~(o[r] < o[q]) /\ ~(o[q] < o[r])
      BY <1>1, <1>4
    <2>2. o[r] = o[q]
      BY <2>1
    <2>3. QED
      BY <2>2
  <1>5. QED
    BY <1>1, <1>3, <1>4 DEF Lists

\* Sorting a list keeps it, whichever of its members are taken.
LEMMA SortedList ==
    ASSUME NEW o \in Lists, NEW S \in SUBSET Members(o)
    PROVE  Sorted(o, S) \in Lists
  <1>1. S \in SUBSET Rulesets /\ o \in [Rulesets -> Nat]
    BY DEF Members, Lists
  <1>2. \A r, q \in S : o[r] = o[q] => r = q
    BY DEF Lists
  <1>3. QED
    BY <1>1, <1>2, SortedIsList

\* Datadog keeps a list a list when it puts a request without repetition first.
LEMMA PutFirstFacts ==
    ASSUME NEW o \in Lists, NEW request \in [Rulesets -> Nat],
           \A r, q \in Members(request) : request[r] = request[q] => r = q
    PROVE  /\ PutFirst(o, request) \in Lists
           /\ Members(PutFirst(o, request)) = Members(o)
  <1> DEFINE named == Members(request) \cap Members(o)
             rest == Members(o) \ named
             p == PutFirst(o, request)
             sn == Sorted(request, named)
             sr == Sorted(o, rest)
             n == Cardinality(named)
             k == Cardinality(rest)
  <1>1. /\ named \in SUBSET Members(o) /\ named \in SUBSET Rulesets
        /\ rest \in SUBSET Rulesets /\ Members(o) \in SUBSET Rulesets
        /\ o \in [Rulesets -> Nat]
    BY DEF Members, Lists
  <1>2. n \in Nat /\ k \in Nat
    BY <1>1, SubsetCardinality
  <1>3. Cardinality(Members(o)) = n + k
    BY <1>1, PartsCardinality
  <1>4. /\ \A r \in named : sn[r] \in 1..n
        /\ \A r, q \in named : request[r] < request[q] <=> sn[r] < sn[q]
    BY <1>1, SortedFacts
  <1>5. /\ \A r \in rest : sr[r] \in 1..k
        /\ \A r, q \in rest : o[r] < o[q] <=> sr[r] < sr[q]
    BY <1>1, SortedFacts
  <1>6. p = [r \in Rulesets |-> IF r \in named THEN sn[r]
                                ELSE IF r \in rest THEN n + sr[r] ELSE 0]
    BY DEF PutFirst
  <1> HIDE DEF p, sn, sr, n, k
  <1>7. /\ \A r \in named : p[r] = sn[r] /\ p[r] \in 1..n
        /\ \A r \in rest : p[r] = n + sr[r] /\ p[r] \in (n + 1)..(n + k)
        /\ \A r \in Rulesets \ Members(o) : p[r] = 0
    BY <1>1, <1>2, <1>4, <1>5, <1>6
  <1>8. p \in [Rulesets -> Nat] /\ \A r \in Rulesets : p[r] <= n + k
    <2>1. ASSUME NEW r \in Rulesets
          PROVE  p[r] \in Nat /\ p[r] <= n + k
      BY <1>2, <1>7
    <2>2. QED
      BY <1>6, <2>1
  <1>9. Members(p) = Members(o)
    <2>1. \A r \in Members(o) : p[r] > 0
      BY <1>2, <1>7
    <2>2. QED
      BY <1>1, <1>7, <2>1 DEF Members
  <1>10. ASSUME NEW r \in Members(o), NEW q \in Members(o), p[r] = p[q]
         PROVE  r = q
    <2>1. CASE r \in named /\ q \in named
      <3>1. ~(request[r] < request[q]) /\ ~(request[q] < request[r])
        BY <1>2, <1>4, <1>7, <1>10, <2>1
      <3>2. request[r] \in Nat /\ request[q] \in Nat
        BY <1>1
      <3>3. request[r] = request[q]
        BY <3>1, <3>2
      <3>4. QED
        BY <2>1, <3>3
    <2>2. CASE r \in rest /\ q \in rest
      <3>1. sr[r] = sr[q]
        BY <1>2, <1>5, <1>7, <1>10, <2>2
      <3>2. ~(o[r] < o[q]) /\ ~(o[q] < o[r])
        BY <1>2, <1>5, <2>2, <3>1
      <3>3. o[r] \in Nat /\ o[q] \in Nat
        BY <1>1
      <3>4. o[r] = o[q]
        BY <3>2, <3>3
      <3>5. QED
        BY <3>4 DEF Lists
    <2>3. CASE r \in named /\ q \in rest
      BY <1>2, <1>7, <1>10, <2>3
    <2>4. CASE r \in rest /\ q \in named
      BY <1>2, <1>7, <1>10, <2>4
    <2>5. QED
      BY <2>1, <2>2, <2>3, <2>4
  <1>11. p \in Lists
    BY <1>3, <1>8, <1>9, <1>10 DEF Lists
  <1>12. QED
    BY <1>9, <1>11 DEF p

\* The order sent when the UI's rulesets are kept: the managed rulesets at
\* their places, the others behind them in the order they have.
LEMMA FinalOrderFacts ==
    ASSUME NEW o \in Lists, NEW c \in Config
    PROVE  /\ FinalOrder(o, c) \in [Rulesets -> Nat]
           /\ Members(FinalOrder(o, c)) = Members(c.place) \cup Members(o)
           /\ \A r \in Members(c.place) : FinalOrder(o, c)[r] = c.place[r]
           /\ \A m \in Members(c.place), u \in Unmanaged(o, c.place) :
                 FinalOrder(o, c)[m] < FinalOrder(o, c)[u]
           /\ \A u, v \in Unmanaged(o, c.place) :
                 o[u] < o[v] <=> FinalOrder(o, c)[u] < FinalOrder(o, c)[v]
           /\ \A r, q \in Members(FinalOrder(o, c)) :
                 FinalOrder(o, c)[r] = FinalOrder(o, c)[q] => r = q
  <1> DEFINE managed == Members(c.place)
             rest == Unmanaged(o, c.place)
             f == FinalOrder(o, c)
             n == DesiredLen(c)
             s == Sorted(o, rest)
  <1>1. /\ managed \in SUBSET Rulesets /\ Members(o) \in SUBSET Rulesets
        /\ rest = Members(o) \ managed /\ rest \in SUBSET Rulesets
        /\ o \in [Rulesets -> Nat]
        /\ c.place \in Lists /\ c.place \in [Rulesets -> Nat]
    BY DEF Members, Lists, Unmanaged, Config
  <1>2. n \in Nat /\ Cardinality(managed) <= n /\ Cardinality(managed) \in Nat
    <2>1. Cardinality(managed) \in Nat
      BY <1>1, SubsetCardinality
    <2>2. c.repeats \in Nat
      BY DEF Config
    <2>3. QED
      BY <2>1, <2>2 DEF DesiredLen
  <1>3. Cardinality(rest) \in Nat
    BY <1>1, SubsetCardinality
  <1>4. /\ \A r \in rest : s[r] \in 1..Cardinality(rest)
        /\ \A u, v \in rest : o[u] < o[v] <=> s[u] < s[v]
    BY <1>1, SortedFacts
  <1>5. f = [r \in Rulesets |-> IF r \in managed THEN c.place[r]
                                ELSE IF r \in Members(o)
                                THEN n + s[r] ELSE 0]
    BY DEF FinalOrder
  <1>6. \A r \in managed : c.place[r] > 0 /\ c.place[r] <= n
    <2>1. \A r \in managed : c.place[r] > 0 /\ c.place[r] <= Cardinality(managed)
      BY <1>1 DEF Members, Lists
    <2>2. QED
      BY <1>1, <1>2, <2>1
  <1> HIDE DEF f, n, s
  <1>7. /\ \A r \in managed : f[r] = c.place[r]
        /\ \A u \in rest : f[u] = n + s[u] /\ s[u] \in Nat /\ s[u] > 0
        /\ \A r \in Rulesets \ (managed \cup rest) : f[r] = 0
    BY <1>1, <1>3, <1>4, <1>5
  <1>8. /\ \A m \in managed, u \in rest : f[m] < f[u]
        /\ \A u, v \in rest : o[u] < o[v] <=> f[u] < f[v]
    BY <1>1, <1>2, <1>4, <1>6, <1>7
  <1>9. f \in [Rulesets -> Nat]
    <2>1. \A r \in Rulesets : f[r] \in Nat
      BY <1>1, <1>2, <1>7
    <2>2. QED
      BY <1>5, <2>1
  <1>10. Members(f) = managed \cup rest
    <2>1. \A r \in managed \cup rest : f[r] > 0
      BY <1>1, <1>2, <1>6, <1>7
    <2>2. QED
      BY <1>1, <1>7, <2>1 DEF Members
  <1>11. ASSUME NEW r \in managed \cup rest, NEW q \in managed \cup rest,
                f[r] = f[q]
         PROVE  r = q
    <2>1. CASE r \in managed /\ q \in managed
      BY <1>1, <1>7, <1>11, <2>1 DEF Lists
    <2>2. CASE r \in rest /\ q \in rest
      <3>1. ~(o[r] < o[q]) /\ ~(o[q] < o[r])
        BY <1>2, <1>7, <1>8, <1>11, <2>2
      <3>2. r \in Members(o) /\ q \in Members(o)
        BY <1>1, <2>2
      <3>3. o[r] = o[q]
        BY <1>1, <3>1, <3>2
      <3>4. QED
        BY <3>2, <3>3 DEF Lists
    <2>3. CASE (r \in managed /\ q \in rest) \/ (r \in rest /\ q \in managed)
      BY <1>1, <1>2, <1>6, <1>7, <1>8, <1>11, <2>3
    <2>4. QED
      BY <2>1, <2>2, <2>3
  <1>12. QED
    BY <1>1, <1>7, <1>8, <1>9, <1>10, <1>11 DEF f

\* When the check of findUnmanagedRulesets says that they are all at the end,
\* every managed ruleset is before every unmanaged one.
LEMMA AllAtEndMeansLast ==
    ASSUME NEW o \in Lists, NEW place \in Lists, AllAtEnd(o, place)
    PROVE  \A m \in Members(o) \ Unmanaged(o, place),
              u \in Unmanaged(o, place) : o[m] < o[u]
  <1> DEFINE all == Members(o)
             rest == Unmanaged(o, place)
             first == {q \in all : \A u \in rest : o[q] < o[u]}
  <1>1. all \in SUBSET Rulesets /\ rest \in SUBSET all /\ first \in SUBSET all
    BY DEF Members, Unmanaged
  <1>2. o \in [Rulesets -> Nat]
    BY DEF Lists
  <1>3. first \in SUBSET (all \ rest)
    BY <1>1, <1>2
  <1>4. Cardinality(all) = Cardinality(rest) + Cardinality(all \ rest)
    BY <1>1, PartsCardinality
  <1>5. Cardinality(first) = Cardinality(all) - Cardinality(rest)
    BY DEF AllAtEnd, FirstUnmanagedPos
  <1>6. /\ Cardinality(rest) \in Nat
        /\ Cardinality(all \ rest) \in Nat
    <2>1. rest \in SUBSET Rulesets /\ all \ rest \in SUBSET Rulesets
      BY <1>1
    <2>2. QED
      BY <2>1, SubsetCardinality
  <1> HIDE DEF first
  <1>7. Cardinality(first) = Cardinality(all \ rest)
    BY <1>4, <1>5, <1>6
  <1>8. first = all \ rest
    <2>1. all \ rest \in SUBSET Rulesets
      BY <1>1
    <2>2. QED
      BY <1>3, <1>7, <2>1, SubsetCardinality
  <1>9. QED
    BY <1>8 DEF first

-----------------------------------------------------------------------------
(* Types *)

LEMMA ReadPlaceIsList ==
    ASSUME NEW s, s.place \in Lists, NEW o \in Lists
    PROVE  ReadPlace(s, o) \in Lists
  <1>1. Members(s.place) \cap Members(o) \in SUBSET Members(o)
    OBVIOUS
  <1>2. QED
    BY <1>1, SortedList DEF ReadPlace

LEMMA NoRulesetsIsList == NoRulesets \in Lists
  <1>1. Members(NoRulesets) = {}
    BY DEF Members, NoRulesets
  <1>2. Cardinality({}) = 0
    BY FS_EmptySet
  <1>3. QED
    BY <1>1, <1>2 DEF NoRulesets, Lists

\* The body of the reorder call names no ruleset twice.
LEMMA RequestFacts ==
    ASSUME TypeOK
    PROVE  /\ Request \in [Rulesets -> Nat]
           /\ \A r, q \in Members(Request) : Request[r] = Request[q] => r = q
  <1>1. listed \in Lists /\ plan \in Config
    BY DEF TypeOK
  <1>2. CASE plan.override
    BY <1>1, <1>2 DEF Request, Config, Lists
  <1>3. CASE ~plan.override
    <2>1. Request = FinalOrder(listed, plan)
      BY <1>3 DEF Request
    <2>2. QED
      BY <1>1, <2>1, FinalOrderFacts
  <1>4. QED
    BY <1>2, <1>3

\* What an edit in the UI makes of an order is an order.
LEMMA UiEditsAreLists ==
    ASSUME NEW o \in Lists
    PROVE  /\ \A r \in Rulesets \ Members(o) :
                LET p == [o EXCEPT ![r] = Cardinality(Members(o)) + 1]
                IN  p \in Lists /\ Members(p) = Members(o) \cup {r}
           /\ \A r, q \in Members(o) :
                LET p == [o EXCEPT ![r] = o[q], ![q] = o[r]]
                IN  p \in Lists /\ Members(p) = Members(o)
           /\ \A r \in Rulesets :
                LET p == Sorted(o, Members(o) \ {r})
                IN  p \in Lists /\ Members(p) = Members(o) \ {r}
  <1>1. /\ o \in [Rulesets -> Nat] /\ Members(o) \in SUBSET Rulesets
        /\ Cardinality(Members(o)) \in Nat /\ IsFiniteSet(Members(o))
        /\ \A r \in Rulesets : o[r] <= Cardinality(Members(o))
        /\ \A r, q \in Members(o) : o[r] = o[q] => r = q
    <2>1. o \in [Rulesets -> Nat] /\ Members(o) \in SUBSET Rulesets
      BY DEF Members, Lists
    <2>2. QED
      BY <2>1, SubsetCardinality DEF Lists
  <1>2. ASSUME NEW r \in Rulesets \ Members(o)
        PROVE  LET p == [o EXCEPT ![r] = Cardinality(Members(o)) + 1]
               IN  p \in Lists /\ Members(p) = Members(o) \cup {r}
    <2> DEFINE p == [o EXCEPT ![r] = Cardinality(Members(o)) + 1]
    <2>1. p \in [Rulesets -> Nat]
      BY <1>1
    <2>2. Members(p) = Members(o) \cup {r}
      BY <1>1 DEF Members
    <2>3. Cardinality(Members(p)) = Cardinality(Members(o)) + 1
      BY <1>1, <2>2, FS_AddElement
    <2>4. \A q \in Rulesets : p[q] <= Cardinality(Members(p))
      BY <1>1, <2>3
    <2>5. \A q, v \in Members(p) : p[q] = p[v] => q = v
      BY <1>1, <2>2
    <2>6. QED
      BY <2>1, <2>2, <2>4, <2>5 DEF Lists
  <1>3. ASSUME NEW r \in Members(o), NEW q \in Members(o)
        PROVE  LET p == [o EXCEPT ![r] = o[q], ![q] = o[r]]
               IN  p \in Lists /\ Members(p) = Members(o)
    <2> DEFINE p == [o EXCEPT ![r] = o[q], ![q] = o[r]]
    <2>1. p \in [Rulesets -> Nat] /\ Members(p) = Members(o)
      BY <1>1 DEF Members
    <2>2. QED
      BY <1>1, <2>1 DEF Lists
  <1>4. ASSUME NEW r \in Rulesets
        PROVE  LET p == Sorted(o, Members(o) \ {r})
               IN  p \in Lists /\ Members(p) = Members(o) \ {r}
    BY <1>1, SortedList, SortedFacts
  <1>5. QED
    BY <1>2, <1>3, <1>4

\* The result of a delete or of a reorder is an order of known rulesets.
LEMMA ProviderEditsAreLists ==
    ASSUME TypeOK
    PROVE  /\ \A r \in Rulesets :
                /\ Sorted(remote, Members(remote) \ {r}) \in Lists
                /\ Members(Sorted(remote, Members(remote) \ {r})) \subseteq born
           /\ PutFirst(remote, Request) \in Lists
           /\ Members(PutFirst(remote, Request)) = Members(remote)
  <1>1. remote \in Lists /\ Members(remote) \subseteq born
    BY DEF TypeOK
  <1>2. \A r \in Rulesets :
            /\ Sorted(remote, Members(remote) \ {r}) \in Lists
            /\ Members(Sorted(remote, Members(remote) \ {r})) \subseteq born
    BY <1>1, UiEditsAreLists
  <1>3. QED
    BY <1>1, <1>2, RequestFacts, PutFirstFacts

\* What the handlers save is a state.
LEMMA SavedIsState ==
    /\ NoState \in States
    /\ \A c \in Config : /\ Saved("ok", c) \in States
                         /\ Saved("tainted", c) \in States
    /\ \A s \in States, p \in Lists :
          [s EXCEPT !.place = p, !.repeats = 0] \in States
    /\ \A p \in Lists :
          [NoState EXCEPT !.status = "ok", !.place = p] \in States
  BY NoRulesetsIsList DEF NoState, States, Saved, Config

\* No step spends more than the bounds allow.
LEMMA BoundsKept ==
    ASSUME WithinBounds, [Next]_vars
    PROVE  WithinBounds'
  <1> USE BoundsAssumption DEF WithinBounds
  <1>1. ASSUME NEW order, UiEdit(order) PROVE WithinBounds'
    BY <1>1 DEF UiEdit
  <1>2. ASSUME NEW c, EditConfig(c) PROVE WithinBounds'
    BY <1>2 DEF EditConfig
  <1>3. CASE ImportState \/ Destroy \/ Abandon \/ PlanCreate
    BY <1>3 DEF ImportState, Destroy, Abandon, PlanCreate, budget, Chosen
  <1>4. ASSUME /\ edits' = edits /\ rewrites' = rewrites
               /\ faults' = faults \/ Fault
        PROVE  WithinBounds'
    BY <1>4 DEF Fault
  <1>5. CASE Read
    BY <1>4, <1>5 DEF Read
  <1>6. CASE ModifyPlan
    BY <1>4, <1>6 DEF ModifyPlan
  <1>7. CASE UpdateOrderList
    BY <1>4, <1>7 DEF UpdateOrderList
  <1>8. ASSUME NEW r, DeleteUnmanaged(r) PROVE WithinBounds'
    BY <1>4, <1>8 DEF DeleteUnmanaged
  <1>9. CASE Reorder
    BY <1>4, <1>9 DEF Reorder
  <1>10. CASE UNCHANGED vars
    BY <1>10 DEF vars
  <1>11. QED
    BY <1>1, <1>2, <1>3, <1>5, <1>6, <1>7, <1>8, <1>9, <1>10
       DEF Next, UiEdits, UiCreate, UiDelete, UiMove, UserChoice, TerraformRun

\* The orders and lists of every reachable state are lists of distinct ids.
THEOREM TypeCorrect == Spec => []TypeOK
  <1>1. Init => TypeOK
    <2> SUFFICES ASSUME Init PROVE TypeOK
      OBVIOUS
    <2>1. Initial \in Lists /\ Members(Initial) \subseteq Rulesets
      BY RulesetsAssumption DEF Members
    <2>2. cfg \in Config
      BY ConfigsAssumption DEF Init
    <2>3. WithinBounds
      BY BoundsAssumption DEF Init, WithinBounds
    <2>4. QED
      BY <2>1, <2>2, <2>3, SavedIsState, RulesetsAssumption DEF Init, TypeOK
  <1>2. TypeOK /\ [Next]_vars => TypeOK'
    <2> SUFFICES ASSUME TypeOK, [Next]_vars PROVE TypeOK'
      OBVIOUS
    <2>0. WithinBounds'
      BY BoundsKept DEF TypeOK
    <2>1. ASSUME NEW r \in Rulesets, UiCreate(r) PROVE TypeOK'
      <3>1. r \in Rulesets \ Members(remote)
        BY <2>1 DEF UiCreate, TypeOK
      <3>2. /\ remote' \in Lists
            /\ Members(remote') = Members(remote) \cup {r}
        BY <2>1, <3>1, UiEditsAreLists DEF UiCreate, UiEdit, TypeOK
      <3>3. QED
        BY <2>1, <2>0, <3>2 DEF UiCreate, UiEdit, TypeOK
    <2>2. ASSUME NEW r \in Rulesets, UiDelete(r) PROVE TypeOK'
      <3>1. /\ remote' \in Lists
            /\ Members(remote') = Members(remote) \ {r}
        BY <2>2, UiEditsAreLists DEF UiDelete, UiEdit, TypeOK
      <3>2. QED
        BY <2>2, <2>0, <3>1 DEF UiDelete, UiEdit, TypeOK
    <2>3. ASSUME NEW r \in Rulesets, NEW q \in Rulesets, UiMove(r, q)
          PROVE  TypeOK'
      <3>1. /\ remote' \in Lists
            /\ Members(remote') = Members(remote)
        BY <2>3, UiEditsAreLists DEF UiMove, UiEdit, TypeOK
      <3>2. QED
        BY <2>3, <2>0, <3>1 DEF UiMove, UiEdit, TypeOK
    <2>4. ASSUME NEW c \in Configs, EditConfig(c) PROVE TypeOK'
      BY <2>4, <2>0, ConfigsAssumption DEF EditConfig, TypeOK
    <2>5. CASE ImportState
      <3>1. NoState.place \in Lists
        BY NoRulesetsIsList DEF NoState
      <3>2. ReadPlace(NoState, remote) \in Lists
        BY <3>1, ReadPlaceIsList DEF TypeOK
      <3>3. st' \in States
        BY <2>5, <3>2, SavedIsState DEF ImportState
      <3>4. QED
        BY <2>5, <2>0, <3>3 DEF ImportState, Stop, budget, TypeOK
    <2>6. CASE Destroy
      BY <2>6, <2>0, SavedIsState DEF Destroy, Stop, budget, TypeOK
    <2>7. CASE Abandon
      BY <2>7, <2>0 DEF Abandon, Stop, budget, TypeOK
    <2>8. CASE Read
      <3>1. ReadPlace(st, remote) \in Lists
        BY ReadPlaceIsList DEF TypeOK, States
      <3>2. st' \in States
        BY <2>8, <3>1, SavedIsState DEF Read, TypeOK
      <3>3. seen' \in Lists
        BY <2>8 DEF Read, TypeOK
      <3>4. QED
        BY <2>8, <2>0, <3>2, <3>3 DEF Read, Stop, TypeOK
    <2>9. CASE PlanCreate
      BY <2>9, <2>0 DEF PlanCreate, budget, TypeOK
    <2>10. CASE ModifyPlan
      <3>1. plan' \in Config /\ lost' \subseteq Rulesets
        BY <2>10 DEF ModifyPlan, TypeOK
      <3>2. /\ pc' \in {"idle", "planned"}
            /\ outcome' \in {"none", "error", "no changes"}
        BY <2>10 DEF ModifyPlan, Stop
      <3>3. QED
        BY <2>10, <2>0, <3>1, <3>2 DEF ModifyPlan, TypeOK
    <2>11. CASE UpdateOrderList
      <3>1. Unmanaged(remote, plan.place) \subseteq Rulesets
        BY DEF Unmanaged, Members
      <3>2. st' \in States
        BY <2>11, SavedIsState DEF UpdateOrderList, ApplyFails, TypeOK
      <3>3. /\ doomed' \subseteq Rulesets
            /\ pc' \in {"idle", "deleting", "reordering"}
            /\ outcome' \in {outcome, "error"}
        BY <2>11, <3>1 DEF UpdateOrderList, ApplyFails, Stop, TypeOK
      <3>4. QED
        BY <2>11, <2>0, <3>2, <3>3 DEF UpdateOrderList, TypeOK
    <2>12. ASSUME NEW r \in Rulesets, DeleteUnmanaged(r) PROVE TypeOK'
      <3>1. remote' \in Lists /\ Members(remote') \subseteq born
        BY <2>12, ProviderEditsAreLists DEF DeleteUnmanaged, TypeOK
      <3>2. st' \in States
        BY <2>12, SavedIsState DEF DeleteUnmanaged, ApplyFails, TypeOK
      <3>3. /\ doomed' \subseteq Rulesets /\ lost' \subseteq Rulesets
            /\ pc' \in {"idle", "deleting"} /\ outcome' \in {outcome, "error"}
        BY <2>12 DEF DeleteUnmanaged, ApplyFails, Stop, TypeOK
      <3>4. QED
        BY <2>12, <2>0, <3>1, <3>2, <3>3 DEF DeleteUnmanaged, TypeOK
    <2>13. CASE Reorder
      <3>1. remote' \in {remote, PutFirst(remote, Request)}
        BY <2>13 DEF Reorder
      <3>2. remote' \in Lists /\ Members(remote') \subseteq born
        BY <3>1, ProviderEditsAreLists DEF TypeOK
      <3>3. st' \in States
        BY <2>13, SavedIsState DEF Reorder, ApplyFails, TypeOK
      <3>4. /\ doomed' \subseteq Rulesets
            /\ pc' = "idle" /\ outcome' \in {"applied", "error"}
        BY <2>13 DEF Reorder, ApplyFails, Stop, TypeOK
      <3>5. QED
        BY <2>13, <2>0, <3>2, <3>3, <3>4 DEF Reorder, TypeOK
    <2>14. CASE UNCHANGED vars
      BY <2>14, <2>0 DEF vars, TypeOK
    <2>15. QED
      BY <2>1, <2>2, <2>3, <2>4, <2>5, <2>6, <2>7, <2>8, <2>9, <2>10,
         <2>11, <2>12, <2>13, <2>14
         DEF Next, UiEdits, UserChoice, TerraformRun
  <1>3. QED
    BY <1>1, <1>2, PTL DEF Spec

-----------------------------------------------------------------------------
(* Safety: what each point of a run knows about the list it acts on *)

\* The queue of deletions, and the record of them, stay within what the list
\* of this apply called unmanaged.
DeletingInv ==
    /\ pc = "planned" => lost = {}
    /\ pc = "deleting" => /\ plan.override
                          /\ doomed \subseteq Unmanaged(listed, plan.place)
    /\ DeletesOnlyListedUnmanaged

\* A reorder that keeps the UI's rulesets has passed the checks on its list.
ReorderingInv ==
    pc = "reordering" =>
        /\ ~plan.override
        /\ Members(plan.place) \subseteq Members(listed)
        /\ \/ plan.repeats # 0
           \/ Unmanaged(listed, plan.place) = {}
           \/ AllAtEnd(listed, plan.place)

\* After a Read the state holds the listed order of what it names; under the
\* override that is all there is.
RefreshedInv ==
    /\ pc = "refreshed" =>
          /\ Members(st.place) \subseteq Members(seen)
          /\ st.place = Sorted(seen, Members(st.place))
          /\ st.override => Members(st.place) = Members(seen)
    /\ NoChangesMeansConforming

\* What is still to be deleted was listed and is not managed.
LEMMA DeletingHolds == Spec => []DeletingInv
  <1>1. Init => DeletingInv
    BY DEF Init, DeletingInv, DeletesOnlyListedUnmanaged
  <1>2. DeletingInv /\ [Next]_vars => DeletingInv'
    <2> SUFFICES ASSUME DeletingInv, [Next]_vars PROVE DeletingInv'
      OBVIOUS
    <2> USE DEF DeletingInv, DeletesOnlyListedUnmanaged
    <2>1. ASSUME NEW order, UiEdit(order) PROVE DeletingInv'
      BY <2>1 DEF UiEdit
    <2>2. ASSUME NEW c, EditConfig(c) PROVE DeletingInv'
      BY <2>2 DEF EditConfig
    <2>3. CASE ImportState \/ Destroy \/ Abandon
      BY <2>3 DEF ImportState, Destroy, Abandon, Stop
    <2>4. CASE Read
      BY <2>4 DEF Read, Stop
    <2>5. CASE PlanCreate
      BY <2>5 DEF PlanCreate
    <2>6. CASE ModifyPlan
      BY <2>6 DEF ModifyPlan, Stop
    <2>7. CASE UpdateOrderList
      BY <2>7 DEF UpdateOrderList, ApplyFails, Stop
    <2>8. ASSUME NEW r, DeleteUnmanaged(r) PROVE DeletingInv'
      BY <2>8 DEF DeleteUnmanaged, ApplyFails, Stop
    <2>9. CASE Reorder
      BY <2>9 DEF Reorder, ApplyFails, Stop
    <2>10. CASE UNCHANGED vars
      BY <2>10 DEF vars
    <2>11. QED
      BY <2>1, <2>2, <2>3, <2>4, <2>5, <2>6, <2>7, <2>8, <2>9, <2>10
         DEF Next, UiEdits, UiCreate, UiDelete, UiMove, UserChoice, TerraformRun
  <1>3. QED
    BY <1>1, <1>2, PTL DEF Spec

\* The provider deletes only what override_ui_defined_resources, the
\* configuration and its own list allow (DeletesOnlyListedUnmanaged).
THEOREM DeletionsSafe == Spec => []DeletesOnlyListedUnmanaged
  <1>1. DeletingInv => DeletesOnlyListedUnmanaged
    BY DEF DeletingInv
  <1>2. QED
    BY <1>1, DeletingHolds, PTL

\* The length test in front of the check loses nothing when no id repeats.
LEMMA NoLongerMeansAllManaged ==
    ASSUME NEW o \in Lists, NEW c \in Config, c.repeats = 0,
           Members(c.place) \subseteq Members(o),
           ~(Cardinality(Members(o)) > DesiredLen(c))
    PROVE  Unmanaged(o, c.place) = {}
  <1>1. Members(o) \in SUBSET Rulesets /\ Members(c.place) \in SUBSET Members(o)
    BY DEF Members
  <1>2. /\ Cardinality(Members(o)) \in Nat
        /\ Cardinality(Members(c.place)) \in Nat
        /\ Cardinality(Members(c.place)) <= Cardinality(Members(o))
    BY <1>1, SubsetCardinality
  <1>3. Cardinality(Members(c.place)) = Cardinality(Members(o))
    BY <1>2 DEF DesiredLen
  <1>4. QED
    BY <1>1, <1>3, SubsetCardinality DEF Unmanaged

\* What the checks establish is enough for the reorder to leave every
\* unmanaged ruleset where it is relative to all others.
LEMMA CheckedReorderKeepsPlaces ==
    ASSUME TypeOK, ReorderingInv
    PROVE  UnmanagedKeepsPlaceNoRepeats
  <1> SUFFICES ASSUME plan.repeats = 0, pc = "reordering",
                      NEW u \in Unmanaged(listed, plan.place),
                      NEW q \in Members(listed) \ {u}
               PROVE  listed[q] < listed[u] <=> Request[q] < Request[u]
    BY DEF UnmanagedKeepsPlaceNoRepeats, UnmanagedKeepsPlace
  <1>1. listed \in Lists /\ plan \in Config /\ plan.place \in Lists
    BY DEF TypeOK, Config
  <1>2. ~plan.override /\ AllAtEnd(listed, plan.place)
    BY DEF ReorderingInv
  <1>3. Request = FinalOrder(listed, plan)
    BY <1>2 DEF Request
  <1>4. CASE q \in Unmanaged(listed, plan.place)
    BY <1>1, <1>3, <1>4, FinalOrderFacts
  <1>5. CASE q \notin Unmanaged(listed, plan.place)
    <2>1. listed[q] < listed[u]
      BY <1>1, <1>2, <1>5, AllAtEndMeansLast
    <2>2. q \in Members(plan.place)
      BY <1>5 DEF Unmanaged
    <2>3. Request[q] < Request[u]
      BY <1>1, <1>3, <2>2, FinalOrderFacts
    <2>4. QED
      BY <2>1, <2>3
  <1>6. QED
    BY <1>4, <1>5

\* Without the override, and with no id repeated in the configuration, a
\* reorder never moves an unmanaged ruleset past another one.
THEOREM ReorderSafe == Spec => []UnmanagedKeepsPlaceNoRepeats
  <1>1. Init => ReorderingInv
    BY DEF Init, ReorderingInv
  <1>2. TypeOK /\ ReorderingInv /\ [Next]_vars => ReorderingInv'
    <2> SUFFICES ASSUME TypeOK, ReorderingInv, [Next]_vars
                 PROVE  ReorderingInv'
      OBVIOUS
    <2>1. CASE UpdateOrderList
      <3>1. CASE pc' = "reordering"
        <4>1. /\ Members(plan.place) \subseteq Members(remote)
              /\ ~plan.override
              /\ ~(/\ Cardinality(Members(remote)) > DesiredLen(plan)
                   /\ UnmanagedInMiddle(remote, plan.place))
              /\ listed' = remote /\ plan' = plan
          BY <2>1, <3>1 DEF UpdateOrderList, ApplyFails, Stop
        <4>2. remote \in Lists /\ plan \in Config
          BY DEF TypeOK
        <4>3. \/ plan.repeats # 0
              \/ Unmanaged(remote, plan.place) = {}
              \/ AllAtEnd(remote, plan.place)
          BY <4>1, <4>2, NoLongerMeansAllManaged DEF UnmanagedInMiddle
        <4>4. QED
          BY <4>1, <4>3 DEF ReorderingInv
      <3>2. CASE pc' # "reordering"
        BY <3>2 DEF ReorderingInv
      <3>3. QED
        BY <3>1, <3>2
    <2> USE DEF ReorderingInv
    <2>2. ASSUME NEW order, UiEdit(order) PROVE ReorderingInv'
      BY <2>2 DEF UiEdit
    <2>3. ASSUME NEW c, EditConfig(c) PROVE ReorderingInv'
      BY <2>3 DEF EditConfig
    <2>4. CASE ImportState \/ Destroy \/ Abandon \/ Read
      BY <2>4 DEF ImportState, Destroy, Abandon, Read, Stop
    <2>5. CASE PlanCreate \/ ModifyPlan
      BY <2>5 DEF PlanCreate, ModifyPlan, Stop
    <2>6. ASSUME NEW r, DeleteUnmanaged(r) PROVE ReorderingInv'
      BY <2>6 DEF DeleteUnmanaged, ApplyFails, Stop
    <2>7. CASE Reorder
      BY <2>7 DEF Reorder, ApplyFails, Stop
    <2>8. CASE UNCHANGED vars
      BY <2>8 DEF vars
    <2>9. QED
      BY <2>1, <2>2, <2>3, <2>4, <2>5, <2>6, <2>7, <2>8
         DEF Next, UiEdits, UiCreate, UiDelete, UiMove, UserChoice, TerraformRun
  <1>3. QED
    BY <1>1, <1>2, TypeCorrect, CheckedReorderKeepsPlaces, PTL DEF Spec

\* A state that equals the configuration right after a Read is the truth.
LEMMA EqualAfterReadConforms ==
    ASSUME RefreshedInv, pc = "refreshed", ~Differs(st, cfg)
    PROVE  Conforms(seen, cfg)
  <1>1. st.place = cfg.place /\ st.override = cfg.override
    BY DEF Differs
  <1>2. /\ Members(cfg.place) \subseteq Members(seen)
        /\ cfg.place = Sorted(seen, Members(cfg.place))
        /\ cfg.override => Members(cfg.place) = Members(seen)
    BY <1>1 DEF RefreshedInv
  <1>3. Members(cfg.place) \cap Members(seen) = Members(cfg.place)
    BY <1>2
  <1>4. QED
    BY <1>2, <1>3 DEF Conforms, Unmanaged

\* "No changes" is only said of an order that conforms to the configuration.
THEOREM NoChangesSafe == Spec => []NoChangesMeansConforming
  <1>1. Init => RefreshedInv
    BY DEF Init, RefreshedInv, NoChangesMeansConforming
  <1>2. TypeOK /\ RefreshedInv /\ [Next]_vars => RefreshedInv'
    <2> SUFFICES ASSUME TypeOK, RefreshedInv, [Next]_vars
                 PROVE  RefreshedInv'
      OBVIOUS
    <2>1. CASE Read
      <3>1. CASE pc' = "refreshed"
        <4> DEFINE taken == IF ~st.override /\ Members(st.place) # {}
                            THEN Members(st.place) \cap Members(remote)
                            ELSE Members(remote)
        <4>1. st' = [st EXCEPT !.place = Sorted(remote, taken), !.repeats = 0]
          BY <2>1, <3>1 DEF Read, ReadPlace, Stop
        <4>2. /\ seen' = remote /\ outcome' = "none"
              /\ st'.place = Sorted(remote, taken)
              /\ st'.override = st.override
          BY <2>1, <3>1, <4>1 DEF Read, Stop, TypeOK, States
        <4>3. taken \subseteq Members(remote) /\ taken \in SUBSET Rulesets
          BY DEF Members
        <4>4. remote \in [Rulesets -> Nat]
          BY DEF TypeOK, Lists
        <4>5. Members(st'.place) = taken
          BY <4>2, <4>3, <4>4, SortedFacts
        <4>6. st.override => taken = Members(remote)
          OBVIOUS
        <4> HIDE DEF taken
        <4>7. QED
          BY <4>2, <4>3, <4>5, <4>6
             DEF RefreshedInv, NoChangesMeansConforming
      <3>2. CASE pc' # "refreshed"
        BY <2>1, <3>2 DEF Read, Stop, RefreshedInv, NoChangesMeansConforming
      <3>3. QED
        BY <3>1, <3>2
    <2>2. CASE ModifyPlan
      <3>1. CASE outcome' = "no changes"
        <4>1. /\ pc = "refreshed" /\ ~Differs(st, cfg) /\ pc' = "idle"
              /\ seen' = seen /\ cfg' = cfg
          BY <2>2, <3>1 DEF ModifyPlan, Stop
        <4>2. QED
          BY <4>1, EqualAfterReadConforms
             DEF RefreshedInv, NoChangesMeansConforming
      <3>2. CASE outcome' # "no changes"
        BY <2>2, <3>2 DEF ModifyPlan, Stop, RefreshedInv,
                          NoChangesMeansConforming
      <3>3. QED
        BY <3>1, <3>2
    <2> USE DEF RefreshedInv, NoChangesMeansConforming
    <2>3. ASSUME NEW order, UiEdit(order) PROVE RefreshedInv'
      BY <2>3 DEF UiEdit
    <2>4. ASSUME NEW c, EditConfig(c) PROVE RefreshedInv'
      BY <2>4 DEF EditConfig
    <2>5. CASE ImportState \/ Destroy \/ Abandon \/ PlanCreate
      BY <2>5 DEF ImportState, Destroy, Abandon, PlanCreate, Stop
    <2>6. CASE UpdateOrderList
      BY <2>6 DEF UpdateOrderList, ApplyFails, Stop
    <2>7. ASSUME NEW r, DeleteUnmanaged(r) PROVE RefreshedInv'
      BY <2>7 DEF DeleteUnmanaged, ApplyFails, Stop
    <2>8. CASE Reorder
      BY <2>8 DEF Reorder, ApplyFails, Stop
    <2>9. CASE UNCHANGED vars
      BY <2>9 DEF vars
    <2>10. QED
      BY <2>1, <2>2, <2>3, <2>4, <2>5, <2>6, <2>7, <2>8, <2>9
         DEF Next, UiEdits, UiCreate, UiDelete, UiMove, UserChoice, TerraformRun
  <1>3. RefreshedInv => NoChangesMeansConforming
    BY DEF RefreshedInv
  <1>4. QED
    BY <1>1, <1>2, <1>3, TypeCorrect, PTL DEF Spec

-----------------------------------------------------------------------------
(* The resource implements OwnedOrder *)

\* A delete leaves the others in the order they have.
LEMMA SortedKeeps ==
    ASSUME NEW o \in Lists, NEW r \in Rulesets
    PROVE  LET p == Sorted(o, Members(o) \ {r})
           IN  /\ p \in Owned!Orders
               /\ Owned!In(p) = Owned!In(o) \ {r}
               /\ Owned!SameOrder(o, p, Owned!In(p))
  <1> DEFINE S == Members(o) \ {r}
             p == Sorted(o, S)
  <1>1. o \in [Rulesets -> Nat] /\ S \in SUBSET Rulesets
    BY DEF Lists, Members
  <1>2. /\ p \in [Rulesets -> Nat] /\ Members(p) = S
        /\ \A q, v \in S : o[q] < o[v] <=> p[q] < p[v]
    BY <1>1, SortedFacts
  <1>3. Owned!In(p) = S /\ Owned!In(o) = Members(o)
    BY <1>2 DEF Owned!In, Members
  <1>4. QED
    BY <1>2, <1>3 DEF Owned!Orders, Owned!SameOrder

\* A request puts what it names first, in its order, and moves no other.
LEMMA PutFirstKeeps ==
    ASSUME NEW o \in Lists, NEW request \in [Rulesets -> Nat]
    PROVE  LET named == Members(request) \cap Members(o)
               rest == Members(o) \ named
               p == PutFirst(o, request)
           IN  /\ \A r, q \in named : request[r] < request[q] <=> p[r] < p[q]
               /\ \A r \in named, q \in rest : p[r] < p[q]
               /\ \A r, q \in rest : o[r] < o[q] <=> p[r] < p[q]
  <1> DEFINE named == Members(request) \cap Members(o)
             rest == Members(o) \ named
             p == PutFirst(o, request)
             sn == Sorted(request, named)
             sr == Sorted(o, rest)
             n == Cardinality(named)
             k == Cardinality(rest)
  <1>1. /\ named \in SUBSET Rulesets /\ rest \in SUBSET Rulesets
        /\ o \in [Rulesets -> Nat]
    BY DEF Members, Lists
  <1>2. n \in Nat /\ k \in Nat
    BY <1>1, SubsetCardinality
  <1>3. /\ \A r \in named : sn[r] \in 1..n
        /\ \A r, q \in named : request[r] < request[q] <=> sn[r] < sn[q]
    BY <1>1, SortedFacts
  <1>4. /\ \A r \in rest : sr[r] \in 1..k
        /\ \A r, q \in rest : o[r] < o[q] <=> sr[r] < sr[q]
    BY <1>1, SortedFacts
  <1>5. p = [r \in Rulesets |-> IF r \in named THEN sn[r]
                                ELSE IF r \in rest THEN n + sr[r] ELSE 0]
    BY DEF PutFirst
  <1> HIDE DEF p, sn, sr, n, k
  <1>6. /\ \A r \in named : p[r] = sn[r]
        /\ \A r \in rest : p[r] = n + sr[r]
    BY <1>1, <1>5
  <1>7. \A r, q \in named : request[r] < request[q] <=> p[r] < p[q]
    BY <1>3, <1>6
  <1>8. \A r \in named, q \in rest : p[r] < p[q]
    BY <1>2, <1>3, <1>4, <1>6
  <1>9. \A r, q \in rest : o[r] < o[q] <=> p[r] < p[q]
    BY <1>2, <1>4, <1>6
  <1>10. QED
    BY <1>7, <1>8, <1>9 DEF p

\* Whatever was listed, the order that a reorder leaves is one the owner may
\* arrange.
LEMMA ReorderArranges ==
    ASSUME TypeOK, remote' = PutFirst(remote, Request),
           UNCHANGED <<listed, plan, edits>>
    PROVE  Owned!Arrange
  <1> DEFINE claimed == Members(plan.place)
             all == Members(remote)
             named == Members(Request) \cap all
             rest == all \ named
             p == PutFirst(remote, Request)
  <1>1. /\ remote \in Lists /\ listed \in Lists /\ plan \in Config
        /\ plan.place \in Lists
    BY DEF TypeOK, Config
  <1>2. /\ Request \in [Rulesets -> Nat]
        /\ \A r, q \in Members(Request) : Request[r] = Request[q] => r = q
    BY RequestFacts
  <1>3. p \in Lists /\ Members(p) = all
    BY <1>1, <1>2, PutFirstFacts
  <1>4. /\ \A r, q \in named : Request[r] < Request[q] <=> p[r] < p[q]
        /\ \A r \in named, q \in rest : p[r] < p[q]
        /\ \A r, q \in rest : remote[r] < remote[q] <=> p[r] < p[q]
    BY <1>1, <1>2, PutFirstKeeps
  <1>5. claimed \subseteq Members(Request)
    <2>1. CASE plan.override
      BY <2>1 DEF Request
    <2>2. CASE ~plan.override
      BY <1>1, <2>2, FinalOrderFacts DEF Request
    <2>3. QED
      BY <2>1, <2>2
  <1>6. \A r, q \in claimed : plan.place[r] < plan.place[q] <=> Request[r] < Request[q]
    <2>1. CASE plan.override
      BY <2>1 DEF Request
    <2>2. CASE ~plan.override
      BY <1>1, <2>2, FinalOrderFacts DEF Request
    <2>3. QED
      BY <2>1, <2>2
  <1>7. /\ Owned!In(remote) = all /\ Owned!In(p) = all
        /\ Owned!In(listed) = Members(listed) /\ Owned!Claimed = claimed
    BY <1>3 DEF Owned!In, Owned!Claimed, Members
  <1>8. \A r, q \in claimed \cap all : plan.place[r] < plan.place[q] <=> p[r] < p[q]
    BY <1>4, <1>5, <1>6
  <1>9. ASSUME NEW r \in all \cap claimed, NEW q \in all \ claimed
        PROVE  p[r] < p[q]
    <2>1. CASE q \in rest
      BY <1>4, <1>5, <2>1
    <2>2. CASE q \in named /\ plan.override
      BY <2>2 DEF Request
    <2>3. CASE q \in named /\ ~plan.override
      <3>1. q \in Unmanaged(listed, plan.place)
        BY <1>1, <2>3, FinalOrderFacts DEF Request, Unmanaged
      <3>2. Request[r] < Request[q]
        BY <1>1, <2>3, <3>1, FinalOrderFacts DEF Request
      <3>3. QED
        BY <1>4, <1>5, <2>3, <3>2
    <2>4. QED
      BY <2>1, <2>2, <2>3
  <1>10. ASSUME ~plan.override,
                NEW r \in (all \cap Members(listed)) \ claimed,
                NEW q \in (all \cap Members(listed)) \ claimed
         PROVE  listed[r] < listed[q] <=> p[r] < p[q]
    <2>1. r \in Unmanaged(listed, plan.place) /\ q \in Unmanaged(listed, plan.place)
      BY DEF Unmanaged
    <2>2. r \in named /\ q \in named
      BY <1>1, <1>10, FinalOrderFacts DEF Request
    <2>3. listed[r] < listed[q] <=> Request[r] < Request[q]
      BY <1>1, <1>10, <2>1, FinalOrderFacts DEF Request
    <2>4. QED
      BY <1>4, <2>2, <2>3
  <1>11. ASSUME NEW r \in all \ (Members(listed) \cup claimed),
                NEW q \in all \ (Members(listed) \cup claimed)
         PROVE  remote[r] < remote[q] <=> p[r] < p[q]
    <2>1. Members(Request) \subseteq claimed \cup Members(listed)
      BY <1>1, FinalOrderFacts DEF Request
    <2>2. QED
      BY <1>4, <2>1
  <1>12. remote' \in Owned!Orders
    BY <1>3 DEF Owned!Orders, Lists
  <1> HIDE DEF p
  <1>13. remote' = p
    BY DEF p
  <1>14. /\ Owned!SameOrder(plan.place, remote', claimed \cap all)
         /\ ~plan.override => Owned!SameOrder(listed, remote',
                                (all \cap Members(listed)) \ claimed)
         /\ Owned!SameOrder(remote, remote', all \ (Members(listed) \cup claimed))
    BY <1>8, <1>10, <1>11, <1>13 DEF Owned!SameOrder
  <1>15. QED
    BY <1>7, <1>9, <1>12, <1>13, <1>14 DEF Owned!Arrange

\* Every step of the resource, of Terraform and of the UI is one of an owner
\* or of others, or leaves the order, the view and the claim alone.
LEMMA StepOwns ==
    ASSUME TypeOK, TypeOK', DeletingInv, [Next]_vars
    PROVE  [Owned!Next]_Owned!vars
  <1>1. /\ remote \in Owned!Orders /\ remote' \in Owned!Orders
        /\ listed \in Owned!Orders /\ listed' \in Owned!Orders
        /\ [place |-> plan.place, exclusive |-> plan.override] \in Owned!Claims
        /\ [place |-> plan'.place, exclusive |-> plan'.override] \in Owned!Claims
    BY DEF TypeOK, Lists, Config, Owned!Orders, Owned!Claims
  <1>2. ASSUME UNCHANGED <<remote, listed, edits>>
        PROVE  [Owned!Next]_Owned!vars
    BY <1>1, <1>2 DEF Owned!Next, Owned!Claim, Owned!vars
  <1>3. ASSUME NEW order, UiEdit(order) PROVE [Owned!Next]_Owned!vars
    BY <1>1, <1>3 DEF UiEdit, Owned!Next, Owned!Others
  <1>4. ASSUME NEW c, EditConfig(c) PROVE [Owned!Next]_Owned!vars
    BY <1>2, <1>4 DEF EditConfig
  <1>5. CASE ImportState \/ Destroy \/ Abandon \/ PlanCreate
    BY <1>2, <1>5 DEF ImportState, Destroy, Abandon, PlanCreate, budget
  <1>6. CASE Read \/ ModifyPlan
    BY <1>2, <1>6 DEF Read, ModifyPlan
  <1>7. CASE UpdateOrderList
    <2>1. listed' = remote /\ UNCHANGED <<remote, plan, edits>>
      BY <1>7 DEF UpdateOrderList
    <2>2. Owned!Look
      BY <1>1, <2>1 DEF Owned!Look
    <2>3. QED
      BY <2>2 DEF Owned!Next
  <1>8. ASSUME NEW r \in Rulesets, DeleteUnmanaged(r)
        PROVE  [Owned!Next]_Owned!vars
    <2>1. UNCHANGED <<listed, plan, edits>>
      BY <1>8 DEF DeleteUnmanaged
    <2>2. CASE remote' = remote
      BY <1>2, <2>1, <2>2
    <2>3. CASE remote' = Sorted(remote, Members(remote) \ {r})
      <3>1. remote \in Lists
        BY DEF TypeOK
      <3>2. plan.override /\ r \in Members(listed) \ Members(plan.place)
        BY <1>8 DEF DeleteUnmanaged, DeletingInv, Unmanaged
      <3>3. r \in Owned!In(listed) \ Owned!Claimed
        BY <3>2 DEF Owned!In, Owned!Claimed, Members
      <3>4. /\ Owned!In(remote') = Owned!In(remote) \ {r}
            /\ Owned!SameOrder(remote, remote', Owned!In(remote'))
        BY <2>3, <3>1, SortedKeeps
      <3>5. Owned!Remove(r)
        BY <1>1, <2>1, <3>2, <3>3, <3>4 DEF Owned!Remove
      <3>6. QED
        BY <3>5 DEF Owned!Next
    <2>4. QED
      BY <1>8, <2>2, <2>3 DEF DeleteUnmanaged
  <1>9. CASE Reorder
    <2>1. UNCHANGED <<listed, plan, edits>>
      BY <1>9 DEF Reorder
    <2>2. CASE remote' = remote
      BY <1>2, <2>1, <2>2
    <2>3. CASE remote' = PutFirst(remote, Request)
      BY <2>1, <2>3, ReorderArranges DEF Owned!Next
    <2>4. QED
      BY <1>9, <2>2, <2>3 DEF Reorder
  <1>10. CASE UNCHANGED vars
    BY <1>2, <1>10 DEF vars
  <1>11. QED
    BY <1>3, <1>4, <1>5, <1>6, <1>7, <1>8, <1>9, <1>10
       DEF Next, UiEdits, UiCreate, UiDelete, UiMove, UserChoice, TerraformRun

\* The order of the rulesets implements the promise of OwnedOrder.
THEOREM Implements == Spec => OwnsItsOrder
  <1>1. Init /\ TypeOK => Owned!Init
    BY DEF Init, TypeOK, Lists, Config, Owned!Init, Owned!Orders, Owned!Claims
  <1>2. TypeOK /\ TypeOK' /\ DeletingInv /\ [Next]_vars
            => [Owned!Next]_Owned!vars
    BY StepOwns
  <1>3. Spec => []DeletingInv
    BY DeletingHolds
  <1>4. QED
    BY <1>1, <1>2, <1>3, TypeCorrect, PTL DEF Spec, OwnsItsOrder, Owned!Spec
=============================================================================
