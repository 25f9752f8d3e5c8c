------------------------ MODULE AllocationRules_proofs ------------------------
(***************************************************************************)
(* The rules and their order, for any number of rules, ids, configurations *)
(* and edits: no apply deletes what it is configured to keep, a run that   *)
(* ends well leaves what is configured, and the two resources together     *)
(* implement OwnedOrder.                                                   *)
(***************************************************************************)
EXTENDS AllocationRules, FiniteSetTheorems, WellFoundedInduction, TLAPS

-----------------------------------------------------------------------------
(* The highest number                                                      *)

Below == {p \in Nat \X Nat : p[1] < p[2]}

LEMMA LeastNumber ==
  ASSUME NEW T \in SUBSET Nat, T # {}
  PROVE  \E m \in T : \A n \in T : m <= n
<1>1. IsWellFoundedOn(Below, Nat)
  BY NatLessThanWellFounded DEF OpToRel, Below
<1>2. PICK m \in T : \A n \in T : <<n, m>> \notin Below
  BY <1>1, WFMin
<1>3. ASSUME NEW n \in T PROVE m <= n
  <2>1. m \in Nat /\ n \in Nat
    OBVIOUS
  <2>2. n < m => <<n, m>> \in Below
    BY <2>1 DEF Below
  <2> QED
    BY <1>2, <2>1, <2>2
<1> QED
  BY <1>3

(* Finitely many numbers have a bound: the least number of them that has   *)
(* none cannot exist.                                                      *)
LEMMA NumbersAreBounded ==
  ASSUME NEW k \in Nat, NEW f \in [1..k -> Nat]
  PROVE  \E b \in Nat : \A i \in 1..k : f[i] <= b
<1> DEFINE Bounded(j) == \E b \in Nat : \A i \in 1..j : f[i] <= b
           T == {j \in 0..k : ~Bounded(j)}
<1> HIDE DEF Bounded
<1>0. T \subseteq Nat
  OBVIOUS
<1>1. CASE T = {}
  <2>1. k \in 0..k /\ Bounded(k)
    BY <1>1
  <2> QED
    BY <2>1 DEF Bounded
<1>2. CASE T # {}
  <2>1. PICK m \in T : \A n \in T : m <= n
    BY <1>0, <1>2, LeastNumber
  <2>2. m \in 0..k /\ ~Bounded(m)
    OBVIOUS
  <2>3. m # 0
    <3>1. \A i \in 1..0 : f[i] <= 0
      OBVIOUS
    <3>2. Bounded(0)
      BY <3>1 DEF Bounded
    <3> QED
      BY <2>2, <3>2
  <2>4. Bounded(m - 1)
    <3>1. m - 1 \in 0..k /\ ~(m <= m - 1)
      BY <2>2, <2>3
    <3> QED
      BY <2>1, <3>1
  <2>5. PICK b \in Nat : \A i \in 1..(m - 1) : f[i] <= b
    BY <2>4 DEF Bounded
  <2>6. m \in 1..k /\ f[m] \in Nat
    BY <2>2, <2>3
  <2>7. ASSUME NEW i \in 1..m PROVE f[i] <= b + f[m]
    <3>1. CASE i = m
      BY <2>6, <3>1
    <3>2. CASE i # m
      <4>1. i \in 1..(m - 1) /\ f[i] \in Nat
        BY <2>6, <3>2
      <4> QED
        BY <2>5, <2>6, <4>1
    <3> QED
      BY <3>1, <3>2
  <2>8. b + f[m] \in Nat
    BY <2>6
  <2>9. Bounded(m)
    BY <2>7, <2>8 DEF Bounded
  <2> QED
    BY <2>2, <2>9
<1> QED
  BY <1>1, <1>2

(* The number that a new rule gets is one more than a number.              *)
LEMMA HighestIsNumber ==
  ASSUME orderId \in [Ids -> Nat]
  PROVE  /\ Highest \in Nat
         /\ \A i \in Ids : orderId[i] <= Highest
<1> DEFINE values == {0} \cup {orderId[i] : i \in Ids}
           bounds == {b \in Nat : \A i \in Ids : orderId[i] <= b}
<1>0. MaxIds \in Nat
  BY BoundsAssumption
<1>1. bounds # {}
  BY <1>0, NumbersAreBounded DEF Ids
<1>2. PICK m \in bounds : \A b \in bounds : m <= b
  BY <1>1, LeastNumber
<1>3. m \in values
  <2>1. CASE m = 0
    BY <2>1
  <2>2. CASE m # 0
    <3>1. m - 1 \in Nat /\ ~(m <= m - 1)
      BY <2>2
    <3>2. PICK i \in Ids : ~(orderId[i] <= m - 1)
      BY <1>2, <3>1
    <3>3. orderId[i] \in Nat /\ orderId[i] <= m
      OBVIOUS
    <3>4. orderId[i] = m
      BY <3>1, <3>2, <3>3
    <3> QED
      BY <3>4
  <2> QED
    BY <2>1, <2>2
<1>4. \A i \in Ids : orderId[i] <= m
  OBVIOUS
<1>5. values \subseteq Nat
  OBVIOUS
<1>6. /\ Highest \in values
      /\ \A i \in Ids : orderId[i] <= Highest
  BY <1>3, <1>4 DEF Highest
<1> QED
  BY <1>5, <1>6

-----------------------------------------------------------------------------
(* Sequences of ids                                                        *)

LEMMA IdsAreFinite ==
  ASSUME NEW S \in SUBSET Ids
  PROVE  /\ IsFiniteSet(S) /\ Cardinality(S) \in Nat
         /\ \A T \in SUBSET S : /\ Cardinality(T) \in Nat
                                /\ Cardinality(T) <= Cardinality(S)
                                /\ Cardinality(T) = Cardinality(S) => T = S
<1>1. IsFiniteSet(Ids)
  BY BoundsAssumption, FS_Interval DEF Ids
<1>2. IsFiniteSet(S)
  BY <1>1, FS_Subset
<1> QED
  BY <1>2, FS_Subset, FS_CardinalityType

(* The rules as they are listed: each once, by number.                     *)
LEMMA SortingsFacts ==
  ASSUME NEW S \in SUBSET Ids, NEW s \in Sortings(S)
  PROVE  /\ s \in Seq(Ids) /\ Range(s) = S
         /\ \A m, n \in 1..Len(s) : m < n => orderId[s[m]] <= orderId[s[n]]
<1>1. /\ s \in [1..Cardinality(S) -> S]
      /\ \A m, n \in 1..Cardinality(S) : m # n => s[m] # s[n]
  BY DEF Sortings, SetToSeqs
<1>2. Cardinality(S) \in Nat /\ IsFiniteSet(S)
  BY IdsAreFinite
<1>3. s \in Seq(Ids)
  BY <1>1, <1>2
<1>4. s \in Injection(1..Cardinality(S), S)
  BY <1>1 DEF Injection, IsInjective
<1>5. Cardinality(1..Cardinality(S)) = Cardinality(S)
  BY <1>2, FS_Interval
<1>6. s \in Surjection(1..Cardinality(S), S)
  BY <1>2, <1>4, <1>5, FS_Injection
<1>7. Range(s) = S
  BY <1>1, <1>6 DEF Surjection, Range
<1> QED
  BY <1>3, <1>7 DEF Sortings

LEMMA PlaceFacts ==
  ASSUME NEW s, s \in Seq(Ids \cup {0})
  PROVE  /\ Place(s) \in [Ids -> Nat]
         /\ \A i \in Ids : Place(s)[i] > 0 <=> i \in Range(s)
         /\ \A i \in Ids \cap Range(s) :
               Place(s)[i] \in 1..Len(s) /\ s[Place(s)[i]] = i
<1>0. Len(s) \in Nat /\ DOMAIN s = 1..Len(s)
  OBVIOUS
<1>1. ASSUME NEW i \in Ids \cap Range(s)
      PROVE  Place(s)[i] \in 1..Len(s) /\ s[Place(s)[i]] = i
  <2>1. \E n \in 1..Len(s) : s[n] = i
    BY <1>0 DEF Range
  <2>2. Place(s)[i] = CHOOSE n \in 1..Len(s) : s[n] = i
    BY DEF Place
  <2> QED
    BY <2>1, <2>2
<1>2. \A i \in Ids \ Range(s) : Place(s)[i] = 0
  BY DEF Place
<1>3. \A i \in Ids : Place(s)[i] \in Nat
  BY <1>0, <1>1, <1>2
<1>4. Place(s) \in [Ids -> Nat]
  BY <1>3 DEF Place
<1> QED
  BY <1>0, <1>1, <1>2, <1>4

(* The rest of a reorder keeps the order it was listed in.                 *)
LEMMA RestFacts ==
  ASSUME listed \in Seq(Ids)
  PROVE  /\ Rest \in SUBSET Ids /\ Cardinality(Rest) \in Nat
         /\ \A i \in Rest : RestPlace(i) \in 1..Cardinality(Rest)
         /\ \A i, j \in Rest : Place(listed)[i] < Place(listed)[j]
                                <=> RestPlace(i) < RestPlace(j)
<1> DEFINE p == Place(listed)
           Upto(i) == {j \in Rest : p[j] <= p[i]}
<1>1. Range(listed) \subseteq Ids
  BY DEF Range
<1>2. Rest \in SUBSET Ids /\ Cardinality(Rest) \in Nat
  BY <1>1, IdsAreFinite DEF Rest
<1>3. \A i \in Rest : p[i] \in Nat
  BY <1>2, PlaceFacts
<1>4. \A i \in Rest : RestPlace(i) = Cardinality(Upto(i))
  BY DEF RestPlace
<1> HIDE DEF p
<1>5. ASSUME NEW i \in Rest
      PROVE  Cardinality(Upto(i)) \in 1..Cardinality(Rest)
  <2>1. Upto(i) \in SUBSET Rest /\ Upto(i) \in SUBSET Ids /\ i \in Upto(i)
    BY <1>2, <1>3
  <2>2. /\ Cardinality(Upto(i)) \in Nat
        /\ Cardinality(Upto(i)) <= Cardinality(Rest)
        /\ IsFiniteSet(Upto(i))
    BY <1>2, <2>1, IdsAreFinite
  <2>3. Cardinality(Upto(i)) # 0
    BY <2>1, <2>2, FS_EmptySet
  <2> QED
    BY <1>2, <2>2, <2>3
<1>6. ASSUME NEW i \in Rest, NEW j \in Rest, p[i] <= p[j]
      PROVE  Cardinality(Upto(i)) <= Cardinality(Upto(j))
  <2>1. Upto(i) \in SUBSET Upto(j) /\ Upto(j) \in SUBSET Ids
    BY <1>2, <1>3, <1>6
  <2> QED
    BY <2>1, IdsAreFinite
<1>7. ASSUME NEW i \in Rest, NEW j \in Rest, p[i] < p[j]
      PROVE  Cardinality(Upto(i)) < Cardinality(Upto(j))
  <2>1. Upto(i) \in SUBSET Upto(j) /\ Upto(j) \in SUBSET Ids
    BY <1>2, <1>3, <1>7
  <2>2. j \in Upto(j) /\ j \notin Upto(i)
    BY <1>3, <1>7
  <2>3. Upto(i) # Upto(j)
    BY <2>2
  <2> QED
    BY <2>1, <2>3, IdsAreFinite
<1>8. ASSUME NEW i \in Rest, NEW j \in Rest
      PROVE  p[i] < p[j] <=> Cardinality(Upto(i)) < Cardinality(Upto(j))
  <2>1. Cardinality(Upto(i)) \in Nat /\ Cardinality(Upto(j)) \in Nat
    BY <1>2, <1>5
  <2>2. p[i] < p[j] => Cardinality(Upto(i)) < Cardinality(Upto(j))
    BY <1>7
  <2>3. p[j] <= p[i] => Cardinality(Upto(j)) <= Cardinality(Upto(i))
    BY <1>6
  <2>4. p[i] \in Nat /\ p[j] \in Nat
    BY <1>3
  <2> HIDE DEF Upto
  <2> QED
    BY <2>1, <2>2, <2>3, <2>4
<1> QED
  BY <1>2, <1>4, <1>5, <1>8 DEF p

-----------------------------------------------------------------------------
(* The invariant                                                           *)

\* Datadog: ids that were not given out have no number.
NumbersOK ==
  /\ orderId \in [Ids -> Nat] /\ says \in [Ids -> Vals]
  /\ used \in 0..MaxIds /\ made \subseteq 1..used
  /\ \A i \in Ids : i > used => orderId[i] = 0

\* The state: every entry is about a rule Terraform made, no two about one.
StateOK ==
  /\ cfg \in Configs
  /\ rules \in [Keys -> [id : Ids \cup {0}, at : Nat, val : Vals \cup {"none"}]]
  /\ \A k \in Keys : rules[k].id \in made \cup {0}
  /\ \A k, l \in Keys : rules[k].id = rules[l].id /\ rules[k].id # 0 => k = l

RunOK ==
  /\ plan.cfg \in Configs
  /\ desired \in [ids : Seq(Ids \cup {0}), override : BOOLEAN]
  /\ listed \in Seq(Ids) /\ doomed \subseteq Ids
  /\ edits \in Nat

TypeOK == NumbersOK /\ StateOK /\ RunOK

\* The order is applied with the ids that the applied rules have, and deletes
\* only what it listed and does not keep.
ApplyKnows ==
  /\ pc \in {"ordering", "deleting", "reordering"} => desired.ids = IdList(plan.cfg)
  /\ pc = "deleting" =>
        desired.override /\ doomed \subseteq Range(listed) \ Range(desired.ids)

IInv == TypeOK /\ ApplyKnows

-----------------------------------------------------------------------------
(* Every step keeps it                                                     *)

LEMMA ListFacts ==
  ASSUME NEW c \in Configs
  PROVE  /\ c.list \in Seq(Keys) /\ Len(c.list) \in Nat
         /\ DOMAIN c.list = 1..Len(c.list)
         /\ c.override \in BOOLEAN /\ c.val \in Vals
         /\ \A m, n \in 1..Len(c.list) : c.list[m] = c.list[n] => m = n
<1>1. Cardinality(Keys) \in Nat
  BY KeysAssumption, FS_CardinalityType
<1>2. c \in Config /\ IsInjective(c.list)
  BY ConfigsAssumption
<1>3. PICK n \in 0..Cardinality(Keys) : c.list \in [1..n -> Keys]
  BY <1>2 DEF Config
<1>4. n \in Nat /\ c.list \in Seq(Keys)
  BY <1>1, <1>3
<1> QED
  BY <1>2, <1>4 DEF Config, IsInjective

LEMMA IdListFacts ==
  ASSUME StateOK, NumbersOK, NEW c \in Configs
  PROVE  /\ IdList(c) \in Seq(Ids \cup {0}) /\ Len(IdList(c)) = Len(c.list)
         /\ \A n \in 1..Len(c.list) : IdList(c)[n] = rules[c.list[n]].id
         /\ \A k \in Range(c.list) : rules[k].id \in Range(IdList(c))
<1>1. /\ c.list \in Seq(Keys) /\ Len(c.list) \in Nat
      /\ DOMAIN c.list = 1..Len(c.list)
  BY ListFacts
<1>2. \A n \in 1..Len(c.list) : rules[c.list[n]].id \in Ids \cup {0}
  BY <1>1 DEF StateOK
<1>3. IdList(c) \in [1..Len(c.list) -> Ids \cup {0}]
  BY <1>2 DEF IdList
<1>4. IdList(c) \in Seq(Ids \cup {0}) /\ Len(IdList(c)) = Len(c.list)
  BY <1>1, <1>3
<1>5. \A k \in Range(c.list) : rules[k].id \in Range(IdList(c))
  BY <1>1, <1>3 DEF Range, IdList
<1> QED
  BY <1>3, <1>4, <1>5 DEF IdList

LEMMA InitEstablishes == ASSUME Init PROVE IInv
<1>1. UiRules \in 0..MaxIds /\ MaxIds \in Nat
  BY BoundsAssumption
<1>2. NumbersOK
  BY <1>1 DEF Init, NumbersOK, Ids
<1>3. StateOK
  BY DEF Init, StateOK, NoRule
<1>4. RunOK
  BY DEF Init, RunOK, NothingDesired, NoPlan
<1>5. ApplyKnows
  BY DEF Init, ApplyKnows
<1> QED
  BY <1>2, <1>3, <1>4, <1>5 DEF IInv, TypeOK

LEMMA NumbersStay ==
  ASSUME NumbersOK, orderId' \in [Ids -> Nat],
         \A i \in Ids : orderId[i] = 0 => orderId'[i] = 0,
         UNCHANGED <<says, used, made>>
  PROVE  NumbersOK'
BY DEF NumbersOK

LEMMA StateStays ==
  ASSUME StateOK, UNCHANGED <<cfg, rules, made>> PROVE StateOK'
BY DEF StateOK

LEMMA RunStays ==
  ASSUME RunOK, plan'.cfg = plan.cfg, UNCHANGED <<desired, listed, doomed, edits>>
  PROVE  RunOK'
BY DEF RunOK

LEMMA ApplyIsOver ==
  ASSUME pc' \notin {"ordering", "deleting", "reordering"} PROVE ApplyKnows'
BY DEF ApplyKnows

LEMMA ApplyStays ==
  ASSUME ApplyKnows, UNCHANGED <<pc, desired, plan, rules, listed, doomed>>
  PROVE  ApplyKnows'
<1>1. IdList(plan.cfg)' = IdList(plan.cfg)
  BY DEF IdList
<1> QED
  BY <1>1 DEF ApplyKnows

LEMMA UiKeeps == ASSUME IInv, UiEdits PROVE IInv'
<1>1. UiEdit
  BY DEF UiEdits, UiCreate, UiDelete, UiSwap
<1>2. StateOK' /\ ApplyKnows'
  BY <1>1, StateStays, ApplyStays DEF UiEdit, applyVars, IInv, TypeOK
<1>3. RunOK'
  BY <1>1 DEF UiEdit, applyVars, IInv, TypeOK, RunOK
<1>4. orderId \in [Ids -> Nat] /\ used \in 0..MaxIds /\ MaxIds \in Nat
  BY BoundsAssumption DEF IInv, TypeOK, NumbersOK
<1>5. CASE UiCreate
  <2>1. Highest + 1 \in Nat
    BY <1>4, HighestIsNumber
  <2>2. used' = used + 1 /\ used' \in Ids
    BY <1>4, <1>5 DEF UiCreate, Ids
  <2>3. orderId' \in [Ids -> Nat]
    BY <1>4, <1>5, <2>1 DEF UiCreate
  <2>4. \A i \in Ids : i > used' => orderId'[i] = 0
    BY <1>4, <1>5, <2>2 DEF UiCreate, IInv, TypeOK, NumbersOK, Ids
  <2>5. made \subseteq 1..used'
    BY <1>4, <2>2 DEF IInv, TypeOK, NumbersOK
  <2>6. used' \in 0..MaxIds
    BY <1>4, <2>2 DEF Ids
  <2>7. UNCHANGED <<says, made>>
    BY <1>1 DEF UiEdit
  <2>8. NumbersOK'
    BY <2>3, <2>4, <2>5, <2>6, <2>7 DEF NumbersOK, IInv, TypeOK
  <2> QED
    BY <1>2, <1>3, <2>8 DEF IInv, TypeOK
<1>6. ASSUME NEW i \in Ids, UiDelete(i) PROVE IInv'
  <2>1. orderId' = [orderId EXCEPT ![i] = 0] /\ UNCHANGED <<says, used, made>>
    BY <1>1, <1>6 DEF UiDelete, UiEdit
  <2>2. NumbersOK'
    BY <1>4, <2>1, NumbersStay DEF IInv, TypeOK
  <2> QED
    BY <1>2, <1>3, <2>2 DEF IInv, TypeOK
<1>7. ASSUME NEW i \in Ids, NEW j \in Ids, UiSwap(i, j) PROVE IInv'
  <2>1. /\ orderId' = [orderId EXCEPT ![i] = orderId[j], ![j] = orderId[i]]
        /\ UNCHANGED <<says, used, made>>
        /\ orderId[i] # 0 /\ orderId[j] # 0
    BY <1>1, <1>4, <1>7 DEF UiSwap, UiEdit, Live
  <2>2. NumbersOK'
    BY <1>4, <2>1, NumbersStay DEF IInv, TypeOK
  <2> QED
    BY <1>2, <1>3, <2>2 DEF IInv, TypeOK
<1> QED
  BY <1>5, <1>6, <1>7 DEF UiEdits

LEMMA UserKeeps == ASSUME IInv, UserChoices PROVE IInv'
<1>1. UserChoice /\ (\/ UNCHANGED cfg
                     \/ cfg' \in Configs)
  BY DEF UserChoices, EditConfig, ImportState, DestroyOrder
<1>2. pc' = "idle" /\ UNCHANGED <<orderId, says, used, made, rules, plan, desired, listed, doomed, edits>>
  BY <1>1 DEF UserChoice, remoteVars, applyVars
<1>3. NumbersOK' /\ RunOK' /\ ApplyKnows'
  BY <1>2, RunStays, ApplyIsOver DEF IInv, TypeOK, NumbersOK
<1>4. StateOK'
  BY <1>1, <1>2 DEF IInv, TypeOK, StateOK
<1> QED
  BY <1>3, <1>4 DEF IInv, TypeOK

LEMMA PlanKeeps ==
  ASSUME IInv, StartRun \/ ReadOrder \/ ModifyPlan PROVE IInv'
<1>1. UNCHANGED <<orderId, says, used, made, cfg, rules, doomed, edits>>
  BY DEF StartRun, ReadOrder, ModifyPlan, TerraformOnly, remoteVars, applyVars
<1>2. NumbersOK' /\ StateOK'
  BY <1>1, StateStays DEF IInv, TypeOK, NumbersOK
<1>3. pc' \notin {"ordering", "deleting", "reordering"}
  BY DEF StartRun, ReadOrder, ModifyPlan, Planned, Stop
<1>4. cfg \in Configs /\ plan.cfg \in Configs
  BY DEF IInv, TypeOK, StateOK, RunOK
<1>5. RunOK'
  <2>1. CASE StartRun
    <3>1. plan'.cfg = cfg
      BY <2>1 DEF StartRun, NoPlan
    <3>2. desired' = NothingDesired /\ listed' = <<>>
      BY <2>1 DEF StartRun
    <3>3. desired' \in [ids : Seq(Ids \cup {0}), override : BOOLEAN] /\ listed' \in Seq(Ids)
      BY <3>2 DEF NothingDesired
    <3> QED
      BY <1>1, <1>4, <3>1, <3>3 DEF IInv, TypeOK, RunOK
  <2>2. CASE ReadOrder
    BY <1>1, <2>2, RunStays DEF ReadOrder, applyVars, IInv, TypeOK
  <2>3. CASE ModifyPlan
    <3>1. UNCHANGED <<desired, listed>>
      BY <2>3 DEF ModifyPlan
    <3>2. plan'.cfg \in Configs
      <4>1. CASE UNCHANGED plan
        BY <1>4, <4>1
      <4>2. CASE Planned
        BY <1>4, <4>2 DEF Planned
      <4> QED
        BY <2>3, <4>1, <4>2 DEF ModifyPlan
    <3> QED
      BY <1>1, <3>1, <3>2 DEF IInv, TypeOK, RunOK
  <2> QED
    BY <2>1, <2>2, <2>3
<1> QED
  BY <1>2, <1>3, <1>5, ApplyIsOver DEF IInv, TypeOK

LEMMA ReadKeeps ==
  ASSUME IInv, NEW k \in Keys, ReadRule(k) PROVE IInv'
<1>1. UNCHANGED <<orderId, says, used, made, cfg, plan, desired, listed, doomed, edits>>
  BY DEF ReadRule, TerraformOnly, remoteVars, applyVars
<1>2. NumbersOK' /\ RunOK' /\ ApplyKnows'
  BY <1>1, RunStays, ApplyIsOver DEF ReadRule, Stop, IInv, TypeOK, NumbersOK
<1>3. CASE rules' = rules
  BY <1>1, <1>2, <1>3, StateStays DEF IInv, TypeOK
<1>4. CASE rules' = [rules EXCEPT ![k] = NoRule]
  <2>1. StateOK'
    BY <1>1, <1>4 DEF IInv, TypeOK, StateOK, NoRule
  <2> QED
    BY <1>2, <2>1 DEF IInv, TypeOK
<1>5. CASE /\ rules[k].id \in Live
           /\ rules' = [rules EXCEPT ![k].at = orderId[rules[k].id],
                                     ![k].val = says[rules[k].id]]
  <2>1. orderId[rules[k].id] \in Nat /\ says[rules[k].id] \in Vals
    BY <1>5 DEF Live, IInv, TypeOK, NumbersOK
  <2>2. rules' \in [Keys -> [id : Ids \cup {0}, at : Nat, val : Vals \cup {"none"}]]
    BY <1>5, <2>1 DEF IInv, TypeOK, StateOK
  <2>3. \A l \in Keys : rules'[l].id = rules[l].id
    BY <1>5 DEF IInv, TypeOK, StateOK
  <2>4. StateOK'
    BY <1>1, <2>2, <2>3 DEF IInv, TypeOK, StateOK
  <2> QED
    BY <1>2, <2>4 DEF IInv, TypeOK
<1> QED
  BY <1>3, <1>4, <1>5 DEF ReadRule

LEMMA CreateKeeps ==
  ASSUME IInv, NEW k \in Keys, CreateRule(k) PROVE IInv'
<1>1. UNCHANGED <<cfg, pc, plan, desired, listed, doomed, edits>> /\ pc = "applying"
  BY DEF CreateRule, RuleStep, TerraformOnly, Due
<1>2. RunOK' /\ ApplyKnows'
  BY <1>1, RunStays, ApplyIsOver DEF IInv, TypeOK
<1>3. CASE UNCHANGED <<remoteVars, rules>>
  BY <1>1, <1>2, <1>3, StateStays DEF remoteVars, IInv, TypeOK, NumbersOK
<1>4. CASE /\ used < MaxIds
           /\ used' = used + 1 /\ made' = made \cup {used'}
           /\ orderId' = [orderId EXCEPT ![used'] = Highest + 1]
           /\ says' = [says EXCEPT ![used'] = plan.cfg.val]
           /\ \/ rules' = [rules EXCEPT ![k] =
                    [id |-> used', at |-> Highest + 1, val |-> plan.cfg.val]]
              \/ UNCHANGED rules
  <2>1. /\ orderId \in [Ids -> Nat] /\ used \in 0..MaxIds /\ MaxIds \in Nat
        /\ made \subseteq 1..used
    BY BoundsAssumption DEF IInv, TypeOK, NumbersOK
  <2>2. Highest + 1 \in Nat
    BY <2>1, HighestIsNumber
  <2>3. plan.cfg.val \in Vals
    BY ListFacts DEF IInv, TypeOK, RunOK
  <2>4. used' \in Ids /\ used' \notin made /\ used' \in 0..MaxIds /\ used' # 0
    BY <1>4, <2>1 DEF Ids
  <2>5. made' \subseteq 1..used'
    BY <1>4, <2>1
  <2>6. orderId' \in [Ids -> Nat] /\ says' \in [Ids -> Vals]
    BY <1>4, <2>1, <2>2, <2>3 DEF IInv, TypeOK, NumbersOK
  <2>7. \A i \in Ids : i > used' => orderId'[i] = 0
    BY <1>4, <2>1, <2>4 DEF IInv, TypeOK, NumbersOK, Ids
  <2>8. NumbersOK'
    BY <2>4, <2>5, <2>6, <2>7 DEF NumbersOK
  <2>9. StateOK'
    <3>1. CASE UNCHANGED rules
      BY <1>1, <1>4, <3>1 DEF IInv, TypeOK, StateOK
    <3>2. CASE rules' = [rules EXCEPT ![k] =
                    [id |-> used', at |-> Highest + 1, val |-> plan.cfg.val]]
      <4>1. rules' \in [Keys -> [id : Ids \cup {0}, at : Nat, val : Vals \cup {"none"}]]
        BY <2>2, <2>3, <2>4, <3>2 DEF IInv, TypeOK, StateOK
      <4>2. \A l \in Keys : rules'[l].id = IF l = k THEN used' ELSE rules[l].id
        BY <3>2 DEF IInv, TypeOK, StateOK
      <4> QED
        BY <1>1, <1>4, <2>4, <4>1, <4>2 DEF IInv, TypeOK, StateOK
    <3> QED
      BY <1>4, <3>1, <3>2
  <2> QED
    BY <1>2, <2>8, <2>9 DEF IInv, TypeOK
<1> QED
  BY <1>3, <1>4 DEF CreateRule

LEMMA UpdateKeeps ==
  ASSUME IInv, NEW k \in Keys, UpdateRule(k) PROVE IInv'
<1>1. /\ UNCHANGED <<used, made, cfg, pc, plan, desired, listed, doomed, edits>>
      /\ pc = "applying"
  BY DEF UpdateRule, RuleStep, TerraformOnly, Due
<1>2. RunOK' /\ ApplyKnows'
  BY <1>1, RunStays, ApplyIsOver DEF IInv, TypeOK
<1>3. CASE UNCHANGED <<orderId, says, rules>>
  BY <1>1, <1>2, <1>3, StateStays DEF IInv, TypeOK, NumbersOK
<1>4. CASE /\ rules[k].id \in Live
           /\ orderId' = [orderId EXCEPT ![rules[k].id] = rules[k].at]
           /\ says' = [says EXCEPT ![rules[k].id] = plan.cfg.val]
           /\ \/ rules' = [rules EXCEPT ![k].val = plan.cfg.val]
              \/ UNCHANGED rules
  <2>1. rules[k].at \in Nat /\ plan.cfg.val \in Vals
    BY ListFacts DEF IInv, TypeOK, StateOK, RunOK
  <2>2. rules[k].id \in Ids /\ orderId[rules[k].id] # 0
    BY <1>4 DEF Live, IInv, TypeOK, NumbersOK
  <2>3. NumbersOK'
    BY <1>1, <1>4, <2>1, <2>2 DEF IInv, TypeOK, NumbersOK
  <2>4. rules' \in [Keys -> [id : Ids \cup {0}, at : Nat, val : Vals \cup {"none"}]]
    BY <1>4, <2>1 DEF IInv, TypeOK, StateOK
  <2>5. \A l \in Keys : rules'[l].id = rules[l].id
    BY <1>4 DEF IInv, TypeOK, StateOK
  <2>6. StateOK'
    BY <1>1, <2>4, <2>5 DEF IInv, TypeOK, StateOK
  <2> QED
    BY <1>2, <2>3, <2>6 DEF IInv, TypeOK
<1> QED
  BY <1>3, <1>4 DEF UpdateRule

LEMMA DeleteKeeps ==
  ASSUME IInv, NEW k \in Keys, DeleteRule(k) PROVE IInv'
<1>1. /\ UNCHANGED <<says, used, made, cfg, pc, plan, desired, listed, doomed, edits>>
      /\ pc = "applying"
  BY DEF DeleteRule, RuleStep, TerraformOnly, Due
<1>2. RunOK' /\ ApplyKnows'
  BY <1>1, RunStays, ApplyIsOver DEF IInv, TypeOK
<1>3. CASE UNCHANGED <<orderId, rules>>
  BY <1>1, <1>2, <1>3, StateStays DEF IInv, TypeOK, NumbersOK
<1>4. CASE /\ orderId' = [orderId EXCEPT ![rules[k].id] = 0]
           /\ \/ rules' = [rules EXCEPT ![k] = NoRule]
              \/ UNCHANGED rules
  <2>1. NumbersOK'
    BY <1>1, <1>4 DEF IInv, TypeOK, NumbersOK
  <2>2. StateOK'
    BY <1>1, <1>4 DEF IInv, TypeOK, StateOK, NoRule
  <2> QED
    BY <1>2, <2>1, <2>2 DEF IInv, TypeOK
<1> QED
  BY <1>3, <1>4 DEF DeleteRule

LEMMA AppliedKeeps == ASSUME IInv, RulesApplied PROVE IInv'
<1>1. UNCHANGED <<orderId, says, used, made, cfg, rules, plan, listed, doomed, edits>>
  BY DEF RulesApplied, TerraformOnly, remoteVars
<1>2. NumbersOK' /\ StateOK'
  BY <1>1, StateStays DEF IInv, TypeOK, NumbersOK
<1>3. CASE UNCHANGED desired /\ pc' = "idle"
  BY <1>1, <1>2, <1>3, RunStays, ApplyIsOver DEF IInv, TypeOK
<1>4. CASE /\ pc' = "ordering"
           /\ desired' = [ids |-> IdList(plan.cfg), override |-> plan.cfg.override]
  <2>1. plan.cfg \in Configs
    BY DEF IInv, TypeOK, RunOK
  <2>2. IdList(plan.cfg) \in Seq(Ids \cup {0}) /\ plan.cfg.override \in BOOLEAN
    BY <2>1, ListFacts, IdListFacts DEF IInv, TypeOK
  <2>3. desired' \in [ids : Seq(Ids \cup {0}), override : BOOLEAN]
    BY <1>4, <2>2
  <2>4. RunOK'
    BY <1>1, <2>3 DEF IInv, TypeOK, RunOK
  <2>5. IdList(plan.cfg)' = IdList(plan.cfg)
    BY <1>1 DEF IdList
  <2>6. ApplyKnows'
    BY <1>4, <2>5 DEF ApplyKnows
  <2> QED
    BY <1>2, <2>4, <2>6 DEF IInv, TypeOK
<1> QED
  BY <1>3, <1>4 DEF RulesApplied, Stop

LEMMA LookKeeps ==
  ASSUME IInv, UpdateOrderWithDeletion \/ UpdateOrderWithAllRules PROVE IInv'
<1>1. /\ UNCHANGED <<orderId, says, used, made, cfg, rules, plan, desired, edits>>
      /\ pc = "ordering"
  BY DEF UpdateOrderWithDeletion, UpdateOrderWithAllRules, OrderStep, TerraformOnly
<1>2. NumbersOK' /\ StateOK'
  BY <1>1, StateStays DEF IInv, TypeOK, NumbersOK
<1>3. Live \in SUBSET Ids
  BY DEF Live
<1>4. PICK s \in Sortings(Live) : listed' = s
  BY DEF UpdateOrderWithDeletion, UpdateOrderWithAllRules
<1>5. listed' \in Seq(Ids) /\ Range(listed') = Live
  BY <1>3, <1>4, SortingsFacts
<1>6. \/ pc' = "idle" /\ doomed' = {}
      \/ pc' = "deleting" /\ doomed' = Unmanaged /\ desired.override
      \/ pc' = "reordering" /\ doomed' = doomed
  BY DEF UpdateOrderWithDeletion, UpdateOrderWithAllRules, OrderFails, Stop
<1>7. doomed' \subseteq Ids
  BY <1>3, <1>6 DEF Unmanaged, IInv, TypeOK, RunOK
<1>8. RunOK'
  BY <1>1, <1>5, <1>7 DEF IInv, TypeOK, RunOK
<1>9. IdList(plan.cfg)' = IdList(plan.cfg)
  BY <1>1 DEF IdList
<1>10. desired'.ids = IdList(plan.cfg)'
  BY <1>1, <1>9 DEF IInv, ApplyKnows
<1>11. pc' = "deleting" =>
          desired'.override /\ doomed' \subseteq Range(listed') \ Range(desired'.ids)
  BY <1>1, <1>5, <1>6 DEF Unmanaged
<1>12. ApplyKnows'
  BY <1>10, <1>11 DEF ApplyKnows
<1> QED
  BY <1>2, <1>8, <1>12 DEF IInv, TypeOK

LEMMA RemovalKeeps ==
  ASSUME IInv, NEW i \in Ids, DeleteUnmanaged(i) PROVE IInv'
<1>1. /\ UNCHANGED <<says, used, made, cfg, rules, plan, desired, listed, edits>>
      /\ pc = "deleting"
  BY DEF DeleteUnmanaged, OrderStep, TerraformOnly
<1>2. orderId' \in {orderId, [orderId EXCEPT ![i] = 0]}
  BY DEF DeleteUnmanaged
<1>3. NumbersOK'
  BY <1>1, <1>2 DEF IInv, TypeOK, NumbersOK
<1>4. doomed' \subseteq doomed /\ (pc' = "deleting" \/ pc' = "idle")
  BY <1>1 DEF DeleteUnmanaged, OrderFails, Stop
<1>5. RunOK'
  BY <1>1, <1>4 DEF IInv, TypeOK, RunOK
<1>6. IdList(plan.cfg)' = IdList(plan.cfg)
  BY <1>1 DEF IdList
<1>7. ApplyKnows'
  BY <1>1, <1>4, <1>6 DEF IInv, ApplyKnows
<1> QED
  BY <1>1, <1>3, <1>5, <1>7, StateStays DEF IInv, TypeOK

(* Renumbering keeps the rules that are there.                             *)
LEMMA RenumberedFacts ==
  ASSUME NumbersOK, RunOK
  PROVE  /\ Renumbered \in [Ids -> Nat]
         /\ \A i \in Ids : Renumbered[i] > 0 <=> orderId[i] > 0
<1>1. /\ orderId \in [Ids -> Nat] /\ listed \in Seq(Ids)
      /\ desired.ids \in Seq(Ids \cup {0}) /\ Len(desired.ids) \in Nat
  BY DEF NumbersOK, RunOK
<1>2. /\ Rest \in SUBSET Ids /\ Cardinality(Rest) \in Nat
      /\ \A i \in Rest : RestPlace(i) \in 1..Cardinality(Rest)
  BY <1>1, RestFacts
<1>3. \A i \in Ids : i \in Range(desired.ids) => Place(desired.ids)[i] \in Nat \ {0}
  <2>1. \A i \in Ids \cap Range(desired.ids) : Place(desired.ids)[i] \in 1..Len(desired.ids)
    BY <1>1, PlaceFacts
  <2> QED
    BY <1>1, <2>1
<1>4. ASSUME NEW i \in Ids
      PROVE  Renumbered[i] \in Nat /\ (Renumbered[i] > 0 <=> orderId[i] > 0)
  <2>1. CASE orderId[i] = 0
    BY <2>1 DEF Renumbered
  <2>2. CASE orderId[i] # 0 /\ i \in Range(desired.ids)
    BY <1>1, <1>3, <2>2 DEF Renumbered
  <2>3. CASE orderId[i] # 0 /\ i \notin Range(desired.ids) /\ i \in Rest
    <3>1. Renumbered[i] = Len(desired.ids) + RestPlace(i)
      BY <2>3 DEF Renumbered
    <3>2. RestPlace(i) \in Nat /\ RestPlace(i) > 0
      BY <1>2, <2>3
    <3> QED
      BY <1>1, <2>3, <3>1, <3>2
  <2>4. CASE orderId[i] # 0 /\ i \notin Range(desired.ids) /\ i \notin Rest
    <3>1. Renumbered[i] = Len(desired.ids) + Cardinality(Rest) + orderId[i]
      BY <2>4 DEF Renumbered
    <3> QED
      BY <1>1, <1>2, <2>4, <3>1
  <2> QED
    BY <2>1, <2>2, <2>3, <2>4
<1> QED
  BY <1>4 DEF Renumbered

LEMMA ReorderKeeps == ASSUME IInv, Reorder PROVE IInv'
<1>1. UNCHANGED <<says, used, made, cfg, rules, plan, desired, listed, edits>>
  BY DEF Reorder, OrderStep, TerraformOnly
<1>2. /\ orderId' \in {orderId, Renumbered}
      /\ doomed' \subseteq doomed /\ pc' = "idle"
  BY DEF Reorder, OrderFails, Stop
<1>3. /\ Renumbered \in [Ids -> Nat]
      /\ \A i \in Ids : Renumbered[i] > 0 <=> orderId[i] > 0
  BY RenumberedFacts DEF IInv, TypeOK
<1>4. NumbersOK'
  BY <1>1, <1>2, <1>3, NumbersStay DEF IInv, TypeOK, NumbersOK
<1>5. RunOK' /\ ApplyKnows'
  BY <1>1, <1>2, ApplyIsOver DEF IInv, TypeOK, RunOK
<1> QED
  BY <1>1, <1>4, <1>5, StateStays DEF IInv, TypeOK

LEMMA IdleKeeps == ASSUME IInv, UNCHANGED vars PROVE IInv'
<1>1. NumbersOK' /\ StateOK' /\ RunOK' /\ ApplyKnows'
  BY RunStays, StateStays, ApplyStays
     DEF vars, remoteVars, applyVars, budget, IInv, TypeOK, NumbersOK
<1> QED
  BY <1>1 DEF IInv, TypeOK

LEMMA StepKeeps == ASSUME IInv, [Next]_vars PROVE IInv'
<1>1. CASE UiEdits
  BY <1>1, UiKeeps
<1>2. CASE UserChoices
  BY <1>2, UserKeeps
<1>3. CASE TerraformRun
  <2>1. CASE StartRun \/ ReadOrder \/ ModifyPlan
    BY <2>1, PlanKeeps
  <2>2. ASSUME NEW k \in Keys,
               ReadRule(k) \/ CreateRule(k) \/ UpdateRule(k) \/ DeleteRule(k)
        PROVE  IInv'
    BY <2>2, ReadKeeps, CreateKeeps, UpdateKeeps, DeleteKeeps
  <2>3. CASE RulesApplied
    BY <2>3, AppliedKeeps
  <2>4. CASE UpdateOrderWithDeletion \/ UpdateOrderWithAllRules
    BY <2>4, LookKeeps
  <2>5. ASSUME NEW i \in Ids, DeleteUnmanaged(i) PROVE IInv'
    BY <2>5, RemovalKeeps
  <2>6. CASE Reorder
    BY <2>6, ReorderKeeps
  <2> QED
    BY <1>3, <2>1, <2>2, <2>3, <2>4, <2>5, <2>6 DEF TerraformRun
<1>4. CASE UNCHANGED vars
  BY <1>4, IdleKeeps
<1> QED
  BY <1>1, <1>2, <1>3, <1>4 DEF Next

LEMMA Invariance == Spec => []IInv
<1>1. Init => IInv
  BY InitEstablishes
<1>2. IInv /\ [Next]_vars => IInv'
  BY StepKeeps
<1> QED
  BY <1>1, <1>2, PTL DEF Spec

\* Ids, numbers, state and plan keep to their sets: no two entries of the state
\* are about one rule, and none is about a rule that Terraform did not make.
THEOREM TypeCorrect == Spec => []TypeOK
<1>1. IInv => TypeOK
  BY DEF IInv
<1> QED
  BY <1>1, Invariance, PTL

\* An apply that deletes what the configuration does not name never deletes a
\* rule that the configuration has: the ids it keeps are those of the applied
\* rules, read after the last of them was made.
THEOREM KeepsSafe == Spec => []KeepsConfiguredRules
<1>1. IInv => KeepsConfiguredRules
  <2>1. SUFFICES ASSUME IInv, NEW k \in Keys, k \in Range(plan.cfg.list), pc = "deleting"
                 PROVE  rules[k].id \notin doomed
    BY DEF KeepsConfiguredRules
  <2>2. rules[k].id \in Range(IdList(plan.cfg))
    BY <2>1, IdListFacts DEF IInv, TypeOK, RunOK
  <2> QED
    BY <2>1, <2>2 DEF IInv, ApplyKnows
<1> QED
  BY <1>1, Invariance, PTL

-----------------------------------------------------------------------------
(* A successful order                                                      *)

(* The ids an order is applied with differ, when the rules are all there.  *)
LEMMA DesiredDiffer ==
  ASSUME IInv, desired.ids = IdList(plan.cfg), Range(desired.ids) \subseteq Live
  PROVE  \A m, n \in 1..Len(desired.ids) : desired.ids[m] = desired.ids[n] => m = n
<1>1. plan.cfg \in Configs /\ StateOK /\ NumbersOK
  BY DEF IInv, TypeOK, RunOK
<1>2. /\ desired.ids \in Seq(Ids \cup {0}) /\ Len(desired.ids) = Len(plan.cfg.list)
      /\ \A n \in 1..Len(plan.cfg.list) : desired.ids[n] = rules[plan.cfg.list[n]].id
  BY <1>1, IdListFacts
<1>3. /\ plan.cfg.list \in Seq(Keys)
      /\ \A m, n \in 1..Len(plan.cfg.list) : plan.cfg.list[m] = plan.cfg.list[n] => m = n
  BY <1>1, ListFacts
<1>4. SUFFICES ASSUME NEW m \in 1..Len(desired.ids), NEW n \in 1..Len(desired.ids),
                      desired.ids[m] = desired.ids[n]
               PROVE  m = n
  OBVIOUS
<1>5. desired.ids[m] \in Range(desired.ids)
  BY <1>2 DEF Range
<1>6. desired.ids[m] # 0
  BY <1>5, BoundsAssumption DEF Live, Ids
<1>7. plan.cfg.list[m] \in Keys /\ plan.cfg.list[n] \in Keys
  BY <1>2, <1>3
<1>8. plan.cfg.list[m] = plan.cfg.list[n]
  BY <1>1, <1>2, <1>4, <1>6, <1>7 DEF StateOK
<1> QED
  BY <1>2, <1>3, <1>8

LEMMA ReorderOrders ==
  ASSUME IInv, Reorder, outcome' = "applied", NEW m \in 1..Len(desired.ids)
  PROVE  orderId'[desired.ids[m]] = m
<1>1. Sent \subseteq Live /\ orderId' = Renumbered
  BY DEF Reorder, OrderFails, Stop
<1>2. pc \in {"deleting", "reordering"}
  BY DEF Reorder
<1>3. desired.ids = IdList(plan.cfg)
  BY <1>2 DEF IInv, ApplyKnows
<1>4. Range(desired.ids) \subseteq Live
  BY <1>1 DEF Sent
<1>5. desired.ids \in Seq(Ids \cup {0})
  BY DEF IInv, TypeOK, RunOK
<1>6. desired.ids[m] \in Range(desired.ids) /\ desired.ids[m] \in Live
  BY <1>4, <1>5 DEF Range
<1>7. /\ desired.ids[m] \in Ids
      /\ orderId[desired.ids[m]] # 0
  BY <1>6 DEF Live, IInv, TypeOK, NumbersOK
<1>8. Renumbered[desired.ids[m]] = Place(desired.ids)[desired.ids[m]]
  BY <1>6, <1>7 DEF Renumbered
<1>9. /\ Place(desired.ids)[desired.ids[m]] \in 1..Len(desired.ids)
      /\ desired.ids[Place(desired.ids)[desired.ids[m]]] = desired.ids[m]
  BY <1>5, <1>6, <1>7, PlaceFacts
<1>10. Place(desired.ids)[desired.ids[m]] = m
  BY <1>3, <1>4, <1>9, DesiredDiffer
<1> QED
  BY <1>1, <1>8, <1>10

-----------------------------------------------------------------------------
(* What a run of Terraform leaves                                          *)
(*                                                                         *)
(* The invariant says, for every place in a run that nobody has disturbed, *)
(* what is known to be right already: first the entries that were read,    *)
(* then the state of the order, then the rules that were applied.          *)

Undisturbed == edits = plan.since

\* The entry has the number of its rule, which an update writes.
InPlace(k) ==
  rules[k] # NoRule => /\ rules[k].id \in Live
                       /\ rules[k].at = orderId[rules[k].id]

Agrees(k) == InPlace(k) /\ (rules[k] # NoRule => rules[k].val = says[rules[k].id])

ByNumber(s) == \A m, n \in 1..Len(s) : m < n => orderId[s[m]] <= orderId[s[n]]

OrderStates ==
  [status : {"none", "ok", "tainted"}, ids : Seq(Ids \cup {0}), override : BOOLEAN]
OrderTyped == st \in OrderStates

\* The order in the state is as it was listed.
OrderIsRead ==
  st.status # "none" => ByNumber(st.ids) /\ (st.override => Range(st.ids) = Live)

\* The order needs no change.
OrderHolds ==
  /\ st.status = "ok" /\ cfg.override = st.override
  /\ ByNumber(IdList(cfg))
  /\ cfg.override => Live = KnownIds(cfg)
  /\ \A k \in Range(cfg.list) : rules[k] # NoRule

Done(k) == rules[k] # NoRule /\ rules[k].id \in Live /\ says[rules[k].id] = cfg.val

Ordering == {"ordering", "deleting", "reordering"}

PlanHolds ==
  /\ plan.since \in Nat /\ plan.since <= edits
  /\ pc # "idle" => outcome = "none"
  /\ pc \in {"applying"} \cup Ordering => plan.cfg = cfg
  /\ pc \in Ordering => desired.override = cfg.override
  /\ pc = "reordering" => ~cfg.override

ReadHolds ==
  pc = "reading" /\ Undisturbed => \A k \in Keys \ todo : Agrees(k)

ViewHolds ==
  pc = "planning" /\ Undisturbed => (\A k \in Keys : Agrees(k)) /\ OrderIsRead

RulesHold ==
  pc = "applying" /\ Undisturbed /\ ~failed =>
    /\ \A k \in Keys : InPlace(k)
    /\ \A k \in Range(cfg.list) \ todo : Done(k)
    /\ ~plan.order => OrderHolds

DesiredHolds ==
  pc \in Ordering /\ Undisturbed =>
    /\ \A k \in Range(cfg.list) : Done(k)
    /\ pc = "deleting" => Live \subseteq Range(desired.ids) \cup doomed

RunInv == PlanHolds /\ ReadHolds /\ ViewHolds /\ RulesHold /\ DesiredHolds

(* No two entries are about one rule, and only a rule has a number.        *)
LEMMA EntryFacts ==
  ASSUME IInv
  PROVE  /\ 0 \notin Live
         /\ \A k \in Keys : rules[k].id \in Live => rules[k] # NoRule
         /\ \A k, l \in Keys : rules[k].id \in Live /\ rules[k].id = rules[l].id => k = l
         /\ Range(cfg.list) \subseteq Keys
<1>1. 0 \notin Live
  BY BoundsAssumption DEF Live, Ids
<1>2. cfg.list \in Seq(Keys)
  BY ListFacts DEF IInv, TypeOK, StateOK
<1>3. Range(cfg.list) \subseteq Keys
  BY <1>2 DEF Range
<1> QED
  BY <1>1, <1>3 DEF IInv, TypeOK, StateOK, NoRule

LEMMA CfgLists ==
  ASSUME IInv
  PROVE  /\ cfg.list \in Seq(Keys) /\ Len(cfg.list) \in Nat
         /\ IdList(cfg) \in Seq(Ids \cup {0}) /\ Len(IdList(cfg)) = Len(cfg.list)
         /\ \A n \in 1..Len(cfg.list) : /\ cfg.list[n] \in Range(cfg.list)
                                        /\ IdList(cfg)[n] = rules[cfg.list[n]].id
         /\ Range(IdList(cfg)) = {rules[k].id : k \in Range(cfg.list)}
<1>1. cfg \in Configs /\ StateOK /\ NumbersOK
  BY DEF IInv, TypeOK, StateOK
<1>2. /\ cfg.list \in Seq(Keys) /\ Len(cfg.list) \in Nat
      /\ DOMAIN cfg.list = 1..Len(cfg.list)
  BY <1>1, ListFacts
<1>3. /\ IdList(cfg) \in Seq(Ids \cup {0}) /\ Len(IdList(cfg)) = Len(cfg.list)
      /\ \A n \in 1..Len(cfg.list) : IdList(cfg)[n] = rules[cfg.list[n]].id
  BY <1>1, IdListFacts
<1>4. DOMAIN IdList(cfg) = 1..Len(cfg.list)
  BY <1>3
<1>5. Range(IdList(cfg)) = {rules[k].id : k \in Range(cfg.list)}
  BY <1>2, <1>3, <1>4 DEF Range
<1> QED
  BY <1>2, <1>3, <1>5 DEF Range

(* A plan without a change of the order finds the order as it should be.   *)
LEMMA UnchangedOrder ==
  ASSUME IInv, OrderIsRead, ~OrderChanges PROVE OrderHolds
<1>1. /\ st.status = "ok" /\ IdList(cfg) = st.ids /\ cfg.override = st.override
      /\ \A k \in Range(cfg.list) : rules[k] # NoRule
  BY DEF OrderChanges
<1>2. KnownIds(cfg) = Range(IdList(cfg))
  BY <1>1, CfgLists DEF KnownIds
<1> QED
  BY <1>1, <1>2 DEF OrderHolds, OrderIsRead

LEMMA NoOrderIsTyped == NoOrder \in OrderStates
<1>1. <<>> \in Seq(Ids \cup {0})
  OBVIOUS
<1>2. /\ DOMAIN NoOrder = {"status", "ids", "override"}
      /\ NoOrder.status = "none" /\ NoOrder.ids = <<>> /\ NoOrder.override = FALSE
  BY DEF NoOrder
<1>3. NoOrder = [status |-> "none", ids |-> <<>>, override |-> FALSE]
  BY DEF NoOrder
<1> QED
  BY <1>1, <1>2, <1>3, Zenon DEF OrderStates

LEMMA OrderKeepsType ==
  ASSUME IInv, OrderTyped, [Next]_vars PROVE OrderTyped'
<1>1. /\ desired.ids \in Seq(Ids \cup {0}) /\ desired.override \in BOOLEAN
      /\ Live \in SUBSET Ids /\ ListedByRead(st) \in SUBSET Ids
  BY DEF IInv, TypeOK, RunOK, Live, ListedByRead
<1>2. CASE UNCHANGED st
  BY <1>2 DEF OrderTyped, OrderStates
<1>3. CASE ImportState \/ DestroyOrder
  <2>1. \/ st' = NoOrder
        \/ \E s \in Sortings(Live) :
              st' = [status |-> "ok", ids |-> s, override |-> FALSE]
    BY <1>3 DEF ImportState, DestroyOrder
  <2>2. \A s \in Sortings(Live) : s \in Seq(Ids \cup {0})
    <3>1. \A s \in Sortings(Live) : s \in Seq(Ids)
      BY <1>1, SortingsFacts
    <3> QED
      BY <3>1
  <2>3. ASSUME NEW s \in Sortings(Live)
        PROVE  [status |-> "ok", ids |-> s, override |-> FALSE] \in OrderStates
    BY <2>2 DEF OrderStates
  <2> QED
    BY <2>1, <2>3, NoOrderIsTyped DEF OrderTyped
<1>4. CASE ReadOrder
  <2>1. \/ UNCHANGED st
        \/ \E s \in Sortings(ListedByRead(st)) : st' = [st EXCEPT !.ids = s]
    BY <1>4 DEF ReadOrder
  <2>2. \A s \in Sortings(ListedByRead(st)) : s \in Seq(Ids \cup {0})
    <3>1. \A s \in Sortings(ListedByRead(st)) : s \in Seq(Ids)
      BY <1>1, SortingsFacts
    <3> QED
      BY <3>1
  <2> QED
    BY <2>1, <2>2 DEF OrderTyped, OrderStates
<1>5. CASE \E how \in {"ok", "tainted"} : st' = Saved(how)
  BY <1>1, <1>5 DEF OrderTyped, OrderStates, Saved
<1>6. \/ UNCHANGED st \/ ImportState \/ DestroyOrder \/ ReadOrder
      \/ \E how \in {"ok", "tainted"} : st' = Saved(how)
  <2>1. CASE UiEdits
    BY <2>1 DEF UiEdits, UiCreate, UiDelete, UiSwap, UiEdit
  <2>2. CASE UserChoices
    BY <2>2 DEF UserChoices, EditConfig
  <2>3. CASE TerraformRun
    BY <2>3 DEF TerraformRun, StartRun, ModifyPlan, ReadRule, CreateRule, UpdateRule,
                DeleteRule, RuleStep, RulesApplied, UpdateOrderWithDeletion,
                UpdateOrderWithAllRules, DeleteUnmanaged, Reorder, OrderFails
  <2>4. CASE UNCHANGED vars
    BY <2>4 DEF vars
  <2> QED
    BY <2>1, <2>2, <2>3, <2>4 DEF Next
<1> QED
  BY <1>2, <1>3, <1>4, <1>5, <1>6

LEMMA InitRuns == ASSUME Init PROVE RunInv
BY DEF Init, NoPlan, RunInv, PlanHolds, ReadHolds, ViewHolds, RulesHold,
       DesiredHolds, Ordering

LEMMA EditRuns == ASSUME IInv, RunInv, UiEdits PROVE RunInv'
<1>1. /\ edits' = edits + 1 /\ edits \in Nat
      /\ UNCHANGED <<cfg, pc, plan, desired, outcome>>
  BY DEF UiEdits, UiCreate, UiDelete, UiSwap, UiEdit, applyVars, IInv, TypeOK, RunOK
<1>2. PlanHolds'
  BY <1>1 DEF RunInv, PlanHolds
<1>3. ~Undisturbed'
  BY <1>1 DEF Undisturbed, RunInv, PlanHolds
<1> QED
  BY <1>2, <1>3 DEF RunInv, ReadHolds, ViewHolds, RulesHold, DesiredHolds

(* A run that is over, with the plan it had.                               *)
LEMMA OverRuns ==
  ASSUME RunInv, pc' = "idle", UNCHANGED edits, plan'.since = plan.since PROVE RunInv'
BY DEF RunInv, PlanHolds, ReadHolds, ViewHolds, RulesHold, DesiredHolds, Ordering

LEMMA StartRuns == ASSUME IInv, RunInv, StartRun PROVE RunInv'
<1>1. /\ pc' = "reading" /\ outcome' = "none" /\ plan'.since = edits
      /\ todo' = {k \in Keys : rules[k] # NoRule} /\ UNCHANGED <<edits, rules>>
  BY DEF StartRun, NoPlan, TerraformOnly
<1>2. edits \in Nat
  BY DEF IInv, TypeOK, RunOK
<1>3. PlanHolds'
  BY <1>1, <1>2 DEF PlanHolds, Ordering
<1>4. ReadHolds'
  BY <1>1 DEF ReadHolds, Agrees, InPlace
<1> QED
  BY <1>1, <1>3, <1>4 DEF RunInv, ViewHolds, RulesHold, DesiredHolds, Ordering

LEMMA ReadRuns == ASSUME IInv, RunInv, NEW k \in Keys, ReadRule(k) PROVE RunInv'
<1>1. /\ UNCHANGED <<orderId, says, cfg, plan, desired, edits>> /\ pc = "reading"
  BY DEF ReadRule, TerraformOnly, remoteVars, applyVars
<1>2. CASE pc' = "idle"
  BY <1>1, <1>2, OverRuns
<1>3. CASE /\ rules' = IF rules[k].id \in Live
                      THEN [rules EXCEPT ![k].at = orderId[rules[k].id],
                                         ![k].val = says[rules[k].id]]
                      ELSE [rules EXCEPT ![k] = NoRule]
           /\ todo' = todo \ {k} /\ UNCHANGED <<pc, outcome>>
  <2>1. PlanHolds'
    BY <1>1, <1>3 DEF RunInv, PlanHolds, Ordering
  <2>2. Live' = Live
    BY <1>1 DEF Live
  <2>3. Agrees(k)'
    BY <1>1, <1>3, <2>2 DEF Agrees, InPlace, IInv, TypeOK, StateOK, NoRule
  <2>4. ASSUME NEW l \in Keys \ {k}, Agrees(l) PROVE Agrees(l)'
    <3>1. rules'[l] = rules[l]
      BY <1>3 DEF IInv, TypeOK, StateOK
    <3> QED
      BY <1>1, <2>2, <2>4, <3>1 DEF Agrees, InPlace
  <2>5. ReadHolds'
    BY <1>1, <1>3, <2>3, <2>4 DEF ReadHolds, RunInv, Undisturbed
  <2> QED
    BY <1>1, <1>3, <2>1, <2>5 DEF RunInv, ViewHolds, RulesHold, DesiredHolds, Ordering
<1> QED
  BY <1>2, <1>3 DEF ReadRule, Stop

LEMMA ReadOrderRuns == ASSUME IInv, OrderTyped, RunInv, ReadOrder PROVE RunInv'
<1>1. /\ UNCHANGED <<orderId, says, cfg, rules, plan, desired, edits>>
      /\ pc = "reading" /\ todo = {}
  BY DEF ReadOrder, TerraformOnly, remoteVars, applyVars
<1>2. CASE pc' = "idle"
  BY <1>1, <1>2, OverRuns
<1>3. CASE pc' = "planning" /\ UNCHANGED outcome
  <2>1. PlanHolds'
    BY <1>1, <1>3 DEF RunInv, PlanHolds, Ordering
  <2>2. Live' = Live
    BY <1>1 DEF Live
  <2>3. ASSUME Undisturbed' PROVE (\A k \in Keys : Agrees(k))'
    <3>1. \A k \in Keys : Agrees(k)
      BY <1>1, <2>3 DEF RunInv, ReadHolds, Undisturbed
    <3> QED
      BY <1>1, <2>2, <3>1 DEF Agrees, InPlace
  <2>4. OrderIsRead'
    <3>1. CASE st.status = "none" /\ UNCHANGED st
      BY <3>1 DEF OrderIsRead
    <3>2. ASSUME NEW s \in Sortings(ListedByRead(st)), st' = [st EXCEPT !.ids = s]
          PROVE  OrderIsRead'
      <4>1. ListedByRead(st) \in SUBSET Ids
        BY DEF ListedByRead, Live
      <4>2. Range(s) = ListedByRead(st) /\ ByNumber(s)
        BY <4>1, SortingsFacts DEF ByNumber
      <4>3. /\ st'.status # "none" => st'.ids = s /\ st'.override = st.override
        BY <3>2 DEF OrderTyped, OrderStates
      <4>4. st.override => ListedByRead(st) = Live
        BY DEF ListedByRead
      <4> QED
        BY <1>1, <2>2, <4>2, <4>3, <4>4 DEF OrderIsRead, ByNumber
    <3> QED
      BY <1>3, <3>1, <3>2 DEF ReadOrder, Stop
  <2>5. ViewHolds'
    BY <2>3, <2>4 DEF ViewHolds
  <2> QED
    BY <1>3, <2>1, <2>5 DEF RunInv, ReadHolds, RulesHold, DesiredHolds, Ordering
<1> QED
  BY <1>2, <1>3 DEF ReadOrder, Stop

LEMMA PlanRuns == ASSUME IInv, RunInv, ModifyPlan PROVE RunInv'
<1>1. /\ UNCHANGED <<orderId, says, cfg, rules, st, failed, desired, edits>>
      /\ pc = "planning"
  BY DEF ModifyPlan, TerraformOnly, remoteVars
<1>2. CASE pc' = "idle"
  <2>1. plan'.since = plan.since
    <3>1. UNCHANGED plan \/ Planned
      BY DEF ModifyPlan
    <3>2. CASE Planned
      BY <3>2 DEF Planned
    <3> QED
      BY <3>1, <3>2
  <2> QED
    BY <1>1, <1>2, <2>1, OverRuns
<1>3. CASE pc' # "idle"
  <2>1. /\ pc' = "applying" /\ todo' = Changed /\ UNCHANGED outcome
        /\ plan' = [cfg |-> cfg, order |-> OrderChanges, known |-> KnownIds(cfg),
                    since |-> plan.since]
    BY <1>3 DEF ModifyPlan, Planned, Stop
  <2>2. PlanHolds'
    BY <1>1, <2>1 DEF RunInv, PlanHolds, Ordering
  <2>3. ASSUME Undisturbed' PROVE (\A k \in Keys : Agrees(k)) /\ OrderIsRead
    BY <1>1, <2>1, <2>3 DEF RunInv, ViewHolds, Undisturbed
  <2>4. ASSUME Undisturbed', NEW k \in Keys PROVE InPlace(k)'
    BY <1>1, <2>3, <2>4 DEF Agrees, InPlace, Live
  <2>5. ASSUME Undisturbed', NEW k \in Range(cfg.list) \ Changed PROVE Done(k)'
    <3>1. k \in Keys
      BY EntryFacts
    <3>2. rules[k] # NoRule /\ rules[k].val = cfg.val
      BY <2>5, <3>1 DEF Changed
    <3> QED
      BY <1>1, <2>3, <2>5, <3>1, <3>2 DEF Agrees, InPlace, Done, Live
  <2>6. ASSUME Undisturbed', ~OrderChanges PROVE OrderHolds'
    <3>1. OrderHolds
      BY <2>3, <2>6, UnchangedOrder
    <3> QED
      BY <1>1, <3>1 DEF OrderHolds, ByNumber, IdList, KnownIds, Live
  <2>7. RulesHold'
    BY <1>1, <2>1, <2>4, <2>5, <2>6 DEF RulesHold
  <2> QED
    BY <2>1, <2>2, <2>7 DEF RunInv, ReadHolds, ViewHolds, DesiredHolds, Ordering
<1> QED
  BY <1>2, <1>3

(* A rule that is applied leaves the other entries as they were.           *)
LEMMA RuleRuns ==
  ASSUME IInv, RunInv, NEW k \in Keys, CreateRule(k) \/ UpdateRule(k) \/ DeleteRule(k)
  PROVE  RunInv'
<1>1. /\ UNCHANGED <<cfg, st, pc, plan, desired, outcome, edits>>
      /\ pc = "applying" /\ todo' = todo \ {k} /\ plan.cfg = cfg
      /\ PlanHolds'
  BY DEF CreateRule, UpdateRule, DeleteRule, RuleStep, TerraformOnly, Due, RunInv,
         PlanHolds, Ordering
<1>2. SUFFICES ASSUME Undisturbed, ~failed'
               PROVE  RulesHold'
  BY <1>1 DEF RunInv, RulesHold, ReadHolds, ViewHolds, DesiredHolds, Ordering, Undisturbed
<1>3. /\ orderId \in [Ids -> Nat] /\ says \in [Ids -> Vals]
      /\ used \in 0..MaxIds /\ MaxIds \in Nat /\ made \subseteq 1..used
      /\ \A i \in Ids : i > used => orderId[i] = 0
      /\ \A l \in Keys : rules[l].id \in made \cup {0}
      /\ rules \in [Keys -> [id : Ids \cup {0}, at : Nat, val : Vals \cup {"none"}]]
  BY BoundsAssumption DEF IInv, TypeOK, NumbersOK, StateOK
<1>4. /\ 0 \notin Live /\ Live \subseteq Ids
      /\ \A l, m \in Keys : rules[l].id \in Live /\ rules[l].id = rules[m].id => l = m
      /\ Range(cfg.list) \subseteq Keys
  BY EntryFacts DEF Live
<1>5. CASE CreateRule(k)
  <2>1. /\ k \in Range(cfg.list) /\ rules[k] = NoRule
        /\ used < MaxIds /\ used' = used + 1
        /\ orderId' = [orderId EXCEPT ![used'] = Highest + 1]
        /\ says' = [says EXCEPT ![used'] = cfg.val]
        /\ rules' = [rules EXCEPT ![k] =
              [id |-> used', at |-> Highest + 1, val |-> cfg.val]]
        /\ ~failed
    BY <1>1, <1>2, <1>5 DEF CreateRule
  <2>2. /\ \A l \in Keys : InPlace(l)
        /\ \A l \in Range(cfg.list) \ todo : Done(l)
        /\ plan.order
    BY <1>1, <1>2, <2>1 DEF RunInv, RulesHold, OrderHolds
  <2>3. used' \in Ids /\ Highest + 1 \in Nat \ {0} /\ used' # 0
    BY <1>3, <2>1, HighestIsNumber DEF Ids
  <2>4. used' \in Live' /\ InPlace(k)' /\ Done(k)'
    <3>1. orderId'[used'] = Highest + 1 /\ says'[used'] = cfg.val
      BY <1>3, <2>1, <2>3
    <3>2. rules'[k] = [id |-> used', at |-> Highest + 1, val |-> cfg.val]
      BY <1>3, <2>1
    <3>3. used' \in Live'
      BY <2>3, <3>1 DEF Live
    <3> QED
      BY <1>1, <2>3, <3>1, <3>2, <3>3 DEF InPlace, Done, NoRule
  <2>5. ASSUME NEW l \in Keys, l # k, rules[l].id \in Live
        PROVE  /\ rules'[l] = rules[l] /\ rules[l].id \in Live'
               /\ orderId'[rules[l].id] = orderId[rules[l].id]
               /\ says'[rules[l].id] = says[rules[l].id]
    <3>1. rules[l].id \in Ids /\ rules[l].id # used'
      BY <1>3, <1>4, <2>1, <2>5
    <3> QED
      BY <1>3, <2>1, <2>5, <3>1 DEF Live
  <2>6. ASSUME NEW l \in Keys, l # k, rules[l] = NoRule PROVE rules'[l] = NoRule
    BY <1>3, <2>1, <2>6
  <2>7. \A l \in Keys : InPlace(l)'
    BY <2>2, <2>4, <2>5, <2>6 DEF InPlace
  <2>8. \A l \in Range(cfg.list) \ todo' : Done(l)'
    BY <1>1, <1>4, <2>2, <2>4, <2>5 DEF Done
  <2> QED
    BY <1>1, <2>2, <2>7, <2>8 DEF RulesHold
<1>6. CASE UpdateRule(k)
  <2>1. /\ k \in Range(cfg.list) /\ rules[k] # NoRule /\ rules[k].id \in Live
        /\ orderId' = [orderId EXCEPT ![rules[k].id] = rules[k].at]
        /\ says' = [says EXCEPT ![rules[k].id] = cfg.val]
        /\ rules' = [rules EXCEPT ![k].val = cfg.val]
        /\ ~failed
    BY <1>1, <1>2, <1>6 DEF UpdateRule
  <2>2. /\ \A l \in Keys : InPlace(l)
        /\ \A l \in Range(cfg.list) \ todo : Done(l)
        /\ ~plan.order => OrderHolds
    BY <1>1, <1>2, <2>1 DEF RunInv, RulesHold
  <2>3. orderId' = orderId /\ Live' = Live
    <3>1. rules[k].at = orderId[rules[k].id]
      BY <2>1, <2>2 DEF InPlace
    <3> QED
      BY <1>3, <2>1, <3>1 DEF Live
  <2>4. /\ rules'[k].id = rules[k].id /\ rules'[k].at = rules[k].at
        /\ \A l \in Keys \ {k} : rules'[l] = rules[l]
    BY <1>3, <2>1
  <2>5. says'[rules[k].id] = cfg.val
    BY <1>3, <1>4, <2>1
  <2>6. rules'[k] # NoRule
    BY <1>4, <2>1, <2>4 DEF NoRule
  <2>7. \A l \in Keys : InPlace(l)'
    BY <2>1, <2>2, <2>3, <2>4, <2>6 DEF InPlace
  <2>8. ASSUME NEW l \in Range(cfg.list) \ {k}, Done(l) PROVE Done(l)'
    <3>1. rules[l].id # rules[k].id /\ rules[l].id \in Ids
      BY <1>4, <2>1, <2>8 DEF Done
    <3> QED
      BY <1>1, <1>3, <1>4, <2>1, <2>3, <2>4, <2>8, <3>1 DEF Done
  <2>9. \A l \in Range(cfg.list) \ todo' : Done(l)'
    <3>1. Done(k)'
      BY <1>1, <2>1, <2>3, <2>4, <2>5, <2>6 DEF Done
    <3> QED
      BY <1>1, <2>2, <2>8, <3>1
  <2>10. ASSUME OrderHolds PROVE OrderHolds'
    <3>1. \A l \in Keys : rules'[l].id = rules[l].id /\ (rules[l] # NoRule <=> rules'[l] # NoRule)
      BY <2>1, <2>4, <2>6
    <3>2. IdList(cfg)' = IdList(cfg)
      BY <1>1, <3>1, CfgLists DEF IdList
    <3>3. KnownIds(cfg)' = KnownIds(cfg)
      BY <1>1, <1>4, <3>1 DEF KnownIds
    <3>4. ByNumber(IdList(cfg))'
      BY <2>3, <2>10, <3>2 DEF OrderHolds, ByNumber
    <3> QED
      BY <1>1, <1>4, <2>3, <2>10, <3>1, <3>3, <3>4 DEF OrderHolds
  <2> QED
    BY <1>1, <2>2, <2>7, <2>9, <2>10 DEF RulesHold
<1>7. CASE DeleteRule(k)
  <2>1. /\ k \notin Range(cfg.list)
        /\ orderId' = [orderId EXCEPT ![rules[k].id] = 0] /\ UNCHANGED says
        /\ rules' = [rules EXCEPT ![k] = NoRule]
        /\ ~failed
    BY <1>1, <1>2, <1>7 DEF DeleteRule
  <2>2. /\ \A l \in Keys : InPlace(l)
        /\ \A l \in Range(cfg.list) \ todo : Done(l)
        /\ ~plan.order => OrderHolds
    BY <1>1, <1>2, <2>1 DEF RunInv, RulesHold
  <2>3. rules'[k] = NoRule /\ \A l \in Keys \ {k} : rules'[l] = rules[l]
    BY <1>3, <2>1
  <2>4. ASSUME NEW l \in Keys \ {k}, rules[l].id \in Live
        PROVE  rules[l].id \in Live' /\ orderId'[rules[l].id] = orderId[rules[l].id]
    <3>1. rules[l].id # rules[k].id /\ rules[l].id \in Ids
      BY <1>4, <2>4
    <3> QED
      BY <1>3, <2>1, <2>4, <3>1 DEF Live
  <2>5. \A l \in Keys : InPlace(l)'
    BY <2>2, <2>3, <2>4 DEF InPlace
  <2>6. \A l \in Range(cfg.list) \ todo' : Done(l)'
    BY <1>1, <1>4, <2>1, <2>2, <2>3, <2>4 DEF Done
  <2>7. ASSUME OrderHolds PROVE OrderHolds'
    <3>1. \A l \in Range(cfg.list) : l \in Keys \ {k} /\ rules[l] # NoRule /\ rules[l].id \in Live
      BY <1>4, <2>1, <2>2, <2>7 DEF OrderHolds, InPlace
    <3>2. IdList(cfg)' = IdList(cfg) /\ KnownIds(cfg)' = KnownIds(cfg)
      <4>1. \A l \in Range(cfg.list) : rules'[l] = rules[l]
        BY <2>3, <3>1
      <4>2. IdList(cfg)' = IdList(cfg)
        BY <1>1, <4>1, CfgLists DEF IdList
      <4>3. {l \in Range(cfg.list) : rules'[l] # NoRule}
                = {l \in Range(cfg.list) : rules[l] # NoRule}
        BY <4>1
      <4> QED
        BY <1>1, <4>1, <4>2, <4>3 DEF KnownIds
    <3>3. ASSUME NEW i \in Range(IdList(cfg)) PROVE orderId'[i] = orderId[i]
      <4>1. PICK l \in Range(cfg.list) : i = rules[l].id
        BY CfgLists
      <4> QED
        BY <2>4, <3>1, <4>1
    <3>4. ByNumber(IdList(cfg))'
      <4>1. \A m \in 1..Len(IdList(cfg)) : IdList(cfg)[m] \in Range(IdList(cfg))
        BY CfgLists DEF Range
      <4> QED
        BY <2>7, <3>2, <3>3, <4>1 DEF OrderHolds, ByNumber
    <3>5. cfg.override => Live' = KnownIds(cfg)
      <4>1. SUFFICES ASSUME cfg.override PROVE Live' = KnownIds(cfg)
        OBVIOUS
      <4>2. Live = KnownIds(cfg)
        BY <2>7, <4>1 DEF OrderHolds
      <4>3. rules[k].id \notin Live
        BY <1>4, <3>1, <4>2 DEF KnownIds
      <4>4. Live' = Live
        BY <1>3, <2>1, <4>3 DEF Live
      <4> QED
        BY <4>2, <4>4
    <3> QED
      BY <1>1, <2>3, <2>7, <3>1, <3>2, <3>4, <3>5 DEF OrderHolds
  <2> QED
    BY <1>1, <2>2, <2>5, <2>6, <2>7 DEF RulesHold
<1> QED
  BY <1>5, <1>6, <1>7

LEMMA AppliedRuns == ASSUME IInv, RunInv, RulesApplied PROVE RunInv'
<1>1. /\ UNCHANGED <<orderId, says, cfg, rules, st, plan, failed, edits>>
      /\ pc = "applying" /\ todo = {}
  BY DEF RulesApplied, TerraformOnly, remoteVars
<1>2. CASE pc' = "idle"
  BY <1>1, <1>2, OverRuns
<1>3. CASE pc' # "idle"
  <2>1. /\ ~failed /\ pc' = "ordering" /\ UNCHANGED outcome
        /\ desired'.override = plan.cfg.override
    BY <1>3 DEF RulesApplied, Stop
  <2>2. PlanHolds'
    BY <1>1, <2>1 DEF RunInv, PlanHolds, Ordering
  <2>3. Undisturbed' => \A k \in Range(cfg.list) : Done(k)
    BY <1>1, <2>1 DEF RunInv, RulesHold, Undisturbed
  <2>4. DesiredHolds'
    BY <1>1, <2>1, <2>3 DEF DesiredHolds, Done, Live
  <2> QED
    BY <2>1, <2>2, <2>4 DEF RunInv, ReadHolds, ViewHolds, RulesHold
<1> QED
  BY <1>2, <1>3

LEMMA LookRuns ==
  ASSUME IInv, RunInv, UpdateOrderWithDeletion \/ UpdateOrderWithAllRules PROVE RunInv'
<1>1. /\ UNCHANGED <<orderId, says, cfg, rules, plan, desired, edits>>
      /\ pc = "ordering"
  BY DEF UpdateOrderWithDeletion, UpdateOrderWithAllRules, OrderStep, TerraformOnly
<1>2. CASE pc' = "idle"
  BY <1>1, <1>2, OverRuns
<1>3. CASE pc' # "idle"
  <2>1. /\ UNCHANGED outcome
        /\ \/ pc' = "deleting" /\ doomed' = Unmanaged
           \/ pc' = "reordering" /\ ~desired.override
    BY <1>3 DEF UpdateOrderWithDeletion, UpdateOrderWithAllRules, OrderFails, Stop
  <2>2. PlanHolds'
    BY <1>1, <2>1 DEF RunInv, PlanHolds, Ordering
  <2>3. Live' = Live
    BY <1>1 DEF Live
  <2>4. pc' = "deleting" => Live \subseteq Range(desired.ids) \cup doomed'
    BY <2>1 DEF Unmanaged
  <2>5. DesiredHolds'
    BY <1>1, <2>1, <2>3, <2>4 DEF DesiredHolds, RunInv, Ordering, Undisturbed, Done
  <2> QED
    BY <2>1, <2>2, <2>5 DEF RunInv, ReadHolds, ViewHolds, RulesHold
<1> QED
  BY <1>2, <1>3

LEMMA RemovalRuns ==
  ASSUME IInv, RunInv, NEW i \in Ids, DeleteUnmanaged(i) PROVE RunInv'
<1>1. /\ UNCHANGED <<says, cfg, rules, plan, desired, edits>>
      /\ pc = "deleting" /\ i \in doomed
  BY DEF DeleteUnmanaged, OrderStep, TerraformOnly
<1>2. CASE pc' = "idle"
  BY <1>1, <1>2, OverRuns
<1>3. CASE pc' # "idle"
  <2>1. /\ orderId' = [orderId EXCEPT ![i] = 0] /\ doomed' = doomed \ {i}
        /\ UNCHANGED <<pc, outcome>>
    BY <1>3 DEF DeleteUnmanaged, OrderFails, Stop
  <2>2. PlanHolds'
    BY <1>1, <2>1 DEF RunInv, PlanHolds, Ordering
  <2>3. Live' = Live \ {i}
    BY <2>1 DEF Live, IInv, TypeOK, NumbersOK
  <2>4. \A k \in Range(cfg.list) : rules[k].id \in Range(desired.ids)
    <3>1. plan.cfg = cfg
      BY <1>1 DEF RunInv, PlanHolds, Ordering
    <3> QED
      BY <1>1, <3>1, CfgLists DEF IInv, ApplyKnows
  <2>5. i \notin Range(desired.ids)
    BY <1>1 DEF IInv, ApplyKnows
  <2>6. DesiredHolds'
    BY <1>1, <2>1, <2>3, <2>4, <2>5 DEF DesiredHolds, RunInv, Ordering, Undisturbed, Done
  <2> QED
    BY <1>1, <2>1, <2>2, <2>6 DEF RunInv, ReadHolds, ViewHolds, RulesHold
<1> QED
  BY <1>2, <1>3

LEMMA IdleRuns == ASSUME RunInv, UNCHANGED vars PROVE RunInv'
<1>1. UNCHANGED <<orderId, says, cfg, rules, st, pc, todo, plan, failed, desired, doomed,
                  outcome, edits>>
  BY DEF vars, remoteVars, applyVars, budget
<1>2. Live' = Live /\ IdList(cfg)' = IdList(cfg) /\ KnownIds(cfg)' = KnownIds(cfg)
  BY <1>1 DEF Live, IdList, KnownIds
<1>3. PlanHolds'
  BY <1>1 DEF RunInv, PlanHolds
<1>4. ReadHolds'
  BY <1>1, <1>2 DEF RunInv, ReadHolds, Undisturbed, Agrees, InPlace
<1>5. ViewHolds'
  BY <1>1, <1>2 DEF RunInv, ViewHolds, Undisturbed, Agrees, InPlace, OrderIsRead, ByNumber
<1>6. OrderHolds' = OrderHolds
  BY <1>1, <1>2 DEF OrderHolds, ByNumber
<1>7. RulesHold'
  BY <1>1, <1>2, <1>6 DEF RunInv, RulesHold, Undisturbed, InPlace, Done
<1>8. DesiredHolds'
  BY <1>1, <1>2 DEF RunInv, DesiredHolds, Undisturbed, Done
<1> QED
  BY <1>3, <1>4, <1>5, <1>7, <1>8 DEF RunInv

LEMMA StepRuns == ASSUME IInv, OrderTyped, RunInv, [Next]_vars PROVE RunInv'
<1>1. CASE UiEdits
  BY <1>1, EditRuns
<1>2. CASE UserChoices
  <2>1. UserChoice
    BY <1>2 DEF UserChoices, EditConfig, ImportState, DestroyOrder
  <2> QED
    BY <2>1, OverRuns DEF UserChoice, applyVars
<1>3. CASE TerraformRun
  <2>1. CASE Reorder
    <3>1. pc' = "idle" /\ UNCHANGED <<edits, plan>>
      BY <2>1 DEF Reorder, OrderFails, OrderStep, Stop, TerraformOnly
    <3> QED
      BY <3>1, OverRuns
  <2> QED
    BY <1>3, <2>1, StartRuns, ReadRuns, ReadOrderRuns, PlanRuns, RuleRuns,
       AppliedRuns, LookRuns, RemovalRuns DEF TerraformRun
<1>4. CASE UNCHANGED vars
  BY <1>4, IdleRuns
<1> QED
  BY <1>1, <1>2, <1>3, <1>4 DEF Next

(* Rules that are applied, in an order that holds, are what was wanted.    *)
LEMMA OrderHoldsIsOrdered ==
  ASSUME IInv, ByNumber(IdList(cfg)), \A k \in Range(cfg.list) : rules[k].id \in Live
  PROVE  Ordered
<1>1. \A n \in 1..Len(cfg.list) : IdList(cfg)[n] = rules[cfg.list[n]].id
  BY CfgLists
<1> QED
  BY <1>1, CfgLists DEF Ordered, ByNumber

LEMMA PlanIsGood ==
  ASSUME IInv, IInv', RunInv, ModifyPlan, outcome' = "no changes" PROVE Good'
<1>1. /\ UNCHANGED <<orderId, says, cfg, rules, st, edits>> /\ pc = "planning"
      /\ outcome = "none"
  BY DEF ModifyPlan, TerraformOnly, remoteVars, RunInv, PlanHolds
<1>2. /\ Changed = {} /\ ~OrderChanges /\ ~plan'.order /\ plan'.since = plan.since
  <2>1. Planned
    BY DEF ModifyPlan, Stop
  <2>2. Changed = {} /\ ~OrderChanges
    BY <1>1, <2>1 DEF Planned
  <2> QED
    BY <2>1, <2>2 DEF Planned
<1>3. ASSUME Undisturbed PROVE Settled
  <2>1. (\A k \in Keys : Agrees(k)) /\ OrderHolds
    BY <1>1, <1>2, <1>3, UnchangedOrder DEF RunInv, ViewHolds
  <2>2. \A k \in Range(cfg.list) : Done(k)
    BY <1>2, <2>1, EntryFacts DEF Agrees, InPlace, Changed, Done
  <2> QED
    BY <2>1, <2>2, OrderHoldsIsOrdered DEF OrderHolds, Done, Settled
<1>4. Settled' = Settled
  <2>1. Live' = Live /\ KnownIds(cfg)' = KnownIds(cfg)
    BY <1>1 DEF KnownIds, Live
  <2>2. Ordered' = Ordered
    BY <1>1, <2>1 DEF Ordered
  <2> QED
    BY <1>1, <2>1, <2>2 DEF Settled
<1> QED
  BY <1>1, <1>2, <1>3, <1>4 DEF Good, Undisturbed

LEMMA AppliedIsGood ==
  ASSUME IInv, RunInv, RulesApplied, outcome' = "applied" PROVE Good'
<1>1. /\ UNCHANGED <<orderId, says, cfg, rules, st, plan, edits>>
      /\ pc = "applying" /\ todo = {} /\ outcome = "none"
  BY DEF RulesApplied, TerraformOnly, remoteVars, RunInv, PlanHolds
<1>2. ~failed /\ ~plan.order
  BY <1>1 DEF RulesApplied, Stop
<1>3. ASSUME Undisturbed PROVE Settled
  <2>1. OrderHolds /\ \A k \in Range(cfg.list) : Done(k)
    BY <1>1, <1>2, <1>3 DEF RunInv, RulesHold
  <2> QED
    BY <2>1, OrderHoldsIsOrdered DEF OrderHolds, Done, Settled
<1>4. Settled' = Settled
  <2>1. Live' = Live /\ KnownIds(cfg)' = KnownIds(cfg)
    BY <1>1 DEF KnownIds, Live
  <2>2. Ordered' = Ordered
    BY <1>1, <2>1 DEF Ordered
  <2> QED
    BY <1>1, <2>1, <2>2 DEF Settled
<1> QED
  BY <1>1, <1>2, <1>3, <1>4 DEF Good, Undisturbed

LEMMA ReorderIsGood ==
  ASSUME IInv, IInv', RunInv, Reorder, outcome' = "applied" PROVE Good'
<1>1. /\ UNCHANGED <<says, cfg, rules, plan, desired, edits>>
      /\ pc \in {"deleting", "reordering"} /\ plan.cfg = cfg
      /\ desired.override = cfg.override /\ (pc = "reordering" => ~cfg.override)
      /\ desired.ids = IdList(cfg)
  BY DEF Reorder, OrderStep, TerraformOnly, RunInv, PlanHolds, Ordering, IInv, ApplyKnows
<1>2. /\ orderId' = Renumbered /\ Sent \subseteq Live /\ st' = Saved("ok")
      /\ pc = "deleting" => doomed = {}
  BY DEF Reorder, OrderFails, Stop
<1>3. Live' = Live
  BY <1>2, RenumberedFacts DEF IInv, TypeOK, NumbersOK, Live
<1>4. Range(desired.ids) = {rules[k].id : k \in Range(cfg.list)}
  BY <1>1, CfgLists
<1>5. \A k \in Range(cfg.list) : rules[k].id \in Live
  BY <1>2, <1>4 DEF Sent
<1>6. Ordered'
  <2>1. IdList(cfg)' = IdList(cfg)
    BY <1>1 DEF IdList
  <2>2. ByNumber(IdList(cfg))'
    <3>1. \A m \in 1..Len(IdList(cfg)) : orderId'[IdList(cfg)[m]] = m
      BY <1>1, ReorderOrders
    <3>2. \A m, n \in 1..Len(IdList(cfg)) : m < n => m <= n
      BY CfgLists
    <3> QED
      BY <2>1, <3>1, <3>2 DEF ByNumber
  <2> QED
    BY <1>1, <1>3, <1>5, <2>1, <2>2, CfgLists DEF Ordered, ByNumber
<1>7. ASSUME Undisturbed PROVE Settled'
  <2>1. /\ \A k \in Range(cfg.list) : Done(k)
        /\ pc = "deleting" => Live \subseteq Range(desired.ids)
    BY <1>1, <1>2, <1>7 DEF RunInv, DesiredHolds, Ordering
  <2>2. \A k \in Range(cfg.list) : rules[k] # NoRule /\ says[rules[k].id] = cfg.val
    BY <2>1 DEF Done
  <2>3. KnownIds(cfg) = Range(desired.ids)
    BY <1>4, <2>2 DEF KnownIds
  <2>4. KnownIds(cfg)' = KnownIds(cfg)
    BY <1>1 DEF KnownIds
  <2>5. cfg.override => Live' = KnownIds(cfg)'
    BY <1>1, <1>3, <1>4, <1>5, <2>1, <2>3, <2>4
  <2> QED
    BY <1>1, <1>2, <1>6, <2>2, <2>5 DEF Settled, Saved
<1> QED
  BY <1>1, <1>6, <1>7 DEF Good, Undisturbed

\* A run that ends well leaves the configured rules, with their content and in
\* their order, and under the override no others, unless somebody edited the
\* rules while it ran; and the order even then when the run wrote it.
THEOREM OrderedSafe == Spec => AppliedMeansOrdered
<1>1. Init => RunInv /\ OrderTyped
  BY InitRuns, NoOrderIsTyped DEF Init, OrderTyped
<1>2. IInv /\ OrderTyped /\ RunInv /\ [Next]_vars => RunInv' /\ OrderTyped'
  BY StepRuns, OrderKeepsType
<1> DEFINE EndsGood == pc # "idle" /\ outcome' \in {"applied", "no changes"} => Good'
<1>3. IInv /\ IInv' /\ RunInv /\ Next => EndsGood
  <2>1. SUFFICES ASSUME IInv, IInv', RunInv, Next, pc # "idle",
                        outcome' \in {"applied", "no changes"}
                 PROVE  Good'
    OBVIOUS
  <2>2. outcome = "none"
    BY <2>1 DEF RunInv, PlanHolds
  <2>3. ~UiEdits /\ ~UserChoices /\ TerraformRun
    BY <2>1, <2>2 DEF Next, UiEdits, UiCreate, UiDelete, UiSwap, UiEdit, UserChoices,
                      EditConfig, ImportState, DestroyOrder, UserChoice
  <2>4. \/ ModifyPlan /\ outcome' = "no changes"
        \/ (RulesApplied \/ Reorder) /\ outcome' = "applied"
    <3>1. \/ ModifyPlan \/ RulesApplied \/ Reorder
          \/ outcome' \in {outcome, "none", "error"}
      BY <2>3 DEF TerraformRun, StartRun, ReadOrder, ReadRule, CreateRule, UpdateRule,
                  DeleteRule, RuleStep, UpdateOrderWithDeletion, UpdateOrderWithAllRules,
                  DeleteUnmanaged, OrderFails, Stop
    <3>2. ModifyPlan => outcome' # "applied"
      BY <2>2 DEF ModifyPlan, Planned, Stop
    <3>3. RulesApplied \/ Reorder => outcome' # "no changes"
      BY <2>2 DEF RulesApplied, Reorder, OrderFails, Stop
    <3> QED
      BY <2>1, <2>2, <3>1, <3>2, <3>3
  <2> QED
    BY <2>1, <2>4, PlanIsGood, AppliedIsGood, ReorderIsGood
<1>4. IInv /\ IInv' /\ RunInv /\ [Next]_vars => [EndsGood]_vars
  BY <1>3
<1> QED
  BY <1>1, <1>2, <1>4, Invariance, PTL DEF Spec, AppliedMeansOrdered

-----------------------------------------------------------------------------
(* The refinement of OwnedOrder                                            *)

LEMMA PlacesAreOrders ==
  ASSUME RunOK
  PROVE  /\ Place(listed) \in [Ids -> Nat]
         /\ [place |-> Place(desired.ids), exclusive |-> desired.override]
               \in [place : [Ids -> Nat], exclusive : BOOLEAN]
<1>1. listed \in Seq(Ids \cup {0}) /\ desired.ids \in Seq(Ids \cup {0})
      /\ desired.override \in BOOLEAN
  BY DEF RunOK
<1> QED
  BY <1>1, PlaceFacts

LEMMA InitOwns == ASSUME Init PROVE Owned!Init
<1>1. NumbersOK /\ RunOK
  BY InitEstablishes DEF IInv, TypeOK
<1> QED
  BY <1>1, PlacesAreOrders DEF Init, NumbersOK, Owned!Init, Owned!Orders, Owned!Claims

(* What Terraform or a person does without a look at the order.            *)
LEMMA ClaimOwns ==
  ASSUME RunOK', UNCHANGED <<orderId, listed, made, edits>>
  PROVE  [Owned!Next]_Owned!vars
<1>1. [place |-> Place(desired'.ids), exclusive |-> desired'.override]
               \in [place : [Ids -> Nat], exclusive : BOOLEAN]
  <2>1. desired'.ids \in Seq(Ids \cup {0}) /\ desired'.override \in BOOLEAN
    BY DEF RunOK
  <2> QED
    BY <2>1, PlaceFacts
<1>2. Owned!Claim
  BY <1>1 DEF Owned!Claim, Owned!Claims, Owned!Orders
<1> QED
  BY <1>2 DEF Owned!Next

LEMMA LookOwns ==
  ASSUME IInv, IInv', UpdateOrderWithDeletion \/ UpdateOrderWithAllRules
  PROVE  Owned!Look
<1>1. UNCHANGED <<orderId, made, desired, edits>>
  BY DEF UpdateOrderWithDeletion, UpdateOrderWithAllRules, OrderStep, TerraformOnly
<1>2. PICK s \in Sortings(Live) : listed' = s
  BY DEF UpdateOrderWithDeletion, UpdateOrderWithAllRules
<1>3. Live \in SUBSET Ids
  BY DEF Live
<1>4. /\ s \in Seq(Ids) /\ Range(s) = Live
      /\ \A m, n \in 1..Len(s) : m < n => orderId[s[m]] <= orderId[s[n]]
  BY <1>3, SortingsFacts
<1>5. s \in Seq(Ids \cup {0}) /\ Len(s) \in Nat
  BY <1>4
<1>6. /\ Place(s) \in [Ids -> Nat]
      /\ \A i \in Ids : Place(s)[i] > 0 <=> i \in Live
      /\ \A i \in Live : Place(s)[i] \in 1..Len(s) /\ s[Place(s)[i]] = i
  BY <1>3, <1>4, <1>5, PlaceFacts
<1>7. ASSUME NEW i \in Live, NEW j \in Live, orderId[i] < orderId[j]
      PROVE  Place(s)[i] < Place(s)[j]
  <2>1. /\ Place(s)[i] \in 1..Len(s) /\ s[Place(s)[i]] = i
        /\ Place(s)[j] \in 1..Len(s) /\ s[Place(s)[j]] = j
    BY <1>6
  <2>2. orderId[i] \in Nat /\ orderId[j] \in Nat
    BY <1>3 DEF IInv, TypeOK, NumbersOK
  <2>3. Place(s)[i] # Place(s)[j]
    BY <1>7, <2>1, <2>2
  <2>4. ~(Place(s)[j] < Place(s)[i])
    <3>1. Place(s)[j] < Place(s)[i] => orderId[j] <= orderId[i]
      BY <1>4, <2>1
    <3> QED
      BY <1>7, <2>2, <3>1
  <2> QED
    BY <1>5, <2>1, <2>3, <2>4
<1>8. Owned!In(orderId) = Live
  BY DEF Owned!In, Live
<1>9. Owned!In(Place(s)) = Live
  BY <1>3, <1>6 DEF Owned!In
<1> QED
  BY <1>1, <1>2, <1>6, <1>7, <1>8, <1>9 DEF Owned!Look, Owned!Orders

LEMMA RemovalOwns ==
  ASSUME IInv, IInv', NEW i \in Ids, DeleteUnmanaged(i)
  PROVE  orderId' = orderId \/ Owned!Remove(i)
<1>1. UNCHANGED <<made, desired, listed, edits>> /\ pc = "deleting" /\ i \in doomed
  BY DEF DeleteUnmanaged, OrderStep, TerraformOnly
<1>2. SUFFICES ASSUME orderId' = [orderId EXCEPT ![i] = 0]
               PROVE  Owned!Remove(i)
  BY DEF DeleteUnmanaged
<1>3. /\ orderId \in [Ids -> Nat] /\ orderId' \in [Ids -> Nat]
      /\ listed \in Seq(Ids \cup {0}) /\ desired.ids \in Seq(Ids \cup {0})
  BY DEF IInv, TypeOK, NumbersOK, RunOK
<1>4. desired.override /\ i \in Range(listed) /\ i \notin Range(desired.ids)
  BY <1>1 DEF IInv, ApplyKnows
<1>5. i \in Owned!In(Place(listed)) \ Owned!Claimed
  <2>1. Place(listed)[i] > 0 /\ ~(Place(desired.ids)[i] > 0)
    BY <1>3, <1>4, PlaceFacts
  <2> QED
    BY <2>1 DEF Owned!In, Owned!Claimed
<1>6. Owned!In(orderId') = Owned!In(orderId) \ {i}
  BY <1>2, <1>3 DEF Owned!In
<1>7. Owned!SameOrder(orderId, orderId', Owned!In(orderId'))
  BY <1>2, <1>3, <1>6 DEF Owned!SameOrder, Owned!In
<1> QED
  BY <1>1, <1>3, <1>4, <1>5, <1>6, <1>7 DEF Owned!Remove, Owned!Orders

LEMMA ReorderOwns ==
  ASSUME IInv, IInv', Reorder
  PROVE  orderId' = orderId \/ Owned!Arrange
<1>1. UNCHANGED <<made, desired, listed, edits>>
  BY DEF Reorder, OrderStep, TerraformOnly
<1>2. SUFFICES ASSUME orderId' = Renumbered
               PROVE  Owned!Arrange
  BY DEF Reorder
<1> DEFINE p == Place(desired.ids)
           q == Place(listed)
           d == Len(desired.ids)
           r == Cardinality(Rest)
<1>3. /\ orderId \in [Ids -> Nat] /\ listed \in Seq(Ids)
      /\ listed \in Seq(Ids \cup {0}) /\ desired.ids \in Seq(Ids \cup {0})
      /\ d \in Nat
  BY DEF IInv, TypeOK, NumbersOK, RunOK
<1>4. /\ Renumbered \in [Ids -> Nat]
      /\ \A i \in Ids : Renumbered[i] > 0 <=> orderId[i] > 0
  BY RenumberedFacts DEF IInv, TypeOK
<1>5. /\ Rest \in SUBSET Ids /\ r \in Nat
      /\ \A i \in Rest : RestPlace(i) \in 1..r
      /\ \A i, j \in Rest : q[i] < q[j] <=> RestPlace(i) < RestPlace(j)
  BY <1>3, RestFacts
<1>6. /\ \A i \in Ids : p[i] \in Nat
      /\ \A i \in Ids : p[i] > 0 <=> i \in Range(desired.ids)
      /\ \A i \in Ids \cap Range(desired.ids) : p[i] \in 1..d
  BY <1>3, PlaceFacts
<1>7. \A i \in Ids : q[i] > 0 <=> i \in Range(listed)
  BY <1>3, PlaceFacts
<1>8. ASSUME NEW i \in Ids, orderId[i] > 0
      PROVE  /\ p[i] > 0 => orderId'[i] = p[i]
             /\ ~(p[i] > 0) /\ i \in Rest => orderId'[i] = d + RestPlace(i)
             /\ ~(p[i] > 0) /\ i \notin Rest => orderId'[i] = d + r + orderId[i]
  BY <1>2, <1>3, <1>6, <1>8 DEF Renumbered
<1>9. Owned!In(orderId') = Owned!In(orderId)
  BY <1>2, <1>4 DEF Owned!In
<1>10. /\ Owned!Claimed = {i \in Ids : p[i] > 0}
       /\ Owned!In(orderId) = {i \in Ids : orderId[i] > 0}
       /\ Owned!In(q) = {i \in Ids : q[i] > 0}
  BY DEF Owned!In, Owned!Claimed
<1> HIDE DEF p, q, d, r
<1>11. Owned!SameOrder(p, orderId', Owned!Claimed \cap Owned!In(orderId))
  BY <1>8, <1>10 DEF Owned!SameOrder
<1>12. ASSUME NEW i \in Owned!In(orderId) \cap Owned!Claimed,
              NEW j \in Owned!In(orderId) \ Owned!Claimed
       PROVE  orderId'[i] < orderId'[j]
  <2>1. /\ i \in Ids /\ j \in Ids /\ p[i] > 0 /\ ~(p[j] > 0)
        /\ orderId[i] > 0 /\ orderId[j] > 0
    BY <1>10
  <2>2. orderId'[i] = p[i] /\ p[i] \in 1..d
    BY <1>6, <1>8, <2>1
  <2>3. CASE j \in Rest
    <3>1. orderId'[j] = d + RestPlace(j) /\ RestPlace(j) \in 1..r
      BY <1>5, <1>8, <2>1, <2>3
    <3> QED
      BY <1>3, <1>5, <2>2, <3>1
  <2>4. CASE j \notin Rest
    <3>1. orderId'[j] = d + r + orderId[j] /\ orderId[j] \in Nat
      BY <1>3, <1>8, <2>1, <2>4
    <3> QED
      BY <1>3, <1>5, <2>1, <2>2, <3>1
  <2> QED
    BY <2>3, <2>4
<1>13. ASSUME ~desired.override
       PROVE  Owned!SameOrder(q, orderId', (Owned!In(orderId) \cap Owned!In(q)) \ Owned!Claimed)
  <2>1. ASSUME NEW i \in (Owned!In(orderId) \cap Owned!In(q)) \ Owned!Claimed
        PROVE  /\ i \in Rest /\ RestPlace(i) \in 1..r
               /\ orderId'[i] = d + RestPlace(i)
    <3>1. i \in Ids /\ orderId[i] > 0 /\ q[i] > 0 /\ ~(p[i] > 0)
      BY <1>10
    <3>2. i \in Rest
      BY <1>6, <1>7, <1>13, <3>1 DEF Rest
    <3> QED
      BY <1>5, <1>8, <3>1, <3>2
  <2>2. ASSUME NEW i \in (Owned!In(orderId) \cap Owned!In(q)) \ Owned!Claimed,
               NEW j \in (Owned!In(orderId) \cap Owned!In(q)) \ Owned!Claimed
        PROVE  q[i] < q[j] <=> orderId'[i] < orderId'[j]
    <3>1. /\ i \in Rest /\ RestPlace(i) \in 1..r /\ orderId'[i] = d + RestPlace(i)
          /\ j \in Rest /\ RestPlace(j) \in 1..r /\ orderId'[j] = d + RestPlace(j)
      BY <2>1
    <3>2. q[i] < q[j] <=> RestPlace(i) < RestPlace(j)
      BY <1>5, <3>1
    <3> QED
      BY <1>3, <1>5, <3>1, <3>2
  <2> QED
    BY <2>2 DEF Owned!SameOrder
<1>14. Owned!SameOrder(orderId, orderId',
                       Owned!In(orderId) \ (Owned!In(q) \cup Owned!Claimed))
  <2>1. ASSUME NEW i \in Owned!In(orderId) \ (Owned!In(q) \cup Owned!Claimed)
        PROVE  orderId'[i] = d + r + orderId[i] /\ orderId[i] \in Nat
    <3>1. i \in Ids /\ orderId[i] > 0 /\ ~(q[i] > 0) /\ ~(p[i] > 0)
      BY <1>10
    <3>2. i \notin Rest
      BY <1>7, <3>1 DEF Rest
    <3> QED
      BY <1>3, <1>8, <3>1, <3>2
  <2>2. ASSUME NEW i \in Owned!In(orderId) \ (Owned!In(q) \cup Owned!Claimed),
               NEW j \in Owned!In(orderId) \ (Owned!In(q) \cup Owned!Claimed)
        PROVE  orderId[i] < orderId[j] <=> orderId'[i] < orderId'[j]
    BY <1>3, <1>5, <2>1
  <2> QED
    BY <2>2 DEF Owned!SameOrder
<1> QED
  BY <1>1, <1>2, <1>4, <1>9, <1>11, <1>12, <1>13, <1>14
     DEF p, q, Owned!Arrange, Owned!Orders

LEMMA UiOwns ==
  ASSUME IInv, IInv', UiEdits PROVE Owned!Others
<1>1. UNCHANGED <<listed, made, desired>> /\ edits' = edits + 1
  BY DEF UiEdits, UiCreate, UiDelete, UiSwap, UiEdit, applyVars
<1>2. orderId' \in [Ids -> Nat]
  BY DEF IInv, TypeOK, NumbersOK
<1> QED
  BY <1>1, <1>2 DEF Owned!Others, Owned!Orders

LEMMA StartOwns ==
  ASSUME IInv', StartRun PROVE Owned!Claim
<1>1. UNCHANGED <<orderId, made, edits>> /\ listed' = <<>>
  BY DEF StartRun, TerraformOnly, remoteVars
<1>2. Place(<<>>) = [i \in Ids |-> 0]
  BY DEF Place, Range
<1>3. [place |-> Place(desired'.ids), exclusive |-> desired'.override]
               \in [place : [Ids -> Nat], exclusive : BOOLEAN]
  <2>1. desired'.ids \in Seq(Ids \cup {0}) /\ desired'.override \in BOOLEAN
    BY DEF IInv, TypeOK, RunOK
  <2> QED
    BY <2>1, PlaceFacts
<1> QED
  BY <1>1, <1>2, <1>3 DEF Owned!Claim, Owned!Claims, Owned!Orders

LEMMA RuleOwns ==
  ASSUME IInv, IInv', NEW k \in Keys, CreateRule(k) \/ UpdateRule(k) \/ DeleteRule(k)
  PROVE  \/ UNCHANGED <<orderId, made>>
         \/ \E i \in Ids : Owned!Make(i) \/ Owned!Tend(i)
<1>1. UNCHANGED <<desired, listed, edits>>
  BY DEF CreateRule, UpdateRule, DeleteRule, RuleStep, TerraformOnly
<1>2. /\ orderId \in [Ids -> Nat] /\ used \in 0..MaxIds /\ made \subseteq Ids
      /\ \A i \in Ids : i > used => orderId[i] = 0
      /\ MaxIds \in Nat
  BY BoundsAssumption DEF IInv, TypeOK, NumbersOK, Ids
<1>3. rules[k].id \in made \cup {0}
  BY DEF IInv, TypeOK, StateOK
<1>4. CASE CreateRule(k)
  <2>1. \/ UNCHANGED <<orderId, made>>
        \/ /\ used < MaxIds /\ used' = used + 1 /\ made' = made \cup {used'}
           /\ orderId' = [orderId EXCEPT ![used'] = Highest + 1]
    BY <1>4 DEF CreateRule, remoteVars
  <2>2. ASSUME used < MaxIds, used' = used + 1, made' = made \cup {used'},
               orderId' = [orderId EXCEPT ![used'] = Highest + 1]
        PROVE  used' \in Ids /\ Owned!Make(used')
    <3>1. used' \in Ids /\ orderId[used'] = 0
      BY <1>2, <2>2 DEF Ids
    <3>2. Highest \in Nat
      BY <1>2, HighestIsNumber
    <3>3. orderId'[used'] = Highest + 1 /\ orderId'[used'] > 0
      BY <1>2, <2>2, <3>1, <3>2
    <3>4. used' \notin Owned!In(orderId)
      BY <3>1 DEF Owned!In
    <3> QED
      BY <1>1, <2>2, <3>1, <3>3, <3>4 DEF Owned!Make
  <2> QED
    BY <2>1, <2>2
<1>5. CASE UpdateRule(k)
  <2>1. \/ UNCHANGED <<orderId, made>>
        \/ /\ rules[k].id \in Live /\ UNCHANGED made
           /\ orderId' = [orderId EXCEPT ![rules[k].id] = rules[k].at]
    BY <1>5 DEF UpdateRule
  <2>2. ASSUME rules[k].id \in Live, UNCHANGED made,
               orderId' = [orderId EXCEPT ![rules[k].id] = rules[k].at]
        PROVE  rules[k].id \in Ids /\ Owned!Tend(rules[k].id)
    <3>1. rules[k].id \in Ids /\ rules[k].id # 0
      BY <1>2, <2>2 DEF Live, Ids
    <3>2. orderId' = [orderId EXCEPT ![rules[k].id] = orderId'[rules[k].id]]
      BY <1>2, <2>2, <3>1
    <3> QED
      BY <1>1, <1>3, <2>2, <3>1, <3>2 DEF Owned!Tend
  <2> QED
    BY <2>1, <2>2
<1>6. CASE DeleteRule(k)
  <2>1. \/ UNCHANGED <<orderId, made>>
        \/ UNCHANGED made /\ orderId' = [orderId EXCEPT ![rules[k].id] = 0]
    BY <1>6 DEF DeleteRule
  <2>2. ASSUME rules[k].id \in made, UNCHANGED made,
               orderId' = [orderId EXCEPT ![rules[k].id] = 0]
        PROVE  rules[k].id \in Ids /\ Owned!Tend(rules[k].id)
    <3>1. orderId' = [orderId EXCEPT ![rules[k].id] = orderId'[rules[k].id]]
      BY <1>2, <2>2
    <3> QED
      BY <1>1, <1>2, <2>2, <3>1 DEF Owned!Tend
  <2>3. ASSUME rules[k].id = 0, UNCHANGED made,
               orderId' = [orderId EXCEPT ![rules[k].id] = 0]
        PROVE  UNCHANGED <<orderId, made>>
    BY <1>2, <2>3 DEF Ids
  <2> QED
    BY <1>3, <2>1, <2>2, <2>3
<1> QED
  BY <1>4, <1>5, <1>6

LEMMA StepOwns ==
  ASSUME IInv, IInv', [Next]_vars
  PROVE  [Owned!Next]_Owned!vars
<1>1. RunOK'
  BY DEF IInv, TypeOK
<1>2. CASE UiEdits
  BY <1>2, UiOwns DEF Owned!Next
<1>3. CASE UserChoices
  <2>1. UNCHANGED <<orderId, listed, made, edits>>
    BY <1>3 DEF UserChoices, EditConfig, ImportState, DestroyOrder, UserChoice,
                remoteVars, applyVars
  <2> QED
    BY <1>1, <2>1, ClaimOwns
<1>4. CASE StartRun
  BY <1>4, StartOwns DEF Owned!Next
<1>5. CASE ReadOrder
  <2>1. UNCHANGED <<orderId, listed, made, edits>>
    BY <1>5 DEF ReadOrder, TerraformOnly, remoteVars, applyVars
  <2> QED
    BY <1>1, <2>1, ClaimOwns
<1>6. CASE ModifyPlan \/ RulesApplied
  <2>1. UNCHANGED <<orderId, listed, made, edits>>
    BY <1>6 DEF ModifyPlan, RulesApplied, TerraformOnly, remoteVars
  <2> QED
    BY <1>1, <2>1, ClaimOwns
<1>7. ASSUME NEW k \in Keys, ReadRule(k) PROVE [Owned!Next]_Owned!vars
  <2>1. UNCHANGED <<orderId, listed, made, edits>>
    BY <1>7 DEF ReadRule, TerraformOnly, remoteVars, applyVars
  <2> QED
    BY <1>1, <2>1, ClaimOwns
<1>8. ASSUME NEW k \in Keys, CreateRule(k) \/ UpdateRule(k) \/ DeleteRule(k)
      PROVE  [Owned!Next]_Owned!vars
  <2>1. UNCHANGED <<desired, listed, edits>>
    BY <1>8 DEF CreateRule, UpdateRule, DeleteRule, RuleStep, TerraformOnly
  <2>2. CASE UNCHANGED <<orderId, made>>
    BY <1>1, <2>1, <2>2, ClaimOwns
  <2>3. CASE \E i \in Ids : Owned!Make(i) \/ Owned!Tend(i)
    BY <2>3 DEF Owned!Next
  <2> QED
    BY <1>8, <2>2, <2>3, RuleOwns
<1>9. CASE UpdateOrderWithDeletion \/ UpdateOrderWithAllRules
  BY <1>9, LookOwns DEF Owned!Next
<1>10. ASSUME NEW i \in Ids, DeleteUnmanaged(i) PROVE [Owned!Next]_Owned!vars
  <2>1. UNCHANGED <<made, desired, listed, edits>>
    BY <1>10 DEF DeleteUnmanaged, OrderStep, TerraformOnly
  <2>2. CASE orderId' = orderId
    BY <1>1, <2>1, <2>2, ClaimOwns
  <2>3. CASE Owned!Remove(i)
    BY <2>3 DEF Owned!Next
  <2> QED
    BY <1>10, <2>2, <2>3, RemovalOwns
<1>11. CASE Reorder
  <2>1. UNCHANGED <<made, desired, listed, edits>>
    BY <1>11 DEF Reorder, OrderStep, TerraformOnly
  <2>2. CASE orderId' = orderId
    BY <1>1, <2>1, <2>2, ClaimOwns
  <2>3. CASE Owned!Arrange
    BY <2>3 DEF Owned!Next
  <2> QED
    BY <1>11, <2>2, <2>3, ReorderOwns
<1>12. CASE UNCHANGED vars
  BY <1>1, <1>12, ClaimOwns DEF vars, remoteVars, applyVars, budget
<1> QED
  BY <1>2, <1>3, <1>4, <1>5, <1>6, <1>7, <1>8, <1>9, <1>10, <1>11, <1>12
     DEF Next, TerraformRun

\* The rules and their order, together, implement the promise of OwnedOrder:
\* a rule of others goes only under the override and after it was listed, and
\* the others keep the order they were listed in.
THEOREM Implements == Spec => OwnsItsOrder
<1>1. Init => Owned!Init
  BY InitOwns
<1>2. IInv /\ IInv' /\ [Next]_vars => [Owned!Next]_Owned!vars
  BY StepOwns
<1> QED
  BY <1>1, <1>2, Invariance, PTL DEF Spec, OwnsItsOrder, Owned!Spec
=============================================================================
