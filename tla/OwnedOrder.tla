------------------------------ MODULE OwnedOrder ------------------------------
(***************************************************************************)
(* What a Terraform resource that owns an order promises the others who    *)
(* keep items in it.  The owner claims some items, in an order, and looks  *)
(* at the whole from time to time; anybody may edit the order meanwhile.   *)
(* RulesetOrder and AllocationRules implement this.                        *)
(***************************************************************************)
EXTENDS Naturals

CONSTANT Items

VARIABLES
    order,     \* order[i] is the place of item i, 0 when it is not there
    view,      \* the order when the owner last looked
    claim,     \* [place, exclusive]: the items claimed, in their order
    mine,      \* items the owner made itself
    hands      \* the number of changes made by others

vars == <<order, view, claim, mine, hands>>

Orders == [Items -> Nat]
Claims == [place : Orders, exclusive : BOOLEAN]
In(o) == {i \in Items : o[i] > 0}
Claimed == In(claim.place)

\* The items of S come in the same order in o and p.
SameOrder(o, p, S) == \A i, j \in S : o[i] < o[j] <=> p[i] < p[j]

Init ==
    /\ order \in Orders /\ view \in Orders /\ claim \in Claims
    /\ mine = {} /\ hands = 0

Others ==
    /\ hands' = hands + 1
    /\ order' \in Orders
    /\ UNCHANGED <<view, claim, mine>>

\* A new claim may come with a fresh start: what was seen is forgotten.
Claim ==
    /\ claim' \in Claims
    /\ view' \in {view, [i \in Items |-> 0]}
    /\ UNCHANGED <<order, mine, hands>>

\* Items with the same place may come in any order.
Look ==
    /\ view' \in Orders
    /\ In(view') = In(order)
    /\ \A i, j \in In(order) : order[i] < order[j] => view'[i] < view'[j]
    /\ UNCHANGED <<order, claim, mine, hands>>

\* An item of others goes only under an exclusive claim that does not name
\* it, and only when the owner saw it.
Remove(i) ==
    /\ claim.exclusive /\ i \in In(view) \ Claimed
    /\ order' \in Orders
    /\ In(order') = In(order) \ {i}
    /\ SameOrder(order, order', In(order'))
    /\ UNCHANGED <<view, claim, mine, hands>>

\* The claimed items come first, in the claimed order.  The others keep the
\* order the owner saw them in or, if it saw neither, the order they have.
Arrange ==
    /\ order' \in Orders
    /\ In(order') = In(order)
    /\ SameOrder(claim.place, order', Claimed \cap In(order))
    /\ \A i \in In(order) \cap Claimed, j \in In(order) \ Claimed :
            order'[i] < order'[j]
    /\ ~claim.exclusive =>
            SameOrder(view, order', (In(order) \cap In(view)) \ Claimed)
    /\ SameOrder(order, order', In(order) \ (In(view) \cup Claimed))
    /\ UNCHANGED <<view, claim, mine, hands>>

\* What the owner does with items of its own touches no others.
Make(i) ==
    /\ i \notin In(order)
    /\ order' = [order EXCEPT ![i] = order'[i]] /\ order'[i] > 0
    /\ mine' = mine \cup {i}
    /\ UNCHANGED <<view, claim, hands>>

Tend(i) ==
    /\ i \in mine
    /\ order' = [order EXCEPT ![i] = order'[i]]
    /\ UNCHANGED <<view, claim, mine, hands>>

Next ==
    \/ Others \/ Claim \/ Look \/ Arrange
    \/ \E i \in Items : Remove(i) \/ Make(i) \/ Tend(i)

Spec == Init /\ [][Next]_vars
=============================================================================
