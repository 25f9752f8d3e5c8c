------------------------------- MODULE MCLookup -------------------------------
(* Four objects, pages of two: lists of two pages, of which the last is full *)
(* or not.  The organisations have one, several or no object of the name     *)
(* that is looked for, on the first or on the second page, similar ones, and *)
(* objects that are of another kind or cannot be parsed.                     *)
EXTENDS DataSources

K(n) == [name |-> n, other |-> FALSE, odd |-> FALSE]
W == K("wanted")
S == K("similar")
O == K("other")
Odd(k) == [k EXCEPT !.odd = TRUE]
Other(k) == [k EXCEPT !.other = TRUE]

MCIds == 1..4
MCOrganisations ==
    {[kind |-> <<W, S, O, W>>, world |-> <<2, 3, 1>>],
     [kind |-> <<S, S, Odd(W), W>>, world |-> <<1, 2, 3>>],
     [kind |-> <<Other(W), W, Odd(S), O>>, world |-> <<1, 2, 3, 4>>],
     [kind |-> <<W, W, W, W>>, world |-> << >>],
     [kind |-> <<W, Odd(W), Odd(W), W>>, world |-> <<1, 2, 3, 4>>],
     [kind |-> <<S, W, O, O>>, world |-> <<1>>]}
=============================================================================
