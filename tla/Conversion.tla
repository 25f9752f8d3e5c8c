------------------------------ MODULE Conversion ------------------------------
(***************************************************************************)
(* How a resource's values travel between Terraform and Datadog.           *)
(*                                                                         *)
(* Every block of a resource is described three times in the provider: by  *)
(* the schema a user writes against, by the function that builds the       *)
(* request (build...) and by the function that flattens the answer into    *)
(* the state.  Nothing but discipline keeps the three lists of attributes  *)
(* equal.  A conversion is here the set of attributes it carries together  *)
(* with the conditions under which it carries them; what a value looks     *)
(* like on either side is left out.                                        *)
(*                                                                         *)
(* The conversion modules (DashboardConversions, ...) write every build    *)
(* and flatten function of the source with these constructors, under the   *)
(* name the function has in Go.  An attribute of a nested block is written *)
(* "block.attribute".                                                      *)
(***************************************************************************)
EXTENDS Naturals, Sequences, FiniteSets

Nothing == [keys |-> {}, before |-> {}, only |-> {}, needs |-> {},
            clashes |-> {}, panics |-> {}, refuses |-> {}, keeps |-> {},
            mistakes |-> {}]

(* An attribute read with if v, ok := block["a"]; ok { ... }.              *)
Each(S) == [Nothing EXCEPT !.keys = S]

(* An if / else if chain: an attribute is reached only when no earlier one *)
(* of the chain is present.                                                *)
FirstOf(chain) ==
  [Nothing EXCEPT
     !.keys = {chain[i] : i \in DOMAIN chain},
     !.before = UNION {{<<chain[i], chain[j]>> : i \in 1 .. (j - 1)} : j \in DOMAIN chain}]

(* A condition on another attribute around the attribute.                  *)
OnlyWith(gate, a) == [Nothing EXCEPT !.only = {<<gate, a>>}]

(* The function returns an error when it finds none of S.                  *)
FailsWithout(S) == [Nothing EXCEPT !.needs = {S}]

(* The function returns an error when it finds two of S.                   *)
FailsWithTwoOf(S) == [Nothing EXCEPT !.clashes = {S}]

(* The function takes an element for a map that is none when all of S are  *)
(* absent: the first of an empty list, or a block a user wrote with        *)
(* nothing in it, which the SDK hands over as nil.                         *)
PanicsWithout(S) == [Nothing EXCEPT !.panics = {S}]

(* The function's result is refused when it holds one of S.                *)
Refuses(S) == [Nothing EXCEPT !.refuses = S]

(* Attributes of the resource for which the function has no d.Set: what    *)
(* the state held stays there.                                             *)
Keeps(S) == [Nothing EXCEPT !.keeps = S]

(* The function takes x, which only the user interface can put into a      *)
(* block, for an a that has nothing in it.                                 *)
Mistakes(x, a) == [Nothing EXCEPT !.mistakes = {<<x, a>>}]

c ++ d == [f \in DOMAIN c |-> c[f] \cup d[f]]

(* An else if chain that ends in an error.                                 *)
ExactlyOneOf(chain) ==
  FirstOf(chain) ++ FailsWithout({chain[i] : i \in DOMAIN chain})

(* The attributes of a block inside another one.                           *)
Within(block, S) == {block \o "." \o a : a \in S}

Converter(schema, build, flatten) ==
  [schema |-> schema, build |-> build, flatten |-> flatten]

-----------------------------------------------------------------------------

(* The attributes of v, a function from attributes to values, that         *)
(* conversion c carries over.                                              *)
Carried(c, v) ==
  {a \in c.keys \cap DOMAIN v :
     /\ \A p \in c.before : p[2] = a => p[1] \notin DOMAIN v
     /\ \A p \in c.only : p[2] = a => p[1] \in DOMAIN v}

Carry(c, v) == [a \in Carried(c, v) |-> v[a]]

Clash(c, v) == \E S \in c.clashes : \E a, b \in S \cap DOMAIN v : a # b

Panics(c, v) == \E S \in c.panics : S \cap DOMAIN v = {}

(* What of v conversion c takes for something else, and what for.          *)
Foreign(c) == {p[1] : p \in c.mistakes}
Mistaken(c, v) == {p[2] : p \in {q \in c.mistakes : q[1] \in DOMAIN v}}

Fails(c, v) ==
  \/ \E S \in c.needs : S \cap DOMAIN v = {}
  \/ Clash(c, v)
  \/ c.refuses \cap DOMAIN v # {}

(* Attributes that stand in conditions have the attribute they depend on.  *)
GatesOpen(c, v) == \A p \in c.only : p[2] \in DOMAIN v => p[1] \in DOMAIN v

(* No two alternatives of one chain stand together.                        *)
OneAlternative(c, v) == \A p \in c.before : ~(p[1] \in DOMAIN v /\ p[2] \in DOMAIN v)

(* Attributes of which conversion c takes the first, or refuses two.       *)
Alternatives(c, a, b) ==
  \/ {<<a, b>>, <<b, a>>} \cap c.before # {}
  \/ a # b /\ \E S \in c.clashes : {a, b} \subseteq S

(* What the source has to keep up by hand, for the attributes A of a block: *)
(* that both functions have them and put no condition around them, that    *)
(* nothing is taken for them, and that what the flatten function tries in  *)
(* turn is never sent together.                                            *)
Faithful(c, A) ==
  /\ A \subseteq c.build.keys \cap c.flatten.keys
  /\ \A p \in c.build.only \cup c.flatten.only : p[2] \notin A
  /\ \A p \in c.flatten.before : Alternatives(c.build, p[1], p[2])
  /\ c.flatten.keeps \cap A = {}
  /\ \A p \in c.flatten.mistakes : p[2] \notin A

(* That the flatten function insists on no more than the build function,   *)
(* which sends what it insists on.                                         *)
Readable(c, A) ==
  /\ \A T \in c.build.needs :
        T \subseteq c.build.keys /\ \A p \in c.build.only : p[2] \notin T
  /\ \A S \in c.flatten.needs : \E T \in c.build.needs : T \cap A \subseteq S
  /\ \A S \in c.flatten.clashes : \E T \in c.build.clashes : S \cap A \subseteq T
  /\ c.flatten.refuses \cap A = {}
=============================================================================
