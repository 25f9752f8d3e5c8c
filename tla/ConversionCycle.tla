---------------------------- MODULE ConversionCycle ----------------------------
(***************************************************************************)
(* The life of one block of a resource: its configuration is written,      *)
(* applied, edited in the Datadog user interface, refreshed and imported.  *)
(* Every conversion of the provider is put through it; the properties say  *)
(* that a value survives the way to Datadog and back.                      *)
(***************************************************************************)
EXTENDS Conversion

CONSTANTS
  Converters,     \* name -> [schema, build, flatten]
  Scopes,         \* name -> sets of attributes that one behaviour touches
  KnownLosses,    \* <<converter, attribute>> the code is known not to carry
  KnownCrashes,   \* converters whose build function is known to crash
  NONE

VARIABLES
  conv,    \* the name of the conversion under study
  scope,   \* the attributes that configuration and edits touch
  config,  \* attribute -> value in the configuration
  body,    \* attribute -> value of the block in Datadog, NONE before create
  state,   \* attribute -> value in the Terraform state, NONE when untracked
  step     \* what Terraform last did and how it went, "idle" after the others

vars == <<conv, scope, config, body, state, step>>

ConversionAssumption ==
  /\ DOMAIN Scopes = DOMAIN Converters
  /\ \A c \in DOMAIN Converters :
       /\ \A S \in Scopes[c] : S \subseteq Converters[c].schema
       /\ \A p \in Converters[c].flatten.mistakes : p[2] \in Converters[c].schema
ASSUME ConversionAssumption

Schema == Converters[conv].schema
Build == Converters[conv].build
Flatten == Converters[conv].flatten

(* The attributes whose fate KnownLosses records are left out.             *)
Kept(n) == {a \in Converters[n].schema : <<n, a>> \notin KnownLosses}
Sound == Kept(conv)

NoValues == [a \in {} |-> NONE]

SetTo(v, a, x) == [b \in DOMAIN v \cup {a} |-> IF b = a THEN x ELSE v[b]]
Without(v, a) == [b \in DOMAIN v \ {a} |-> v[b]]

(* Configurations and blocks in which one attribute excludes another hold  *)
(* one of them: the schema's comments ask it of the user, and in the API   *)
(* the alternatives a flatten function tries in turn are a union, of which *)
(* a block the build function insists on holds one.                        *)
Configurable(v) == OneAlternative(Build, v)
Storable(v) ==
  /\ OneAlternative(Flatten, v)
  /\ GatesOpen(Flatten, v)
  /\ ~Clash(Build, v)
  /\ \A S \in Build.needs : S \cap DOMAIN v # {}

Init ==
  /\ conv \in DOMAIN Converters
  /\ scope \in Scopes[conv]
  /\ config = NoValues
  /\ body = NONE
  /\ state = NONE
  /\ step = "idle"

(* The user writes an attribute, or deletes it.                            *)
Write(a) ==
  /\ a \notin Foreign(Flatten)
  /\ config' = SetTo(config, a, "configured")
  /\ Configurable(config')
  /\ step' = "idle"
  /\ UNCHANGED <<conv, scope, body, state>>

Erase(a) ==
  /\ a \in DOMAIN config
  /\ config' = Without(config, a)
  /\ step' = "idle"
  /\ UNCHANGED <<conv, scope, body, state>>

(* What the flatten function makes of a block, given the state before.     *)
Flattened(b, old) ==
  LET new == Carry(Flatten, b)
      kept == (Flatten.keeps \cap DOMAIN old) \ DOMAIN new
      empty == Mistaken(Flatten, b) \ (DOMAIN new \cup kept)
  IN [a \in DOMAIN new \cup kept \cup empty |->
        IF a \in DOMAIN new THEN new[a]
        ELSE IF a \in kept THEN old[a] ELSE "empty"]

(* Create and Update: the request replaces the block, and the answer is    *)
(* flattened into the planned values.  A failure of the build function     *)
(* sends nothing; one of the flatten function leaves the planned values.   *)
Apply ==
  IF Panics(Build, config) \/ Fails(Build, config)
  THEN /\ step' = IF Panics(Build, config) THEN "crashed" ELSE "failed"
       /\ UNCHANGED <<conv, scope, config, body, state>>
  ELSE /\ body' = Carry(Build, config)
       /\ state' = IF Fails(Flatten, body') THEN config ELSE Flattened(body', config)
       /\ step' = IF Fails(Flatten, body') THEN "failed" ELSE "applied"
       /\ UNCHANGED <<conv, scope, config>>

(* Somebody edits the block outside Terraform.                             *)
UiSet(a) ==
  /\ body # NONE
  /\ body' = SetTo(body, a, "edited")
  /\ Storable(body')
  /\ step' = "idle"
  /\ UNCHANGED <<conv, scope, config, state>>

UiClear(a) ==
  /\ body # NONE
  /\ a \in DOMAIN body
  /\ body' = Without(body, a)
  /\ Storable(body')
  /\ step' = "idle"
  /\ UNCHANGED <<conv, scope, config, state>>

(* Read: the block is flattened into the state.                            *)
Refresh ==
  /\ body # NONE
  /\ state # NONE
  /\ IF Fails(Flatten, body)
     THEN step' = "failed" /\ UNCHANGED state
     ELSE step' = "refreshed" /\ state' = Flattened(body, state)
  /\ UNCHANGED <<conv, scope, config, body>>

(* The resource leaves the state, and is imported: Read finds no values.   *)
Forget ==
  /\ body # NONE
  /\ state # NONE
  /\ state' = NONE
  /\ step' = "idle"
  /\ UNCHANGED <<conv, scope, config, body>>

Import ==
  /\ body # NONE
  /\ state = NONE
  /\ IF Fails(Flatten, body)
     THEN step' = "failed" /\ UNCHANGED state
     ELSE step' = "imported" /\ state' = Flattened(body, NoValues)
  /\ UNCHANGED <<conv, scope, config, body>>

Next ==
  \/ \E a \in scope : Write(a) \/ Erase(a) \/ UiSet(a) \/ UiClear(a)
  \/ Apply
  \/ Refresh
  \/ Forget
  \/ Import

Spec == Init /\ [][Next]_vars

-----------------------------------------------------------------------------

(* Two blocks agree on the attributes whose loss is not recorded.          *)
Agree(v, w) ==
  \A a \in Sound :
    /\ a \in DOMAIN v <=> a \in DOMAIN w
    /\ a \in DOMAIN v => v[a] = w[a]

(* The configuration, the block and the state hold attributes of the       *)
(* schema only.                                                            *)
TypeOK ==
  /\ conv \in DOMAIN Converters
  /\ DOMAIN config \subseteq Schema
  /\ body # NONE => DOMAIN body \subseteq Schema
  /\ state # NONE => DOMAIN state \subseteq Schema
  /\ step \in {"idle", "applied", "failed", "crashed", "refreshed", "imported"}

(* An apply leaves in Datadog, and records in the state, every attribute   *)
(* of the configuration and no other: what was edited by hand is undone,   *)
(* and no value is lost on the way.  Otherwise Terraform shows the same    *)
(* difference after every apply.                                           *)
AppliedIsPlanned ==
  step = "applied" => Agree(body, config) /\ Agree(state, config)

(* Nothing in a block is known to be taken for something else.             *)
Understood(v) == \A a \in Foreign(Flatten) \cap DOMAIN v : <<conv, a>> \notin KnownLosses

(* After a refresh the state shows the block as it is: what somebody set   *)
(* or cleared by hand is seen, and nothing the block lost stays behind.    *)
RefreshedIsTrue == step = "refreshed" /\ Understood(body) => Agree(state, body)

(* An imported block is known completely.                                  *)
ImportIsComplete == step = "imported" /\ Understood(body) => Agree(state, body)

(* What an apply or the user interface has stored can be read back: the    *)
(* flatten function knows every alternative the build function writes.     *)
WrittenCanBeRead ==
  body # NONE /\ DOMAIN body \subseteq Sound => ~Fails(Flatten, body)

(* No build function crashes for want of an optional block, or on one that *)
(* was written with nothing in it, other than those recorded.              *)
OptionalMeansOptional == step = "crashed" => conv \in KnownCrashes

(* Both functions cope with whatever the schema and the API allow.         *)
ConversionsSucceed == WrittenCanBeRead /\ OptionalMeansOptional
=============================================================================
