------------------------ MODULE ConversionCycle_proofs ------------------------
(***************************************************************************)
(* What TLC checks on the tables of the provider, proved for every table:  *)
(* a converter whose functions both have the attributes that are not       *)
(* recorded as lost, without a condition around them, and whose build      *)
(* function never sends two of what the flatten function tries in turn     *)
(* loses nothing, whatever the block, its values and the order of steps.   *)
(***************************************************************************)
EXTENDS ConversionCycle, TLAPS

-----------------------------------------------------------------------------
(* Lemmas about the conversions.                                           *)

LEMMA CarryDomain ==
  ASSUME NEW c, NEW v
  PROVE  /\ DOMAIN Carry(c, v) \subseteq DOMAIN v
         /\ \A a \in DOMAIN Carry(c, v) : Carry(c, v)[a] = v[a]
  BY DEF Carry, Carried

(* A conversion carries what it has keys for and no conditions around,     *)
(* when no two alternatives meet.                                          *)
LEMMA CarryAll ==
  ASSUME NEW c, NEW v, OneAlternative(c, v), NEW A, A \subseteq c.keys,
         \A p \in c.only : p[2] \notin A
  PROVE  \A a \in A : a \in DOMAIN Carry(c, v) <=> a \in DOMAIN v
<1>1. ASSUME NEW a \in A, a \in DOMAIN v
      PROVE  a \in Carried(c, v)
  BY <1>1 DEF OneAlternative, Carried
<1>2. DOMAIN Carry(c, v) = Carried(c, v)
  BY DEF Carry
<1> QED
  BY <1>1, <1>2, CarryDomain

LEMMA FewerKeepOneAlternative ==
  ASSUME NEW c, NEW v, NEW w, OneAlternative(c, v), DOMAIN w \subseteq DOMAIN v
  PROVE  OneAlternative(c, w)
  BY DEF OneAlternative

(* Attributes whose d.Set is missing and those that something else is      *)
(* taken for aside, flattening carries.                                    *)
LEMMA FlattenedDomain ==
  ASSUME ConversionAssumption, conv \in DOMAIN Converters, NEW b, NEW old
  PROVE  DOMAIN Flattened(b, old) \subseteq DOMAIN b \cup DOMAIN old \cup Schema
<1>1. DOMAIN Carry(Flatten, b) \subseteq DOMAIN b
  BY CarryDomain
<1>2. Mistaken(Flatten, b) \subseteq Schema
  BY DEF Mistaken, ConversionAssumption, Flatten, Schema
<1> QED
  BY <1>1, <1>2 DEF Flattened

LEMMA FlattenedIsCarried ==
  ASSUME NEW b, NEW old, NEW a, a \notin Flatten.keeps,
         \A p \in Flatten.mistakes : p[2] # a
  PROVE  /\ a \in DOMAIN Flattened(b, old) <=> a \in DOMAIN Carry(Flatten, b)
         /\ a \in DOMAIN Carry(Flatten, b) => Flattened(b, old)[a] = Carry(Flatten, b)[a]
<1>1. a \notin Mistaken(Flatten, b)
  BY DEF Mistaken
<1> QED
  BY <1>1 DEF Flattened

(* A faithful flatten function shows the block.                            *)
LEMMA FlattenedAgrees ==
  ASSUME Faithful(Converters[conv], Sound), NEW b, NEW old, OneAlternative(Flatten, b)
  PROVE  Agree(Flattened(b, old), b)
<1>1. /\ Sound \subseteq Flatten.keys /\ Flatten.keeps \cap Sound = {}
      /\ \A p \in Flatten.only : p[2] \notin Sound
      /\ \A p \in Flatten.mistakes : p[2] \notin Sound
  BY DEF Faithful, Flatten
<1>2. \A a \in Sound : a \in DOMAIN Carry(Flatten, b) <=> a \in DOMAIN b
  BY <1>1, CarryAll
<1>3. \A a \in DOMAIN Carry(Flatten, b) : Carry(Flatten, b)[a] = b[a]
  BY CarryDomain
<1> QED
  BY <1>1, <1>2, <1>3, FlattenedIsCarried DEF Agree

(* So does a faithful build function send the configuration.               *)
LEMMA BuiltAgrees ==
  ASSUME Faithful(Converters[conv], Sound), NEW v, OneAlternative(Build, v)
  PROVE  Agree(Carry(Build, v), v)
<1>1. /\ Sound \subseteq Build.keys
      /\ \A p \in Build.only : p[2] \notin Sound
  BY DEF Faithful, Build
<1>2. \A a \in Sound : a \in DOMAIN Carry(Build, v) <=> a \in DOMAIN v
  BY <1>1, CarryAll
<1>3. \A a \in DOMAIN Carry(Build, v) : Carry(Build, v)[a] = v[a]
  BY CarryDomain
<1> QED
  BY <1>2, <1>3 DEF Agree

(* What the build function sends holds no two of what is tried in turn.    *)
LEMMA BuiltIsSeparate ==
  ASSUME Faithful(Converters[conv], Sound), NEW v, OneAlternative(Build, v),
         ~Fails(Build, v)
  PROVE  OneAlternative(Flatten, Carry(Build, v))
<1>1. DOMAIN Carry(Build, v) \subseteq DOMAIN v
  BY CarryDomain
<1>2. ASSUME NEW a \in DOMAIN v, NEW b \in DOMAIN v
      PROVE  ~Alternatives(Build, a, b)
  BY <1>2 DEF Alternatives, OneAlternative, Fails, Clash
<1>3. \A p \in Flatten.before : Alternatives(Build, p[1], p[2])
  BY DEF Faithful, Build, Flatten
<1> QED
  BY <1>1, <1>2, <1>3 DEF OneAlternative

(* What the build function insists on, it sends.                           *)
Insisted(v) ==
  /\ ~Clash(Build, v)
  /\ \A S \in Build.needs : S \cap DOMAIN v # {}

LEMMA BuiltIsInsisted ==
  ASSUME Readable(Converters[conv], Sound), NEW v, OneAlternative(Build, v),
         ~Fails(Build, v)
  PROVE  Insisted(Carry(Build, v))
<1>1. DOMAIN Carry(Build, v) \subseteq DOMAIN v
  BY CarryDomain
<1>2. ~Clash(Build, Carry(Build, v))
  BY <1>1 DEF Fails, Clash
<1>3. ASSUME NEW T \in Build.needs
      PROVE  T \cap DOMAIN Carry(Build, v) # {}
  <2>1. T \subseteq Build.keys /\ \A p \in Build.only : p[2] \notin T
    BY DEF Readable, Build
  <2>2. \A a \in T : a \in DOMAIN Carry(Build, v) <=> a \in DOMAIN v
    BY <2>1, CarryAll
  <2>3. T \cap DOMAIN v # {}
    BY DEF Fails
  <2> QED
    BY <2>2, <2>3
<1> QED
  BY <1>2, <1>3 DEF Insisted

LEMMA InsistedCanBeRead ==
  ASSUME Readable(Converters[conv], Sound), NEW v, Insisted(v), DOMAIN v \subseteq Sound
  PROVE  ~Fails(Flatten, v)
<1>1. ASSUME NEW S \in Flatten.needs PROVE S \cap DOMAIN v # {}
  <2>1. PICK T \in Build.needs : T \cap Sound \subseteq S
    BY DEF Readable, Build, Flatten
  <2> QED
    BY <2>1 DEF Insisted
<1>2. ~Clash(Flatten, v)
  <2>1. SUFFICES ASSUME NEW S \in Flatten.clashes, NEW a \in S \cap DOMAIN v,
                        NEW b \in S \cap DOMAIN v, a # b
                 PROVE  FALSE
    BY DEF Clash
  <2>2. PICK T \in Build.clashes : S \cap Sound \subseteq T
    BY DEF Readable, Build, Flatten
  <2> QED
    BY <2>1, <2>2 DEF Insisted, Clash
<1>3. Flatten.refuses \cap DOMAIN v = {}
  BY DEF Readable, Flatten
<1> QED
  BY <1>1, <1>2, <1>3 DEF Fails

-----------------------------------------------------------------------------
(* The attributes in play are attributes of the schema, whatever the       *)
(* converters.                                                             *)

TypeInv == TypeOK /\ scope \subseteq Schema

LEMMA TypeInit == ASSUME ConversionAssumption, Init PROVE TypeInv
  BY DEF ConversionAssumption, Init, TypeInv, TypeOK, NoValues, Schema

LEMMA TypeStep ==
  ASSUME ConversionAssumption, TypeInv, [Next]_vars
  PROVE  TypeInv'
<1> USE DEF TypeInv, TypeOK
<1>0. Schema' = Schema /\ scope' = scope
  BY DEF Next, vars, Write, Erase, UiSet, UiClear, Apply, Refresh, Forget, Import, Schema
<1>1. CASE UNCHANGED vars
  BY <1>1 DEF vars, Schema
<1>2. ASSUME NEW a \in scope, Write(a) PROVE TypeInv'
  BY <1>0, <1>2 DEF Write, SetTo, Schema
<1>3. ASSUME NEW a \in scope, Erase(a) PROVE TypeInv'
  BY <1>0, <1>3 DEF Erase, Without, Schema
<1>4. ASSUME NEW a \in scope, UiSet(a) PROVE TypeInv'
  BY <1>0, <1>4 DEF UiSet, SetTo, Schema
<1>5. ASSUME NEW a \in scope, UiClear(a) PROVE TypeInv'
  BY <1>0, <1>5 DEF UiClear, Without, Schema
<1>6. CASE Apply
  <2>1. CASE Panics(Build, config) \/ Fails(Build, config)
    BY <1>0, <1>6, <2>1 DEF Apply, Schema
  <2>2. CASE ~(Panics(Build, config) \/ Fails(Build, config))
    <3>1. body' = Carry(Build, config) /\ conv' = conv /\ config' = config
      BY <1>6, <2>2 DEF Apply
    <3>2. DOMAIN body' \subseteq DOMAIN config
      BY <3>1, CarryDomain
    <3>3. state' = config \/ state' = Flattened(body', config)
      BY <1>6, <2>2 DEF Apply
    <3>4. DOMAIN state' \subseteq DOMAIN body' \cup DOMAIN config \cup Schema
      BY <3>3, FlattenedDomain
    <3>5. step' \in {"applied", "failed"}
      BY <1>6, <2>2 DEF Apply
    <3> QED
      BY <1>0, <3>1, <3>2, <3>4, <3>5
  <2> QED
    BY <2>1, <2>2
<1>7. CASE Refresh
  <2>1. state' = state \/ state' = Flattened(body, state)
    BY <1>7 DEF Refresh
  <2>2. DOMAIN Flattened(body, state) \subseteq DOMAIN body \cup DOMAIN state \cup Schema
    BY FlattenedDomain
  <2>3. /\ body # NONE /\ state # NONE
        /\ conv' = conv /\ config' = config /\ body' = body
        /\ step' \in {"failed", "refreshed"}
    BY <1>7 DEF Refresh
  <2> QED
    BY <1>0, <2>1, <2>2, <2>3
<1>8. CASE Forget
  BY <1>0, <1>8 DEF Forget, Schema
<1>9. CASE Import
  <2>1. state' = state \/ state' = Flattened(body, NoValues)
    BY <1>9 DEF Import
  <2>2. DOMAIN Flattened(body, NoValues) \subseteq DOMAIN body \cup Schema
    BY FlattenedDomain DEF NoValues
  <2>3. /\ body # NONE /\ state = NONE
        /\ conv' = conv /\ config' = config /\ body' = body
        /\ step' \in {"failed", "imported"}
    BY <1>9 DEF Import
  <2> QED
    BY <1>0, <2>1, <2>2, <2>3
<1> QED
  BY <1>1, <1>2, <1>3, <1>4, <1>5, <1>6, <1>7, <1>8, <1>9 DEF Next

(* Every attribute the configuration, the block in Datadog and the state   *)
(* hold is one of the schema's (the type invariant of the cycle).          *)
THEOREM TypeCorrect == Spec => []TypeOK
<1>1. Init => TypeInv
  BY TypeInit, ConversionAssumption
<1>2. TypeInv /\ [Next]_vars => TypeInv'
  BY TypeStep, ConversionAssumption
<1>3. TypeInv => TypeOK
  BY DEF TypeInv
<1> QED
  BY <1>1, <1>2, <1>3, PTL DEF Spec

-----------------------------------------------------------------------------
(* Faithful converters lose nothing.                                       *)

Configured == OneAlternative(Build, config)

Carries ==
  /\ body # NONE => OneAlternative(Flatten, body)
  /\ AppliedIsPlanned
  /\ RefreshedIsTrue
  /\ ImportIsComplete

CanBeRead == body # NONE => Insisted(body)

IInv ==
  /\ TypeInv /\ Configured
  /\ Faithful(Converters[conv], Sound) => Carries
  /\ Readable(Converters[conv], Sound) => CanBeRead

LEMMA IInvInit == ASSUME ConversionAssumption, Init PROVE IInv
<1>1. TypeInv
  BY TypeInit
<1>2. Configured /\ Carries /\ CanBeRead
  BY DEF Init, Configured, Carries, CanBeRead, OneAlternative, NoValues,
         AppliedIsPlanned, RefreshedIsTrue, ImportIsComplete
<1> QED
  BY <1>1, <1>2 DEF IInv

LEMMA SameConverter ==
  ASSUME [Next]_vars
  PROVE  UNCHANGED <<conv, Schema, Build, Flatten, Sound>>
<1>1. conv' = conv
  BY DEF Next, vars, Write, Erase, UiSet, UiClear, Apply, Refresh, Forget, Import
<1> QED
  BY <1>1 DEF Schema, Build, Flatten, Sound, Kept

LEMMA ConfiguredStep == ASSUME Configured, [Next]_vars PROVE Configured'
<1>0. Build' = Build
  BY SameConverter
<1>1. ASSUME NEW a \in scope, Write(a) PROVE Configured'
  BY <1>0, <1>1 DEF Write, Configured, Configurable, OneAlternative
<1>2. ASSUME NEW a \in scope, Erase(a) PROVE Configured'
  BY <1>0, <1>2 DEF Erase, Without, Configured, OneAlternative
<1>3. ASSUME config' = config PROVE Configured'
  BY <1>0, <1>3 DEF Configured, OneAlternative
<1> QED
  BY <1>1, <1>2, <1>3 DEF Next, vars, UiSet, UiClear, Apply, Refresh, Forget, Import

(* A step that is neither an apply, a refresh nor an import leaves the     *)
(* properties nothing to say.                                              *)
LEMMA IdleCarries ==
  ASSUME step' \in {"idle", "failed", "crashed"},
         body' # NONE => OneAlternative(Flatten, body)'
  PROVE  Carries'
  BY DEF Carries, AppliedIsPlanned, RefreshedIsTrue, ImportIsComplete

LEMMA ApplyCarries ==
  ASSUME Faithful(Converters[conv], Sound), Configured, Carries, [Next]_vars, Apply
  PROVE  Carries'
<1>0. UNCHANGED <<conv, Build, Flatten, Sound>>
  BY SameConverter
<1>1. CASE Panics(Build, config) \/ Fails(Build, config)
  <2>1. step' \in {"failed", "crashed"} /\ body' = body
    BY <1>1 DEF Apply
  <2>2. body' # NONE => OneAlternative(Flatten, body)'
    BY <1>0, <2>1 DEF Carries, OneAlternative
  <2> QED
    BY <2>1, <2>2, IdleCarries
<1>2. CASE ~(Panics(Build, config) \/ Fails(Build, config))
  <2>1. body' = Carry(Build, config) /\ config' = config
    BY <1>2 DEF Apply
  <2>2. OneAlternative(Flatten, body') /\ Agree(body', config)
    BY <1>2, <2>1, BuiltIsSeparate, BuiltAgrees DEF Configured
  <2>3. OneAlternative(Flatten, body)'
    BY <1>0, <2>2 DEF OneAlternative
  <2>4. CASE Fails(Flatten, body')
    <3>1. step' = "failed"
      BY <1>2, <2>4 DEF Apply
    <3> QED
      BY <2>3, <3>1, IdleCarries
  <2>5. CASE ~Fails(Flatten, body')
    <3>1. step' = "applied" /\ state' = Flattened(body', config)
      BY <1>2, <2>5 DEF Apply
    <3>2. Agree(state', body')
      BY <2>2, <3>1, FlattenedAgrees
    <3>3. Agree(state', config)
      BY <2>2, <3>2 DEF Agree
    <3>4. AppliedIsPlanned'
      BY <1>0, <2>1, <2>2, <3>3 DEF AppliedIsPlanned, Agree
    <3> QED
      BY <2>3, <3>1, <3>4 DEF Carries, RefreshedIsTrue, ImportIsComplete
  <2> QED
    BY <2>4, <2>5
<1> QED
  BY <1>1, <1>2

LEMMA ReadCarries ==
  ASSUME Faithful(Converters[conv], Sound), Carries, [Next]_vars, Refresh \/ Import
  PROVE  Carries'
<1>0. UNCHANGED <<conv, Build, Flatten, Sound>>
  BY SameConverter
<1>1. body # NONE /\ body' = body /\ OneAlternative(Flatten, body)
  BY DEF Refresh, Import, Carries
<1>2. OneAlternative(Flatten, body)'
  BY <1>0, <1>1 DEF OneAlternative
<1>3. CASE Fails(Flatten, body)
  <2>1. step' = "failed"
    BY <1>3 DEF Refresh, Import
  <2> QED
    BY <1>2, <2>1, IdleCarries
<1>4. CASE ~Fails(Flatten, body)
  <2>1. PICK old : state' = Flattened(body, old)
    BY <1>4 DEF Refresh, Import
  <2>2. Agree(state', body)
    BY <1>1, <2>1, FlattenedAgrees
  <2>3. step' \in {"refreshed", "imported"}
    BY <1>4 DEF Refresh, Import
  <2>4. RefreshedIsTrue' /\ ImportIsComplete'
    BY <1>0, <1>1, <2>2 DEF RefreshedIsTrue, ImportIsComplete, Agree
  <2> QED
    BY <1>2, <2>3, <2>4 DEF Carries, AppliedIsPlanned
<1> QED
  BY <1>3, <1>4

LEMMA CarriesStep ==
  ASSUME Faithful(Converters[conv], Sound), Configured, Carries, [Next]_vars
  PROVE  Carries'
<1>0. UNCHANGED <<conv, Build, Flatten, Sound>>
  BY SameConverter
<1>1. ASSUME body' = body PROVE body' # NONE => OneAlternative(Flatten, body)'
  BY <1>0, <1>1 DEF Carries, OneAlternative
<1>2. ASSUME NEW a \in scope, Write(a) \/ Erase(a) PROVE Carries'
  BY <1>1, <1>2, IdleCarries DEF Write, Erase
<1>3. ASSUME NEW a \in scope, UiSet(a) \/ UiClear(a) PROVE Carries'
  BY <1>0, <1>3, IdleCarries DEF UiSet, UiClear, Storable, OneAlternative
<1>4. CASE Apply
  BY <1>4, ApplyCarries
<1>5. CASE Refresh \/ Import
  BY <1>5, ReadCarries
<1>6. CASE Forget
  BY <1>1, <1>6, IdleCarries DEF Forget
<1>7. CASE UNCHANGED vars
  BY <1>0, <1>1, <1>7 DEF vars, Carries, AppliedIsPlanned, RefreshedIsTrue,
     ImportIsComplete, Understood, Agree
<1> QED
  BY <1>2, <1>3, <1>4, <1>5, <1>6, <1>7 DEF Next

LEMMA CanBeReadStep ==
  ASSUME Readable(Converters[conv], Sound), Configured, CanBeRead, [Next]_vars
  PROVE  CanBeRead'
<1>0. Build' = Build
  BY SameConverter
<1>1. ASSUME body' = body PROVE CanBeRead'
  BY <1>0, <1>1 DEF CanBeRead, Insisted, Clash
<1>2. ASSUME NEW a \in scope, UiSet(a) \/ UiClear(a) PROVE CanBeRead'
  BY <1>0, <1>2 DEF UiSet, UiClear, Storable, CanBeRead, Insisted
<1>3. CASE Apply
  <2>1. CASE Panics(Build, config) \/ Fails(Build, config)
    BY <1>1, <1>3, <2>1 DEF Apply
  <2>2. CASE ~(Panics(Build, config) \/ Fails(Build, config))
    <3>1. Insisted(body')
      BY <1>3, <2>2, BuiltIsInsisted DEF Apply, Configured
    <3> QED
      BY <1>0, <3>1 DEF CanBeRead, Insisted, Clash
  <2> QED
    BY <2>1, <2>2
<1> QED
  BY <1>1, <1>2, <1>3 DEF Next, vars, Write, Erase, Refresh, Forget, Import

LEMMA IInvStep == ASSUME ConversionAssumption, IInv, [Next]_vars PROVE IInv'
<1>1. UNCHANGED <<conv, Sound>>
  BY SameConverter
<1>2. TypeInv' /\ Configured'
  BY TypeStep, ConfiguredStep DEF IInv
<1>3. Faithful(Converters[conv], Sound) => Carries'
  BY CarriesStep DEF IInv
<1>4. Readable(Converters[conv], Sound) => CanBeRead'
  BY CanBeReadStep DEF IInv
<1> QED
  BY <1>1, <1>2, <1>3, <1>4 DEF IInv, Faithful, Readable

LEMMA Invariance == Spec => []IInv
<1>1. Init => IInv
  BY IInvInit, ConversionAssumption
<1>2. IInv /\ [Next]_vars => IInv'
  BY IInvStep, ConversionAssumption
<1> QED
  BY <1>1, <1>2, PTL DEF Spec

(* An apply leaves in Datadog and in the state every attribute of the      *)
(* configuration that is not recorded as lost, and no other, where both    *)
(* functions have them without conditions and what the flatten function    *)
(* tries in turn is never sent together.                                   *)
THEOREM FaithfulIsLossless ==
  Spec => [](Faithful(Converters[conv], Sound) => AppliedIsPlanned)
<1>1. IInv => (Faithful(Converters[conv], Sound) => AppliedIsPlanned)
  BY DEF IInv, Carries
<1> QED
  BY <1>1, Invariance, PTL

(* Under the same conditions a refresh shows the block as it is, whoever   *)
(* edited it.                                                              *)
THEOREM FaithfulSeesEdits ==
  Spec => [](Faithful(Converters[conv], Sound) => RefreshedIsTrue)
<1>1. IInv => (Faithful(Converters[conv], Sound) => RefreshedIsTrue)
  BY DEF IInv, Carries
<1> QED
  BY <1>1, Invariance, PTL

(* ... and an import knows the block completely.                           *)
THEOREM FaithfulCanImport ==
  Spec => [](Faithful(Converters[conv], Sound) => ImportIsComplete)
<1>1. IInv => (Faithful(Converters[conv], Sound) => ImportIsComplete)
  BY DEF IInv, Carries
<1> QED
  BY <1>1, Invariance, PTL

(* What an apply or the user interface stored can be read back, where the  *)
(* flatten function insists on no more than the build function, and only   *)
(* those applies crash whose build function takes an element that may not  *)
(* be there.                                                               *)
THEOREM ReadableSucceeds ==
  Spec => [](/\ Readable(Converters[conv], Sound)
             /\ Build.panics = {} \/ conv \in KnownCrashes
             => ConversionsSucceed)
<1> DEFINE Crashes == step = "crashed" => Build.panics # {}
<1>1. Init => Crashes
  BY DEF Init
<1>2. Crashes /\ [Next]_vars => Crashes'
  <2>1. SUFFICES ASSUME Crashes, [Next]_vars, step' = "crashed"
                 PROVE  Build'.panics # {}
    OBVIOUS
  <2>2. Build' = Build
    BY <2>1, SameConverter
  <2>3. CASE Apply
    BY <2>1, <2>2, <2>3 DEF Apply, Panics
  <2>4. CASE UNCHANGED vars
    BY <2>1, <2>2, <2>4 DEF vars
  <2> QED
    BY <2>1, <2>3, <2>4 DEF Next, Write, Erase, UiSet, UiClear, Refresh, Forget, Import
<1>3. IInv /\ Crashes => (/\ Readable(Converters[conv], Sound)
                          /\ Build.panics = {} \/ conv \in KnownCrashes
                          => ConversionsSucceed)
  BY InsistedCanBeRead
     DEF IInv, CanBeRead, ConversionsSucceed, WrittenCanBeRead, OptionalMeansOptional
<1> HIDE DEF Crashes
<1> QED
  BY <1>1, <1>2, <1>3, Invariance, PTL DEF Spec
=============================================================================
