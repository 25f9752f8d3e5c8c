-------------------------------- MODULE Lookup --------------------------------
(***************************************************************************)
(* What a data source does: it asks Datadog for one object or a list, page *)
(* by page, keeps what fits, chooses, perhaps reads what it chose once     *)
(* more, and answers.  Other people create and delete objects between any  *)
(* two of its requests.  A record says how one data source goes about it:  *)
(*                                                                         *)
(*   by       what the request asks for: an id, some ids, an exact name, a *)
(*            keyword, all objects, or a name in quotes                    *)
(*   paging   whole: no pages; first: only the first page is read; or how  *)
(*            a loop knows the last page: short, total, past, last         *)
(*   keeps    which of the objects in the answers are meant                *)
(*   others   objects of another kind: taken, skip or refuse               *)
(*   odd      objects that could not be parsed: taken, skip, error or hole *)
(*   several  list, or which one of several: error, first, first exact,    *)
(*            only exact                                                   *)
(*   details  each of the list, or the one chosen, is read once more       *)
(*   empty, gone, retries  what nothing, a deleted object and an answer    *)
(*            that may improve with time lead to                           *)
(***************************************************************************)
EXTENDS Naturals, Sequences, FiniteSets, SequencesExt

CONSTANTS
    Sources,       \* the data sources
    Ids,           \* the objects that can exist
    Asked,         \* the ids the configuration names
    Organisations, \* [kind: Ids -> Kinds, world: the objects there are at first]
    PageSize,
    None,
    MaxEdits,      \* bound: objects created and deleted
    MaxFaults      \* bound: times the gateway breaks

Kinds == [name : {"wanted", "similar", "other"}, other : BOOLEAN, odd : BOOLEAN]

ASSUME PageSizeAssumption == PageSize \in Nat \ {0}
ASSUME AskedAssumption == Asked # {} /\ Asked \subseteq Ids /\ None \notin Ids
ASSUME OrganisationsAssumption ==
    \A o \in Organisations :
        o.kind \in [Ids -> Kinds] /\ o.world \in Seq(Ids) /\ IsInjective(o.world)

VARIABLES
    src,       \* the data source that reads
    kind,      \* what each object is
    world,     \* the objects at Datadog, in the order they are listed
    gateway,   \* "up" or "down"
    pc,        \* "ask", "details", "done"
    page, got, \* pages read, and what was on them
    chosen,    \* objects that are still to be read once more
    result,    \* what the state will hold
    outcome,   \* how the read ended
    stayed,    \* history: objects that were there all the time
    inserted, deleted, hidden, \* history: what happened meanwhile
    edits, faults

people == <<stayed, inserted, deleted, edits>>
vars == <<src, kind, world, gateway, pc, page, got, chosen, result, outcome,
          people, hidden, faults>>

-----------------------------------------------------------------------------
(* Datadog *)

\* The elements of a list that are in S, in their order.
Filtered(list, S) ==
    LET F[n \in 0..Len(list)] ==
            IF n = 0 THEN <<>>
            ELSE IF list[n] \in S THEN Append(F[n - 1], list[n])
            ELSE F[n - 1]
    IN  F[Len(list)]

Asks(i) ==
    CASE src.by = "all" -> TRUE
      [] src.by = "keyword" -> kind[i].name # "other"
      [] src.by \in {"id", "ids"} -> i \in Asked
      [] OTHER -> kind[i].name = "wanted"

Matching == Filtered(world, {i \in Ids : Asks(i)})

Page(p) ==
    SubSeq(Matching, p * PageSize + 1,
           IF (p + 1) * PageSize < Len(Matching)
           THEN (p + 1) * PageSize ELSE Len(Matching))

Answer(p) == IF src.paging = "whole" THEN Matching ELSE Page(p)

-----------------------------------------------------------------------------
(* How the loops go on *)

\* Mutant: the page after the next is not asked for.
MoreByTotalEarly(p) == Len(Matching) > PageSize * (p + 2)

\* Total count, and total count less one against the pages before this one.
MoreByTotal(p) == Len(Matching) > PageSize * (p + 1)
MoreByPast(p) == Len(Matching) > p * PageSize + 1
MoreByShort(p) == Len(Answer(p)) = PageSize
MoreByLast(p) == (Len(Matching) - 1) \div PageSize > p /\ MoreByShort(p)

More(p) ==
    CASE src.paging = "total" -> MoreByTotal(p)
      [] src.paging = "past" -> MoreByPast(p)
      [] src.paging = "short" -> MoreByShort(p)
      [] src.paging = "last" -> MoreByLast(p)
      [] OTHER -> FALSE

-----------------------------------------------------------------------------
(* What is kept, and which one is chosen *)

Exact(i) == kind[i].name = "wanted"
Meant(i) ==
    /\ src.keeps = "exact" => Exact(i)
    /\ src.keeps = "keyword" => kind[i].name # "other"
    /\ src.others = "skip" => ~kind[i].other
Kept(list) ==
    Filtered(list, {i \in Ids : Meant(i) /\ (src.odd = "skip" => ~kind[i].odd)})

\* Mutant: the first one wins.
OnlyOneOrFirst(k) == IF k # <<>> THEN {k[1]} ELSE {}
OnlyOne(k) == IF Len(k) = 1 THEN {k[1]} ELSE {}
FirstOf(k) == IF k # <<>> THEN {k[1]} ELSE {}

Choice(k) ==
    LET exact == Filtered(k, {i \in Ids : Exact(i)})
    IN  CASE src.several = "error" -> OnlyOne(k)
          [] src.several = "first" -> FirstOf(k)
          [] src.several = "only exact" -> OnlyOne(exact)
          [] src.several = "first exact" ->
                 IF Len(k) = 1 THEN {k[1]} ELSE FirstOf(exact)

Ends(how, answer) ==
    /\ pc' = "done" /\ outcome' = how /\ result' = answer /\ chosen' = <<>>
Fails(how) == Ends(how, <<>>)

Takes(i) ==
    IF \/ src.odd = "error" /\ kind[i].odd
       \/ src.others = "refuse" /\ kind[i].other
    THEN Fails("error")
    ELSE IF src.details
    THEN pc' = "details" /\ chosen' = <<i>> /\ UNCHANGED <<outcome, result>>
    ELSE Ends("found", <<i>>)

\* An element that could not be parsed leaves an empty one in some lists.
Holes(k) == [n \in DOMAIN k |->
                IF src.odd = "hole" /\ kind[k[n]].odd THEN None ELSE k[n]]

\* A list of nothing is refused: as the answer is, or as what is left of it.
Refused(list, k) ==
    \/ src.empty = "refuse answer" /\ list = <<>>
    \/ src.empty = "refuse rest" /\ k = <<>>

\* What follows the last page, in the same step.
Concludes(list) ==
    LET k == Kept(list)
    IN  IF src.several = "list"
        THEN IF Refused(list, k) THEN Fails("none")
             ELSE IF src.details
             THEN pc' = "details" /\ chosen' = k /\ UNCHANGED <<outcome, result>>
             ELSE Ends("listed", Holes(k))
        ELSE IF Choice(k) # {} THEN \E i \in Choice(k) : Takes(i)
        ELSE Fails(IF Len(k) > 1 /\ (src.several = "only exact"
                                     => \E i \in ToSet(k) : Exact(i))
                   THEN "several" ELSE "none")

Idle == UNCHANGED <<src, kind, world, gateway, people, faults>>

-----------------------------------------------------------------------------
(* The steps of a read *)

NextPage(p) == p + 1

\* One request for a list.  A loop that looks for one name may stop early.
List ==
    /\ pc = "ask" /\ gateway = "up" /\ src.by \notin {"id", "ids", "quoted"}
    /\ LET list == got \o Answer(page)
           early == src.several = "first" /\ Kept(list) # <<>>
       IN  /\ got' = list /\ page' = NextPage(page)
           /\ IF More(page) /\ ~early
              THEN UNCHANGED <<pc, chosen, result, outcome>>
              ELSE Concludes(list)
    /\ Idle /\ UNCHANGED hidden

\* One request for an object, of which one that is gone is an error, or is
\* answered with a warning and no state.
Get ==
    /\ pc = "ask" /\ gateway = "up" /\ src.by = "id"
    /\ \E i \in Asked :
          IF i \in ToSet(world) THEN Takes(i)
          ELSE Fails(IF src.gone = "forget" THEN "forgotten" ELSE "none")
    /\ Idle /\ UNCHANGED <<page, got, hidden>>

\* What Datadog makes of a name in quotes is not for the provider to know.
GetQuoted ==
    /\ pc = "ask" /\ gateway = "up" /\ src.by = "quoted"
    /\ \/ Fails("none")
       \/ Matching # <<>> /\ Ends("found", <<Matching[1]>>)
    /\ Idle /\ UNCHANGED <<page, got, hidden>>

\* GetRowsByID: answered with the rows there are, and asked again until there
\* are as many as were asked for.
GetRows ==
    /\ pc = "ask" /\ gateway = "up" /\ src.by = "ids"
    /\ got' = Matching
    /\ IF Len(Matching) = Cardinality(Asked) THEN Ends("listed", Matching)
       ELSE UNCHANGED <<pc, chosen, result, outcome>>
    /\ Idle /\ UNCHANGED <<page, hidden>>

\* A request that fails is an error, unless it is tried again.
RequestFails ==
    /\ pc = "ask" /\ gateway = "down" /\ src.retries # "gateway"
    /\ Fails("error")
    /\ Idle /\ UNCHANGED <<page, got, hidden>>

\* Mutant: there is no end to it.
TimeOutNever ==
    /\ pc = "ask" /\ src.retries # "never" /\ got # <<>>
    /\ Ends("partial", got)
    /\ Idle /\ UNCHANGED <<page, got, hidden>>

\* RetryContext gives up: rows that were found are kept, with a warning.
TimeOut ==
    /\ pc = "ask" /\ src.retries # "never"
    /\ IF got # <<>> THEN Ends("partial", got) ELSE Fails("error")
    /\ Idle /\ UNCHANGED <<page, got, hidden>>

\* The chosen object is read once more; one that is gone is an error.
Reread ==
    /\ pc = "details" /\ src.several # "list"
    /\ IF gateway = "up" /\ chosen[1] \in ToSet(world)
       THEN Ends("found", chosen) ELSE Fails("error")
    /\ Idle /\ UNCHANGED <<page, got, hidden>>

\* Each object of a list is read once more, and is left out when that fails,
\* whatever the reason.
RereadEach ==
    /\ pc = "details" /\ src.several = "list" /\ chosen # <<>>
    /\ LET i == Head(chosen)
           up == gateway = "up"
       IN  /\ result' = IF up /\ i \in ToSet(world) /\ Exact(i)
                        THEN Append(result, i) ELSE result
           /\ hidden' = (hidden \/ ~up)
    /\ chosen' = Tail(chosen)
    /\ Idle /\ UNCHANGED <<pc, page, got, outcome>>

RereadDone ==
    /\ pc = "details" /\ src.several = "list" /\ chosen = <<>>
    /\ Ends("listed", result)
    /\ Idle /\ UNCHANGED <<page, got, hidden>>

-----------------------------------------------------------------------------
(* Others *)

Meanwhile ==
    /\ pc # "done" /\ edits < MaxEdits /\ edits' = edits + 1
    /\ UNCHANGED <<src, kind, gateway, pc, page, got, chosen, result, outcome,
                   hidden, faults>>

\* Lists are sorted by names or dates: a new object can be anywhere.
Create(i, n) ==
    /\ Meanwhile
    /\ i \notin ToSet(world) /\ n \in 1..(Len(world) + 1)
    /\ world' = InsertAt(world, n, i) /\ inserted' = TRUE
    /\ UNCHANGED <<stayed, deleted>>

Delete(i) ==
    /\ Meanwhile
    /\ i \in ToSet(world)
    /\ world' = Filtered(world, Ids \ {i})
    /\ stayed' = stayed \ {i} /\ deleted' = TRUE
    /\ UNCHANGED inserted

Gateway ==
    /\ pc # "done"
    /\ \/ gateway = "up" /\ faults < MaxFaults /\ faults' = faults + 1
          /\ gateway' = "down"
       \/ gateway = "down" /\ gateway' = "up" /\ UNCHANGED faults
    /\ UNCHANGED <<src, kind, world, pc, page, got, chosen, result, outcome,
                   people, hidden>>

-----------------------------------------------------------------------------
Init ==
    /\ src \in Sources
    /\ \E o \in Organisations :
          kind = o.kind /\ world = o.world /\ stayed = ToSet(o.world)
    /\ gateway = "up" /\ pc = "ask" /\ page = 0 /\ got = <<>> /\ chosen = <<>>
    /\ result = <<>> /\ outcome = "none yet"
    /\ inserted = FALSE /\ deleted = FALSE /\ hidden = FALSE
    /\ edits = 0 /\ faults = 0

Read ==
    \/ List \/ Get \/ GetQuoted \/ GetRows \/ RequestFails \/ TimeOut
    \/ Reread \/ RereadEach \/ RereadDone

Next ==
    \/ Read \/ Gateway
    \/ \E i \in Ids : Delete(i) \/ \E n \in 1..(Len(world) + 1) : Create(i, n)

\* Requests are answered and timers run out.
Spec == Init /\ [][Next]_vars /\ WF_vars(Read) /\ WF_vars(TimeOut)
=============================================================================
