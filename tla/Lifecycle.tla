------------------------------ MODULE Lifecycle ------------------------------
(***************************************************************************)
(* The life of one resource under Terraform.  Every resource type of the   *)
(* provider has four handlers; the modules SdkHandlers and                 *)
(* FrameworkHandlers give each handler as the sequence of the steps it     *)
(* takes.  This module says what a step does to Datadog and to the         *)
(* response of the handler, and what Terraform makes of a handler that     *)
(* ends in each of the two plugin libraries, while people edit and delete  *)
(* the same object in the Datadog UI and API calls fail.                   *)
(*                                                                         *)
(*   post      create the object; it gets a new id                         *)
(*   postName  create it; refused when an object of that name exists       *)
(*   postAs    the same, and the id of the object is the configured name   *)
(*   claim     the same, but a name that is taken is no error              *)
(*   confirm   read the object after a refused claim; an error when gone   *)
(*   takeOver  write it after a refused claim; an error when it is gone    *)
(*   upsert    write the one object this resource can name, or create it   *)
(*   upsert!   the same, but the plan is saved even if the call fails      *)
(*   put       write the object; an error when it is gone                  *)
(*   delete    delete the object; an error when it is gone                 *)
(*   delete?   delete it, or empty a setting; gone is as good as deleted   *)
(*   get       read the object; an error when it is gone                   *)
(*   get?      read it; when it is gone drop it from the state and return  *)
(*   get!      the same, and any other refusal is taken for "gone"         *)
(*   get~      read a list; an object that is not in it stays in the state *)
(*             unless there is no list, then return in either case         *)
(*   expect    read it; when it is gone drop it and report an error        *)
(*   poll      read it again and again until Datadog shows it              *)
(*   look      read a setting, which is always there and may be empty      *)
(*   glance    the same; when the call fails it is taken for empty         *)
(*   await     look again and again until it is what was written           *)
(*   call      a call that does nothing to the object                      *)
(*   check     refuse an answer the client could not parse completely      *)
(*   id        d.SetId with the id of the last answer (SDK v2 only)        *)
(*   save      write the last answer into the response                     *)
(*   savePlan  write the planned values into the response                  *)
(*   error     always fail: the operation is not supported                 *)
(***************************************************************************)
EXTENDS Naturals, Sequences, FiniteSets

CONSTANTS
    Handlers,     \* the handlers of every resource type
    Loses,        \* those known to lose an object they created to a failed call
    Blind,        \* those known not to look at the object they wrote
    Drops,        \* those known to take a failed read for a deleted object
    Keeps,        \* those known to leave the object behind when destroyed
    Stuck,        \* those known to report an error for an object that is gone
    Patient,      \* those that wait until Datadog shows what they created
    Ids,          \* ids of objects at Datadog
    Name,         \* the one of an object that is called by its configured name
    Values,       \* what the user can configure
    UiValue,      \* what people set in the UI
    None,
    MaxEdits,     \* bound: edits made in the Datadog UI
    MaxFaults,    \* bound: calls that fail
    MaxUnread,    \* bound: answers that do not parse
    MaxLags       \* bound: objects Datadog does not show at once

Reads == {"get", "get?", "get!", "get~", "expect", "poll"}
Posts == {"post", "postName", "postAs", "claim"}
Deletes == {"delete", "delete?"}
Writes == Posts \cup Deletes \cup {"upsert", "upsert!", "put"}
Looks == {"look", "glance", "await"}
Adoption == {"confirm", "takeOver"}  \* what follows a refused claim
Calls == Reads \cup Writes \cup Looks \cup Adoption \cup {"call"}
Steps == Calls \cup {"check", "id", "save", "savePlan", "error"}

\* update = <<"replace">> marks a type whose every attribute forces a new object.
HandlerSets == [sdk : {"v2", "framework"}, create : Seq(Steps), read : Seq(Steps),
                update : Seq(Steps) \cup {<<"replace">>}, delete : Seq(Steps),
                imports : BOOLEAN]

\* The steps of a create before the one that records the id for Terraform.
Records(h) == IF h.sdk = "v2" THEN {"id"} ELSE {"id", "save", "savePlan"}
Unrecorded(h) == {k \in DOMAIN h.create :
                    \A j \in 1..k : h.create[j] \notin Records(h)}
\* Those of them that run when the object has been created.
Exposed(h) == {h.create[k] : k \in {k \in Unrecorded(h) :
                 \E j \in 1..(k - 1) : h.create[j] \in Posts}}

\* A type whose objects have the configured name for an id.
Named(h) == \E k \in DOMAIN h.create : h.create[k] \in {"postAs", "claim"}

\* After one of these the handler knows what object it is about.
Answering == (Reads \cup Writes \cup Looks) \ Deletes

\* No call runs while an object is created but not recorded, it is recorded, and
\* only a 404 counts as "gone".
CreatesCarefully(h) ==
    /\ Exposed(h) \cap (Calls \cup {"error"}) = {}
    /\ \A k \in DOMAIN h.create : h.create[k] # "get!"
    /\ \A p \in DOMAIN h.create : h.create[p] \in Posts =>
          p \in Unrecorded(h) /\ \E r \in DOMAIN h.create :
                                   r > p /\ h.create[r] \in Records(h)

\* A read or update never creates an object, takes only a 404 for "gone", and
\* writes into the state what Datadog answered; a delete deletes.
KeepsCarefully(h) ==
    /\ \A program \in {h.read, h.update} : \A k \in DOMAIN program :
          /\ program[k] \notin Posts \cup Adoption \cup {"get!"}
          /\ program[k] \in {"id", "save", "savePlan"} =>
                \E j \in 1..(k - 1) : program[j] \in Answering
    /\ \A k \in DOMAIN h.delete : h.delete[k] \in Deletes \cup {"call", "check"}
    /\ \E k \in DOMAIN h.delete : h.delete[k] \in Deletes

\* Steps that leave the object as it is configured, and the one nothing follows.
Changes == (Writes \ Deletes) \cup {"error"}

\* A create or an update writes the object, and does not return before that as if
\* it had; with the SDK v2, for which nobody compares the result with the plan,
\* it saves only what was answered afterwards.
WritesTruly(h, program) ==
    /\ \E k \in DOMAIN program : program[k] \in Changes
    /\ \A k \in DOMAIN program :
          LET Behind(steps) == \E j \in 1..(k - 1) : program[j] \in steps
          IN  /\ program[k] \notin Deletes \cup Adoption \cup {"get!", "claim"}
              /\ program[k] \in {"get?", "get~"} => Behind(Changes)
              /\ program[k] = "id" => Behind(Answering)
              /\ h.sdk = "v2" => /\ program[k] # "glance"
                                 /\ program[k] = "save" => Behind(Changes)

\* A read saves what was answered, and changes nothing.
ReadsTruly(program) ==
    /\ \E k \in DOMAIN program : program[k] \in {"save", "error"}
    /\ \A k \in DOMAIN program :
          /\ program[k] \notin Writes \cup Adoption \cup {"get~", "savePlan"}
          /\ program[k] \in {"id", "save"} =>
                \E j \in 1..(k - 1) : program[j] \in Answering

SettlesCarefully(h) ==
    /\ ReadsTruly(h.read) /\ WritesTruly(h, h.create)
    /\ \A k \in DOMAIN h.create : h.create[k] \in Posts => k \in Unrecorded(h)
    /\ h.sdk = "v2" => \E k \in DOMAIN h.create : h.create[k] \in {"id", "error"}
    /\ h.update # <<"replace">> =>
          /\ WritesTruly(h, h.update)
          /\ \A k \in DOMAIN h.update : h.update[k] \notin Posts

ASSUME HandlersAssumption == Handlers \subseteq HandlerSets
ASSUME ValuesAssumption ==
    None \notin Values \cup {UiValue} \cup Ids /\ UiValue \notin Values
ASSUME NameAssumption == Name \in Ids
ASSUME BoundsAssumption ==
    /\ MaxEdits \in Nat /\ MaxFaults \in Nat
    /\ MaxUnread \in Nat /\ MaxLags \in Nat

VARIABLES
    handlers,     \* the handlers of the resource at hand
    cfg,          \* its configuration
    objects,      \* Datadog: the value of every object, None when it is gone
    hidden,       \* Datadog: objects that reads do not show yet
    st,           \* the resource in the Terraform state
    doing,        \* where Terraform is
    at,           \* the next step of the running handler
    work,         \* the response the handler is building
    answer,       \* the last answer of Datadog to this handler
    made,         \* history: objects whose creation Datadog confirmed
    outcome,      \* history: how the last run of Terraform ended
    disturbed,    \* history: somebody used the UI since the run began
    edits, faults, unread, lags

remoteVars == <<objects, hidden, made>>
bounds == <<edits, faults, unread, lags>>
vars == <<handlers, cfg, objects, hidden, st, doing, at, work, answer, made,
          outcome, disturbed, edits, faults, unread, lags>>

-----------------------------------------------------------------------------
(* Terraform's side of a handler *)

Nothing == [id |-> None, val |-> None]
NoState == [status |-> "none", id |-> None, val |-> None]
InState(status, w) == IF w.id = None THEN NoState
                      ELSE [status |-> status, id |-> w.id, val |-> w.val]

\* What the library hands the handler as its response before the first step.
Prepared(op) ==
    CASE op = "create" /\ handlers.sdk = "v2" -> [id |-> None, val |-> cfg]
      [] op = "create" /\ handlers.sdk = "framework" -> Nothing
      [] op = "update" /\ handlers.sdk = "v2" -> [id |-> st.id, val |-> cfg]
      [] OTHER -> [id |-> st.id, val |-> st.val]

Start(op) ==
    /\ doing' = op
    /\ at' = 1
    /\ work' = Prepared(op)
    /\ answer' = Nothing

Finish(where, how) ==
    /\ doing' = where
    /\ at' = 0
    /\ work' = Nothing
    /\ answer' = Nothing
    /\ outcome' = how

\* The handler returns an error and leaves w in the response.
FailsWith(w) ==
    /\ st' = CASE doing = "create" -> InState("tainted", w)
               [] doing = "update" -> InState(st.status, w)
               [] OTHER -> st
    /\ Finish("idle", "error")

Fails == FailsWith(work)

\* The handler returns without an error and leaves w in the response.  Terraform
\* refuses a result that is not what was planned, except from the SDK v2.
Succeeds(w) ==
    \/ /\ doing = "read"
       /\ st' = InState(st.status, w)
       /\ Finish("refreshed", "none")
    \/ /\ doing = "import"
       /\ st' = InState("ok", w)
       /\ Finish("idle", "none")
    \/ /\ doing \in {"create", "update"}
       /\ IF handlers.sdk = "framework" /\ (w.id = None \/ w.val # cfg)
          THEN /\ st' = InState(IF doing = "create" THEN "tainted" ELSE st.status, w)
               /\ Finish("idle", "error")
          ELSE /\ st' = InState("ok", w)
               /\ Finish("idle", "applied")
    \/ /\ doing = "delete"
       /\ st' = NoState
       /\ Finish("idle", "destroyed")
    \/ /\ doing = "replace"
       /\ st' = NoState
       /\ Start("create")
       /\ UNCHANGED outcome

-----------------------------------------------------------------------------
(* The steps of a handler *)

\* The steps of the handler that does op.
ProgramOf(h, op) == CASE op \in {"read", "import"} -> h.read
                      [] op = "create" -> h.create
                      [] op = "update" -> h.update
                      [] op \in {"delete", "replace"} -> h.delete
                      [] OTHER -> <<>>
Program == ProgramOf(handlers, doing)

At(steps) == at \in DOMAIN Program /\ Program[at] \in steps

Live(i) == objects[i] # None

\* The object a step is about: the one in the response, else the one just made.
Target == IF work.id # None THEN work.id ELSE answer.id

Goes(response, reply) ==
    /\ at' = at + 1
    /\ work' = response
    /\ answer' = reply
    /\ UNCHANGED <<st, doing, outcome>>

\* What Datadog does to object i when it carries out a write.
Own(i) == i = Name <=> Named(handlers)
New(i) == ~Live(i) /\ Own(i) /\ i \notin {st.id, work.id, answer.id}

Creates(i) ==
    /\ New(i)
    /\ ~At({"post"}) => \A j \in Ids : ~Live(j)
    /\ objects' = [objects EXCEPT ![i] = cfg]

\* The one object an upsert or a look is about: its own, one that exists, or a new one.
One(i) == IF Target # None THEN i = Target
          ELSE Own(i) /\ ((\E j \in Ids : Live(j)) => Live(i))

Upserts(i) ==
    /\ One(i)
    /\ objects' = [objects EXCEPT ![i] = cfg]

Overwrites(i) ==
    /\ i = Target /\ Live(i)
    /\ objects' = [objects EXCEPT ![i] = cfg]

Removes(i) ==
    /\ i = Target /\ Live(i)
    /\ objects' = [objects EXCEPT ![i] = None]

Answers(i) == Goes(work, [id |-> i, val |-> objects'[i]]) /\ UNCHANGED faults

\* The call fails: nobody knows whether Datadog carried it out.
Fault == faults < MaxFaults /\ faults' = faults + 1
CallFails == Fault /\ Fails

Same == UNCHANGED <<handlers, cfg, disturbed, edits, unread>>

Post(i) ==
    /\ At(Posts)
    /\ Creates(i)
    /\ \/ /\ Answers(i)
          /\ made' = made \cup {i}
          /\ \/ UNCHANGED <<hidden, lags>>
             \/ /\ lags < MaxLags /\ lags' = lags + 1
                /\ hidden' = hidden \cup {i}
       \/ CallFails /\ UNCHANGED <<hidden, made, lags>>
    /\ Same

Upsert(i) ==
    /\ At({"upsert"})
    /\ Upserts(i)
    /\ Answers(i) \/ CallFails
    /\ Same /\ UNCHANGED <<hidden, made, lags>>

UpsertAnyway(i) ==
    /\ At({"upsert!"})
    /\ \/ Upserts(i) /\ Answers(i)
       \/ /\ Upserts(i) \/ (One(i) /\ UNCHANGED objects)
          /\ Fault /\ FailsWith([id |-> i, val |-> cfg])
    /\ Same /\ UNCHANGED <<hidden, made, lags>>

\* The create went through, so nothing is left to adopt.
Skipped == At(Adoption) /\ answer.val # None

Put(i) ==
    /\ At({"put", "takeOver"}) /\ ~Skipped
    /\ Overwrites(i)
    /\ Answers(i) \/ CallFails
    /\ Same /\ UNCHANGED <<hidden, made, lags>>

Delete(i) ==
    /\ At(Deletes)
    /\ Removes(i)
    /\ Answers(i) \/ CallFails
    /\ hidden' = hidden \ {i} /\ made' = made \ {i}
    /\ Same /\ UNCHANGED lags

Shown == Target # None /\ Live(Target) /\ Target \notin hidden

Get ==
    /\ At(Reads)
    /\ Shown
    /\ Goes(work, [id |-> Target, val |-> objects[Target]])
    /\ Same /\ UNCHANGED <<remoteVars, faults, lags>>

Refused ==
    \/ At({"get", "confirm"}) /\ ~Shown
    \/ At({"poll", "put", "takeOver", "delete"}) /\ ~(Target # None /\ Live(Target))
    \/ At({"await"}) /\ ~(Target # None /\ objects[Target] = cfg)
    \/ At({"postName", "postAs"}) /\ \E i \in Ids : Live(i)
    \/ At({"post"}) /\ \A i \in Ids : ~New(i)  \* the account is at its limit
    \/ At({"error"})

\* Datadog says no, or the handler does before it asks.
Refuse ==
    /\ Refused /\ ~Skipped
    /\ Fails
    /\ Same /\ UNCHANGED <<remoteVars, faults, lags>>

\* A call that never reaches Datadog, or is answered with a server error.
Unreachable ==
    /\ At(Calls \ {"upsert!", "glance"}) /\ ~Skipped
    /\ CallFails
    /\ Same /\ UNCHANGED <<remoteVars, lags>>

\* A read answered 404: the handler clears the response and returns.
Forget ==
    /\ \/ At({"get?", "get!", "get~"}) /\ ~Shown /\ Succeeds(Nothing) /\ UNCHANGED faults
       \/ At({"expect"}) /\ ~Shown /\ FailsWith(Nothing) /\ UNCHANGED faults
       \/ At({"get!"}) /\ Fault /\ Succeeds(Nothing)
    /\ Same /\ UNCHANGED <<remoteVars, lags>>

\* The object is not in the list, and the handler returns without a word.
Overlook ==
    /\ At({"get~"}) /\ ~Shown
    /\ Succeeds(work)
    /\ Same /\ UNCHANGED <<remoteVars, faults, lags>>

Look(i) ==
    /\ At(Looks)
    /\ One(i) /\ (At({"await"}) => i = Target /\ objects[i] = cfg)
    /\ \/ Goes(work, [id |-> i, val |-> objects[i]]) /\ UNCHANGED faults
       \/ /\ At({"glance"}) /\ Fault
          /\ Goes(work, [id |-> i, val |-> None])
    /\ Same /\ UNCHANGED <<remoteVars, lags>>

Call ==
    /\ At({"call"})
    /\ Goes(work, answer)
    /\ Same /\ UNCHANGED <<remoteVars, faults, lags>>

\* The name is taken: who has it is known, what it holds is not.
Conflict ==
    /\ At({"claim"}) /\ Live(Name)
    /\ Goes(work, [id |-> Name, val |-> None])
    /\ Same /\ UNCHANGED <<remoteVars, faults, lags>>

\* The answer of the read that confirms it is not used.
Confirm ==
    /\ Skipped \/ (At({"confirm"}) /\ Shown)
    /\ Goes(work, answer)
    /\ Same /\ UNCHANGED <<remoteVars, faults, lags>>

AlreadyGone ==
    /\ At({"delete?"}) /\ ~(Target # None /\ Live(Target))
    /\ Goes(work, answer)
    /\ Same /\ UNCHANGED <<remoteVars, faults, lags>>

Check ==
    /\ At({"check"})
    /\ \/ Goes(work, answer) /\ UNCHANGED unread
       \/ /\ unread < MaxUnread /\ unread' = unread + 1
          /\ Fails
    /\ UNCHANGED <<handlers, cfg, disturbed, edits, faults, lags, remoteVars>>

\* Mutant: d.SetId with another field of the answer.
SetIdOther ==
    /\ At({"id"})
    /\ Goes([work EXCEPT !.id = answer.val], answer)
    /\ Same /\ UNCHANGED <<remoteVars, faults, lags>>

SetId ==
    /\ At({"id"})
    /\ Goes([work EXCEPT !.id = answer.id], answer)
    /\ Same /\ UNCHANGED <<remoteVars, faults, lags>>

\* The SDK v2 keeps the id apart from the values.
Save ==
    /\ At({"save"})
    /\ Goes(IF handlers.sdk = "v2" THEN [work EXCEPT !.val = answer.val]
            ELSE answer, answer)
    /\ Same /\ UNCHANGED <<remoteVars, faults, lags>>

SavePlan ==
    /\ At({"savePlan"})
    /\ Goes([id |-> IF handlers.sdk = "v2" THEN work.id ELSE Target, val |-> cfg],
            answer)
    /\ Same /\ UNCHANGED <<remoteVars, faults, lags>>

Return ==
    /\ doing \notin {"idle", "refreshed"} /\ at = Len(Program) + 1
    /\ Succeeds(work)
    /\ Same /\ UNCHANGED <<remoteVars, faults, lags>>

Handle ==
    \/ \E i \in Ids : \/ Post(i) \/ Upsert(i) \/ UpsertAnyway(i)
                     \/ Put(i) \/ Delete(i) \/ Look(i)
    \/ Get \/ Refuse \/ Unreachable \/ Forget \/ Overlook \/ AlreadyGone
    \/ Conflict \/ Confirm \/ Call \/ Check \/ SetId \/ Save \/ SavePlan \/ Return

-----------------------------------------------------------------------------
(* Terraform *)

Refresh ==
    /\ doing = "idle" /\ st.id # None
    /\ Start("read")
    /\ outcome' = "none" /\ disturbed' = FALSE
    /\ UNCHANGED <<handlers, cfg, remoteVars, st, bounds>>

PlanAndApply ==
    /\ \/ doing = "refreshed" /\ UNCHANGED disturbed
       \/ doing = "idle" /\ st.id = None /\ disturbed' = FALSE
    /\ CASE st.status = "none" ->
              Start("create") /\ outcome' = "none"
         [] st.status = "tainted" ->
              Start("replace") /\ outcome' = "none"
         [] st.status = "ok" /\ st.val # cfg ->
              /\ IF handlers.update = <<"replace">>
                 THEN Start("replace")
                 ELSE Start("update")
              /\ outcome' = "none"
         [] st.status = "ok" /\ st.val = cfg ->
              Finish("idle", "no changes")
    /\ UNCHANGED <<handlers, cfg, remoteVars, st, bounds>>

Destroy ==
    /\ doing = "refreshed" /\ st.id # None
    /\ Start("delete")
    /\ UNCHANGED <<handlers, cfg, remoteVars, st, outcome, disturbed, bounds>>

Import(i) ==
    /\ doing = "idle" /\ st.id = None
    /\ handlers.imports /\ Live(i)
    /\ doing' = "import"
    /\ at' = 1
    /\ work' = [id |-> i, val |-> None]
    /\ answer' = Nothing
    /\ outcome' = "none" /\ disturbed' = FALSE
    /\ UNCHANGED <<handlers, cfg, remoteVars, st, bounds>>

-----------------------------------------------------------------------------
(* The user, the Datadog UI, and Datadog itself *)

EditConfig(v) ==
    /\ doing = "idle" /\ v # cfg
    /\ cfg' = v /\ outcome' = "none"
    /\ UNCHANGED <<handlers, remoteVars, st, doing, at, work, answer,
                   disturbed, bounds>>

UiEdit(i) ==
    /\ edits < MaxEdits /\ edits' = edits + 1
    /\ Live(i)
    /\ objects' = [objects EXCEPT ![i] = UiValue]
    /\ disturbed' = TRUE
    /\ UNCHANGED <<handlers, cfg, hidden, made, st, doing, at, work, answer,
                   outcome, faults, unread, lags>>

\* Nobody gives the name of an object Terraform works on to another one.
UiCreate(i) ==
    /\ edits < MaxEdits /\ edits' = edits + 1
    /\ New(i) /\ \A j \in Ids : ~Live(j)
    /\ objects' = [objects EXCEPT ![i] = UiValue]
    /\ disturbed' = TRUE
    /\ UNCHANGED <<handlers, cfg, hidden, made, st, doing, at, work, answer,
                   outcome, faults, unread, lags>>

\* Delete an object, or empty a setting.
UiDelete(i) ==
    /\ edits < MaxEdits /\ edits' = edits + 1
    /\ Live(i)
    /\ objects' = [objects EXCEPT ![i] = None]
    /\ hidden' = hidden \ {i} /\ made' = made \ {i}
    /\ disturbed' = TRUE
    /\ UNCHANGED <<handlers, cfg, st, doing, at, work, answer, outcome,
                   faults, unread, lags>>

Appear ==
    /\ hidden # {} /\ hidden' = {}
    /\ UNCHANGED <<handlers, cfg, objects, made, st, doing, at, work, answer,
                   outcome, disturbed, bounds>>

Init ==
    /\ handlers \in Handlers
    /\ cfg \in Values
    /\ objects = [i \in Ids |-> None]
    /\ hidden = {} /\ made = {}
    /\ st = NoState
    /\ doing = "idle" /\ at = 0
    /\ work = Nothing /\ answer = Nothing
    /\ outcome = "none" /\ disturbed = FALSE
    /\ edits = 0 /\ faults = 0 /\ unread = 0 /\ lags = 0

Terraform == Handle \/ Refresh \/ PlanAndApply
World == Appear \/ \E i \in Ids : UiEdit(i) \/ UiDelete(i)

Next ==
    \/ Terraform \/ World
    \/ Destroy
    \/ \E i \in Ids : Import(i) \/ UiCreate(i)
    \/ \E v \in Values : EditConfig(v)

Spec == Init /\ [][Next]_vars

\* A pipeline that applies one configuration again and again.
PipelineSpec ==
    /\ Init /\ [][Terraform \/ World]_vars
    /\ WF_vars(Terraform) /\ WF_vars(Appear)

-----------------------------------------------------------------------------
(* Properties *)

Value == Values \cup {UiValue, None}
Response == [id : Ids \cup {None}, val : Value]
StateEntry == [status : {"none", "ok", "tainted"}, id : Ids \cup {None}, val : Value]

RemoteOK ==
    /\ objects \in [Ids -> Value]
    /\ hidden \subseteq Ids /\ made \subseteq Ids

RunOK ==
    /\ st \in StateEntry /\ (st.id = None <=> st.status = "none")
    /\ doing \in {"idle", "refreshed", "read", "import", "create", "update",
                  "replace", "delete"}
    /\ doing \in {"create", "import"} => st.id = None
    /\ doing \in {"read", "update", "replace", "delete"} => st.id # None
    /\ at \in Nat /\ at <= Len(Program) + 1
    /\ work \in Response /\ answer \in Response
    /\ outcome \in {"none", "error", "applied", "no changes", "destroyed"}

BoundsOK ==
    /\ edits \in 0..MaxEdits /\ faults \in 0..MaxFaults
    /\ unread \in 0..MaxUnread /\ lags \in 0..MaxLags

\* Every part of the state stays in its range: an entry of the state names an
\* object exactly when it is not empty, and a handler never runs past its end.
TypeOK ==
    /\ handlers \in Handlers /\ cfg \in Values /\ disturbed \in BOOLEAN
    /\ RemoteOK /\ RunOK /\ BoundsOK

AtRest == doing \in {"idle", "refreshed"}

\* Datadog showed every object as soon as it was made, or the handlers wait for
\* it and nothing cut the wait short.
Prompt == lags = 0 \/ (handlers \in Patient /\ faults = 0 /\ unread = 0)

\* No object that Datadog confirmed to have created for Terraform stays behind
\* outside the state: the next run would create a second one and nobody would
\* ever delete the first.  The handlers in Loses are the known exceptions, and
\* those that refuse an answer they cannot parse before they record its id; an
\* object Datadog does not show yet counts as gone for a read.
NoOrphans ==
    AtRest /\ Prompt =>
        \/ made \subseteq {st.id}
        \/ handlers \in Loses \cup Keeps \cup Drops
        \/ unread > 0 /\ "check" \in Exposed(handlers)

\* An object leaves the state only when it is gone: a read that drops it, an
\* update that replaces it and a destroy all agree with Datadog about it.
DroppedOnlyWhenGone ==
    [][st.id # None /\ st'.id # st.id /\ Prompt /\ handlers \notin Drops \cup Keeps
       => objects'[st.id] = None]_vars

\* A run that reports success or no changes, with nobody in the UI meanwhile,
\* ends with an object that has exactly the configured values.
SettledMeansTrue ==
    /\ doing = "idle" /\ outcome \in {"applied", "no changes"}
    /\ ~disturbed /\ Prompt /\ handlers \notin Blind
    => st.id # None /\ objects[st.id] = cfg /\ st.val = cfg

\* Why they hold.  First: a handler knows its object while it runs, and a delete
\* that went through leaves nothing.
Past(steps) == \E j \in DOMAIN Program : j < at /\ Program[j] \in steps

KnowsItsObject ==
    KeepsCarefully(handlers) /\ lags = 0 =>
        /\ doing \in {"read", "update"} =>
              /\ work.id = st.id /\ answer.id \in {None, st.id}
              /\ Past(Answering) => answer.id = st.id
        /\ doing \in {"delete", "replace"} =>
              /\ work.id = st.id
              /\ Past(Deletes) => ~Live(st.id)

\* Second: what was created is what the last answer is about, until a step
\* records its id; from then on it is in the response.
KnowsWhatItMade ==
    /\ KeepsCarefully(handlers) /\ CreatesCarefully(handlers) /\ lags = 0
    /\ "check" \in Exposed(handlers) => unread = 0
    => /\ doing # "create" => made \subseteq {st.id}
       /\ doing = "create" =>
             /\ ~Past(Posts) => made = {}
             /\ Past(Posts) => answer.id # None /\ made \subseteq {answer.id}
             /\ ~Past(Records(handlers)) => work.id = None
             /\ Past(Posts) /\ Past(Records(handlers)) => work.id = answer.id

MadeIsLive == made \subseteq {i \in Ids : Live(i)}
PromptIsShown == lags = 0 => hidden = {}

\* Third: once a create or an update has written the object, the object it answers
\* for and the one in the response are as configured; what a read brought is what
\* is there.
AnswersForOne == Past(Answering) => answer.id # None

WriteIsKnown ==
    doing \in {"create", "update"} =>
        /\ doing = "update" => handlers.update # <<"replace">>
        /\ doing = "create" /\ ~Past(Records(handlers)) => work.id = None
        /\ handlers.sdk = "v2" =>
              /\ work.val = cfg
              /\ doing = "update" \/ Past({"id", "error"}) => work.id # None
              /\ Past(Changes) => answer.val = cfg
        /\ Past(Changes) => /\ answer.id # None /\ objects[answer.id] = cfg
                            /\ work.id # None => objects[work.id] = cfg

ReadIsKnown ==
    /\ doing = "read" =>
          /\ work.id # None
          /\ answer.id # None => /\ answer.id = work.id
                                 /\ answer.val \in {None, objects[work.id]}
          /\ Past({"save", "error"}) => work.val \in {None, objects[work.id]}
    /\ doing = "refreshed" /\ st.id # None => st.val \in {None, objects[st.id]}

SettledIsTrue ==
    doing = "idle" /\ outcome \in {"applied", "no changes"} =>
        st.id # None /\ objects[st.id] = cfg /\ st.val = cfg

KnowsWhatIsThere ==
    /\ AnswersForOne
    /\ SettlesCarefully(handlers) /\ lags = 0 /\ ~disturbed =>
          WriteIsKnown /\ ReadIsKnown /\ SettledIsTrue

\* An object outside the state has the name, and a create is refused for it.
NameTaken ==
    /\ st.id = None /\ \E i \in Ids : Live(i)
    /\ \E k \in DOMAIN handlers.create : handlers.create[k] \in {"postName", "postAs"}

\* The object of the state is gone.
Gone == st.id # None /\ ~Live(st.id)

\* A pipeline that keeps applying ends with the configured object, whatever
\* was edited, deleted or failed before.  Only two things stop it for good: the
\* object of a create that failed or was lost has the name, or, for the handlers in
\* Stuck, whose read reports an error for it, the object was deleted.
Converges ==
    <>[](\/ st.status = "ok" /\ objects[st.id] = cfg
         \/ NameTaken
         \/ handlers \in Stuck /\ Gone)
=============================================================================
