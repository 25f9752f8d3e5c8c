----------------------------- MODULE UserAccounts -----------------------------
(***************************************************************************)
(* datadog_user and datadog_service_account.  Datadog does not delete an   *)
(* account, it disables it, and answers 409 to the creation of one whose   *)
(* handle is taken: both resources then search for the account and take it *)
(* over.  Every API call is a step; people edit accounts between any two.  *)
(*                                                                         *)
(*   create   make, or search, write, add roles, remove roles; invite      *)
(*   update   add roles, remove roles, write                               *)
(*   delete   disable                                                      *)
(*                                                                         *)
(* The two differ in what they do with the account they took over, and in  *)
(* what an error leaves in the state, so "kind" says which one runs.       *)
(***************************************************************************)
EXTENDS Naturals, FiniteSets

CONSTANTS
    Ids,           \* the accounts that can exist
    Emails,        \* email addresses and handles
    Roles,
    Configs,       \* the configurations: [email, disabled, roles, invite]
    Organisations, \* the accounts there can be at first: [Ids -> account]
    Contains,      \* Contains[e]: the addresses that have e as a part
    Page,          \* accounts in an answer of ListUsers
    None,
    MaxEdits,      \* bound: edits made in the Datadog UI
    MaxFaults,     \* bound: API calls that fail
    MaxChoices     \* bound: changes of the configuration and removals

Nobody == [handle |-> None, email |-> None, disabled |-> FALSE, roles |-> {},
           service |-> FALSE]
Account == [handle : Emails, email : Emails, disabled : BOOLEAN,
            roles : SUBSET Roles, service : BOOLEAN]
Config == [email : Emails, disabled : BOOLEAN, roles : SUBSET Roles,
           invite : BOOLEAN]

ASSUME ConfigsAssumption == Configs \subseteq Config
ASSUME OrganisationsAssumption ==
    Organisations \subseteq [Ids -> Account \cup {Nobody}]
ASSUME ContainsAssumption ==
    /\ Contains \in [Emails -> SUBSET Emails]
    /\ \A e \in Emails : e \in Contains[e]
ASSUME NoneAssumption == None \notin Ids /\ None \notin Emails
ASSUME IdsAssumption == Ids \subseteq Nat
ASSUME BoundsAssumption == {Page, MaxEdits, MaxFaults, MaxChoices} \subseteq Nat

VARIABLES
    kind,          \* "user" or "service"
    cfg,           \* the configuration
    accounts,      \* Datadog
    invited,       \* history: accounts an invitation was sent to
    st,            \* the resource in the Terraform state
    op,            \* the operation Terraform runs
    pc,            \* the next call of its handler
    who,           \* the account the handler works on
    answer,        \* the answer the handler will save
    toAdd, toRemove, \* roles the handler still has to add and to remove
    conflict,      \* the creation was answered 409
    outcome,       \* history: how the last run ended
    disturbed,     \* history: somebody used the UI since the run began
    edits, faults, choices

handlerVars == <<who, answer, toAdd, toRemove, conflict>>
budget == <<edits, faults, choices>>
vars == <<kind, cfg, accounts, invited, st, op, pc, handlerVars, outcome,
          disturbed, budget>>

Exists(i) == accounts[i] # Nobody
NoState == [status |-> "none", id |-> None, email |-> None, disabled |-> FALSE,
            roles |-> {}]
NoAnswer == [email |-> None, disabled |-> FALSE, roles |-> {}]
Shown(a) == [email |-> a.email, disabled |-> a.disabled, roles |-> a.roles]
InState(status, i, a) ==
    [status |-> status, id |-> i, email |-> a.email,
     disabled |-> a.disabled, roles |-> a.roles]

Conforms(a, c) ==
    a.email = c.email /\ a.disabled = c.disabled /\ a.roles = c.roles

-----------------------------------------------------------------------------
(* How a run starts and ends *)

Terraform == UNCHANGED <<kind, cfg, edits, choices, disturbed>>
Fault == faults < MaxFaults /\ faults' = faults + 1
NoFault == UNCHANGED faults

Idle(how) ==
    /\ pc' = "idle" /\ op' = "none" /\ outcome' = how
    /\ who' = None /\ answer' = NoAnswer
    /\ toAdd' = {} /\ toRemove' = {} /\ conflict' = FALSE

Goes(call) == pc' = call /\ UNCHANGED <<op, st, outcome>>

\* An SDKv2 update that fails saves what was planned; a framework one nothing.
\* No create records the id before its last line.
Fails ==
    /\ Idle("error")
    /\ st' = IF op = "update" /\ kind = "user" THEN InState("ok", who, cfg)
             ELSE IF op = "create" THEN NoState
             ELSE st

\* The framework refuses a result that is not the plan, but saves it.
Saves(status, i, a) ==
    /\ st' = InState(status, i, a)
    /\ Idle(IF status = "tainted" \/ (kind = "service" /\ ~Conforms(a, cfg))
            THEN "error" ELSE "applied")

-----------------------------------------------------------------------------
(* Create *)

\* The last lines of a create: after a 409 the service account saves the
\* answer of the call that failed.
Created(a) ==
    IF kind = "user" THEN Saves("ok", who, a)
    ELSE LET saved == IF conflict THEN NoAnswer ELSE a
         IN  Saves(IF Conforms(saved, cfg) THEN "ok" ELSE "tainted", who, saved)

StartCreate ==
    /\ op' = "create" /\ pc' = "make" /\ outcome' = "none"
    /\ who' = None /\ answer' = NoAnswer
    /\ toAdd' = {} /\ toRemove' = {} /\ conflict' = FALSE

Taken == \E i \in Ids : accounts[i].handle = cfg.email

\* An account is made enabled, whatever the configuration says.
Make ==
    /\ pc = "make"
    /\ \/ /\ ~Taken
          /\ \E i \in Ids :
                /\ ~Exists(i)
                /\ accounts' = [accounts EXCEPT ![i] =
                      [handle |-> cfg.email, email |-> cfg.email,
                       disabled |-> FALSE, roles |-> cfg.roles,
                       service |-> kind = "service"]]
                /\ \/ /\ who' = i /\ answer' = Shown(accounts'[i])
                      /\ Goes("invite")
                      /\ UNCHANGED <<toAdd, toRemove, conflict, faults>>
                   \/ Fault /\ Fails
       \/ /\ Taken
          /\ conflict' = TRUE /\ Goes("search")
          /\ UNCHANGED <<accounts, who, answer, toAdd, toRemove, faults>>
       \/ Fault /\ Fails /\ UNCHANGED accounts
    /\ Terraform /\ UNCHANGED invited

\* The first page of the accounts with an address like the configured one.
Matching == {i \in Ids : Exists(i) /\ accounts[i].email \in Contains[cfg.email]}
Found == {i \in Matching : Cardinality({j \in Matching : j < i}) < Page}

\* Mutant: the first of several results is taken.
PicksFirst == Found

\* An account with just the configured address, and of the kind of the resource.
Meant(i) ==
    accounts[i].email = cfg.email /\ (kind = "service" => accounts[i].service)

\* The account that is taken over: a single result whatever it is, of several
\* one that is meant.
Picks == IF \A i, j \in Found : i = j THEN Found ELSE {i \in Found : Meant(i)}

\* With no result, or none that is meant, the user's create reports an error
\* and the service account's stops the provider: neither saves anything.  The
\* service account's create notes an answer that cannot be parsed as an error
\* and goes on; after a 409 it ends in an error anyway.
Search ==
    /\ pc = "search"
    /\ \/ /\ \E i \in Picks : who' = i
          /\ Goes("write")
          /\ NoFault \/ (kind = "service" /\ Fault)
          /\ UNCHANGED <<answer, toAdd, toRemove, conflict>>
       \/ Picks = {} /\ Fails /\ NoFault
       \/ Fault /\ Fails
    /\ Terraform /\ UNCHANGED <<accounts, invited>>

\* What the account has, of which the service account's loop keeps the last.
LastOf(roles) == IF roles = {} THEN {{}} ELSE {{r} : r \in roles}

\* Mutant: roles are compared with an empty set, so that none is removed.
OldRolesNone(roles) == {{}}

\* The roles a create takes for the old ones of the account it took over.
OldRoles(roles) ==
    IF kind = "user" THEN {roles}
    ELSE {cfg.roles \cup last : last \in LastOf(roles)}

\* Mutant: the user is enabled by a create only.
WrittenOnce(a) ==
    [a EXCEPT !.email = cfg.email,
              !.disabled = IF op = "create" THEN cfg.disabled ELSE @]

\* buildDatadogUserV2UpdateStruct: everything but the roles.
Written(a) == [a EXCEPT !.email = cfg.email, !.disabled = cfg.disabled]

\* UpdateUser: before the roles in a create, after them in an update.
Write ==
    /\ pc = "write"
    /\ \/ /\ Exists(who)
          /\ LET a == Written(accounts[who])
             IN  /\ accounts' = [accounts EXCEPT ![who] = a]
                 /\ \/ /\ op = "create"
                       /\ answer' = Shown(a)
                       /\ \E old \in OldRoles(a.roles) :
                             /\ toAdd' = cfg.roles \ old
                             /\ toRemove' = old \ cfg.roles
                       /\ Goes("roles") /\ UNCHANGED <<who, conflict>>
                    \/ op = "update" /\ Saves("ok", who, Shown(a))
          /\ NoFault
       \/ ~Exists(who) /\ Fails /\ UNCHANGED <<accounts, faults>>
       \/ /\ Fault /\ Fails
          /\ \/ UNCHANGED accounts
             \/ /\ Exists(who)
                /\ accounts' = [accounts EXCEPT ![who] = Written(accounts[who])]
    /\ Terraform /\ UNCHANGED invited

-----------------------------------------------------------------------------
(* updateRoles, updateRolesFw *)

SetRoles(roles) == accounts' = [accounts EXCEPT ![who].roles = roles]

\* A call that fails, which may have been carried out.
RoleFails(roles) ==
    /\ Fails
    /\ \/ ~Exists(who) /\ UNCHANGED <<accounts, faults>>
       \/ Fault /\ UNCHANGED accounts
       \/ Fault /\ Exists(who) /\ SetRoles(roles)

AddRole(r) ==
    /\ pc = "roles" /\ r \in toAdd
    /\ \/ /\ Exists(who) /\ SetRoles(accounts[who].roles \cup {r})
          /\ toAdd' = toAdd \ {r}
          /\ UNCHANGED <<op, pc, st, outcome, who, answer, toRemove, conflict,
                         faults>>
       \/ RoleFails(accounts[who].roles \cup {r})
    /\ Terraform /\ UNCHANGED invited

\* Mutant: roles are removed before others are added.
RemoveRoleFirst(r) ==
    /\ pc = "roles" /\ r \in toRemove
    /\ \/ /\ Exists(who) /\ SetRoles(accounts[who].roles \ {r})
          /\ toRemove' = toRemove \ {r}
          /\ UNCHANGED <<op, pc, st, outcome, who, answer, toAdd, conflict,
                         faults>>
       \/ RoleFails(accounts[who].roles \ {r})
    /\ Terraform /\ UNCHANGED invited

\* The second loop.
RemoveRole(r) ==
    /\ pc = "roles" /\ toAdd = {} /\ r \in toRemove
    /\ \/ /\ Exists(who) /\ SetRoles(accounts[who].roles \ {r})
          /\ toRemove' = toRemove \ {r}
          /\ UNCHANGED <<op, pc, st, outcome, who, answer, toAdd, conflict,
                         faults>>
       \/ RoleFails(accounts[who].roles \ {r})
    /\ Terraform /\ UNCHANGED invited

RolesDone ==
    /\ pc = "roles" /\ toAdd = {} /\ toRemove = {}
    /\ Goes(IF op = "create" THEN "invite" ELSE "write")
    /\ Terraform /\ UNCHANGED <<accounts, invited, handlerVars, faults>>

\* Mutant: the account counts as created before the invitation is sent.
InviteAfterwards ==
    /\ pc = "invite"
    /\ \/ /\ invited' = IF kind = "user" /\ cfg.invite
                        THEN invited \cup {who} ELSE invited
          /\ Created(answer) /\ NoFault
       \/ /\ kind = "user" /\ cfg.invite
          /\ Fault /\ Created(answer) /\ UNCHANGED invited
    /\ Terraform /\ UNCHANGED accounts

\* sendUserInvitation, and then the id is set.
Invite ==
    /\ pc = "invite"
    /\ \/ /\ invited' = IF kind = "user" /\ cfg.invite
                        THEN invited \cup {who} ELSE invited
          /\ Created(answer) /\ NoFault
       \/ /\ kind = "user" /\ cfg.invite
          /\ Fault /\ Fails /\ UNCHANGED invited
    /\ Terraform /\ UNCHANGED accounts

-----------------------------------------------------------------------------
(* Read, update, delete *)

\* What a read makes of an account that is gone: the service account's clears
\* a local variable and leaves the state as it is.
StateOfGone == IF kind = "user" THEN NoState ELSE st

Read ==
    /\ pc = "idle" /\ st.status # "none"
    /\ \/ /\ Exists(st.id)
          /\ st' = InState(st.status, st.id, Shown(accounts[st.id]))
          /\ pc' = "refreshed" /\ outcome' = "none" /\ NoFault
       \/ /\ ~Exists(st.id)
          /\ st' = StateOfGone
          /\ pc' = "refreshed" /\ outcome' = "none" /\ NoFault
       \/ Fault /\ outcome' = "error" /\ UNCHANGED <<st, pc>>
    /\ disturbed' = FALSE
    /\ UNCHANGED <<kind, cfg, accounts, invited, op, handlerVars, edits, choices>>

PlanCreate ==
    /\ st.status = "none" /\ pc \in {"idle", "refreshed"}
    /\ StartCreate
    /\ disturbed' = (pc = "refreshed" /\ disturbed)
    /\ UNCHANGED <<kind, cfg, accounts, invited, st, budget>>

PlanUpdate ==
    /\ pc = "refreshed" /\ st.status = "ok"
    /\ IF Conforms(st, cfg)
       THEN Idle("no changes")
       ELSE /\ op' = "update" /\ outcome' = "none" /\ who' = st.id
            /\ toAdd' = cfg.roles \ st.roles
            /\ toRemove' = st.roles \ cfg.roles
            /\ pc' = "roles" /\ UNCHANGED <<answer, conflict>>
    /\ Terraform /\ UNCHANGED <<accounts, invited, st, faults>>

PlanReplace ==
    /\ pc = "refreshed" /\ st.status = "tainted"
    /\ op' = "replace" /\ pc' = "disable" /\ outcome' = "none" /\ who' = st.id
    /\ Terraform
    /\ UNCHANGED <<accounts, invited, st, answer, toAdd, toRemove, conflict, faults>>

Disabled == IF Exists(who) THEN [accounts EXCEPT ![who].disabled = TRUE]
            ELSE accounts

\* Delete; one that is gone is no error.
Disable ==
    /\ pc = "disable"
    /\ \/ /\ accounts' = Disabled
          /\ st' = NoState
          /\ IF op = "replace" THEN StartCreate ELSE Idle("destroyed")
          /\ NoFault
       \/ Fault /\ Fails /\ accounts' \in {accounts, Disabled}
    /\ Terraform /\ UNCHANGED invited

-----------------------------------------------------------------------------
(* People *)

Choose ==
    /\ pc = "idle" /\ choices < MaxChoices /\ choices' = choices + 1
    /\ UNCHANGED <<kind, accounts, invited, st, answer, toAdd, toRemove,
                   conflict, disturbed, edits, faults>>

EditConfig(c) ==
    /\ Choose
    /\ c # cfg /\ cfg' = c /\ outcome' = "none"
    /\ UNCHANGED <<op, pc, who>>

Destroy ==
    /\ Choose
    /\ st.status # "none"
    /\ op' = "delete" /\ pc' = "disable" /\ who' = st.id /\ outcome' = "none"
    /\ UNCHANGED cfg

UiEdit(i, a) ==
    /\ edits < MaxEdits /\ edits' = edits + 1
    /\ Exists(i)
    /\ accounts' = [accounts EXCEPT ![i] = a]
    /\ disturbed' = TRUE
    /\ UNCHANGED <<kind, cfg, invited, st, op, pc, handlerVars, outcome,
                   faults, choices>>

Ui ==
    \E i \in Ids :
        \/ \E R \in SUBSET Roles : UiEdit(i, [accounts[i] EXCEPT !.roles = R])
        \/ \E e \in Emails : UiEdit(i, [accounts[i] EXCEPT !.email = e])
        \/ UiEdit(i, [accounts[i] EXCEPT !.disabled = ~@])
        \/ UiEdit(i, Nobody)

-----------------------------------------------------------------------------
Init ==
    /\ kind \in {"user", "service"} /\ cfg \in Configs
    /\ accounts \in Organisations /\ invited = {}
    /\ st = NoState
    /\ op = "none" /\ pc = "idle"
    /\ who = None /\ answer = NoAnswer
    /\ toAdd = {} /\ toRemove = {} /\ conflict = FALSE
    /\ outcome = "none" /\ disturbed = FALSE
    /\ edits = 0 /\ faults = 0 /\ choices = 0

Run ==
    \/ Read \/ PlanCreate \/ PlanUpdate \/ PlanReplace
    \/ Make \/ Search \/ Write
    \/ (\E r \in Roles : AddRole(r) \/ RemoveRole(r)) \/ RolesDone
    \/ Invite \/ Disable

Next == Run \/ Ui \/ Destroy \/ \E c \in Configs : EditConfig(c)

\* A pipeline that applies again and again.
Spec == Init /\ [][Next]_vars /\ WF_vars(Run)

-----------------------------------------------------------------------------
(* Properties *)

\* A run that reports success, with nobody in the UI meanwhile, leaves the
\* account with the configured address and with exactly the configured roles,
\* also when it was made long ago and taken over.
AppliedMeansRoles ==
    pc = "idle" /\ outcome = "applied" /\ ~disturbed =>
        /\ accounts[st.id].email = cfg.email
        /\ accounts[st.id].roles = cfg.roles

\* "No changes" is said only of an account that is as configured, even after a
\* failed update put the plan into the state.
NoChangesMeansTrue ==
    pc = "idle" /\ outcome = "no changes" /\ ~disturbed /\ Exists(st.id) =>
        Conforms(accounts[st.id], cfg)

\* What a run reports is so.
ReportsAreTrue == AppliedMeansRoles /\ NoChangesMeansTrue

\* Nobody is left without any role while the roles of a user are exchanged:
\* not between two calls, and not when one of them fails.
NeverWithoutRoles ==
    [][\A i \in Ids :
          /\ kind = "user" /\ edits' = edits /\ ~disturbed
          /\ cfg.roles # {} /\ accounts[i].roles # {}
          => accounts'[i].roles # {}]_vars

\* A user that was to be invited is in the state only once it was.
InvitedBeforeSaved ==
    [][kind = "user" /\ op = "create" /\ cfg.invite /\ st'.id # None
          => st'.id \in invited']_vars

\* A call of a create that changes an account that was there.
Changes(i) ==
    op = "create" /\ edits' = edits /\ Exists(i) /\ accounts'[i] # accounts[i]

\* A create whose name is taken writes to an account with the configured address,
\* and a service account's to a service account: no other account loses its
\* address or a role.  The exceptions are an edit in the UI after the search, and
\* the only account that the search found.
WritesOnlyTheMeant ==
    [][\A i \in Ids : Changes(i) /\ ~disturbed => Meant(i) \/ Found = {i}]_vars

\* "[datadog_user] Match existing users based on email" (CHANGELOG.md:1646): a
\* create that takes a user over takes one with the configured address.
MatchesOnEmail ==
    [][\A i \in Ids : kind = "user" /\ Changes(i) /\ ~disturbed
          => accounts[i].email = cfg.email]_vars

\* What no run can mend: the handle is taken and the search finds no account
\* to take over; and, for a service account, one that was taken over, that is
\* gone or that was to be created disabled.
Blocked ==
    \/ st.status = "none" /\ Taken /\ (kind = "service" \/ Picks = {})
    \/ kind = "service" /\ (st.status = "tainted" \/ conflict)
    \/ kind = "service" /\ st.id # None /\ accounts[st.id] = Nobody
    \/ kind = "service" /\ op # "none" /\ who # None /\ accounts[who] = Nobody

Settled ==
    st.status = "ok" /\ Exists(st.id) /\ Conforms(accounts[st.id], cfg)

\* Once people and faults leave it alone, repeated applies reach an account as
\* configured, whether it is new, was disabled or belonged to somebody before.
Converges == <>[](Settled \/ Blocked)
=============================================================================
