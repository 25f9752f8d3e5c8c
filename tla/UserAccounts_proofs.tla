------------------------- MODULE UserAccounts_proofs -------------------------
(***************************************************************************)
(* The safety of users and service accounts, for any accounts, roles and   *)
(* configurations and any number of edits, faults and runs.                *)
(***************************************************************************)
EXTENDS UserAccounts, TLAPS

-----------------------------------------------------------------------------
(* The invariant                                                           *)

AccountsOK ==
    /\ kind \in {"user", "service"} /\ cfg \in Config
    /\ accounts \in [Ids -> Account \cup {Nobody}]

StateOK ==
    /\ st.status \in {"none", "ok", "tainted"}
    /\ st.status = "none" => st = NoState
    /\ st.status # "none" => st.id \in Ids

\* Which call belongs to which operation, and whom it is about.
HandlerOK ==
    /\ pc \in {"idle", "refreshed", "make", "search", "write", "roles",
               "invite", "disable"}
    /\ pc \in {"idle", "refreshed"} => op = "none"
    /\ pc \in {"make", "search", "invite"} => op = "create"
    /\ pc \in {"write", "roles"} => op \in {"create", "update"}
    /\ pc = "disable" => op \in {"delete", "replace"}
    /\ op = "create" => st = NoState
    /\ pc \in {"write", "roles", "invite", "disable"} => who \in Ids
    /\ pc \in {"make", "search"} => who = None
    /\ pc \in {"search", "write", "roles"} /\ op = "create" => conflict

\* The service account that was taken over is the one whose roles nobody
\* compares.
Compares == kind = "user" \/ op = "update" \/ ~conflict

\* What the handler knows of Datadog when nobody was in the UI.
RefreshKnows ==
    pc = "refreshed" /\ st.status # "none" /\ Exists(st.id) =>
        /\ accounts[st.id].email = st.email
        /\ accounts[st.id].disabled = st.disabled
        /\ accounts[st.id].roles = st.roles
CreateKnows ==
    pc \in {"roles", "invite"} /\ op = "create" =>
        Exists(who) /\ accounts[who].email = cfg.email
RolesKnow ==
    pc = "roles" /\ Exists(who) /\ Compares =>
        /\ accounts[who].roles \cup toAdd = cfg.roles \cup toRemove
        /\ toRemove \cap cfg.roles = {}
RolesDoneKnow ==
    /\ pc = "write" /\ op = "update" /\ Exists(who) =>
          accounts[who].roles = cfg.roles
    /\ pc = "invite" /\ Compares => accounts[who].roles = cfg.roles
SearchKnows ==
    pc \in {"write", "roles"} /\ op = "create" /\ Exists(who) =>
        Meant(who) \/ Found = {who}
Known == ~disturbed =>
    RefreshKnows /\ SearchKnows /\ CreateKnows /\ RolesKnow /\ RolesDoneKnow

IInv ==
    AccountsOK /\ edits \in Nat /\ StateOK /\ HandlerOK /\ Known /\ ReportsAreTrue

-----------------------------------------------------------------------------
(* Accounts                                                                *)

LEMMA AccountsAreSomebody ==
  \A a \in Account : a # Nobody
  BY NoneAssumption DEF Account, Nobody

(* What a call or the UI makes of one account.                             *)
LEMMA ChangeOne ==
  ASSUME AccountsOK, UNCHANGED <<kind, cfg>>,
         NEW i \in Ids, NEW a \in Account \cup {Nobody},
         accounts' = [accounts EXCEPT ![i] = a]
  PROVE  /\ AccountsOK'
         /\ accounts'[i] = a
         /\ \A j \in Ids \ {i} : accounts'[j] = accounts[j]
  BY DEF AccountsOK

LEMMA FieldsWritten ==
  ASSUME NEW a \in Account, cfg.email \in Emails, cfg.disabled \in BOOLEAN
  PROVE  /\ Written(a) \in Account
         /\ Written(a).email = cfg.email
         /\ Written(a).roles = a.roles
         /\ Written(a).service = a.service
  BY DEF Account, Written

LEMMA FieldRoles ==
  ASSUME NEW a \in Account, NEW R \in SUBSET Roles
  PROVE  /\ [a EXCEPT !.roles = R] \in Account
         /\ [a EXCEPT !.roles = R].roles = R
         /\ [a EXCEPT !.roles = R].email = a.email
         /\ [a EXCEPT !.roles = R].service = a.service
  BY DEF Account

LEMMA FieldDisabled ==
  ASSUME NEW a \in Account, NEW d \in BOOLEAN
  PROVE  /\ [a EXCEPT !.disabled = d] \in Account
         /\ [a EXCEPT !.disabled = d].roles = a.roles
  BY DEF Account

LEMMA FieldEmail ==
  ASSUME NEW a \in Account, NEW e \in Emails
  PROVE  [a EXCEPT !.email = e] \in Account
  BY DEF Account

LEMMA SomebodyHasAccount ==
  ASSUME AccountsOK, NEW i \in Ids, Exists(i)
  PROVE  accounts[i] \in Account
  BY DEF AccountsOK, Exists

(* Making an account.                                                      *)
LEMMA MakeKeepsAccounts ==
  ASSUME AccountsOK, UNCHANGED <<kind, cfg>>, NEW i \in Ids,
         accounts' = [accounts EXCEPT ![i] =
                      [handle |-> cfg.email, email |-> cfg.email,
                       disabled |-> FALSE, roles |-> cfg.roles,
                       service |-> kind = "service"]]
  PROVE  /\ AccountsOK' /\ Exists(i)'
         /\ accounts'[i].email = cfg.email
         /\ accounts'[i].roles = cfg.roles
         /\ \A j \in Ids \ {i} : accounts'[j] = accounts[j]
<1> DEFINE a == [handle |-> cfg.email, email |-> cfg.email,
                 disabled |-> FALSE, roles |-> cfg.roles,
                 service |-> kind = "service"]
<1>1. a \in Account
  BY DEF AccountsOK, Config, Account
<1>2. a.email = cfg.email /\ a.roles = cfg.roles
  OBVIOUS
<1> HIDE DEF a
<1>3. accounts' = [accounts EXCEPT ![i] = a]
  BY DEF a
<1> QED
  BY <1>1, <1>2, <1>3, ChangeOne, AccountsAreSomebody DEF Exists

(* UpdateUser.                                                             *)
LEMMA WriteKeepsAccounts ==
  ASSUME AccountsOK, UNCHANGED <<kind, cfg>>, who \in Ids, Exists(who),
         accounts' = [accounts EXCEPT ![who] = Written(accounts[who])]
  PROVE  /\ AccountsOK' /\ accounts'[who] \in Account
         /\ accounts'[who] = Written(accounts[who])
         /\ accounts'[who].email = cfg.email
         /\ accounts'[who].roles = accounts[who].roles
         /\ accounts'[who].service = accounts[who].service
         /\ \A j \in Ids \ {who} : accounts'[j] = accounts[j]
<1>1. /\ Written(accounts[who]) \in Account
      /\ Written(accounts[who]).email = cfg.email
      /\ Written(accounts[who]).roles = accounts[who].roles
      /\ Written(accounts[who]).service = accounts[who].service
  <2>1. accounts[who] \in Account
    BY SomebodyHasAccount
  <2>2. cfg.email \in Emails /\ cfg.disabled \in BOOLEAN
    BY DEF AccountsOK, Config
  <2> QED
    BY <2>1, <2>2, FieldsWritten
<1> QED
  BY <1>1, ChangeOne

(* AddUserToRole, RemoveUserFromRole.                                      *)
LEMMA RoleKeepsAccounts ==
  ASSUME AccountsOK, UNCHANGED <<kind, cfg>>, who \in Ids, Exists(who),
         NEW R \in SUBSET Roles, SetRoles(R)
  PROVE  /\ AccountsOK' /\ accounts'[who] \in Account
         /\ accounts'[who].roles = R
         /\ accounts'[who].email = accounts[who].email
         /\ accounts'[who].service = accounts[who].service
         /\ \A j \in Ids \ {who} : accounts'[j] = accounts[j]
<1> DEFINE a == [accounts[who] EXCEPT !.roles = R]
<1>0. accounts[who] \in Account
  BY SomebodyHasAccount
<1>1. /\ a \in Account /\ a.roles = R /\ a.email = accounts[who].email
      /\ a.service = accounts[who].service
  BY <1>0, FieldRoles
<1>2. accounts' = [accounts EXCEPT ![who] = a]
  BY DEF SetRoles
<1> HIDE DEF a
<1> QED
  BY <1>1, <1>2, ChangeOne

(* DisableUser.                                                            *)
LEMMA DisableKeepsAccounts ==
  ASSUME AccountsOK, UNCHANGED <<kind, cfg>>, who \in Ids, Exists(who),
         accounts' = [accounts EXCEPT ![who].disabled = TRUE]
  PROVE  /\ AccountsOK'
         /\ \A j \in Ids : accounts'[j].roles = accounts[j].roles
<1> DEFINE a == [accounts[who] EXCEPT !.disabled = TRUE]
<1>0. accounts[who] \in Account
  BY SomebodyHasAccount
<1>1. a \in Account /\ a.roles = accounts[who].roles
  BY <1>0, FieldDisabled
<1>2. accounts' = [accounts EXCEPT ![who] = a]
  OBVIOUS
<1> HIDE DEF a
<1> QED
  BY <1>1, <1>2, ChangeOne

LEMMA UiKeepsAccounts ==
  ASSUME AccountsOK, edits \in Nat, Ui
  PROVE  /\ AccountsOK' /\ disturbed' = TRUE
         /\ edits' \in Nat /\ edits' # edits
         /\ UNCHANGED <<st, op, pc, handlerVars>>
<1>1. PICK i \in Ids :
        \/ \E R \in SUBSET Roles : UiEdit(i, [accounts[i] EXCEPT !.roles = R])
        \/ \E e \in Emails : UiEdit(i, [accounts[i] EXCEPT !.email = e])
        \/ UiEdit(i, [accounts[i] EXCEPT !.disabled = ~@])
        \/ UiEdit(i, Nobody)
  BY DEF Ui
<1>2. accounts[i] \in Account
  BY <1>1, SomebodyHasAccount DEF UiEdit
<1>3. \E a \in Account \cup {Nobody} : UiEdit(i, a)
  <2>1. ASSUME NEW R \in SUBSET Roles PROVE [accounts[i] EXCEPT !.roles = R] \in Account
    BY <1>2, FieldRoles
  <2>2. ASSUME NEW e \in Emails PROVE [accounts[i] EXCEPT !.email = e] \in Account
    BY <1>2, FieldEmail
  <2>3. [accounts[i] EXCEPT !.disabled = ~@] \in Account
    BY <1>2 DEF Account
  <2> QED
    BY <1>1, <2>1, <2>2, <2>3
<1>4. PICK a \in Account \cup {Nobody} : UiEdit(i, a)
  BY <1>3
<1>5. AccountsOK'
  BY <1>4, ChangeOne DEF UiEdit
<1> QED
  BY <1>4, <1>5 DEF UiEdit

(* A call about an account the search returned changes no answer of the    *)
(* search: the address stays, or becomes the configured one.               *)
LEMMA SearchIsUndisturbed ==
  ASSUME AccountsOK, UNCHANGED cfg, who \in Ids, Exists(who),
         accounts'[who] # Nobody,
         \A j \in Ids \ {who} : accounts'[j] = accounts[j],
         \/ accounts'[who].email = accounts[who].email
         \/ accounts'[who].email = cfg.email /\ who \in Found
  PROVE  Found' = Found
<1>1. cfg.email \in Contains[cfg.email]
  BY ContainsAssumption DEF AccountsOK, Config
<1>2. who \in Found => accounts[who].email \in Contains[cfg.email]
  BY DEF Found, Matching
<1>3. \A j \in Ids : j \in Matching' <=> j \in Matching
  BY <1>1, <1>2 DEF Matching, Exists
<1>4. Matching' = Matching
  BY <1>3 DEF Matching
<1> QED
  BY <1>4 DEF Found

-----------------------------------------------------------------------------
(* How a handler ends                                                      *)

LEMMA IdleKnowsNothing ==
  ASSUME pc' = "idle", op' = "none"
  PROVE  HandlerOK' /\ Known'
  BY DEF HandlerOK, Known, RefreshKnows, SearchKnows, CreateKnows, RolesKnow, RolesDoneKnow

LEMMA NoReport ==
  ASSUME pc' # "idle" \/ outcome' \notin {"applied", "no changes"}
  PROVE  ReportsAreTrue'
  BY DEF ReportsAreTrue, AppliedMeansRoles, NoChangesMeansTrue

LEMMA FailsKeeps ==
  ASSUME IInv, Fails, Terraform, AccountsOK', op = "update" => who \in Ids
  PROVE  IInv'
<1>1. pc' = "idle" /\ op' = "none" /\ outcome' = "error"
  BY DEF Fails, Idle
<1>2. edits' \in Nat
  BY DEF IInv, Terraform
<1>3. StateOK'
  <2>1. CASE op = "update" /\ kind = "user"
    BY <2>1 DEF Fails, InState, StateOK
  <2>2. CASE ~(op = "update" /\ kind = "user")
    BY <2>2 DEF Fails, NoState, StateOK, IInv
  <2> QED
    BY <2>1, <2>2
<1> QED
  BY <1>1, <1>2, <1>3, IdleKnowsNothing, NoReport DEF IInv

LEMMA SavesKeeps ==
  ASSUME IInv, Terraform, AccountsOK', who \in Ids,
         NEW status \in {"ok", "tainted"}, NEW a, Saves(status, who, a),
         status = "ok" /\ ~disturbed /\ (kind = "service" => Conforms(a, cfg)) =>
            /\ accounts'[who].email = cfg.email
            /\ accounts'[who].roles = cfg.roles
  PROVE  IInv'
<1>1. /\ pc' = "idle" /\ op' = "none"
      /\ outcome' = IF status = "tainted" \/ (kind = "service" /\ ~Conforms(a, cfg))
                    THEN "error" ELSE "applied"
      /\ st'.id = who /\ st'.status = status
  BY DEF Saves, Idle, InState
<1>2. UNCHANGED <<cfg, disturbed, edits>>
  BY DEF Terraform
<1>3. StateOK'
  BY <1>1 DEF StateOK
<1>4. ReportsAreTrue'
  BY <1>1, <1>2 DEF ReportsAreTrue, AppliedMeansRoles, NoChangesMeansTrue
<1> QED
  BY <1>1, <1>2, <1>3, <1>4, IdleKnowsNothing DEF IInv

-----------------------------------------------------------------------------
(* The calls                                                               *)

LEMMA MakeKeeps ==
  ASSUME IInv, Make
  PROVE  IInv'
<1>1. pc = "make" /\ op = "create" /\ Terraform /\ AccountsOK /\ StateOK /\ st = NoState
  BY DEF Make, IInv, HandlerOK
<1>2. UNCHANGED <<kind, cfg, edits, disturbed>>
  BY <1>1 DEF Terraform
<1>3. ASSUME NEW i \in Ids, ~Exists(i),
             accounts' = [accounts EXCEPT ![i] =
                      [handle |-> cfg.email, email |-> cfg.email,
                       disabled |-> FALSE, roles |-> cfg.roles,
                       service |-> kind = "service"]],
             \/ who' = i /\ Goes("invite")
             \/ Fails
      PROVE  IInv'
  <2>1. /\ AccountsOK' /\ Exists(i)'
        /\ accounts'[i].email = cfg.email
        /\ accounts'[i].roles = cfg.roles
    BY <1>1, <1>2, <1>3, MakeKeepsAccounts
  <2>2. CASE Fails
    BY <1>1, <2>1, <2>2, FailsKeeps
  <2>3. CASE who' = i /\ Goes("invite")
    <3>1. pc' = "invite" /\ who' \in Ids /\ UNCHANGED <<op, st>>
      BY <2>3 DEF Goes
    <3>2. StateOK' /\ HandlerOK'
      BY <1>1, <3>1 DEF StateOK, HandlerOK
    <3>3. Exists(who)'
      BY <2>1, <2>3 DEF Exists
    <3>4. Known'
      BY <1>2, <2>1, <2>3, <3>1, <3>3
      DEF Known, RefreshKnows, SearchKnows, CreateKnows, RolesKnow, RolesDoneKnow
    <3> QED
      BY <1>2, <2>1, <3>1, <3>2, <3>4, NoReport DEF IInv
  <2> QED
    BY <1>3, <2>2, <2>3
<1>4. ASSUME conflict' = TRUE, Goes("search"), UNCHANGED <<accounts, who>>,
             who = None
      PROVE  IInv'
  <2>1. pc' = "search" /\ UNCHANGED <<op, st>>
    BY <1>4 DEF Goes
  <2>2. AccountsOK' /\ StateOK' /\ HandlerOK'
    BY <1>1, <1>2, <1>4, <2>1 DEF AccountsOK, StateOK, HandlerOK
  <2>3. Known'
    BY <2>1 DEF Known, RefreshKnows, SearchKnows, CreateKnows, RolesKnow, RolesDoneKnow
  <2> QED
    BY <1>2, <2>1, <2>2, <2>3, NoReport DEF IInv
<1>5. ASSUME Fails, UNCHANGED accounts
      PROVE  IInv'
  BY <1>1, <1>2, <1>5, FailsKeeps DEF AccountsOK
<1>6. who = None
  BY <1>1 DEF IInv, HandlerOK
<1> QED
  BY <1>3, <1>4, <1>5, <1>6 DEF Make

LEMMA SearchKeeps ==
  ASSUME IInv, Search
  PROVE  IInv'
<1>1. /\ pc = "search" /\ op = "create" /\ Terraform /\ AccountsOK /\ StateOK
      /\ st = NoState /\ conflict /\ UNCHANGED accounts
  BY DEF Search, IInv, HandlerOK
<1>2. UNCHANGED <<kind, cfg, edits, disturbed>>
  BY <1>1 DEF Terraform
<1>3. AccountsOK'
  BY <1>1, <1>2 DEF AccountsOK
<1>4. CASE Fails
  BY <1>1, <1>3, <1>4, FailsKeeps
<1>5. ASSUME NEW i \in Picks, who' = i, Goes("write"), UNCHANGED conflict
      PROVE  IInv'
  <2>1. pc' = "write" /\ UNCHANGED <<op, st>> /\ who' \in Ids
    BY <1>5 DEF Goes, Picks, Found, Matching
  <2>2. StateOK' /\ HandlerOK'
    BY <1>1, <1>5, <2>1 DEF StateOK, HandlerOK
  <2>3. Meant(i) \/ Found = {i}
    BY <1>5 DEF Picks
  <2>4. Meant(who)' \/ Found' = {who'}
    BY <1>1, <1>2, <1>5, <2>3 DEF Meant, Found, Matching, Exists
  <2>5. Known'
    BY <1>1, <2>1, <2>4
    DEF Known, RefreshKnows, SearchKnows, CreateKnows, RolesKnow, RolesDoneKnow
  <2> QED
    BY <1>2, <1>3, <2>1, <2>2, <2>5, NoReport DEF IInv
<1> QED
  BY <1>4, <1>5 DEF Search

(* After the answer to a create the handler knows the address of the       *)
(* account, and, of a user, which roles it lacks and which it has to lose. *)
LEMMA WriteKeeps ==
  ASSUME IInv, Write
  PROVE  IInv'
<1>1. /\ pc = "write" /\ op \in {"create", "update"} /\ who \in Ids /\ Terraform
      /\ AccountsOK /\ StateOK
      /\ op = "create" => st = NoState /\ conflict
  BY DEF Write, IInv, HandlerOK
<1>2. UNCHANGED <<kind, cfg, edits, disturbed>>
  BY <1>1 DEF Terraform
<1>3. ASSUME Fails, AccountsOK'
      PROVE  IInv'
  BY <1>1, <1>3, FailsKeeps
<1>4. ASSUME Exists(who),
             accounts' = [accounts EXCEPT ![who] = Written(accounts[who])]
      PROVE  /\ AccountsOK' /\ accounts'[who] \in Account
             /\ accounts'[who] # Nobody
             /\ accounts'[who].email = cfg.email
             /\ accounts'[who].roles = accounts[who].roles
             /\ accounts'[who].service = accounts[who].service
             /\ \A j \in Ids \ {who} : accounts'[j] = accounts[j]
             /\ Written(accounts[who]).roles = accounts[who].roles
  BY <1>1, <1>2, <1>4, WriteKeepsAccounts, AccountsAreSomebody
<1>5. ASSUME Exists(who),
             accounts' = [accounts EXCEPT ![who] = Written(accounts[who])],
             op = "create",
             NEW old \in OldRoles(Written(accounts[who]).roles),
             toAdd' = cfg.roles \ old, toRemove' = old \ cfg.roles,
             Goes("roles"), UNCHANGED <<who, conflict>>
      PROVE  IInv'
  <2>1. pc' = "roles" /\ UNCHANGED <<op, st>>
    BY <1>5 DEF Goes
  <2>2. StateOK' /\ HandlerOK'
    BY <1>1, <1>5, <2>1 DEF StateOK, HandlerOK
  <2>3. CreateKnows'
    BY <1>2, <1>4, <1>5 DEF CreateKnows, Exists
  <2>4. ASSUME Compares' PROVE accounts'[who].roles = old
    <3>1. kind = "user"
      BY <1>1, <1>2, <1>5, <2>1, <2>4 DEF Compares
    <3> QED
      BY <3>1, <1>4, <1>5 DEF OldRoles
  <2>5. RolesKnow'
    BY <1>2, <1>5, <2>4 DEF RolesKnow
  <2>6. ASSUME ~disturbed PROVE SearchKnows'
    <3>1. Meant(who) \/ Found = {who}
      BY <1>1, <1>5, <2>6 DEF IInv, Known, SearchKnows
    <3>2. CASE Meant(who)
      BY <1>2, <1>4, <1>5, <3>2 DEF Meant, SearchKnows
    <3>3. CASE Found = {who}
      <4>1. Found' = Found
        BY <1>1, <1>2, <1>4, <1>5, <3>3, SearchIsUndisturbed
      <4> QED
        BY <1>5, <3>3, <4>1 DEF SearchKnows
    <3> QED
      BY <3>1, <3>2, <3>3
  <2>7. Known'
    BY <1>2, <2>1, <2>3, <2>5, <2>6 DEF Known, RefreshKnows, RolesDoneKnow
  <2> QED
    BY <1>2, <1>4, <1>5, <2>1, <2>2, <2>7, NoReport DEF IInv
<1>6. ASSUME Exists(who),
             accounts' = [accounts EXCEPT ![who] = Written(accounts[who])],
             op = "update", NEW a, Saves("ok", who, a)
      PROVE  IInv'
  <2>1. ~disturbed => accounts[who].roles = cfg.roles
    BY <1>1, <1>6 DEF IInv, Known, RolesDoneKnow
  <2> QED
    BY <1>1, <1>4, <1>6, <2>1, SavesKeeps
<1>7. UNCHANGED accounts => AccountsOK'
  BY <1>1, <1>2 DEF AccountsOK
<1> QED
  BY <1>3, <1>4, <1>5, <1>6, <1>7 DEF Write

LEMMA AddRoleKeeps ==
  ASSUME IInv, NEW r \in Roles, AddRole(r)
  PROVE  IInv'
<1>1. /\ pc = "roles" /\ op \in {"create", "update"} /\ who \in Ids /\ Terraform
      /\ AccountsOK /\ StateOK /\ HandlerOK /\ r \in toAdd
  BY DEF AddRole, IInv, HandlerOK
<1>2. UNCHANGED <<kind, cfg, edits, disturbed>>
  BY <1>1 DEF Terraform
<1>3. CASE RoleFails(accounts[who].roles \cup {r})
  <2>1. CASE UNCHANGED accounts
    BY <1>1, <1>2, <1>3, <2>1, FailsKeeps DEF AccountsOK, RoleFails
  <2>2. CASE Exists(who) /\ SetRoles(accounts[who].roles \cup {r})
    <3>1. accounts[who].roles \cup {r} \in SUBSET Roles
      BY <1>1, <2>2, SomebodyHasAccount DEF Account
    <3>2. AccountsOK'
      BY <1>1, <1>2, <2>2, <3>1, RoleKeepsAccounts
    <3> QED
      BY <1>1, <1>3, <3>2, FailsKeeps DEF RoleFails
  <2> QED
    BY <1>3, <2>1, <2>2 DEF RoleFails
<1>4. CASE /\ Exists(who) /\ SetRoles(accounts[who].roles \cup {r})
           /\ toAdd' = toAdd \ {r}
           /\ UNCHANGED <<op, pc, st, outcome, who, toRemove, conflict>>
  <2>1. accounts[who].roles \cup {r} \in SUBSET Roles
    BY <1>1, <1>4, SomebodyHasAccount DEF Account
  <2>2. /\ AccountsOK' /\ accounts'[who] # Nobody
        /\ accounts'[who].roles = accounts[who].roles \cup {r}
        /\ accounts'[who].email = accounts[who].email
        /\ accounts'[who].service = accounts[who].service
        /\ \A j \in Ids \ {who} : accounts'[j] = accounts[j]
    BY <1>1, <1>2, <1>4, <2>1, RoleKeepsAccounts, AccountsAreSomebody
  <2>3. StateOK' /\ HandlerOK'
    BY <1>1, <1>4 DEF StateOK, HandlerOK
  <2>4. ASSUME ~disturbed PROVE SearchKnows' /\ CreateKnows' /\ RolesKnow'
    <3>1. SearchKnows /\ CreateKnows /\ RolesKnow
      BY <2>4 DEF IInv, Known
    <3>2. CreateKnows'
      BY <1>1, <1>2, <1>4, <2>2, <3>1 DEF CreateKnows, Exists
    <3>3. Compares' => Compares
      BY <1>2, <1>4 DEF Compares
    <3>4. RolesKnow'
      BY <1>1, <1>2, <1>4, <2>2, <3>1, <3>3 DEF RolesKnow
    <3>5. Found' = Found
      BY <1>1, <1>2, <1>4, <2>2, SearchIsUndisturbed
    <3>6. SearchKnows'
      BY <1>1, <1>2, <1>4, <2>2, <3>1, <3>5 DEF SearchKnows, Meant
    <3> QED
      BY <3>2, <3>4, <3>6
  <2>5. Known'
    BY <1>1, <1>2, <1>4, <2>4 DEF Known, RefreshKnows, RolesDoneKnow
  <2> QED
    BY <1>1, <1>2, <1>4, <2>2, <2>3, <2>5, NoReport DEF IInv
<1> QED
  BY <1>3, <1>4 DEF AddRole

LEMMA RemoveRoleKeeps ==
  ASSUME IInv, NEW r \in Roles, RemoveRole(r)
  PROVE  IInv'
<1>1. /\ pc = "roles" /\ op \in {"create", "update"} /\ who \in Ids /\ Terraform
      /\ AccountsOK /\ StateOK /\ HandlerOK /\ r \in toRemove /\ toAdd = {}
  BY DEF RemoveRole, IInv, HandlerOK
<1>2. UNCHANGED <<kind, cfg, edits, disturbed>>
  BY <1>1 DEF Terraform
<1>3. CASE RoleFails(accounts[who].roles \ {r})
  <2>1. CASE UNCHANGED accounts
    BY <1>1, <1>2, <1>3, <2>1, FailsKeeps DEF AccountsOK, RoleFails
  <2>2. CASE Exists(who) /\ SetRoles(accounts[who].roles \ {r})
    <3>1. accounts[who].roles \ {r} \in SUBSET Roles
      BY <1>1, <2>2, SomebodyHasAccount DEF Account
    <3>2. AccountsOK'
      BY <1>1, <1>2, <2>2, <3>1, RoleKeepsAccounts
    <3> QED
      BY <1>1, <1>3, <3>2, FailsKeeps DEF RoleFails
  <2> QED
    BY <1>3, <2>1, <2>2 DEF RoleFails
<1>4. CASE /\ Exists(who) /\ SetRoles(accounts[who].roles \ {r})
           /\ toRemove' = toRemove \ {r}
           /\ UNCHANGED <<op, pc, st, outcome, who, toAdd, conflict>>
  <2>1. accounts[who].roles \ {r} \in SUBSET Roles
    BY <1>1, <1>4, SomebodyHasAccount DEF Account
  <2>2. /\ AccountsOK' /\ accounts'[who] # Nobody
        /\ accounts'[who].roles = accounts[who].roles \ {r}
        /\ accounts'[who].email = accounts[who].email
        /\ accounts'[who].service = accounts[who].service
        /\ \A j \in Ids \ {who} : accounts'[j] = accounts[j]
    BY <1>1, <1>2, <1>4, <2>1, RoleKeepsAccounts, AccountsAreSomebody
  <2>3. StateOK' /\ HandlerOK'
    BY <1>1, <1>4 DEF StateOK, HandlerOK
  <2>4. ASSUME ~disturbed PROVE SearchKnows' /\ CreateKnows' /\ RolesKnow'
    <3>1. SearchKnows /\ CreateKnows /\ RolesKnow
      BY <2>4 DEF IInv, Known
    <3>2. CreateKnows'
      BY <1>1, <1>2, <1>4, <2>2, <3>1 DEF CreateKnows, Exists
    <3>3. Compares' => Compares
      BY <1>2, <1>4 DEF Compares
    <3>4. RolesKnow'
      BY <1>1, <1>2, <1>4, <2>2, <3>1, <3>3 DEF RolesKnow
    <3>5. Found' = Found
      BY <1>1, <1>2, <1>4, <2>2, SearchIsUndisturbed
    <3>6. SearchKnows'
      BY <1>1, <1>2, <1>4, <2>2, <3>1, <3>5 DEF SearchKnows, Meant
    <3> QED
      BY <3>2, <3>4, <3>6
  <2>5. Known'
    BY <1>1, <1>2, <1>4, <2>4 DEF Known, RefreshKnows, RolesDoneKnow
  <2> QED
    BY <1>1, <1>2, <1>4, <2>2, <2>3, <2>5, NoReport DEF IInv
<1> QED
  BY <1>3, <1>4 DEF RemoveRole

LEMMA RolesDoneKeeps ==
  ASSUME IInv, RolesDone
  PROVE  IInv'
<1>1. /\ pc = "roles" /\ op \in {"create", "update"} /\ who \in Ids /\ Terraform
      /\ AccountsOK /\ StateOK /\ HandlerOK /\ toAdd = {} /\ toRemove = {}
      /\ UNCHANGED <<accounts, handlerVars, op, st, outcome>>
      /\ pc' = IF op = "create" THEN "invite" ELSE "write"
  BY DEF RolesDone, Goes, IInv, HandlerOK
<1>2. UNCHANGED <<kind, cfg, edits, disturbed, who, conflict>>
  BY <1>1 DEF Terraform, handlerVars
<1>3. AccountsOK' /\ StateOK' /\ HandlerOK'
  BY <1>1, <1>2 DEF AccountsOK, StateOK, HandlerOK
<1>4. ASSUME ~disturbed PROVE CreateKnows' /\ RolesDoneKnow'
  <2>1. CreateKnows /\ RolesKnow
    BY <1>4 DEF IInv, Known
  <2>2. Exists(who) /\ Compares => accounts[who].roles = cfg.roles
    BY <1>1, <2>1 DEF RolesKnow
  <2>3. CreateKnows'
    BY <1>1, <1>2, <2>1 DEF CreateKnows, Exists
  <2>4. op = "create" => Exists(who)
    BY <1>1, <2>1 DEF CreateKnows
  <2>5. op = "update" => Compares
    BY DEF Compares
  <2>6. RolesDoneKnow'
    BY <1>1, <1>2, <2>2, <2>4, <2>5 DEF RolesDoneKnow, Exists, Compares
  <2> QED
    BY <2>3, <2>6
<1>5. Known'
  BY <1>1, <1>2, <1>4 DEF Known, RefreshKnows, SearchKnows, RolesKnow
<1> QED
  BY <1>1, <1>2, <1>3, <1>5, NoReport DEF IInv

(* What the service account saves after a 409 is never the plan.           *)
LEMMA NoAnswerNeverConforms ==
  ASSUME AccountsOK
  PROVE  ~Conforms(NoAnswer, cfg)
  BY NoneAssumption DEF AccountsOK, Config, Conforms, NoAnswer

LEMMA InviteKeeps ==
  ASSUME IInv, Invite
  PROVE  IInv'
<1>1. /\ pc = "invite" /\ op = "create" /\ who \in Ids /\ Terraform
      /\ AccountsOK /\ UNCHANGED accounts
  BY DEF Invite, IInv, HandlerOK
<1>2. AccountsOK'
  BY <1>1 DEF AccountsOK, Terraform
<1>3. CASE Fails
  BY <1>1, <1>2, <1>3, FailsKeeps
<1>4. ~disturbed => /\ accounts[who].email = cfg.email
                    /\ Compares => accounts[who].roles = cfg.roles
  BY <1>1 DEF IInv, Known, CreateKnows, RolesDoneKnow
<1>5. CASE kind = "user" /\ Saves("ok", who, answer)
  BY <1>1, <1>2, <1>4, <1>5, SavesKeeps DEF Compares
<1>6. ASSUME kind = "service", NEW a, a = IF conflict THEN NoAnswer ELSE answer,
             Saves(IF Conforms(a, cfg) THEN "ok" ELSE "tainted", who, a)
      PROVE  IInv'
  <2>1. Conforms(a, cfg) => ~conflict
    BY <1>1, <1>6, NoAnswerNeverConforms
  <2>2. CASE Conforms(a, cfg)
    BY <1>1, <1>2, <1>4, <1>6, <2>1, <2>2, SavesKeeps DEF Compares
  <2>3. CASE ~Conforms(a, cfg)
    BY <1>1, <1>2, <1>6, <2>3, SavesKeeps
  <2> QED
    BY <2>2, <2>3
<1>7. kind \in {"user", "service"}
  BY <1>1 DEF AccountsOK
<1> QED
  BY <1>3, <1>5, <1>6, <1>7 DEF Invite, Created

-----------------------------------------------------------------------------
(* Reads, plans, removals and people                                       *)

LEMMA ReadKeeps ==
  ASSUME IInv, Read
  PROVE  IInv'
<1>1. /\ pc = "idle" /\ st.status # "none" /\ op = "none"
      /\ AccountsOK /\ StateOK /\ HandlerOK
      /\ UNCHANGED <<kind, cfg, accounts, op, handlerVars, edits>>
      /\ pc' \in {"idle", "refreshed"}
      /\ outcome' \in {"none", "error"}
  BY DEF Read, IInv, HandlerOK
<1>2. AccountsOK' /\ HandlerOK'
  BY <1>1 DEF AccountsOK, HandlerOK, handlerVars
<1>3. StateOK' /\ RefreshKnows'
  <2>1. CASE /\ Exists(st.id)
             /\ st' = InState(st.status, st.id, Shown(accounts[st.id]))
    <3>1. /\ st'.status = st.status /\ st'.id = st.id
          /\ st'.email = accounts[st.id].email
          /\ st'.disabled = accounts[st.id].disabled
          /\ st'.roles = accounts[st.id].roles
      BY <2>1 DEF InState, Shown
    <3> QED
      BY <1>1, <3>1 DEF StateOK, RefreshKnows
  <2>2. CASE ~Exists(st.id) /\ st' = StateOfGone
    <3>1. CASE st' = st
      BY <1>1, <2>2, <3>1 DEF StateOK, RefreshKnows, Exists
    <3>2. CASE st' = NoState
      BY <3>2 DEF StateOK, RefreshKnows, NoState
    <3> QED
      BY <2>2, <3>1, <3>2 DEF StateOfGone
  <2>3. CASE UNCHANGED <<st, pc>>
    BY <1>1, <2>3 DEF StateOK, RefreshKnows
  <2> QED
    BY <2>1, <2>2, <2>3 DEF Read
<1>4. Known'
  BY <1>1, <1>3 DEF Known, SearchKnows, CreateKnows, RolesKnow, RolesDoneKnow
<1> QED
  BY <1>1, <1>2, <1>3, <1>4, NoReport DEF IInv

(* A create starts with nothing known and nobody found.                    *)
LEMMA StartKeeps ==
  ASSUME IInv, StartCreate, AccountsOK', edits' = edits, st' = NoState
  PROVE  IInv'
<1>1. op' = "create" /\ pc' = "make" /\ who' = None
  BY DEF StartCreate
<1>2. HandlerOK' /\ Known'
  BY <1>1
  DEF HandlerOK, Known, RefreshKnows, SearchKnows, CreateKnows, RolesKnow, RolesDoneKnow
<1>3. StateOK'
  BY DEF StateOK, NoState
<1> QED
  BY <1>1, <1>2, <1>3, NoReport DEF IInv

LEMMA PlanCreateKeeps ==
  ASSUME IInv, PlanCreate
  PROVE  IInv'
<1>1. /\ StartCreate /\ UNCHANGED <<kind, cfg, accounts, edits, st>>
      /\ st = NoState /\ AccountsOK
  BY DEF PlanCreate, IInv, StateOK, budget
<1> QED
  BY <1>1, StartKeeps DEF AccountsOK

(* The read before the plan is what makes "no changes" true, and what an   *)
(* update knows of the roles.                                              *)
LEMMA PlanUpdateKeeps ==
  ASSUME IInv, PlanUpdate
  PROVE  IInv'
<1>1. /\ pc = "refreshed" /\ st.status = "ok" /\ st.id \in Ids /\ op = "none"
      /\ AccountsOK /\ StateOK /\ UNCHANGED <<accounts, st>>
      /\ UNCHANGED <<kind, cfg, edits, disturbed>>
  BY DEF PlanUpdate, IInv, HandlerOK, StateOK, Terraform
<1>2. AccountsOK' /\ StateOK'
  BY <1>1 DEF AccountsOK, StateOK
<1>3. ~disturbed /\ Exists(st.id) => /\ accounts[st.id].email = st.email
                                     /\ accounts[st.id].disabled = st.disabled
                                     /\ accounts[st.id].roles = st.roles
  BY <1>1 DEF IInv, Known, RefreshKnows
<1>4. CASE Conforms(st, cfg) /\ Idle("no changes")
  <2>1. pc' = "idle" /\ op' = "none" /\ outcome' = "no changes"
    BY <1>4 DEF Idle
  <2>2. ReportsAreTrue'
    BY <1>1, <1>3, <1>4, <2>1
    DEF ReportsAreTrue, AppliedMeansRoles, NoChangesMeansTrue, Conforms, Exists
  <2> QED
    BY <1>1, <1>2, <2>1, <2>2, IdleKnowsNothing DEF IInv
<1>5. CASE /\ op' = "update" /\ who' = st.id /\ pc' = "roles"
           /\ toAdd' = cfg.roles \ st.roles /\ toRemove' = st.roles \ cfg.roles
           /\ UNCHANGED conflict
  <2>1. HandlerOK'
    BY <1>1, <1>5 DEF HandlerOK
  <2>2. ~disturbed => RolesKnow'
    BY <1>1, <1>3, <1>5 DEF RolesKnow, Exists
  <2>3. Known'
    BY <1>1, <1>5, <2>2 DEF Known, RefreshKnows, SearchKnows, CreateKnows, RolesDoneKnow
  <2> QED
    BY <1>1, <1>2, <1>5, <2>1, <2>3, NoReport DEF IInv
<1> QED
  BY <1>4, <1>5 DEF PlanUpdate

LEMMA PlanReplaceKeeps ==
  ASSUME IInv, PlanReplace
  PROVE  IInv'
<1>1. /\ st.id \in Ids /\ AccountsOK /\ StateOK /\ UNCHANGED <<accounts, st>>
      /\ UNCHANGED <<kind, cfg, edits, disturbed>>
      /\ op' = "replace" /\ pc' = "disable" /\ who' = st.id
  BY DEF PlanReplace, IInv, StateOK, Terraform
<1>2. AccountsOK' /\ StateOK' /\ HandlerOK'
  BY <1>1 DEF AccountsOK, StateOK, HandlerOK
<1>3. Known'
  BY <1>1 DEF Known, RefreshKnows, SearchKnows, CreateKnows, RolesKnow, RolesDoneKnow
<1> QED
  BY <1>1, <1>2, <1>3, NoReport DEF IInv

LEMMA DisableKeeps ==
  ASSUME IInv, Disable
  PROVE  IInv'
<1>1. /\ pc = "disable" /\ op \in {"delete", "replace"} /\ who \in Ids
      /\ Terraform /\ AccountsOK
  BY DEF Disable, IInv, HandlerOK
<1>2. UNCHANGED <<kind, cfg, edits, disturbed>>
  BY <1>1 DEF Terraform
<1>3. ASSUME accounts' \in {accounts, Disabled}
      PROVE  AccountsOK'
  <2>1. CASE accounts' = [accounts EXCEPT ![who].disabled = TRUE] /\ Exists(who)
    BY <1>1, <1>2, <2>1, DisableKeepsAccounts
  <2>2. CASE UNCHANGED accounts
    BY <1>1, <1>2, <2>2 DEF AccountsOK
  <2> QED
    BY <1>3, <2>1, <2>2 DEF Disabled
<1>4. CASE /\ accounts' = Disabled
           /\ st' = NoState
           /\ IF op = "replace" THEN StartCreate ELSE Idle("destroyed")
  <2>1. AccountsOK'
    BY <1>3, <1>4
  <2>2. CASE StartCreate
    BY <1>2, <1>4, <2>1, <2>2, StartKeeps
  <2>3. CASE Idle("destroyed")
    <3>1. pc' = "idle" /\ op' = "none" /\ outcome' = "destroyed"
      BY <2>3 DEF Idle
    <3>2. StateOK'
      BY <1>4 DEF StateOK, NoState
    <3> QED
      BY <1>2, <2>1, <3>1, <3>2, IdleKnowsNothing, NoReport DEF IInv
  <2> QED
    BY <1>4, <2>2, <2>3
<1>5. CASE Fails /\ accounts' \in {accounts, Disabled}
  BY <1>1, <1>3, <1>5, FailsKeeps
<1> QED
  BY <1>4, <1>5 DEF Disable

LEMMA PeopleKeep ==
  ASSUME IInv, \/ Ui \/ Destroy \/ \E c \in Configs : EditConfig(c)
  PROVE  IInv'
<1>0. AccountsOK /\ StateOK /\ HandlerOK /\ edits \in Nat
  BY DEF IInv
<1>1. CASE Ui
  <2>1. /\ AccountsOK' /\ disturbed' = TRUE /\ edits' \in Nat
        /\ UNCHANGED <<st, op, pc, handlerVars>>
    BY <1>0, <1>1, UiKeepsAccounts
  <2>2. StateOK' /\ HandlerOK'
    BY <1>0, <2>1 DEF StateOK, HandlerOK, handlerVars
  <2>3. Known' /\ ReportsAreTrue'
    BY <2>1 DEF Known, ReportsAreTrue, AppliedMeansRoles, NoChangesMeansTrue
  <2> QED
    BY <2>1, <2>2, <2>3 DEF IInv
<1>2. CASE Destroy
  <2>1. /\ UNCHANGED <<kind, cfg, accounts, st, edits>>
        /\ op' = "delete" /\ pc' = "disable" /\ who' = st.id /\ st.id \in Ids
    BY <1>0, <1>2 DEF Destroy, Choose, StateOK
  <2>2. AccountsOK' /\ StateOK' /\ HandlerOK'
    BY <1>0, <2>1 DEF AccountsOK, StateOK, HandlerOK
  <2>3. Known'
    BY <2>1 DEF Known, RefreshKnows, SearchKnows, CreateKnows, RolesKnow, RolesDoneKnow
  <2> QED
    BY <1>0, <2>1, <2>2, <2>3, NoReport DEF IInv
<1>3. ASSUME NEW c \in Configs, EditConfig(c)
      PROVE  IInv'
  <2>1. /\ UNCHANGED <<kind, accounts, st, edits, op, pc, who, conflict>>
        /\ cfg' \in Config /\ outcome' = "none" /\ pc = "idle" /\ op = "none"
    BY <1>0, <1>3, ConfigsAssumption DEF EditConfig, Choose, HandlerOK
  <2>2. AccountsOK' /\ StateOK'
    BY <1>0, <2>1 DEF AccountsOK, StateOK
  <2> QED
    BY <1>0, <2>1, <2>2, IdleKnowsNothing, NoReport DEF IInv
<1> QED
  BY <1>1, <1>2, <1>3

-----------------------------------------------------------------------------
(* The invariant holds                                                     *)

LEMMA InitEstablishes ==
  ASSUME Init
  PROVE  IInv
<1>1. AccountsOK /\ StateOK /\ edits \in Nat
  BY ConfigsAssumption, OrganisationsAssumption
  DEF Init, AccountsOK, StateOK, NoState
<1>2. HandlerOK /\ Known
  BY DEF Init, HandlerOK, Known, RefreshKnows, SearchKnows, CreateKnows, RolesKnow,
     RolesDoneKnow
<1>3. ReportsAreTrue
  BY DEF Init, ReportsAreTrue, AppliedMeansRoles, NoChangesMeansTrue
<1> QED
  BY <1>1, <1>2, <1>3 DEF IInv

LEMMA NextKeeps ==
  ASSUME IInv, [Next]_vars
  PROVE  IInv'
<1>1. CASE UNCHANGED vars
  BY <1>1
  DEF vars, handlerVars, budget, IInv, AccountsOK, StateOK, HandlerOK, Known,
      RefreshKnows, SearchKnows, CreateKnows, RolesKnow, RolesDoneKnow, Compares,
      Exists, Meant, Found, Matching,
      ReportsAreTrue, AppliedMeansRoles, NoChangesMeansTrue, Conforms
<1>2. CASE Run
  BY <1>2, ReadKeeps, PlanCreateKeeps, PlanUpdateKeeps, PlanReplaceKeeps,
     MakeKeeps, SearchKeeps, WriteKeeps, AddRoleKeeps, RemoveRoleKeeps,
     RolesDoneKeeps, InviteKeeps, DisableKeeps
  DEF Run
<1> QED
  BY <1>1, <1>2, PeopleKeep DEF Next

LEMMA Invariance == Spec => []IInv
<1>1. Init => IInv
  BY InitEstablishes
<1>2. IInv /\ [Next]_vars => IInv'
  BY NextKeeps
<1> QED
  BY <1>1, <1>2, PTL DEF Spec

-----------------------------------------------------------------------------
(* Steps                                                                   *)

LEMMA SomeRoleStays ==
  ASSUME IInv, Next, kind = "user", edits' = edits, ~disturbed,
         cfg.roles # {}, NEW i \in Ids, accounts[i].roles # {}
  PROVE  accounts'[i].roles # {}
<1>0. AccountsOK /\ HandlerOK /\ edits \in Nat
  BY DEF IInv
<1>1. CASE UNCHANGED accounts
  BY <1>1
<1>2. CASE Make
  <2>1. UNCHANGED <<kind, cfg>>
    BY <1>2 DEF Make, Terraform
  <2>2. ASSUME NEW j \in Ids,
               accounts' = [accounts EXCEPT ![j] =
                      [handle |-> cfg.email, email |-> cfg.email,
                       disabled |-> FALSE, roles |-> cfg.roles,
                       service |-> kind = "service"]]
        PROVE  accounts'[i].roles # {}
    <3>1. /\ accounts'[j].roles = cfg.roles
          /\ \A k \in Ids \ {j} : accounts'[k] = accounts[k]
      BY <1>0, <2>1, <2>2, MakeKeepsAccounts
    <3> QED
      BY <3>1
  <2> QED
    BY <1>1, <1>2, <2>2 DEF Make
<1>3. CASE Write
  <2>1. /\ who \in Ids /\ UNCHANGED <<kind, cfg>>
    BY <1>0, <1>3 DEF Write, HandlerOK, Terraform
  <2>2. CASE /\ Exists(who)
             /\ accounts' = [accounts EXCEPT ![who] = Written(accounts[who])]
    <3>1. /\ accounts'[who].roles = accounts[who].roles
          /\ \A j \in Ids \ {who} : accounts'[j] = accounts[j]
      BY <1>0, <2>1, <2>2, WriteKeepsAccounts
    <3> QED
      BY <3>1
  <2> QED
    BY <1>1, <1>3, <2>2 DEF Write
<1>4. ASSUME NEW r \in Roles, AddRole(r)
      PROVE  accounts'[i].roles # {}
  <2>1. who \in Ids /\ UNCHANGED <<kind, cfg>>
    BY <1>0, <1>4 DEF AddRole, HandlerOK, Terraform
  <2>2. CASE Exists(who) /\ SetRoles(accounts[who].roles \cup {r})
    <3>1. accounts[who].roles \cup {r} \in SUBSET Roles
      BY <1>0, <2>1, <2>2, SomebodyHasAccount DEF Account
    <3>2. /\ accounts'[who].roles = accounts[who].roles \cup {r}
          /\ \A j \in Ids \ {who} : accounts'[j] = accounts[j]
      BY <1>0, <2>1, <2>2, <3>1, RoleKeepsAccounts
    <3> QED
      BY <3>2
  <2> QED
    BY <1>1, <1>4, <2>2 DEF AddRole, RoleFails
<1>5. ASSUME NEW r \in Roles, RemoveRole(r)
      PROVE  accounts'[i].roles # {}
  <2>1. /\ who \in Ids /\ UNCHANGED <<kind, cfg>>
        /\ pc = "roles" /\ toAdd = {} /\ r \in toRemove
    BY <1>0, <1>5 DEF RemoveRole, HandlerOK, Terraform
  <2>2. CASE Exists(who) /\ SetRoles(accounts[who].roles \ {r})
    <3>1. accounts[who].roles \ {r} \in SUBSET Roles
      BY <1>0, <2>1, <2>2, SomebodyHasAccount DEF Account
    <3>2. /\ accounts'[who].roles = accounts[who].roles \ {r}
          /\ \A j \in Ids \ {who} : accounts'[j] = accounts[j]
      BY <1>0, <2>1, <2>2, <3>1, RoleKeepsAccounts
    <3>3. /\ accounts[who].roles \cup toAdd = cfg.roles \cup toRemove
          /\ toRemove \cap cfg.roles = {}
      BY <2>1, <2>2 DEF IInv, Known, RolesKnow, Compares
    <3> QED
      BY <2>1, <3>2, <3>3
  <2> QED
    BY <1>1, <1>5, <2>2 DEF RemoveRole, RoleFails
<1>6. CASE Disable
  <2>1. who \in Ids /\ UNCHANGED <<kind, cfg>>
    BY <1>0, <1>6 DEF Disable, HandlerOK, Terraform
  <2>2. CASE /\ Exists(who)
             /\ accounts' = [accounts EXCEPT ![who].disabled = TRUE]
    BY <1>0, <2>1, <2>2, DisableKeepsAccounts
  <2> QED
    BY <1>1, <1>6, <2>2 DEF Disable, Disabled
<1>7. CASE Ui
  BY <1>0, <1>7, UiKeepsAccounts
<1>8. CASE \/ Read \/ PlanCreate \/ PlanUpdate \/ PlanReplace \/ Search
           \/ RolesDone \/ Invite \/ Destroy \/ \E c \in Configs : EditConfig(c)
  BY <1>1, <1>8 DEF Read, PlanCreate, PlanUpdate, PlanReplace, Search, RolesDone,
     Invite, Destroy, EditConfig, Choose
<1> QED
  BY <1>2, <1>3, <1>4, <1>5, <1>6, <1>7, <1>8 DEF Next, Run

LEMMA InvitedFirst ==
  ASSUME IInv, Next, kind = "user", op = "create", cfg.invite, st'.id # None
  PROVE  st'.id \in invited'
<1>0. HandlerOK /\ st = NoState
  BY DEF IInv, HandlerOK
<1>1. CASE UNCHANGED st \/ Fails
  BY <1>0, <1>1 DEF Fails, NoState
<1>2. CASE Invite
  <2>1. CASE Created(answer) /\ invited' = invited \cup {who}
    BY <2>1 DEF Created, Saves, InState
  <2> QED
    BY <1>1, <1>2, <2>1 DEF Invite
<1>3. CASE Make \/ Search \/ Write \/ RolesDone
  BY <1>1, <1>3 DEF Make, Search, Write, RolesDone, Goes
<1>4. CASE \E r \in Roles : AddRole(r) \/ RemoveRole(r)
  BY <1>1, <1>4 DEF AddRole, RemoveRole, RoleFails
<1>5. CASE \/ PlanCreate \/ PlanUpdate \/ PlanReplace \/ Ui \/ Destroy
           \/ \E c \in Configs : EditConfig(c)
  BY <1>1, <1>5 DEF PlanCreate, PlanUpdate, PlanReplace, Ui, UiEdit, Destroy,
     EditConfig, Choose
<1>6. CASE Read \/ Disable
  BY <1>0, <1>6 DEF Read, Disable, HandlerOK
<1> QED
  BY <1>2, <1>3, <1>4, <1>5, <1>6 DEF Next, Run

(* Only the account a handler works on changes under its calls, and of     *)
(* that one it knows what the search returned.                             *)
LEMMA TheMeantIsWritten ==
  ASSUME IInv, Next, NEW i \in Ids, Changes(i), ~disturbed
  PROVE  Meant(i) \/ Found = {i}
<1>0. AccountsOK /\ HandlerOK /\ edits \in Nat /\ op = "create"
  BY DEF IInv, Changes
<1>1. accounts' # accounts /\ Exists(i)
  BY DEF Changes
<1>2. CASE Make
  <2>1. PICK j \in Ids : /\ ~Exists(j)
                         /\ \A k \in Ids \ {j} : accounts'[k] = accounts[k]
    BY <1>0, <1>1, <1>2 DEF Make, AccountsOK
  <2> QED
    BY <1>1, <2>1 DEF Changes
<1>3. ASSUME pc \in {"write", "roles"}, Exists(who),
             \A j \in Ids \ {who} : accounts'[j] = accounts[j]
      PROVE  Meant(i) \/ Found = {i}
  <2>1. i = who
    BY <1>3 DEF Changes
  <2> QED
    BY <1>0, <1>3, <2>1 DEF IInv, Known, SearchKnows
<1>4. CASE Write
  BY <1>0, <1>1, <1>3, <1>4 DEF Write, AccountsOK
<1>5. CASE \E r \in Roles : AddRole(r) \/ RemoveRole(r)
  BY <1>0, <1>1, <1>3, <1>5 DEF AddRole, RemoveRole, RoleFails, SetRoles, AccountsOK
<1>6. CASE Ui
  BY <1>0, <1>6, UiKeepsAccounts DEF Changes
<1>7. ~ (\/ Read \/ PlanCreate \/ PlanUpdate \/ PlanReplace \/ Search
         \/ RolesDone \/ Invite \/ Disable \/ Destroy
         \/ \E c \in Configs : EditConfig(c))
  BY <1>0, <1>1 DEF Read, PlanCreate, PlanUpdate, PlanReplace, Search, RolesDone,
     Invite, Disable, Destroy, EditConfig, Choose, HandlerOK
<1> QED
  BY <1>2, <1>4, <1>5, <1>6, <1>7 DEF Next, Run

-----------------------------------------------------------------------------
(* Theorems                                                                *)

(* A run of resourceDatadogUserCreate, Update or of the service account's  *)
(* that ends in success, and a plan without changes, tell the truth about  *)
(* the account when nobody used the UI meanwhile.                          *)
THEOREM ReportsSafe == Spec => []ReportsAreTrue
<1>1. IInv => ReportsAreTrue
  BY DEF IInv
<1> QED
  BY <1>1, Invariance, PTL

(* updateRoles adds before it removes, and knows the roles it starts from: *)
(* no call, and no failure between two, leaves a user without any role.    *)
THEOREM RolesSafe == Spec => NeverWithoutRoles
<1>1. IInv /\ [Next]_vars =>
        [\A i \in Ids :
            /\ kind = "user" /\ edits' = edits /\ ~disturbed
            /\ cfg.roles # {} /\ accounts[i].roles # {}
            => accounts'[i].roles # {}]_vars
  BY SomeRoleStays
<1> QED
  BY <1>1, Invariance, PTL DEF Spec, NeverWithoutRoles

(* resourceDatadogUserCreate sets the id after sendUserInvitation only.    *)
THEOREM InvitedSafe == Spec => InvitedBeforeSaved
<1>1. IInv /\ [Next]_vars =>
        [kind = "user" /\ op = "create" /\ cfg.invite /\ st'.id # None
            => st'.id \in invited']_vars
  BY InvitedFirst
<1> QED
  BY <1>1, Invariance, PTL DEF Spec, InvitedBeforeSaved

(* The create of a name that is taken writes only to the account that is   *)
(* meant, or to the only one its search returned; that knowledge survives  *)
(* the search, the write and every role call, and failures between them.   *)
THEOREM MeantSafe == Spec => WritesOnlyTheMeant
<1>1. IInv /\ [Next]_vars =>
        [\A i \in Ids : Changes(i) /\ ~disturbed => Meant(i) \/ Found = {i}]_vars
  BY TheMeantIsWritten
<1> QED
  BY <1>1, Invariance, PTL DEF Spec, WritesOnlyTheMeant
=============================================================================
