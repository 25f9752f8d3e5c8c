---------------------------- MODULE MCUserAccounts ----------------------------
(***************************************************************************)
(* Three accounts, two roles, and the addresses jo, jojo, of which jo is a *)
(* part, and al.                                                           *)
(***************************************************************************)
EXTENDS UserAccounts, TLC

CONSTANTS r1, r2

MCEmails == {"jo", "jojo", "al"}
MCContains == ("jo" :> {"jo", "jojo"}) @@ ("jojo" :> {"jojo"}) @@ ("al" :> {"al"})

Jo(disabled, roles, invite) ==
    [email |-> "jo", disabled |-> disabled, roles |-> roles, invite |-> invite]
MCConfigs == {Jo(FALSE, {r1}, TRUE), Jo(FALSE, {r2}, FALSE),
              Jo(TRUE, {r1, r2}, FALSE)}

Somebody(handle, email, disabled, roles, service) ==
    [handle |-> handle, email |-> email, disabled |-> disabled,
     roles |-> roles, service |-> service]

\* Nobody; jo, disabled earlier; jo and jojo; jo who is called al by now, and
\* jojo; a service account jo; two accounts like jo on the page before jo.
MCOrganisations ==
    {<<Nobody, Nobody, Nobody>>,
     <<Somebody("jo", "jo", TRUE, {r1}, FALSE), Nobody, Nobody>>,
     <<Somebody("jojo", "jojo", FALSE, {r2}, FALSE),
       Somebody("jo", "jo", FALSE, {r1, r2}, FALSE), Nobody>>,
     <<Somebody("jo", "al", FALSE, {r1}, FALSE),
       Somebody("jojo", "jojo", FALSE, {r2}, FALSE), Nobody>>,
     <<Somebody("jo", "jo", TRUE, {r2}, TRUE), Nobody, Nobody>>,
     <<Somebody("jojo", "jojo", FALSE, {r2}, FALSE),
       Somebody("al", "jojo", FALSE, {r1}, TRUE),
       Somebody("jo", "jo", FALSE, {r1}, FALSE)>>}
===============================================================================
