-------------------------- MODULE MCProviderProcess --------------------------
(* Two kinds of scenario: every way to configure the provider, with calls    *)
(* that do nothing; and one configuration, with all pairs of types of one    *)
(* account, three calls of the WAF types, and three plans of roles.          *)
EXTENDS ProviderProcess, TLC

CONSTANTS w1, w2, w3

S(attr, env) == [attr |-> attr, env |-> env]
Unset == S(Null, Null)
MCKeys == [key |-> S("k", Null), app |-> S("a", Null), org |-> Unset,
           aws |-> Unset, url |-> Unset, cloud |-> "", validate |-> Null,
           retry |-> Unset, timeout |-> Unset, multiplier |-> Unset,
           base |-> Unset, max |-> S(1, Null)]

MCCredentials ==
    {[MCKeys EXCEPT !.key = k, !.app = a, !.org = o, !.aws = x, !.url = u,
                    !.cloud = c, !.validate = v] :
        k \in {S(x, y) : x \in {Null, "", "k"}, y \in {Null, "other"}},
        a \in {S(Null, "a"), Unset}, o \in {S("o", Null), Unset},
        x \in {Unset, S("", "x")},
        u \in {S(x, y) : x \in {Null, "", "eu", "no url"}, y \in {Null, "us5"}},
        c \in {"", "aws", "gcp"}, v \in {Null, "true", "false"}}
MCRetries ==
    {[MCKeys EXCEPT !.retry = S(ra, re), !.timeout = S(t, Null),
                    !.multiplier = S(ma, me), !.base = S(b, Null),
                    !.max = S(xa, xe)] :
        ra \in {Null, "true", "false"}, re \in {Null, "false", "1", "yes"},
        t \in {Null, 90}, ma \in {Null, 3}, me \in {Null, 0}, b \in {Null, 5},
        xa \in {Null, 4}, xe \in {Null, 9}}
MCNoRetries == [MCKeys EXCEPT !.retry = S("false", Null)]
MCCustomers ==
    {<<[how |-> "keys", key |-> "k", app |-> "a"], "default">>,
     <<[how |-> "keys", key |-> "other", app |-> "a"], "us5">>,
     <<[how |-> "cloud", org |-> "o", aws |-> ""], "eu">>,
     <<[how |-> "cloud", org |-> "o", aws |-> "x"], "default">>}

Does(type, op) == [type |-> type, op |-> op]
Plans(needs) == [type |-> "role", op |-> "plan", needs |-> needs]
Nothing == Does(Pagerduty, "delete")
Tasks(a, b, c) == (w1 :> a @@ w2 :> b @@ w3 :> c)

MCTypes == SerialTypes \union UnlockedTypes
MCPairs ==
    {Tasks(Does(s, p), Does(t, q), Nothing) :
        s \in MCTypes, t \in MCTypes, p \in {"create"},
        q \in {"create", "update", "delete"}}
MCSame == {x \in MCPairs : x[w1].type.account = x[w2].type.account}
MCThree ==
    {Tasks(Does(WafCustomRule, "create"), Does(WafExclusionFilter, "delete"),
           Does(WafExclusionFilter, "create")),
     Tasks(Does(AwsAccount, "update"), Does(AwsEventBridge, "create"),
           Does(AwsTagFilter, "delete")),
     Tasks(Does(CsmThreatsAgentRule, "read"), Does(CsmThreatsPolicy, "update"),
           Does(CsmThreatsAgentRule, "create"))}
MCRoles == {Tasks(Plans({"p"}), Plans({"p", "q"}), Plans({"p", "gone"}))}

MCScenarios ==
    [cfg : MCCredentials \union MCRetries,
     task : {Tasks(Nothing, Nothing, Nothing)}]
    \union [cfg : {MCKeys, MCNoRetries}, task : MCSame \union MCThree]
    \union [cfg : {MCKeys}, task : MCRoles]
=============================================================================
