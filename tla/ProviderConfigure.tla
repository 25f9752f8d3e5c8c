--------------------------- MODULE ProviderConfigure ---------------------------
(***************************************************************************)
(* How the provider is configured.  The provider is two providers in one   *)
(* process: the older resources are served by the SDK, the newer ones by   *)
(* the framework, and each of the two makes a client of its own from the   *)
(* same attributes and environment variables.                              *)
(*                                                                         *)
(* A setting is a record of its attribute and its environment variable,    *)
(* Null where there is none.                                               *)
(***************************************************************************)
EXTENDS Naturals

CONSTANT Null

Failed == [auth |-> Null, server |-> Null, retry |-> Null]

\* The API client's own defaults.
RetryDefaults ==
    [enabled |-> FALSE, timeout |-> 60, multiplier |-> 2, base |-> 2, max |-> 3]

ParseBool(text) == text \in {"1", "true"}
OrEmpty(text) == IF text = Null THEN "" ELSE text

\* Mutant: off unless it is asked for.
ValidatesIfAsked(c) == ParseBool(c.validate)
Validates(c) == c.validate = Null \/ ParseBool(c.validate)

-----------------------------------------------------------------------------
(* What both do with the settings once they have them *)

MissingKeys(c, t) ==
    \/ c.cloud = "" /\ (t.key = "" \/ t.app = "")
    \/ c.cloud # "" /\ t.org = ""

Auth(c, t) ==
    CASE c.cloud = "aws" -> [how |-> "cloud", org |-> t.org, aws |-> t.aws]
      [] c.cloud = "" /\ (t.key # "" \/ t.app # "") ->
             [how |-> "keys", key |-> t.key, app |-> t.app]
      [] OTHER -> [how |-> "nothing"]

Server(t) == IF t.url = "" THEN "default" ELSE t.url

Refused(c, t) ==
    \/ Validates(c) /\ MissingKeys(c, t)
    \/ c.cloud \notin {"", "aws"}
    \/ t.url = "no url"

-----------------------------------------------------------------------------
(* The SDK: an attribute that is empty or zero is one that is not set *)

SdkText(s) == IF s.attr \in {Null, ""} THEN OrEmpty(s.env) ELSE s.attr
SdkTexts(c) == [key |-> SdkText(c.key), app |-> SdkText(c.app),
                org |-> SdkText(c.org), aws |-> SdkText(c.aws),
                url |-> SdkText(c.url)]

SdkNumber(s, default) ==
    IF s.attr \notin {Null, 0} THEN s.attr
    ELSE IF s.env # Null THEN s.env ELSE default
SdkRetry(c) ==
    [enabled |-> IF c.retry.attr = Null
                 THEN c.retry.env = Null \/ ParseBool(c.retry.env)
                 ELSE ParseBool(c.retry.attr),
     timeout |-> SdkNumber(c.timeout, RetryDefaults.timeout),
     multiplier |-> SdkNumber(c.multiplier, RetryDefaults.multiplier),
     base |-> SdkNumber(c.base, RetryDefaults.base),
     max |-> SdkNumber(c.max, RetryDefaults.max)]

providerConfigure(c) ==
    LET t == SdkTexts(c)
    IN  IF Refused(c, t) THEN Failed
        ELSE [auth |-> Auth(c, t), server |-> Server(t), retry |-> SdkRetry(c)]

\* The older client, for the one type that still uses it: it knows no cloud
\* providers and does not send a write again.
communityClient(c) ==
    LET t == SdkTexts(c)
    IN  [auth |-> [how |-> "keys", key |-> t.key, app |-> t.app],
         server |-> Server(t), retry |-> RetryDefaults]

-----------------------------------------------------------------------------
(* The framework: an attribute that is empty is set *)

\* Mutant: the environment comes first.
FwTextEnvironment(s) == IF s.env # Null THEN s.env ELSE OrEmpty(s.attr)
FwText(s) == IF s.attr = Null THEN OrEmpty(s.env) ELSE s.attr
FwTexts(c) == [key |-> FwText(c.key), app |-> FwText(c.app),
               org |-> FwText(c.org), aws |-> FwText(c.aws),
               url |-> FwText(c.url)]

\* ConfigureConfigDefaults
FwValue(s) == IF s.attr = Null THEN s.env ELSE s.attr

\* Mutant: the environment variable is forgotten.
FwEnabledAttribute(c) == IF c.retry.attr = Null THEN "true" ELSE c.retry.attr
FwEnabled(c) == IF FwValue(c.retry) = Null THEN "true" ELSE FwValue(c.retry)

\* ValidateConfigValues
FwInvalid(c) ==
    \/ c.validate \notin {Null, "true", "false"}
    \/ FwEnabled(c) \notin {"true", "false"}
    \/ 0 \in {FwValue(c.multiplier), FwValue(c.base)}
    \/ FwValue(c.max) \notin {Null} \union 1..5

\* The timeout and the base are taken from the setting of the multiplier.
FwRetry(c) ==
    LET multiplier == FwValue(c.multiplier)
    IN  IF FwEnabled(c) # "true" THEN RetryDefaults
        ELSE [enabled |-> TRUE,
              timeout |-> IF multiplier = Null
                          THEN RetryDefaults.timeout ELSE multiplier,
              multiplier |-> RetryDefaults.multiplier,
              base |-> IF FwValue(c.base) = Null THEN RetryDefaults.base
                       ELSE IF multiplier = Null THEN 0 ELSE multiplier,
              max |-> IF FwValue(c.max) = Null THEN RetryDefaults.max
                      ELSE FwValue(c.max)]

defaultConfigureFunc(c) ==
    LET t == FwTexts(c)
    IN  IF FwInvalid(c) \/ Refused(c, t) THEN Failed
        ELSE [auth |-> Auth(c, t), server |-> Server(t), retry |-> FwRetry(c)]
=============================================================================
