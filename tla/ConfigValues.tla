---------------------------- MODULE ConfigValues ----------------------------
(***************************************************************************)
(* A configuration value and what leaves AWS of it (redact.go).            *)
(*                                                                         *)
(* A value is a record: its form, the thing it names, the places of it     *)
(* that hold secret-shaped text (a credential pattern, a dense token, a    *)
(* signature parameter) and the places a marker stands for.  An "arn" and  *)
(* an "expression" (method.request..., only in API mappings) refer to      *)
(* something; a "url" has a host and six places a secret may stand in: a   *)
(* "user" without a password, a "password", the segments of the "path", a  *)
(* "query" parameter's value, a "bare" parameter without =, the "fragment".*)
(* A "host" is an AWS hostname without a scheme, "empty" the empty string, *)
(* "text" anything else.                                                   *)
(***************************************************************************)
EXTENDS Naturals, Sequences

CONSTANTS
    SecretKeys,     \* the keys secretKeyName recognises
    Names           \* what values name, and NoName

NoName == "none"
NoKey == ""
Url(v) == v.form = "url"

\* A marker stands for a whole text or for a place of a URL, never for a host.
Forms == {"arn", "expression", "url", "host", "text", "empty", "none"}
Places == {"whole", "user", "password", "path", "query", "bare", "fragment"}
Searched == {"password", "path", "query"}   \* the places of a URL sanitizeURL looks at
Values ==
    {v \in [form : Forms, names : Names, shaped : SUBSET Places, masked : SUBSET Places] :
        /\ "whole" \in v.masked => v.form = "text"
        /\ "whole" \in v.shaped => ~Url(v)
        /\ v.form = "empty" => v.names = NoName /\ v.shaped = {}}
Arguments == [flag : STRING, value : Values]

IsMarker(v) == "whole" \in v.masked
Withheld == [form |-> "text", names |-> NoName, shaped |-> {}, masked |-> {"whole"}]

(* What redactValue returns: the value to store and whether anything was   *)
(* removed.                                                                *)
Kept(v) == [value |-> v, red |-> FALSE]
Withhold == [value |-> Withheld, red |-> TRUE]

(* The password, the segments and the parameters' values go one by one;    *)
(* the host stays, and so does what stands elsewhere.                      *)
SanitizeURLEarly(v) ==
    LET found == IF "path" \in v.shaped THEN {"path"} ELSE v.shaped \cap Searched
    IN  [value |-> [v EXCEPT !.masked = @ \cup found, !.shaped = @ \ found], red |-> found # {}]
SanitizeURL(v) ==
    LET found == v.shaped \cap Searched
    IN  [value |-> [v EXCEPT !.masked = @ \cup found, !.shaped = @ \ found], red |-> found # {}]

RedactWholly(key, v) ==
    CASE v.form \in {"arn", "empty"} \/ IsMarker(v) -> Kept(v)
      [] v.shaped # {} \/ key \in SecretKeys -> Withhold
      [] OTHER -> Kept(v)
Redact(key, v) ==
    LET open == v.form \notin {"arn", "empty"} /\ ~IsMarker(v)
    IN  CASE open /\ Url(v) -> SanitizeURL(v)
          [] open /\ ~Url(v) /\ (v.shaped # {} \/ key \in SecretKeys) -> Withhold
          [] OTHER -> Kept(v)

(* redactMappings: an expression is a reference under any key.             *)
RedactMapping(key, v) == IF v.form = "expression" THEN Kept(v) ELSE Redact(key, v)

(* An argument: --flag=value has both, --flag has no value (NoArg), a      *)
(* positional one has no flag.                                             *)
NoArg == [form |-> "none", names |-> NoName, shaped |-> {}, masked |-> {}]
IsBareFlag(a) == a.flag # NoKey /\ a.value = NoArg
AfterSecretFlag(args, i) ==
    args[i].flag = NoKey /\ i > 1 /\ IsBareFlag(args[i - 1]) /\ args[i - 1].flag \in SecretKeys

RedactArgAgain(args, i) ==
    LET v == args[i].value
    IN  CASE IsBareFlag(args[i]) -> Kept(v)
          [] AfterSecretFlag(args, i) /\ v.form # "arn" /\ ~Url(v) -> Withhold
          [] OTHER -> Redact(args[i].flag, v)
RedactArgAlone(args, i) ==
    IF IsBareFlag(args[i]) THEN Kept(args[i].value) ELSE Redact(args[i].flag, args[i].value)
RedactArg(args, i) ==
    LET v == args[i].value
    IN  CASE IsBareFlag(args[i]) -> Kept(v)
          [] AfterSecretFlag(args, i) /\ ~IsMarker(v) /\ v.form # "arn" /\ ~Url(v) -> Withhold
          [] OTHER -> Redact(args[i].flag, v)
=============================================================================
