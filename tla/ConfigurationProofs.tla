------------------------- MODULE ConfigurationProofs -------------------------
(***************************************************************************)
(* What holds of redaction and of the configuration rules for every set of *)
(* keys, values, command lines, workloads and namesakes.                   *)
(***************************************************************************)
EXTENDS Configuration, Integers, FiniteSetTheorems, TLAPS

----------------------------------------------------------------------------
(* Redaction.  What is recorded, and what is listed, is a function of what *)
(* was read: no key and no argument is ever decided by what became of      *)
(* another, which is why it is as if all had been redacted at once.        *)

Shapes ==
  /\ scan \in {1, 2} /\ left \subseteq Withholding!Keys
  /\ given \in [Withholding!Keys -> Withholding!Values]
  /\ out \in [Withholding!Keys -> Withholding!Values]
  /\ givenArgs \in Seq(Withholding!Arguments) /\ outArgs \in Seq(Withholding!Arguments)
  /\ Len(outArgs) = Len(givenArgs) /\ next \in 1 .. Len(givenArgs) + 1

Keyed ==
  /\ \A k \in Withholding!Keys :
       out[k] = IF k \in left THEN given[k] ELSE Withholding!RedactedUnder(k, given[k]).value
  /\ hits = {k \in Withholding!Keys \ left : Withholding!RedactedUnder(k, given[k]).red}

Argued ==
  /\ \A i \in 1 .. Len(givenArgs) :
       /\ outArgs[i].flag = givenArgs[i].flag
       /\ outArgs[i].value = IF i < next THEN Withholding!RedactArg(givenArgs, i).value
                                         ELSE givenArgs[i].value
  /\ hitArgs = {i \in 1 .. next - 1 : Withholding!RedactArg(givenArgs, i).red}

\* What a second scan reads is left as it is by every rule.
Settled ==
  scan = 2 =>
    /\ \A k \in Withholding!Keys :
         Withholding!RedactedUnder(k, given[k]) = Withholding!Kept(given[k])
    /\ \A i \in 1 .. Len(givenArgs) :
         Withholding!RedactArg(givenArgs, i) = Withholding!Kept(givenArgs[i].value)

Redacting == Shapes /\ Keyed /\ Argued /\ Settled

\* A value is kept, withheld, or a URL whose places are masked one by one.
LEMMA RedactCases ==
  ASSUME NEW key, NEW v \in Withholding!Values
  PROVE  LET r == Withholding!Redact(key, v)
         IN  \/ /\ r = Withholding!Kept(v)
                /\ \/ v.form \in {"arn", "empty"} \/ Withholding!IsMarker(v)
                   \/ ~Withholding!Url(v) /\ v.shaped = {} /\ key \notin SecretKeys
             \/ /\ r = Withholding!Withhold
                /\ v.form \notin {"arn", "empty"} /\ ~Withholding!IsMarker(v) /\ ~Withholding!Url(v)
                /\ v.shaped # {} \/ key \in SecretKeys
             \/ /\ r = Withholding!SanitizeURL(v)
                /\ Withholding!Url(v) /\ ~Withholding!IsMarker(v)
<1> DEFINE open == v.form \notin {"arn", "empty"} /\ ~Withholding!IsMarker(v)
           must == v.shaped # {} \/ key \in SecretKeys
<1>1. CASE ~open
  BY <1>1 DEF Withholding!Redact
<1>2. CASE open /\ Withholding!Url(v)
  BY <1>2 DEF Withholding!Redact
<1>3. CASE open /\ ~Withholding!Url(v) /\ must
  BY <1>3 DEF Withholding!Redact
<1>4. CASE open /\ ~Withholding!Url(v) /\ ~must
  BY <1>4 DEF Withholding!Redact
<1> QED BY <1>1, <1>2, <1>3, <1>4
LEMMA WithheldIs ==
  /\ Withholding!Withheld \in Withholding!Values
  /\ Withholding!IsMarker(Withholding!Withheld)
  /\ Withholding!Withheld.form = "text"
<1>1. Withholding!NoName \in Names
  BY ContainerAssumption
<1>2. /\ Withholding!Withheld.form = "text" /\ Withholding!Withheld.names = Withholding!NoName
      /\ Withholding!Withheld.shaped = {} /\ Withholding!Withheld.masked = {"whole"}
  BY DEF Withholding!Withheld
<1>3. Withholding!Withheld \in [form : Withholding!Forms, names : Names,
                                shaped : SUBSET Withholding!Places, masked : SUBSET Withholding!Places]
  <2>1. "text" \in Withholding!Forms
    BY DEF Withholding!Forms
  <2>2. {} \in SUBSET Withholding!Places /\ {"whole"} \in SUBSET Withholding!Places
    BY DEF Withholding!Places
  <2> QED BY <1>1, <2>1, <2>2 DEF Withholding!Withheld
<1> QED
  BY <1>2, <1>3 DEF Withholding!Values, Withholding!IsMarker, Withholding!Url

LEMMA SanitizedIs ==
  ASSUME NEW v \in Withholding!Values, Withholding!Url(v), ~Withholding!IsMarker(v)
  PROVE  LET s == Withholding!SanitizeURL(v).value
         IN  /\ s \in Withholding!Values
             /\ s.form = "url" /\ s.names = v.names
             /\ s.shaped \subseteq Withholding!Unsearched
             /\ ~Withholding!IsMarker(s)
             /\ Withholding!SanitizeURL(s) = Withholding!Kept(s)
             /\ Withholding!SanitizeURL(v).red <=> s # v
<1> DEFINE s == Withholding!SanitizeURL(v).value
           found == v.shaped \cap Withholding!Searched
<1>1. v \in [form : Withholding!Forms, names : Names,
             shaped : SUBSET Withholding!Places, masked : SUBSET Withholding!Places]
  BY DEF Withholding!Values
<1>2. s = [v EXCEPT !.masked = @ \cup found, !.shaped = @ \ found]
  BY DEF Withholding!SanitizeURL
<1>3. found \subseteq Withholding!Places
  BY <1>1
<1>4. "whole" \notin v.shaped /\ "whole" \notin v.masked
  BY DEF Withholding!Values, Withholding!IsMarker
<1>5. v.shaped \ found \subseteq Withholding!Unsearched
  BY <1>1, <1>4 DEF Withholding!Places, Withholding!Searched, Withholding!Unsearched
<1>6. (v.shaped \ found) \cap Withholding!Searched = {}
  OBVIOUS
<1>7. "whole" \notin found
  BY <1>4
<1>8. Withholding!SanitizeURL(v).red <=> found # {}
  BY DEF Withholding!SanitizeURL
<1>9. v.form = "url"
  BY DEF Withholding!Url
<1> HIDE DEF found
<1>10. s \in [form : Withholding!Forms, names : Names,
              shaped : SUBSET Withholding!Places, masked : SUBSET Withholding!Places]
  BY <1>1, <1>2, <1>3
<1>11. /\ s.form = "url" /\ s.names = v.names
       /\ s.shaped = v.shaped \ found /\ s.masked = v.masked \cup found
  BY <1>1, <1>2, <1>9
<1>12. "whole" \notin s.masked /\ "whole" \notin s.shaped
  BY <1>4, <1>7, <1>11
<1>13. found \subseteq v.shaped
  BY DEF found
<1>14. s \in Withholding!Values
  BY <1>10, <1>11, <1>12 DEF Withholding!Values
<1> HIDE DEF s
<1>15. Withholding!SanitizeURL(s) = Withholding!Kept(s)
  <2> DEFINE none == s.shaped \cap Withholding!Searched
  <2>1. none = {}
    BY <1>6, <1>11
  <2>2. Withholding!SanitizeURL(s)
          = [value |-> [s EXCEPT !.masked = @ \cup none, !.shaped = @ \ none], red |-> none # {}]
    BY DEF Withholding!SanitizeURL
  <2> HIDE DEF none
  <2>3. [s EXCEPT !.masked = @ \cup none, !.shaped = @ \ none] = s
    BY <1>10, <2>1
  <2> QED BY <2>1, <2>2, <2>3 DEF Withholding!Kept
<1>16. Withholding!SanitizeURL(v).red <=> s # v
  <2>1. CASE found = {}
    <3>1. [v EXCEPT !.masked = @ \cup found, !.shaped = @ \ found] = v
      BY <1>1, <2>1
    <3> QED BY <1>2, <1>8, <2>1, <3>1 DEF s
  <2>2. CASE found # {}
    BY <1>8, <1>11, <1>13, <2>2
  <2> QED BY <2>1, <2>2
<1> QED BY <1>5, <1>11, <1>12, <1>14, <1>15, <1>16 DEF Withholding!IsMarker, s

\* In a URL secret-shaped text stands only where no rule looks.
Clean(v) == v.form = "url" => v.shaped \subseteq Withholding!Unsearched

\* What a rule of redactValue leaves it leaves again; what it removes it says;
RedactsWell(key, v, r) ==
  /\ r.value \in Withholding!Values
  /\ r.red <=> r.value # v
  /\ r = Withholding!Kept(v) \/ r = Withholding!Withhold \/ r.value.form = "url"
  /\ v.form = "expression" \/ r.value.form # "expression"
  /\ \/ Withholding!IsMarker(r.value)
     \/ Withholding!MayBeKept(key, r.value) /\ Clean(r.value)
  /\ Withholding!MayBeKept(key, v) => r.value.names = v.names

LEMMA RedactIs ==
  ASSUME NEW key, NEW v \in Withholding!Values
  PROVE  LET r == Withholding!Redact(key, v)
         IN  RedactsWell(key, v, r) /\ Withholding!Redact(key, r.value) = Withholding!Kept(r.value)
<1> DEFINE r == Withholding!Redact(key, v)
<1>1. CASE /\ r = Withholding!Kept(v)
           /\ \/ v.form \in {"arn", "empty"} \/ Withholding!IsMarker(v)
              \/ ~Withholding!Url(v) /\ v.shaped = {} /\ key \notin SecretKeys
  <2>1. r.value = v /\ r.red = FALSE
    BY <1>1 DEF Withholding!Kept
  <2>2. \/ Withholding!IsMarker(v)
        \/ Withholding!MayBeKept(key, v) /\ Clean(v)
    BY <1>1 DEF Withholding!MayBeKept, Withholding!Url, Clean
  <2> QED BY <1>1, <2>1, <2>2 DEF RedactsWell
<1>2. CASE /\ r = Withholding!Withhold
           /\ v.form \notin {"arn", "empty"} /\ ~Withholding!IsMarker(v) /\ ~Withholding!Url(v)
           /\ v.shaped # {} \/ key \in SecretKeys
  <2>1. r.value = Withholding!Withheld /\ r.red = TRUE
    BY <1>2 DEF Withholding!Withhold
  <2>2. Withholding!Withheld # v
    BY <1>2, WithheldIs
  <2>3. ~Withholding!MayBeKept(key, v)
    BY <1>2 DEF Withholding!MayBeKept, Withholding!Url
  <2>4. Withholding!Redact(key, Withholding!Withheld) = Withholding!Kept(Withholding!Withheld)
    BY WithheldIs, RedactCases
  <2> QED BY <1>2, <2>1, <2>2, <2>3, <2>4, WithheldIs DEF RedactsWell
<1>3. CASE /\ r = Withholding!SanitizeURL(v)
           /\ Withholding!Url(v) /\ ~Withholding!IsMarker(v)
  <2> DEFINE s == r.value
  <2>1. /\ s \in Withholding!Values
        /\ s.form = "url" /\ s.names = v.names /\ Clean(s)
        /\ ~Withholding!IsMarker(s)
        /\ Withholding!SanitizeURL(s) = Withholding!Kept(s)
        /\ r.red <=> s # v
    BY <1>3, SanitizedIs DEF Clean
  <2> HIDE DEF s
  <2>2. Withholding!Redact(key, s) = Withholding!Kept(s)
    BY <2>1, RedactCases DEF Withholding!Url
  <2>3. Withholding!MayBeKept(key, s)
    BY <2>1 DEF Withholding!MayBeKept
  <2> QED BY <2>1, <2>2, <2>3 DEF RedactsWell, s
<1> QED BY <1>1, <1>2, <1>3, RedactCases
LEMMA RedactedUnderIs ==
  ASSUME NEW k, NEW v \in Withholding!Values
  PROVE  LET r == Withholding!RedactedUnder(k, v)
         IN  /\ r.value \in Withholding!Values
             /\ r.red <=> r.value # v
             /\ \/ Withholding!IsMarker(r.value)
                \/ k \in MappingKeys /\ r.value.form = "expression"
                \/ Withholding!MayBeKept(k, r.value) /\ Clean(r.value)
             /\ Withholding!MayBeKept(k, v) => r.value.names = v.names
             /\ Withholding!RedactedUnder(k, r.value) = Withholding!Kept(r.value)
<1> DEFINE r == Withholding!RedactedUnder(k, v)
           s == Withholding!Redact(k, v)
<1>1. RedactsWell(k, v, s) /\ Withholding!Redact(k, s.value) = Withholding!Kept(s.value)
  BY RedactIs
<1>2. CASE k \in MappingKeys /\ v.form = "expression"
  <2>1. r = Withholding!Kept(v)
    BY <1>2 DEF Withholding!RedactedUnder, Withholding!RedactMapping
  <2>2. r.value = v /\ r.red = FALSE
    BY <2>1 DEF Withholding!Kept
  <2> QED BY <1>2, <2>1, <2>2
<1>3. CASE ~(k \in MappingKeys /\ v.form = "expression")
  <2>1. r = s
    BY <1>3 DEF Withholding!RedactedUnder, Withholding!RedactMapping
  <2>2. ~(k \in MappingKeys /\ s.value.form = "expression")
    BY <1>1, <1>3 DEF RedactsWell
  <2>3. Withholding!RedactedUnder(k, s.value) = Withholding!Kept(s.value)
    BY <1>1, <2>2 DEF Withholding!RedactedUnder, Withholding!RedactMapping
  <2>4. /\ s.value \in Withholding!Values
        /\ s.red <=> s.value # v
        /\ \/ Withholding!IsMarker(s.value)
           \/ Withholding!MayBeKept(k, s.value) /\ Clean(s.value)
        /\ Withholding!MayBeKept(k, v) => s.value.names = v.names
    BY <1>1 DEF RedactsWell
  <2> QED BY <2>1, <2>3, <2>4
<1> QED BY <1>2, <1>3

\* The key an argument stands under: its own flag, or the bare one before it.
KeyIn(args, i) ==
  CASE args[i].flag # Withholding!NoKey -> args[i].flag
    [] i > 1 /\ args[i].flag = Withholding!NoKey /\ args[i - 1].flag # Withholding!NoKey
            /\ args[i - 1].value = Withholding!NoArg -> args[i - 1].flag
    [] OTHER -> Withholding!NoKey

LEMMA ArgumentIs ==
  ASSUME NEW args \in Seq(Withholding!Arguments), NEW i \in 1 .. Len(args)
  PROVE  args[i].value \in Withholding!Values
<1>1. args[i] \in Withholding!Arguments
  OBVIOUS
<1> QED BY <1>1 DEF Withholding!Arguments

\* After a secret's flag even an empty argument is withheld;
EmptySecret(args, i) ==
  Withholding!AfterSecretFlag(args, i) /\ args[i].value.form = "empty"

\* otherwise the three ways through redactArgs come to one: redactValue under that key.
LEMMA RedactArgIs ==
  ASSUME NEW args \in Seq(Withholding!Arguments), NEW i \in 1 .. Len(args)
  PROVE  Withholding!RedactArg(args, i)
           = IF Withholding!IsBareFlag(args[i]) THEN Withholding!Kept(args[i].value)
             ELSE IF EmptySecret(args, i) THEN Withholding!Withhold
             ELSE Withholding!Redact(KeyIn(args, i), args[i].value)
<1> DEFINE v == args[i].value
           K == KeyIn(args, i)
           flag == args[i].flag
           plain == ~Withholding!IsMarker(v) /\ v.form # "arn" /\ ~Withholding!Url(v)
<1>0. v \in Withholding!Values
  BY ArgumentIs
<1>1. CASE Withholding!IsBareFlag(args[i])
  <2>1. ~Withholding!AfterSecretFlag(args, i)
    BY <1>1 DEF Withholding!IsBareFlag, Withholding!AfterSecretFlag
  <2> QED BY <1>1, <2>1 DEF Withholding!RedactArg
<1>2. CASE ~Withholding!IsBareFlag(args[i]) /\ Withholding!AfterSecretFlag(args, i)
  <2>1. flag = Withholding!NoKey /\ K = args[i - 1].flag /\ K \in SecretKeys
    BY <1>2 DEF KeyIn, Withholding!AfterSecretFlag, Withholding!IsBareFlag
  <2>2. CASE plain
    <3>1. Withholding!RedactArg(args, i) = Withholding!Withhold
      BY <1>2, <2>2 DEF Withholding!RedactArg
    <3>2. v.form # "empty" => Withholding!Redact(K, v) = Withholding!Withhold
      BY <2>1, <2>2 DEF Withholding!Redact
    <3> QED BY <1>2, <3>1, <3>2 DEF EmptySecret
  <2>3. CASE ~plain
    <3>1. Withholding!RedactArg(args, i) = Withholding!Redact(flag, v)
      BY <1>2, <2>3 DEF Withholding!RedactArg
    <3>2. Withholding!Redact(flag, v) = Withholding!Redact(K, v)
      BY <2>3 DEF Withholding!Redact
    <3>3. v.form # "empty"
      BY <1>0, <2>3 DEF Withholding!Values, Withholding!IsMarker, Withholding!Url
    <3> QED BY <1>2, <3>1, <3>2, <3>3 DEF EmptySecret
  <2> QED BY <2>2, <2>3
<1>3. CASE ~Withholding!IsBareFlag(args[i]) /\ ~Withholding!AfterSecretFlag(args, i)
  <2>1. Withholding!RedactArg(args, i) = Withholding!Redact(flag, v)
    BY <1>3 DEF Withholding!RedactArg
  <2>2. CASE flag # Withholding!NoKey
    <3>1. K = flag
      BY <2>2 DEF KeyIn
    <3> QED BY <1>3, <2>1, <3>1 DEF EmptySecret
  <2>3. CASE flag = Withholding!NoKey
    <3>1. K \notin SecretKeys
      BY <1>3, <2>3, SecretKeysAssumption
         DEF KeyIn, Withholding!AfterSecretFlag, Withholding!IsBareFlag
    <3>2. flag \notin SecretKeys
      BY <2>3, SecretKeysAssumption
    <3>3. Withholding!Redact(flag, v) = Withholding!Redact(K, v)
      BY <3>1, <3>2 DEF Withholding!Redact
    <3> QED BY <1>3, <2>1, <3>3 DEF EmptySecret
  <2> QED BY <2>2, <2>3
<1> QED BY <1>1, <1>2, <1>3

\* Every argument, whatever flag it has or follows, is redacted well,
LEMMA ArgRedactsWell ==
  ASSUME NEW args \in Seq(Withholding!Arguments), NEW i \in 1 .. Len(args)
  PROVE  LET r == Withholding!RedactArg(args, i)
             v == args[i].value
         IN  /\ r.value \in Withholding!Values
             /\ r.red <=> r.value # v
             /\ args[i].flag # Withholding!NoKey =>
                  (r.value = Withholding!NoArg <=> v = Withholding!NoArg)
             /\ \/ r.value = Withholding!NoArg \/ Withholding!IsMarker(r.value)
                \/ Withholding!MayBeKept(KeyIn(args, i), r.value) /\ Clean(r.value)
             /\ Withholding!MayBeKept(KeyIn(args, i), v) => r.value.names = v.names
<1> DEFINE r == Withholding!RedactArg(args, i)
           v == args[i].value
           K == KeyIn(args, i)
<1>0. v \in Withholding!Values
  BY ArgumentIs
<1>1. CASE Withholding!IsBareFlag(args[i])
  <2>1. r.value = v /\ r.red = FALSE /\ v = Withholding!NoArg
    BY <1>1, RedactArgIs DEF Withholding!Kept, Withholding!IsBareFlag
  <2> QED BY <1>0, <2>1
<1>2. CASE ~Withholding!IsBareFlag(args[i]) /\ EmptySecret(args, i)
  <2>1. r.value = Withholding!Withheld /\ r.red = TRUE
    BY <1>2, RedactArgIs DEF Withholding!Withhold
  <2>2. v.form = "empty" /\ args[i].flag = Withholding!NoKey
    BY <1>2 DEF EmptySecret, Withholding!AfterSecretFlag
  <2>3. v # Withholding!Withheld /\ v.names = Withholding!Withheld.names
    BY <1>0, <2>2, WithheldIs DEF Withholding!Values, Withholding!Withheld
  <2> HIDE DEF r, v, K
  <2> QED BY <2>1, <2>2, <2>3, WithheldIs DEF r, v, K
<1>3. CASE ~Withholding!IsBareFlag(args[i]) /\ ~EmptySecret(args, i)
  <2>1. r = Withholding!Redact(K, v)
    BY <1>3, RedactArgIs
  <2>2. RedactsWell(K, v, r)
    BY <1>0, <2>1, RedactIs
  <2>3. args[i].flag # Withholding!NoKey => v # Withholding!NoArg /\ r.value # Withholding!NoArg
    <3>1. r.value = v \/ r.value = Withholding!Withheld \/ r.value.form = "url"
      BY <2>2 DEF RedactsWell, Withholding!Kept, Withholding!Withhold
    <3>2. Withholding!NoArg.form = "none"
      BY DEF Withholding!NoArg
    <3> QED BY <1>3, <3>1, <3>2, WithheldIs DEF Withholding!IsBareFlag
  <2> HIDE DEF r, v, K
  <2> QED BY <2>2, <2>3 DEF RedactsWell, r, v, K
<1> QED BY <1>1, <1>2, <1>3

\* and stands under the same key as before, where it is left as it is.
LEMMA ArgsSettle ==
  ASSUME NEW args \in Seq(Withholding!Arguments), NEW outs \in Seq(Withholding!Arguments),
         Len(outs) = Len(args),
         \A j \in 1 .. Len(args) :
           outs[j].flag = args[j].flag /\ outs[j].value = Withholding!RedactArg(args, j).value,
         NEW i \in 1 .. Len(args)
  PROVE  /\ KeyIn(outs, i) = KeyIn(args, i)
         /\ Withholding!RedactArg(outs, i) = Withholding!Kept(outs[i].value)
<1>1. \A j \in 1 .. Len(args) :
        args[j].flag # Withholding!NoKey =>
          (outs[j].value = Withholding!NoArg <=> args[j].value = Withholding!NoArg)
  BY ArgRedactsWell
<1>2. KeyIn(outs, i) = KeyIn(args, i)
  <2>1. i > 1 => i - 1 \in 1 .. Len(args)
    OBVIOUS
  <2> QED BY <1>1, <2>1 DEF KeyIn
<1>3. Withholding!IsBareFlag(outs[i]) <=> Withholding!IsBareFlag(args[i])
  BY <1>1 DEF Withholding!IsBareFlag
<1>4. i \in 1 .. Len(outs)
  OBVIOUS
<1> DEFINE K == KeyIn(args, i)
           v == args[i].value
<1>5. v \in Withholding!Values
  BY ArgumentIs
<1>6. Withholding!AfterSecretFlag(outs, i) <=> Withholding!AfterSecretFlag(args, i)
  <2>1. i > 1 => i - 1 \in 1 .. Len(args)
    OBVIOUS
  <2> QED BY <1>1, <2>1 DEF Withholding!AfterSecretFlag, Withholding!IsBareFlag
<1>7. CASE Withholding!IsBareFlag(args[i])
  BY <1>2, <1>3, <1>4, <1>7, RedactArgIs
<1>8. CASE ~Withholding!IsBareFlag(args[i]) /\ EmptySecret(args, i)
  <2>1. outs[i].value = Withholding!Withheld
    BY <1>8, RedactArgIs DEF Withholding!Withhold
  <2>2. ~EmptySecret(outs, i)
    BY <2>1, WithheldIs DEF EmptySecret
  <2>3. Withholding!RedactArg(outs, i) = Withholding!Redact(K, outs[i].value)
    BY <1>2, <1>3, <1>4, <1>8, <2>2, RedactArgIs
  <2> HIDE DEF K, v
  <2> QED BY <1>2, <2>1, <2>3, WithheldIs, RedactCases DEF K
<1>9. CASE ~Withholding!IsBareFlag(args[i]) /\ ~EmptySecret(args, i)
  <2>1. outs[i].value = Withholding!Redact(K, v).value
    BY <1>9, RedactArgIs
  <2>2. ~EmptySecret(outs, i)
    <3>1. CASE Withholding!AfterSecretFlag(args, i)
      <4>1. v.form # "empty"
        BY <1>9, <3>1 DEF EmptySecret
      <4>2. \/ Withholding!Redact(K, v) = Withholding!Kept(v)
            \/ Withholding!Redact(K, v) = Withholding!Withhold
            \/ Withholding!Redact(K, v).value.form = "url"
        BY <1>5, RedactIs DEF RedactsWell
      <4>3. \/ outs[i].value = v \/ outs[i].value = Withholding!Withheld
            \/ outs[i].value.form = "url"
        BY <2>1, <4>2 DEF Withholding!Kept, Withholding!Withhold
      <4> HIDE DEF v
      <4> QED BY <4>1, <4>3, WithheldIs DEF EmptySecret
    <3>2. CASE ~Withholding!AfterSecretFlag(args, i)
      BY <1>6, <3>2 DEF EmptySecret
    <3> QED BY <3>1, <3>2
  <2>3. Withholding!RedactArg(outs, i) = Withholding!Redact(K, outs[i].value)
    BY <1>2, <1>3, <1>4, <1>9, <2>2, RedactArgIs
  <2> HIDE DEF K, v
  <2> QED BY <1>2, <1>5, <2>1, <2>3, RedactIs DEF K
<1> QED BY <1>2, <1>7, <1>8, <1>9
LEMMA RedactingBegins == Withholding!Init => Redacting
<1> SUFFICES ASSUME Withholding!Init PROVE Redacting
  OBVIOUS
<1>1. Shapes
  BY ContainerAssumption DEF Withholding!Init, Shapes
<1>2. Keyed
  BY DEF Withholding!Init, Keyed
<1>3. Argued
  BY <1>1 DEF Withholding!Init, Argued, Shapes
<1>4. Settled
  BY DEF Withholding!Init, Settled
<1> QED BY <1>1, <1>2, <1>3, <1>4 DEF Redacting

LEMMA RedactKeyKeeps ==
  ASSUME Redacting, NEW k \in Withholding!Keys, Withholding!RedactKey(k)
  PROVE  Redacting'
<1> DEFINE r == Withholding!RedactedUnder(k, out[k])
<1>0. Shapes /\ Keyed /\ Argued /\ Settled
  BY DEF Redacting
<1>1. /\ k \in left /\ left' = left \ {k}
      /\ out' = [out EXCEPT ![k] = r.value]
      /\ hits' = IF r.red THEN hits \cup {k} ELSE hits
      /\ UNCHANGED <<scan, given, givenArgs, outArgs, next, hitArgs>>
  BY DEF Withholding!RedactKey, Withholding!ofArgs
<1>2. out[k] = given[k] /\ given[k] \in Withholding!Values /\ r.value \in Withholding!Values
  <2>1. out[k] = given[k] /\ given[k] \in Withholding!Values
    BY <1>0, <1>1 DEF Shapes, Keyed
  <2> QED BY <2>1, RedactedUnderIs
<1> HIDE DEF r
<1>3. Shapes'
  BY <1>0, <1>1, <1>2 DEF Shapes
<1>4. Keyed'
  <2>1. r = Withholding!RedactedUnder(k, given[k])
    BY <1>2 DEF r
  <2>2. \A o \in Withholding!Keys :
          out'[o] = IF o \in left' THEN given[o] ELSE Withholding!RedactedUnder(o, given[o]).value
    BY <1>0, <1>1, <2>1 DEF Keyed, Shapes
  <2>3. hits' = {o \in Withholding!Keys \ left' : Withholding!RedactedUnder(o, given[o]).red}
    BY <1>0, <1>1, <2>1 DEF Keyed, Shapes
  <2> QED BY <1>1, <2>2, <2>3 DEF Keyed
<1>5. Argued'
  BY <1>0, <1>1 DEF Argued
<1>6. Settled'
  BY <1>0, <1>1 DEF Settled
<1> QED BY <1>3, <1>4, <1>5, <1>6 DEF Redacting

LEMMA RedactNextArgKeeps ==
  ASSUME Redacting, Withholding!RedactNextArg
  PROVE  Redacting'
<1> DEFINE r == Withholding!RedactArg(givenArgs, next)
<1>0. Shapes /\ Keyed /\ Argued /\ Settled
  BY DEF Redacting
<1>1. /\ next <= Len(givenArgs) /\ next' = next + 1
      /\ outArgs' = [outArgs EXCEPT ![next].value = r.value]
      /\ hitArgs' = IF r.red THEN hitArgs \cup {next} ELSE hitArgs
      /\ UNCHANGED <<scan, given, givenArgs, out, left, hits>>
  BY DEF Withholding!RedactNextArg
<1>2. next \in 1 .. Len(givenArgs)
  BY <1>0, <1>1 DEF Shapes
<1>3. r.value \in Withholding!Values
  BY <1>0, <1>2, ArgRedactsWell DEF Shapes
<1>4. /\ outArgs' \in Seq(Withholding!Arguments) /\ Len(outArgs') = Len(outArgs)
      /\ \A i \in 1 .. Len(outArgs) :
           outArgs'[i] = IF i = next THEN [outArgs[i] EXCEPT !.value = r.value] ELSE outArgs[i]
  <2>1. /\ outArgs \in Seq(Withholding!Arguments) /\ next \in 1 .. Len(outArgs)
        /\ outArgs[next] \in Withholding!Arguments
    BY <1>0, <1>2 DEF Shapes
  <2>2. [outArgs[next] EXCEPT !.value = r.value] \in Withholding!Arguments
    BY <1>3, <2>1 DEF Withholding!Arguments
  <2>3. outArgs' = [outArgs EXCEPT ![next] = [outArgs[next] EXCEPT !.value = r.value]]
    BY <1>1
  <2> DEFINE a == [outArgs[next] EXCEPT !.value = r.value]
  <2> HIDE DEF a
  <2> QED BY <2>1, <2>2, <2>3 DEF a
<1> HIDE DEF r
<1>5. Shapes'
  BY <1>0, <1>1, <1>2, <1>4 DEF Shapes
<1>6. Keyed'
  BY <1>0, <1>1 DEF Keyed
<1>7. Argued'
  <2>1. \A i \in 1 .. Len(givenArgs) :
          /\ outArgs'[i].flag = givenArgs[i].flag
          /\ outArgs'[i].value = IF i < next + 1 THEN Withholding!RedactArg(givenArgs, i).value
                                                 ELSE givenArgs[i].value
    <3> SUFFICES ASSUME NEW i \in 1 .. Len(givenArgs)
                 PROVE  /\ outArgs'[i].flag = givenArgs[i].flag
                        /\ outArgs'[i].value =
                             IF i < next + 1 THEN Withholding!RedactArg(givenArgs, i).value
                                             ELSE givenArgs[i].value
      OBVIOUS
    <3>1. i \in 1 .. Len(outArgs) /\ outArgs[i] \in Withholding!Arguments
      BY <1>0 DEF Shapes
    <3>2. CASE i = next
      <4>1. outArgs'[i].flag = outArgs[i].flag /\ outArgs'[i].value = r.value
        <5>1. outArgs'[i] = [outArgs[i] EXCEPT !.value = r.value]
          BY <1>4, <3>1, <3>2
        <5>2. outArgs[i] \in [flag : STRING, value : Withholding!Values]
          BY <3>1 DEF Withholding!Arguments
        <5> QED BY <5>1, <5>2
      <4>2. r.value = Withholding!RedactArg(givenArgs, i).value
        BY <3>2 DEF r
      <4>3. outArgs[i].flag = givenArgs[i].flag
        BY <1>0 DEF Argued
      <4>4. i < next + 1
        BY <1>2, <3>2
      <4> QED BY <4>1, <4>2, <4>3, <4>4
    <3>3. CASE i # next
      <4>1. outArgs'[i] = outArgs[i] /\ (i < next + 1 <=> i < next)
        <5>1. outArgs'[i] = outArgs[i]
          BY <1>4, <3>1, <3>3
        <5>2. i < next + 1 <=> i < next
          BY <1>2, <3>3
        <5> QED BY <5>1, <5>2
      <4>2. /\ outArgs[i].flag = givenArgs[i].flag
            /\ outArgs[i].value = IF i < next THEN Withholding!RedactArg(givenArgs, i).value
                                              ELSE givenArgs[i].value
        BY <1>0 DEF Argued
      <4> QED BY <4>1, <4>2
    <3> QED BY <3>2, <3>3
  <2>2. hitArgs' = {i \in 1 .. next : Withholding!RedactArg(givenArgs, i).red}
    <3>1. 1 .. next = (1 .. next - 1) \cup {next}
      BY <1>2
    <3> QED BY <1>0, <1>1, <3>1 DEF Argued, r
  <2>3. next' - 1 = next
    BY <1>1, <1>2
  <2> QED BY <1>1, <2>1, <2>2, <2>3 DEF Argued
<1>8. Settled'
  BY <1>0, <1>1 DEF Settled
<1> QED BY <1>5, <1>6, <1>7, <1>8 DEF Redacting

LEMMA RescanKeeps ==
  ASSUME Redacting, Withholding!Rescan
  PROVE  Redacting'
<1>0. Shapes /\ Keyed /\ Argued /\ Settled
  BY DEF Redacting
<1>1. /\ left = {} /\ next > Len(givenArgs) /\ scan' = 2
      /\ given' = out /\ givenArgs' = outArgs
      /\ left' = Withholding!Keys /\ next' = 1 /\ hits' = {} /\ hitArgs' = {}
      /\ out' = out /\ outArgs' = outArgs
  BY DEF Withholding!Rescan, Withholding!Recorded
<1>2. \A i \in 1 .. Len(givenArgs) :
        /\ outArgs[i].flag = givenArgs[i].flag
        /\ outArgs[i].value = Withholding!RedactArg(givenArgs, i).value
  BY <1>0, <1>1 DEF Argued, Shapes
<1>3. Shapes'
  BY <1>0, <1>1 DEF Shapes
<1>4. Keyed'
  BY <1>1 DEF Keyed
<1>5. Argued'
  BY <1>1 DEF Argued
<1>6. Settled'
  <2>1. ASSUME NEW k \in Withholding!Keys
        PROVE  Withholding!RedactedUnder(k, out[k]) = Withholding!Kept(out[k])
    <3>1. out[k] = Withholding!RedactedUnder(k, given[k]).value
      BY <1>0, <1>1 DEF Keyed
    <3>2. given[k] \in Withholding!Values
      BY <1>0 DEF Shapes
    <3> QED BY <3>1, <3>2, RedactedUnderIs
  <2>2. ASSUME NEW i \in 1 .. Len(givenArgs)
        PROVE  Withholding!RedactArg(outArgs, i) = Withholding!Kept(outArgs[i].value)
    BY <1>0, <1>2, ArgsSettle DEF Shapes
  <2> QED BY <1>0, <1>1, <2>1, <2>2 DEF Settled, Shapes
<1> QED BY <1>3, <1>4, <1>5, <1>6 DEF Redacting

LEMMA RedactingGoesOn ==
  ASSUME Redacting, Withholding!Next
  PROVE  Redacting'
<1>1. CASE Withholding!Done
  BY <1>1 DEF Withholding!Done, Withholding!vars, Redacting, Shapes, Keyed, Argued, Settled
<1> QED BY <1>1, RedactKeyKeeps, RedactNextArgKeeps, RescanKeeps DEF Withholding!Next
\* What the invariant says of the end of a scan.
LEMMA Conclusions ==
  ASSUME Redacting
  PROVE  /\ Withholding!TypeOK /\ Withholding!ListedIsWithheld /\ Withholding!SecondScanFindsNothing
         /\ Withholding!NoSecretIsRecorded /\ Withholding!SignalIsKept
<1>0. Shapes /\ Keyed /\ Argued /\ Settled
  BY DEF Redacting
<1>1. ASSUME NEW i \in 1 .. Len(givenArgs)
      PROVE  /\ i \in 1 .. Len(outArgs)
             /\ givenArgs[i] \in Withholding!Arguments /\ outArgs[i] \in Withholding!Arguments
             /\ outArgs[i] = givenArgs[i] <=> outArgs[i].value = givenArgs[i].value
  <2>1. /\ i \in 1 .. Len(outArgs)
        /\ givenArgs[i] \in Withholding!Arguments /\ outArgs[i] \in Withholding!Arguments
    BY <1>0 DEF Shapes
  <2>2. outArgs[i].flag = givenArgs[i].flag
    BY <1>0 DEF Argued
  <2> QED BY <2>1, <2>2 DEF Withholding!Arguments
<1>2. DOMAIN outArgs = 1 .. Len(givenArgs) /\ DOMAIN givenArgs = 1 .. Len(givenArgs)
  BY <1>0 DEF Shapes
<1>3. Withholding!TypeOK
  <2>1. hitArgs \subseteq 1 .. next - 1 /\ hits \subseteq Withholding!Keys \ left
    BY <1>0 DEF Argued, Keyed
  <2> QED BY <1>0, <1>2, <2>1 DEF Shapes, Argued, Withholding!TypeOK
<1>4. Withholding!ListedIsWithheld
  <2>1. ASSUME NEW k \in Withholding!Keys, k \notin left
        PROVE  Withholding!RedactedUnder(k, given[k]).red <=> out[k] # given[k]
    <3>1. given[k] \in Withholding!Values
      BY <1>0 DEF Shapes
    <3>2. out[k] = Withholding!RedactedUnder(k, given[k]).value
      BY <1>0, <2>1 DEF Keyed
    <3> QED BY <3>1, <3>2, RedactedUnderIs
  <2>2. hits = {k \in Withholding!Keys \ left : out[k] # given[k]}
    BY <1>0, <2>1 DEF Keyed
  <2>3. ASSUME NEW i \in 1 .. next - 1
        PROVE  Withholding!RedactArg(givenArgs, i).red <=> outArgs[i] # givenArgs[i]
    <3>1. i \in 1 .. Len(givenArgs) /\ i < next
      BY <1>0 DEF Shapes
    <3>2. outArgs[i].value = Withholding!RedactArg(givenArgs, i).value
      BY <1>0, <3>1 DEF Argued
    <3>3. Withholding!RedactArg(givenArgs, i).red
            <=> Withholding!RedactArg(givenArgs, i).value # givenArgs[i].value
      BY <1>0, <3>1, ArgRedactsWell DEF Shapes
    <3> QED BY <1>1, <3>1, <3>2, <3>3
  <2>4. hitArgs = {i \in 1 .. next - 1 : outArgs[i] # givenArgs[i]}
    BY <1>0, <2>3 DEF Argued
  <2> QED BY <2>2, <2>4 DEF Withholding!ListedIsWithheld
<1>5. Withholding!SecondScanFindsNothing
  <2> SUFFICES ASSUME scan = 2
               PROVE  hits = {} /\ hitArgs = {} /\ out = given /\ outArgs = givenArgs
    BY DEF Withholding!SecondScanFindsNothing
  <2>1. ASSUME NEW k \in Withholding!Keys PROVE out[k] = given[k]
    <3>1. Withholding!RedactedUnder(k, given[k]).value = given[k]
      <4>1. Withholding!RedactedUnder(k, given[k]) = Withholding!Kept(given[k])
        BY <1>0 DEF Settled
      <4>2. Withholding!Kept(given[k]).value = given[k]
        BY DEF Withholding!Kept
      <4> QED BY <4>1, <4>2
    <3>2. out[k] = given[k] \/ out[k] = Withholding!RedactedUnder(k, given[k]).value
      BY <1>0 DEF Keyed
    <3> QED BY <3>1, <3>2
  <2>2. ASSUME NEW i \in 1 .. Len(givenArgs) PROVE outArgs[i].value = givenArgs[i].value
    <3>1. Withholding!RedactArg(givenArgs, i).value = givenArgs[i].value
      BY <1>0 DEF Settled, Withholding!Kept
    <3> QED BY <1>0, <3>1 DEF Argued
  <2>3. \A i \in 1 .. Len(givenArgs) : outArgs[i] = givenArgs[i]
    BY <1>1, <2>2
  <2>4. out = given
    BY <1>0, <2>1 DEF Shapes
  <2>5. outArgs = givenArgs
    BY <1>0, <2>3 DEF Shapes
  <2> QED BY <1>4, <2>4, <2>5 DEF Withholding!ListedIsWithheld
<1>6. ASSUME Withholding!Recorded
      PROVE  /\ \A k \in Withholding!Keys :
                  /\ given[k] \in Withholding!Values
                  /\ out[k] = Withholding!RedactedUnder(k, given[k]).value
             /\ \A i \in 1 .. Len(givenArgs) :
                  /\ outArgs[i].value = Withholding!RedactArg(givenArgs, i).value
                  /\ Withholding!KeyOf(i) = KeyIn(givenArgs, i)
  <2>1. left = {} /\ next > Len(givenArgs)
    BY <1>6 DEF Withholding!Recorded
  <2>2. \A i \in 1 .. Len(givenArgs) :
          /\ outArgs[i].flag = givenArgs[i].flag
          /\ outArgs[i].value = Withholding!RedactArg(givenArgs, i).value
    BY <1>0, <2>1 DEF Argued, Shapes
  <2>3. \A i \in 1 .. Len(givenArgs) : KeyIn(outArgs, i) = KeyIn(givenArgs, i)
    BY <1>0, <2>2, ArgsSettle DEF Shapes
  <2>4. \A i \in 1 .. Len(givenArgs) : Withholding!KeyOf(i) = KeyIn(outArgs, i)
    BY DEF Withholding!KeyOf, KeyIn
  <2>5. \A k \in Withholding!Keys :
          /\ given[k] \in Withholding!Values
          /\ out[k] = Withholding!RedactedUnder(k, given[k]).value
    BY <1>0, <2>1 DEF Keyed, Shapes
  <2> QED BY <2>2, <2>3, <2>4, <2>5
<1>7. Withholding!NoSecretIsRecorded
  <2> SUFFICES ASSUME Withholding!Recorded PROVE Withholding!NoSecretIsRecorded
    BY DEF Withholding!NoSecretIsRecorded
  <2>1. ASSUME NEW k \in Withholding!Keys
        PROVE  \/ Withholding!IsMarker(out[k]) \/ (k \in MappingKeys /\ out[k].form = "expression")
               \/ Withholding!MayBeKept(k, out[k]) /\ Clean(out[k])
    BY <1>6, RedactedUnderIs
  <2>2. ASSUME NEW i \in 1 .. Len(givenArgs), outArgs[i].value # Withholding!NoArg
        PROVE  \/ Withholding!IsMarker(outArgs[i].value)
               \/ Withholding!MayBeKept(Withholding!KeyOf(i), outArgs[i].value)
                    /\ Clean(outArgs[i].value)
    <3>1. /\ outArgs[i].value = Withholding!RedactArg(givenArgs, i).value
          /\ Withholding!KeyOf(i) = KeyIn(givenArgs, i)
      BY <1>6
    <3> QED BY <1>0, <2>2, <3>1, ArgRedactsWell DEF Shapes
  <2> QED BY <1>2, <2>1, <2>2 DEF Withholding!NoSecretIsRecorded, Clean
<1>8. Withholding!SignalIsKept
  <2> SUFFICES ASSUME Withholding!Recorded PROVE Withholding!SignalIsKept
    BY DEF Withholding!SignalIsKept
  <2>1. ASSUME NEW k \in Withholding!Keys
        PROVE  Withholding!StillNames(k, given[k], out[k])
    BY <1>6, RedactedUnderIs DEF Withholding!StillNames
  <2>2. ASSUME NEW i \in 1 .. Len(givenArgs)
        PROVE  Withholding!StillNames(Withholding!KeyOf(i), givenArgs[i].value, outArgs[i].value)
    <3>1. /\ outArgs[i].value = Withholding!RedactArg(givenArgs, i).value
          /\ Withholding!KeyOf(i) = KeyIn(givenArgs, i)
      BY <1>6
    <3> QED BY <1>0, <3>1, ArgRedactsWell DEF Shapes, Withholding!StillNames
  <2> QED BY <1>2, <2>1, <2>2 DEF Withholding!SignalIsKept
<1> QED BY <1>3, <1>4, <1>5, <1>7, <1>8
----------------------------------------------------------------------------
(* The configuration rules.  What is known of the graph is what scan finds *)
(* in the positions of the holders dealt with, and what scan finds there   *)
(* is judged against the value as it was in AWS.                           *)

\* What redaction makes of a value the linker reads: nothing, a marker, or the
\* same URL with some places masked.
LEMMA CollectedIs ==
  ASSUME raw \in Configurations, NEW p \in Reading!AllPositions
  PROVE  LET v == raw[p]
             c == Reading!Collected(p)
         IN  /\ v \in Reading!Values
             /\ \/ c = v
                \/ /\ c.form = "text" /\ Reading!IsMarker(c)
                   /\ v.form # "arn" /\ ~Reading!Url(v)
                   /\ v.form = "host" => KeyAt[p] \in SecretKeys
                \/ /\ Reading!Url(v) /\ Reading!Url(c) /\ c.names = v.names
                   /\ ~Reading!IsMarker(c) /\ c.masked \subseteq v.shaped
<1> DEFINE v == raw[p]
           c == Reading!Collected(p)
           open == v.form \notin {"arn", "empty"} /\ ~Reading!IsMarker(v)
           must == v.shaped # {} \/ KeyAt[p] \in SecretKeys
<1>1. v \in Reading!Values
  BY ConfigurationsAssumption
<1>2. CASE p \in InSecrets
  BY <1>1, <1>2 DEF Reading!Collected
<1>3. CASE p \notin InSecrets
  <2>1. c = Reading!Redact(KeyAt[p], v).value
    BY <1>3 DEF Reading!Collected
  <2>2. CASE ~open \/ (~Reading!Url(v) /\ ~must)
    <3>1. Reading!Redact(KeyAt[p], v) = Reading!Kept(v)
      BY <2>2 DEF Reading!Redact
    <3>2. Reading!Kept(v).value = v
      BY DEF Reading!Kept
    <3> QED BY <1>1, <2>1, <3>1, <3>2
  <2>3. CASE open /\ ~Reading!Url(v) /\ must
    <3>1. Reading!Redact(KeyAt[p], v) = Reading!Withhold
      BY <2>3 DEF Reading!Redact
    <3>2. c = Reading!Withheld
      BY <2>1, <3>1 DEF Reading!Withhold
    <3>3. c.form = "text" /\ Reading!IsMarker(c)
      BY <3>2 DEF Reading!Withheld, Reading!IsMarker
    <3>4. v.form = "host" => KeyAt[p] \in SecretKeys
      BY <2>3, ConfigurationsAssumption
    <3> QED BY <1>1, <2>3, <3>3, <3>4
  <2>4. CASE open /\ Reading!Url(v)
    <3>1. Reading!Redact(KeyAt[p], v) = Reading!SanitizeURL(v)
      BY <2>4 DEF Reading!Redact
    <3> DEFINE found == v.shaped \cap Reading!Searched
    <3>2. c = [v EXCEPT !.masked = @ \cup found, !.shaped = @ \ found]
      BY <2>1, <3>1 DEF Reading!SanitizeURL
    <3>3. v \in [form : Reading!Forms, names : Names,
                 shaped : SUBSET Reading!Places, masked : SUBSET Reading!Places]
      BY <1>1 DEF Reading!Values
    <3>4. v.masked = {}
      BY <2>4, ConfigurationsAssumption
    <3>5. found \subseteq v.shaped
      OBVIOUS
    <3> HIDE DEF found
    <3>6. c.form = v.form /\ c.names = v.names /\ c.masked = found
      BY <3>2, <3>3, <3>4
    <3>7. "whole" \notin v.shaped
      BY <1>1, <2>4 DEF Reading!Values
    <3> QED BY <1>1, <2>4, <3>5, <3>6, <3>7 DEF Reading!Url, Reading!IsMarker
  <2> QED BY <2>2, <2>3, <2>4
<1> QED BY <1>2, <1>3

\* An edge to what a name outright stands for, here;
Outright(h, name, p, e) ==
  /\ e.from = h /\ e.at = p /\ e.kind \in {"references", "connect", "http"} /\ e.conf = "high"
  /\ e.to \in Reading!Known \ {h}
  /\ About[name].here /\ About[name].id = e.to

Leads(h, name, p, r) ==
  /\ \A e \in r.edges : Outright(h, name, p, e)
  /\ \A f \in r.findings : f.on = h

\* a reference that comes to something; and one that comes to its node.
Answered(h, name, p, r) ==
  \/ \E x \in r.edges \cup r.findings : x.at = p
  \/ About[name].here /\ About[name].id = h
Linked(h, name, p, r) ==
  About[name].here /\ About[name].id \in Reading!Known \ {h} =>
    \E e \in r.edges : e.at = p /\ e.to = About[name].id /\ e.conf = "high"
Resolved(h, name, p, r) == Leads(h, name, p, r) /\ Answered(h, name, p, r) /\ Linked(h, name, p, r)

LEMMA FindingIs ==
  ASSUME NEW h, NEW about, NEW p, NEW name
  PROVE  LET r == Reading!Finding(h, about, p)
         IN  Leads(h, name, p, r) /\ Answered(h, name, p, r) /\ r.edges = {}
<1> DEFINE f == [on |-> h, about |-> about, at |-> p]
           r == Reading!Finding(h, about, p)
<1>1. r.edges = {} /\ r.findings = {f}
  BY DEF Reading!Finding
<1>2. f.on = h /\ f.at = p
  OBVIOUS
<1> HIDE DEF f, r
<1> QED BY <1>1, <1>2 DEF Leads, Answered, r

LEMMA DrawIs ==
  ASSUME NEW h, NEW name, NEW kind \in {"references", "connect", "http"}, NEW p,
         About[name].here
  PROVE  Resolved(h, name, p, Reading!Draw(h, About[name].id, kind, "high", p))
<1> DEFINE to == About[name].id
           r == Reading!Draw(h, to, kind, "high", p)
           e == [from |-> h, to |-> to, kind |-> kind, conf |-> "high", at |-> p]
<1>1. CASE to = h
  <2>1. r.edges = {} /\ r.findings = {}
    BY <1>1 DEF Reading!Draw, Reading!Nothing
  <2> HIDE DEF r
  <2> QED BY <1>1, <2>1 DEF Resolved, Leads, Answered, Linked, r
<1>2. CASE to # h /\ to \in Reading!Known
  <2>1. r.edges = {e} /\ r.findings = {}
    BY <1>2 DEF Reading!Draw
  <2>2. e.from = h /\ e.to = to /\ e.kind = kind /\ e.conf = "high" /\ e.at = p
    OBVIOUS
  <2> HIDE DEF r, e
  <2> QED BY <1>2, <2>1, <2>2 DEF Resolved, Leads, Answered, Linked, Outright, r
<1>3. CASE to # h /\ to \notin Reading!Known
  <2>1. r = Reading!Finding(h, to, p)
    BY <1>3 DEF Reading!Draw
  <2>2. Leads(h, name, p, r) /\ Answered(h, name, p, r)
    BY <2>1, FindingIs
  <2> HIDE DEF r
  <2> QED BY <1>3, <2>2 DEF Resolved, Linked, r
<1> QED BY <1>1, <1>2, <1>3

LEMMA ResolvedByFinding ==
  ASSUME NEW h, NEW about, NEW p, NEW name,
         ~(About[name].here /\ About[name].id \in Reading!Known)
  PROVE  Resolved(h, name, p, Reading!Finding(h, about, p))
BY FindingIs DEF Resolved, Linked

LEMMA LocalIs ==
  ASSUME NEW h, NEW name, NEW p
  PROVE  Resolved(h, name, p, Reading!Local(h, name, p))
<1>1. CASE About[name].here /\ About[name].id # Reading!NoName
  BY <1>1, DrawIs DEF Reading!Local
<1>2. CASE ~(About[name].here /\ About[name].id # Reading!NoName)
  BY <1>2, GraphAssumption, ResolvedByFinding DEF Reading!Local
<1> QED BY <1>1, <1>2

LEMMA ExactlyIs ==
  ASSUME NEW h, NEW name, NEW kind \in {"references", "connect", "http"}, NEW p
  PROVE  Resolved(h, name, p, Reading!Exactly(h, name, kind, p))
<1>1. CASE About[name].here /\ About[name].id \in Reading!Known
  BY <1>1, DrawIs DEF Reading!Exactly
<1>2. CASE ~(About[name].here /\ About[name].id \in Reading!Known)
  BY <1>2, ResolvedByFinding DEF Reading!Exactly
<1> QED BY <1>1, <1>2

LEMMA ArnIs ==
  ASSUME NEW h, NEW name, NEW p
  PROVE  Resolved(h, name, p, Reading!Arn(h, name, p))
<1> DEFINE managed == About[name].kind = "secret" /\ About[name].here /\ About[name].id \in Nodes
<1>1. CASE managed
  BY <1>1, DrawIs DEF Reading!Arn
<1>2. CASE ~managed
  BY <1>2, LocalIs DEF Reading!Arn
<1> QED BY <1>1, <1>2
LEMMA NothingIs ==
  ASSUME NEW h, NEW name, NEW p
  PROVE  Leads(h, name, p, Reading!Nothing)
BY DEF Leads, Reading!Nothing

LEMMA AwsHostIs ==
  ASSUME NEW h, NEW v, NEW p
  PROVE  LET kind == About[v.names].kind
             r == Reading!AwsHost(h, v, p)
         IN  /\ Leads(h, v.names, p, r)
             /\ kind \in Reading!Endpoints => Resolved(h, v.names, p, r)
             /\ kind = "queue" /\ Reading!Url(v) =>
                  /\ Answered(h, v.names, p, r)
                  /\ "path" \notin v.masked => Linked(h, v.names, p, r)
             /\ kind = "lambdaUrl" \/ (kind = "aws" /\ Reading!Url(v)) => Answered(h, v.names, p, r)
<1> DEFINE kind == About[v.names].kind
           r == Reading!AwsHost(h, v, p)
<1>1. CASE kind \in {"rds", "cache", "nlb"}
  <2>1. r = Reading!Exactly(h, v.names, "connect", p)
    BY <1>1 DEF Reading!AwsHost
  <2> QED BY <1>1, <2>1, ExactlyIs DEF Resolved
<1>2. CASE kind \in {"elb", "api"}
  <2>1. r = Reading!Exactly(h, v.names, "http", p)
    BY <1>2 DEF Reading!AwsHost
  <2> QED BY <1>2, <2>1, ExactlyIs DEF Resolved
<1>3. CASE kind = "queue" /\ Reading!Url(v) /\ ~Reading!QueueWithheld(v)
  <2>1. r = Reading!Local(h, v.names, p)
    BY <1>3 DEF Reading!AwsHost
  <2> QED BY <1>3, <2>1, LocalIs DEF Resolved, Reading!Endpoints
<1>4. CASE kind = "queue" /\ Reading!Url(v) /\ Reading!QueueWithheld(v)
  <2>1. r = Reading!Finding(h, "REDACTED", p)
    BY <1>4 DEF Reading!AwsHost
  <2>2. "path" \in v.masked
    BY <1>4 DEF Reading!QueueWithheld
  <2> QED BY <1>4, <2>1, <2>2, FindingIs DEF Reading!Endpoints
<1>5. CASE kind = "lambdaUrl" \/ (kind = "aws" /\ Reading!Url(v))
  <2>1. r = Reading!Finding(h, v.names, p)
    BY <1>5 DEF Reading!AwsHost
  <2> QED BY <1>5, <2>1, FindingIs DEF Reading!Endpoints
<1>6. CASE /\ kind \notin {"rds", "cache", "nlb", "elb", "api", "lambdaUrl"}
           /\ ~(kind \in {"queue", "aws"} /\ Reading!Url(v))
  <2>1. r = Reading!Nothing
    BY <1>6 DEF Reading!AwsHost
  <2> QED BY <1>6, <2>1, NothingIs DEF Reading!Endpoints
<1> QED BY <1>1, <1>2, <1>3, <1>4, <1>5, <1>6

\* Outside AWS: a node of its own, or a finding, or part of the workload.
Outside(h, v, p, e) ==
  e.from = h /\ e.at = p /\ e.kind = "external" /\ e.conf = "high" /\ e.to = v.names

LEMMA HostIs ==
  ASSUME NEW h, NEW v, NEW p, Reading!Url(v),
         About[v.names].kind \in Reading!Endpoints \cup Reading!Unowned \cup Reading!Unmodelled \cup {"queue"}
  PROVE  LET kind == About[v.names].kind
             r == Reading!Host(h, v, p)
         IN  /\ \A e \in r.edges : Outright(h, v.names, p, e) \/ Outside(h, v, p, e)
             /\ \A f \in r.findings : f.on = h
             /\ kind \notin Reading!Internal => Answered(h, v.names, p, r)
             /\ kind \in Reading!Endpoints => Linked(h, v.names, p, r)
             /\ kind = "queue" /\ "path" \notin v.masked => Linked(h, v.names, p, r)
<1> DEFINE kind == About[v.names].kind
           r == Reading!Host(h, v, p)
           e == [from |-> h, to |-> v.names, kind |-> "external", conf |-> "high", at |-> p]
<1> USE DEF Reading!Endpoints, Reading!Unowned, Reading!Internal, Reading!Unmodelled
<1>1. CASE kind = "public"
  <2>1. r.edges = {e} /\ r.findings = {}
    BY <1>1 DEF Reading!Host
  <2>2. Outside(h, v, p, e) /\ e.at = p
    BY DEF Outside
  <2> HIDE DEF r, e
  <2> QED BY <1>1, <2>1, <2>2 DEF Answered, r
<1>2. CASE kind \in {"s3", "nodot", "broker"}
  <2>1. r = Reading!Finding(h, v.names, p)
    BY <1>2 DEF Reading!Host
  <2> QED BY <1>2, <2>1, FindingIs DEF Leads
<1>3. CASE kind \in Reading!Internal
  <2>1. r = Reading!Nothing
    BY <1>3 DEF Reading!Host
  <2> QED BY <1>3, <2>1, NothingIs DEF Leads
<1>4. CASE kind \in Reading!Endpoints \cup Reading!Unmodelled \cup {"queue"}
  <2>1. r = Reading!AwsHost(h, v, p)
    BY <1>4 DEF Reading!Host
  <2> QED BY <1>4, <2>1, AwsHostIs DEF Leads, Resolved
<1> QED BY <1>1, <1>2, <1>3, <1>4

\* A bare word: one candidate at most is medium, and rivals are said.
Hinting(h, word, key, p, e) ==
  /\ e.from = h /\ e.at = p /\ e.kind = "references"
  /\ e.to \in DOMAIN NameOf \ {h} /\ NameOf[e.to] = word
  /\ e.conf \in {"medium", "low"}
  /\ e.conf = "medium" => Hint[key] \in {Reading!NoName, TypeOf[e.to]}

LEMMA SameCardinality == \A S : Reading!Cardinality(S) = Cardinality(S)
BY DEF Reading!Cardinality, Cardinality

LEMMA NamedIs ==
  ASSUME NEW h, NEW word, NEW key, NEW p
  PROVE  LET r == Reading!Named(h, word, key, p)
         IN  \A e \in r.edges :
               /\ Hinting(h, word, key, p, e)
               /\ \A x \in r.edges : x.to # e.to =>
                    /\ e.conf = "medium" => x.conf = "low"
                    /\ [on |-> h, about |-> word, at |-> p] \in r.findings
<1> DEFINE C == Reading!Candidates(h, word)
           H == Reading!Hinted(h, word, key)
           W == Reading!Winner(h, word, key)
           f == [on |-> h, about |-> word, at |-> p]
           Edge(n) == [from |-> h, to |-> n, kind |-> "references", at |-> p,
                       conf |-> IF n \in W THEN "medium" ELSE "low"]
           r == Reading!Named(h, word, key, p)
<1>1. IsFiniteSet(C) /\ IsFiniteSet(H) /\ H \subseteq C
  <2>1. C \subseteq DOMAIN NameOf /\ H \subseteq C
    BY DEF Reading!Candidates, Reading!Hinted
  <2> QED BY <2>1, GraphAssumption, FS_Subset
<1>2. /\ W = {} \/ \E n : W = {n}
      /\ \A n \in W : Hint[key] \in {Reading!NoName, TypeOf[n]}
  <2>1. CASE Cardinality(H) = 1
    <3>1. W = H /\ \E n : H = {n}
      BY <1>1, <2>1, FS_Singleton, SameCardinality DEF Reading!Winner
    <3> QED BY <3>1 DEF Reading!Hinted
  <2>2. CASE Cardinality(H) # 1
    <3>1. W = Reading!Alone(h, word, key)
      BY <2>2, SameCardinality DEF Reading!Winner
    <3>2. CASE Hint[key] = Reading!NoName /\ Cardinality(C) = 1
      <4>1. \E n : C = {n}
        BY <1>1, <3>2, FS_Singleton
      <4>2. W = C \/ W = {}
        BY <3>1, SameCardinality DEF Reading!Alone
      <4> QED BY <3>2, <4>1, <4>2
    <3>3. CASE ~(Hint[key] = Reading!NoName /\ Cardinality(C) = 1)
      BY <3>1, <3>3, SameCardinality DEF Reading!Alone
    <3> QED BY <3>2, <3>3
  <2> QED BY <2>1, <2>2
<1>3. r.edges = {Edge(n) : n \in C} /\ r.findings = IF Cardinality(C) > 1 THEN {f} ELSE {}
  BY SameCardinality DEF Reading!Named
<1>4. ASSUME NEW m \in C, NEW n \in C, m # n
      PROVE  Cardinality(C) > 1
  <2>1. Cardinality(C) \in Nat
    BY <1>1, FS_CardinalityType
  <2>2. Cardinality(C) # 0
    BY <1>1, FS_EmptySet
  <2>3. Cardinality(C) # 1
    BY <1>1, <1>4, FS_Singleton
  <2> QED BY <2>1, <2>2, <2>3
<1>5. ASSUME NEW n \in C
      PROVE  /\ Hinting(h, word, key, p, Edge(n))
             /\ Edge(n).to = n /\ (Edge(n).conf = "medium" <=> n \in W)
             /\ Edge(n).conf = "low" <=> n \notin W
  <2>1. n \in DOMAIN NameOf \ {h} /\ NameOf[n] = word
    BY DEF Reading!Candidates
  <2>2. /\ Edge(n).from = h /\ Edge(n).to = n /\ Edge(n).kind = "references" /\ Edge(n).at = p
        /\ Edge(n).conf = IF n \in W THEN "medium" ELSE "low"
    OBVIOUS
  <2> HIDE DEF Edge, W
  <2> QED BY <1>2, <2>1, <2>2 DEF Hinting
<1> HIDE DEF C, H, W, f, Edge, r
<1>6. ASSUME NEW m \in C, NEW n \in C, Edge(m).to # Edge(n).to
      PROVE  /\ Edge(n).conf = "medium" => Edge(m).conf = "low"
             /\ f \in r.findings
  <2>1. m # n
    BY <1>6
  <2>2. Cardinality(C) > 1
    BY <1>4, <2>1
  <2>3. n \in W => m \notin W
    BY <1>2, <2>1
  <2> QED BY <1>3, <1>5, <2>2, <2>3
<1>7. \A e \in r.edges :
        /\ Hinting(h, word, key, p, e)
        /\ \A x \in r.edges : x.to # e.to =>
             (e.conf = "medium" => x.conf = "low") /\ f \in r.findings
  BY <1>3, <1>5, <1>6
<1> QED BY <1>7 DEF r, f
LEMMA NamedOn ==
  ASSUME NEW h, NEW word, NEW key, NEW p
  PROVE  \A f \in Reading!Named(h, word, key, p).findings : f.on = h
<1> DEFINE f == [on |-> h, about |-> word, at |-> p]
           F == Reading!Named(h, word, key, p).findings
<1>1. F = {} \/ F = {f}
  BY DEF Reading!Named
<1>2. f.on = h
  OBVIOUS
<1> HIDE DEF f, F
<1>3. \A g \in F : g.on = h
  BY <1>1, <1>2
<1> QED BY <1>3 DEF F

\* What scan makes of one string: the edges, judged by the value in AWS;
Judged(h, p, e) ==
  LET v == raw[p]
  IN  \/ v.form \in {"arn", "url", "host"} /\ Outright(h, v.names, p, e)
      \/ v.form = "url" /\ Outside(h, v, p, e)
      \/ /\ v.form = "text" /\ Reading!Scan(h, p) = Reading!Named(h, v.names, KeyAt[p], p)
         /\ Hinting(h, v.names, KeyAt[p], p, e)

\* what is not linked though it is here;
Lost(p) ==
  \/ raw[p].form = "host" /\ KeyAt[p] \in SecretKeys
  \/ About[raw[p].names].kind = "queue" /\ "path" \in raw[p].shaped

\* and what is not even said.
Unsaid(p) ==
  LET v == config[p]
      kind == About[v.names].kind
  IN  \/ v.form \notin {"arn", "url", "host"}
      \/ kind \in Reading!Internal
      \/ v.form = "host" /\ kind = "aws"

\* A secret the ECS agent fetches leads to the database it is the password of.
LEMMA SecretIs ==
  ASSUME raw \in Configurations, NEW h \in Holders, NEW p \in Positions[h],
         config[p] = Reading!Collected(p), p \in InSecrets
  PROVE  /\ \A e \in Reading!Scan(h, p).edges : Judged(h, p, e)
         /\ \A f \in Reading!Scan(h, p).findings : f.on = h
<1> DEFINE v == raw[p]
           r == Reading!Scan(h, p)
<1>1. config[p] = v
  BY DEF Reading!Collected
<1>2. r = Reading!DbSecret(h, v.names, p)
  BY <1>1 DEF Reading!Scan
<1>3. CASE About[v.names].kind = "secret" /\ About[v.names].here /\ About[v.names].id \in Nodes
  <2>1. r = Reading!Arn(h, v.names, p)
    BY <1>2, <1>3 DEF Reading!DbSecret, Reading!Arn
  <2>2. p \in Reading!AllPositions
    BY DEF Reading!AllPositions
  <2>3. v.form = "arn"
    BY <1>3, <2>2, ConfigurationsAssumption
  <2>4. Leads(h, v.names, p, r)
    BY <2>1, ArnIs DEF Resolved
  <2> HIDE DEF r
  <2> QED BY <2>3, <2>4 DEF Leads, Judged, r
<1>4. CASE ~(/\ About[v.names].kind = "secret" /\ About[v.names].here
             /\ About[v.names].id \in Nodes)
  <2>1. r = Reading!Nothing
    BY <1>2, <1>4 DEF Reading!DbSecret
  <2> QED BY <2>1 DEF Reading!Nothing
<1> QED BY <1>3, <1>4

LEMMA ScanIs ==
  ASSUME raw \in Configurations, NEW h \in Holders, NEW p \in Positions[h],
         config[p] = Reading!Collected(p)
  PROVE  /\ \A e \in Reading!Scan(h, p).edges : Judged(h, p, e)
         /\ \A f \in Reading!Scan(h, p).findings : f.on = h
         /\ p \in Reading!Read(h) =>
              /\ Lost(p) \/ raw[p].form \notin {"arn", "url", "host"}
                   \/ Linked(h, raw[p].names, p, Reading!Scan(h, p))
              /\ Unsaid(p) \/ Answered(h, config[p].names, p, Reading!Scan(h, p))
<1> DEFINE v == raw[p]
           c == config[p]
           kind == About[v.names].kind
           r == Reading!Scan(h, p)
           open == p \notin InSecrets \cup UsedByUri /\ ~Reading!IsMarker(c)
<1>1. p \in Reading!AllPositions
  BY DEF Reading!AllPositions
<1>2. /\ v \in Reading!Values
      /\ \/ c = v
         \/ /\ c.form = "text" /\ Reading!IsMarker(c) /\ v.form # "arn" /\ ~Reading!Url(v)
            /\ v.form = "host" => KeyAt[p] \in SecretKeys
         \/ /\ Reading!Url(v) /\ Reading!Url(c) /\ c.names = v.names
            /\ ~Reading!IsMarker(c) /\ c.masked \subseteq v.shaped
  BY <1>1, CollectedIs
<1>3. v.form # "text" => ~Reading!IsMarker(v)
  BY <1>2 DEF Reading!Values, Reading!IsMarker
<1>4. Reading!Url(v) => /\ v.masked = {}
                        /\ kind \in Reading!Endpoints \cup Reading!Unowned
                                     \cup Reading!Unmodelled \cup {"queue"}
  BY <1>1, ConfigurationsAssumption
<1>5. v.form = "host" => kind \in Reading!Endpoints \cup Reading!Unmodelled
  BY <1>1, ConfigurationsAssumption
<1>6. kind \in Reading!Unowned \cup Reading!Unmodelled => About[v.names].id \notin Reading!Known
  BY <1>1, ConfigurationsAssumption, GraphAssumption
<1>7. CASE p \in InSecrets
  <2>1. p \notin Reading!Read(h)
    BY <1>7 DEF Reading!Read
  <2> QED BY <1>7, <2>1, SecretIs
<1>8. CASE open /\ c.form = "arn"
  <2>1. r = Reading!Arn(h, v.names, p) /\ c = v
    BY <1>2, <1>8 DEF Reading!Scan, Reading!Url
  <2>2. Resolved(h, v.names, p, r)
    BY <2>1, ArnIs
  <2> HIDE DEF r
  <2> QED BY <1>8, <2>1, <2>2 DEF Resolved, Leads, Judged, r
<1>9. CASE open /\ Reading!Url(c)
  <2>1. /\ r = Reading!Host(h, c, p)
        /\ Reading!Url(v) /\ c.names = v.names /\ c.masked \subseteq v.masked \cup v.shaped
    BY <1>2, <1>9 DEF Reading!Scan, Reading!Url
  <2>2. /\ \A e \in r.edges : Outright(h, v.names, p, e) \/ Outside(h, c, p, e)
        /\ \A f \in r.findings : f.on = h
        /\ kind \notin Reading!Internal => Answered(h, v.names, p, r)
        /\ kind \in Reading!Endpoints => Linked(h, v.names, p, r)
        /\ kind = "queue" /\ "path" \notin c.masked => Linked(h, v.names, p, r)
    BY <1>4, <1>9, <2>1, HostIs
  <2>3. kind \in Reading!Unowned \cup Reading!Unmodelled => Linked(h, v.names, p, r)
    BY <1>6 DEF Linked
  <2>4. kind = "queue" /\ "path" \in c.masked => Lost(p)
    BY <1>4, <2>1 DEF Lost
  <2>5. Linked(h, v.names, p, r) \/ Lost(p)
    BY <1>4, <2>1, <2>2, <2>3, <2>4
  <2>6. \A e \in r.edges : Judged(h, p, e)
    BY <2>1, <2>2 DEF Judged, Outside, Reading!Url
  <2>7. Unsaid(p) \/ Answered(h, c.names, p, r)
    BY <2>1, <2>2 DEF Unsaid
  <2> QED BY <2>2, <2>5, <2>6, <2>7
<1>10. CASE open /\ c.form = "host"
  <2>1. r = Reading!AwsHost(h, v, p) /\ c = v
    BY <1>2, <1>10 DEF Reading!Scan, Reading!Url
  <2>2. /\ Leads(h, v.names, p, r)
        /\ kind \in Reading!Endpoints => Resolved(h, v.names, p, r)
        /\ kind = "lambdaUrl" => Answered(h, v.names, p, r)
    BY <2>1, AwsHostIs
  <2>3. kind \in Reading!Unmodelled =>
          Linked(h, v.names, p, r) /\ (Unsaid(p) \/ Answered(h, v.names, p, r))
    BY <1>6, <1>10, <2>1, <2>2 DEF Linked, Unsaid, Reading!Unmodelled
  <2>4. kind \in Reading!Endpoints \/ kind \in Reading!Unmodelled
    BY <1>5, <1>10, <2>1
  <2>5. \A e \in r.edges : Judged(h, p, e)
    BY <1>10, <2>1, <2>2 DEF Leads, Judged
  <2> QED BY <2>1, <2>2, <2>3, <2>4, <2>5 DEF Leads, Resolved
<1>11. CASE /\ p \notin InSecrets
            /\ ~(open /\ c.form \in {"arn", "url", "host"})
  <2>1. p \in Reading!Read(h) => c.form \notin {"arn", "url", "host"}
    BY <1>2, <1>3, <1>11 DEF Reading!Read, Reading!IsMarker, Reading!Url
  <2>2. p \in Reading!Read(h) => Unsaid(p)
    BY <2>1 DEF Unsaid
  <2>3. p \in Reading!Read(h) => Lost(p) \/ v.form \notin {"arn", "url", "host"}
    BY <1>2, <2>1 DEF Lost, Reading!Url
  <2>4. CASE open /\ c.form = "text" /\ KeyAt[p] # Reading!NoKey
    <3>1. c = v
      BY <1>2, <2>4 DEF Reading!Url
    <3>2. r = Reading!Named(h, v.names, KeyAt[p], p)
      BY <2>4, <3>1 DEF Reading!Scan, Reading!Url
    <3>3. /\ \A e \in r.edges : Hinting(h, v.names, KeyAt[p], p, e)
          /\ \A f \in r.findings : f.on = h
      <4> DEFINE n == Reading!Named(h, v.names, KeyAt[p], p)
      <4>1. \A e \in n.edges : Hinting(h, v.names, KeyAt[p], p, e)
        BY NamedIs
      <4>2. \A f \in n.findings : f.on = h
        BY NamedOn
      <4> HIDE DEF n
      <4>3. r = n
        BY <3>2 DEF n
      <4> HIDE DEF r
      <4> QED BY <4>1, <4>2, <4>3
    <3>4. \A e \in r.edges : Judged(h, p, e)
      BY <2>4, <3>1, <3>2, <3>3 DEF Judged
    <3> QED BY <2>2, <2>3, <3>3, <3>4
  <2>5. CASE ~(open /\ c.form = "text" /\ KeyAt[p] # Reading!NoKey)
    <3>1. r = Reading!Nothing
      BY <1>11, <2>5 DEF Reading!Scan, Reading!Url
    <3>2. r.edges = {} /\ r.findings = {}
      BY <3>1 DEF Reading!Nothing
    <3> HIDE DEF r
    <3> QED BY <2>2, <2>3, <3>2 DEF r
  <2> QED BY <2>4, <2>5
<1> QED BY <1>7, <1>8, <1>9, <1>10, <1>11 DEF Reading!Url
Collecting ==
  /\ raw \in Configurations
  /\ collected \subseteq Holders /\ scanned \subseteq Holders
  /\ scanned # {} => collected = Holders
  /\ \A h \in collected : \A p \in Positions[h] : config[p] = Reading!Collected(p)

\* What the graph holds was found in a position of a holder dealt with, and what was
\* found there the graph holds.
Found ==
  /\ \A e \in edges : \E h \in scanned \ Unreadable : \E p \in Positions[h] :
       e \in Reading!Scan(h, p).edges
  /\ \A f \in findings : f.on \in scanned
Reported ==
  /\ \A h \in scanned \ Unreadable : \A p \in Positions[h] :
       /\ Reading!Scan(h, p).edges \subseteq edges
       /\ Reading!Scan(h, p).findings \subseteq findings
  /\ \A h \in scanned \cap Unreadable : \E f \in findings : f.on = h

Linking == Collecting /\ Found /\ Reported

LEMMA LinkingBegins == Reading!Init => Linking
BY DEF Reading!Init, Linking, Collecting, Found, Reported

LEMMA ScanStays ==
  ASSUME config' = config, NEW h, NEW p
  PROVE  Reading!Scan(h, p)' = Reading!Scan(h, p)
BY DEF Reading!Scan

LEMMA CollectKeeps ==
  ASSUME Linking, NEW h \in Holders, Reading!Collect(h)
  PROVE  Linking'
<1>1. /\ h \notin collected /\ collected' = collected \cup {h}
      /\ config' = [p \in Reading!AllPositions |->
                      IF p \in Positions[h] THEN Reading!Collected(p) ELSE config[p]]
      /\ raw' = raw /\ scanned' = scanned /\ edges' = edges /\ findings' = findings
  BY DEF Reading!Collect
<1>2. scanned = {} /\ edges = {} /\ findings = {}
  BY <1>1 DEF Linking, Collecting, Found
<1>3. \A p : Reading!Collected(p)' = Reading!Collected(p)
  BY <1>1 DEF Reading!Collected
<1>4. Collecting'
  <2>1. ASSUME NEW i \in collected', NEW p \in Positions[i]
        PROVE  config'[p] = Reading!Collected(p)
    <3>1. p \in Reading!AllPositions /\ (i # h => i \in collected)
      BY <1>1 DEF Reading!AllPositions, Linking, Collecting
    <3> QED BY <1>1, <3>1 DEF Linking, Collecting
  <2>2. /\ raw' \in Configurations /\ collected' \subseteq Holders /\ scanned' \subseteq Holders
        /\ scanned' # {} => collected' = Holders
    BY <1>1, <1>2 DEF Linking, Collecting
  <2> QED BY <1>3, <2>1, <2>2 DEF Collecting
<1>5. Found' /\ Reported'
  BY <1>1, <1>2 DEF Found, Reported
<1> QED BY <1>4, <1>5 DEF Linking

LEMMA LinkHolderKeeps ==
  ASSUME Linking, NEW h \in Holders, Reading!LinkHolder(h)
  PROVE  Linking'
<1> DEFINE found == IF h \in Unreadable THEN {Reading!Finding(h, "unscanned", "config")}
                    ELSE {Reading!Scan(h, p) : p \in Positions[h]}
           E == UNION {f.edges : f \in found}
           F == UNION {f.findings : f \in found}
<1>1. /\ collected = Holders /\ scanned' = scanned \cup {h}
      /\ edges' = edges \cup E /\ findings' = findings \cup F
      /\ raw' = raw /\ config' = config /\ collected' = collected
  BY DEF Reading!LinkHolder
<1>2. \A i, p : Reading!Scan(i, p)' = Reading!Scan(i, p)
  BY <1>1, ScanStays
<1>3. \A p : Reading!Collected(p)' = Reading!Collected(p)
  BY <1>1 DEF Reading!Collected
<1>4. Collecting'
  BY <1>1, <1>3 DEF Linking, Collecting
<1>5. CASE h \in Unreadable
  <2> DEFINE g == Reading!Finding(h, "unscanned", "config")
             m == [on |-> h, about |-> "unscanned", at |-> "config"]
  <2>1. g.edges = {} /\ g.findings = {m} /\ m.on = h
    BY DEF Reading!Finding
  <2>2. found = {g}
    BY <1>5
  <2> HIDE DEF found, g, m
  <2>3. E = {} /\ F = {m}
    BY <2>1, <2>2
  <2>4. edges' = edges /\ findings' = findings \cup {m}
    BY <1>1, <2>3
  <2>5. scanned' \ Unreadable = scanned \ Unreadable
    BY <1>1, <1>5
  <2>6. Found'
    BY <1>1, <1>2, <2>1, <2>4, <2>5 DEF Linking, Found
  <2>7. Reported'
    BY <1>1, <1>2, <2>1, <2>4, <2>5 DEF Linking, Reported
  <2> QED BY <1>4, <2>6, <2>7 DEF Linking
<1>6. CASE h \notin Unreadable
  <2>1. found = {Reading!Scan(h, p) : p \in Positions[h]}
    BY <1>6
  <2> HIDE DEF found
  <2>2. /\ \A e \in E : \E p \in Positions[h] : e \in Reading!Scan(h, p).edges
        /\ \A f \in F : \E p \in Positions[h] : f \in Reading!Scan(h, p).findings
        /\ \A p \in Positions[h] :
             Reading!Scan(h, p).edges \subseteq E /\ Reading!Scan(h, p).findings \subseteq F
    BY <2>1
  <2>3. \A p \in Positions[h] : config[p] = Reading!Collected(p)
    BY <1>1 DEF Linking, Collecting
  <2>4. \A f \in F : f.on = h
    <3>1. raw \in Configurations
      BY DEF Linking, Collecting
    <3> QED BY <2>2, <2>3, <3>1, ScanIs
  <2> HIDE DEF E, F
  <2>5. h \in scanned' \ Unreadable /\ scanned' \ Unreadable = (scanned \ Unreadable) \cup {h}
    BY <1>1, <1>6
  <2>6. Found'
    <3>1. ASSUME NEW e \in edges'
          PROVE  \E i \in scanned' \ Unreadable : \E p \in Positions[i] :
                   e \in Reading!Scan(i, p).edges
      <4>1. CASE e \in E
        BY <2>2, <2>5, <4>1
      <4>2. CASE e \in edges
        BY <2>5, <4>2 DEF Linking, Found
      <4> QED BY <1>1, <4>1, <4>2
    <3>2. \A f \in findings' : f.on \in scanned'
      BY <1>1, <2>4 DEF Linking, Found
    <3> QED BY <1>2, <3>1, <3>2 DEF Found
  <2>7. Reported'
    <3>1. ASSUME NEW i \in scanned' \ Unreadable, NEW p \in Positions[i]
          PROVE  /\ Reading!Scan(i, p).edges \subseteq edges'
                 /\ Reading!Scan(i, p).findings \subseteq findings'
      <4>1. CASE i = h
        BY <1>1, <2>2, <4>1
      <4>2. CASE i # h
        BY <1>1, <2>5, <4>2 DEF Linking, Reported
      <4> QED BY <4>1, <4>2
    <3>2. scanned' \cap Unreadable = scanned \cap Unreadable
      BY <1>1, <1>6
    <3>3. \A i \in scanned' \cap Unreadable : \E f \in findings' : f.on = i
      BY <1>1, <3>2 DEF Linking, Reported
    <3> QED BY <1>2, <3>1, <3>3 DEF Reported
  <2> QED BY <1>4, <2>6, <2>7 DEF Linking
<1> QED BY <1>5, <1>6

LEMMA LinkingGoesOn ==
  ASSUME Linking, Reading!Next
  PROVE  Linking'
<1>1. CASE Reading!Done
  <2>1. UNCHANGED <<raw, config, collected, scanned, edges, findings>>
    BY <1>1 DEF Reading!Done, Reading!vars
  <2>2. \A i, p : Reading!Scan(i, p)' = Reading!Scan(i, p)
    BY <2>1, ScanStays
  <2>3. \A p : Reading!Collected(p)' = Reading!Collected(p)
    BY <2>1 DEF Reading!Collected
  <2> QED BY <2>1, <2>2, <2>3 DEF Linking, Collecting, Found, Reported
<1> QED BY <1>1, CollectKeeps, LinkHolderKeeps DEF Reading!Next
\* Where an edge comes from: one position of one holder, and scan of it.
LEMMA EdgeIsJudged ==
  ASSUME Linking, NEW e \in edges
  PROVE  \E h \in scanned \ Unreadable : \E p \in Positions[h] :
           /\ h \in Holders /\ e.from = h /\ e.at = p
           /\ config[p] = Reading!Collected(p)
           /\ e \in Reading!Scan(h, p).edges /\ Judged(h, p, e)
<1>0. PICK h \in scanned \ Unreadable : \E p \in Positions[h] : e \in Reading!Scan(h, p).edges
  BY DEF Linking, Found
<1>1. PICK p \in Positions[h] : e \in Reading!Scan(h, p).edges
  BY <1>0
<1>2. /\ raw \in Configurations /\ h \in Holders /\ config[p] = Reading!Collected(p)
  BY DEF Linking, Collecting
<1>3. Judged(h, p, e)
  BY <1>1, <1>2, ScanIs
<1>4. e.from = h /\ e.at = p
  BY <1>3 DEF Judged, Outright, Outside, Hinting
<1> QED BY <1>1, <1>2, <1>3, <1>4

LEMMA EdgesAreMeant ==
  ASSUME Linking
  PROVE  Reading!TypeOK /\ Reading!EdgeIsMeant
<1>1. ASSUME NEW e \in edges
      PROVE  /\ e.from \in scanned /\ e.at \in Positions[e.from]
             /\ e.kind \in {"references", "connect", "http", "external"}
             /\ e.conf \in {"high", "medium", "low"}
             /\ e.kind # "external" => e.to \in Reading!Known \ {e.from}
             /\ CASE e.kind = "external" -> raw[e.at].names = e.to /\ Reading!Url(raw[e.at])
                  [] e.conf = "high" /\ e.kind # "external" -> Reading!Means(raw[e.at]) = e.to
                  [] OTHER -> raw[e.at].form = "text" /\ NameOf[e.to] = raw[e.at].names
  <2>0. PICK h \in scanned \ Unreadable :
          \E p \in Positions[h] : e.from = h /\ e.at = p /\ Judged(h, p, e)
    BY EdgeIsJudged
  <2>1. PICK p \in Positions[h] : e.from = h /\ e.at = p /\ Judged(h, p, e)
    BY <2>0
  <2> DEFINE v == raw[p]
  <2>2. CASE v.form \in {"arn", "url", "host"} /\ Outright(h, v.names, p, e)
    <3>1. /\ e.kind \in {"references", "connect", "http"} /\ e.conf = "high"
          /\ e.to \in Reading!Known \ {h} /\ Reading!Means(v) = e.to
      BY <2>2 DEF Outright, Reading!Means
    <3>2. e.kind # "external"
      BY <3>1
    <3> QED BY <2>1, <3>1, <3>2
  <2>3. CASE v.form = "url" /\ Outside(h, v, p, e)
    BY <2>1, <2>3 DEF Outside, Reading!Url
  <2>4. CASE v.form = "text" /\ Hinting(h, v.names, KeyAt[p], p, e)
    <3>1. /\ e.kind = "references" /\ e.conf \in {"medium", "low"}
          /\ e.to \in Reading!Known \ {h} /\ NameOf[e.to] = v.names
      BY <2>4, GraphAssumption DEF Hinting
    <3> QED BY <2>1, <2>4, <3>1
  <2> QED BY <2>1, <2>2, <2>3, <2>4 DEF Judged
<1>2. Reading!TypeOK
  BY <1>1 DEF Linking, Collecting, Found, Reading!TypeOK
<1>3. Reading!EdgeIsMeant
  BY <1>1 DEF Reading!EdgeIsMeant
<1> QED BY <1>2, <1>3

LEMMA WordsAreHints ==
  ASSUME Linking
  PROVE  Reading!BareNameIsAHint
<1> SUFFICES ASSUME NEW e \in edges, raw[e.at].form = "text"
             PROVE  LET rivals == {x \in edges : x.at = e.at /\ x.to # e.to}
                        hint == Hint[KeyAt[e.at]]
                    IN  /\ e.conf # "high"
                        /\ e.conf = "medium" => (hint \in {Reading!NoName, TypeOf[e.to]}
                                                   /\ \A x \in rivals : x.conf = "low")
                        /\ rivals # {} =>
                             [on |-> e.from, about |-> raw[e.at].names, at |-> e.at] \in findings
  BY DEF Reading!BareNameIsAHint, Reading!NoName
<1>0. PICK h \in scanned \ Unreadable : \E p \in Positions[h] :
        /\ h \in Holders /\ e.from = h /\ e.at = p
        /\ e \in Reading!Scan(h, p).edges /\ Judged(h, p, e)
  BY EdgeIsJudged
<1>1. PICK p \in Positions[h] :
        /\ h \in Holders /\ e.from = h /\ e.at = p
        /\ e \in Reading!Scan(h, p).edges /\ Judged(h, p, e)
  BY <1>0
<1> DEFINE word == raw[p].names
           key == KeyAt[p]
           N == Reading!Named(h, word, key, p)
<1>2. Reading!Scan(h, p) = N /\ Hinting(h, word, key, p, e)
  BY <1>1 DEF Judged
<1>3. ASSUME NEW x \in edges, x.at = p
      PROVE  x \in N.edges
  <2>0. PICK i \in scanned \ Unreadable : \E q \in Positions[i] :
          i \in Holders /\ x.at = q /\ x \in Reading!Scan(i, q).edges
    BY EdgeIsJudged
  <2>1. PICK q \in Positions[i] :
          i \in Holders /\ x.at = q /\ x \in Reading!Scan(i, q).edges
    BY <2>0
  <2>2. q = p /\ i = h
    BY <1>1, <1>3, <2>1, GraphAssumption
  <2> QED BY <1>2, <2>1, <2>2
<1>4. N.findings \subseteq findings
  BY <1>1, <1>2 DEF Linking, Reported
<1>5. e \in N.edges
  BY <1>1, <1>2
<1>6. \A x \in N.edges : x.to # e.to =>
        /\ e.conf = "medium" => x.conf = "low"
        /\ [on |-> h, about |-> word, at |-> p] \in N.findings
  BY <1>5, NamedIs
<1>7. e.conf \in {"medium", "low"} /\
      (e.conf = "medium" => Hint[key] \in {Reading!NoName, TypeOf[e.to]})
  BY <1>2 DEF Hinting
<1> HIDE DEF N
<1> QED BY <1>1, <1>3, <1>4, <1>6, <1>7

LEMMA SignalsAreLinked ==
  ASSUME Linking
  PROVE  Reading!SignalIsLinked /\ Reading!NothingReadIsSilent
<1>1. ASSUME NEW h \in scanned \ Unreadable, NEW p \in Reading!Read(h)
      PROVE  /\ h \in Holders /\ p \in Positions[h] /\ config[p] = Reading!Collected(p)
             /\ raw \in Configurations
             /\ Reading!Scan(h, p).edges \subseteq edges
             /\ Reading!Scan(h, p).findings \subseteq findings
  BY DEF Linking, Collecting, Reported, Reading!Read
<1>2. ASSUME NEW h \in scanned \ Unreadable, NEW p \in Reading!Read(h),
             Reading!Means(raw[p]) \in Reading!Known \ {h},
             ~(raw[p].form = "host" /\ KeyAt[p] \in SecretKeys),
             ~(About[raw[p].names].kind = "queue" /\ "path" \in raw[p].shaped)
      PROVE  Reading!LinkedFrom(h, p)
  <2> DEFINE v == raw[p]
             r == Reading!Scan(h, p)
  <2>1. /\ v.form \in {"arn", "url", "host"}
        /\ About[v.names].here /\ About[v.names].id = Reading!Means(v)
    BY <1>2, GraphAssumption DEF Reading!Means
  <2>2. Linked(h, v.names, p, r)
    BY <1>1, <1>2, <2>1, ScanIs DEF Lost
  <2> HIDE DEF r
  <2>3. PICK e \in r.edges : e.at = p /\ e.to = Reading!Means(v) /\ e.conf = "high"
    BY <1>2, <2>1, <2>2 DEF Linked
  <2> QED BY <1>1, <2>3 DEF Reading!LinkedFrom, r
<1>3. Reading!SignalIsLinked
  BY <1>2 DEF Reading!SignalIsLinked
<1>4. ASSUME NEW h \in scanned \ Unreadable, NEW p \in Reading!Read(h)
      PROVE  Reading!Accounted(h, p)
  <2> DEFINE v == config[p]
             r == Reading!Scan(h, p)
  <2>1. Unsaid(p) \/ Answered(h, v.names, p, r)
    BY <1>1, ScanIs
  <2>2. CASE Unsaid(p)
    BY <2>2 DEF Unsaid, Reading!Accounted
  <2>3. CASE ~Unsaid(p) /\ Answered(h, v.names, p, r)
    <3>1. v.form \in {"arn", "url", "host"}
      BY <2>3 DEF Unsaid
    <3>2. \/ \E x \in r.edges \cup r.findings : x.at = p
          \/ Reading!Means(v) = h
      BY <2>3, <3>1 DEF Answered, Reading!Means
    <3> QED BY <1>1, <3>2 DEF Reading!Accounted
  <2> QED BY <2>1, <2>2, <2>3
<1>5. Reading!NothingReadIsSilent
  <2>1. \A h \in scanned \cap Unreadable : \E f \in findings : f.on = h
    BY DEF Linking, Reported
  <2> QED BY <1>4, <2>1 DEF Reading!NothingReadIsSilent
<1> QED BY <1>3, <1>5

----------------------------------------------------------------------------
\* The two sides together.
IInv ==
  /\ side = "withholding" => Redacting
  /\ side = "reading" => Linking

\* Every step of either side keeps its invariant.
THEOREM Inductive == Spec => []IInv
<1>1. Init => IInv
  BY RedactingBegins, LinkingBegins DEF Init, IInv
<1>2. IInv /\ [Next]_vars => IInv'
  <2> SUFFICES ASSUME IInv, [Next]_vars PROVE IInv'
    OBVIOUS
  <2>1. CASE side = "withholding" /\ Withholding!Next /\ UNCHANGED <<side, read>>
    BY <2>1, RedactingGoesOn DEF IInv
  <2>2. CASE side = "reading" /\ Reading!Next /\ UNCHANGED <<side, withheld>>
    BY <2>2, LinkingGoesOn DEF IInv
  <2>3. CASE UNCHANGED vars
    <3>1. UNCHANGED <<side, scan, given, givenArgs, out, outArgs, left, next, hits, hitArgs>>
      BY <2>3 DEF vars, withheld
    <3>2. UNCHANGED <<raw, config, collected, scanned, edges, findings>>
      BY <2>3 DEF vars, read
    <3>3. Redacting => Redacting'
      BY <3>1 DEF Redacting, Shapes, Keyed, Argued, Settled
    <3>4. \A i, p : Reading!Scan(i, p)' = Reading!Scan(i, p)
      BY <3>2, ScanStays
    <3>5. \A p : Reading!Collected(p)' = Reading!Collected(p)
      BY <3>2 DEF Reading!Collected
    <3>6. Linking => Linking'
      BY <3>2, <3>4, <3>5 DEF Linking, Collecting, Found, Reported
    <3> QED BY <3>1, <3>3, <3>6 DEF IInv
  <2> QED BY <2>1, <2>2, <2>3 DEF Next
<1> QED BY <1>1, <1>2, PTL DEF Spec

\* No plain value under a secret's key is recorded, and nothing shaped like a secret but
\* in three places of a URL no rule looks at: a user without a password, a parameter
\* without =, the fragment; whatever keys, values and command lines a container has
\* (redactValue, redactArgs, redactMappings, sanitizeURL).
THEOREM SecretsStay == Spec => []NoSecretIsRecorded
<1>1. IInv => NoSecretIsRecorded
  BY Conclusions DEF IInv, NoSecretIsRecorded
<1> QED BY <1>1, Inductive, PTL

\* The Redacted list says what was withheld, no less and no more, and a scan of what a
\* scan recorded withholds nothing.
THEOREM ListHonest == Spec => []ListIsHonest
<1>1. IInv => ListIsHonest
  BY Conclusions DEF IInv, ListIsHonest
<1> QED BY <1>1, Inductive, PTL

\* Redaction keeps what a reference names, and the linker draws the edge to it.
THEOREM SignalKept == Spec => []SignalSurvives
<1>1. IInv => SignalSurvives
  BY Conclusions, SignalsAreLinked DEF IInv, SignalSurvives
<1> QED BY <1>1, Inductive, PTL

\* A high edge leads where the value in AWS leads; a bare word is a hint, one at most
\* is medium, and an ambiguity is said.
THEOREM EdgesMeant == Spec => []EdgeIsMeant
<1>1. IInv => EdgeIsMeant
  BY EdgesAreMeant, WordsAreHints DEF IInv, EdgeIsMeant
<1> QED BY <1>1, Inductive, PTL

\* Every reference the linker reads comes to an edge or a finding, unless it stays inside
\* the workload, cannot be named, does not parse, was withheld or is a bare AWS endpoint.
THEOREM NothingSilent == Spec => []NothingReadIsSilent
<1>1. IInv => NothingReadIsSilent
  BY SignalsAreLinked DEF IInv, NothingReadIsSilent
<1> QED BY <1>1, Inductive, PTL
=============================================================================
