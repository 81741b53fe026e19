----------------------------- MODULE Redaction ------------------------------
(***************************************************************************)
(* A container's configuration on its way out of AWS: environment, log     *)
(* options and API parameter mappings key by key (in the order a Go map    *)
(* gives), a command line argument by argument, in place, before anything  *)
(* is recorded (redactContainerDefinitions, redactMappings,                *)
(* redactStageVariables, Lambda's environment).  A second scan reads an    *)
(* account seeded from the first one's inventory: there the markers come   *)
(* back as values.                                                         *)
(***************************************************************************)
EXTENDS ConfigValues

CONSTANTS
    EnvKeys,        \* keys of env vars, options and stage variables
    MappingKeys,    \* keys of API parameter mappings
    KeyValues,      \* the values a key may have
    ArgLists        \* the command lines a container may have

Keys == EnvKeys \cup MappingKeys

VARIABLES
    scan,               \* 1 of AWS, 2 of the account seeded from its inventory
    given, givenArgs,   \* what the scan reads
    out, outArgs,       \* the same, as far as it is redacted
    left, next,         \* the keys and the first argument not gone through yet
    hits, hitArgs       \* what the spec lists as redacted

vars == <<scan, given, givenArgs, out, outArgs, left, next, hits, hitArgs>>
ofArgs == <<givenArgs, outArgs, next, hitArgs>>

Init ==
    /\ scan = 1
    /\ given \in [Keys -> KeyValues] /\ givenArgs \in ArgLists
    /\ out = given /\ outArgs = givenArgs
    /\ left = Keys /\ next = 1 /\ hits = {} /\ hitArgs = {}

RedactedUnder(k, v) == IF k \in MappingKeys THEN RedactMapping(k, v) ELSE Redact(k, v)

RedactKeyUnlisted(k) ==
    /\ k \in left /\ left' = left \ {k}
    /\ out' = [out EXCEPT ![k] = RedactedUnder(k, out[k]).value]
    /\ UNCHANGED <<scan, given, hits, ofArgs>>
RedactKey(k) ==
    /\ k \in left /\ left' = left \ {k}
    /\ LET r == RedactedUnder(k, out[k])
       IN  /\ out' = [out EXCEPT ![k] = r.value]
           /\ hits' = IF r.red THEN hits \cup {k} ELSE hits
    /\ UNCHANGED <<scan, given, ofArgs>>

RedactNextArgFlagless ==
    /\ next <= Len(givenArgs) /\ next' = next + 1
    /\ LET r == RedactArg(givenArgs, next)
       IN  /\ outArgs' = IF r.red THEN [outArgs EXCEPT ![next] = [flag |-> NoKey, value |-> r.value]]
                         ELSE outArgs
           /\ hitArgs' = IF r.red THEN hitArgs \cup {next} ELSE hitArgs
    /\ UNCHANGED <<scan, given, givenArgs, out, left, hits>>
\* redactArgs decides by the arguments as they were, not as they have become.
RedactNextArg ==
    /\ next <= Len(givenArgs) /\ next' = next + 1
    /\ LET r == RedactArg(givenArgs, next)
       IN  /\ outArgs' = [outArgs EXCEPT ![next].value = r.value]
           /\ hitArgs' = IF r.red THEN hitArgs \cup {next} ELSE hitArgs
    /\ UNCHANGED <<scan, given, givenArgs, out, left, hits>>

Recorded == left = {} /\ next > Len(givenArgs)

Rescan ==
    /\ Recorded /\ scan = 1 /\ scan' = 2
    /\ given' = out /\ givenArgs' = outArgs
    /\ left' = Keys /\ next' = 1 /\ hits' = {} /\ hitArgs' = {}
    /\ UNCHANGED <<out, outArgs>>

Done == Recorded /\ scan = 2 /\ UNCHANGED vars

Next == (\E k \in Keys : RedactKey(k)) \/ RedactNextArg \/ Rescan \/ Done

Spec == Init /\ [][Next]_vars

----------------------------------------------------------------------------
(* The types: arguments keep their flags and their number.                 *)
TypeOK ==
    /\ scan \in {1, 2} /\ left \subseteq Keys /\ next \in 1 .. Len(givenArgs) + 1
    /\ DOMAIN out = Keys /\ hits \subseteq Keys \ left /\ hitArgs \subseteq 1 .. next - 1
    /\ Len(outArgs) = Len(givenArgs)
    /\ \A i \in DOMAIN outArgs : outArgs[i].flag = givenArgs[i].flag

(* A value already redacted is not a secret again: a scan of what the      *)
(* first one recorded changes nothing and lists nothing, whatever marker   *)
(* stands in whatever place and under whatever key (isMarker in            *)
(* redactValue, redactArgs and sanitizeURL).                               *)
SecondScanFindsNothing ==
    scan = 2 => hits = {} /\ hitArgs = {} /\ out = given /\ outArgs = givenArgs

(* What a value under a secret's name, or with a secret's shape, is kept   *)
(* as when nothing of it may be kept but a reference.                      *)
MayBeKept(key, v) ==
    v.form \in {"arn", "url", "empty"} \/ (v.shaped = {} /\ key \notin SecretKeys)

(* What is recorded holds no piece that is shaped like a secret and no     *)
(* plain value under a secret's key, be the key a variable's name, the     *)
(* flag before = or the flag one argument earlier; but a URL keeps what    *)
(* stands where no rule looks: a user without a password, a parameter      *)
(* without =, the fragment.                                                *)
Unsearched == {"user", "bare", "fragment"}
KeyOf(i) ==
    CASE outArgs[i].flag # NoKey -> outArgs[i].flag
      [] i > 1 /\ outArgs[i].flag = NoKey /\ outArgs[i - 1].flag # NoKey
              /\ outArgs[i - 1].value = NoArg -> outArgs[i - 1].flag
      [] OTHER -> NoKey
NoSecretIsRecorded ==
    Recorded =>
        /\ \A k \in Keys : LET v == out[k]
              IN  \/ IsMarker(v) \/ (k \in MappingKeys /\ v.form = "expression")
                  \/ MayBeKept(k, v) /\ (v.form = "url" => v.shaped \subseteq Unsearched)
        /\ \A i \in {j \in DOMAIN outArgs : outArgs[j].value # NoArg} :
              LET v == outArgs[i].value
              IN  \/ IsMarker(v)
                  \/ MayBeKept(KeyOf(i), v) /\ (v.form = "url" => v.shaped \subseteq Unsearched)

(* "The rules are ordered to keep linking signal": an ARN and a URL still  *)
(* name what they named, under any key and with any secret inside, and so  *)
(* does every value no rule is about.                                      *)
StillNames(key, before, after) ==
    MayBeKept(key, before) => after.names = before.names
SignalIsKept ==
    scan = 1 /\ Recorded =>
        /\ \A k \in Keys : StillNames(k, given[k], out[k])
        /\ \A i \in DOMAIN givenArgs : StillNames(KeyOf(i), givenArgs[i].value, outArgs[i].value)

(* The Redacted list of a spec says what was withheld, no less and no more.*)
ListedIsWithheld ==
    /\ hits = {k \in Keys \ left : out[k] # given[k]}
    /\ hitArgs = {i \in 1 .. next - 1 : outArgs[i] # givenArgs[i]}
=============================================================================
