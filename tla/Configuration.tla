--------------------------- MODULE Configuration ----------------------------
(***************************************************************************)
(* Configuration on its way from AWS to the graph: what redaction leaves   *)
(* of it, and of a second scan of what it left (Redaction), and what the   *)
(* linker then reads (ConfigScan).  Both rest on ConfigValues.             *)
(***************************************************************************)
EXTENDS Sequences, FiniteSets

CONSTANTS
  SecretKeys, Names,                                          \* ConfigValues
  EnvKeys, MappingKeys, KeyValues, ArgLists,                  \* Redaction
  Holders, Positions, KeyAt, InSecrets, UsedByUri, Unreadable,
  Configurations, About, Nodes, NameOf, TypeOf, Hint, Specific \* ConfigScan

VARIABLES
  side,                                                          \* which of the two
  scan, given, givenArgs, out, outArgs, left, next, hits, hitArgs, \* Redaction
  raw, config, collected, scanned, edges, findings               \* ConfigScan

withheld == <<scan, given, givenArgs, out, outArgs, left, next, hits, hitArgs>>
read == <<raw, config, collected, scanned, edges, findings>>
vars == <<side, withheld, read>>

Withholding == INSTANCE Redaction
Reading == INSTANCE ConfigScan

\* An argument without a flag has no key, hence no secret's.
ASSUME SecretKeysAssumption == Withholding!NoKey \notin SecretKeys

\* What a container may hold, a second scan's markers among it.
ASSUME ContainerAssumption ==
  /\ Withholding!NoName \in Names
  /\ KeyValues \subseteq Withholding!Values /\ ArgLists \subseteq Seq(Withholding!Arguments)

\* A position is one string of one holder; an id is a node's; only some nodes are
\* known by a bare name.
ASSUME GraphAssumption ==
  /\ \A h, i \in Holders : h # i => Positions[h] \cap Positions[i] = {}
  /\ Reading!NoName \notin Reading!Known
  /\ IsFiniteSet(DOMAIN NameOf) /\ DOMAIN NameOf \subseteq Reading!Known

\* A scan of AWS: no marker in a URL, and no secret in what is a hostname (hostnamePattern
\* of highEntropy).  How a name is written says what it can be: only an endpoint's host
\* stands alone, a queue is a path of a URL, only an ARN names a secret; and what is neither an
\* endpoint nor a queue has no id a URL could lead to.
ASSUME ConfigurationsAssumption ==
  \A c \in Configurations :
    /\ c \in [Reading!AllPositions -> Reading!Values]
    /\ \A p \in Reading!AllPositions :
         LET kind == About[c[p].names].kind
         IN  /\ Reading!Url(c[p]) =>
                  /\ c[p].masked = {}
                  /\ kind \in Reading!Endpoints \cup Reading!Unowned \cup Reading!Unmodelled \cup {"queue"}
             /\ c[p].form = "host" =>
                  c[p].shaped = {} /\ kind \in Reading!Endpoints \cup Reading!Unmodelled
             /\ c[p].form # "arn" => kind # "secret"
             /\ kind \in Reading!Unowned \cup Reading!Unmodelled => About[c[p].names].id = Reading!NoName

Init ==
  \/ /\ side = "withholding" /\ Withholding!Init
     /\ raw = <<>> /\ config = <<>> /\ collected = {} /\ scanned = {}
     /\ edges = {} /\ findings = {}
  \/ /\ side = "reading" /\ Reading!Init
     /\ scan = 0 /\ given = <<>> /\ givenArgs = <<>> /\ out = <<>> /\ outArgs = <<>>
     /\ left = {} /\ next = 0 /\ hits = {} /\ hitArgs = {}

Next ==
  \/ side = "withholding" /\ Withholding!Next /\ UNCHANGED <<side, read>>
  \/ side = "reading" /\ Reading!Next /\ UNCHANGED <<side, withheld>>

Spec == Init /\ [][Next]_vars
-----------------------------------------------------------------------------
\* What is recorded has no secret's shape where redaction looks, and no plain value under
\* a secret's key.
NoSecretIsRecorded == side = "withholding" => Withholding!TypeOK /\ Withholding!NoSecretIsRecorded

\* The Redacted list of a spec says what was withheld, no less and no more; so a scan
\* of what the first one recorded lists nothing, and changes nothing.
ListIsHonest ==
  side = "withholding" => Withholding!ListedIsWithheld /\ Withholding!SecondScanFindsNothing

\* "The rules are ordered to keep linking signal": ARNs and URLs still name what they
\* named, and the linker draws the edge to it.
SignalSurvives ==
  /\ side = "withholding" => Withholding!SignalIsKept
  /\ side = "reading" => Reading!SignalIsLinked

\* A high edge leads where the value in AWS leads, never to a namesake; a bare word
\* reaches one node at medium at most, and an ambiguity is said.
EdgeIsMeant ==
  side = "reading" => Reading!TypeOK /\ Reading!EdgeIsMeant /\ Reading!BareNameIsAHint

\* Every reference read comes to an edge or a finding, but for the forms named there.
NothingReadIsSilent == side = "reading" => Reading!NothingReadIsSilent
=============================================================================
