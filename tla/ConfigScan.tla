----------------------------- MODULE ConfigScan -----------------------------
(***************************************************************************)
(* What workloads' configuration names (rule_config.go, configscan.go,     *)
(* databases.go): each string a workload holds is redacted by its          *)
(* collector, then read by the linker, which draws edges to what it names  *)
(* outright, candidates for what it may name, and findings for the rest.   *)
(*                                                                         *)
(* A name (of an ARN, a host, a bare word) stands for what About says: its *)
(* kind, the id it derives to and whether it is of this account and        *)
(* region.  A namesake elsewhere derives to the same id and is not here.   *)
(***************************************************************************)
EXTENDS ConfigValues, FiniteSets

CONSTANTS
    Holders,        \* services, functions and APIs, all of them nodes
    Positions,      \* [Holders -> the keys and places its strings are at]
    KeyAt,          \* the key of a position, NoKey for a positional argument
    InSecrets,      \* the positions of ECS secrets[]
    UsedByUri,      \* stage variables an integration URI uses
    Unreadable,     \* holders whose configuration cannot be read
    Configurations, \* what the positions may hold: functions to values
    About,          \* [name -> [kind, id, here]]
    Nodes,          \* the other nodes of the graph
    NameOf, TypeOf, \* of the tables, queues, functions and topics among Nodes
    Hint,           \* [key -> the type it hints, or NoName]
    Specific        \* names with a separator or a digit

VARIABLES
    raw,        \* [position -> the value in AWS]
    config,     \* [position -> the value in the inventory]
    collected, scanned,     \* holders
    edges,      \* [from, to, kind, conf, at]
    findings    \* [on, about, at]

vars == <<raw, config, collected, scanned, edges, findings>>

Known == Nodes \cup Holders
AllPositions == UNION {Positions[h] : h \in Holders}

----------------------------------------------------------------------------
(* One value, one holder: what scan finds in it.                           *)

Nothing == [edges |-> {}, findings |-> {}]
Finding(h, about, p) == [edges |-> {}, findings |-> {[on |-> h, about |-> about, at |-> p]}]
Draw(h, to, kind, conf, p) ==
    CASE to = h -> Nothing
      [] to # h /\ to \in Known ->
            [edges |-> {[from |-> h, to |-> to, kind |-> kind, conf |-> conf, at |-> p]},
             findings |-> {}]
      [] OTHER -> Finding(h, to, p)

\* Local: an id derived from a name is trusted only where its account is.
ByName(h, name, p) == Draw(h, About[name].id, "references", "high", p)
Local(h, name, p) ==
    IF About[name].here /\ About[name].id # NoName
    THEN Draw(h, About[name].id, "references", "high", p)
    ELSE Finding(h, name, p)

\* An endpoint of a database, a cache or a balancer matches exactly: one with
\* another account's suffix is a namesake, one that matches none is deleted.
ExactlyOrNothing(h, name, kind, p) ==
    IF About[name].here /\ About[name].id \in Known
    THEN Draw(h, About[name].id, kind, "high", p) ELSE Nothing
Exactly(h, name, kind, p) ==
    IF About[name].here /\ About[name].id \in Known
    THEN Draw(h, About[name].id, kind, "high", p)
    ELSE Finding(h, name, p)

Arn(h, name, p) ==
    IF About[name].kind = "secret" /\ About[name].here /\ About[name].id \in Nodes
    THEN Draw(h, About[name].id, "connect", "high", p)
    ELSE Local(h, name, p)

\* ECS secrets[] links a database's managed master secret and nothing else yet.
DbSecret(h, name, p) ==
    IF About[name].kind = "secret" /\ About[name].here /\ About[name].id \in Nodes
    THEN Draw(h, About[name].id, "connect", "high", p) ELSE Nothing

\* Names that come to nothing: a sidecar's, a templated host, a URL that does not parse
\* (a templated port).
Internal == {"local", "templated", "unparsed"}
Endpoints == {"rds", "cache", "elb", "nlb", "api"}
Unowned == Internal \cup {"public", "s3", "nodot", "broker"}
Unmodelled == {"aws", "lambdaUrl"}   \* AWS's, of no resource that is collected
\* The queue's name is a segment of its URL's path: withheld, it names nothing.
QueueWithheld(v) == About[v.names].kind = "queue" /\ "path" \in v.masked

AwsHost(h, v, p) ==
    LET kind == About[v.names].kind
    IN  CASE kind \in {"rds", "cache", "nlb"} -> Exactly(h, v.names, "connect", p)
          [] kind \in {"elb", "api"} -> Exactly(h, v.names, "http", p)
          [] kind = "queue" /\ Url(v) /\ ~QueueWithheld(v) -> Local(h, v.names, p)
          [] kind = "queue" /\ Url(v) /\ QueueWithheld(v) -> Finding(h, "REDACTED", p)
          [] kind = "lambdaUrl" \/ (kind = "aws" /\ Url(v)) -> Finding(h, v.names, p)
          [] OTHER -> Nothing     \* bare, and no resource: a service principal

Host(h, v, p) ==
    LET kind == About[v.names].kind
    IN  CASE kind = "public" ->
                [edges |-> {[from |-> h, to |-> v.names, kind |-> "external",
                             conf |-> "high", at |-> p]}, findings |-> {}]
          [] kind \in {"s3", "nodot", "broker"} -> Finding(h, v.names, p)
          [] kind \in Internal -> Nothing
          [] OTHER -> AwsHost(h, v, p)

Candidates(h, word) == {n \in DOMAIN NameOf \ {h} : NameOf[n] = word}
Hinted(h, word, key) == {n \in Candidates(h, word) : TypeOf[n] = Hint[key]}

AloneUnderAnyKey(h, word, key) ==
    IF word \in Specific /\ Cardinality(Candidates(h, word)) = 1 THEN Candidates(h, word) ELSE {}
Alone(h, word, key) ==
    IF Hint[key] = NoName /\ word \in Specific /\ Cardinality(Candidates(h, word)) = 1
    THEN Candidates(h, word) ELSE {}

\* The candidate that is medium, if any: the one of the hinted type, or the
\* only one of a name no coincidence explains.
Winner(h, word, key) ==
    IF Cardinality(Hinted(h, word, key)) = 1 THEN Hinted(h, word, key) ELSE Alone(h, word, key)

Named(h, word, key, p) ==
    [edges |-> {[from |-> h, to |-> n, kind |-> "references", at |-> p,
                 conf |-> IF n \in Winner(h, word, key) THEN "medium" ELSE "low"] :
                    n \in Candidates(h, word)},
     findings |-> IF Cardinality(Candidates(h, word)) > 1
                  THEN {[on |-> h, about |-> word, at |-> p]} ELSE {}]

Scan(h, p) ==
    LET v == config[p]
        open == p \notin InSecrets \cup UsedByUri /\ ~IsMarker(v)
    IN  CASE p \in InSecrets -> DbSecret(h, v.names, p)
          [] open /\ v.form = "arn" -> Arn(h, v.names, p)
          [] open /\ Url(v) -> Host(h, v, p)
          [] open /\ v.form = "host" -> AwsHost(h, v, p)
          [] open /\ v.form = "text" /\ KeyAt[p] # NoKey -> Named(h, v.names, KeyAt[p], p)
          [] OTHER -> Nothing     \* withheld, or apigw.integration has read it

----------------------------------------------------------------------------
Init ==
    /\ raw \in Configurations
    /\ config = raw /\ collected = {} /\ scanned = {}
    /\ edges = {} /\ findings = {}

Collected(p) ==
    IF p \in InSecrets THEN raw[p] ELSE Redact(KeyAt[p], raw[p]).value

Collect(h) ==
    /\ h \notin collected /\ collected' = collected \cup {h}
    /\ config' = [p \in AllPositions |-> IF p \in Positions[h] THEN Collected(p) ELSE config[p]]
    /\ UNCHANGED <<raw, scanned, edges, findings>>

LinkHolder(h) ==
    /\ collected = Holders /\ h \notin scanned /\ scanned' = scanned \cup {h}
    /\ LET found == IF h \in Unreadable THEN {Finding(h, "unscanned", "config")}
                    ELSE {Scan(h, p) : p \in Positions[h]}
       IN  /\ edges' = edges \cup UNION {f.edges : f \in found}
           /\ findings' = findings \cup UNION {f.findings : f \in found}
    /\ UNCHANGED <<raw, config, collected>>

Done == scanned = Holders /\ UNCHANGED vars

Next == (\E h \in Holders : Collect(h) \/ LinkHolder(h)) \/ Done

Spec == Init /\ [][Next]_vars

----------------------------------------------------------------------------
(* The types of edges and findings, which only scanned holders have.       *)
TypeOK ==
    /\ collected \subseteq Holders /\ scanned \subseteq collected
    /\ \A e \in edges : /\ e.from \in scanned /\ e.at \in Positions[e.from]
                        /\ e.kind \in {"references", "connect", "http", "external"}
                        /\ e.conf \in {"high", "medium", "low"}
                        /\ e.kind # "external" => e.to \in Known \ {e.from}
    /\ \A f \in findings : f.on \in scanned

(* What the configuration in AWS means, whatever the scan keeps of it: the *)
(* node this account has under that name.                                  *)
Means(v) ==
    IF v.form \in {"arn", "url", "host"} /\ About[v.names].here THEN About[v.names].id ELSE NoName

(* A high edge leads where the value in AWS leads, never to a namesake of  *)
(* another account, and is drawn from a value the holder really holds; a   *)
(* weaker one carries the value's very word as its name.                   *)
EdgeIsMeant ==
    \A e \in edges :
        LET v == raw[e.at]
        IN  CASE e.kind = "external" -> v.names = e.to /\ Url(v)
              [] e.conf = "high" /\ e.kind # "external" -> Means(v) = e.to
              [] OTHER -> v.form = "text" /\ NameOf[e.to] = v.names

(* A bare word is a hint: it reaches at most one node at medium, a key     *)
(* that names a type keeps every other type low, and where the word fits   *)
(* two nodes the ambiguity is said (name, keyHint, specificName).          *)
BareNameIsAHint ==
    \A e \in {x \in edges : raw[x.at].form = "text"} :
        LET rivals == {x \in edges : x.at = e.at /\ x.to # e.to}
            hint == Hint[KeyAt[e.at]]
        IN  /\ e.conf # "high"
            /\ e.conf = "medium" => (hint \in {NoName, TypeOf[e.to]}
                                        /\ \A x \in rivals : x.conf = "low")
            /\ rivals # {} => [on |-> e.from, about |-> raw[e.at].names, at |-> e.at] \in findings

(* Redaction does not blind the linker: what a value in AWS names outright *)
(* and this account has is linked, with or without a password, a token or  *)
(* a signature in it and whatever its key; lost are only a host written    *)
(* without a scheme under a secret's key and a queue's name taken for a    *)
(* token of its URL.                                                       *)
Read(h) == (Positions[h] \ (InSecrets \cup UsedByUri))
LinkedFrom(h, p) == \E e \in edges : e.at = p /\ e.to = Means(raw[p]) /\ e.conf = "high"
SignalIsLinked ==
    \A h \in scanned \ Unreadable : \A p \in Read(h) :
        LET v == raw[p]
        IN  \/ Means(v) \notin Known \ {h}
            \/ v.form = "host" /\ KeyAt[p] \in SecretKeys
            \/ About[v.names].kind = "queue" /\ "path" \in v.shaped
            \/ LinkedFrom(h, p)

(* Every reference read comes to something: an edge or a finding, unless   *)
(* it stays inside the workload, cannot be named, does not parse, was      *)
(* withheld or is a bare AWS endpoint; a holder that could not be read     *)
(* says so.                                                                *)
Accounted(h, p) ==
    LET v == config[p]
        kind == About[v.names].kind
    IN  \/ \E x \in edges \cup findings : x.at = p
        \/ v.form \notin {"arn", "url", "host"}
        \/ kind \in Internal
        \/ v.form = "host" /\ kind = "aws"
        \/ Means(v) = h
NothingReadIsSilent ==
    \A h \in scanned :
        IF h \in Unreadable THEN \E f \in findings : f.on = h
        ELSE \A p \in Read(h) : Accounted(h, p)
=============================================================================
