--------------------------- MODULE MCConfiguration --------------------------
(* Values of every form, redacted; and workloads that hold them, linked. *)
EXTENDS Naturals, Configuration

(* A plain and a secret key, and a mapping's; every form of value with and     *)
(* without secrets in it; command lines of up to two arguments.                *)
Value(form, names, shaped) == [form |-> form, names |-> names, shaped |-> shaped, masked |-> {}]
Nothing == "none"
Marker == [Value("text", Nothing, {}) EXCEPT !.masked = {"whole"}]
NoValue == Value("none", Nothing, {})   \* of a flag alone
MCSecretKeys == {"PASSWORD", "token", "DB_PASSWORD"}
MCEnvKeys == {"HOST", "PASSWORD"}
MCMappingKeys == {"token"}
MCKeyValues ==
  {Value("arn", "queue", {}), Value("text", "orders", {}), Value("text", "blob", {"whole"}),
   Value("host", "db", {}), Value("empty", Nothing, {}), Marker,
   Value("url", "api", {"user"}), Value("url", "db", {"password"}),
   Value("url", "hook", {"path", "query", "bare"})}
Arg(flag, v) == [flag |-> flag, value |-> v]
MCArgs ==
  {Arg("token", NoValue), Arg("port", NoValue), Arg("token", Value("text", "t", {})),
   Arg("url", Value("url", "hook", {"path"}))}
  \cup {Arg("", v) : v \in MCKeyValues}
MCArgLists == UNION {[1 .. n -> MCArgs] : n \in 0 .. 2}
MCFew == {Value("text", "orders", {}), Value("url", "db", {"password", "fragment"}), Value("arn", "queue", {}),
          Value("expression", "header", {}), Value("text", "blob", {"whole"}), Value("empty", Nothing, {})}

(* A service with a hinted key, a secret one, a positional argument and a      *)
(* managed secret; a function; an API with a stage variable its URI uses; a    *)
(* workload nothing could be read of.  A table and a queue share a name, and   *)
(* every kind of endpoint has a namesake elsewhere.                            *)
MCHolders == {"service", "fn", "api", "blind"}
MCPositions == [service |-> {"queue", "password", "arg", "secret"}, fn |-> {"env"},
                api |-> {"stage"}, blind |-> {"dark"}]
MCKeyAt == [queue |-> "QUEUE_URL", password |-> "DB_PASSWORD", arg |-> "", secret |-> "DB",
            env |-> "TARGET", stage |-> "VAR", dark |-> "X"]
MCHint == [k \in {"QUEUE_URL", "DB_PASSWORD", "DB", "TARGET", "VAR", "X"} |->
             IF k = "QUEUE_URL" THEN "queue" ELSE Nothing]
AboutOf(kind, id, here) == [kind |-> kind, id |-> id, here |-> here]
MCAbout ==
  [jobs |-> AboutOf("queue", "sqs/jobs", TRUE), jobsElsewhere |-> AboutOf("queue", "sqs/jobs", FALSE),
   table |-> AboutOf("node", "ddb/orders", TRUE), tableElsewhere |-> AboutOf("node", "ddb/orders", FALSE),
   gone |-> AboutOf("node", "sqs/gone", TRUE), bucket |-> AboutOf("other", Nothing, TRUE),
   self |-> AboutOf("node", "fn", TRUE), invoke |-> AboutOf("api", "api", TRUE),
   db |-> AboutOf("rds", "rds/db", TRUE), dbElsewhere |-> AboutOf("rds", "rds/db", FALSE),
   cache |-> AboutOf("cache", "cache/c", TRUE), lb |-> AboutOf("elb", "elb/web", FALSE),
   net |-> AboutOf("nlb", "elb/net", TRUE), furl |-> AboutOf("lambdaUrl", Nothing, TRUE),
   master |-> AboutOf("secret", "rds/db", TRUE), token |-> AboutOf("secret", Nothing, FALSE),
   apikey |-> AboutOf("secret", Nothing, TRUE), port |-> AboutOf("unparsed", Nothing, FALSE),
   sqs |-> AboutOf("aws", Nothing, TRUE), pay |-> AboutOf("public", Nothing, FALSE),
   s3 |-> AboutOf("s3", Nothing, TRUE), mesh |-> AboutOf("nodot", Nothing, TRUE),
   mq |-> AboutOf("broker", Nothing, TRUE), sidecar |-> AboutOf("local", Nothing, TRUE),
   pattern |-> AboutOf("templated", Nothing, TRUE),
   orders |-> AboutOf("word", Nothing, FALSE), audit |-> AboutOf("word", Nothing, FALSE),
   info |-> AboutOf("word", Nothing, FALSE), none |-> AboutOf("word", Nothing, FALSE)]
MCNames == DOMAIN MCAbout \cup {v.names : v \in MCKeyValues \cup MCFew} \cup {"t"}
MCNodes == {"sqs/jobs", "sqs/orders", "sqs/audit-2", "ddb/orders", "ddb/audit-1", "rds/db", "cache/c", "elb/net",
            "lambda/info"}
MCNameOf == [n \in {"sqs/orders", "ddb/orders", "ddb/audit-1", "lambda/info", "sqs/audit-2", "fn"} |->
   CASE n \in {"sqs/orders", "ddb/orders"} -> "orders" [] n = "lambda/info" -> "info"
     [] n = "ddb/audit-1" -> "audit" [] OTHER -> n]
MCTypeOf == [n \in DOMAIN MCNameOf |->
   CASE n \in {"sqs/orders", "sqs/audit-2"} -> "queue" [] n \in {"ddb/orders", "ddb/audit-1"} -> "table"
     [] OTHER -> "function"]
MCSpecific == {"audit"}
Texts == {Value("text", w, {}) : w \in {"orders", "audit", "info"}} \cup {Value("text", "orders", {"whole"})}
Arns == {Value("arn", n, {}) : n \in {"table", "tableElsewhere", "gone", "bucket", "self", "master", "apikey"}}
Urls == {Value("url", n, {}) : n \in {"jobs", "jobsElsewhere", "invoke", "lb", "sqs", "pay", "s3", "mesh",
                                      "sidecar", "pattern", "port"}}
  \cup {Value("url", "jobs", {"query"}), Value("url", "db", {"password"}),
        Value("url", "dbElsewhere", {"password"}), Value("url", "mq", {"password"}),
        Value("url", "pay", {"path", "query"})}
Hosts == {Value("host", n, {}) : n \in {"db", "cache", "lb", "net", "furl", "sqs"}}
Generated == {Value("url", "jobs", {"path"})}
Any == Texts \cup Arns \cup Urls \cup Hosts \cup Generated
Config(q, p, a, s, e) ==
  [queue |-> q, password |-> p, arg |-> a, secret |-> s, env |-> e,
   stage |-> Value("text", "orders", {}), dark |-> Value("text", "info", {})]
Few == {Value("text", "orders", {}), Value("arn", "table", {}), Value("url", "db", {"password"})}
Secrets == {Value("arn", n, {}) : n \in {"master", "apikey"}}
MCConfigurations ==
  {Config(q, p, a, s, e) : q \in Any, p \in Few, a \in Few, s \in Secrets, e \in Few}
  \cup {Config(q, p, a, s, e) : q \in Few, p \in Any, a \in Few, s \in Secrets, e \in Few}
  \cup {Config(q, p, a, s, e) : q \in Few, p \in Few, a \in Few, s \in Secrets, e \in Any}
=============================================================================
