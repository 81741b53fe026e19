---------------------------- MODULE MCLinkBuilder ----------------------------
(* A worker, the queue it may poll or feed, a table it may read or write,   *)
(* and a queue that was deleted.                                            *)
EXTENDS LinkBuilder

CONSTANT MaxClaims, w, q, t, gone

AllIds == {w, q, t, gone}

Key(a, b, kind) == [from |-> a, to |-> b, kind |-> kind]

Says(op, k, rule, source, conf, status, orElse) ==
  [op |-> op, key |-> k, rule |-> rule, source |-> source, conf |-> conf,
   status |-> status, orElse |-> orElse]

\* Source state is certain, and tells whether the edge is switched on.
Drawn(k, n, statuses) == {Says("edge", k, "tier1", n, Certain, s, FALSE) : s \in statuses}
\* A variable names a target more or less clearly.
Named(k, n) == {Says("edge", k, "config", n, c, Active, FALSE) : c \in {Low, Medium, High}}
\* A statement of the role allows it.
Allowed(k, n) == {Says("permit", k, "iam", n, c, Active, FALSE) : c \in {Low, Medium}}
\* A resource policy speaks of it.
Backed(k, o) == {Says("corroborate", k, "tier1", 1, Low, Active, o)}

QueueMenu ==
  {Drawn(Key(q, w, "consume"), 1, {Disabled, Unsettled, Active}),
   Drawn(Key(q, w, "consume"), 2, {Disabled, Active}),
   Drawn(Key(w, q, "publish"), 1, {Active}),
   Named(Key(w, q, "references"), 1), Allowed(Key(w, q, "references"), 1),
   Allowed(Key(w, q, "publish"), 1), Allowed(Key(q, w, "consume"), 1),
   Backed(Key(w, q, "publish"), TRUE)}

TableMenu ==
  {Named(Key(w, t, "references"), 1), Named(Key(w, t, "references"), 2),
   Allowed(Key(w, t, "read"), 1), Allowed(Key(w, t, "read"), 2),
   Allowed(Key(w, t, "write"), 1), Allowed(Key(w, t, "references"), 1),
   Named(Key(w, gone, "references"), 1),
   Drawn(Key(gone, w, "consume"), 1, {Active})}

\* Up to MaxClaims claims, of which no two give different readings of one
\* variable, one statement or one response.
Consistent(cs) ==
  \A c, d \in cs :
    c.op = d.op /\ c.key = d.key /\ c.rule = d.rule /\ c.source = d.source => c = d

Choices(menu) ==
  {cs \in {{pick[i] : i \in 1 .. MaxClaims} : pick \in [1 .. MaxClaims -> UNION menu]} :
     Consistent(cs)}

SmallClaims == Choices(QueueMenu) \cup Choices(TableMenu)
=============================================================================
