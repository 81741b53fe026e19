-------------------------- MODULE CollectorsProofs --------------------------
(***************************************************************************)
(* What holds of each collector for every account it may read, whatever    *)
(* the account loses meanwhile and however its calls end: what it has      *)
(* learnt of is emitted, given up with a warning or gone, a denial costs   *)
(* its own part, and all of them keep the promise behind Collector.        *)
(***************************************************************************)
EXTENDS Collectors, FiniteSetTheorems, WellFoundedInduction, TLAPS

\* A set of numbers has a least one: the resource whose turn it is.
LEMMA LeastIn ==
  ASSUME NEW S \in SUBSET Nat, S # {}
  PROVE  \A d \in {Each!Min(S), Iam!Min(S), Joined!Min(S)} : d \in S /\ \A e \in S : d <= e
<1>1. PICK d \in S : \A e \in S : ~(<<e, d>> \in OpToRel(<, Nat))
  BY WFMin, NatLessThanWellFounded
<1>2. \A e \in S : <<e, d>> \in OpToRel(<, Nat) <=> e < d
  BY DEF OpToRel
<1>3. \A e \in S : ~(e < d)
  BY <1>1, <1>2
<1>4. d \in Nat /\ S \subseteq Nat
  OBVIOUS
<1>5. \A e \in S : d <= e
  BY <1>3, <1>4
<1> QED BY <1>5 DEF Each!Min, Iam!Min, Joined!Min
-----------------------------------------------------------------------------
(* The seven collectors of ReadEach. *)

\* What the pages before p listed.
Past(p) == UNION {Pages[k] : k \in 1 .. (p - 1)}

\* What was listed is emitted, given up or still to do, and only one of these;
EachHeld ==
  /\ Each!Emitted \cup lost \cup todo \subseteq Past(page)
  /\ todo \cap (Each!Emitted \cup lost) = {}
  /\ <<"List", 0>> \notin warnings =>
       alive \cap Past(page) \subseteq todo \cup Each!Emitted \cup lost
  /\ result = "nil" => todo = {} /\ page = Len(Pages) + 1
  /\ step = 0 => IF Each!Row.byPage THEN todo = {} ELSE Each!Emitted = {} /\ lost = {}
  /\ step > 0 => Each!Row.byPage \/ page = Len(Pages) + 1

\* what a resource was denied is known of it while its turn lasts, and of nothing
\* that is still to come.
Turned == step > 0 /\ todo # {}
EachCharged ==
  /\ \A w \in warnings : w # <<"List", 0>> =>
       \/ w[2] \in Each!Emitted \cup lost
       \/ Turned /\ w[2] = Each!Current
  /\ lacks = IF Turned THEN {w[1] : w \in {x \in warnings : x[2] = Each!Current}} ELSE {}
  /\ step = 1 => lacks = {}
  /\ service \in {"Lambda", "SNS"} => lacks \ {"ListTagsForResource"} = unread

EachInv ==
  /\ Each!TypeOK /\ EachHeld /\ EachCharged
  /\ Each!DenialCostsItsPart /\ Each!UnreadIsMarked

\* What the rows have in common: a resource is given up at its first call or never,
\* and a function's policy and a topic's attributes and subscriptions are marked.
LEMMA RowsAre ==
  ASSUME NEW s \in DOMAIN Each!Rows, NEW i \in 1 .. Len(Each!Rows[s].calls)
  PROVE  LET call == Each!Rows[s].calls[i] IN
         /\ Len(Each!Rows[s].calls) \in Nat
         /\ call.denied \in {"skip", "without", "unread"}
         /\ call.gone \in {"fail", "skip", "none"}
         /\ call.denied = "skip" \/ call.gone = "skip" => i = 1
         /\ s \in {"Lambda", "SNS"} =>
              (call.denied = "unread" <=> call.op # "ListTagsForResource")
<1> USE DEF Each!Rows, Each!Call
<1>1. CASE s = "SQS" BY <1>1 DEF Each!Sqs
<1>2. CASE s = "DynamoDB" BY <1>2 DEF Each!DynamoDB
<1>3. CASE s = "SNS" BY <1>3 DEF Each!Sns
<1>4. CASE s = "Lambda" BY <1>4 DEF Each!Lambda
<1>5. CASE s = "Mappings" BY <1>5 DEF Each!Mappings
<1>6. CASE s = "RestApis" BY <1>6 DEF Each!RestApis
<1>7. CASE s = "HttpApis" BY <1>7 DEF Each!HttpApis
<1> QED BY <1>1, <1>2, <1>3, <1>4, <1>5, <1>6, <1>7
\* Pages are listed one after the other until every resource has been.
LEMMA PagesAre ==
  /\ Len(Pages) \in Nat /\ 0 \notin Resources /\ Resources \subseteq Nat
  /\ Past(1) = {}
  /\ \A p \in 1 .. Len(Pages) :
       /\ Pages[p] \subseteq Resources /\ Past(p) \cap Pages[p] = {}
       /\ Past(p + 1) = Past(p) \cup Pages[p]
  /\ Past(Len(Pages) + 1) = Resources
  /\ \A p \in 1 .. (Len(Pages) + 1) : Past(p) \subseteq Resources
<1>1. /\ Len(Pages) \in Nat /\ DOMAIN Pages = 1 .. Len(Pages)
      /\ \A k \in 1 .. Len(Pages) : Pages[k] \subseteq Resources
      /\ Resources \subseteq Nat \ {0} /\ UNION {Pages[i] : i \in 1 .. Len(Pages)} = Resources
      /\ \A i, j \in 1 .. Len(Pages) : i # j => Pages[i] \cap Pages[j] = {}
  BY CollectorsAssumption DEF Each!PageAssumption
<1>2. \A p, x : x \in Past(p) <=> \E k \in 1 .. (p - 1) : x \in Pages[k]
  BY DEF Past
<1>3. Past(1) = {}
  BY <1>2
<1>4. ASSUME NEW p \in 1 .. Len(Pages)
      PROVE  Past(p) \cap Pages[p] = {} /\ Past(p + 1) = Past(p) \cup Pages[p]
  <2>1. Past(p) \cap Pages[p] = {}
    BY <1>1, <1>2, <1>4
  <2>2. \A k : k \in 1 .. ((p + 1) - 1) <=> k \in 1 .. (p - 1) \/ k = p
    BY <1>1, <1>4
  <2>3. \A x : x \in Past(p + 1) <=> x \in Past(p) \cup Pages[p]
    BY <1>2, <2>2
  <2> QED BY <2>1, <2>3
<1>5. Past(Len(Pages) + 1) = Resources
  <2>1. 1 .. ((Len(Pages) + 1) - 1) = 1 .. Len(Pages)
    BY <1>1
  <2> QED BY <1>1, <2>1 DEF Past
<1>6. \A p \in 1 .. (Len(Pages) + 1) : Past(p) \subseteq Resources
  BY <1>1, <1>2
<1> QED BY <1>1, <1>3, <1>4, <1>5, <1>6

\* The resource whose turn it is is one of those to do.
LEMMA CurrentIsDue ==
  ASSUME Each!TypeOK, todo # {}
  PROVE  Each!Current \in todo /\ Each!Current \in Resources /\ Each!Current # 0
<1>1. todo \in SUBSET Nat /\ todo \subseteq Resources
  BY PagesAre DEF Each!TypeOK
<1> QED BY <1>1, LeastIn, PagesAre DEF Each!Current

LEMMA EachBegins == Each!Init => EachInv
<1> SUFFICES ASSUME Each!Init PROVE EachInv
  OBVIOUS
<1>1. Len(Each!Row.calls) \in Nat
  <2>1. \A s \in DOMAIN Each!Rows : Len(Each!Rows[s].calls) \in Nat
    BY DEF Each!Rows, Each!Sqs, Each!DynamoDB, Each!Sns, Each!Lambda, Each!Mappings,
           Each!RestApis, Each!HttpApis
  <2> QED BY <2>1 DEF Each!Init, Each!Row
<1>2. Each!Emitted = {}
  BY DEF Each!Init, Each!Emitted
<1>3. Each!TypeOK
  BY <1>1, <1>2, PagesAre DEF Each!Init, Each!TypeOK
<1>4. EachHeld
  BY <1>2, PagesAre DEF Each!Init, EachHeld
<1>5. EachCharged
  BY DEF Each!Init, EachCharged, Turned
<1> QED BY <1>3, <1>4, <1>5
       DEF EachInv, Each!Init, Each!DenialCostsItsPart, Each!UnreadIsMarked

\* Nothing but the account changes.
LEMMA EachDelete ==
  ASSUME EachInv, NEW r, Each!Delete(r)
  PROVE  EachInv'
<1> USE DEF Each!Delete, Each!reading
<1>1. Each!Emitted' = Each!Emitted /\ Each!Row' = Each!Row /\ Each!Current' = Each!Current
  BY DEF Each!Emitted, Each!Row, Each!Current
<1>2. Each!TypeOK'
  BY <1>1 DEF EachInv, Each!TypeOK
<1>3. EachHeld'
  BY <1>1 DEF EachInv, EachHeld
<1>4. EachCharged'
  BY <1>1 DEF EachInv, EachCharged, Turned
<1>5. Each!DenialCostsItsPart' /\ Each!UnreadIsMarked'
  BY <1>1 DEF EachInv, Each!DenialCostsItsPart, Each!UnreadIsMarked
<1> QED BY <1>2, <1>3, <1>4, <1>5 DEF EachInv

\* At the start of a turn nothing is known of what is still to come.
LEMMA TurnBegins ==
  ASSUME Each!TypeOK', EachHeld', (step \in {0, 1} /\ lacks = {} /\ unread = {})',
         (\A w \in warnings : w # <<"List", 0>> => w[2] \in Each!Emitted \cup lost)'
  PROVE  EachCharged'
<1>1. ASSUME Turned' PROVE {x \in warnings' : x[2] = Each!Current'} = {}
  <2>1. todo' \in SUBSET Nat /\ todo' # {} /\ todo' \subseteq Resources
    BY <1>1, PagesAre DEF Each!TypeOK, Turned
  <2>2. Each!Min(todo') \in todo'
    BY <2>1, LeastIn
  <2>3. Each!Current' \in todo' /\ Each!Current' # 0
    BY <2>1, <2>2, PagesAre DEF Each!Current
  <2>4. Each!Current' \notin (Each!Emitted \cup lost)'
    BY <2>3 DEF EachHeld
  <2>5. \A x \in warnings' : x = <<"List", 0>> => x[2] = 0
    OBVIOUS
  <2> QED BY <2>3, <2>4, <2>5
<1>2. lacks' = IF Turned' THEN {w[1] : w \in {x \in warnings' : x[2] = Each!Current'}} ELSE {}
  BY <1>1
<1> QED BY <1>2 DEF EachCharged

LEMMA EachListPage ==
  ASSUME EachInv, Each!ListPage
  PROVE  EachInv'
<1> USE DEF Each!ListPage, Each!Listing, Each!reading
<1>1. /\ Each!Emitted' = Each!Emitted /\ Each!Row' = Each!Row
      /\ page \in 1 .. Len(Pages) /\ page' = page + 1 /\ step = 0 /\ result = "running"
  BY DEF EachInv, Each!TypeOK, Each!Emitted, Each!Row
<1>2. /\ Pages[page] \subseteq Resources /\ Past(page) \cap Pages[page] = {}
      /\ Past(page') = Past(page) \cup Pages[page]
      /\ Len(Pages) \in Nat
  BY <1>1, PagesAre
<1>3. Len(Each!Row.calls) \in Nat
  BY DEF EachInv, Each!TypeOK, Each!Rows, Each!Row, Each!Sqs, Each!DynamoDB, Each!Sns,
         Each!Lambda, Each!Mappings, Each!RestApis, Each!HttpApis
<1>4. Each!TypeOK'
  <2>1. todo' \subseteq Resources
    BY <1>2 DEF EachInv, Each!TypeOK
  <2>2. page' \in 1 .. (Len(Pages) + 1)
    BY <1>1, <1>2
  <2>3. step' \in 0 .. (Len(Each!Row.calls) + 1)
    BY <1>3
  <2> QED BY <1>1, <2>1, <2>2, <2>3 DEF EachInv, Each!TypeOK
<1>5. EachHeld'
  <2>1. (Each!Emitted \cup lost \cup todo \subseteq Past(page))'
    BY <1>1, <1>2 DEF EachInv, EachHeld
  <2>2. (todo \cap (Each!Emitted \cup lost) = {})'
    BY <1>1, <1>2 DEF EachInv, EachHeld
  <2>3. (<<"List", 0>> \notin warnings =>
          alive \cap Past(page) \subseteq todo \cup Each!Emitted \cup lost)'
    BY <1>1, <1>2 DEF EachInv, EachHeld
  <2>4. (step = 0 => IF Each!Row.byPage THEN todo = {} ELSE Each!Emitted = {} /\ lost = {})'
    BY <1>1 DEF EachInv, EachHeld
  <2> QED BY <1>1, <2>1, <2>2, <2>3, <2>4 DEF EachHeld
<1>6. EachCharged'
  <2>1. \A w \in warnings : w # <<"List", 0>> => w[2] \in Each!Emitted \cup lost
    BY <1>1 DEF EachInv, EachCharged, Turned
  <2>2. lacks = {}
    BY <1>1 DEF EachInv, EachCharged, Turned
  <2>3. unread = {} /\ step' \in {0, 1}
    BY <2>2 DEF EachInv, Each!TypeOK
  <2>4. (\A w \in warnings : w # <<"List", 0>> => w[2] \in Each!Emitted \cup lost)'
    BY <1>1, <2>1
  <2> QED BY <1>4, <1>5, <2>2, <2>3, <2>4, TurnBegins
<1>7. Each!DenialCostsItsPart' /\ Each!UnreadIsMarked'
  BY <1>1 DEF EachInv, Each!DenialCostsItsPart, Each!UnreadIsMarked
<1> QED BY <1>4, <1>5, <1>6, <1>7 DEF EachInv
\* A denied page gives up what the listing had, or lets it be read.
LEMMA EachDenyPage ==
  ASSUME EachInv, Each!DenyPage
  PROVE  EachInv'
<1> USE DEF Each!DenyPage, Each!Listing, Each!reading
<1>1. /\ Each!Emitted' = Each!Emitted /\ Each!Row' = Each!Row
      /\ step = 0 /\ result = "running" /\ <<"List", 0>> \in warnings'
  BY DEF Each!Emitted, Each!Row
<1>2. /\ Past(page) \subseteq Resources /\ Past(page') = Resources /\ Len(Pages) \in Nat
      /\ 0 \notin Resources
  BY PagesAre DEF EachInv, Each!TypeOK
<1>3. Len(Each!Row.calls) \in Nat
  BY DEF EachInv, Each!TypeOK, Each!Rows, Each!Row, Each!Sqs, Each!DynamoDB, Each!Sns,
         Each!Lambda, Each!Mappings, Each!RestApis, Each!HttpApis
<1>4. Each!TypeOK'
  BY <1>1, <1>2, <1>3 DEF EachInv, Each!TypeOK
<1>5. Each!Row.keeps \/ lost = {}
  <2>1. Each!Row.keeps \/ ~Each!Row.byPage
    BY DEF EachInv, Each!TypeOK, Each!Rows, Each!Row, Each!Sqs, Each!DynamoDB, Each!Sns,
           Each!Lambda, Each!Mappings, Each!RestApis, Each!HttpApis
  <2> QED BY <1>1, <2>1 DEF EachInv, EachHeld
<1>6. EachHeld'
  <2>1. (Each!Emitted \cup lost \cup todo \subseteq Past(page))'
    BY <1>1, <1>2 DEF EachInv, EachHeld
  <2>2. (todo \cap (Each!Emitted \cup lost) = {})'
    BY <1>1 DEF EachInv, EachHeld
  <2> QED BY <1>1, <2>1, <2>2 DEF EachHeld
<1>7. lost \subseteq lost' /\ \A r \in lost' : r \in lost \/ <<"List", 0>> \in warnings'
  BY <1>1, <1>5
<1>8. EachCharged'
  <2>1. lacks = {} /\ unread = {}
    BY <1>1 DEF EachInv, EachCharged, Turned, Each!TypeOK
  <2>2. \A w \in warnings : w # <<"List", 0>> => w[2] \in Each!Emitted \cup lost
    BY <1>1 DEF EachInv, EachCharged, Turned
  <2>3. (\A w \in warnings : w # <<"List", 0>> => w[2] \in Each!Emitted \cup lost)'
    BY <1>1, <1>7, <2>2
  <2> QED BY <1>4, <1>6, <2>1, <2>3, TurnBegins
<1>9. Each!DenialCostsItsPart'
  <2>1. \A e \in emitted : e.id \in Resources
    BY DEF EachInv, Each!TypeOK, Each!Emitted
  <2>2. \A e \in emitted : {x \in warnings' : x[2] = e.id} = {x \in warnings : x[2] = e.id}
    BY <1>2, <2>1
  <2>3. \A e \in emitted' : e.lacks = {w[1] : w \in {x \in warnings' : x[2] = e.id}}
    BY <2>2 DEF EachInv, Each!DenialCostsItsPart
  <2> QED BY <1>1, <2>3 DEF Each!DenialCostsItsPart
<1>10. Each!UnreadIsMarked'
  BY DEF EachInv, Each!UnreadIsMarked
<1> QED BY <1>4, <1>6, <1>8, <1>9, <1>10 DEF EachInv

LEMMA EachOk ==
  ASSUME EachInv, Each!Ok
  PROVE  EachInv'
<1> USE DEF Each!Ok, Each!Asking, Each!reading
<1>1. /\ Each!Emitted' = Each!Emitted /\ Each!Row' = Each!Row /\ Each!Current' = Each!Current
      /\ step \in 1 .. Len(Each!Row.calls) /\ step' = step + 1 /\ todo # {}
  BY DEF Each!Emitted, Each!Row, Each!Current
<1>2. Len(Each!Row.calls) \in Nat
  BY <1>1, RowsAre DEF EachInv, Each!TypeOK, Each!Row
<1>3. step' \in 0 .. (Len(Each!Row.calls) + 1) /\ step' # 0 /\ step' # 1 /\ step' > 0 /\ step > 0
  BY <1>1, <1>2
<1>4. Each!TypeOK'
  BY <1>1, <1>3 DEF EachInv, Each!TypeOK
<1>5. EachHeld'
  BY <1>1, <1>3 DEF EachInv, EachHeld
<1>6. EachCharged'
  BY <1>1, <1>3 DEF EachInv, EachCharged, Turned
<1>7. Each!DenialCostsItsPart' /\ Each!UnreadIsMarked'
  BY <1>1 DEF EachInv, Each!DenialCostsItsPart, Each!UnreadIsMarked
<1> QED BY <1>4, <1>5, <1>6, <1>7 DEF EachInv

\* The turn of a resource that is emitted, given up or gone ends.
LEMMA EachAdvances ==
  ASSUME EachInv, Each!Advance, step > 0, todo # {},
         UNCHANGED <<service, alive, page, result>>, result = "running",
         Each!Emitted' \cup lost' \subseteq Each!Emitted \cup lost \cup {Each!Current},
         Each!Emitted \subseteq Each!Emitted', lost \subseteq lost',
         Each!Current \in alive => Each!Current \in Each!Emitted' \cup lost',
         warnings \subseteq warnings',
         \A w \in warnings' \ warnings : w[2] = Each!Current,
         \A w \in warnings' : w[2] = Each!Current => Each!Current \in Each!Emitted' \cup lost'
  PROVE  Each!TypeOK' /\ EachHeld' /\ EachCharged'
<1> USE DEF Each!Advance
<1>1. Each!Row' = Each!Row /\ Each!Current \in todo /\ Each!Current \in Resources /\ Each!Current # 0
  BY CurrentIsDue DEF Each!Row, EachInv
<1>2. Len(Each!Row.calls) \in Nat
  BY DEF EachInv, Each!TypeOK, Each!Rows, Each!Row, Each!Sqs, Each!DynamoDB, Each!Sns,
         Each!Lambda, Each!Mappings, Each!RestApis, Each!HttpApis
<1>3. Each!TypeOK'
  <2>1. step' \in 0 .. (Len(Each!Row.calls) + 1)
    BY <1>2
  <2>2. Each!Emitted' \subseteq Resources /\ lost' \subseteq Resources /\ todo' \subseteq Resources
    BY <1>1 DEF EachInv, Each!TypeOK
  <2> QED BY <1>1, <2>1, <2>2 DEF EachInv, Each!TypeOK
<1>4. EachHeld'
  <2>1. Past(page)' = Past(page)
    BY DEF Past
  <2>2. Each!Current \in Past(page) /\ Each!Current \notin todo'
    BY <1>1 DEF EachInv, EachHeld
  <2>3. (Each!Emitted \cup lost \cup todo)' \subseteq Past(page)
    BY <2>2 DEF EachInv, EachHeld
  <2>4. (todo \cap (Each!Emitted \cup lost) = {})'
    BY <2>2 DEF EachInv, EachHeld
  <2>5. ASSUME <<"List", 0>> \notin warnings'
        PROVE  alive \cap Past(page) \subseteq (todo \cup Each!Emitted \cup lost)'
    <3>1. alive \cap Past(page) \subseteq todo \cup Each!Emitted \cup lost
      BY <2>5 DEF EachInv, EachHeld
    <3> QED BY <3>1
  <2>6. (step > 0 => Each!Row.byPage \/ page = Len(Pages) + 1)'
    BY <1>1 DEF EachInv, EachHeld
  <2> QED BY <2>1, <2>3, <2>4, <2>5, <2>6 DEF EachHeld
<1>5. EachCharged'
  <2>1. (\A w \in warnings : w # <<"List", 0>> => w[2] \in Each!Emitted \cup lost)'
    <3> SUFFICES ASSUME NEW w \in warnings', w # <<"List", 0>>
                 PROVE  w[2] \in Each!Emitted' \cup lost'
      OBVIOUS
    <3>1. w[2] = Each!Current \/ w[2] \in Each!Emitted \cup lost
      BY DEF EachInv, EachCharged
    <3> QED BY <3>1
  <2> QED BY <1>3, <1>4, <2>1, TurnBegins
<1> QED BY <1>3, <1>4, <1>5
\* A denied call costs the resource, or what it would have read of it.
LEMMA EachDenied ==
  ASSUME EachInv, Each!Denied
  PROVE  EachInv'
<1> DEFINE r == Each!Current
           call == Each!Row.calls[step]
           new == <<call.op, r>>
<1>1. /\ Each!Emitted' = Each!Emitted /\ Each!Row' = Each!Row
      /\ step \in 1 .. Len(Each!Row.calls) /\ todo # {} /\ result = "running"
      /\ UNCHANGED <<service, alive, page, emitted, result>>
      /\ warnings' = warnings \cup {new}
  BY DEF Each!Denied, Each!Asking, Each!Emitted, Each!Row
<1>2. /\ Len(Each!Row.calls) \in Nat
      /\ call.denied = "skip" => step = 1
      /\ service \in {"Lambda", "SNS"} =>
           (call.denied = "unread" <=> call.op # "ListTagsForResource") /\ call.denied # "skip"
  <2>1. service \in DOMAIN Each!Rows /\ Each!Row = Each!Rows[service]
    BY DEF EachInv, Each!TypeOK, Each!Row
  <2>2. /\ Len(Each!Row.calls) \in Nat
        /\ call.denied = "skip" => step = 1
        /\ service \in {"Lambda", "SNS"} =>
             (call.denied = "unread" <=> call.op # "ListTagsForResource")
    BY <1>1, <2>1, RowsAre
  <2>3. service \in {"Lambda", "SNS"} => call.denied # "skip"
    <3>1. CASE service = "SNS"
      BY <1>1, <2>1, <3>1 DEF Each!Rows, Each!Sns, Each!Call
    <3>2. CASE service = "Lambda"
      BY <1>1, <2>1, <3>2 DEF Each!Rows, Each!Lambda, Each!Call
    <3> QED BY <3>1, <3>2
  <2> QED BY <2>2, <2>3
<1>3. /\ r \in todo /\ r \in Resources /\ r # 0 /\ r \notin Each!Emitted \cup lost
      /\ new[1] = call.op /\ new[2] = r /\ step > 0 /\ Turned
  BY <1>1, CurrentIsDue DEF EachInv, EachHeld, Turned
<1>4. lacks = {w[1] : w \in {x \in warnings : x[2] = r}} /\ unread \subseteq lacks
  BY <1>3 DEF EachInv, EachCharged, Each!TypeOK
<1>5. \A e \in emitted : {x \in warnings' : x[2] = e.id} = {x \in warnings : x[2] = e.id}
  <2>1. \A e \in emitted : e.id # r
    BY <1>3 DEF Each!Emitted
  <2> QED BY <1>1, <1>3, <2>1
<1>6. Each!UnreadIsMarked'
  BY <1>1 DEF EachInv, Each!UnreadIsMarked
<1>7. \A e \in emitted' : e.lacks = {w[1] : w \in {x \in warnings' : x[2] = e.id}}
  BY <1>1, <1>5 DEF EachInv, Each!DenialCostsItsPart
<1>8. CASE call.denied = "skip"
  <2>1. Each!Advance /\ lost' = lost \cup {r} /\ step = 1
    BY <1>2, <1>8 DEF Each!Denied
  <2>2. Each!TypeOK' /\ EachHeld' /\ EachCharged'
    <3>1. Each!Emitted' \cup lost' \subseteq Each!Emitted \cup lost \cup {Each!Current}
      BY <1>1, <2>1
    <3>2. Each!Current \in Each!Emitted' \cup lost'
      BY <2>1
    <3>3. \A w \in warnings' \ warnings : w[2] = Each!Current
      BY <1>1, <1>3
    <3> QED BY <1>1, <1>3, <2>1, <3>1, <3>2, <3>3, EachAdvances
  <2>3. \A x \in lost' : <<"List", 0>> \in warnings' \/ <<Each!Row'.calls[1].op, x>> \in warnings'
    <3> SUFFICES ASSUME NEW x \in lost'
                 PROVE  <<"List", 0>> \in warnings' \/ <<Each!Row.calls[1].op, x>> \in warnings'
      BY <1>1
    <3>1. CASE x = r
      BY <1>1, <2>1, <3>1
    <3>2. CASE x \in lost
      BY <1>1, <3>2 DEF EachInv, Each!DenialCostsItsPart
    <3> QED BY <2>1, <3>1, <3>2
  <2> QED BY <1>6, <1>7, <2>2, <2>3 DEF EachInv, Each!DenialCostsItsPart
<1>9. CASE call.denied # "skip"
  <2>1. /\ step' = step + 1 /\ lacks' = lacks \cup {call.op} /\ UNCHANGED <<todo, lost>>
        /\ unread' = IF call.denied = "unread" THEN unread \cup {call.op} ELSE unread
    BY <1>9 DEF Each!Denied
  <2>2. step' \in 0 .. (Len(Each!Row.calls) + 1) /\ step' # 0 /\ step' # 1 /\ step' > 0
    BY <1>1, <1>2, <2>1
  <2>3. Each!TypeOK'
    BY <1>1, <1>4, <2>1, <2>2 DEF EachInv, Each!TypeOK
  <2>4. EachHeld'
    <3>1. <<"List", 0>> \notin warnings' => <<"List", 0>> \notin warnings
      BY <1>1
    <3>2. Past(page)' = Past(page)
      BY <1>1 DEF Past
    <3> QED BY <1>1, <2>1, <2>2, <3>1, <3>2 DEF EachInv, EachHeld
  <2>5. EachCharged'
    <3>1. Turned' /\ Each!Current' = r
      BY <1>1, <2>1, <2>2 DEF Turned, Each!Current
    <3>2. \A w \in warnings' : w # <<"List", 0>> => w[2] \in Each!Emitted \cup lost \/ w[2] = r
      BY <1>1, <1>3 DEF EachInv, EachCharged
    <3>3. {x \in warnings' : x[2] = r} = {x \in warnings : x[2] = r} \cup {new}
      BY <1>1, <1>3
    <3>4. lacks' = {w[1] : w \in {x \in warnings' : x[2] = r}}
      BY <1>3, <1>4, <2>1, <3>3
    <3>5. service \in {"Lambda", "SNS"} => lacks' \ {"ListTagsForResource"} = unread'
      BY <1>2, <2>1 DEF EachInv, EachCharged
    <3> HIDE DEF r, call, new
    <3> QED BY <1>1, <2>1, <2>2, <3>1, <3>2, <3>4, <3>5 DEF EachCharged
  <2>6. \A x \in lost' : <<"List", 0>> \in warnings' \/ <<Each!Row'.calls[1].op, x>> \in warnings'
    BY <1>1, <2>1 DEF EachInv, Each!DenialCostsItsPart
  <2> QED BY <1>6, <1>7, <2>3, <2>4, <2>5, <2>6 DEF EachInv, Each!DenialCostsItsPart
<1> QED BY <1>8, <1>9

\* What is not found is passed over, or has none of what was asked for.
LEMMA EachNotFound ==
  ASSUME EachInv, Each!NotFound
  PROVE  EachInv'
<1> DEFINE r == Each!Current
           call == Each!Row.calls[step]
<1>1. /\ Each!Emitted' = Each!Emitted /\ Each!Row' = Each!Row
      /\ step \in 1 .. Len(Each!Row.calls) /\ todo # {} /\ result = "running"
      /\ UNCHANGED <<service, alive, page, emitted, lost, warnings, result>>
  BY DEF Each!NotFound, Each!Asking, Each!Emitted, Each!Row
<1>2. Len(Each!Row.calls) \in Nat /\ (call.gone = "skip" => step = 1)
  BY <1>1, RowsAre DEF EachInv, Each!TypeOK, Each!Row
<1>3. Each!DenialCostsItsPart' /\ Each!UnreadIsMarked'
  BY <1>1 DEF EachInv, Each!DenialCostsItsPart, Each!UnreadIsMarked
<1>4. CASE call.gone = "skip" /\ r \notin alive /\ Each!Advance
  <2>1. step = 1 /\ step > 0 /\ Turned
    BY <1>1, <1>2, <1>4 DEF Turned
  <2>2. \A w \in warnings : w[2] # r
    <3>1. {w[1] : w \in {x \in warnings : x[2] = r}} = {}
      BY <2>1 DEF EachInv, EachCharged
    <3> QED BY <3>1
  <2>3. Each!TypeOK' /\ EachHeld' /\ EachCharged'
    BY <1>1, <1>4, <2>1, <2>2, EachAdvances
  <2> QED BY <1>3, <2>3 DEF EachInv
<1>5. CASE step' = step + 1 /\ UNCHANGED <<todo, Each!reading>>
  <2>1. step' \in 0 .. (Len(Each!Row.calls) + 1) /\ step' # 0 /\ step' # 1 /\ step' > 0 /\ step > 0
    BY <1>1, <1>2, <1>5
  <2>2. Each!Current' = Each!Current /\ Past(page)' = Past(page)
    BY <1>1, <1>5 DEF Each!Current, Past
  <2>3. Each!TypeOK'
    BY <1>1, <1>5, <2>1 DEF EachInv, Each!TypeOK, Each!reading
  <2>4. EachHeld'
    BY <1>1, <1>5, <2>1, <2>2 DEF EachInv, EachHeld
  <2>5. EachCharged'
    BY <1>1, <1>5, <2>1, <2>2 DEF EachInv, EachCharged, Turned, Each!reading
  <2> QED BY <1>3, <2>3, <2>4, <2>5 DEF EachInv
<1> QED BY <1>4, <1>5 DEF Each!NotFound

LEMMA EachEmit ==
  ASSUME EachInv, Each!Emit
  PROVE  EachInv'
<1> DEFINE r == Each!Current
           new == [id |-> r, lacks |-> lacks, unread |-> unread]
<1>1. /\ Each!Row' = Each!Row /\ todo # {} /\ result = "running" /\ Each!Advance
      /\ step = Len(Each!Row.calls) + 1 /\ emitted' = emitted \cup {new}
      /\ UNCHANGED <<service, alive, page, lost, warnings, result>>
  BY DEF Each!Emit, Each!Row
<1>2. step > 0 /\ Turned
  <2>1. Len(Each!Row.calls) \in Nat
    BY DEF EachInv, Each!TypeOK, Each!Rows, Each!Row, Each!Sqs, Each!DynamoDB, Each!Sns,
           Each!Lambda, Each!Mappings, Each!RestApis, Each!HttpApis
  <2>2. step = Len(Each!Row.calls) + 1 /\ todo # {}
    BY <1>1
  <2>3. step > 0
    BY <2>1, <2>2
  <2> QED BY <2>2, <2>3 DEF Turned
<1>3. Each!Emitted' = Each!Emitted \cup {r}
  <2>1. emitted' = emitted \cup {new} /\ new.id = r
    BY <1>1
  <2> HIDE DEF new, r
  <2> QED BY <2>1 DEF Each!Emitted
<1>4. Each!TypeOK' /\ EachHeld' /\ EachCharged'
  BY <1>1, <1>2, <1>3, EachAdvances
<1>5. Each!DenialCostsItsPart'
  <2>1. new.lacks = {w[1] : w \in {x \in warnings : x[2] = new.id}}
    BY <1>2 DEF EachInv, EachCharged
  <2> QED BY <1>1, <2>1 DEF EachInv, Each!DenialCostsItsPart
<1>6. Each!UnreadIsMarked'
  BY <1>1 DEF EachInv, EachCharged, Each!UnreadIsMarked
<1> QED BY <1>4, <1>5, <1>6 DEF EachInv

\* An error ends it where it is.
LEMMA EachEnds ==
  ASSUME EachInv,
         UNCHANGED <<service, alive, page, todo, step, Each!reading, emitted, lost, warnings>>,
         result' = "error" \/ result' = result
  PROVE  EachInv'
<1> USE DEF Each!reading
<1>1. /\ Each!Emitted' = Each!Emitted /\ Each!Row' = Each!Row /\ Each!Current' = Each!Current
      /\ Past(page)' = Past(page)
  BY DEF Each!Emitted, Each!Row, Each!Current, Past
<1>2. Each!TypeOK' /\ EachHeld'
  BY <1>1 DEF EachInv, Each!TypeOK, EachHeld
<1>3. EachCharged'
  BY <1>1 DEF EachInv, EachCharged, Turned
<1>4. Each!DenialCostsItsPart' /\ Each!UnreadIsMarked'
  BY <1>1 DEF EachInv, Each!DenialCostsItsPart, Each!UnreadIsMarked
<1> QED BY <1>2, <1>3, <1>4 DEF EachInv

\* Only when the last page has been asked for does an empty loop end it.
LEMMA EachTurn ==
  ASSUME EachInv, Each!Turn
  PROVE  EachInv'
<1> USE DEF Each!Turn, Each!reading
<1>1. /\ Each!Emitted' = Each!Emitted /\ Each!Row' = Each!Row /\ Past(page)' = Past(page)
      /\ todo = {} /\ UNCHANGED <<service, alive, page, todo, emitted, lost, warnings>>
      /\ step > 0 /\ Len(Pages) \in Nat /\ page \in 1 .. (Len(Pages) + 1)
  BY PagesAre DEF Each!Emitted, Each!Row, Past, EachInv, Each!TypeOK
<1>2. Each!TypeOK'
  BY <1>1 DEF EachInv, Each!TypeOK
<1>3. EachHeld'
  <2>1. result' = "nil" => page' = Len(Pages) + 1
    BY <1>1 DEF EachInv, EachHeld
  <2>2. step' = 0 => Each!Row.byPage
    BY <1>1 DEF EachInv, EachHeld
  <2>3. step' > 0 => step' = step
    BY <1>1
  <2> QED BY <1>1, <2>1, <2>2, <2>3 DEF EachInv, EachHeld
<1>4. EachCharged'
  <2>1. lacks' = {} /\ ~Turned /\ ~Turned'
    BY <1>1 DEF EachInv, EachCharged, Turned
  <2> QED BY <1>1, <2>1 DEF EachInv, EachCharged
<1>5. Each!DenialCostsItsPart' /\ Each!UnreadIsMarked'
  BY <1>1 DEF EachInv, Each!DenialCostsItsPart, Each!UnreadIsMarked
<1> QED BY <1>2, <1>3, <1>4, <1>5 DEF EachInv

\* Everything a listing had is emitted, unless there is a warning.
LEMMA EachIsComplete == EachInv => Each!Complete
<1> SUFFICES ASSUME EachInv, result = "nil", warnings = {} PROVE alive \subseteq Each!Emitted
  BY DEF Each!Complete
<1>1. lost = {} /\ todo = {} /\ page = Len(Pages) + 1
  BY DEF EachInv, EachHeld, Each!DenialCostsItsPart
<1>2. alive \subseteq Past(page)
  BY <1>1, PagesAre DEF EachInv, Each!TypeOK
<1> QED BY <1>1, <1>2 DEF EachInv, EachHeld

\* Every step of the seven.
LEMMA EachSteps ==
  ASSUME EachInv, Each!Next
  PROVE  EachInv'
<1>1. CASE Each!Fail \/ Each!Done
  BY <1>1, EachEnds DEF Each!Fail, Each!Done, Each!vars
<1> QED BY <1>1, EachDelete, EachListPage, EachDenyPage, EachOk, EachDenied, EachNotFound,
           EachEmit, EachTurn DEF Each!Next
-----------------------------------------------------------------------------
(* The IAM collector. *)

\* What the pages of a listing before p had.
Upto(pages, p) == UNION {pages[k] : k \in 1 .. (p - 1)}

\* A spec with its four fields and nothing else.
SpecIs(s) == s = [inline |-> s.inline, attached |-> s.attached, boundary |-> s.boundary,
                  unread |-> s.unread]

\* A role is read from the moment it is found until it is emitted, and policies
\* only after every role;
IamShape ==
  /\ at \in {"start", "GetRole", "ListRolePolicies", "GetRolePolicy",
             "ListAttachedRolePolicies", "GetPolicyVersion"}
  /\ page \in Nat \ {0}
  /\ SpecIs(spec)
  /\ role # 0 <=> at \in {"ListRolePolicies", "GetRolePolicy", "ListAttachedRolePolicies"}
  /\ at = "start" => /\ result = "running" /\ Iam!Owed = {}
                      /\ emitted = {} /\ lost = {} /\ warnings = {}
  /\ at = "GetPolicyVersion" => todo = {} /\ policies # {}
  /\ result = "nil" => Iam!Owed = {}

\* what has been answered for is not to be read again, and every role to be read is
\* one this account's workloads assume;
IamHeld ==
  /\ (Iam!Emitted \cup lost) \cap Iam!Owed = {}
  /\ (Iam!Emitted \cup lost) \cap Policies # {} => todo = {} /\ role = 0
  /\ role \notin todo
  /\ \A r \in todo \cup ({role} \ {0}) : Iam!Assumed(r) # {}

\* and the spec of a role without a mark holds all that the listings had so far.
IamRead ==
  role # 0 /\ spec.unread = {} =>
    /\ spec.boundary = Boundary[role]
    /\ at = "ListRolePolicies" => Upto(InlinePages[role], page) \cap alive \subseteq names
    /\ at = "GetRolePolicy" =>
         Iam!AllOf(InlinePages[role]) \cap alive \subseteq names \cup spec.inline
    /\ at = "ListAttachedRolePolicies" =>
         /\ Iam!AllOf(InlinePages[role]) \cap alive \subseteq spec.inline
         /\ Upto(AttachedPages[role], page) \cap alive \subseteq spec.attached

IamInv ==
  /\ Iam!TypeOK /\ IamShape /\ IamHeld /\ IamRead
  /\ Iam!NoNamesake /\ Iam!UnmarkedIsWhole

\* A listing read to its end had all its pages.
LEMMA UptoIs ==
  ASSUME NEW S, NEW pages \in Seq(S)
  PROVE  /\ Len(pages) \in Nat /\ DOMAIN pages = 1 .. Len(pages)
         /\ Upto(pages, 1) = {}
         /\ \A p \in 1 .. Len(pages) : Upto(pages, p + 1) = Upto(pages, p) \cup pages[p]
         /\ \A p \in Nat : p > Len(pages) => Iam!AllOf(pages) \subseteq Upto(pages, p)
<1>1. Len(pages) \in Nat /\ DOMAIN pages = 1 .. Len(pages)
  OBVIOUS
<1>2. \A p, x : x \in Upto(pages, p) <=> \E k \in 1 .. (p - 1) : x \in pages[k]
  BY DEF Upto
<1>3. Upto(pages, 1) = {}
  BY <1>2
<1>4. ASSUME NEW p \in 1 .. Len(pages)
      PROVE  Upto(pages, p + 1) = Upto(pages, p) \cup pages[p]
  <2>1. \A k : k \in 1 .. ((p + 1) - 1) <=> k \in 1 .. (p - 1) \/ k = p
    BY <1>1, <1>4
  <2>2. \A x : x \in Upto(pages, p + 1) <=> x \in Upto(pages, p) \cup pages[p]
    BY <1>2, <2>1
  <2> QED BY <2>2
<1>5. ASSUME NEW p \in Nat, p > Len(pages)
      PROVE  Iam!AllOf(pages) \subseteq Upto(pages, p)
  <2>1. 1 .. Len(pages) \subseteq 1 .. (p - 1)
    BY <1>1, <1>5
  <2> QED BY <1>1, <1>2, <2>1 DEF Iam!AllOf
<1> QED BY <1>1, <1>3, <1>4, <1>5

\* The names are apart, and every page is of the account.
LEMMA IamAccount ==
  /\ Roles \subseteq Nat /\ Policies \subseteq Nat /\ Iam!Inline \subseteq Nat
  /\ 0 \notin Roles \cup Policies \cup Iam!Inline
  /\ Roles \cap Policies = {} /\ Iam!Inline \cap (Roles \cup Policies) = {}
  /\ \A r \in Roles : /\ InlinePages[r] \in Seq(SUBSET Iam!Inline)
                      /\ AttachedPages[r] \in Seq(SUBSET Policies)
                      /\ Boundary[r] \subseteq Policies
BY CollectorsAssumption DEF Iam!IamAssumption

\* A mark changes nothing else.
LEMMA MarkedIs ==
  ASSUME SpecIs(spec), NEW what
  PROVE  LET s == Iam!Marked(what) IN
         /\ SpecIs(s) /\ s.inline = spec.inline /\ s.attached = spec.attached
         /\ s.boundary = spec.boundary /\ s.unread # {}
<1> DEFINE s == Iam!Marked(what)
<1>1. s = [inline |-> spec.inline, attached |-> spec.attached, boundary |-> spec.boundary,
           unread |-> spec.unread \cup {what}]
  BY DEF Iam!Marked, SpecIs
<1> HIDE DEF s
<1>2. what \in s.unread
  BY <1>1
<1>3. s.inline = spec.inline /\ s.attached = spec.attached /\ s.boundary = spec.boundary
  BY <1>1
<1>4. SpecIs(s)
  BY <1>1 DEF SpecIs
<1> QED BY <1>2, <1>3, <1>4 DEF s

\* Nothing is read yet.
LEMMA IamBegins == Iam!Init => IamInv
<1> SUFFICES ASSUME Iam!Init PROVE IamInv
  OBVIOUS
<1> USE DEF Iam!Init, Iam!Empty
<1>1. Iam!Emitted = {} /\ Iam!Owed = {}
  BY DEF Iam!Emitted, Iam!Owed
<1>2. Iam!TypeOK
  BY <1>1 DEF Iam!TypeOK
<1>3. IamShape
  BY <1>1 DEF IamShape, SpecIs
<1>4. IamHeld
  BY <1>1, IamAccount DEF IamHeld
<1>5. IamRead
  BY DEF IamRead
<1> QED BY <1>2, <1>3, <1>4, <1>5 DEF IamInv, Iam!NoNamesake, Iam!UnmarkedIsWhole

\* Roles that have been emitted stay as whole as they were.
LEMMA IamKept ==
  ASSUME IamInv, emitted' = emitted, alive' \subseteq alive, warnings \subseteq warnings',
         at = "start" => at' = "start"
  PROVE  Iam!Emitted' = Iam!Emitted /\ Iam!NoNamesake' /\ Iam!UnmarkedIsWhole'
<1>1. Iam!Emitted' = Iam!Emitted
  BY DEF Iam!Emitted
<1>2. Iam!NoNamesake'
  BY DEF IamInv, Iam!NoNamesake
<1>3. Iam!UnmarkedIsWhole'
  BY DEF IamInv, Iam!UnmarkedIsWhole
<1> QED BY <1>1, <1>2, <1>3

\* What is deleted is missed by nobody.
LEMMA IamDelete ==
  ASSUME IamInv, NEW x, Iam!Delete(x)
  PROVE  IamInv'
<1> USE DEF Iam!Delete, Iam!acct
<1>1. alive' \subseteq alive
  OBVIOUS
<1>2. Iam!Emitted' = Iam!Emitted /\ Iam!NoNamesake' /\ Iam!UnmarkedIsWhole'
  BY <1>1, IamKept
<1>3. Iam!Owed' = Iam!Owed
  BY DEF Iam!Owed
<1>4. Iam!TypeOK'
  BY <1>1, <1>2 DEF IamInv, Iam!TypeOK
<1>5. IamShape' /\ IamHeld'
  BY <1>2, <1>3 DEF IamInv, IamShape, IamHeld
<1>6. IamRead'
  BY <1>1 DEF IamInv, IamRead
<1> QED BY <1>2, <1>4, <1>5, <1>6 DEF IamInv

\* Every error but a denial leaves everything as it was.
LEMMA IamEnds ==
  ASSUME IamInv, UNCHANGED <<alive, todo, role, at, page, names, spec, policies, Iam!acct>>,
         result' = result \/ (at # "start" /\ result' = "error")
           \/ (at # "start" /\ result' = "nil" /\ Iam!Owed = {})
  PROVE  IamInv'
<1> USE DEF Iam!acct
<1>2. Iam!Emitted' = Iam!Emitted /\ Iam!NoNamesake' /\ Iam!UnmarkedIsWhole'
  BY IamKept
<1>3. Iam!Owed' = Iam!Owed
  BY DEF Iam!Owed
<1>4. Iam!TypeOK'
  BY <1>2 DEF IamInv, Iam!TypeOK
<1>5. IamShape' /\ IamHeld'
  BY <1>2, <1>3 DEF IamInv, IamShape, IamHeld
<1>6. IamRead'
  BY DEF IamInv, IamRead
<1> QED BY <1>2, <1>4, <1>5, <1>6 DEF IamInv

\* A role of another account is reported and not looked up.
LEMMA IamStart ==
  ASSUME IamInv, Iam!Start
  PROVE  IamInv'
<1> USE DEF Iam!Start
<1>1. /\ role = 0 /\ policies = {} /\ emitted = {} /\ lost = {}
      /\ Iam!Emitted' = {} /\ result = "running"
  BY DEF IamInv, IamShape, Iam!Owed, Iam!Emitted
<1>2. Iam!TypeOK'
  BY <1>1 DEF IamInv, Iam!TypeOK
<1>3. IamShape'
  BY <1>1 DEF IamInv, IamShape
<1>4. IamHeld'
  BY <1>1, IamAccount DEF IamHeld, Iam!Assumed
<1>5. IamRead'
  BY <1>1 DEF IamRead
<1>6. Iam!NoNamesake'
  BY <1>1 DEF Iam!NoNamesake
<1>7. Iam!UnmarkedIsWhole'
  BY <1>1 DEF Iam!UnmarkedIsWhole
<1> QED BY <1>2, <1>3, <1>4, <1>5, <1>6, <1>7 DEF IamInv
\* A role is found, with its boundary, or it is given up, or it is gone.
LEMMA IamGetRole ==
  ASSUME IamInv, Iam!GetRole
  PROVE  IamInv'
<1> DEFINE r == Iam!Min(todo)
<1>1. /\ todo # {} /\ result = "running" /\ at = "GetRole" /\ role = 0 /\ todo \subseteq Roles
      /\ \A x \in todo : x # 0
  BY IamAccount DEF Iam!GetRole, Iam!Reading, IamInv, Iam!TypeOK, IamShape
<1>2. r \in todo /\ r \in Roles /\ r # 0 /\ r \in Nat
  BY <1>1, IamAccount, LeastIn
<1>3. (Iam!Emitted \cup lost) \cap Policies = {}
  BY <1>1 DEF IamInv, IamHeld
<1> HIDE DEF r
<1>4. CASE /\ role' = r /\ at' = "ListRolePolicies" /\ page' = 1
           /\ spec' = [Iam!Empty EXCEPT !.boundary = Boundary[r]]
           /\ policies' = policies \cup Boundary[r]
           /\ todo' = todo \ {r}
           /\ UNCHANGED <<alive, names, Iam!acct, result>>
  <2> USE <1>4 DEF Iam!acct
  <2>1. Iam!Emitted' = Iam!Emitted /\ Iam!NoNamesake' /\ Iam!UnmarkedIsWhole'
    BY <1>1, IamKept
  <2>2. /\ Boundary[r] \subseteq Policies
        /\ Upto(InlinePages[r], 1) = {}
    BY <1>2, IamAccount, UptoIs
  <2>3. /\ SpecIs(spec') /\ spec'.inline = {} /\ spec'.attached = {}
        /\ spec'.boundary = Boundary[r]
    <3>1. spec' = [inline |-> {}, attached |-> {}, boundary |-> Boundary[r], unread |-> {}]
      BY DEF Iam!Empty
    <3> HIDE <1>4
    <3>2. spec'.inline = {} /\ spec'.attached = {} /\ spec'.boundary = Boundary[r]
      BY <3>1
    <3>3. SpecIs(spec')
      BY <3>1 DEF SpecIs
    <3> QED BY <3>2, <3>3
  <2>4. Iam!TypeOK'
    BY <1>1, <1>2, <2>1, <2>2, <2>3 DEF IamInv, Iam!TypeOK
  <2>5. IamShape'
    <3>1. at' \in {"start", "GetRole", "ListRolePolicies", "GetRolePolicy",
                  "ListAttachedRolePolicies", "GetPolicyVersion"}
      OBVIOUS
    <3>2. page' \in Nat \ {0}
      OBVIOUS
    <3>3. role' # 0 /\ at' = "ListRolePolicies"
      BY <1>2
    <3>4. result' = "running"
      BY <1>1
    <3> QED BY <2>3, <3>1, <3>2, <3>3, <3>4 DEF IamShape, SpecIs
  <2>6. IamHeld'
    <3>1. Iam!Owed' = (todo \ {r}) \cup (policies \cup Boundary[r]) \cup {r}
      BY <1>2 DEF Iam!Owed
    <3>2. (Iam!Emitted \cup lost) \cap (todo \cup policies) = {}
      BY DEF IamInv, IamHeld, Iam!Owed
    <3>3. (Iam!Emitted' \cup lost') \cap Iam!Owed' = {}
      BY <1>2, <1>3, <2>1, <2>2, <3>1, <3>2
    <3>4. \A x \in todo' \cup ({role'} \ {0}) : Iam!Assumed(x) # {}
      BY <1>2 DEF IamInv, IamHeld
    <3> QED BY <1>3, <2>1, <3>3, <3>4 DEF IamHeld, Iam!Assumed
  <2>7. IamRead'
    BY <2>2, <2>3 DEF IamRead
  <2> QED BY <2>1, <2>4, <2>5, <2>6, <2>7 DEF IamInv
<1>5. CASE /\ todo' = todo \ {r}
           /\ lost' = lost \cup {r} \/ lost' = lost
           /\ warnings \subseteq warnings'
           /\ UNCHANGED <<alive, role, at, page, names, spec, policies, emitted, result>>
  <2> USE <1>5
  <2>1. Iam!Emitted' = Iam!Emitted /\ Iam!NoNamesake' /\ Iam!UnmarkedIsWhole'
    BY <1>1, IamKept
  <2>2. r \in Iam!Owed /\ Iam!Owed' \subseteq Iam!Owed /\ r \notin Iam!Owed' /\ r \notin Policies
    BY <1>1, <1>2, IamAccount DEF Iam!Owed, IamInv, Iam!TypeOK
  <2>3. Iam!TypeOK'
    BY <1>1, <1>2, <2>1, <2>2 DEF IamInv, Iam!TypeOK, IamHeld
  <2>4. IamShape'
    BY <1>1 DEF IamInv, IamShape
  <2>5. IamHeld'
    BY <1>1, <1>2, <1>3, <2>1, <2>2 DEF IamInv, IamHeld, Iam!Assumed
  <2>6. IamRead'
    BY <1>1 DEF IamRead
  <2> QED BY <2>1, <2>3, <2>4, <2>5, <2>6 DEF IamInv
<1>6. CASE \E answer : Iam!End(answer)
  BY <1>1, <1>6, IamEnds DEF Iam!End
<1> QED BY <1>4, <1>5, <1>6 DEF Iam!GetRole, r

\* What one listing adds to a spec or to what is to be asked for keeps the rest.
LEMMA IamListInline ==
  ASSUME IamInv, Iam!ListInline
  PROVE  IamInv'
<1> DEFINE pages == InlinePages[role]
<1>1. /\ result = "running" /\ at = "ListRolePolicies" /\ role # 0 /\ role \in Roles
      /\ page \in Nat \ {0}
  BY DEF Iam!ListInline, Iam!Reading, IamInv, Iam!TypeOK, IamShape
<1>2. pages \in Seq(SUBSET Iam!Inline)
  BY <1>1, IamAccount
<1>3. /\ Len(pages) \in Nat /\ DOMAIN pages = 1 .. Len(pages)
      /\ \A p \in 1 .. Len(pages) : Upto(pages, p + 1) = Upto(pages, p) \cup pages[p]
      /\ \A p \in Nat : p > Len(pages) => Iam!AllOf(pages) \subseteq Upto(pages, p)
      /\ \A p \in 1 .. Len(pages) : pages[p] \subseteq Iam!Inline
  <2> HIDE DEF pages
  <2> QED BY <1>2, UptoIs
<1>4. spec.unread = {} => /\ spec.boundary = Boundary[role]
                          /\ Upto(pages, page) \cap alive \subseteq names
  BY <1>1 DEF IamInv, IamRead
<1>5. at' # "start" /\ emitted' = emitted /\ alive' = alive /\ warnings \subseteq warnings'
      => Iam!Emitted' = Iam!Emitted /\ Iam!NoNamesake' /\ Iam!UnmarkedIsWhole'
  BY <1>1, IamKept
<1>6. Iam!Owed' = Iam!Owed \/ ~UNCHANGED <<todo, role, policies>>
  BY DEF Iam!Owed
<1>7. CASE /\ page > Len(pages) /\ at' = "GetRolePolicy"
           /\ UNCHANGED <<alive, todo, role, page, names, spec, policies, Iam!acct, result>>
  <2> USE <1>7 DEF Iam!acct
  <2>1. Iam!Emitted' = Iam!Emitted /\ Iam!NoNamesake' /\ Iam!UnmarkedIsWhole'
    BY <1>5
  <2>2. Iam!TypeOK'
    BY <2>1 DEF IamInv, Iam!TypeOK
  <2>3. IamShape' /\ IamHeld'
    BY <1>1, <1>6, <2>1 DEF IamInv, IamShape, IamHeld, Iam!Assumed
  <2>4. IamRead'
    BY <1>1, <1>3, <1>4 DEF IamRead
  <2> QED BY <2>1, <2>2, <2>3, <2>4 DEF IamInv
<1>8. CASE /\ page <= Len(pages)
           /\ names' = names \cup (pages[page] \cap alive) /\ page' = page + 1
           /\ UNCHANGED <<alive, todo, role, at, spec, policies, Iam!acct, result>>
  <2> USE <1>8 DEF Iam!acct
  <2>1. Iam!Emitted' = Iam!Emitted /\ Iam!NoNamesake' /\ Iam!UnmarkedIsWhole'
    BY <1>1, <1>5
  <2>2. page \in 1 .. Len(pages)
    BY <1>1, <1>3
  <2>3. Iam!TypeOK'
    BY <1>3, <2>1, <2>2 DEF IamInv, Iam!TypeOK
  <2>4. IamShape'
    BY <1>1, <1>6, <2>1 DEF IamInv, IamShape
  <2>5. IamHeld'
    BY <1>1, <1>6, <2>1 DEF IamInv, IamHeld, Iam!Assumed
  <2>6. IamRead'
    BY <1>1, <1>3, <1>4, <2>2 DEF IamRead
  <2> QED BY <2>1, <2>3, <2>4, <2>5, <2>6 DEF IamInv
<1>9. CASE /\ at' = "GetRolePolicy"
           /\ spec' = Iam!Marked(<<"inline policies", 0>>)
           /\ warnings \subseteq warnings'
           /\ UNCHANGED <<alive, todo, role, page, names, policies, emitted, lost, result>>
  <2> USE <1>9
  <2>1. Iam!Emitted' = Iam!Emitted /\ Iam!NoNamesake' /\ Iam!UnmarkedIsWhole'
    BY <1>5
  <2>2. /\ SpecIs(spec') /\ spec'.inline = spec.inline /\ spec'.attached = spec.attached
        /\ spec'.boundary = spec.boundary /\ spec'.unread # {}
    BY MarkedIs DEF IamInv, IamShape
  <2>3. Iam!TypeOK'
    BY <2>1, <2>2 DEF IamInv, Iam!TypeOK
  <2>4. IamShape'
    BY <1>1, <1>6, <2>1, <2>2 DEF IamInv, IamShape
  <2>5. IamHeld'
    BY <1>1, <1>6, <2>1 DEF IamInv, IamHeld, Iam!Assumed
  <2>6. IamRead'
    BY <2>2 DEF IamRead
  <2> QED BY <2>1, <2>3, <2>4, <2>5, <2>6 DEF IamInv
<1>10. CASE \E answer : Iam!End(answer)
  BY <1>1, <1>10, IamEnds DEF Iam!End
<1> QED
  <2>1. Iam!ListInline => page > Len(pages) \/ page <= Len(pages)
    BY <1>1, <1>3
  <2> QED BY <1>7, <1>8, <1>9, <1>10, <2>1 DEF Iam!ListInline
\* A document is put into the spec, or the spec is marked.
LEMMA GotIs ==
  ASSUME SpecIs(spec), NEW pn
  PROVE  LET s == Iam!Got(pn) IN
         /\ SpecIs(s) /\ s.attached = spec.attached /\ s.boundary = spec.boundary
         /\ s.inline \subseteq spec.inline \cup {pn}
         /\ s.unread = {} => spec.unread = {} /\ s.inline = spec.inline \cup {pn}
<1> DEFINE s == Iam!Got(pn)
<1>1. CASE pn \in Unparseable
  <2>1. s = Iam!Marked(<<"inline policy", pn>>)
    BY <1>1 DEF Iam!Got
  <2> QED BY <2>1, MarkedIs
<1>2. CASE pn \notin Unparseable
  <2>1. s = [inline |-> spec.inline \cup {pn}, attached |-> spec.attached,
             boundary |-> spec.boundary, unread |-> spec.unread]
    BY <1>2 DEF Iam!Got, SpecIs
  <2> HIDE DEF s
  <2>2. SpecIs(s)
    BY <2>1 DEF SpecIs
  <2>3. /\ s.inline = spec.inline \cup {pn} /\ s.attached = spec.attached
        /\ s.boundary = spec.boundary /\ s.unread = spec.unread
    BY <2>1
  <2> QED BY <2>2, <2>3 DEF s
<1> QED BY <1>1, <1>2

\* The documents, one by one.
LEMMA IamGetInline ==
  ASSUME IamInv, Iam!GetInline
  PROVE  IamInv'
<1> DEFINE pn == Iam!Min(names)
<1>1. /\ result = "running" /\ at = "GetRolePolicy" /\ role # 0 /\ role \in Roles
      /\ SpecIs(spec)
  BY DEF Iam!GetInline, Iam!Reading, IamInv, Iam!TypeOK, IamShape
<1>2. spec.unread = {} => /\ spec.boundary = Boundary[role]
                          /\ Iam!AllOf(InlinePages[role]) \cap alive \subseteq names \cup spec.inline
  BY <1>1 DEF IamInv, IamRead
<1>3. at' # "start" /\ emitted' = emitted /\ alive' = alive /\ warnings \subseteq warnings'
      => Iam!Emitted' = Iam!Emitted /\ Iam!NoNamesake' /\ Iam!UnmarkedIsWhole'
  BY <1>1, IamKept
<1>4. CASE /\ names = {} /\ at' = "ListAttachedRolePolicies" /\ page' = 1
           /\ UNCHANGED <<alive, todo, role, names, spec, policies, Iam!acct, result>>
  <2> USE <1>4 DEF Iam!acct
  <2>1. Iam!Emitted' = Iam!Emitted /\ Iam!NoNamesake' /\ Iam!UnmarkedIsWhole'
    BY <1>3
  <2>2. Iam!Owed' = Iam!Owed
    BY DEF Iam!Owed
  <2>3. Iam!TypeOK'
    BY <2>1 DEF IamInv, Iam!TypeOK
  <2>4. IamShape' /\ IamHeld'
    BY <1>1, <2>1, <2>2 DEF IamInv, IamShape, IamHeld, Iam!Assumed, SpecIs
  <2>5. Upto(AttachedPages[role], 1) = {}
    BY <1>1, IamAccount, UptoIs
  <2>6. IamRead'
    BY <1>1, <1>2, <2>5 DEF IamRead
  <2> QED BY <2>1, <2>3, <2>4, <2>6 DEF IamInv
<1>5. CASE /\ names # {} /\ names' = names \ {pn}
           /\ spec' = Iam!Got(pn) \/ spec' = Iam!Marked(<<"inline policy", pn>>)
           /\ warnings \subseteq warnings'
           /\ UNCHANGED <<alive, todo, role, at, page, policies, emitted, lost, result>>
  <2>1. pn \in names /\ pn \in Iam!Inline
    BY <1>5, IamAccount, LeastIn DEF IamInv, Iam!TypeOK
  <2> HIDE DEF pn
  <2>2. /\ SpecIs(spec') /\ spec'.attached = spec.attached /\ spec'.boundary = spec.boundary
        /\ spec'.inline \subseteq spec.inline \cup {pn}
        /\ spec'.unread = {} => spec.unread = {} /\ spec'.inline = spec.inline \cup {pn}
    <3>1. CASE spec' = Iam!Got(pn)
      BY <1>1, <3>1, GotIs
    <3>2. CASE spec' = Iam!Marked(<<"inline policy", pn>>)
      BY <1>1, <3>2, MarkedIs
    <3> QED BY <1>5, <3>1, <3>2
  <2>3. /\ names' = names \ {pn} /\ at' = at /\ page' = page /\ warnings \subseteq warnings'
        /\ UNCHANGED <<alive, todo, role, policies, emitted, lost, result>>
    BY <1>5
  <2>4. Iam!Emitted' = Iam!Emitted /\ Iam!NoNamesake' /\ Iam!UnmarkedIsWhole'
    BY <1>1, <1>3, <2>3
  <2>5. Iam!Owed' = Iam!Owed
    BY <2>3 DEF Iam!Owed
  <2>6. Iam!TypeOK'
    BY <2>1, <2>2, <2>3, <2>4 DEF IamInv, Iam!TypeOK
  <2>7. IamShape'
    BY <1>1, <2>2, <2>3, <2>4, <2>5 DEF IamInv, IamShape, SpecIs
  <2>8. IamHeld'
    BY <2>3, <2>4, <2>5 DEF IamInv, IamHeld, Iam!Assumed
  <2>9. IamRead'
    BY <1>1, <1>2, <2>2, <2>3 DEF IamRead
  <2> QED BY <2>4, <2>6, <2>7, <2>8, <2>9 DEF IamInv
<1>6. CASE \E answer : Iam!End(answer)
  BY <1>1, <1>6, IamEnds DEF Iam!End
<1> QED
  <2>1. CASE names = {}
    BY <1>4, <2>1 DEF Iam!GetInline
  <2>2. CASE names # {}
    <3>1. PICK answer \in Iam!Answers(pn \in alive) :
            \/ /\ answer = "ok" \/ Iam!Degrades(answer)
               /\ names' = names \ {pn}
               /\ spec' = IF answer = "ok" THEN Iam!Got(pn)
                                           ELSE Iam!Marked(<<"inline policy", pn>>)
               /\ warnings' = IF answer = "ok" /\ pn \notin Unparseable THEN warnings
                              ELSE warnings \cup {<<"GetRolePolicy", answer, pn>>}
               /\ UNCHANGED <<alive, todo, role, at, page, policies, emitted, lost, result>>
            \/ Iam!End(answer)
      BY <2>2 DEF Iam!GetInline
    <3> QED BY <1>5, <1>6, <2>2, <3>1
  <2> QED BY <2>1, <2>2
\* A role is emitted with what was listed of it and its marks.
LEMMA IamListAttached ==
  ASSUME IamInv, Iam!ListAttached
  PROVE  IamInv'
<1> DEFINE pages == AttachedPages[role]
           new == [id |-> role, by |-> Iam!Assumed(role), spec |-> spec]
           listed == pages[page] \cap alive
<1>1. /\ result = "running" /\ at = "ListAttachedRolePolicies" /\ role # 0 /\ role \in Roles
      /\ SpecIs(spec) /\ page \in Nat \ {0}
  BY DEF Iam!ListAttached, Iam!Reading, IamInv, Iam!TypeOK, IamShape
<1>2. pages \in Seq(SUBSET Policies)
  BY <1>1, IamAccount
<1>3. /\ Len(pages) \in Nat /\ DOMAIN pages = 1 .. Len(pages)
      /\ \A p \in 1 .. Len(pages) : Upto(pages, p + 1) = Upto(pages, p) \cup pages[p]
      /\ \A p \in Nat : p > Len(pages) => Iam!AllOf(pages) \subseteq Upto(pages, p)
      /\ \A p \in 1 .. Len(pages) : pages[p] \subseteq Policies
  <2> HIDE DEF pages
  <2> QED BY <1>2, UptoIs
<1>4. spec.unread = {} => /\ spec.boundary = Boundary[role]
                          /\ Iam!AllOf(InlinePages[role]) \cap alive \subseteq spec.inline
                          /\ Upto(pages, page) \cap alive \subseteq spec.attached
  BY <1>1 DEF IamInv, IamRead
<1>5. at' # "start" /\ emitted' = emitted /\ alive' = alive /\ warnings \subseteq warnings'
      => Iam!Emitted' = Iam!Emitted /\ Iam!NoNamesake' /\ Iam!UnmarkedIsWhole'
  BY <1>1, IamKept
<1>6. (Iam!Emitted \cup lost) \cap Policies = {} /\ role \in Iam!Owed /\ role \notin Policies
  BY <1>1, IamAccount DEF IamInv, IamHeld, Iam!Owed
<1> HIDE DEF listed
<1>7. CASE page > Len(pages) /\ Iam!EmitRole /\ warnings' = warnings
  <2> USE <1>7 DEF Iam!EmitRole
  <2>1. emitted' = emitted \cup {new} /\ new.id = role /\ new.by = Iam!Assumed(role) /\ new.spec = spec
    OBVIOUS
  <2> HIDE DEF new
  <2>2. Iam!Emitted' = Iam!Emitted \cup {role}
    BY <2>1 DEF Iam!Emitted
  <2>3. Iam!Owed' = todo \cup policies /\ role \notin Iam!Owed' /\ Iam!Owed' \subseteq Iam!Owed
    BY <1>1, <1>6 DEF Iam!Owed, IamInv, Iam!TypeOK, IamHeld
  <2>4. Iam!TypeOK'
    BY <1>1, <1>6, <2>2 DEF IamInv, Iam!TypeOK, IamHeld
  <2>5. IamShape'
    <3>1. role' = 0 /\ at' = "GetRole" /\ UNCHANGED <<page, spec, result, todo>>
      OBVIOUS
    <3> HIDE <1>7
    <3> QED BY <1>1, <3>1 DEF IamShape, SpecIs
  <2>6. IamHeld'
    <3>1. 0 \notin todo
      BY IamAccount DEF IamInv, Iam!TypeOK
    <3>2. role' = 0 /\ todo' = todo /\ lost' = lost
      OBVIOUS
    <3>3. (Iam!Emitted \cup lost) \cap Iam!Owed = {} /\ \A x \in todo : Iam!Assumed(x) # {}
      BY DEF IamInv, IamHeld
    <3>4. (Iam!Emitted' \cup lost') \cap Iam!Owed' = {}
      BY <2>2, <2>3, <3>2, <3>3
    <3>5. (Iam!Emitted' \cup lost') \cap Policies = {}
      BY <1>6, <2>2, <3>2
    <3> HIDE <1>7
    <3> QED BY <3>1, <3>2, <3>3, <3>4, <3>5 DEF IamHeld, Iam!Assumed
  <2>7. IamRead'
    BY DEF IamRead
  <2>8. Iam!NoNamesake'
    <3>1. Iam!Assumed(role) # {}
      BY <1>1 DEF IamInv, IamHeld
    <3>2. \A e \in emitted' : e.id \in Roles => e.by # {} /\ e.by = Iam!Assumed(e.id)
      BY <2>1, <3>1 DEF IamInv, Iam!NoNamesake, Iam!Assumed
    <3>3. \A x \in References : x.kind = "role" /\ x.account # "own" =>
            <<"out-of-scope", x.by, x.name>> \in warnings
      BY <1>1 DEF IamInv, Iam!NoNamesake
    <3> QED BY <3>2, <3>3 DEF Iam!NoNamesake, Iam!Assumed
  <2>9. Iam!UnmarkedIsWhole'
    <3>1. spec.unread = {} => Iam!AllOf(pages) \cap alive \subseteq spec.attached
      BY <1>1, <1>3, <1>4
    <3> QED BY <1>4, <2>1, <3>1 DEF IamInv, Iam!UnmarkedIsWhole
  <2> QED BY <2>4, <2>5, <2>6, <2>7, <2>8, <2>9 DEF IamInv
<1>8. CASE /\ page <= Len(pages)
           /\ spec' = [spec EXCEPT !.attached = @ \cup listed]
           /\ policies' = policies \cup listed /\ page' = page + 1
           /\ UNCHANGED <<alive, todo, role, at, names, Iam!acct, result>>
  <2>1. page \in 1 .. Len(pages)
    BY <1>1, <1>3, <1>8
  <2>2. listed \subseteq Policies
    BY <1>3, <2>1 DEF listed
  <2>3. spec' = [inline |-> spec.inline, attached |-> spec.attached \cup listed,
                 boundary |-> spec.boundary, unread |-> spec.unread]
    BY <1>1, <1>8 DEF SpecIs
  <2>4. /\ policies' = policies \cup listed /\ page' = page + 1
        /\ UNCHANGED <<alive, todo, role, at, names, emitted, lost, warnings, result>>
    BY <1>8 DEF Iam!acct
  <2>5. SpecIs(spec')
    BY <2>3 DEF SpecIs
  <2>6. /\ spec'.inline = spec.inline /\ spec'.attached = spec.attached \cup listed
        /\ spec'.boundary = spec.boundary /\ spec'.unread = spec.unread
    BY <2>3
  <2>7. Iam!Emitted' = Iam!Emitted /\ Iam!NoNamesake' /\ Iam!UnmarkedIsWhole'
    BY <1>1, <1>5, <2>4
  <2>8. Iam!Owed' = Iam!Owed \cup listed
    BY <2>4 DEF Iam!Owed
  <2>9. Iam!TypeOK'
    BY <2>2, <2>4, <2>6, <2>7 DEF IamInv, Iam!TypeOK
  <2>10. IamShape'
    BY <1>1, <2>4, <2>5 DEF IamInv, IamShape, SpecIs
  <2>11. IamHeld'
    BY <1>6, <2>2, <2>4, <2>7, <2>8 DEF IamInv, IamHeld, Iam!Assumed
  <2>12. IamRead'
    <3>1. Upto(pages, page + 1) = Upto(pages, page) \cup pages[page]
      BY <1>3, <2>1
    <3> QED BY <1>1, <1>4, <2>4, <2>6, <3>1 DEF IamRead, listed
  <2> QED BY <2>7, <2>9, <2>10, <2>11, <2>12 DEF IamInv
<1>9. CASE /\ spec' = Iam!Marked(<<"attached policies", 0>>)
           /\ page' = Len(pages) + 1
           /\ warnings \subseteq warnings'
           /\ UNCHANGED <<alive, todo, role, at, names, policies, emitted, lost, result>>
  <2>1. /\ SpecIs(spec') /\ spec'.inline = spec.inline /\ spec'.attached = spec.attached
        /\ spec'.boundary = spec.boundary /\ spec'.unread # {}
    BY <1>1, <1>9, MarkedIs
  <2>2. /\ page' = Len(pages) + 1 /\ warnings \subseteq warnings'
        /\ UNCHANGED <<alive, todo, role, at, names, policies, emitted, lost, result>>
    BY <1>9
  <2>3. Iam!Emitted' = Iam!Emitted /\ Iam!NoNamesake' /\ Iam!UnmarkedIsWhole'
    BY <1>1, <1>5, <2>2
  <2>4. Iam!Owed' = Iam!Owed
    BY <2>2 DEF Iam!Owed
  <2>5. Iam!TypeOK'
    BY <2>1, <2>2, <2>3 DEF IamInv, Iam!TypeOK
  <2>6. page' \in Nat \ {0}
    BY <1>3, <2>2
  <2>7. IamShape'
    BY <1>1, <2>1, <2>2, <2>6 DEF IamInv, IamShape, SpecIs
  <2>8. IamHeld'
    BY <2>2, <2>3, <2>4 DEF IamInv, IamHeld, Iam!Assumed
  <2>9. IamRead'
    BY <2>1 DEF IamRead
  <2> QED BY <2>3, <2>5, <2>7, <2>8, <2>9 DEF IamInv
<1>10. CASE \E answer : Iam!End(answer)
  BY <1>1, <1>10, IamEnds DEF Iam!End
<1> QED
  <2>1. CASE page > Len(pages)
    BY <1>7, <2>1 DEF Iam!ListAttached
  <2>2. CASE page <= Len(pages)
    <3>1. ~(page > Len(pages))
      BY <1>1, <1>3, <2>2
    <3>2. PICK answer \in Iam!Answers(role \in alive) :
       \/ /\ answer = "ok"
          /\ spec' = [spec EXCEPT !.attached = @ \cup listed]
          /\ policies' = policies \cup listed
          /\ page' = page + 1
          /\ UNCHANGED <<alive, todo, role, at, names, Iam!acct, result>>
       \/ /\ Iam!Degrades(answer)
          /\ spec' = Iam!Marked(<<"attached policies", 0>>)
          /\ page' = Len(pages) + 1
          /\ warnings' = warnings \cup {<<"ListAttachedRolePolicies", answer, role>>}
          /\ UNCHANGED <<alive, todo, role, at, names, policies, emitted, lost, result>>
       \/ Iam!End(answer)
      BY <3>1 DEF Iam!ListAttached, listed
    <3> QED BY <1>8, <1>9, <1>10, <2>2, <3>2
  <2> QED BY <1>1, <1>3, <2>1, <2>2

\* A policy is given up, or found gone, or asked for again by its version.
LEMMA IamGetPolicy ==
  ASSUME IamInv, Iam!GetPolicy
  PROVE  IamInv'
<1> DEFINE p == Iam!Min(policies)
<1>1. /\ result = "running" /\ at = "GetRole" /\ role = 0 /\ todo = {} /\ policies # {}
      /\ SpecIs(spec)
  BY DEF Iam!GetPolicy, Iam!Reading, IamInv, IamShape
<1>2. p \in policies /\ p \in Policies /\ p \in Iam!Owed
  BY <1>1, IamAccount, LeastIn DEF IamInv, Iam!TypeOK, Iam!Owed
<1> HIDE DEF p
<1>3. CASE /\ at' = "GetPolicyVersion"
           /\ UNCHANGED <<alive, todo, role, page, names, spec, policies, Iam!acct, result>>
  <2> USE <1>3 DEF Iam!acct
  <2>1. Iam!Emitted' = Iam!Emitted /\ Iam!NoNamesake' /\ Iam!UnmarkedIsWhole'
    BY <1>1, IamKept
  <2>2. Iam!Owed' = Iam!Owed
    BY DEF Iam!Owed
  <2>3. Iam!TypeOK'
    BY <2>1 DEF IamInv, Iam!TypeOK
  <2>4. IamShape' /\ IamHeld'
    BY <1>1, <2>1, <2>2 DEF IamInv, IamShape, IamHeld, Iam!Assumed, SpecIs
  <2>5. IamRead'
    BY <1>1 DEF IamRead
  <2> QED BY <2>1, <2>3, <2>4, <2>5 DEF IamInv
<1>4. CASE /\ policies' = policies \ {p}
           /\ lost' = lost \cup {p} \/ lost' = lost
           /\ warnings \subseteq warnings'
           /\ UNCHANGED <<alive, todo, role, at, page, names, spec, emitted, result>>
  <2> USE <1>4
  <2>1. Iam!Emitted' = Iam!Emitted /\ Iam!NoNamesake' /\ Iam!UnmarkedIsWhole'
    BY <1>1, IamKept
  <2>2. Iam!Owed' = policies \ {p} /\ Iam!Owed = policies
    BY <1>1 DEF Iam!Owed
  <2>3. Iam!TypeOK'
    BY <1>2, <2>1 DEF IamInv, Iam!TypeOK, IamHeld
  <2>4. IamShape' /\ IamHeld'
    BY <1>1, <2>1, <2>2 DEF IamInv, IamShape, IamHeld, Iam!Assumed, SpecIs
  <2>5. IamRead'
    BY <1>1 DEF IamRead
  <2> QED BY <2>1, <2>3, <2>4, <2>5 DEF IamInv
<1>5. CASE \E answer : Iam!End(answer)
  BY <1>1, <1>5, IamEnds DEF Iam!End
<1> QED BY <1>3, <1>4, <1>5 DEF Iam!GetPolicy, p

\* A policy is emitted with nothing of a role in it, or given up.
LEMMA IamGetVersion ==
  ASSUME IamInv, Iam!GetVersion
  PROVE  IamInv'
<1> DEFINE p == Iam!Min(policies)
           new == [id |-> p, by |-> {}, spec |-> Iam!Empty]
<1>1. /\ result = "running" /\ at = "GetPolicyVersion" /\ role = 0 /\ todo = {} /\ policies # {}
      /\ SpecIs(spec)
  BY DEF Iam!GetVersion, Iam!Reading, IamInv, IamShape
<1>2. p \in policies /\ p \in Policies /\ p \in Iam!Owed /\ p \notin Roles
  BY <1>1, IamAccount, LeastIn DEF IamInv, Iam!TypeOK, Iam!Owed
<1>3. new.id = p
  OBVIOUS
<1> HIDE DEF p, new
<1>4. CASE /\ policies' = policies \ {p} /\ at' = "GetRole"
           /\ UNCHANGED <<alive, todo, role, page, names, spec, result>>
           /\ \/ emitted' = emitted \cup {new} /\ UNCHANGED <<lost, warnings>>
              \/ lost' = lost \cup {p} /\ warnings \subseteq warnings' /\ emitted' = emitted
  <2> USE <1>4
  <2>1. Iam!Owed' = policies \ {p} /\ Iam!Owed = policies
    BY <1>1 DEF Iam!Owed
  <2>2. /\ Iam!Emitted' \cup lost' = (Iam!Emitted \cup lost) \cup {p}
        /\ Iam!Emitted' \cap lost' = {}
    <3>1. p \notin Iam!Emitted \cup lost /\ Iam!Emitted \cap lost = {}
      BY <1>2 DEF IamInv, IamHeld, Iam!TypeOK
    <3>2. Iam!Emitted' = Iam!Emitted \cup {p} \/ emitted' = emitted
      BY <1>3 DEF Iam!Emitted
    <3>3. emitted' = emitted => Iam!Emitted' = Iam!Emitted
      BY DEF Iam!Emitted
    <3>4. CASE emitted' = emitted \cup {new} /\ UNCHANGED lost
      <4>1. Iam!Emitted' = Iam!Emitted \cup {p}
        BY <1>3, <3>4 DEF Iam!Emitted
      <4> QED BY <3>1, <3>4, <4>1
    <3>5. CASE lost' = lost \cup {p} /\ emitted' = emitted
      BY <3>1, <3>3, <3>5
    <3> QED BY <3>4, <3>5
  <2>3. Iam!TypeOK'
    BY <1>2, <2>2 DEF IamInv, Iam!TypeOK
  <2>4. IamShape'
    BY <1>1, <2>1 DEF IamInv, IamShape, SpecIs
  <2>5. IamHeld'
    BY <1>1, <2>1, <2>2 DEF IamInv, IamHeld, Iam!Assumed
  <2>6. IamRead'
    BY <1>1 DEF IamRead
  <2>7. Iam!NoNamesake' /\ Iam!UnmarkedIsWhole'
    <3>1. \A e \in emitted' : e.id \in Roles => e \in emitted
      BY <1>2, <1>3
    <3> QED BY <1>1, <3>1 DEF IamInv, Iam!NoNamesake, Iam!UnmarkedIsWhole
  <2> QED BY <2>3, <2>4, <2>5, <2>6, <2>7 DEF IamInv
<1>5. CASE \E answer : Iam!End(answer)
  BY <1>1, <1>5, IamEnds DEF Iam!End
<1> QED BY <1>4, <1>5 DEF Iam!GetVersion, p, new

\* Every step of the IAM collector.
LEMMA IamSteps ==
  ASSUME IamInv, Iam!Next
  PROVE  IamInv'
<1>1. CASE Iam!Return
  <2>1. at = "GetRole" /\ role = 0 /\ todo = {} /\ policies = {}
    BY <1>1 DEF Iam!Return, Iam!Reading, IamInv, IamShape
  <2>2. Iam!Owed = {}
    BY <2>1 DEF Iam!Owed
  <2> QED BY <1>1, <2>1, <2>2, IamEnds DEF Iam!Return
<1>2. CASE Iam!Done
  BY <1>2, IamEnds DEF Iam!Done, Iam!vars
<1> QED BY <1>1, <1>2, IamDelete, IamStart, IamGetRole, IamListInline, IamGetInline,
           IamListAttached, IamGetPolicy, IamGetVersion DEF Iam!Next
-----------------------------------------------------------------------------
(* RDS and ElastiCache, which join what they list. *)

\* The listings behind, and of the one under way what comes before its next page.
Behind == [groups |-> {}, items |-> {"groups"}, serverless |-> {"groups", "items"},
           join |-> {"groups", "items", "serverless"},
           emit |-> {"groups", "items", "serverless"}]
PastIt(listing, x) == listing \in Behind[at] \/ (at = listing /\ x < next)

JoinedShape ==
  /\ service \in {"RDS", "ElastiCache"} /\ at \in DOMAIN Behind /\ next \in Nat
  /\ group \in [Items -> Groups \cup {Joined!Alone, Joined!Absent}]
  /\ \A i \in Items \cap touched : group[i] \in touched
  /\ result \in {"running", "nil", "error"} /\ (result = "nil" => at = "emit" /\ todo = {})

\* What was listed is what was there, and for an item nobody touched still is; an
\* item of one engine is never in a group of another.
JoinedSaw ==
  /\ \A s \in saw : \/ s.id \in Items /\ s.group \in Groups \cup {Joined!Alone}
                    \/ s.id \in Serverless /\ s.group = Joined!Alone
  /\ \A g \in sawGroup : g.id \in Groups /\ g.members \subseteq Items
  /\ \A s \in saw : s.id \in Items \ touched => s.group = group[s.id]
  /\ \A g \in sawGroup, i \in Items \ touched : i \in g.members <=> group[i] = g.id
  /\ service = "RDS" =>
       /\ \A i \in Items : group[i] \in Groups => (i \in Foreign <=> group[i] \in Foreign)
       /\ \A g \in sawGroup : \A i \in g.members : i \in Foreign <=> g.id \in Foreign

\* Without a denial, what stayed as it was is in the part of the listings read so
\* far: a group by a member that stayed or, for RDS, by itself.
Stays(g) == (\E i \in Items \ touched : group[i] = g) \/ (g \in Standing /\ service = "RDS")
JoinedSeen ==
  ~Joined!Denied =>
    /\ \A i \in Items \ touched : PastIt("items", i) /\ group[i] # Joined!Absent =>
         \E s \in saw : s.id = i /\ s.group = group[i]
    /\ service = "ElastiCache" =>
         \A x \in Serverless : PastIt("serverless", x) =>
           \E s \in saw : s.id = x /\ s.group = Joined!Alone
    /\ \A g \in Groups : PastIt("groups", g) /\ Stays(g) => g \in Joined!OwnGroups

\* Nothing is emitted before the join, and then all that came of it, once.
EmittedIds == {e.id : e \in emitted}
JoinedOut ==
  /\ at # "emit" => todo = {} /\ emitted = {}
  /\ at = "emit" =>
       /\ todo \cup EmittedIds = Joined!ToEmit \ Joined!Others /\ todo \cap EmittedIds = {}
       /\ \A x \in Joined!ToEmit \cap Joined!Others : <<"out-of-scope", x>> \in warnings
  /\ \A e \in emitted : e.nodes = Joined!Nodes(e.id)

JoinedInv == JoinedShape /\ JoinedSaw /\ JoinedSeen /\ JoinedOut
\* The numbers of items, groups and serverless caches are apart.
LEMMA JoinedAccount ==
  /\ Items \subseteq Nat /\ Groups \subseteq Nat /\ Serverless \subseteq Nat
  /\ Items \cap Groups = {} /\ Items \cap Serverless = {} /\ Groups \cap Serverless = {}
  /\ 0 \notin Items \cup Groups \cup Serverless
  /\ \A x \in Items \cup Groups : x # Joined!Alone /\ x # Joined!Absent
  /\ Joined!Alone # Joined!Absent
  /\ InitialGroup \in [{"RDS", "ElastiCache"} -> [Items -> Groups \cup {Joined!Alone, Joined!Absent}]]
  /\ \A i \in Items : InitialGroup["RDS"][i] \in Groups =>
       (i \in Foreign <=> InitialGroup["RDS"][i] \in Foreign)
<1> USE CollectorsAssumption DEF Joined!MemberAssumption, Joined!Alone, Joined!Absent
<1>1. Items \subseteq Nat \ {0} /\ Groups \subseteq Nat \ {0} /\ Serverless \subseteq Nat \ {0}
  OBVIOUS
<1>2. Items \cap Groups = {}
  <2>1. \A i \in Items, g \in Groups : i < g
    OBVIOUS
  <2> QED BY <1>1, <2>1
<1>3. (Items \cup Groups) \cap Serverless = {}
  <2>1. \A x \in Items \cup Groups, s \in Serverless : x < s
    OBVIOUS
  <2> QED BY <1>1, <2>1
<1>4. \A x \in Items \cup Groups : x # 0 /\ x # -1
  BY <1>1
<1> QED BY <1>1, <1>2, <1>3, <1>4

\* What is to be emitted, and with which nodes, is a matter of what was listed.
LEMMA SameLists ==
  ASSUME UNCHANGED <<service, saw, sawGroup>>
  PROVE  /\ Joined!ToEmit' = Joined!ToEmit /\ Joined!Others' = Joined!Others
         /\ Joined!OwnGroups' = Joined!OwnGroups
         /\ \A x : Joined!Nodes(x)' = Joined!Nodes(x)
BY DEF Joined!ToEmit, Joined!Others, Joined!OwnGroups, Joined!Nodes

\* The first page is the first of the groups.
LEMMA JoinedBegins == Joined!Init => JoinedInv
<1> SUFFICES ASSUME Joined!Init PROVE JoinedInv
  OBVIOUS
<1> USE DEF Joined!Init
<1>1. group \in [Items -> Groups \cup {Joined!Alone, Joined!Absent}]
  BY JoinedAccount
<1>2. JoinedShape
  BY <1>1 DEF JoinedShape, Behind
<1>3. JoinedSaw
  BY JoinedAccount DEF JoinedSaw
<1>4. \A l, x : PastIt(l, x) => l = "groups" /\ x < 1
  BY DEF PastIt, Behind
<1>5. \A g \in Groups : ~(g < 1)
  BY JoinedAccount
<1>6. JoinedSeen
  BY <1>4, <1>5 DEF JoinedSeen
<1>7. JoinedOut
  BY DEF JoinedOut
<1> QED BY <1>2, <1>3, <1>6, <1>7 DEF JoinedInv

\* An item that changes is touched, and so are the group it leaves and the one it
\* joins; what is left alone stays where it was.
LEMMA JoinedRegroup ==
  ASSUME JoinedInv, NEW i \in Items, NEW m \in Groups \cup {Joined!Alone, Joined!Absent},
         Joined!Regroup(i, m)
  PROVE  JoinedInv'
<1>1. /\ i \notin touched /\ m # group[i]
      /\ group' = [group EXCEPT ![i] = m] /\ touched' = touched \cup {i, m, group[i]}
      /\ UNCHANGED <<service, at, next, saw, sawGroup, todo, emitted, warnings, result>>
      /\ result = "running"
      /\ service = "RDS" /\ m \in Groups => (i \in Foreign <=> m \in Foreign)
  BY DEF Joined!Regroup, Joined!Listing, Joined!listings
<1>2. group \in [Items -> Groups \cup {Joined!Alone, Joined!Absent}]
  BY DEF JoinedInv, JoinedShape
<1>3. \A x \in Items : x \notin touched' => x \notin touched /\ x # i
  BY <1>1
<1>4. \A x \in Items : group'[x] = IF x = i THEN m ELSE group[x]
  BY <1>1, <1>2
<1>5. group' \in [Items -> Groups \cup {Joined!Alone, Joined!Absent}]
  BY <1>1, <1>2
<1>6. \A x \in Items \cap touched' : x = i \/ x \in touched
  BY <1>1, <1>2, JoinedAccount
<1>7. JoinedShape'
  <2>1. \A x \in Items \cap touched' : group'[x] \in touched'
    BY <1>1, <1>4, <1>6 DEF JoinedInv, JoinedShape
  <2> QED BY <1>1, <1>5, <2>1 DEF JoinedInv, JoinedShape
<1>8. JoinedSaw'
  BY <1>1, <1>3, <1>4 DEF JoinedInv, JoinedSaw
<1>9. JoinedSeen'
  <2>1. \A g : Stays(g)' => Stays(g)
    BY <1>1, <1>3, <1>4 DEF Stays
  <2>2. \A l, x : PastIt(l, x)' <=> PastIt(l, x)
    BY <1>1 DEF PastIt, Behind
  <2>3. Joined!OwnGroups' = Joined!OwnGroups /\ (Joined!Denied' <=> Joined!Denied)
    BY <1>1 DEF Joined!OwnGroups, Joined!Denied
  <2> QED BY <1>1, <1>3, <1>4, <2>1, <2>2, <2>3 DEF JoinedInv, JoinedSeen
<1>10. JoinedOut'
  BY <1>1, SameLists DEF JoinedInv, JoinedOut, EmittedIds
<1> QED BY <1>7, <1>8, <1>9, <1>10 DEF JoinedInv

\* One listing ends, denied or read, and the next begins.
LEMMA JoinedNextListing ==
  ASSUME JoinedInv, Joined!DenyPage \/ Joined!EndListing
  PROVE  JoinedInv'
<1>1. /\ at \in {"groups", "items", "serverless"} /\ at' = Joined!After[at] /\ next' = 1
      /\ UNCHANGED <<service, group, touched, saw, sawGroup, todo, emitted, result>>
      /\ warnings \subseteq warnings' /\ result = "running"
      /\ Joined!Denied' \/ (Joined!Left = {} /\ warnings' = warnings)
  <2>1. CASE Joined!EndListing
    BY <2>1 DEF Joined!EndListing, Joined!Listing
  <2>2. CASE Joined!DenyPage
    <3>1. warnings' = warnings \cup {<<at, 0>>} /\ <<at, 0>>[2] = 0
      BY <2>2 DEF Joined!DenyPage
    <3>2. Joined!Denied'
      BY <3>1 DEF Joined!Denied
    <3> QED BY <2>2, <3>2 DEF Joined!DenyPage, Joined!Listing
  <2> QED BY <2>1, <2>2
<1>2. at' \in DOMAIN Behind /\ at' # "emit" /\ at # "emit" /\ Behind[at'] = Behind[at] \cup {at}
  BY <1>1 DEF Joined!After, Behind
<1>3. JoinedShape'
  <2>1. next' \in Nat /\ result' # "nil"
    BY <1>1
  <2> QED BY <1>1, <1>2, <2>1 DEF JoinedInv, JoinedShape
<1>4. JoinedSaw'
  BY <1>1 DEF JoinedInv, JoinedSaw
<1>5. JoinedOut'
  BY <1>1, <1>2 DEF JoinedInv, JoinedOut, EmittedIds
<1>6. JoinedSeen'
  <2> SUFFICES ASSUME ~Joined!Denied' PROVE JoinedSeen'
    BY DEF JoinedSeen
  <2>1. Joined!Left = {} /\ warnings' = warnings /\ ~Joined!Denied
    BY <1>1 DEF Joined!Denied
  <2>2. \A x \in Joined!Listed[at] : ~(x >= next)
    BY <2>1 DEF Joined!Left
  <2>3. next \in Nat
    BY DEF JoinedInv, JoinedShape
  <2>4. \A l \in {"groups", "items", "serverless"} : \A x \in Joined!Listed[l] :
          PastIt(l, x)' => PastIt(l, x)
    <3> SUFFICES ASSUME NEW l \in {"groups", "items", "serverless"}, NEW x \in Joined!Listed[l],
                        PastIt(l, x)'
                 PROVE  PastIt(l, x)
      OBVIOUS
    <3>1. x \in Nat /\ x # 0
      <4>1. Joined!Listed[l] \subseteq Items \cup Groups \cup Serverless
        BY DEF Joined!Listed
      <4> QED BY <4>1, JoinedAccount
    <3>2. l \in Behind[at'] \/ x < 1
      BY <1>1 DEF PastIt
    <3>3. l \in Behind[at] \/ l = at
      BY <1>2, <3>1, <3>2 DEF Behind
    <3> QED BY <2>2, <2>3, <3>1, <3>3 DEF PastIt
  <2>5. \A g : Stays(g)' <=> Stays(g)
    BY <1>1 DEF Stays
  <2>6. /\ Joined!Listed["items"] = Items /\ Joined!Listed["groups"] = Groups
        /\ service = "ElastiCache" => Joined!Listed["serverless"] = Serverless
    BY DEF Joined!Listed
  <2>7. Joined!OwnGroups' = Joined!OwnGroups
    BY <1>1 DEF Joined!OwnGroups
  <2>8. \A i \in Items : PastIt("items", i)' => PastIt("items", i)
    BY <2>4, <2>6
  <2>9. \A g \in Groups : PastIt("groups", g)' => PastIt("groups", g)
    BY <2>4, <2>6
  <2>10. service = "ElastiCache" =>
           \A x \in Serverless : PastIt("serverless", x)' => PastIt("serverless", x)
    BY <2>4, <2>6
  <2> QED BY <1>1, <2>1, <2>5, <2>7, <2>8, <2>9, <2>10 DEF JoinedInv, JoinedSeen
<1> QED BY <1>3, <1>4, <1>5, <1>6 DEF JoinedInv
\* One more of a listing, if it is there.
LEMMA JoinedListPage ==
  ASSUME JoinedInv, Joined!ListPage
  PROVE  JoinedInv'
<1> DEFINE x == Joined!Min(Joined!Left)
           newGroup == [id |-> x, members |-> Joined!Members(x)]
           newItem == [id |-> x, group |-> IF at = "items" THEN group[x] ELSE Joined!Alone]
<1>1. /\ at \in {"groups", "items", "serverless"} /\ result = "running" /\ next' = x + 1
      /\ Joined!Left # {}
      /\ UNCHANGED <<service, group, touched, at, todo, emitted, warnings, result>>
  BY DEF Joined!ListPage, Joined!Listing
<1>2. /\ sawGroup' = IF Joined!Exists(x) /\ at = "groups" THEN sawGroup \cup {newGroup} ELSE sawGroup
      /\ saw' = IF Joined!Exists(x) /\ at # "groups" THEN saw \cup {newItem} ELSE saw
  BY DEF Joined!ListPage
<1>3. /\ at = "groups" => Joined!Listed[at] = Groups
      /\ at = "items" => Joined!Listed[at] = Items
      /\ at = "serverless" => Joined!Listed[at] = IF service = "RDS" THEN {} ELSE Serverless
  BY DEF Joined!Listed
<1>4. Joined!Listed[at] \subseteq Nat
  BY <1>1, <1>3, JoinedAccount
<1>5. /\ x \in Joined!Listed[at] /\ x \in Nat /\ next \in Nat
      /\ \A y \in Joined!Listed[at] : y < x + 1 => y < next \/ y = x
  <2>1. Joined!Left \subseteq Nat
    BY <1>4 DEF Joined!Left
  <2>2. x \in Joined!Left /\ \A y \in Joined!Left : x <= y
    BY <1>1, <2>1, LeastIn
  <2>3. next \in Nat
    BY DEF JoinedInv, JoinedShape
  <2> HIDE DEF x
  <2>4. x \in Joined!Listed[at] /\ x \in Nat
    BY <2>1, <2>2 DEF Joined!Left
  <2>5. ASSUME NEW y \in Joined!Listed[at], y < x + 1
        PROVE  y < next \/ y = x
    <3>1. y >= next => y \in Joined!Left
      BY DEF Joined!Left
    <3>2. y >= next => x <= y
      BY <2>2, <3>1
    <3>3. y \in Nat
      BY <1>4
    <3> QED BY <2>3, <2>4, <2>5, <3>2, <3>3
  <2> QED BY <2>3, <2>4, <2>5
<1>6. /\ newGroup.id = x /\ newGroup.members = Joined!Members(x)
      /\ newItem.id = x /\ newItem.group = IF at = "items" THEN group[x] ELSE Joined!Alone
  OBVIOUS
<1> HIDE DEF x, newGroup, newItem
<1>7. JoinedShape'
  <2>1. x + 1 \in Nat
    BY <1>5
  <2> QED BY <1>1, <2>1 DEF JoinedInv, JoinedShape
<1>8. JoinedSaw'
  <2>1. CASE at = "groups"
    <3>1. x \in Groups /\ saw' = saw
      BY <1>2, <1>3, <1>5, <2>1
    <3>2. \A i \in Joined!Members(x) : i \in Items /\ group[i] = x
      BY DEF Joined!Members
    <3>3. \A i \in Items \ touched : i \in newGroup.members <=> group[i] = newGroup.id
      BY <1>6 DEF Joined!Members
    <3>4. newGroup.id \in Groups /\ newGroup.members \subseteq Items
      BY <1>6, <3>1, <3>2
    <3>5. service = "RDS" => \A i \in newGroup.members : i \in Foreign <=> newGroup.id \in Foreign
      BY <1>6, <3>1, <3>2 DEF JoinedInv, JoinedSaw
    <3>6. sawGroup' = sawGroup \/ sawGroup' = sawGroup \cup {newGroup}
      BY <1>2
    <3> QED BY <1>1, <3>1, <3>3, <3>4, <3>5, <3>6 DEF JoinedInv, JoinedSaw
  <2>2. CASE at # "groups"
    <3>1. sawGroup' = sawGroup /\ (saw' = saw \/ (Joined!Exists(x) /\ saw' = saw \cup {newItem}))
      BY <1>2, <2>2
    <3>2. Joined!Exists(x) =>
            \/ newItem.id \in Items /\ newItem.group \in Groups \cup {Joined!Alone}
            \/ newItem.id \in Serverless /\ newItem.group = Joined!Alone
      <4>1. CASE at = "items"
        <5>1. x \in Items /\ group[x] \in Groups \cup {Joined!Alone, Joined!Absent}
          BY <1>3, <1>5, <4>1 DEF JoinedInv, JoinedShape
        <5>2. Joined!Exists(x) => group[x] # Joined!Absent
          BY <5>1, JoinedAccount DEF Joined!Exists
        <5> QED BY <1>6, <4>1, <5>1, <5>2
      <4>2. CASE at = "serverless"
        BY <1>3, <1>5, <1>6, <4>2
      <4> QED BY <1>1, <2>2, <4>1, <4>2
    <3>3. newItem.id \in Items \ touched => newItem.group = group[newItem.id]
      <4>1. at = "serverless" => x \in Serverless
        BY <1>3, <1>5
      <4> QED BY <1>1, <1>6, <2>2, <4>1, JoinedAccount
    <3> QED BY <1>1, <3>1, <3>2, <3>3 DEF JoinedInv, JoinedSaw
  <2> QED BY <2>1, <2>2
<1>9. JoinedSeen'
  <2> SUFFICES ASSUME ~Joined!Denied' PROVE JoinedSeen'
    BY DEF JoinedSeen
  <2>1. ~Joined!Denied
    BY <1>1 DEF Joined!Denied
  <2>2. \A l, y : PastIt(l, y)' /\ ~PastIt(l, y) => l = at /\ y < x + 1 /\ ~(y < next)
    BY <1>1 DEF PastIt
  <2>3. saw \subseteq saw' /\ sawGroup \subseteq sawGroup'
    BY <1>2
  <2>4. \A g : Stays(g)' <=> Stays(g)
    BY <1>1 DEF Stays
  <2>5. ASSUME NEW i \in Items \ touched, PastIt("items", i)', group[i] # Joined!Absent
        PROVE  \E s \in saw' : s.id = i /\ s.group = group[i]
    <3>1. CASE PastIt("items", i)
      BY <2>1, <2>3, <2>5, <3>1 DEF JoinedInv, JoinedSeen
    <3>2. CASE ~PastIt("items", i)
      <4>1. at = "items" /\ i < x + 1 /\ ~(i < next)
        BY <2>2, <2>5, <3>2
      <4>2. i = x
        BY <1>3, <1>5, <4>1
      <4>3. Joined!Exists(x)
        BY <2>5, <4>2 DEF Joined!Exists
      <4> QED BY <1>2, <1>6, <4>1, <4>2, <4>3
    <3> QED BY <3>1, <3>2
  <2>6. ASSUME service = "ElastiCache", NEW y \in Serverless, PastIt("serverless", y)'
        PROVE  \E s \in saw' : s.id = y /\ s.group = Joined!Alone
    <3>1. CASE PastIt("serverless", y)
      BY <2>1, <2>3, <2>6, <3>1 DEF JoinedInv, JoinedSeen
    <3>2. CASE ~PastIt("serverless", y)
      <4>1. at = "serverless" /\ y < x + 1 /\ ~(y < next)
        BY <2>2, <2>6, <3>2
      <4>2. y = x
        BY <1>3, <1>5, <2>6, <4>1
      <4>3. Joined!Exists(x)
        BY <2>6, <4>2 DEF Joined!Exists
      <4> QED BY <1>2, <1>6, <4>1, <4>2, <4>3
    <3> QED BY <3>1, <3>2
  <2>7. ASSUME NEW g \in Groups, PastIt("groups", g)', Stays(g)
        PROVE  g \in Joined!OwnGroups'
    <3>1. CASE PastIt("groups", g)
      <4>1. g \in Joined!OwnGroups
        BY <2>1, <2>7, <3>1 DEF JoinedInv, JoinedSeen
      <4> QED BY <2>3, <4>1 DEF Joined!OwnGroups
    <3>2. CASE ~PastIt("groups", g)
      <4>1. at = "groups" /\ g < x + 1 /\ ~(g < next)
        BY <2>2, <2>7, <3>2
      <4>2. g = x
        BY <1>3, <1>5, <4>1
      <4>3. Joined!Exists(x)
        BY <2>7, <4>2 DEF Joined!Exists, Joined!Members, Stays
      <4>4. newGroup \in sawGroup' /\ newGroup.id = g
        BY <1>2, <1>6, <4>1, <4>2, <4>3
      <4> QED BY <4>4 DEF Joined!OwnGroups
    <3> QED BY <3>1, <3>2
  <2> QED BY <1>1, <2>4, <2>5, <2>6, <2>7 DEF JoinedSeen
<1>10. JoinedOut'
  BY <1>1 DEF JoinedInv, JoinedOut
<1> QED BY <1>7, <1>8, <1>9, <1>10 DEF JoinedInv
\* What is still to be emitted was listed.
LEMMA ToEmitIs ==
  ASSUME JoinedInv
  PROVE  /\ Joined!ToEmit \subseteq Items \cup Groups \cup Serverless
         /\ Joined!ToEmit \subseteq Joined!OwnGroups \cup {s.id : s \in saw}
         /\ todo \subseteq Joined!ToEmit /\ todo \subseteq Nat
<1>1. Joined!ToEmit \subseteq Items \cup Groups \cup Serverless
  BY DEF Joined!ToEmit, Joined!OwnGroups, JoinedInv, JoinedSaw
<1>2. Joined!ToEmit \subseteq Joined!OwnGroups \cup {s.id : s \in saw}
  BY DEF Joined!ToEmit
<1>3. todo \subseteq Joined!ToEmit
  BY DEF JoinedInv, JoinedOut
<1> QED BY <1>1, <1>2, <1>3, JoinedAccount

\* All that the listings hold is joined at once.
LEMMA JoinedJoin ==
  ASSUME JoinedInv, Joined!Join
  PROVE  JoinedInv'
<1>1. /\ at = "join" /\ at' = "emit" /\ todo' = Joined!ToEmit \ Joined!Others
      /\ warnings' = warnings \cup {<<"out-of-scope", x>> : x \in Joined!ToEmit \cap Joined!Others}
      /\ UNCHANGED <<service, group, touched, next, saw, sawGroup, emitted, result>>
      /\ result = "running" /\ emitted = {}
  BY DEF Joined!Join, JoinedInv, JoinedOut
<1>2. JoinedShape'
  BY <1>1 DEF JoinedInv, JoinedShape, Behind
<1>3. JoinedSaw'
  BY <1>1 DEF JoinedInv, JoinedSaw
<1>4. JoinedSeen'
  <2>1. Joined!Denied => Joined!Denied'
    BY <1>1 DEF Joined!Denied
  <2>2. \A l \in {"items", "serverless", "groups"} : \A x : PastIt(l, x)' => PastIt(l, x)
    <3>1. Behind[at'] = Behind[at]
      BY <1>1 DEF Behind
    <3> QED BY <1>1, <3>1 DEF PastIt
  <2>3. \A g : Stays(g)' <=> Stays(g)
    BY <1>1 DEF Stays
  <2>4. Joined!OwnGroups' = Joined!OwnGroups
    BY <1>1, SameLists
  <2> QED BY <1>1, <2>1, <2>2, <2>3, <2>4 DEF JoinedInv, JoinedSeen
<1>5. JoinedOut'
  <2>1. Joined!ToEmit' = Joined!ToEmit /\ Joined!Others' = Joined!Others
    BY <1>1, SameLists
  <2>2. EmittedIds' = {} /\ emitted' = {}
    BY <1>1 DEF EmittedIds
  <2> QED BY <1>1, <2>1, <2>2 DEF JoinedOut
<1> QED BY <1>2, <1>3, <1>4, <1>5 DEF JoinedInv

\* One after the other, each with its nodes, whether or not its tags can be read.
LEMMA JoinedEmit ==
  ASSUME JoinedInv, Joined!Emit
  PROVE  JoinedInv'
<1> DEFINE x == Joined!Min(todo)
           new == [id |-> x, nodes |-> Joined!Nodes(x)]
<1>1. /\ at = "emit" /\ todo # {} /\ result = "running" /\ todo' = todo \ {x}
      /\ emitted' = emitted \cup {new} /\ warnings \subseteq warnings'
      /\ UNCHANGED <<service, group, touched, at, next, saw, sawGroup, result>>
  BY DEF Joined!Emit, Joined!listings
<1>2. x \in todo
  BY <1>1, ToEmitIs, LeastIn
<1>3. new.id = x /\ new.nodes = Joined!Nodes(x)
  OBVIOUS
<1> HIDE DEF x, new
<1>4. JoinedShape'
  BY <1>1 DEF JoinedInv, JoinedShape
<1>5. JoinedSaw'
  BY <1>1 DEF JoinedInv, JoinedSaw
<1>6. JoinedSeen'
  <2>1. Joined!Denied => Joined!Denied'
    BY <1>1 DEF Joined!Denied
  <2>2. \A l, y : PastIt(l, y)' <=> PastIt(l, y)
    BY <1>1 DEF PastIt
  <2>3. \A g : Stays(g)' <=> Stays(g)
    BY <1>1 DEF Stays
  <2>4. Joined!OwnGroups' = Joined!OwnGroups
    BY <1>1, SameLists
  <2> QED BY <1>1, <2>1, <2>2, <2>3, <2>4 DEF JoinedInv, JoinedSeen
<1>7. JoinedOut'
  <2>1. /\ Joined!ToEmit' = Joined!ToEmit /\ Joined!Others' = Joined!Others
        /\ \A y : Joined!Nodes(y)' = Joined!Nodes(y)
    BY <1>1, SameLists
  <2>2. EmittedIds' = EmittedIds \cup {x}
    BY <1>1, <1>3 DEF EmittedIds
  <2>3. /\ todo \cup EmittedIds = Joined!ToEmit \ Joined!Others /\ todo \cap EmittedIds = {}
        /\ \A y \in Joined!ToEmit \cap Joined!Others : <<"out-of-scope", y>> \in warnings
    BY <1>1 DEF JoinedInv, JoinedOut
  <2>4. \A e \in emitted' : e.nodes = Joined!Nodes(e.id)
    BY <1>1, <1>3 DEF JoinedInv, JoinedOut
  <2>5. todo' \cup EmittedIds' = todo \cup EmittedIds /\ todo' \cap EmittedIds' = {}
    BY <1>1, <1>2, <2>2, <2>3
  <2> QED BY <1>1, <2>1, <2>3, <2>4, <2>5 DEF JoinedOut
<1> QED BY <1>4, <1>5, <1>6, <1>7 DEF JoinedInv

\* An error ends it where it is, and so does having emitted everything.
LEMMA JoinedEnds ==
  ASSUME JoinedInv,
         UNCHANGED <<service, group, touched, at, next, saw, sawGroup, todo, emitted, warnings>>,
         result' = "error" \/ result' = result \/ (result' = "nil" /\ at = "emit" /\ todo = {})
  PROVE  JoinedInv'
<1>1. JoinedShape'
  BY DEF JoinedInv, JoinedShape
<1>2. JoinedSaw'
  BY DEF JoinedInv, JoinedSaw
<1>3. JoinedSeen'
  <2>1. \A l, x : PastIt(l, x)' <=> PastIt(l, x)
    BY DEF PastIt
  <2>2. \A g : Stays(g)' <=> Stays(g)
    BY DEF Stays
  <2>3. Joined!OwnGroups' = Joined!OwnGroups /\ (Joined!Denied' <=> Joined!Denied)
    BY DEF Joined!OwnGroups, Joined!Denied
  <2> QED BY <2>1, <2>2, <2>3 DEF JoinedInv, JoinedSeen
<1>4. JoinedOut'
  BY SameLists DEF JoinedInv, JoinedOut, EmittedIds
<1> QED BY <1>1, <1>2, <1>3, <1>4 DEF JoinedInv

\* Every step of the collectors that join.
LEMMA JoinedSteps ==
  ASSUME JoinedInv, Joined!Next
  PROVE  JoinedInv'
<1>1. CASE Joined!Fail \/ Joined!Return \/ Joined!Done
  BY <1>1, JoinedEnds DEF Joined!Fail, Joined!Return, Joined!Done, Joined!listings, Joined!vars
<1> QED BY <1>1, JoinedRegroup, JoinedNextListing, JoinedListPage, JoinedJoin, JoinedEmit
        DEF Joined!Next

\* The nodes of what is emitted are items, and a node nobody touched is in the group
\* whose node it is.
LEMMA NodesAre ==
  ASSUME JoinedInv, NEW e \in emitted
  PROVE  /\ e.id \in Joined!ToEmit \ Joined!Others /\ e.id \in Items \cup Groups \cup Serverless
         /\ e.nodes = Joined!Nodes(e.id) /\ e.nodes \subseteq Items
         /\ \A x \in e.nodes \ touched : group[x] = e.id
<1>1. e.id \in Joined!ToEmit \ Joined!Others /\ e.nodes = Joined!Nodes(e.id)
  BY DEF JoinedInv, JoinedOut, EmittedIds
<1>2. e.id \in Items \cup Groups \cup Serverless /\ e.id # 0
  BY <1>1, ToEmitIs, JoinedAccount
<1>3. ASSUME NEW x \in e.nodes
      PROVE  x \in Items /\ (x \notin touched => group[x] = e.id)
  <2>1. CASE \E g \in sawGroup : g.id = e.id /\ x \in g.members
    BY <2>1 DEF JoinedInv, JoinedSaw
  <2>2. CASE \E s \in saw : s.group = e.id /\ x = s.id
    BY <1>2, <2>2 DEF JoinedInv, JoinedSaw, Joined!Alone
  <2>3. x \in Joined!Nodes(e.id)
    BY <1>1, <1>3
  <2>4. \/ \E g \in sawGroup : g.id = e.id /\ x \in g.members
        \/ \E s \in saw : s.group = e.id /\ x = s.id
    BY <2>3 DEF Joined!Nodes
  <2> QED BY <2>1, <2>2, <2>4
<1> QED BY <1>1, <1>2, <1>3

\* A group something stayed in was listed.
LEMMA GroupWasListed ==
  ASSUME JoinedInv, at = "emit", ~Joined!Denied, NEW g \in Groups, Stays(g)
  PROVE  g \in Joined!OwnGroups
<1>1. PastIt("groups", g)
  BY DEF PastIt, Behind
<1> QED BY <1>1 DEF JoinedInv, JoinedSeen

\* What stays and is an item was listed where it is.
LEMMA ItemWasListed ==
  ASSUME JoinedInv, at = "emit", ~Joined!Denied, NEW i \in Items \ touched,
         group[i] # Joined!Absent
  PROVE  \E s \in saw : s.id = i /\ s.group = group[i]
<1>1. PastIt("items", i)
  BY DEF PastIt, Behind
<1> QED BY <1>1 DEF JoinedInv, JoinedSeen

\* The same for a serverless cache.
LEMMA ServerlessWasListed ==
  ASSUME JoinedInv, at = "emit", ~Joined!Denied, service = "ElastiCache", NEW x \in Serverless
  PROVE  x \in Joined!ToEmit
<1>1. \E s \in saw : s.id = x /\ s.group = Joined!Alone
  <2>1. PastIt("serverless", x)
    BY DEF PastIt, Behind
  <2> QED BY <2>1 DEF JoinedInv, JoinedSeen
<1> QED BY <1>1 DEF Joined!ToEmit

\* A group nobody touched has something that stays.
LEMMA UntouchedStays ==
  ASSUME JoinedInv, NEW g \in Groups \ touched, Joined!Exists(g)
  PROVE  Stays(g)
<1>1. g \notin Serverless /\ g \notin Items
  BY JoinedAccount
<1>2. CASE \E i \in Items : group[i] = g
  <2>1. PICK i \in Items : group[i] = g
    BY <1>2
  <2>2. i \notin touched
    BY <2>1 DEF JoinedInv, JoinedShape
  <2> QED BY <2>1, <2>2 DEF Stays
<1>3. CASE g \in Standing /\ service = "RDS"
  BY <1>3 DEF Stays
<1> QED BY <1>1, <1>2, <1>3 DEF Joined!Exists, Joined!Members
\* What stays is emitted where it is, and nowhere else.
LEMMA JoinedCollects == JoinedInv => Joined!WhatStaysIsCollected
<1> SUFFICES ASSUME JoinedInv, result = "nil", ~Joined!Denied,
                    NEW x \in (Items \cup Groups \cup Serverless) \ (Joined!Others \cup touched),
                    Joined!Exists(x)
             PROVE  LET alone == \E e \in emitted : e.id = x
                        node  == \E e \in emitted : x \in e.nodes IN
                    IF x \in Items /\ group[x] # Joined!Alone
                    THEN ~alone /\ \E e \in emitted : e.id = group[x] /\ x \in e.nodes
                    ELSE alone /\ ~node
  BY DEF Joined!WhatStaysIsCollected
<1>1. at = "emit" /\ \A y \in Joined!ToEmit \ Joined!Others : \E e \in emitted : e.id = y
  BY DEF JoinedInv, JoinedShape, JoinedOut, EmittedIds
<1>2. x \in Items => group[x] # Joined!Absent /\ group[x] \in Groups \cup {Joined!Alone, Joined!Absent}
  BY JoinedAccount DEF Joined!Exists, JoinedInv, JoinedShape
<1>3. CASE x \in Items /\ group[x] # Joined!Alone
  <2>1. group[x] \in Groups /\ x \notin Groups /\ x \notin touched
    BY <1>2, <1>3, JoinedAccount
  <2>2. \A e \in emitted : e.id # x
    <3> SUFFICES ASSUME NEW e \in emitted, e.id = x PROVE FALSE
      OBVIOUS
    <3>1. x \in Joined!ToEmit
      BY NodesAre
    <3>2. x \in Joined!OwnGroups \/ \E s \in saw : s.id = x /\ s.group = Joined!Alone
      BY <3>1 DEF Joined!ToEmit
    <3>3. Joined!OwnGroups \subseteq Groups
      BY DEF Joined!OwnGroups, JoinedInv, JoinedSaw
    <3>4. PICK s \in saw : s.id = x /\ s.group = Joined!Alone
      BY <2>1, <3>2, <3>3
    <3> QED BY <1>3, <2>1, <3>4 DEF JoinedInv, JoinedSaw
  <2>3. group[x] \in Joined!OwnGroups
    <3>1. Stays(group[x])
      BY <1>3, <2>1 DEF Stays
    <3> QED BY <1>1, <2>1, <3>1, GroupWasListed
  <2>4. group[x] \notin Joined!Others
    BY <1>3, <2>1 DEF Joined!Others, JoinedInv, JoinedSaw
  <2>5. PICK e \in emitted : e.id = group[x]
    BY <1>1, <2>3, <2>4 DEF Joined!ToEmit
  <2>6. x \in e.nodes
    <3>1. PICK h \in sawGroup : h.id = group[x]
      BY <2>3 DEF Joined!OwnGroups
    <3>2. x \in h.members
      BY <1>3, <2>1, <3>1 DEF JoinedInv, JoinedSaw
    <3>3. x \in Joined!Nodes(group[x])
      BY <3>1, <3>2 DEF Joined!Nodes
    <3> QED BY <2>5, <3>3, NodesAre
  <2> QED BY <1>3, <2>2, <2>5, <2>6
<1>4. CASE ~(x \in Items /\ group[x] # Joined!Alone)
  <2>1. x \in Joined!ToEmit
    <3>1. CASE x \in Items
      <4>1. \E s \in saw : s.id = x /\ s.group = Joined!Alone
        BY <1>1, <1>2, <1>4, <3>1, ItemWasListed
      <4> QED BY <4>1 DEF Joined!ToEmit
    <3>2. CASE x \in Groups
      <4>1. x \in Joined!OwnGroups
        BY <1>1, <3>2, UntouchedStays, GroupWasListed
      <4> QED BY <4>1 DEF Joined!ToEmit
    <3>3. CASE x \in Serverless
      <4>1. service = "ElastiCache"
        BY <3>3, JoinedAccount DEF Joined!Exists
      <4> QED BY <1>1, <3>3, <4>1, ServerlessWasListed
    <3> QED BY <3>1, <3>2, <3>3
  <2>2. \E e \in emitted : e.id = x
    BY <1>1, <2>1
  <2>3. \A e \in emitted : x \notin e.nodes
    <3> SUFFICES ASSUME NEW e \in emitted, x \in e.nodes PROVE FALSE
      OBVIOUS
    <3>1. x \in Items /\ group[x] = e.id /\ e.id # 0
      BY NodesAre, JoinedAccount
    <3> QED BY <1>4, <3>1 DEF Joined!Alone
  <2> QED BY <1>4, <2>2, <2>3
<1> QED BY <1>3, <1>4

\* The other promises of the two: what a group says of its members is kept, and
\* what is another engine's never becomes a node, and is reported.
LEMMA JoinedIs ==
  JoinedInv => /\ Joined!TypeOK /\ Joined!WhatStaysIsCollected
               /\ Joined!MembersSurviveDenial /\ Joined!ForeignIsReported
<1> SUFFICES ASSUME JoinedInv
             PROVE  Joined!TypeOK /\ Joined!MembersSurviveDenial /\ Joined!ForeignIsReported
  BY JoinedCollects
<1>1. Joined!TypeOK
  <2>1. todo \subseteq Joined!OwnGroups \cup {s.id : s \in saw}
    BY ToEmitIs
  <2>2. Joined!OwnGroups \subseteq Groups
    BY DEF Joined!OwnGroups, JoinedInv, JoinedSaw
  <2>3. \A e \in emitted : e.id \in Items \cup Groups \cup Serverless /\ e.nodes \subseteq Items
    BY NodesAre
  <2> QED BY <2>1, <2>2, <2>3 DEF Joined!TypeOK, JoinedInv, JoinedShape
<1>2. Joined!MembersSurviveDenial
  <2> SUFFICES ASSUME NEW e \in emitted, NEW g \in sawGroup, e.id = g.id, NEW x \in g.members
               PROVE  x \in e.nodes
    BY DEF Joined!MembersSurviveDenial
  <2>1. x \in Joined!Nodes(e.id)
    BY DEF Joined!Nodes
  <2> QED BY <2>1, NodesAre
<1>3. \A e \in emitted : ({e.id} \cup e.nodes) \cap Joined!Others = {}
  <2> SUFFICES ASSUME NEW e \in emitted, NEW x \in e.nodes, x \in Joined!Others
               PROVE  FALSE
    BY NodesAre
  <2>1. service = "RDS" /\ x \in Foreign /\ e.id \notin Foreign /\ x \in Joined!Nodes(e.id)
    BY NodesAre DEF Joined!Others
  <2>2. \E g \in sawGroup : g.id = e.id /\ x \in g.members
    BY <2>1 DEF Joined!Nodes
  <2> QED BY <2>1, <2>2 DEF JoinedInv, JoinedSaw
<1>4. ASSUME result = "nil", ~Joined!Denied, NEW x \in Joined!Others \ touched, Joined!Exists(x)
      PROVE  LET y == IF x \in Items /\ group[x] # Joined!Alone THEN group[x] ELSE x IN
             <<"out-of-scope", y>> \in warnings
  <2>1. /\ at = "emit"
        /\ \A y \in Joined!ToEmit \cap Joined!Others : <<"out-of-scope", y>> \in warnings
    BY <1>4 DEF JoinedInv, JoinedShape, JoinedOut
  <2>2. service = "RDS" /\ Joined!Others = Foreign
    BY DEF Joined!Others
  <2>3. x \in Items => group[x] # Joined!Absent /\ group[x] \in Groups \cup {Joined!Alone, Joined!Absent}
    BY <1>4, JoinedAccount DEF Joined!Exists, JoinedInv, JoinedShape
  <2>4. CASE x \in Items /\ group[x] # Joined!Alone
    <3>1. group[x] \in Groups /\ group[x] \in Foreign
      BY <2>2, <2>3, <2>4 DEF JoinedInv, JoinedSaw
    <3>2. Stays(group[x])
      BY <2>4 DEF Stays
    <3>3. group[x] \in Joined!OwnGroups
      BY <1>4, <2>1, <3>1, <3>2, GroupWasListed
    <3> QED BY <2>1, <2>2, <2>4, <3>1, <3>3 DEF Joined!ToEmit
  <2>5. CASE x \in Items /\ group[x] = Joined!Alone
    <3>1. \E s \in saw : s.id = x /\ s.group = Joined!Alone
      BY <1>4, <2>1, <2>3, <2>5, ItemWasListed
    <3> QED BY <2>1, <2>5, <3>1 DEF Joined!ToEmit
  <2>6. CASE x \notin Items
    <3>1. x \in Groups
      BY <1>4, <2>2, <2>6 DEF Joined!Exists
    <3>2. x \in Joined!OwnGroups
      BY <1>4, <2>1, <3>1, UntouchedStays, GroupWasListed
    <3> QED BY <2>1, <2>6, <3>2 DEF Joined!ToEmit
  <2> QED BY <2>4, <2>5, <2>6
<1>5. Joined!ForeignIsReported
  BY <1>3, <1>4 DEF Joined!ForeignIsReported
<1> QED BY <1>1, <1>2, <1>5
-----------------------------------------------------------------------------
(* The ECS collector. *)

AllClusters == Ecs!AllOf(ClusterPages)
AllServices(c) == Ecs!AllOf(ServicePages[c])
NotListed == <<"ListClusters", "", "">>

\* One cluster at a time is read, from when it is emitted to the end of its services,
\* and the others wait.
Turn == at \in {"services", "batches"}
Waiting == arns \cup (IF Turn THEN described \ {Ecs!Current} ELSE described)

EcsShape ==
  /\ alive \cup emitted \cup lost \subseteq Ecs!Clusters \cup Ecs!Services \cup Ecs!TaskDefs
  /\ taskDefs \subseteq Ecs!TaskDefs
  /\ at \in {"clusters", "describe", "services", "batches", "definitions"}
  /\ page \in Nat \ {0} /\ result \in {"running", "nil", "error"}
  /\ arns \cup described \subseteq AllClusters /\ arns \cap described = {}
  /\ Turn => described # {}
  /\ IF Turn THEN names \subseteq AllServices(Ecs!Current) ELSE names = {}
  /\ at = "clusters" => described = {} /\ emitted = {} /\ taskDefs = {}
  /\ at = "clusters" /\ result # "nil" => lost = {} /\ page <= Len(ClusterPages)
  /\ at = "definitions" => arns = {} /\ described = {}
  /\ result = "nil" => \/ at = "definitions" /\ taskDefs = {}
                       \/ at = "clusters" /\ arns = {} /\ NotListed \in warnings

\* Nothing of a cluster that waits has been answered for, nor any service that is
\* still to be described, nor, before the last phase, any task definition.
EcsHeld ==
  /\ emitted \cap lost = {} /\ taskDefs \cap (emitted \cup lost) = {}
  /\ \A c \in Waiting : Ecs!Cluster(c) \notin emitted \cup lost
  /\ \A c \in Waiting : \A n \in AllServices(c) : Ecs!Service(c, n) \notin emitted \cup lost
  /\ Turn => Ecs!Cluster(Ecs!Current) \in emitted
  /\ at = "services" => \A n \in AllServices(Ecs!Current) : Ecs!Service(Ecs!Current, n) \notin emitted \cup lost
  /\ Turn => \A n \in names : Ecs!Service(Ecs!Current, n) \notin emitted \cup lost
  /\ at # "definitions" => (emitted \cup lost) \cap Ecs!TaskDefs = {}

\* What exists is still to be listed, or waits, or is in hand, or is in the
\* inventory, or a warning says what became of it.
InTurn(c, n) ==
  /\ Turn /\ c = Ecs!Current
  /\ n \in names \/ (at = "services" /\ n \notin Upto(ServicePages[c], page))
EcsKnown ==
  /\ \A c \in AllClusters : \A n \in AllServices(c) : Ecs!Service(c, n) \in alive => Ecs!Cluster(c) \in alive
  /\ at = "clusters" /\ result # "nil" =>
       \A c \in Upto(ClusterPages, page) : Ecs!Cluster(c) \in alive => c \in arns
  /\ at # "clusters" => \A c \in AllClusters : Ecs!Cluster(c) \in alive =>
       c \in arns \cup described \/ Ecs!Cluster(c) \in emitted \cup warnings
  /\ at # "clusters" => \A c \in AllClusters : \A n \in AllServices(c) :
       Ecs!Service(c, n) \in alive =>
         \/ c \in Waiting \/ InTurn(c, n) \/ Ecs!Cluster(c) \in lost
         \/ <<"ListServices", c, "">> \in warnings
         \/ Ecs!Service(c, n) \in emitted \cup warnings

\* A loss has its warning, and an emitted service its task definition, soon.
EcsSaid ==
  /\ \A x \in lost : \/ x \in warnings \/ NotListed \in warnings
                     \/ <<"ListServices", x[2], "">> \in warnings
  /\ \A x \in emitted : x[1] = "service" /\ Ecs!DefinitionOf(x) # "" =>
       Ecs!TaskDef(Ecs!DefinitionOf(x)) \in emitted \cup warnings \cup taskDefs

EcsInv == EcsShape /\ EcsHeld /\ EcsKnown /\ EcsSaid
\* Names tell kinds, clusters and services apart.
LEMMA ClusterIs ==
  \A c : Ecs!Cluster(c)[1] = "cluster" /\ Ecs!Cluster(c)[2] = "" /\ Ecs!Cluster(c)[3] = c
BY DEF Ecs!Cluster

\* The same for services;
LEMMA ServiceIs ==
  \A c, n : /\ Ecs!Service(c, n)[1] = "service" /\ Ecs!Service(c, n)[2] = c
            /\ Ecs!Service(c, n)[3] = n
BY DEF Ecs!Service

\* and for task definitions.
LEMMA TaskDefIs == \A f : Ecs!TaskDef(f)[1] = "taskdef"
BY DEF Ecs!TaskDef

\* The three kinds have nothing in common.
LEMMA EcsNames ==
  /\ \A x : x \in Ecs!Clusters <=> \E c \in AllClusters : x = Ecs!Cluster(c)
  /\ \A x : x \in Ecs!Services <=> \E c \in AllClusters : \E n \in AllServices(c) : x = Ecs!Service(c, n)
  /\ \A x \in Ecs!TaskDefs : x[1] = "taskdef"
  /\ \A c : Ecs!Cluster(c) \notin Ecs!TaskDefs /\ Ecs!Cluster(c) \notin Ecs!Services
  /\ \A c, n : Ecs!Service(c, n) \notin Ecs!TaskDefs /\ Ecs!Service(c, n) \notin Ecs!Clusters
<1>1. \A x : x \in Ecs!Clusters <=> \E c \in AllClusters : x = Ecs!Cluster(c)
  BY DEF Ecs!Clusters, AllClusters
<1>2. \A x : x \in Ecs!Services <=> \E c \in AllClusters : \E n \in AllServices(c) : x = Ecs!Service(c, n)
  BY DEF Ecs!Services, AllClusters, AllServices
<1>3. ASSUME NEW x \in Ecs!TaskDefs PROVE x[1] = "taskdef"
  <2>1. PICK f : x = Ecs!TaskDef(f)
    BY DEF Ecs!TaskDefs
  <2>2. Ecs!TaskDef(f)[1] = "taskdef"
    BY TaskDefIs
  <2> QED BY <2>1, <2>2
<1>4. ASSUME NEW x \in Ecs!Services PROVE x[1] = "service"
  <2>1. PICK c \in AllClusters : \E n \in AllServices(c) : x = Ecs!Service(c, n)
    BY <1>2
  <2>2. PICK n \in AllServices(c) : x = Ecs!Service(c, n)
    BY <2>1
  <2>3. Ecs!Service(c, n)[1] = "service"
    BY ServiceIs
  <2> QED BY <2>2, <2>3
<1>5. ASSUME NEW x \in Ecs!Clusters PROVE x[1] = "cluster"
  <2>1. PICK c \in AllClusters : x = Ecs!Cluster(c)
    BY <1>1
  <2>2. Ecs!Cluster(c)[1] = "cluster"
    BY ClusterIs
  <2> QED BY <2>1, <2>2
<1>6. ASSUME NEW c PROVE Ecs!Cluster(c) \notin Ecs!TaskDefs /\ Ecs!Cluster(c) \notin Ecs!Services
  <2>1. Ecs!Cluster(c)[1] = "cluster"
    BY ClusterIs
  <2> QED BY <1>3, <1>4, <2>1
<1>7. ASSUME NEW c, NEW n
       PROVE  Ecs!Service(c, n) \notin Ecs!TaskDefs /\ Ecs!Service(c, n) \notin Ecs!Clusters
  <2>1. Ecs!Service(c, n)[1] = "service"
    BY ServiceIs
  <2> QED BY <1>3, <1>5, <2>1
<1> QED BY <1>1, <1>2, <1>3, <1>6, <1>7

\* A cluster is chosen from those described.
LEMMA EcsCurrent == described # {} => Ecs!Current \in described
BY DEF Ecs!Current

\* What the pages list is there, and the first of them is asked for first.
LEMMA EcsPages ==
  /\ Len(ClusterPages) \in Nat \ {0}
  /\ \A p \in 1 .. Len(ClusterPages) : ClusterPages[p] \subseteq AllClusters
  /\ Upto(ClusterPages, 1) = {}
  /\ \A p \in 1 .. Len(ClusterPages) :
       Upto(ClusterPages, p + 1) = Upto(ClusterPages, p) \cup ClusterPages[p]
  /\ AllClusters \subseteq Upto(ClusterPages, Len(ClusterPages) + 1)
  /\ \A c \in AllClusters :
       LET pages == ServicePages[c] IN
       /\ Len(pages) \in Nat
       /\ Upto(pages, 1) = {}
       /\ \A p \in 1 .. Len(pages) : /\ pages[p] \subseteq AllServices(c)
                                     /\ Upto(pages, p + 1) = Upto(pages, p) \cup pages[p]
       /\ \A p \in Nat : p > Len(pages) => AllServices(c) \subseteq Upto(pages, p)
<1>1. ClusterPages \in Seq(SUBSET STRING) /\ ClusterPages # <<>>
  BY CollectorsAssumption DEF Ecs!EcsAssumption
<1>2. \A pages : Ecs!AllOf(pages) = Iam!AllOf(pages)
  BY DEF Ecs!AllOf, Iam!AllOf
<1>3. Len(ClusterPages) \in Nat \ {0}
  BY <1>1
<1>4. \A p \in 1 .. Len(ClusterPages) : ClusterPages[p] \subseteq AllClusters
  BY <1>1, UptoIs DEF AllClusters, Ecs!AllOf
<1>5. \A c \in AllClusters : ServicePages[c] \in Seq(SUBSET STRING)
  BY CollectorsAssumption DEF Ecs!EcsAssumption, AllClusters
<1>6. ASSUME NEW c \in AllClusters
      PROVE  LET pages == ServicePages[c] IN
             /\ Len(pages) \in Nat
             /\ Upto(pages, 1) = {}
             /\ \A p \in 1 .. Len(pages) : /\ pages[p] \subseteq AllServices(c)
                                           /\ Upto(pages, p + 1) = Upto(pages, p) \cup pages[p]
             /\ \A p \in Nat : p > Len(pages) => AllServices(c) \subseteq Upto(pages, p)
  <2> DEFINE pages == ServicePages[c]
  <2>1. pages \in Seq(SUBSET STRING)
    BY <1>5
  <2>2. AllServices(c) = Iam!AllOf(pages)
    BY <1>2 DEF AllServices
  <2> HIDE DEF pages
  <2>3. /\ Len(pages) \in Nat /\ DOMAIN pages = 1 .. Len(pages) /\ Upto(pages, 1) = {}
        /\ \A p \in 1 .. Len(pages) : Upto(pages, p + 1) = Upto(pages, p) \cup pages[p]
        /\ \A p \in Nat : p > Len(pages) => Iam!AllOf(pages) \subseteq Upto(pages, p)
    BY <2>1, UptoIs
  <2>4. \A p \in 1 .. Len(pages) : pages[p] \subseteq Iam!AllOf(pages)
    BY <2>3 DEF Iam!AllOf
  <2>5. /\ Len(pages) \in Nat
        /\ Upto(pages, 1) = {}
        /\ \A p \in 1 .. Len(pages) : /\ pages[p] \subseteq AllServices(c)
                                      /\ Upto(pages, p + 1) = Upto(pages, p) \cup pages[p]
        /\ \A p \in Nat : p > Len(pages) => AllServices(c) \subseteq Upto(pages, p)
    BY <2>2, <2>3, <2>4
  <2> QED BY <2>5 DEF pages
<1>7. /\ Upto(ClusterPages, 1) = {}
      /\ \A p \in 1 .. Len(ClusterPages) :
           Upto(ClusterPages, p + 1) = Upto(ClusterPages, p) \cup ClusterPages[p]
      /\ AllClusters \subseteq Upto(ClusterPages, Len(ClusterPages) + 1)
  BY <1>1, <1>2, <1>3, UptoIs DEF AllClusters
<1> QED BY <1>3, <1>4, <1>6, <1>7

\* No page of the clusters has come yet.
LEMMA EcsBegins == Ecs!Init => EcsInv
<1> SUFFICES ASSUME Ecs!Init PROVE EcsInv
  OBVIOUS
<1> USE DEF Ecs!Init, Turn
<1>1. EcsShape
  BY EcsPages DEF EcsShape
<1>2. EcsHeld
  BY DEF EcsHeld, Waiting
<1>3. EcsKnown
  <2>1. \A c \in AllClusters : Ecs!Cluster(c) \in alive
    BY EcsNames
  <2> QED BY <2>1, EcsPages DEF EcsKnown
<1>4. EcsSaid
  BY DEF EcsSaid
<1> QED BY <1>1, <1>2, <1>3, <1>4 DEF EcsInv

\* Nobody owes what is deleted, and a cluster is deleted after its services.
LEMMA EcsDelete ==
  ASSUME EcsInv, NEW x, Ecs!Delete(x)
  PROVE  EcsInv'
<1>1. /\ alive' = alive \ {x} /\ (x[1] = "cluster" => \A y \in alive : y[2] # x[3])
      /\ UNCHANGED <<at, page, arns, described, names, taskDefs, emitted, lost, warnings, result>>
  BY DEF Ecs!Delete, Ecs!lists
<1>2. /\ Ecs!Current' = Ecs!Current /\ Turn' = Turn /\ Waiting' = Waiting
      /\ \A c, n : InTurn(c, n)' = InTurn(c, n)
  BY <1>1 DEF Ecs!Current, Turn, Waiting, InTurn
<1>3. EcsShape'
  BY <1>1, <1>2 DEF EcsInv, EcsShape
<1>4. EcsHeld'
  BY <1>1, <1>2 DEF EcsInv, EcsHeld
<1>5. EcsKnown'
  <2>1. ASSUME NEW c \in AllClusters, NEW n \in AllServices(c), Ecs!Service(c, n) \in alive'
        PROVE  Ecs!Cluster(c) \in alive'
    <3>1. Ecs!Service(c, n) \in alive /\ Ecs!Cluster(c) \in alive
      BY <1>1, <2>1 DEF EcsInv, EcsKnown
    <3>2. Ecs!Cluster(c) # x
      <4> SUFFICES ASSUME Ecs!Cluster(c) = x PROVE FALSE
        OBVIOUS
      <4>1. x[1] = "cluster" /\ x[3] = c /\ Ecs!Service(c, n)[2] = c
        BY ClusterIs, ServiceIs
      <4> QED BY <1>1, <3>1, <4>1
    <3> QED BY <1>1, <3>1, <3>2
  <2> QED BY <1>1, <1>2, <2>1 DEF EcsInv, EcsKnown
<1>6. EcsSaid'
  BY <1>1 DEF EcsInv, EcsSaid
<1> QED BY <1>3, <1>4, <1>5, <1>6 DEF EcsInv

\* An error ends it where it is, and so does owing nothing at the end.
LEMMA EcsEnds ==
  ASSUME EcsInv,
         UNCHANGED <<alive, at, page, arns, described, names, taskDefs, emitted, lost, warnings>>,
         \/ result' = result
         \/ result' = "error" /\ (at = "clusters" => result # "nil")
         \/ result' = "nil" /\ at = "definitions" /\ taskDefs = {}
  PROVE  EcsInv'
<1>1. /\ Ecs!Current' = Ecs!Current /\ Turn' = Turn /\ Waiting' = Waiting
      /\ \A c, n : InTurn(c, n)' = InTurn(c, n)
  BY DEF Ecs!Current, Turn, Waiting, InTurn
<1>2. EcsShape'
  BY <1>1 DEF EcsInv, EcsShape
<1>3. EcsHeld'
  BY <1>1 DEF EcsInv, EcsHeld
<1>4. EcsKnown'
  BY <1>1 DEF EcsInv, EcsKnown
<1>5. EcsSaid'
  BY DEF EcsInv, EcsSaid
<1> QED BY <1>2, <1>3, <1>4, <1>5 DEF EcsInv
\* A page of the clusters, or none of them.
LEMMA EcsListClusters ==
  ASSUME EcsInv, Ecs!ListClusters
  PROVE  EcsInv'
<1>1. /\ at = "clusters" /\ result = "running" /\ described = {} /\ emitted = {} /\ taskDefs = {}
      /\ lost = {} /\ names = {} /\ page \in 1 .. Len(ClusterPages) /\ ~Turn /\ Waiting = arns
      /\ arns \subseteq AllClusters
      /\ alive \subseteq Ecs!Clusters \cup Ecs!Services \cup Ecs!TaskDefs
  <2>1. at = "clusters" /\ result = "running" /\ page \in Nat \ {0} /\ page <= Len(ClusterPages)
    BY DEF Ecs!ListClusters, Ecs!Asks, EcsInv, EcsShape
  <2>2. page \in 1 .. Len(ClusterPages)
    BY <2>1, EcsPages
  <2>3. ~Turn
    BY <2>1 DEF Turn
  <2> QED BY <2>1, <2>2, <2>3 DEF EcsInv, EcsShape, Waiting
<1>2. \A c \in AllClusters : \A n \in AllServices(c) :
        Ecs!Service(c, n) \in alive => Ecs!Cluster(c) \in alive
  BY DEF EcsInv, EcsKnown
<1>3. CASE /\ arns' = arns \cup {c \in ClusterPages[page] : Ecs!Cluster(c) \in alive}
           /\ IF page < Len(ClusterPages) THEN page' = page + 1 /\ at' = at
                                          ELSE page' = 1 /\ at' = "describe"
           /\ UNCHANGED <<alive, described, names, taskDefs, emitted, lost, warnings, result>>
  <2>1. /\ described' = {} /\ names' = {} /\ emitted' = {} /\ lost' = {} /\ taskDefs' = {}
        /\ result' = "running" /\ alive' = alive /\ warnings' = warnings /\ ~Turn'
    BY <1>1, <1>3 DEF Turn
  <2>2. arns' \subseteq AllClusters /\ Waiting' = arns'
    BY <1>1, <1>3, <2>1, EcsPages DEF Waiting
  <2>3. page' \in Nat \ {0} /\ (at' = "clusters" => page' <= Len(ClusterPages))
    BY <1>1, <1>3, EcsPages
  <2>4. at' \in {"clusters", "describe"}
    BY <1>1, <1>3
  <2>5. EcsShape'
    BY <1>1, <2>1, <2>2, <2>3, <2>4 DEF EcsShape
  <2>6. EcsHeld'
    BY <2>1, <2>2, <2>4 DEF EcsHeld
  <2>7. \A c \in Upto(ClusterPages, page + 1) : Ecs!Cluster(c) \in alive => c \in arns'
    <3>1. Upto(ClusterPages, page + 1) = Upto(ClusterPages, page) \cup ClusterPages[page]
      BY <1>1, EcsPages
    <3> QED BY <1>1, <1>3, <3>1 DEF EcsInv, EcsKnown
  <2>8. CASE page < Len(ClusterPages)
    <3>1. at' = "clusters" /\ page' = page + 1
      BY <1>1, <1>3, <2>8
    <3>2. EcsKnown'
      BY <1>2, <2>1, <2>7, <3>1 DEF EcsKnown
    <3> QED BY <2>1, <2>5, <2>6, <3>2 DEF EcsInv, EcsSaid
  <2>9. CASE ~(page < Len(ClusterPages))
    <3>1. at' = "describe" /\ page = Len(ClusterPages)
      BY <1>1, <1>3, <2>9, EcsPages
    <3>2. \A c \in AllClusters : Ecs!Cluster(c) \in alive => c \in arns'
      BY <2>7, <3>1, EcsPages
    <3>3. EcsKnown'
      BY <1>2, <2>1, <2>2, <3>1, <3>2 DEF EcsKnown
    <3> QED BY <2>1, <2>5, <2>6, <3>3 DEF EcsInv, EcsSaid
  <2> QED BY <2>8, <2>9
<1>4. CASE /\ result' = "nil" /\ lost' = {Ecs!Cluster(c) : c \in arns} /\ arns' = {}
           /\ warnings' = warnings \cup {NotListed}
           /\ UNCHANGED <<alive, at, page, described, names, taskDefs, emitted>>
  <2>1. ~Turn' /\ Waiting' = {}
    BY <1>1, <1>4 DEF Turn, Waiting
  <2>2. lost' \subseteq Ecs!Clusters /\ lost' \cap Ecs!TaskDefs = {}
    BY <1>1, <1>4, EcsNames
  <2>3. EcsShape'
    BY <1>1, <1>4, <2>1, <2>2 DEF EcsInv, EcsShape
  <2>4. EcsHeld'
    BY <1>1, <1>4, <2>1, <2>2 DEF EcsHeld
  <2>5. EcsKnown'
    BY <1>1, <1>2, <1>4 DEF EcsKnown
  <2>6. EcsSaid'
    BY <1>1, <1>4 DEF EcsSaid
  <2> QED BY <2>3, <2>4, <2>5, <2>6 DEF EcsInv
<1>5. CASE \E answer : Ecs!End(answer)
  BY <1>1, <1>5, EcsEnds DEF Ecs!End, Ecs!lists
<1> QED BY <1>3, <1>4, <1>5 DEF Ecs!ListClusters, NotListed

\* A batch is described, with warnings for those that are gone, or given up.
LEMMA EcsDescribeClusters ==
  ASSUME EcsInv, Ecs!DescribeClusters
  PROVE  EcsInv'
<1>1. /\ at = "describe" /\ result = "running" /\ described = {} /\ names = {} /\ ~Turn
      /\ Waiting = arns /\ arns \subseteq AllClusters
  BY DEF Ecs!DescribeClusters, Ecs!Asks, EcsInv, EcsShape, Turn, Waiting
<1>2. \A c \in AllClusters : \A n \in AllServices(c) :
        Ecs!Service(c, n) \in alive => Ecs!Cluster(c) \in alive
  BY DEF EcsInv, EcsKnown
<1>3. \A c, n : ~InTurn(c, n)
  BY <1>1 DEF InTurn
<1>4. ASSUME NEW batch \in SUBSET arns,
             arns' = arns \ batch /\ described' = {c \in batch : Ecs!Cluster(c) \in alive},
             warnings' = warnings \cup {Ecs!Cluster(c) : c \in batch \ described'},
             UNCHANGED <<alive, at, page, names, taskDefs, emitted, lost, result>>
      PROVE  EcsInv'
  <2>1. ~Turn' /\ Waiting' = arns' \cup described' /\ Waiting' \subseteq Waiting
    BY <1>1, <1>4 DEF Turn, Waiting
  <2>2. EcsShape'
    BY <1>1, <1>4, <2>1 DEF EcsInv, EcsShape
  <2>3. EcsHeld'
    BY <1>1, <1>4, <2>1 DEF EcsInv, EcsHeld
  <2>4. \A c \in arns : Ecs!Cluster(c) \in alive => c \in arns' \cup described'
    BY <1>4
  <2>5. \A c \in AllClusters : Ecs!Cluster(c) \in alive =>
          c \in arns' \cup described' \/ Ecs!Cluster(c) \in emitted' \cup warnings'
    BY <1>1, <1>4, <2>4 DEF EcsInv, EcsKnown
  <2>6. ASSUME NEW c \in AllClusters, NEW n \in AllServices(c), Ecs!Service(c, n) \in alive
        PROVE  \/ c \in Waiting' \/ Ecs!Cluster(c) \in lost
               \/ <<"ListServices", c, "">> \in warnings
               \/ Ecs!Service(c, n) \in emitted \cup warnings
    BY <1>1, <1>2, <1>3, <2>1, <2>4, <2>6 DEF EcsInv, EcsKnown
  <2>7. EcsKnown'
    BY <1>1, <1>2, <1>4, <2>5, <2>6 DEF EcsKnown
  <2>8. EcsSaid'
    BY <1>4 DEF EcsInv, EcsSaid
  <2> QED BY <2>2, <2>3, <2>7, <2>8 DEF EcsInv
<1>5. ASSUME NEW batch \in SUBSET arns, arns' = arns \ batch,
             lost' = lost \cup {Ecs!Cluster(c) : c \in batch},
             warnings' = warnings \cup {Ecs!Cluster(c) : c \in batch},
             UNCHANGED <<alive, at, page, described, names, taskDefs, emitted, result>>
      PROVE  EcsInv'
  <2> DEFINE given == {Ecs!Cluster(c) : c \in batch}
  <2>1. ~Turn' /\ Waiting' = arns \ batch
    BY <1>1, <1>5 DEF Turn, Waiting
  <2>2. /\ \A c \in batch : Ecs!Cluster(c) \in given
        /\ given \subseteq Ecs!Clusters /\ given \cap Ecs!TaskDefs = {} /\ given \cap emitted = {}
    BY <1>1, EcsNames DEF EcsInv, EcsHeld
  <2>3. \A c \in arns \ batch : Ecs!Cluster(c) \notin given
    <3> SUFFICES ASSUME NEW c \in arns \ batch, NEW d \in batch, Ecs!Cluster(c) = Ecs!Cluster(d)
                 PROVE  FALSE
      OBVIOUS
    <3>1. Ecs!Cluster(c)[3] = c /\ Ecs!Cluster(d)[3] = d
      BY ClusterIs
    <3> QED BY <3>1
  <2>4. \A c, n : Ecs!Service(c, n) \notin given
    BY <2>2, EcsNames
  <2>5. lost' = lost \cup given /\ warnings' = warnings \cup given
    BY <1>5
  <2> HIDE DEF given
  <2>6. EcsShape'
    BY <1>1, <1>5, <2>1, <2>2, <2>5 DEF EcsInv, EcsShape
  <2>7. EcsHeld'
    <3>1. taskDefs \cap given = {}
      BY <2>2 DEF EcsInv, EcsShape
    <3> QED BY <1>1, <1>5, <2>1, <2>2, <2>3, <2>4, <2>5, <3>1 DEF EcsInv, EcsHeld
  <2>8. EcsKnown'
    <3>1. \A c \in AllClusters : Ecs!Cluster(c) \in alive =>
            c \in arns' \cup described' \/ Ecs!Cluster(c) \in emitted' \cup warnings'
      BY <1>1, <1>5, <2>2, <2>5 DEF EcsInv, EcsKnown
    <3>2. ASSUME NEW c \in AllClusters, NEW n \in AllServices(c), Ecs!Service(c, n) \in alive
          PROVE  \/ c \in Waiting' \/ Ecs!Cluster(c) \in lost'
                 \/ <<"ListServices", c, "">> \in warnings'
                 \/ Ecs!Service(c, n) \in emitted' \cup warnings'
      <4>1. \/ c \in arns \/ Ecs!Cluster(c) \in lost \/ <<"ListServices", c, "">> \in warnings
            \/ Ecs!Service(c, n) \in emitted \cup warnings
        BY <1>1, <1>3, <3>2 DEF EcsInv, EcsKnown
      <4> QED BY <1>5, <2>1, <2>2, <2>5, <4>1
    <3> QED BY <1>1, <1>2, <1>5, <3>1, <3>2 DEF EcsKnown
  <2>9. EcsSaid'
    BY <1>5, <2>5 DEF EcsInv, EcsSaid
  <2> QED BY <2>6, <2>7, <2>8, <2>9 DEF EcsInv
<1>6. CASE \E answer : Ecs!End(answer)
  BY <1>1, <1>6, EcsEnds DEF Ecs!End, Ecs!lists
<1> QED BY <1>4, <1>5, <1>6 DEF Ecs!DescribeClusters, Ecs!Batches
\* A cluster's turn begins with its own entry.
LEMMA EcsEmitCluster ==
  ASSUME EcsInv, Ecs!EmitCluster
  PROVE  EcsInv'
<1>0. PICK k : k = Ecs!Current
  OBVIOUS
<1>1. /\ at = "describe" /\ described # {} /\ emitted' = emitted \cup {Ecs!Cluster(k)}
      /\ at' = "services" /\ page' = 1 /\ result = "running"
      /\ UNCHANGED <<alive, arns, described, names, taskDefs, lost, warnings, result>>
  BY <1>0 DEF Ecs!EmitCluster, Ecs!Asks, Ecs!lists
<1>2. k \in described /\ k \in AllClusters /\ k \notin arns /\ names = {}
  BY <1>0, <1>1, EcsCurrent DEF EcsInv, EcsShape, Turn
<1>3. Ecs!Current' = k
  BY <1>0, <1>1 DEF Ecs!Current
<1>4. ~Turn /\ Turn' /\ Waiting = arns \cup described /\ Waiting' = arns \cup (described \ {k})
  BY <1>1, <1>3 DEF Turn, Waiting
<1>5. /\ \A c \in Waiting' : Ecs!Cluster(c) # Ecs!Cluster(k)
      /\ \A c, n : Ecs!Service(c, n) # Ecs!Cluster(k)
      /\ Ecs!Cluster(k) \in Ecs!Clusters /\ Ecs!Cluster(k) \notin Ecs!TaskDefs
      /\ Ecs!Cluster(k)[1] = "cluster"
  <2>1. ASSUME NEW c \in Waiting', Ecs!Cluster(c) = Ecs!Cluster(k) PROVE FALSE
    <3>1. Ecs!Cluster(c)[3] = c /\ Ecs!Cluster(k)[3] = k
      BY ClusterIs
    <3> QED BY <1>2, <1>4, <2>1, <3>1
  <2>2. Ecs!Cluster(k) \in Ecs!Clusters
    BY <1>2, EcsNames
  <2> QED BY <2>1, <2>2, EcsNames, ClusterIs
<1>6. EcsShape'
  BY <1>1, <1>2, <1>3, <1>4, <1>5 DEF EcsInv, EcsShape
<1>7. EcsHeld'
  <2>1. Ecs!Cluster(k) \notin lost /\ Ecs!Cluster(k) \notin taskDefs
    BY <1>2, <1>4, <1>5 DEF EcsInv, EcsHeld, EcsShape
  <2>2. \A n \in AllServices(k) : Ecs!Service(k, n) \notin emitted \cup lost
    BY <1>2, <1>4 DEF EcsInv, EcsHeld
  <2> QED BY <1>1, <1>2, <1>3, <1>4, <1>5, <2>1, <2>2 DEF EcsInv, EcsHeld
<1>8. EcsKnown'
  <2>1. Upto(ServicePages[k], 1) = {}
    BY <1>2, EcsPages
  <2>2. \A n : InTurn(k, n)'
    BY <1>1, <1>3, <1>4, <2>1 DEF InTurn
  <2>3. \A c \in Waiting : c \in Waiting' \/ c = k
    BY <1>4
  <2>4. ASSUME NEW c \in AllClusters, NEW n \in AllServices(c), Ecs!Service(c, n) \in alive
        PROVE  \/ c \in Waiting' \/ InTurn(c, n)' \/ Ecs!Cluster(c) \in lost
               \/ <<"ListServices", c, "">> \in warnings
               \/ Ecs!Service(c, n) \in emitted' \cup warnings
    <3>1. ~InTurn(c, n)
      BY <1>4 DEF InTurn
    <3> QED BY <1>1, <2>2, <2>3, <2>4, <3>1 DEF EcsInv, EcsKnown
  <2> QED BY <1>1, <2>4 DEF EcsInv, EcsKnown
<1>9. EcsSaid'
  BY <1>1, <1>5 DEF EcsInv, EcsSaid
<1> QED BY <1>6, <1>7, <1>8, <1>9 DEF EcsInv

\* A page of its services, or none of them.
LEMMA EcsListServices ==
  ASSUME EcsInv, Ecs!ListServices
  PROVE  EcsInv'
<1>0. PICK k : k = Ecs!Current
  OBVIOUS
<1> DEFINE pages == ServicePages[k]
<1>1. /\ at = "services" /\ result = "running" /\ Turn /\ described # {} /\ page \in Nat \ {0}
      /\ names \subseteq AllServices(k)
  BY <1>0 DEF Ecs!ListServices, Ecs!Asks, EcsInv, EcsShape, Turn
<1>2. k \in described /\ k \in AllClusters /\ k \notin arns
  BY <1>0, <1>1, EcsCurrent DEF EcsInv, EcsShape
<1>3. /\ Len(pages) \in Nat
      /\ \A p \in 1 .. Len(pages) : /\ pages[p] \subseteq AllServices(k)
                                    /\ Upto(pages, p + 1) = Upto(pages, p) \cup pages[p]
      /\ \A p \in Nat : p > Len(pages) => AllServices(k) \subseteq Upto(pages, p)
  BY <1>2, EcsPages
<1>4. Waiting = arns \cup (described \ {k})
  BY <1>0, <1>1 DEF Waiting
<1>5. /\ Ecs!Cluster(k) \in emitted
      /\ \A n \in AllServices(k) : Ecs!Service(k, n) \notin emitted \cup lost
  BY <1>0, <1>1 DEF EcsInv, EcsHeld
<1>6. \A c, n : InTurn(c, n) <=> c = k /\ (n \in names \/ n \notin Upto(pages, page))
  BY <1>0, <1>1 DEF InTurn
<1>7. CASE /\ page > Len(pages) /\ at' = "batches" /\ UNCHANGED <<page, names>>
           /\ UNCHANGED <<alive, arns, described, taskDefs, emitted, lost, warnings, result>>
  <2>1. Ecs!Current' = k /\ Turn' /\ Waiting' = Waiting
    BY <1>0, <1>4, <1>7 DEF Ecs!Current, Turn, Waiting
  <2>2. EcsShape'
    BY <1>1, <1>7, <2>1 DEF EcsInv, EcsShape
  <2>3. EcsHeld'
    BY <1>0, <1>1, <1>5, <1>7, <2>1 DEF EcsInv, EcsHeld
  <2>4. EcsKnown'
    <3>1. \A c, n : n \in AllServices(c) /\ InTurn(c, n) => InTurn(c, n)'
      BY <1>1, <1>3, <1>6, <1>7, <2>1 DEF InTurn
    <3> QED BY <1>1, <1>7, <2>1, <3>1 DEF EcsInv, EcsKnown
  <2>5. EcsSaid'
    BY <1>7 DEF EcsInv, EcsSaid
  <2> QED BY <2>2, <2>3, <2>4, <2>5 DEF EcsInv
<1>8. CASE /\ page <= Len(pages)
           /\ names' = names \cup {n \in pages[page] : Ecs!Service(k, n) \in alive}
           /\ page' = page + 1
           /\ UNCHANGED <<alive, at, arns, described, taskDefs, emitted, lost, warnings, result>>
  <2>1. Ecs!Current' = k /\ Turn' /\ Waiting' = Waiting
    BY <1>0, <1>1, <1>4, <1>8 DEF Ecs!Current, Turn, Waiting
  <2>2. /\ page \in 1 .. Len(pages) /\ pages[page] \subseteq AllServices(k)
        /\ Upto(pages, page + 1) = Upto(pages, page) \cup pages[page]
    BY <1>1, <1>3, <1>8
  <2>3. names' \subseteq AllServices(k) /\ page' \in Nat \ {0}
    BY <1>1, <1>8, <2>2
  <2>4. EcsShape'
    BY <1>1, <1>8, <2>1, <2>3 DEF EcsInv, EcsShape
  <2>5. EcsHeld'
    BY <1>1, <1>5, <1>8, <2>1, <2>3 DEF EcsInv, EcsHeld
  <2>6. EcsKnown'
    <3>1. \A c, n : InTurn(c, n)' <=> c = k /\ (n \in names' \/ n \notin Upto(pages, page + 1))
      BY <1>1, <1>8, <2>1 DEF InTurn
    <3>2. \A c, n : Ecs!Service(c, n) \in alive /\ InTurn(c, n) => InTurn(c, n)'
      BY <1>6, <1>8, <2>2, <3>1
    <3> QED BY <1>1, <1>8, <2>1, <3>2 DEF EcsInv, EcsKnown
  <2>7. EcsSaid'
    BY <1>8 DEF EcsInv, EcsSaid
  <2> QED BY <2>4, <2>5, <2>6, <2>7 DEF EcsInv
<1>9. CASE /\ at' = "describe" /\ described' = described \ {k}
           /\ lost' = lost \cup {Ecs!Service(k, n) : n \in names} /\ names' = {}
           /\ warnings' = warnings \cup {<<"ListServices", k, "">>}
           /\ UNCHANGED <<alive, page, arns, taskDefs, emitted, result>>
  <2> DEFINE given == {Ecs!Service(k, n) : n \in names}
  <2>1. ~Turn' /\ Waiting' = Waiting
    BY <1>4, <1>9 DEF Turn, Waiting
  <2>2. /\ \A x \in given : x[2] = k
        /\ \A c : Ecs!Cluster(c) \notin given
        /\ given \subseteq Ecs!Services /\ given \cap Ecs!TaskDefs = {} /\ given \cap emitted = {}
    BY <1>1, <1>2, <1>5, EcsNames, ServiceIs
  <2>3. \A c \in Waiting : \A n : Ecs!Service(c, n) \notin given
    <3>1. \A c \in Waiting : c # k
      BY <1>2, <1>4
    <3>2. \A c, n : Ecs!Service(c, n)[2] = c
      BY ServiceIs
    <3> HIDE DEF given
    <3> QED BY <2>2, <3>1, <3>2
  <2>4. lost' = lost \cup given
    BY <1>9
  <2> HIDE DEF given
  <2>5. EcsShape'
    BY <1>1, <1>9, <2>1, <2>2, <2>4 DEF EcsInv, EcsShape
  <2>6. EcsHeld'
    <3>1. taskDefs \cap given = {}
      BY <2>2 DEF EcsInv, EcsShape
    <3>2. \A c \in Waiting : \A n \in AllServices(c) : Ecs!Service(c, n) \notin given
      BY <2>3
    <3>3. at' = "describe" /\ UNCHANGED <<taskDefs, emitted>> /\ names' = {}
      BY <1>9
    <3>4. (emitted' \cup lost') \cap Ecs!TaskDefs = {}
      BY <1>1, <2>2, <2>4, <3>3 DEF EcsInv, EcsHeld
    <3> QED BY <2>1, <2>2, <2>4, <3>1, <3>2, <3>3, <3>4 DEF EcsInv, EcsHeld
  <2>7. EcsKnown'
    <3>1. \A c \in AllClusters : Ecs!Cluster(c) \in alive =>
            c \in arns' \cup described' \/ Ecs!Cluster(c) \in emitted' \cup warnings'
      BY <1>1, <1>5, <1>9 DEF EcsInv, EcsKnown
    <3>2. ASSUME NEW c \in AllClusters, NEW n \in AllServices(c), Ecs!Service(c, n) \in alive
          PROVE  \/ c \in Waiting' \/ Ecs!Cluster(c) \in lost'
                 \/ <<"ListServices", c, "">> \in warnings'
                 \/ Ecs!Service(c, n) \in emitted' \cup warnings'
      <4>1. \/ c \in Waiting \/ c = k \/ Ecs!Cluster(c) \in lost
            \/ <<"ListServices", c, "">> \in warnings
            \/ Ecs!Service(c, n) \in emitted \cup warnings
        BY <1>1, <1>6, <3>2 DEF EcsInv, EcsKnown
      <4> QED BY <1>9, <2>1, <4>1
    <3> QED BY <1>1, <1>9, <3>1, <3>2 DEF EcsInv, EcsKnown
  <2>8. EcsSaid'
    BY <1>9, <2>2, <2>4 DEF EcsInv, EcsSaid
  <2> QED BY <2>5, <2>6, <2>7, <2>8 DEF EcsInv
<1>10. CASE \E answer : Ecs!End(answer)
  BY <1>1, <1>10, EcsEnds DEF Ecs!End, Ecs!lists
<1> QED
  <2>1. PICK answer \in Ecs!Answers(Ecs!Cluster(k) \in alive) :
         \/ /\ answer = "ok"
            /\ IF page > Len(pages)
               THEN at' = "batches" /\ UNCHANGED <<page, names>>
               ELSE /\ names' = names \cup {n \in pages[page] : Ecs!Service(k, n) \in alive}
                    /\ page' = page + 1 /\ UNCHANGED at
            /\ UNCHANGED <<alive, arns, described, taskDefs, emitted, lost, warnings, result>>
         \/ /\ Ecs!Degrades(answer) /\ at' = "describe" /\ described' = described \ {k}
            /\ lost' = lost \cup {Ecs!Service(k, n) : n \in names} /\ names' = {}
            /\ warnings' = warnings \cup {<<"ListServices", k, "">>}
            /\ UNCHANGED <<alive, page, arns, taskDefs, emitted, result>>
         \/ Ecs!End(answer)
    BY <1>0 DEF Ecs!ListServices
  <2>2. page > Len(pages) \/ page <= Len(pages)
    BY <1>1, <1>3
  <2> QED BY <1>7, <1>8, <1>9, <1>10, <2>1, <2>2
\* What a batch of services is learnt to run is a task definition of each.
LEMMA LearnIs ==
  ASSUME NEW found \in SUBSET Ecs!Services
  PROVE  /\ Ecs!Learn(found) \subseteq Ecs!TaskDefs
         /\ \A x \in found : Ecs!DefinitionOf(x) # "" =>
              Ecs!TaskDef(Ecs!DefinitionOf(x)) \in Ecs!Learn(found)
BY DEF Ecs!Learn, Ecs!TaskDefs

\* A batch of a cluster's services is emitted, with what they run, or given up.
LEMMA EcsDescribeServices ==
  ASSUME EcsInv, Ecs!DescribeServices
  PROVE  EcsInv'
<1>0. PICK k : k = Ecs!Current
  OBVIOUS
<1>1. /\ at = "batches" /\ result = "running" /\ Turn /\ described # {}
      /\ names \subseteq AllServices(k)
  BY <1>0 DEF Ecs!DescribeServices, Ecs!Asks, EcsInv, EcsShape, Turn
<1>2. k \in described /\ k \in AllClusters /\ k \notin arns
  BY <1>0, <1>1, EcsCurrent DEF EcsInv, EcsShape
<1>3. Waiting = arns \cup (described \ {k})
  BY <1>0, <1>1 DEF Waiting
<1>4. \A n \in names : Ecs!Service(k, n) \notin emitted \cup lost
  BY <1>0, <1>1 DEF EcsInv, EcsHeld
<1>5. \A c, n : InTurn(c, n) <=> c = k /\ n \in names
  BY <1>0, <1>1 DEF InTurn
<1>6. ASSUME NEW some \in SUBSET names,
             UNCHANGED <<alive, at, page, arns, described, result>>,
             names' = names \ some,
             NEW got \in SUBSET {Ecs!Service(k, n) : n \in some},
             \/ /\ emitted' = emitted \cup got /\ lost' = lost
                /\ taskDefs' = taskDefs \cup Ecs!Learn(got)
                /\ warnings' = warnings \cup ({Ecs!Service(k, n) : n \in some} \ got)
             \/ /\ lost' = lost \cup {Ecs!Service(k, n) : n \in some} /\ got = {}
                /\ warnings' = warnings \cup {Ecs!Service(k, n) : n \in some}
                /\ UNCHANGED <<emitted, taskDefs>>
      PROVE  EcsInv'
  <2> DEFINE batch == {Ecs!Service(k, n) : n \in some}
  <2>1. Ecs!Current' = k /\ Turn' /\ Waiting' = Waiting
    BY <1>0, <1>1, <1>3, <1>6 DEF Ecs!Current, Turn, Waiting
  <2>2. /\ \A n \in some : Ecs!Service(k, n) \in batch
        /\ batch \subseteq Ecs!Services /\ batch \cap (emitted \cup lost) = {}
    BY <1>1, <1>2, <1>4, EcsNames
  <2>3. \A x \in batch : x[2] = k /\ x[3] \in some
    BY ServiceIs
  <2>4. \/ /\ emitted' = emitted \cup got /\ lost' = lost
           /\ taskDefs' = taskDefs \cup Ecs!Learn(got)
           /\ warnings' = warnings \cup (batch \ got)
        \/ /\ lost' = lost \cup batch /\ got = {}
           /\ warnings' = warnings \cup batch
           /\ UNCHANGED <<emitted, taskDefs>>
    BY <1>6
  <2>5. got \subseteq batch
    BY <1>6
  <2> HIDE DEF batch
  <2>6. batch \cap Ecs!TaskDefs = {} /\ \A c : Ecs!Cluster(c) \notin batch
    <3>1. \A x \in Ecs!TaskDefs : x \notin Ecs!Services
      <4> SUFFICES ASSUME NEW x \in Ecs!TaskDefs, x \in Ecs!Services PROVE FALSE
        OBVIOUS
      <4>1. PICK c \in AllClusters : \E n \in AllServices(c) : x = Ecs!Service(c, n)
        BY EcsNames
      <4> QED BY <4>1, EcsNames
    <3> QED BY <2>2, <3>1, EcsNames
  <2>7. /\ \A c \in Waiting : \A n : Ecs!Service(c, n) \notin batch
        /\ \A n \in names \ some : Ecs!Service(k, n) \notin batch
    <3>1. \A c \in Waiting : c # k
      BY <1>2, <1>3
    <3>2. \A c, n : Ecs!Service(c, n)[2] = c /\ Ecs!Service(c, n)[3] = n
      BY ServiceIs
    <3> QED BY <2>3, <3>1, <3>2
  <2>8. Ecs!Learn(got) \subseteq Ecs!TaskDefs
    BY <2>2, <2>5, LearnIs
  <2>9. EcsShape'
    BY <1>0, <1>1, <1>6, <2>1, <2>2, <2>4, <2>5, <2>8 DEF EcsInv, EcsShape
  <2>10. EcsHeld'
    <3>1. emitted' \cap lost' = {}
      BY <2>2, <2>4, <2>5 DEF EcsInv, EcsHeld
    <3>2. (emitted' \cup lost') \cap Ecs!TaskDefs = {}
      BY <1>1, <2>4, <2>5, <2>6 DEF EcsInv, EcsHeld
    <3>3. taskDefs' \subseteq Ecs!TaskDefs
      BY <2>9 DEF EcsShape
    <3>4. emitted' \cup lost' \subseteq emitted \cup lost \cup batch
      BY <2>4, <2>5
    <3>5. \A c \in Waiting : /\ Ecs!Cluster(c) \notin emitted' \cup lost'
                             /\ \A n \in AllServices(c) : Ecs!Service(c, n) \notin emitted' \cup lost'
      BY <2>6, <2>7, <3>4 DEF EcsInv, EcsHeld
    <3>6. \A n \in names \ some : Ecs!Service(k, n) \notin emitted' \cup lost'
      BY <1>4, <2>7, <3>4
    <3>7. Ecs!Cluster(k) \in emitted'
      BY <1>0, <1>1, <2>4 DEF EcsInv, EcsHeld
    <3>8. at' = "batches" /\ names' = names \ some
      BY <1>1, <1>6
    <3> QED BY <2>1, <3>1, <3>2, <3>3, <3>5, <3>6, <3>7, <3>8 DEF EcsHeld
  <2>11. EcsKnown'
    <3>1. emitted \subseteq emitted' /\ warnings \subseteq warnings' /\ lost \subseteq lost'
          /\ batch \subseteq emitted' \cup warnings'
      BY <2>4, <2>5
    <3>2. \A c, n : InTurn(c, n)' <=> c = k /\ n \in names'
      BY <1>1, <1>6, <2>1 DEF InTurn
    <3>3. ASSUME NEW c \in AllClusters, NEW n \in AllServices(c), Ecs!Service(c, n) \in alive
          PROVE  \/ c \in Waiting' \/ InTurn(c, n)' \/ Ecs!Cluster(c) \in lost'
                 \/ <<"ListServices", c, "">> \in warnings'
                 \/ Ecs!Service(c, n) \in emitted' \cup warnings'
      <4>1. \/ c \in Waiting \/ InTurn(c, n) \/ Ecs!Cluster(c) \in lost
            \/ <<"ListServices", c, "">> \in warnings
            \/ Ecs!Service(c, n) \in emitted \cup warnings
        BY <1>1, <3>3 DEF EcsInv, EcsKnown
      <4>2. InTurn(c, n) => InTurn(c, n)' \/ Ecs!Service(c, n) \in batch
        BY <1>5, <1>6, <2>2, <3>2
      <4> QED BY <2>1, <3>1, <4>1, <4>2
    <3>4. \A c \in AllClusters : Ecs!Cluster(c) \in alive =>
            c \in arns \cup described \/ Ecs!Cluster(c) \in emitted' \cup warnings'
      BY <1>1, <3>1 DEF EcsInv, EcsKnown
    <3> QED BY <1>1, <1>6, <3>3, <3>4 DEF EcsInv, EcsKnown
  <2>12. EcsSaid'
    <3>1. \A x \in lost' : x \in lost \/ x \in warnings'
      BY <2>4
    <3>2. warnings \subseteq warnings' /\ emitted \subseteq emitted' /\ taskDefs \subseteq taskDefs'
      BY <2>4, <2>5
    <3>3. \A x \in emitted' : x \in emitted \/ (x \in got /\ taskDefs' = taskDefs \cup Ecs!Learn(got))
      BY <2>4
    <3>4. \A x \in got : Ecs!DefinitionOf(x) # "" => Ecs!TaskDef(Ecs!DefinitionOf(x)) \in Ecs!Learn(got)
      BY <2>2, <2>5, LearnIs
    <3> QED BY <3>1, <3>2, <3>3, <3>4 DEF EcsInv, EcsSaid
  <2> QED BY <2>9, <2>10, <2>11, <2>12 DEF EcsInv
<1>7. CASE \E answer : Ecs!End(answer)
  BY <1>1, <1>7, EcsEnds DEF Ecs!End, Ecs!lists
<1> QED
  <2>1. PICK some \in SUBSET names, answer \in Ecs!Answers(Ecs!Cluster(k) \in alive) :
          LET batch == {Ecs!Service(k, n) : n \in some}
              found == batch \cap alive IN
          \/ /\ answer = "ok" /\ names' = names \ some
             /\ emitted' = emitted \cup found
             /\ taskDefs' = taskDefs \cup Ecs!Learn(found)
             /\ warnings' = warnings \cup (batch \ found)
             /\ UNCHANGED <<alive, at, page, arns, described, lost, result>>
          \/ /\ Ecs!Degrades(answer) /\ names' = names \ some
             /\ lost' = lost \cup batch /\ warnings' = warnings \cup batch
             /\ UNCHANGED <<alive, at, page, arns, described, taskDefs, emitted, result>>
          \/ Ecs!End(answer)
    BY <1>0 DEF Ecs!DescribeServices, Ecs!Batches
  <2> DEFINE batch == {Ecs!Service(k, n) : n \in some}
             found == batch \cap alive
  <2>2. found \in SUBSET batch /\ {} \in SUBSET batch
    OBVIOUS
  <2>3. CASE /\ names' = names \ some
             /\ emitted' = emitted \cup found
             /\ taskDefs' = taskDefs \cup Ecs!Learn(found)
             /\ warnings' = warnings \cup (batch \ found)
             /\ UNCHANGED <<alive, at, page, arns, described, lost, result>>
    <3> HIDE DEF found
    <3> QED BY <1>6, <2>2, <2>3
  <2>4. CASE /\ names' = names \ some
             /\ lost' = lost \cup batch /\ warnings' = warnings \cup batch
             /\ UNCHANGED <<alive, at, page, arns, described, taskDefs, emitted, result>>
    BY <1>6, <2>2, <2>4
  <2> QED BY <1>7, <2>1, <2>3, <2>4

\* A cluster's turn ends.
LEMMA EcsNextCluster ==
  ASSUME EcsInv, Ecs!NextCluster
  PROVE  EcsInv'
<1>1. /\ at = "batches" /\ result = "running" /\ names = {} /\ Turn /\ described # {}
      /\ described' = described \ {Ecs!Current} /\ at' = "describe"
      /\ UNCHANGED <<alive, page, arns, names, taskDefs, emitted, lost, warnings, result>>
  BY DEF Ecs!NextCluster, Ecs!Asks, EcsInv, EcsShape, Turn
<1>2. ~Turn' /\ Waiting' = Waiting /\ \A c, n : ~InTurn(c, n)
  BY <1>1 DEF Turn, Waiting, InTurn
<1>3. EcsShape'
  BY <1>1, <1>2 DEF EcsInv, EcsShape
<1>4. EcsHeld'
  BY <1>1, <1>2 DEF EcsInv, EcsHeld
<1>5. EcsKnown'
  <2>1. Ecs!Cluster(Ecs!Current) \in emitted
    BY <1>1 DEF EcsInv, EcsHeld
  <2>2. \A c \in AllClusters : Ecs!Cluster(c) \in alive =>
          c \in arns' \cup described' \/ Ecs!Cluster(c) \in emitted \cup warnings
    BY <1>1, <2>1 DEF EcsInv, EcsKnown
  <2> QED BY <1>1, <1>2, <2>2 DEF EcsInv, EcsKnown
<1>6. EcsSaid'
  BY <1>1 DEF EcsInv, EcsSaid
<1> QED BY <1>3, <1>4, <1>5, <1>6 DEF EcsInv

\* The last phase begins when no cluster is left.
LEMMA EcsDefinitions ==
  ASSUME EcsInv, Ecs!Definitions
  PROVE  EcsInv'
<1>1. /\ at = "describe" /\ result = "running" /\ described = {} /\ arns = {} /\ at' = "definitions"
      /\ UNCHANGED <<alive, page, arns, described, names, taskDefs, emitted, lost, warnings, result>>
  BY DEF Ecs!Definitions, Ecs!Asks, Ecs!lists
<1>2. ~Turn /\ ~Turn' /\ Waiting = {} /\ Waiting' = {} /\ names = {} /\ \A c, n : ~InTurn(c, n)
  BY <1>1 DEF Turn, Waiting, InTurn, EcsInv, EcsShape
<1>3. EcsShape'
  BY <1>1, <1>2 DEF EcsInv, EcsShape
<1>4. EcsHeld'
  BY <1>1, <1>2 DEF EcsInv, EcsHeld
<1>5. EcsKnown'
  BY <1>1, <1>2 DEF EcsInv, EcsKnown
<1>6. EcsSaid'
  BY <1>1 DEF EcsInv, EcsSaid
<1> QED BY <1>3, <1>4, <1>5, <1>6 DEF EcsInv

\* A task definition is emitted or given up.
LEMMA EcsDefinition ==
  ASSUME EcsInv, NEW d, Ecs!DescribeTaskDefinition(d)
  PROVE  EcsInv'
<1>1. at = "definitions" /\ result = "running" /\ d \in taskDefs /\ d \in Ecs!TaskDefs
  BY DEF Ecs!DescribeTaskDefinition, Ecs!Asks, EcsInv, EcsShape
<1>2. /\ ~Turn /\ Waiting = {} /\ arns = {} /\ described = {} /\ d[1] = "taskdef"
      /\ \A c, n : ~InTurn(c, n)
  BY <1>1, EcsNames DEF Turn, Waiting, InTurn, EcsInv, EcsShape
<1>3. CASE /\ taskDefs' = taskDefs \ {d}
           /\ \/ emitted' = emitted \cup {d} /\ UNCHANGED <<lost, warnings>>
              \/ lost' = lost \cup {d} /\ warnings' = warnings \cup {d} /\ emitted' = emitted
           /\ UNCHANGED <<alive, at, page, arns, described, names, result>>
  <2>1. ~Turn' /\ Waiting' = {}
    BY <1>1, <1>2, <1>3 DEF Turn, Waiting
  <2>2. EcsShape'
    BY <1>1, <1>2, <1>3, <2>1 DEF EcsInv, EcsShape
  <2>3. EcsHeld'
    <3>1. d \notin emitted \cup lost
      BY <1>1 DEF EcsInv, EcsHeld
    <3>2. emitted' \cup lost' = emitted \cup lost \cup {d} /\ emitted' \cap lost' = {}
      BY <1>3, <3>1 DEF EcsInv, EcsHeld
    <3>3. taskDefs' \cap (emitted' \cup lost') = {}
      BY <1>3, <3>2 DEF EcsInv, EcsHeld
    <3> QED BY <1>1, <1>3, <2>1, <3>2, <3>3 DEF EcsHeld
  <2>4. EcsKnown'
    BY <1>1, <1>2, <1>3, <2>1 DEF EcsInv, EcsKnown
  <2>5. EcsSaid'
    BY <1>2, <1>3 DEF EcsInv, EcsSaid
  <2> QED BY <2>2, <2>3, <2>4, <2>5 DEF EcsInv
<1>4. CASE \E answer : Ecs!End(answer)
  BY <1>1, <1>4, EcsEnds DEF Ecs!End, Ecs!lists
<1> QED BY <1>3, <1>4 DEF Ecs!DescribeTaskDefinition, Ecs!lists

\* Every step of the ECS collector.
LEMMA EcsSteps ==
  ASSUME EcsInv, Ecs!Next
  PROVE  EcsInv'
<1>1. CASE Ecs!Return \/ Ecs!Done
  BY <1>1, EcsEnds DEF Ecs!Return, Ecs!Done, Ecs!Asks, Ecs!lists, Ecs!vars
<1> QED BY <1>1, EcsDelete, EcsListClusters, EcsDescribeClusters, EcsEmitCluster, EcsListServices,
           EcsDescribeServices, EcsNextCluster, EcsDefinitions, EcsDefinition DEF Ecs!Next

\* What ECS promises follows.
LEMMA EcsIs ==
  EcsInv => Ecs!TypeOK /\ Ecs!DenialCostsItsBatch /\ Ecs!ServiceHasDefinition
<1> SUFFICES ASSUME EcsInv
             PROVE  Ecs!TypeOK /\ Ecs!DenialCostsItsBatch /\ Ecs!ServiceHasDefinition
  OBVIOUS
<1>1. Ecs!TypeOK
  BY DEF Ecs!TypeOK, EcsInv, EcsShape, EcsHeld, Turn
<1>2. ASSUME result = "nil", NotListed \notin warnings,
             NEW x \in alive \cap (Ecs!Clusters \cup Ecs!Services)
      PROVE  x \in emitted \cup warnings \/ <<"ListServices", x[2], "">> \in warnings
               \/ Ecs!Cluster(x[2]) \in lost
  <2>1. at = "definitions" /\ arns = {} /\ described = {} /\ ~Turn /\ Waiting = {}
        /\ \A c, n : ~InTurn(c, n)
    BY <1>2 DEF EcsInv, EcsShape, Turn, Waiting, InTurn
  <2>2. CASE x \in Ecs!Clusters
    <3>1. PICK c \in AllClusters : x = Ecs!Cluster(c)
      BY <2>2, EcsNames
    <3> QED BY <2>1, <3>1 DEF EcsInv, EcsKnown
  <2>3. CASE x \in Ecs!Services
    <3>1. PICK c \in AllClusters : \E n \in AllServices(c) : x = Ecs!Service(c, n)
      BY <2>3, EcsNames
    <3>2. PICK n \in AllServices(c) : x = Ecs!Service(c, n)
      BY <3>1
    <3>3. x[2] = c
      BY <3>2, ServiceIs
    <3> QED BY <2>1, <3>2, <3>3 DEF EcsInv, EcsKnown
  <2> QED BY <2>2, <2>3
<1>3. Ecs!DenialCostsItsBatch
  BY <1>2 DEF Ecs!DenialCostsItsBatch, EcsInv, EcsSaid, NotListed
<1>4. Ecs!ServiceHasDefinition
  BY DEF Ecs!ServiceHasDefinition, EcsInv, EcsSaid, EcsShape
<1> QED BY <1>1, <1>3, <1>4
-----------------------------------------------------------------------------
(* The promise behind Collector. *)

\* One answer, to one who knows what is owed before and after it (O, O1), what exists
\* (A) and what is emitted (E, E1): some of what is owed is emitted, some given up, and
\* the rest of what is owed no more does not exist.
Answered(O, O1, A, E, E1, done, missed) ==
  /\ E1 = E \cup done /\ lost' = lost \cup missed /\ done \cap missed = {}
  /\ done \subseteq O /\ missed \subseteq O
  /\ O1 \cap (E1 \cup lost') = {}
  /\ \A x \in O : x \in O1 \/ x \in done \/ x \in missed \/ x \notin A
  /\ warnings # {} \/ missed # {} => warnings' # {}
  /\ result = "running" /\ result' \in {"running", "nil"} /\ (result' = "nil" => O1 = {})

\* Nothing is owed or emitted that was not, and nothing is given up: something may have
\* been deleted, or an error ended it all.
Unmoved(O, O1, A, A1, E, E1) ==
  /\ O1 = O /\ E1 = E /\ lost' = lost /\ warnings' = warnings
  /\ \/ A1 = A /\ (result' = result \/ (result = "running" /\ result' = "error"))
     \/ result' = result /\ \E r \in A : A1 = A \ {r}

Promised(O, O1, A, A1, E, E1) ==
  \/ A1 = A /\ \E done, missed \in SUBSET O : Answered(O, O1, A, E, E1, done, missed)
  \/ Unmoved(O, O1, A, A1, E, E1)

\* Such a step is one of the promise.
LEMMA PromisedSteps ==
  ASSUME Owed \cap (Ids \cup lost) = {},
         Promised(Owed, Owed', Existing, Existing', Ids, Ids')
  PROVE  Promise!Next \/ UNCHANGED Promise!vars
<1>1. ASSUME Existing' = Existing, NEW done \in SUBSET Owed, NEW missed \in SUBSET Owed,
             Answered(Owed, Owed', Existing, Ids, Ids', done, missed)
      PROVE  Promise!Read
  <2>1. /\ Ids' = Ids \cup done /\ lost' = lost \cup missed /\ done \cap missed = {}
        /\ Owed' \cap (Ids' \cup lost') = {}
        /\ \A x \in Owed : x \in Owed' \/ x \in done \/ x \in missed \/ x \notin Existing
        /\ warnings # {} \/ missed # {} => warnings' # {}
        /\ result = "running" /\ result' \in {"running", "nil"} /\ (result' = "nil" => Owed' = {})
    BY <1>1 DEF Answered
  <2>2. Ids' \ Ids = done /\ lost' \ lost = missed
    BY <2>1
  <2>3. /\ Ids \subseteq Ids' /\ lost \subseteq lost' /\ done \cap missed = {}
        /\ ((Owed' \cup done \cup missed) \ Owed) \cap (Ids \cup lost) = {}
        /\ (Owed \ (Owed' \cup done \cup missed)) \cap Existing = {}
    BY <2>1
  <2> QED BY <1>1, <2>1, <2>2, <2>3 DEF Promise!Read
<1>2. ASSUME Unmoved(Owed, Owed', Existing, Existing', Ids, Ids')
      PROVE  Promise!Next \/ UNCHANGED Promise!vars
  <2>1. /\ Owed' = Owed /\ Ids' = Ids /\ lost' = lost /\ warnings' = warnings
        /\ \/ Existing' = Existing /\ (result' = result \/ (result = "running" /\ result' = "error"))
           \/ result' = result /\ \E r \in Existing : Existing' = Existing \ {r}
    BY <1>2 DEF Unmoved
  <2>2. CASE Existing' = Existing /\ result' = result
    BY <2>1, <2>2 DEF Promise!vars
  <2>3. CASE Existing' = Existing /\ result = "running" /\ result' = "error"
    BY <2>1, <2>3 DEF Promise!Next, Promise!Abort
  <2>4. CASE result' = result /\ \E r \in Existing : Existing' = Existing \ {r}
    BY <2>1, <2>4 DEF Promise!Next, Promise!Delete
  <2> QED BY <2>1, <2>2, <2>3, <2>4
<1> QED BY <1>1, <1>2 DEF Promised, Promise!Next

\* The seven: what was listed and has had no turn yet is owed.
LEMMA EachPromises ==
  ASSUME EachInv, EachInv', Each!Next
  PROVE  Promised(todo, todo', alive, alive', Each!Emitted, Each!Emitted')
<1> USE DEF Each!reading
<1>1. todo' \cap (Each!Emitted' \cup lost') = {} /\ todo \cap (Each!Emitted \cup lost) = {}
  BY DEF EachInv, EachHeld
<1>2. emitted' = emitted => Each!Emitted' = Each!Emitted
  BY DEF Each!Emitted
<1>3. todo # {} => Each!Current \in todo
  BY CurrentIsDue DEF EachInv
<1>4. ASSUME NEW r, Each!Delete(r)
      PROVE  Unmoved(todo, todo', alive, alive', Each!Emitted, Each!Emitted')
  BY <1>2, <1>4 DEF Each!Delete, Unmoved
<1>5. CASE Each!ListPage
  <2>1. Answered(todo, todo', alive, Each!Emitted, Each!Emitted', {}, {})
    BY <1>1, <1>2, <1>5 DEF Each!ListPage, Each!Listing, Answered
  <2> QED BY <1>5, <2>1 DEF Each!ListPage, Promised
<1>6. CASE Each!DenyPage
  <2>1. Each!Row.keeps => Answered(todo, todo', alive, Each!Emitted, Each!Emitted', {}, {})
    BY <1>1, <1>2, <1>6 DEF Each!DenyPage, Each!Listing, Answered
  <2>2. ASSUME ~Each!Row.keeps
        PROVE  Answered(todo, todo', alive, Each!Emitted, Each!Emitted', {}, todo)
    <3>1. ~Each!Row.byPage \/ todo = {}
      BY <1>6 DEF EachInv, EachHeld, Each!DenyPage, Each!Listing
    <3>2. lost = {} \/ Each!Row.byPage
      BY <1>6 DEF EachInv, EachHeld, Each!DenyPage, Each!Listing
    <3>3. Each!Row.byPage => Each!Row.keeps
      BY DEF EachInv, Each!TypeOK, Each!Rows, Each!Row, Each!Sqs, Each!DynamoDB, Each!Sns,
             Each!Lambda, Each!Mappings, Each!RestApis, Each!HttpApis
    <3> QED BY <1>1, <1>2, <1>6, <2>2, <3>2, <3>3 DEF Each!DenyPage, Each!Listing, Answered
  <2> QED BY <1>6, <2>1, <2>2 DEF Each!DenyPage, Promised
<1>7. CASE Each!Ok
  <2>1. Answered(todo, todo', alive, Each!Emitted, Each!Emitted', {}, {})
    BY <1>1, <1>2, <1>7 DEF Each!Ok, Each!Asking, Answered
  <2> QED BY <1>7, <2>1 DEF Each!Ok, Promised
<1>8. CASE Each!Denied
  <2>1. /\ todo # {} /\ result = "running" /\ result' = result /\ alive' = alive
        /\ emitted' = emitted /\ warnings' # {}
        /\ \/ todo' = todo \ {Each!Current} /\ lost' = lost \cup {Each!Current}
           \/ todo' = todo /\ lost' = lost
    BY <1>8 DEF Each!Denied, Each!Asking, Each!Advance
  <2>2. CASE todo' = todo \ {Each!Current} /\ lost' = lost \cup {Each!Current}
    <3>1. Answered(todo, todo', alive, Each!Emitted, Each!Emitted', {}, {Each!Current})
      BY <1>1, <1>2, <1>3, <2>1, <2>2 DEF Answered
    <3> QED BY <1>3, <2>1, <3>1 DEF Promised
  <2>3. CASE todo' = todo /\ lost' = lost
    <3>1. Answered(todo, todo', alive, Each!Emitted, Each!Emitted', {}, {})
      BY <1>1, <1>2, <2>1, <2>3 DEF Answered
    <3> QED BY <2>1, <3>1 DEF Promised
  <2> QED BY <2>1, <2>2, <2>3
<1>9. CASE Each!NotFound
  <2>1. /\ result = "running" /\ result' = result /\ alive' = alive
        /\ emitted' = emitted /\ warnings' = warnings /\ lost' = lost
        /\ \/ todo' = todo \ {Each!Current} /\ Each!Current \notin alive
           \/ todo' = todo
    BY <1>9 DEF Each!NotFound, Each!Asking, Each!Advance
  <2>2. Answered(todo, todo', alive, Each!Emitted, Each!Emitted', {}, {})
    BY <1>1, <1>2, <2>1 DEF Answered
  <2> QED BY <2>1, <2>2 DEF Promised
<1>10. CASE Each!Emit
  <2>1. /\ result = "running" /\ result' = result /\ alive' = alive /\ todo # {}
        /\ todo' = todo \ {Each!Current} /\ warnings' = warnings /\ lost' = lost
    BY <1>10 DEF Each!Emit, Each!Advance
  <2>2. Each!Emitted' = Each!Emitted \cup {Each!Current}
    <3> DEFINE new == [id |-> Each!Current, lacks |-> lacks, unread |-> unread]
    <3>1. emitted' = emitted \cup {new} /\ new.id = Each!Current
      BY <1>10 DEF Each!Emit
    <3> HIDE DEF new
    <3> QED BY <3>1 DEF Each!Emitted
  <2>3. Answered(todo, todo', alive, Each!Emitted, Each!Emitted', {Each!Current}, {})
    BY <1>1, <1>3, <2>1, <2>2 DEF Answered
  <2> QED BY <1>3, <2>1, <2>3 DEF Promised
<1>11. CASE Each!Fail
  <2>1. Unmoved(todo, todo', alive, alive', Each!Emitted, Each!Emitted')
    BY <1>2, <1>11 DEF Each!Fail, Each!Listing, Each!Asking, Unmoved
  <2> QED BY <2>1 DEF Promised
<1>12. CASE Each!Turn
  <2>1. Answered(todo, todo', alive, Each!Emitted, Each!Emitted', {}, {})
    BY <1>1, <1>2, <1>12 DEF Each!Turn, Answered
  <2> QED BY <1>12, <2>1 DEF Each!Turn, Promised
<1>13. CASE Each!Done
  <2>1. Unmoved(todo, todo', alive, alive', Each!Emitted, Each!Emitted')
    BY <1>2, <1>13 DEF Each!Done, Each!vars, Unmoved
  <2> QED BY <2>1 DEF Promised
<1> QED BY <1>4, <1>5, <1>6, <1>7, <1>8, <1>9, <1>10, <1>11, <1>12, <1>13
        DEF Each!Next, Promised
\* IAM: the roles to be looked up, the one being read and the policies learnt of are
\* owed; of inline policies, which are no resources, nothing is said.
LEMMA IamPromises ==
  ASSUME IamInv, IamInv', Iam!Next
  PROVE  Promised(Iam!Owed, Iam!Owed', alive \ Iam!Inline, alive' \ Iam!Inline,
                  Iam!Emitted, Iam!Emitted')
<1> USE DEF Iam!acct
<1>1. Iam!Owed' \cap (Iam!Emitted' \cup lost') = {} /\ Iam!Owed \cap (Iam!Emitted \cup lost) = {}
  BY DEF IamInv, IamHeld
<1>2. emitted' = emitted => Iam!Emitted' = Iam!Emitted
  BY DEF Iam!Emitted
<1>3. ASSUME Iam!Owed \subseteq Iam!Owed', UNCHANGED <<alive, emitted, lost, result>>,
             result = "running", warnings \subseteq warnings'
      PROVE  Promised(Iam!Owed, Iam!Owed', alive \ Iam!Inline, alive' \ Iam!Inline,
                      Iam!Emitted, Iam!Emitted')
  <2>1. Answered(Iam!Owed, Iam!Owed', alive \ Iam!Inline, Iam!Emitted, Iam!Emitted', {}, {})
    BY <1>1, <1>2, <1>3 DEF Answered
  <2> QED BY <1>3, <2>1 DEF Promised
<1>4. ASSUME NEW answer, Iam!End(answer), result = "running"
      PROVE  Promised(Iam!Owed, Iam!Owed', alive \ Iam!Inline, alive' \ Iam!Inline,
                      Iam!Emitted, Iam!Emitted')
  <2>1. Iam!Owed' = Iam!Owed
    BY <1>4 DEF Iam!End, Iam!Owed
  <2>2. Unmoved(Iam!Owed, Iam!Owed', alive \ Iam!Inline, alive' \ Iam!Inline,
                Iam!Emitted, Iam!Emitted')
    BY <1>2, <1>4, <2>1 DEF Iam!End, Unmoved
  <2> QED BY <2>2 DEF Promised
<1>5. ASSUME NEW x \in Iam!Owed, Iam!Owed' = Iam!Owed \ {x}, x \notin alive \/ x \in lost',
             lost' = lost \/ (lost' = lost \cup {x} /\ warnings' # {}),
             UNCHANGED <<alive, emitted, result>>, result = "running", warnings \subseteq warnings'
      PROVE  Promised(Iam!Owed, Iam!Owed', alive \ Iam!Inline, alive' \ Iam!Inline,
                      Iam!Emitted, Iam!Emitted')
  <2>1. CASE lost' = lost
    <3>1. x \notin lost
      BY <1>1
    <3>2. Answered(Iam!Owed, Iam!Owed', alive \ Iam!Inline, Iam!Emitted, Iam!Emitted', {}, {})
      BY <1>1, <1>2, <1>5, <2>1, <3>1 DEF Answered
    <3> QED BY <1>5, <3>2 DEF Promised
  <2>2. CASE lost' = lost \cup {x} /\ warnings' # {}
    <3>1. Answered(Iam!Owed, Iam!Owed', alive \ Iam!Inline, Iam!Emitted, Iam!Emitted', {}, {x})
      BY <1>1, <1>2, <1>5, <2>2 DEF Answered
    <3> QED BY <1>5, <3>1 DEF Promised
  <2> QED BY <1>5, <2>1, <2>2
<1>6. ASSUME NEW x \in Iam!Owed, Iam!Owed' = Iam!Owed \ {x}, Iam!Emitted' = Iam!Emitted \cup {x},
             UNCHANGED <<alive, lost, warnings, result>>, result = "running"
      PROVE  Promised(Iam!Owed, Iam!Owed', alive \ Iam!Inline, alive' \ Iam!Inline,
                      Iam!Emitted, Iam!Emitted')
  <2>1. Answered(Iam!Owed, Iam!Owed', alive \ Iam!Inline, Iam!Emitted, Iam!Emitted', {x}, {})
    BY <1>1, <1>6 DEF Answered
  <2> QED BY <1>6, <2>1 DEF Promised
<1> DEFINE Kept == Promised(Iam!Owed, Iam!Owed', alive \ Iam!Inline, alive' \ Iam!Inline,
                            Iam!Emitted, Iam!Emitted')
<1>7. ASSUME NEW x, Iam!Delete(x) PROVE Kept
  <2>1. Iam!Owed' = Iam!Owed /\ Iam!Emitted' = Iam!Emitted
    BY <1>2, <1>7 DEF Iam!Delete, Iam!Owed
  <2>2. CASE x \in Roles
    <3>1. alive' = alive \ ({x} \cup Iam!AllOf(InlinePages[x])) /\ x \in alive
      BY <1>7, <2>2 DEF Iam!Delete
    <3>2. Iam!AllOf(InlinePages[x]) \subseteq Iam!Inline /\ x \notin Iam!Inline
      BY <2>2, IamAccount DEF Iam!Inline
    <3>3. alive' \ Iam!Inline = (alive \ Iam!Inline) \ {x} /\ x \in alive \ Iam!Inline
      BY <3>1, <3>2
    <3>4. Unmoved(Iam!Owed, Iam!Owed', alive \ Iam!Inline, alive' \ Iam!Inline,
                  Iam!Emitted, Iam!Emitted')
      BY <1>7, <2>1, <3>3 DEF Iam!Delete, Unmoved
    <3> QED BY <3>4 DEF Promised
  <2>3. CASE x \notin Roles
    <3>1. alive' = alive \ {x} /\ x \in alive
      BY <1>7, <2>3 DEF Iam!Delete
    <3>2. \/ alive' \ Iam!Inline = alive \ Iam!Inline
          \/ x \in alive \ Iam!Inline /\ alive' \ Iam!Inline = (alive \ Iam!Inline) \ {x}
      BY <3>1
    <3>3. Unmoved(Iam!Owed, Iam!Owed', alive \ Iam!Inline, alive' \ Iam!Inline,
                  Iam!Emitted, Iam!Emitted')
      BY <1>7, <2>1, <3>2 DEF Iam!Delete, Unmoved
    <3> QED BY <3>3 DEF Promised
  <2> QED BY <2>2, <2>3
<1>8. CASE Iam!Start
  <2>1. /\ Iam!Owed = {} /\ warnings = {} /\ result = "running"
        /\ UNCHANGED <<alive, emitted, lost, result>>
    BY <1>8 DEF Iam!Start, IamInv, IamShape
  <2> QED BY <1>3, <2>1
<1>9. CASE Iam!GetRole
  <2> DEFINE r == Iam!Min(todo)
  <2>1. /\ result = "running" /\ role = 0 /\ todo # {}
        /\ r \in todo /\ r # 0 /\ r \notin policies
    <3>1. todo \subseteq Nat /\ todo # {} /\ result = "running" /\ role = 0 /\ todo \subseteq Roles
          /\ policies \subseteq Policies
      BY <1>9, IamAccount DEF Iam!GetRole, Iam!Reading, IamInv, Iam!TypeOK, IamShape
    <3> QED BY <3>1, LeastIn, IamAccount
  <2> HIDE DEF r
  <2>2. \/ /\ role' = r /\ policies \subseteq policies' /\ todo' = todo \ {r}
           /\ UNCHANGED <<alive, emitted, lost, warnings, result>>
        \/ /\ todo' = todo \ {r} /\ (r \notin alive \/ r \in lost')
           /\ lost' = lost \/ (lost' = lost \cup {r} /\ warnings' # {})
           /\ warnings \subseteq warnings'
           /\ UNCHANGED <<alive, role, policies, emitted, result>>
        \/ \E answer : Iam!End(answer)
    BY <1>9 DEF Iam!GetRole, Iam!Answers, Iam!Degrades, r
  <2>3. CASE /\ role' = r /\ policies \subseteq policies' /\ todo' = todo \ {r}
             /\ UNCHANGED <<alive, emitted, lost, warnings, result>>
    <3>1. Iam!Owed \subseteq Iam!Owed'
      BY <2>1, <2>3 DEF Iam!Owed
    <3> QED BY <1>3, <2>1, <2>3, <3>1
  <2>4. CASE /\ todo' = todo \ {r} /\ (r \notin alive \/ r \in lost')
             /\ lost' = lost \/ (lost' = lost \cup {r} /\ warnings' # {})
             /\ warnings \subseteq warnings'
             /\ UNCHANGED <<alive, role, policies, emitted, result>>
    <3>1. r \in Iam!Owed /\ Iam!Owed' = Iam!Owed \ {r}
      BY <2>1, <2>4 DEF Iam!Owed
    <3> QED BY <1>5, <2>1, <2>4, <3>1
  <2> QED BY <1>4, <2>1, <2>2, <2>3, <2>4
<1>10. CASE Iam!ListInline \/ Iam!GetInline
  <2>1. /\ result = "running"
        /\ \/ /\ UNCHANGED <<alive, todo, role, policies, emitted, lost, result>>
              /\ warnings \subseteq warnings'
           \/ \E answer : Iam!End(answer)
    BY <1>10 DEF Iam!ListInline, Iam!GetInline, Iam!Reading
  <2>2. (UNCHANGED <<todo, role, policies>>) => Iam!Owed' = Iam!Owed
    BY DEF Iam!Owed
  <2> QED BY <1>3, <1>4, <2>1, <2>2
<1>11. CASE Iam!ListAttached
  <2>1. /\ result = "running" /\ role # 0 /\ role \in Roles /\ role \notin todo \cup policies
    BY <1>11, IamAccount DEF Iam!ListAttached, Iam!Reading, IamInv, Iam!TypeOK, IamShape, IamHeld
  <2>2. \/ Iam!EmitRole /\ UNCHANGED warnings
        \/ /\ UNCHANGED <<alive, todo, role, emitted, lost, result>>
           /\ policies \subseteq policies' /\ warnings \subseteq warnings'
        \/ \E answer : Iam!End(answer)
    BY <1>11 DEF Iam!ListAttached
  <2>3. CASE Iam!EmitRole /\ UNCHANGED warnings
    <3>1. Iam!Owed' = Iam!Owed \ {role} /\ role \in Iam!Owed
      BY <2>1, <2>3 DEF Iam!Owed, Iam!EmitRole
    <3>2. Iam!Emitted' = Iam!Emitted \cup {role}
      <4> DEFINE new == [id |-> role, by |-> Iam!Assumed(role), spec |-> spec]
      <4>1. emitted' = emitted \cup {new} /\ new.id = role
        BY <2>3 DEF Iam!EmitRole
      <4> HIDE DEF new
      <4> QED BY <4>1 DEF Iam!Emitted
    <3>3. UNCHANGED <<alive, lost, warnings, result>>
      BY <2>3 DEF Iam!EmitRole
    <3> QED BY <1>6, <2>1, <3>1, <3>2, <3>3
  <2>4. CASE /\ UNCHANGED <<alive, todo, role, emitted, lost, result>>
             /\ policies \subseteq policies' /\ warnings \subseteq warnings'
    <3>1. Iam!Owed \subseteq Iam!Owed'
      BY <2>4 DEF Iam!Owed
    <3> QED BY <1>3, <2>1, <2>4, <3>1
  <2> QED BY <1>4, <2>1, <2>2, <2>3, <2>4
<1>12. ASSUME Iam!GetPolicy \/ Iam!GetVersion
       PROVE  LET p == Iam!Min(policies) IN
              /\ result = "running" /\ p \in Iam!Owed /\ todo = {} /\ role = 0
              /\ policies' = policies \ {p} /\ (UNCHANGED <<todo, role>>) =>
                   Iam!Owed' = Iam!Owed \ {p}
  <2>1. policies \subseteq Nat /\ policies # {} /\ result = "running" /\ role = 0 /\ todo = {}
    BY <1>12, IamAccount
       DEF Iam!GetPolicy, Iam!GetVersion, Iam!Reading, IamInv, Iam!TypeOK, IamShape
  <2>2. Iam!Min(policies) \in policies
    BY <2>1, LeastIn
  <2> QED BY <2>1, <2>2 DEF Iam!Owed
<1>13. CASE Iam!GetPolicy
  <2> DEFINE p == Iam!Min(policies)
  <2>1. /\ result = "running" /\ p \in Iam!Owed
        /\ policies' = policies \ {p} /\ (UNCHANGED <<todo, role>>) => Iam!Owed' = Iam!Owed \ {p}
    BY <1>12, <1>13
  <2> HIDE DEF p
  <2>2. \/ UNCHANGED <<alive, todo, role, policies, emitted, lost, warnings, result>>
        \/ /\ policies' = policies \ {p} /\ (p \notin alive \/ p \in lost')
           /\ lost' = lost \/ (lost' = lost \cup {p} /\ warnings' # {})
           /\ warnings \subseteq warnings'
           /\ UNCHANGED <<alive, todo, role, emitted, result>>
        \/ \E answer : Iam!End(answer)
    BY <1>13 DEF Iam!GetPolicy, Iam!Answers, Iam!Degrades, p
  <2>3. (UNCHANGED <<todo, role, policies>>) => Iam!Owed' = Iam!Owed
    BY DEF Iam!Owed
  <2> QED BY <1>3, <1>4, <1>5, <2>1, <2>2, <2>3
<1>14. CASE Iam!GetVersion
  <2> DEFINE p == Iam!Min(policies)
  <2>1. /\ result = "running" /\ p \in Iam!Owed
        /\ policies' = policies \ {p} /\ (UNCHANGED <<todo, role>>) => Iam!Owed' = Iam!Owed \ {p}
    BY <1>12, <1>14
  <2> HIDE DEF p
  <2>2. \/ /\ policies' = policies \ {p} /\ UNCHANGED <<alive, todo, role, lost, warnings, result>>
           /\ emitted' = emitted \cup {[id |-> p, by |-> {}, spec |-> Iam!Empty]}
        \/ /\ policies' = policies \ {p} /\ lost' = lost \cup {p} /\ warnings' # {}
           /\ warnings \subseteq warnings'
           /\ UNCHANGED <<alive, todo, role, emitted, result>>
        \/ \E answer : Iam!End(answer)
    BY <1>14 DEF Iam!GetVersion, p
  <2>3. emitted' = emitted \cup {[id |-> p, by |-> {}, spec |-> Iam!Empty]} =>
          Iam!Emitted' = Iam!Emitted \cup {p}
    <3> DEFINE new == [id |-> p, by |-> {}, spec |-> Iam!Empty]
    <3>1. new.id = p
      OBVIOUS
    <3>2. SUFFICES emitted' = emitted \cup {new} => Iam!Emitted' = Iam!Emitted \cup {p}
      OBVIOUS
    <3> HIDE DEF new
    <3> QED BY <3>1 DEF Iam!Emitted
  <2> QED BY <1>4, <1>5, <1>6, <2>1, <2>2, <2>3
<1>15. CASE Iam!Return
  <2>1. Iam!Owed = {} /\ Iam!Owed' = {}
    <3>1. role = 0 /\ todo = {} /\ policies = {} /\ UNCHANGED <<role, todo, policies>>
      BY <1>15 DEF Iam!Return, Iam!Reading, IamInv, IamShape
    <3> QED BY <3>1 DEF Iam!Owed
  <2>2. Answered(Iam!Owed, Iam!Owed', alive \ Iam!Inline, Iam!Emitted, Iam!Emitted', {}, {})
    BY <1>1, <1>2, <1>15, <2>1 DEF Iam!Return, Iam!Reading, Answered
  <2> QED BY <1>15, <2>2 DEF Iam!Return, Promised
<1>16. CASE Iam!Done
  <2>1. Unmoved(Iam!Owed, Iam!Owed', alive \ Iam!Inline, alive' \ Iam!Inline,
                Iam!Emitted, Iam!Emitted')
    BY <1>2, <1>16 DEF Iam!Done, Iam!vars, Iam!Owed, Unmoved
  <2> QED BY <2>1 DEF Promised
<1> QED BY <1>7, <1>8, <1>9, <1>10, <1>11, <1>13, <1>14, <1>15, <1>16 DEF Iam!Next
\* RDS and ElastiCache: what came of the join is owed until it is emitted, and nothing
\* is ever given up.
LEMMA JoinedPromises ==
  ASSUME JoinedInv, JoinedInv', lost = {}, lost' = {}, Joined!Next, NEW all
  PROVE  Promised(todo, todo', all, all, EmittedIds, EmittedIds')
<1> USE DEF Joined!listings
<1>1. todo' \cap EmittedIds' = {} /\ todo \cap EmittedIds = {}
  BY DEF JoinedInv, JoinedOut
<1>2. emitted' = emitted => EmittedIds' = EmittedIds
  BY DEF EmittedIds
<1>3. ASSUME UNCHANGED <<todo, emitted, result>>, result = "running", warnings \subseteq warnings'
      PROVE  Promised(todo, todo', all, all, EmittedIds, EmittedIds')
  <2>1. Answered(todo, todo', all, EmittedIds, EmittedIds', {}, {})
    BY <1>1, <1>2, <1>3 DEF Answered
  <2> QED BY <1>3, <2>1 DEF Promised
<1>4. ASSUME NEW i, NEW m, Joined!Regroup(i, m)
      PROVE  Promised(todo, todo', all, all, EmittedIds, EmittedIds')
  BY <1>3, <1>4 DEF Joined!Regroup, Joined!Listing
<1>5. CASE Joined!ListPage \/ Joined!DenyPage \/ Joined!EndListing
  <2>1. UNCHANGED <<todo, emitted, result>> /\ result = "running" /\ warnings \subseteq warnings'
    BY <1>5 DEF Joined!ListPage, Joined!DenyPage, Joined!EndListing, Joined!Listing
  <2> QED BY <1>3, <2>1
<1>6. CASE Joined!Join
  <2>1. todo = {} /\ emitted' = emitted /\ result = "running" /\ result' = result
        /\ warnings \subseteq warnings'
    BY <1>6 DEF Joined!Join, JoinedInv, JoinedOut
  <2>2. Answered(todo, todo', all, EmittedIds, EmittedIds', {}, {})
    BY <1>1, <1>2, <2>1 DEF Answered
  <2> QED BY <2>2 DEF Promised
<1>7. CASE Joined!Emit
  <2> DEFINE x == Joined!Min(todo)
             new == [id |-> x, nodes |-> Joined!Nodes(x)]
  <2>1. /\ todo # {} /\ result = "running" /\ result' = result /\ todo' = todo \ {x}
        /\ emitted' = emitted \cup {new} /\ warnings \subseteq warnings'
    BY <1>7 DEF Joined!Emit
  <2>2. x \in todo
    BY <2>1, <1>7, ToEmitIs, LeastIn DEF Joined!Emit
  <2>3. new.id = x
    OBVIOUS
  <2> HIDE DEF x, new
  <2>4. EmittedIds' = EmittedIds \cup {x}
    BY <2>1, <2>3 DEF EmittedIds
  <2>5. Answered(todo, todo', all, EmittedIds, EmittedIds', {x}, {})
    BY <1>1, <2>1, <2>2, <2>4 DEF Answered
  <2> QED BY <2>2, <2>5 DEF Promised
<1>8. CASE Joined!Return
  <2>1. /\ result = "running" /\ result' = "nil" /\ todo = {} /\ todo' = todo
        /\ emitted' = emitted /\ warnings' = warnings
    BY <1>8 DEF Joined!Return
  <2>2. Answered(todo, todo', all, EmittedIds, EmittedIds', {}, {})
    BY <1>1, <1>2, <2>1 DEF Answered
  <2> QED BY <2>2 DEF Promised
<1>9. CASE Joined!Fail \/ Joined!Done
  <2>1. /\ todo' = todo /\ emitted' = emitted /\ warnings' = warnings
        /\ result' = result \/ (result = "running" /\ result' = "error")
    BY <1>9 DEF Joined!Fail, Joined!Listing, Joined!Done, Joined!vars
  <2>2. Unmoved(todo, todo', all, all, EmittedIds, EmittedIds')
    BY <1>2, <2>1 DEF Unmoved
  <2> QED BY <2>2 DEF Promised
<1> QED BY <1>4, <1>5, <1>6, <1>7, <1>8, <1>9 DEF Joined!Next
\* What ECS owes: clusters that are not emitted yet, services in hand and task
\* definitions learnt of.
LEMMA EcsOwedIs ==
  \A x : x \in Ecs!Owed <=> \/ x \notin emitted /\ \E c \in arns \cup described : x = Ecs!Cluster(c)
                            \/ \E n \in names : x = Ecs!Service(Ecs!Current, n)
                            \/ x \in taskDefs
BY DEF Ecs!Owed

\* None of it has been answered for.
LEMMA EcsOwes == EcsInv => Ecs!Owed \cap (emitted \cup lost) = {}
<1> SUFFICES ASSUME EcsInv, NEW x \in Ecs!Owed PROVE x \notin emitted \cup lost
  OBVIOUS
<1>1. CASE x \notin emitted /\ \E c \in arns \cup described : x = Ecs!Cluster(c)
  <2>1. PICK c \in arns \cup described : x = Ecs!Cluster(c)
    BY <1>1
  <2>2. CASE c \in Waiting
    BY <2>1, <2>2 DEF EcsInv, EcsHeld
  <2>3. CASE Turn /\ c = Ecs!Current
    <3>1. Ecs!Cluster(Ecs!Current) \in emitted
      BY <2>3 DEF EcsInv, EcsHeld
    <3> QED BY <1>1, <2>1, <2>3, <3>1
  <2> QED BY <2>2, <2>3 DEF Waiting
<1>2. CASE \E n \in names : x = Ecs!Service(Ecs!Current, n)
  <2>1. Turn
    BY <1>2 DEF EcsInv, EcsShape
  <2> QED BY <1>2, <2>1 DEF EcsInv, EcsHeld
<1>3. CASE x \in taskDefs
  BY <1>3 DEF EcsInv, EcsHeld
<1> QED BY <1>1, <1>2, <1>3, EcsOwedIs

\* The same facts after a step.
LEMMA EcsOwesNext ==
  /\ EcsInv' => Ecs!Owed' \cap (emitted' \cup lost') = {}
  /\ \A x : x \in Ecs!Owed' <=>
       \/ x \notin emitted' /\ \E c \in arns' \cup described' : x = Ecs!Cluster(c)
       \/ \E n \in names' : x = Ecs!Service(Ecs!Current', n)
       \/ x \in taskDefs'
<1>1. (EcsInv => Ecs!Owed \cap (emitted \cup lost) = {})'
  BY EcsOwes, PTL
<1>2. \A x : x \in Ecs!Owed' <=>
       \/ x \notin emitted' /\ \E c \in arns' \cup described' : x = Ecs!Cluster(c)
       \/ \E n \in names' : x = Ecs!Service(Ecs!Current', n)
       \/ x \in taskDefs'
  BY DEF Ecs!Owed
<1> QED BY <1>1, <1>2
\* ECS: each answer moves a cluster, a batch or a task definition out of what is owed.
LEMMA EcsPromises ==
  ASSUME EcsInv, EcsInv', Ecs!Next
  PROVE  Promised(Ecs!Owed, Ecs!Owed', alive, alive', emitted, emitted')
<1> USE DEF Ecs!lists
<1> DEFINE Kept == Promised(Ecs!Owed, Ecs!Owed', alive, alive', emitted, emitted')
<1>1. Ecs!Owed' \cap (emitted' \cup lost') = {} /\ Ecs!Owed \cap (emitted \cup lost) = {}
  BY EcsOwes, EcsOwesNext
<1>2. ASSUME NEW done \in SUBSET Ecs!Owed, emitted' = emitted \cup done,
              \A x \in Ecs!Owed : x \in Ecs!Owed' \/ x \in done \/ x \notin alive,
              warnings \subseteq warnings', UNCHANGED <<alive, lost, result>>, result = "running"
       PROVE  Kept
  <2>1. Answered(Ecs!Owed, Ecs!Owed', alive, emitted, emitted', done, {})
    BY <1>1, <1>2 DEF Answered
  <2> QED BY <1>2, <2>1 DEF Promised
<1>16. ASSUME NEW missed \in SUBSET Ecs!Owed, lost' = lost \cup missed,
              \A x \in Ecs!Owed : x \in Ecs!Owed' \/ x \in missed,
              warnings \subseteq warnings', missed # {} => warnings' # {},
              UNCHANGED <<alive, emitted>>, result = "running",
              result' = "running" \/ (result' = "nil" /\ Ecs!Owed' = {})
       PROVE  Kept
  <2>1. Answered(Ecs!Owed, Ecs!Owed', alive, emitted, emitted', {}, missed)
    BY <1>1, <1>16 DEF Answered
  <2> QED BY <1>16, <2>1 DEF Promised
<1>17. ASSUME \A x \in Ecs!Owed : x \in Ecs!Owed' \/ x \notin alive,
              warnings \subseteq warnings', UNCHANGED <<alive, emitted, lost>>, result = "running",
              result' = "running" \/ (result' = "nil" /\ Ecs!Owed' = {})
       PROVE  Kept
  <2>1. Answered(Ecs!Owed, Ecs!Owed', alive, emitted, emitted', {}, {})
    BY <1>1, <1>17 DEF Answered
  <2> QED BY <1>17, <2>1 DEF Promised
<1>3. UNCHANGED <<arns, described, names, taskDefs, emitted>> => Ecs!Owed' = Ecs!Owed
  BY DEF Ecs!Owed, Ecs!Current
<1>4. ASSUME NEW answer, Ecs!End(answer), result = "running"
      PROVE  Kept
  <2>1. Unmoved(Ecs!Owed, Ecs!Owed', alive, alive', emitted, emitted')
    BY <1>3, <1>4 DEF Ecs!End, Unmoved
  <2> QED BY <2>1 DEF Promised
<1>5. ASSUME NEW x, Ecs!Delete(x) PROVE Kept
  <2>1. Unmoved(Ecs!Owed, Ecs!Owed', alive, alive', emitted, emitted')
    BY <1>3, <1>5 DEF Ecs!Delete, Unmoved
  <2> QED BY <2>1 DEF Promised
<1>6. CASE Ecs!ListClusters
  <2>1. /\ at = "clusters" /\ result = "running" /\ described = {} /\ names = {}
        /\ emitted = {} /\ lost = {} /\ taskDefs = {}
    BY <1>6 DEF Ecs!ListClusters, Ecs!Asks, EcsInv, EcsShape, Turn
  <2>2. CASE /\ arns \subseteq arns' /\ alive' = alive /\ result' = result
             /\ UNCHANGED <<described, names, taskDefs, emitted, lost, warnings>>
    <3>1. Ecs!Owed \subseteq Ecs!Owed'
      BY <2>1, <2>2, EcsOwedIs, EcsOwesNext
    <3> QED BY <1>17, <2>1, <2>2, <3>1
  <2>3. CASE /\ result' = "nil" /\ lost' = {Ecs!Cluster(c) : c \in arns} /\ arns' = {}
             /\ warnings' = warnings \cup {NotListed}
             /\ UNCHANGED <<alive, described, names, taskDefs, emitted>>
    <3>1. Ecs!Owed' = {}
      BY <2>1, <2>3, EcsOwesNext
    <3>2. Ecs!Owed = {Ecs!Cluster(c) : c \in arns}
      BY <2>1, EcsOwedIs
    <3>3. lost' = lost \cup Ecs!Owed
      BY <2>1, <2>3, <3>2
    <3> QED BY <1>16, <2>1, <2>3, <3>1, <3>3
  <2>4. \/ /\ arns \subseteq arns' /\ alive' = alive /\ result' = result
           /\ UNCHANGED <<described, names, taskDefs, emitted, lost, warnings>>
        \/ /\ result' = "nil" /\ lost' = {Ecs!Cluster(c) : c \in arns} /\ arns' = {}
           /\ warnings' = warnings \cup {NotListed}
           /\ UNCHANGED <<alive, described, names, taskDefs, emitted>>
        \/ \E answer : Ecs!End(answer)
    BY <1>6 DEF Ecs!ListClusters, NotListed
  <2> QED BY <1>4, <2>1, <2>2, <2>3, <2>4
<1>7. CASE Ecs!DescribeClusters
  <2>1. result = "running" /\ described = {} /\ names = {} /\ Waiting = arns
    BY <1>7 DEF Ecs!DescribeClusters, Ecs!Asks, EcsInv, EcsShape, Turn, Waiting
  <2>2. ASSUME NEW batch \in SUBSET arns, arns' = arns \ batch,
               described' = {c \in batch : Ecs!Cluster(c) \in alive}, warnings \subseteq warnings',
               UNCHANGED <<alive, names, taskDefs, emitted, lost, result>>
        PROVE  Kept
    <3>1. ASSUME NEW x \in Ecs!Owed PROVE x \in Ecs!Owed' \/ x \notin alive
      <4>1. CASE x \in taskDefs
        BY <2>2, <4>1, EcsOwesNext
      <4>2. CASE x \notin emitted /\ \E c \in arns : x = Ecs!Cluster(c)
        <5>1. PICK c \in arns : x = Ecs!Cluster(c)
          BY <4>2
        <5>2. x \notin alive \/ c \in arns' \cup described'
          BY <2>2, <5>1
        <5> QED BY <2>2, <4>2, <5>1, <5>2, EcsOwesNext
      <4> QED BY <2>1, <3>1, <4>1, <4>2, EcsOwedIs
    <3> QED BY <1>17, <2>1, <2>2, <3>1
  <2>3. ASSUME NEW batch \in SUBSET arns, arns' = arns \ batch,
               lost' = lost \cup {Ecs!Cluster(c) : c \in batch},
               warnings' = warnings \cup {Ecs!Cluster(c) : c \in batch},
               UNCHANGED <<alive, described, names, taskDefs, emitted, result>>
        PROVE  Kept
    <3> DEFINE missed == {Ecs!Cluster(c) : c \in batch}
    <3>1. \A c \in arns : Ecs!Cluster(c) \notin emitted
      BY <2>1 DEF EcsInv, EcsHeld
    <3>2. missed \subseteq Ecs!Owed
      BY <2>3, <3>1, EcsOwedIs
    <3>3. \A x \in Ecs!Owed : x \in Ecs!Owed' \/ x \in missed
      <4> SUFFICES ASSUME NEW x \in Ecs!Owed PROVE x \in Ecs!Owed' \/ x \in missed
        OBVIOUS
      <4>1. CASE x \in taskDefs
        BY <2>3, <4>1, EcsOwesNext
      <4>2. CASE x \notin emitted /\ \E c \in arns : x = Ecs!Cluster(c)
        BY <2>3, <4>2, EcsOwesNext
      <4> QED BY <2>1, <4>1, <4>2, EcsOwedIs
    <3>4. lost' = lost \cup missed /\ warnings' = warnings \cup missed
      BY <2>3
    <3> HIDE DEF missed
    <3>5. warnings \subseteq warnings' /\ (missed # {} => warnings' # {})
      BY <3>4
    <3> QED BY <1>16, <2>1, <2>3, <3>2, <3>3, <3>4, <3>5
  <2>4. CASE \E answer : Ecs!End(answer)
    BY <1>4, <2>1, <2>4
  <2> QED BY <1>7, <2>2, <2>3, <2>4 DEF Ecs!DescribeClusters, Ecs!Batches
<1>8. CASE Ecs!EmitCluster
  <2>1. PICK k : k = Ecs!Current
    OBVIOUS
  <2>2. /\ result = "running" /\ described # {} /\ names = {} /\ ~Turn
        /\ k \in described /\ k \in Waiting /\ emitted' = emitted \cup {Ecs!Cluster(k)}
        /\ UNCHANGED <<alive, arns, described, names, taskDefs, lost, warnings, result>>
    BY <1>8, <2>1, EcsCurrent DEF Ecs!EmitCluster, Ecs!Asks, EcsInv, EcsShape, Turn, Waiting
  <2>3. Ecs!Cluster(k) \in Ecs!Owed
    BY <2>2, EcsOwedIs DEF EcsInv, EcsHeld
  <2>4. \A x \in Ecs!Owed : x \in Ecs!Owed' \/ x \in {Ecs!Cluster(k)}
    BY <2>2, EcsOwedIs, EcsOwesNext
  <2> QED BY <1>2, <2>2, <2>3, <2>4
<1>9. CASE Ecs!ListServices
  <2>1. PICK k : k = Ecs!Current
    OBVIOUS
  <2>2. result = "running" /\ Turn /\ Ecs!Cluster(k) \in emitted
    BY <1>9, <2>1 DEF Ecs!ListServices, Ecs!Asks, EcsInv, EcsHeld, Turn
  <2>3. CASE /\ names \subseteq names'
             /\ UNCHANGED <<alive, arns, described, taskDefs, emitted, lost, warnings, result>>
    <3>1. Ecs!Current' = Ecs!Current
      BY <2>3 DEF Ecs!Current
    <3>2. Ecs!Owed \subseteq Ecs!Owed'
      BY <2>3, <3>1, EcsOwedIs, EcsOwesNext
    <3> QED BY <1>17, <2>2, <2>3, <3>2
  <2>4. CASE /\ described' = described \ {k} /\ lost' = lost \cup {Ecs!Service(k, n) : n \in names}
             /\ names' = {} /\ warnings' = warnings \cup {<<"ListServices", k, "">>}
             /\ UNCHANGED <<alive, arns, taskDefs, emitted, result>>
    <3> DEFINE missed == {Ecs!Service(k, n) : n \in names}
    <3>1. missed \subseteq Ecs!Owed
      BY <2>1, EcsOwedIs
    <3>2. \A x \in Ecs!Owed : x \in Ecs!Owed' \/ x \in missed
      <4> SUFFICES ASSUME NEW x \in Ecs!Owed PROVE x \in Ecs!Owed' \/ x \in missed
        OBVIOUS
      <4>1. CASE x \in taskDefs
        BY <2>4, <4>1, EcsOwesNext
      <4>2. CASE x \notin emitted /\ \E c \in arns \cup described : x = Ecs!Cluster(c)
        <5>1. PICK c \in arns \cup described : x = Ecs!Cluster(c)
          BY <4>2
        <5>2. c # k
          BY <2>2, <4>2, <5>1
        <5>3. c \in arns' \cup described' /\ x \notin emitted'
          BY <2>4, <4>2, <5>2
        <5> QED BY <5>1, <5>3, EcsOwesNext
      <4>3. CASE \E n \in names : x = Ecs!Service(Ecs!Current, n)
        BY <2>1, <4>3
      <4> QED BY <4>1, <4>2, <4>3, EcsOwedIs
    <3>3. lost' = lost \cup missed
      BY <2>4
    <3> HIDE DEF missed
    <3>4. warnings \subseteq warnings' /\ warnings' # {}
      BY <2>4
    <3> QED BY <1>16, <2>2, <2>4, <3>1, <3>2, <3>3, <3>4
  <2>5. \/ /\ names \subseteq names'
           /\ UNCHANGED <<alive, arns, described, taskDefs, emitted, lost, warnings, result>>
        \/ /\ described' = described \ {k} /\ lost' = lost \cup {Ecs!Service(k, n) : n \in names}
           /\ names' = {} /\ warnings' = warnings \cup {<<"ListServices", k, "">>}
           /\ UNCHANGED <<alive, arns, taskDefs, emitted, result>>
        \/ \E answer : Ecs!End(answer)
    BY <1>9, <2>1 DEF Ecs!ListServices
  <2> QED BY <1>4, <2>2, <2>3, <2>4, <2>5
<1>10. CASE Ecs!DescribeServices
  <2>1. PICK k : k = Ecs!Current
    OBVIOUS
  <2>2. result = "running"
    BY <1>10 DEF Ecs!DescribeServices, Ecs!Asks
  <2>3. ASSUME NEW some \in SUBSET names, names' = names \ some,
               UNCHANGED <<arns, described>>, taskDefs \subseteq taskDefs',
               emitted \subseteq emitted', emitted' \cap Ecs!Clusters = emitted \cap Ecs!Clusters
        PROVE  /\ {Ecs!Service(k, n) : n \in some} \subseteq Ecs!Owed
               /\ \A x \in Ecs!Owed : x \in Ecs!Owed' \/ x \in {Ecs!Service(k, n) : n \in some}
    <3>1. Ecs!Current' = k
      BY <2>1, <2>3 DEF Ecs!Current
    <3>2. {Ecs!Service(k, n) : n \in some} \subseteq Ecs!Owed
      BY <2>1, <2>3, EcsOwedIs
    <3>3. ASSUME NEW x \in Ecs!Owed
          PROVE  x \in Ecs!Owed' \/ x \in {Ecs!Service(k, n) : n \in some}
      <4>1. CASE x \in taskDefs
        BY <2>3, <4>1, EcsOwesNext
      <4>2. CASE x \notin emitted /\ \E c \in arns \cup described : x = Ecs!Cluster(c)
        <5>1. PICK c \in arns \cup described : x = Ecs!Cluster(c)
          BY <4>2
        <5>2. x \in Ecs!Clusters
          BY <5>1, EcsNames DEF EcsInv, EcsShape
        <5>3. x \notin emitted'
          BY <2>3, <4>2, <5>2
        <5> QED BY <2>3, <5>1, <5>3, EcsOwesNext
      <4>3. CASE \E n \in names : x = Ecs!Service(Ecs!Current, n)
        <5>1. PICK n \in names : x = Ecs!Service(k, n)
          BY <2>1, <4>3
        <5> QED BY <2>3, <3>1, <5>1, EcsOwesNext
      <4> QED BY <4>1, <4>2, <4>3, EcsOwedIs
    <3> QED BY <3>2, <3>3
  <2>4. ASSUME NEW some \in SUBSET names, names' = names \ some,
               emitted' = emitted \cup ({Ecs!Service(k, n) : n \in some} \cap alive),
               taskDefs \subseteq taskDefs', warnings \subseteq warnings',
               UNCHANGED <<alive, arns, described, lost, result>>
        PROVE  Kept
    <3> DEFINE batch == {Ecs!Service(k, n) : n \in some}
    <3>1. batch \cap Ecs!Clusters = {}
      BY EcsNames
    <3>2. /\ batch \subseteq Ecs!Owed
          /\ \A x \in Ecs!Owed : x \in Ecs!Owed' \/ x \in batch
      BY <2>3, <2>4, <3>1
    <3>3. emitted' = emitted \cup (batch \cap alive)
      BY <2>4
    <3> HIDE DEF batch
    <3>4. /\ batch \cap alive \subseteq Ecs!Owed
          /\ \A x \in Ecs!Owed : x \in Ecs!Owed' \/ x \in batch \cap alive \/ x \notin alive
      BY <2>4, <3>2
    <3> QED BY <1>2, <2>2, <2>4, <3>3, <3>4
  <2>5. ASSUME NEW some \in SUBSET names, names' = names \ some,
               lost' = lost \cup {Ecs!Service(k, n) : n \in some},
               warnings' = warnings \cup {Ecs!Service(k, n) : n \in some},
               UNCHANGED <<alive, arns, described, taskDefs, emitted, result>>
        PROVE  Kept
    <3> DEFINE batch == {Ecs!Service(k, n) : n \in some}
    <3>1. /\ batch \subseteq Ecs!Owed
          /\ \A x \in Ecs!Owed : x \in Ecs!Owed' \/ x \in batch
      BY <2>3, <2>5
    <3>2. lost' = lost \cup batch /\ warnings' = warnings \cup batch
      BY <2>5
    <3> HIDE DEF batch
    <3>3. warnings \subseteq warnings' /\ (batch # {} => warnings' # {})
      BY <3>2
    <3> QED BY <1>16, <2>2, <2>5, <3>1, <3>2, <3>3
  <2>6. CASE \E answer : Ecs!End(answer)
    BY <1>4, <2>2, <2>6
  <2>7. PICK some \in SUBSET names : \E answer :
          LET batch == {Ecs!Service(k, n) : n \in some}
              found == batch \cap alive IN
          \/ /\ names' = names \ some /\ emitted' = emitted \cup found
             /\ taskDefs' = taskDefs \cup Ecs!Learn(found)
             /\ warnings' = warnings \cup (batch \ found)
             /\ UNCHANGED <<alive, arns, described, lost, result>>
          \/ /\ names' = names \ some /\ lost' = lost \cup batch /\ warnings' = warnings \cup batch
             /\ UNCHANGED <<alive, arns, described, taskDefs, emitted, result>>
          \/ Ecs!End(answer)
    BY <1>10, <2>1 DEF Ecs!DescribeServices, Ecs!Batches
  <2> QED BY <2>4, <2>5, <2>6, <2>7
<1>11. CASE Ecs!NextCluster
  <2>1. PICK k : k = Ecs!Current
    OBVIOUS
  <2>2. /\ result = "running" /\ names = {} /\ described' = described \ {k}
        /\ Ecs!Cluster(k) \in emitted
        /\ UNCHANGED <<alive, arns, names, taskDefs, emitted, lost, warnings, result>>
    BY <1>11, <2>1 DEF Ecs!NextCluster, Ecs!Asks, EcsInv, EcsHeld, Turn
  <2>3. ASSUME NEW x \in Ecs!Owed PROVE x \in Ecs!Owed'
    <3>1. CASE x \in taskDefs
      BY <2>2, <3>1, EcsOwesNext
    <3>2. CASE x \notin emitted /\ \E c \in arns \cup described : x = Ecs!Cluster(c)
      <4>1. PICK c \in arns \cup described : x = Ecs!Cluster(c)
        BY <3>2
      <4>2. c \in arns' \cup described' /\ x \notin emitted'
        BY <2>2, <3>2, <4>1
      <4> QED BY <4>1, <4>2, EcsOwesNext
    <3> QED BY <2>2, <3>1, <3>2, EcsOwedIs
  <2> QED BY <1>17, <2>2, <2>3
<1>12. CASE Ecs!Definitions
  <2>1. /\ result = "running"
        /\ UNCHANGED <<alive, arns, described, names, taskDefs, emitted, lost, warnings, result>>
    BY <1>12 DEF Ecs!Definitions, Ecs!Asks
  <2> QED BY <1>3, <1>17, <2>1
<1>13. ASSUME NEW d \in Ecs!TaskDefs, Ecs!DescribeTaskDefinition(d) PROVE Kept
  <2>1. result = "running" /\ d \in taskDefs /\ d \in Ecs!Owed /\ arns = {} /\ described = {}
        /\ names = {}
    BY <1>13, EcsOwedIs DEF Ecs!DescribeTaskDefinition, Ecs!Asks, EcsInv, EcsShape, Turn
  <2>2. ASSUME taskDefs' = taskDefs \ {d}, UNCHANGED <<arns, described, names>>
        PROVE  \A x \in Ecs!Owed : x \in Ecs!Owed' \/ x = d
    BY <2>1, <2>2, EcsOwedIs, EcsOwesNext
  <2>3. CASE /\ taskDefs' = taskDefs \ {d} /\ emitted' = emitted \cup {d}
             /\ UNCHANGED <<alive, arns, described, names, lost, warnings, result>>
    <3>1. \A x \in Ecs!Owed : x \in Ecs!Owed' \/ x \in {d}
      BY <2>2, <2>3
    <3> QED BY <1>2, <2>1, <2>3, <3>1
  <2>4. CASE /\ taskDefs' = taskDefs \ {d} /\ lost' = lost \cup {d}
             /\ warnings' = warnings \cup {d}
             /\ UNCHANGED <<alive, arns, described, names, emitted, result>>
    <3>1. \A x \in Ecs!Owed : x \in Ecs!Owed' \/ x \in {d}
      BY <2>2, <2>4
    <3> QED BY <1>16, <2>1, <2>4, <3>1
  <2>5. CASE \E answer : Ecs!End(answer)
    BY <1>4, <2>1, <2>5
  <2> QED BY <1>13, <2>3, <2>4, <2>5 DEF Ecs!DescribeTaskDefinition
<1>14. CASE Ecs!Return
  <2>1. /\ result = "running" /\ result' = "nil" /\ arns = {} /\ described = {}
        /\ names = {} /\ taskDefs = {}
        /\ UNCHANGED <<alive, arns, described, names, taskDefs, emitted, lost, warnings>>
    BY <1>14 DEF Ecs!Return, Ecs!Asks, EcsInv, EcsShape, Turn
  <2>2. Ecs!Owed' = {} /\ Ecs!Owed = {}
    BY <2>1, EcsOwedIs, EcsOwesNext
  <2> QED BY <1>17, <2>1, <2>2
<1>15. CASE Ecs!Done
  <2>1. Unmoved(Ecs!Owed, Ecs!Owed', alive, alive', emitted, emitted')
    BY <1>3, <1>15 DEF Ecs!Done, Ecs!vars, Unmoved
  <2> QED BY <2>1 DEF Promised
<1> QED BY <1>5, <1>6, <1>7, <1>8, <1>9, <1>10, <1>11, <1>12, <1>13, <1>14, <1>15 DEF Ecs!Next
-----------------------------------------------------------------------------
(* The collectors together. *)

CollectorsInv ==
  /\ EachRuns => EachInv
  /\ IamRuns => IamInv
  /\ EcsRuns => EcsInv
  /\ JoinedRuns => JoinedInv /\ lost = {}

\* One collector runs, and stays the one that runs.
LEMMA OneRuns ==
  /\ EachRuns => ~IamRuns /\ ~EcsRuns /\ ~JoinedRuns
  /\ IamRuns => ~EachRuns /\ ~EcsRuns /\ ~JoinedRuns
  /\ EcsRuns => ~EachRuns /\ ~IamRuns /\ ~JoinedRuns
  /\ JoinedRuns => ~EachRuns /\ ~IamRuns /\ ~EcsRuns
BY DEF EachRuns, IamRuns, EcsRuns, JoinedRuns, Each!Rows

\* No step changes which collector runs.
LEMMA SameRuns ==
  ASSUME Next \/ UNCHANGED vars
  PROVE  /\ service' = service
         /\ EachRuns' = EachRuns /\ IamRuns' = IamRuns
         /\ EcsRuns' = EcsRuns /\ JoinedRuns' = JoinedRuns
<1>1. Each!Next => service' = service
  BY DEF Each!Next, Each!Delete, Each!ListPage, Each!DenyPage, Each!Ok, Each!Denied, Each!NotFound,
         Each!Emit, Each!Fail, Each!Turn, Each!Done, Each!vars
<1>2. Joined!Next => service' = service
  BY DEF Joined!Next, Joined!Regroup, Joined!ListPage, Joined!DenyPage, Joined!EndListing,
         Joined!Join, Joined!Emit, Joined!Fail, Joined!Return, Joined!Done, Joined!vars
<1>3. service' = service
  BY <1>1, <1>2 DEF Next, vars
<1> QED BY <1>3 DEF EachRuns, IamRuns, EcsRuns, JoinedRuns

\* It holds in every state of every collector.
THEOREM Inductive == Spec => []CollectorsInv
<1>1. Init => CollectorsInv
  <2>1. Each!Init => EachRuns
    BY DEF Each!Init, EachRuns
  <2>2. Joined!Init => JoinedRuns
    BY DEF Joined!Init, JoinedRuns
  <2> QED BY <2>1, <2>2, OneRuns, EachBegins, IamBegins, EcsBegins, JoinedBegins
      DEF Init, CollectorsInv, IamRuns, EcsRuns
<1>2. CollectorsInv /\ [Next]_vars => CollectorsInv'
  <2> SUFFICES ASSUME CollectorsInv, Next \/ UNCHANGED vars PROVE CollectorsInv'
    OBVIOUS
  <2>1. CASE Next
    <3>1. CASE EachRuns
      <4>1. Each!Next
        BY <2>1, <3>1, OneRuns DEF Next
      <4>2. EachInv
        BY <3>1 DEF CollectorsInv
      <4>3. EachInv'
        BY <4>1, <4>2, EachSteps
      <4>4. ~IamRuns' /\ ~EcsRuns' /\ ~JoinedRuns'
        BY <3>1, <2>1, OneRuns, SameRuns
      <4> QED BY <4>3, <4>4 DEF CollectorsInv
    <3>2. CASE IamRuns
      <4>1. Iam!Next
        BY <2>1, <3>2, OneRuns DEF Next
      <4>2. IamInv
        BY <3>2 DEF CollectorsInv
      <4>3. IamInv'
        BY <4>1, <4>2, IamSteps
      <4>4. ~EachRuns' /\ ~EcsRuns' /\ ~JoinedRuns'
        BY <3>2, <2>1, OneRuns, SameRuns
      <4> QED BY <4>3, <4>4 DEF CollectorsInv
    <3>3. CASE EcsRuns
      <4>1. Ecs!Next
        BY <2>1, <3>3, OneRuns DEF Next
      <4>2. EcsInv
        BY <3>3 DEF CollectorsInv
      <4>3. EcsInv'
        BY <4>1, <4>2, EcsSteps
      <4>4. ~EachRuns' /\ ~IamRuns' /\ ~JoinedRuns'
        BY <3>3, <2>1, OneRuns, SameRuns
      <4> QED BY <4>3, <4>4 DEF CollectorsInv
    <3>4. CASE JoinedRuns
      <4>1. Joined!Next
        BY <2>1, <3>4, OneRuns DEF Next
      <4>2. JoinedInv /\ lost = {}
        BY <3>4 DEF CollectorsInv
      <4>3. JoinedInv' /\ lost' = {}
        BY <2>1, <3>4, <4>1, <4>2, OneRuns, JoinedSteps DEF Next
      <4>4. ~EachRuns' /\ ~IamRuns' /\ ~EcsRuns'
        BY <3>4, <2>1, OneRuns, SameRuns
      <4> QED BY <4>3, <4>4 DEF CollectorsInv
    <3> QED BY <2>1, <3>1, <3>2, <3>3, <3>4 DEF Next
  <2>2. CASE UNCHANGED vars
    <3>1. /\ UNCHANGED <<service, alive, page, todo, at, names, step, lacks, unread>>
          /\ UNCHANGED <<role, spec, policies, arns, described, taskDefs>>
          /\ UNCHANGED <<group, touched, next, saw, sawGroup, emitted, lost, warnings, result>>
      BY <2>2 DEF vars, ofEach, ofIam, ofEcs, ofMembers
    <3>2. EachInv => EachInv'
      BY <3>1, EachEnds DEF Each!reading
    <3>3. IamInv => IamInv'
      BY <3>1, IamEnds DEF Iam!acct
    <3>4. EcsInv => EcsInv'
      BY <3>1, EcsEnds
    <3>5. JoinedInv => JoinedInv'
      BY <3>1, JoinedEnds
    <3> QED BY <2>2, <3>1, <3>2, <3>3, <3>4, <3>5, SameRuns DEF CollectorsInv
  <2> QED BY <2>1, <2>2
<1> QED BY <1>1, <1>2, PTL DEF Spec

\* What a listing of the seven returned is read in full, or the inventory says so: only
\* what a denied call was about is missing, from the resource it was made for, and a
\* spec without it is marked.
THEOREM ReadsInFull == Spec => []ReadInFull
<1>1. CollectorsInv => ReadInFull
  BY EachIsComplete DEF CollectorsInv, EachInv, ReadInFull
<1> QED BY <1>1, Inductive, PTL

\* A role in the inventory is this account's, for the workloads that assume it, and has
\* every policy it still has or a mark, whatever is deleted while it is read.
THEOREM RolesStayWhole == Spec => []RolesAreWhole
<1>1. CollectorsInv => RolesAreWhole
  BY DEF CollectorsInv, IamInv, RolesAreWhole
<1> QED BY <1>1, Inductive, PTL

\* However the batches fall, a cluster or service that exists is in the inventory unless
\* a warning or a denied call accounts for it, and each service has its task definition.
THEOREM ServicesStayWhole == Spec => []ServicesAreWhole
<1>1. CollectorsInv => ServicesAreWhole
  BY EcsIs DEF CollectorsInv, ServicesAreWhole
<1> QED BY <1>1, Inductive, PTL

\* What stays where it is while three listings are made is joined and emitted once, a
\* denied listing of members costs none of them, and what is another engine's is
\* reported and never a node.
THEOREM JoinKeepsAll == Spec => []JoinLosesNothing
<1>1. CollectorsInv => JoinLosesNothing
  BY JoinedIs DEF CollectorsInv, JoinLosesNothing
<1> QED BY <1>1, Inductive, PTL

\* The names of clusters that make two ECS resources share an id: the ids of clusters
\* and of task definitions say "cluster" and "taskdef" where those of services have the
\* cluster's name.
NoClusterIsNamedAsAKind == {"cluster", "taskdef"} \cap AllClusters = {}

\* Without such a name, no two ECS resources ever share an id.
THEOREM IdsAreUnique == NoClusterIsNamedAsAKind => (Spec => []UniqueIds)
<1> SUFFICES ASSUME NoClusterIsNamedAsAKind PROVE Spec => []UniqueIds
  OBVIOUS
<1>1. CollectorsInv => UniqueIds
  <2> SUFFICES ASSUME EcsInv, NEW x \in emitted, NEW y \in emitted, Ecs!Id(x) = Ecs!Id(y)
               PROVE  x = y
    BY DEF CollectorsInv, UniqueIds, Ecs!UniqueIds
  <2> DEFINE scope(z) == IF z[1] = "service" THEN z[2] ELSE z[1]
  <2>1. scope(x) = scope(y) /\ x[3] = y[3]
    BY DEF Ecs!Id
  <2>2. ASSUME NEW z \in emitted
        PROVE  \/ scope(z) = "cluster" /\ z = Ecs!Cluster(z[3])
               \/ scope(z) = "taskdef" /\ z = Ecs!TaskDef(z[3])
               \/ scope(z) \in AllClusters /\ z = Ecs!Service(scope(z), z[3])
    <3>1. z \in Ecs!Clusters \cup Ecs!Services \cup Ecs!TaskDefs
      BY DEF EcsInv, EcsShape
    <3>2. CASE z \in Ecs!Clusters
      <4>1. PICK c \in AllClusters : z = Ecs!Cluster(c)
        BY <3>2, EcsNames
      <4> QED BY <4>1, ClusterIs
    <3>3. CASE z \in Ecs!TaskDefs
      <4>1. PICK f : z = Ecs!TaskDef(f)
        BY <3>3 DEF Ecs!TaskDefs
      <4>2. z[1] = "taskdef" /\ z[3] = f
        BY <4>1 DEF Ecs!TaskDef
      <4> QED BY <4>1, <4>2
    <3>4. CASE z \in Ecs!Services
      <4>1. PICK c \in AllClusters : \E n \in AllServices(c) : z = Ecs!Service(c, n)
        BY <3>4, EcsNames
      <4>2. PICK n \in AllServices(c) : z = Ecs!Service(c, n)
        BY <4>1
      <4>3. z[1] = "service" /\ z[2] = c /\ z[3] = n
        BY <4>2, ServiceIs
      <4> QED BY <4>2, <4>3
    <3> QED BY <3>1, <3>2, <3>3, <3>4
  <2> HIDE DEF scope
  <2> QED BY <2>1, <2>2 DEF NoClusterIsNamedAsAKind
<1> QED BY <1>1, Inductive, PTL
\* Whatever collector runs, what it owes has not been answered for, and its step is one
\* the promise allows.
LEMMA StepsPromised ==
  ASSUME CollectorsInv, CollectorsInv', Next
  PROVE  /\ Owed \cap (Ids \cup lost) = {}
         /\ Promised(Owed, Owed', Existing, Existing', Ids, Ids')
<1> DEFINE Goal == /\ Owed \cap (Ids \cup lost) = {}
                   /\ Promised(Owed, Owed', Existing, Existing', Ids, Ids')
<1>1. CASE EachRuns
  <2>1. ~IamRuns /\ ~EcsRuns /\ ~JoinedRuns /\ EachRuns' /\ ~IamRuns' /\ ~EcsRuns' /\ ~JoinedRuns'
    BY <1>1, OneRuns, SameRuns
  <2>2. Each!Next /\ EachInv /\ EachInv'
    BY <1>1, <2>1 DEF Next, CollectorsInv
  <2>3. Owed = todo /\ Existing = alive /\ Ids = Each!Emitted
    BY <1>1, <2>1 DEF Owed, Existing, Ids, Each!Owed, Each!Emitted
  <2>4. Owed' = todo' /\ Existing' = alive' /\ Ids' = Each!Emitted'
    BY <2>1 DEF Owed, Existing, Ids, Each!Owed, Each!Emitted
  <2>5. todo \cap (Each!Emitted \cup lost) = {}
    BY <2>2 DEF EachInv, EachHeld
  <2> QED BY <2>2, <2>3, <2>4, <2>5, EachPromises
<1>2. CASE IamRuns
  <2>1. ~EachRuns /\ ~EcsRuns /\ ~JoinedRuns /\ IamRuns' /\ ~EachRuns' /\ ~EcsRuns' /\ ~JoinedRuns'
    BY <1>2, OneRuns, SameRuns
  <2>2. Iam!Next /\ IamInv /\ IamInv'
    BY <1>2, <2>1 DEF Next, CollectorsInv
  <2>3. Owed = Iam!Owed /\ Existing = alive \ Iam!Inline /\ Ids = Iam!Emitted
    BY <1>2, <2>1 DEF Owed, Existing, Ids, Iam!Emitted
  <2>4. Owed' = Iam!Owed' /\ Existing' = alive' \ Iam!Inline /\ Ids' = Iam!Emitted'
    BY <2>1 DEF Owed, Existing, Ids, Iam!Emitted
  <2>5. Iam!Owed \cap (Iam!Emitted \cup lost) = {}
    BY <2>2 DEF IamInv, IamHeld
  <2> QED BY <2>2, <2>3, <2>4, <2>5, IamPromises
<1>3. CASE EcsRuns
  <2>1. ~EachRuns /\ ~IamRuns /\ ~JoinedRuns /\ EcsRuns' /\ ~EachRuns' /\ ~IamRuns' /\ ~JoinedRuns'
    BY <1>3, OneRuns, SameRuns
  <2>2. Ecs!Next /\ EcsInv /\ EcsInv'
    BY <1>3, <2>1 DEF Next, CollectorsInv
  <2>3. Owed = Ecs!Owed /\ Existing = alive /\ Ids = emitted
    BY <1>3, <2>1 DEF Owed, Existing, Ids
  <2>4. Owed' = Ecs!Owed' /\ Existing' = alive' /\ Ids' = emitted'
    BY <2>1 DEF Owed, Existing, Ids
  <2> QED BY <2>2, <2>3, <2>4, EcsOwes, EcsPromises
<1>4. CASE JoinedRuns
  <2>1. ~EachRuns /\ ~IamRuns /\ ~EcsRuns /\ JoinedRuns' /\ ~EachRuns' /\ ~IamRuns' /\ ~EcsRuns'
    BY <1>4, OneRuns, SameRuns
  <2>2. Joined!Next /\ JoinedInv /\ JoinedInv' /\ lost = {} /\ lost' = {}
    BY <1>4, <2>1 DEF Next, CollectorsInv
  <2>3. PICK all : all = Items \cup Groups \cup Serverless
    OBVIOUS
  <2>4. Owed = todo /\ Existing = all /\ Ids = EmittedIds
    BY <1>4, <2>1, <2>3 DEF Owed, Existing, Ids, EmittedIds
  <2>5. Owed' = todo' /\ Existing' = all /\ Ids' = EmittedIds'
    BY <2>1, <2>3 DEF Owed, Existing, Ids, EmittedIds
  <2>6. todo \cap (EmittedIds \cup lost) = {}
    BY <2>2 DEF JoinedInv, JoinedOut
  <2> QED BY <2>2, <2>4, <2>5, <2>6, JoinedPromises
<1> QED BY <1>1, <1>2, <1>3, <1>4 DEF Next

\* Every collector keeps the promise: what it has learnt of is emitted once, given up
\* with a warning or found deleted, or the whole collector ends in an error, and it
\* returns nil owing nothing.
THEOREM PromiseKept == Spec => KeepsPromise
<1>1. Init => Promise!Init
  <2> SUFFICES ASSUME Init PROVE Promise!Init
    OBVIOUS
  <2>1. CASE Each!Init
    <3>1. EachRuns /\ todo = {} /\ emitted = {} /\ lost = {} /\ warnings = {} /\ result = "running"
      BY <2>1 DEF Each!Init, EachRuns
    <3> QED BY <3>1, OneRuns DEF Promise!Init, Owed, Ids, Each!Owed
  <2>2. CASE service = "IAM" /\ Iam!Init
    <3>1. IamRuns /\ todo = {} /\ role = 0 /\ policies = {} /\ emitted = {} /\ lost = {}
          /\ warnings = {} /\ result = "running"
      BY <2>2 DEF Iam!Init, IamRuns
    <3> QED BY <3>1, OneRuns DEF Promise!Init, Owed, Ids, Iam!Owed
  <2>3. CASE service = "ECS" /\ Ecs!Init
    <3>1. EcsRuns /\ arns = {} /\ described = {} /\ names = {} /\ taskDefs = {} /\ emitted = {}
          /\ lost = {} /\ warnings = {} /\ result = "running"
      BY <2>3 DEF Ecs!Init, EcsRuns
    <3> QED BY <3>1, OneRuns DEF Promise!Init, Owed, Ids, Ecs!Owed
  <2>4. CASE Joined!Init /\ lost = {}
    <3>1. JoinedRuns /\ todo = {} /\ emitted = {} /\ lost = {} /\ warnings = {} /\ result = "running"
      BY <2>4 DEF Joined!Init, JoinedRuns
    <3> QED BY <3>1, OneRuns DEF Promise!Init, Owed, Ids
  <2> QED BY <2>1, <2>2, <2>3, <2>4 DEF Init
<1>2. CollectorsInv /\ CollectorsInv' /\ [Next]_vars => [Promise!Next]_(Promise!vars)
  <2> SUFFICES ASSUME CollectorsInv, CollectorsInv', Next \/ UNCHANGED vars
               PROVE  Promise!Next \/ UNCHANGED Promise!vars
    OBVIOUS
  <2>1. CASE Next
    BY <2>1, StepsPromised, PromisedSteps
  <2>2. CASE UNCHANGED vars
    <3>1. /\ UNCHANGED <<service, alive, todo, role, policies, arns, described, names, taskDefs>>
          /\ UNCHANGED <<emitted, lost, warnings, result>>
      BY <2>2 DEF vars, ofEach, ofIam, ofEcs, ofMembers
    <3>2. /\ EachRuns' = EachRuns /\ IamRuns' = IamRuns /\ EcsRuns' = EcsRuns
          /\ JoinedRuns' = JoinedRuns
      BY <2>2, SameRuns
    <3>3. Each!Owed' = Each!Owed /\ Iam!Owed' = Iam!Owed /\ Ecs!Owed' = Ecs!Owed
      BY <3>1 DEF Each!Owed, Iam!Owed, Ecs!Owed, Ecs!Current
    <3>4. Owed' = Owed
      BY <3>1, <3>2, <3>3 DEF Owed
    <3>5. Existing' = Existing /\ Ids' = Ids
      BY <3>1, <3>2 DEF Existing, Ids
    <3> QED BY <3>1, <3>4, <3>5 DEF Promise!vars
  <2> QED BY <2>1, <2>2
<1> QED BY <1>1, <1>2, Inductive, PTL DEF Spec, KeepsPromise, Promise!Spec
=============================================================================
