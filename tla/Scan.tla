-------------------------------- MODULE Scan --------------------------------
(***************************************************************************)
(* Registry.Scan: collectors run in two phases under one concurrency       *)
(* bound, report into a mutex-protected sink, and the result is normalized *)
(* and refused if two resources claim one id.                              *)
(*                                                                         *)
(* A collector is what its interface says it is: it issues API calls one   *)
(* after the other, emits what each answer holds, and turns a failing call *)
(* into a warning or gives up (warnOrFail).  Which calls an account makes  *)
(* it issue is data: Starts, Reveals, Yields and Needs describe a tree of  *)
(* calls (a list call reveals the describe calls of what it listed).       *)
(* Calls are numbered in the order their collector issues them.            *)
(***************************************************************************)
EXTENDS Ordering

CONSTANTS
  NumCollectors,  \* len(r.collectors)
  NumDependents,  \* len(r.dependents)
  Requested,      \* opts.Concurrency as the caller gave it
  Ids,            \* resource ids, numbered in the order Normalize sorts them
  Calls,          \* API calls, numbered
  Owner,          \* Owner[c]: the goroutine that issues c
  Starts,         \* calls a collector issues unprompted
  Needs,          \* Needs[c]: ids a dependent must find in prior to issue c
  Reveals,        \* Reveals[c]: calls issued only once c has answered
  Yields          \* Yields[c]: ids of the resources emitted from c's answer

Collectors == 1 .. NumCollectors
Dependents == (NumCollectors + 1) .. (NumCollectors + NumDependents)
Workers    == 1 .. (NumCollectors + NumDependents)

ASSUME CountAssumption ==
  NumCollectors \in Nat /\ NumDependents \in Nat /\ Requested \in Int

ASSUME CallAssumption ==
  /\ IsFiniteSet(Calls) /\ Calls \subseteq Nat \ {0}
  /\ Ids \subseteq Nat
  /\ Owner \in [Calls -> Workers]
  /\ Starts \subseteq Calls
  /\ Needs \in [Calls -> SUBSET Ids]
  /\ Yields \in [Calls -> SUBSET Ids]
  /\ Reveals \in [Calls -> SUBSET Calls]

\* A call reveals later calls of its own collector, and only a dependent's
\* first calls wait for what phase 1 found.
ASSUME OrderAssumption ==
  \A c \in Calls :
    /\ \A d \in Reveals[c] : d > c /\ Owner[d] = Owner[c] /\ d \notin Starts
    /\ Needs[c] # {} => Owner[c] \in Dependents /\ c \in Starts

\* make(chan struct{}, opts.Concurrency), after the default.
Capacity == IF Requested <= 0 THEN 8 ELSE Requested

NoOp == 0   \* the empty Op of a warning runPhase records

\* What an API call can answer, as warnOrFail tells errors apart.
Answers == {"ok", "denied", "unsupported", "cancelled", "failed"}

Resources == [id : Ids, call : Calls]
Warnings  == [service : Workers, op : Calls \cup {NoOp},
              kind : {"access-denied", "unsupported", "api-error"},
              message : Calls]

VARIABLES
  ctx,        \* "live", or "cancelled" once Ctrl-C was pressed
  main,       \* where Scan itself is
  spawned,    \* goroutines started so far, over both phases
  g,          \* g[w]: where goroutine w is
  wg,         \* the WaitGroup counter
  sem,        \* tokens in the semaphore channel
  todo,       \* todo[w]: calls w knows it has still to issue
  found,      \* found[w]: resources w has read and not yet emitted
  trouble,    \* trouble[w]: the warning w has still to record, if any
  verdict,    \* verdict[c]: how call c was answered
  resources,  \* inv.Resources, in arrival order until Normalize
  warnings,   \* inv.Warnings
  partial,    \* inv.Partial
  prior,      \* the snapshot handed to the dependents
  outcome     \* what Scan returned

inv  == <<resources, warnings, partial>>
work == <<todo, found, trouble, verdict>>
sync == <<g, wg, sem>>
vars == <<ctx, main, spawned, sync, work, inv, prior, outcome>>

IdsOf(s) == {s[i].id : i \in DOMAIN s}

-----------------------------------------------------------------------------
(* warnOrFail and Normalize.                                               *)

\* warnOrFail returns nil for these, after recording the warning.
Recoverable(a) == a \in {"denied", "unsupported"}

\* The warning an answer leads to: warnOrFail's, which names the operation,
\* or runPhase's, recorded for the error the collector returned.
WarningFor(c, a) ==
  [service |-> Owner[c],
   op      |-> IF Recoverable(a) THEN c ELSE NoOp,
   kind    |-> CASE a = "denied"      -> "access-denied"
                 [] a = "unsupported" -> "unsupported"
                 [] OTHER             -> "api-error",
   message |-> c]

\* Normalize's two orders; elements that tie keep their arrival order.
ResourceOrder(s) ==
  {p \in (DOMAIN s) \X (DOMAIN s) :
     \/ s[p[1]].id < s[p[2]].id
     \/ s[p[1]].id = s[p[2]].id /\ p[1] < p[2]}

WarningLess(v, w) ==
  \/ v.service < w.service
  \/ v.service = w.service /\ v.op < w.op
  \/ v.service = w.service /\ v.op = w.op /\ v.message < w.message

WarningOrder(s) ==
  {p \in (DOMAIN s) \X (DOMAIN s) :
     \/ WarningLess(s[p[1]], s[p[2]])
     \/ ~WarningLess(s[p[2]], s[p[1]]) /\ p[1] < p[2]}

Duplicates(s) == {s[i].id : i \in {j \in DOMAIN s :
                              \E k \in DOMAIN s : k # j /\ s[k].id = s[j].id}}

-----------------------------------------------------------------------------
Init ==
  /\ ctx = "live" /\ main = "phase1" /\ spawned = 0
  /\ g = [w \in Workers |-> "unborn"] /\ wg = 0 /\ sem = 0
  /\ todo = [w \in Workers |-> {}]
  /\ found = [w \in Workers |-> {}]
  /\ trouble = [w \in Workers |-> {}]
  /\ verdict = [c \in Calls |-> "unasked"]
  /\ resources = <<>> /\ warnings = <<>> /\ partial = FALSE
  /\ prior = <<>> /\ outcome = "none"

\* The last goroutine of the phase Scan is in.
PhaseEnd == IF main = "phase1" THEN NumCollectors
                               ELSE NumCollectors + NumDependents

\* Mutant of Spawn: a dependent is handed the live inventory, not a snapshot.
SpawnFromLive ==
  LET w == spawned + 1 IN
  /\ main \in {"phase1", "phase2"} /\ spawned < PhaseEnd
  /\ spawned' = w /\ wg' = wg + 1
  /\ g' = [g EXCEPT ![w] = "parked"]
  /\ todo' = [todo EXCEPT ![w] =
                {c \in Starts : Owner[c] = w /\ Needs[c] \subseteq IdsOf(resources)}]
  /\ UNCHANGED <<ctx, main, sem, found, trouble, verdict, inv, prior, outcome>>

\* One turn of runPhase's loop: wg.Add(1) and the go statement.  A dependent
\* decides from prior, its snapshot, which calls it has to make.
Spawn ==
  LET w == spawned + 1 IN
  /\ main \in {"phase1", "phase2"} /\ spawned < PhaseEnd
  /\ spawned' = w /\ wg' = wg + 1
  /\ g' = [g EXCEPT ![w] = "parked"]
  /\ todo' = [todo EXCEPT ![w] =
                {c \in Starts : Owner[c] = w /\ Needs[c] \subseteq IdsOf(prior)}]
  /\ UNCHANGED <<ctx, main, sem, found, trouble, verdict, inv, prior, outcome>>

\* Mutant of Acquire: one slot more than was asked for.
AcquireOneMore(w) ==
  /\ g[w] = "parked" /\ sem <= Capacity
  /\ g' = [g EXCEPT ![w] = "running"] /\ sem' = sem + 1
  /\ UNCHANGED <<ctx, main, spawned, wg, work, inv, prior, outcome>>

\* case sem <- struct{}{}: also possible when ctx is done, select being fair
\* to both ready cases.
Acquire(w) ==
  /\ g[w] = "parked" /\ sem < Capacity
  /\ g' = [g EXCEPT ![w] = "running"] /\ sem' = sem + 1
  /\ UNCHANGED <<ctx, main, spawned, wg, work, inv, prior, outcome>>

\* Mutant of Skip: the deferred <-sem moved above the select.
SkipReturningToken(w) ==
  /\ g[w] = "parked" /\ ctx = "cancelled"
  /\ g' = [g EXCEPT ![w] = "skipped"] /\ wg' = wg - 1 /\ sem' = sem - 1
  /\ UNCHANGED <<ctx, main, spawned, work, inv, prior, outcome>>

\* case <-ctx.Done(): the collector never runs, and says nothing.
Skip(w) ==
  /\ g[w] = "parked" /\ ctx = "cancelled"
  /\ g' = [g EXCEPT ![w] = "skipped"] /\ wg' = wg - 1
  /\ UNCHANGED <<ctx, main, spawned, sem, work, inv, prior, outcome>>

\* Mutant of Call: runPhase drops the error a collector gives up with.
CallDroppingErrors(w) ==
  /\ g[w] = "running" /\ found[w] = {} /\ trouble[w] = {} /\ todo[w] # {}
  /\ LET c == CHOOSE d \in todo[w] : \A e \in todo[w] : d <= e IN
     \E a \in Answers :
       /\ a = "cancelled" => ctx = "cancelled"
       /\ verdict' = [verdict EXCEPT ![c] = a]
       /\ todo' = [todo EXCEPT ![w] =
            IF a = "ok" THEN (@ \ {c}) \cup Reveals[c]
            ELSE IF Recoverable(a) THEN @ \ {c} ELSE {}]
       /\ found' = [found EXCEPT ![w] =
            IF a = "ok" THEN {[id |-> i, call |-> c] : i \in Yields[c]} ELSE {}]
       /\ trouble' = [trouble EXCEPT ![w] =
            IF Recoverable(a) THEN {WarningFor(c, a)} ELSE {}]
  /\ UNCHANGED <<ctx, main, spawned, sync, inv, prior, outcome>>

\* w issues its next call and handles the answer up to the first lock.
Call(w) ==
  /\ g[w] = "running" /\ found[w] = {} /\ trouble[w] = {} /\ todo[w] # {}
  /\ LET c == CHOOSE d \in todo[w] : \A e \in todo[w] : d <= e IN
     \E a \in Answers :
       /\ a = "cancelled" => ctx = "cancelled"
       /\ verdict' = [verdict EXCEPT ![c] = a]
       /\ todo' = [todo EXCEPT ![w] =
            IF a = "ok" THEN (@ \ {c}) \cup Reveals[c]
            ELSE IF Recoverable(a) THEN @ \ {c} ELSE {}]
       /\ found' = [found EXCEPT ![w] =
            IF a = "ok" THEN {[id |-> i, call |-> c] : i \in Yields[c]} ELSE {}]
       /\ trouble' = [trouble EXCEPT ![w] =
            IF a = "ok" THEN {} ELSE {WarningFor(c, a)}]
  /\ UNCHANGED <<ctx, main, spawned, sync, inv, prior, outcome>>

\* syncEmitter.Emit, under the mutex.
Emit(w) ==
  /\ g[w] = "running"
  /\ \E r \in found[w] :
       /\ resources' = Append(resources, r)
       /\ found' = [found EXCEPT ![w] = @ \ {r}]
  /\ UNCHANGED <<ctx, main, spawned, sync, todo, trouble, verdict,
                 warnings, partial, prior, outcome>>

\* Mutant of Warn: the warning is kept, the inventory is not marked.
WarnInSilence(w) ==
  /\ g[w] = "running"
  /\ \E x \in trouble[w] :
       /\ warnings' = Append(warnings, x)
       /\ trouble' = [trouble EXCEPT ![w] = @ \ {x}]
  /\ UNCHANGED <<ctx, main, spawned, sync, todo, found, verdict,
                 resources, partial, prior, outcome>>

\* syncEmitter.Warn, under the mutex: it also marks the inventory partial.
Warn(w) ==
  /\ g[w] = "running"
  /\ \E x \in trouble[w] :
       /\ warnings' = Append(warnings, x)
       /\ trouble' = [trouble EXCEPT ![w] = @ \ {x}]
  /\ partial' = TRUE
  /\ UNCHANGED <<ctx, main, spawned, sync, todo, found, verdict,
                 resources, prior, outcome>>

\* Mutant of Release: the token is never given back.
ReleaseKeepingToken(w) ==
  /\ g[w] = "running" /\ todo[w] = {} /\ found[w] = {} /\ trouble[w] = {}
  /\ g' = [g EXCEPT ![w] = "released"]
  /\ UNCHANGED <<ctx, main, spawned, wg, sem, work, inv, prior, outcome>>

\* The collector has returned: the deferred <-sem runs, ...
Release(w) ==
  /\ g[w] = "running" /\ todo[w] = {} /\ found[w] = {} /\ trouble[w] = {}
  /\ g' = [g EXCEPT ![w] = "released"] /\ sem' = sem - 1
  /\ UNCHANGED <<ctx, main, spawned, wg, work, inv, prior, outcome>>

\* ... and then the deferred wg.Done.
Finish(w) ==
  /\ g[w] = "released"
  /\ g' = [g EXCEPT ![w] = "done"] /\ wg' = wg - 1
  /\ UNCHANGED <<ctx, main, spawned, sem, work, inv, prior, outcome>>

\* Mutant of EndPhase: no wg.Wait between the phases.
EndPhaseAtOnce ==
  /\ main \in {"phase1", "phase2"} /\ spawned = PhaseEnd
  /\ IF ctx = "cancelled"
       THEN main' = "returned" /\ outcome' = "cancelled" /\ UNCHANGED prior
       ELSE IF main = "phase1" /\ NumDependents > 0
       THEN main' = "phase2" /\ prior' = resources /\ UNCHANGED outcome
       ELSE main' = "assemble" /\ UNCHANGED <<prior, outcome>>
  /\ UNCHANGED <<ctx, spawned, sync, work, inv>>

\* Mutant of EndPhase: ctx.Err() is not looked at.
EndPhaseHeedless ==
  /\ main \in {"phase1", "phase2"} /\ spawned = PhaseEnd /\ wg = 0
  /\ IF main = "phase1" /\ NumDependents > 0
       THEN main' = "phase2" /\ prior' = resources
       ELSE main' = "assemble" /\ UNCHANGED prior
  /\ UNCHANGED <<ctx, spawned, sync, work, inv, outcome>>

\* wg.Wait returns, and Scan looks at ctx before going on.  Phase 2 starts
\* from a copy of what phase 1 emitted.
EndPhase ==
  /\ main \in {"phase1", "phase2"} /\ spawned = PhaseEnd /\ wg = 0
  /\ IF ctx = "cancelled"
       THEN main' = "returned" /\ outcome' = "cancelled" /\ UNCHANGED prior
       ELSE IF main = "phase1" /\ NumDependents > 0
       THEN main' = "phase2" /\ prior' = resources /\ UNCHANGED outcome
       ELSE main' = "assemble" /\ UNCHANGED <<prior, outcome>>
  /\ UNCHANGED <<ctx, spawned, sync, work, inv>>

\* Mutant of Assemble: the inventory is returned as it arrived.
AssembleUnsorted ==
  /\ main = "assemble" /\ main' = "returned"
  /\ outcome' = IF Duplicates(resources) = {} THEN "inventory" ELSE "duplicate"
  /\ UNCHANGED <<ctx, spawned, sync, work, inv, prior>>

\* inv.Normalize() and inv.Duplicates().
Assemble ==
  /\ main = "assemble" /\ main' = "returned"
  /\ resources' = StableSort(resources, ResourceOrder(resources))
  /\ warnings' = StableSort(warnings, WarningOrder(warnings))
  /\ outcome' = IF Duplicates(resources') = {} THEN "inventory" ELSE "duplicate"
  /\ UNCHANGED <<ctx, spawned, sync, work, partial, prior>>

\* signal.NotifyContext: Ctrl-C, at any moment.
Cancel ==
  /\ ctx = "live" /\ main # "returned"
  /\ ctx' = "cancelled"
  /\ UNCHANGED <<main, spawned, sync, work, inv, prior, outcome>>

Returned == main = "returned" /\ UNCHANGED vars

Step(w) == \/ Acquire(w) \/ Skip(w) \/ Call(w) \/ Emit(w) \/ Warn(w)
           \/ Release(w) \/ Finish(w)

Main == Spawn \/ EndPhase \/ Assemble

Next == Main \/ Cancel \/ Returned \/ \E w \in Workers : Step(w)

Spec == Init /\ [][Next]_vars

\* The Go scheduler runs every goroutine that can run, and every AWS call
\* ends: with an answer, an exhausted retry, or a cancelled context.
FairSpec == Spec /\ WF_vars(Main) /\ \A w \in Workers : WF_vars(Step(w))

-----------------------------------------------------------------------------
TypeOK ==
  /\ ctx \in {"live", "cancelled"}
  /\ main \in {"phase1", "phase2", "assemble", "returned"}
  /\ spawned \in 0 .. (NumCollectors + NumDependents)
  /\ g \in [Workers -> {"unborn", "parked", "running", "released", "done", "skipped"}]
  /\ wg \in Nat /\ sem \in Nat
  /\ todo \in [Workers -> SUBSET Calls]
  /\ found \in [Workers -> SUBSET Resources]
  /\ trouble \in [Workers -> SUBSET Warnings]
  /\ verdict \in [Calls -> Answers \cup {"unasked"}]
  /\ resources \in Seq(Resources) /\ warnings \in Seq(Warnings)
  /\ partial \in BOOLEAN
  /\ prior \in Seq(Resources)
  /\ outcome \in {"none", "inventory", "duplicate", "cancelled"}

\* "Concurrency bounds how many collectors run at once": never more goroutines
\* inside run(i) than the bound, whatever the caller asked for, and the tokens
\* in the channel are exactly theirs, across the two phases.
BoundedConcurrency ==
  LET holders == {w \in Workers : g[w] = "running"} IN
  Cardinality(holders) = sem /\ sem <= Capacity

\* The WaitGroup is a barrier: no dependent exists while a collector is still
\* between its go statement and its wg.Done, and no goroutine outlives Scan.
PhaseBarrier ==
  LET alive(W) == {w \in W : g[w] \in {"parked", "running", "released"}} IN
  /\ (\E d \in Dependents : g[d] # "unborn") => alive(Collectors) = {}
  /\ main \in {"assemble", "returned"} => alive(Workers) = {}

\* The calls that answered, and what they hold.
Answered == {c \in Calls : verdict[c] = "ok"}

\* An account nobody may read less than: every call the collectors would make
\* if each one answered.  The least set closed under Starts and Reveals.
AllReachable ==
  LET closed(S) == \A c \in Calls :
        \/ c \in S
        \/ /\ ~(c \in Starts /\ \A i \in Needs[c] :
                  \E d \in S : Owner[d] \in Collectors /\ i \in Yields[d])
           /\ \A d \in S : c \notin Reveals[d]
  IN  {c \in Calls : \A S \in SUBSET Calls : closed(S) => c \in S}

\* An inventory that does not say it is partial holds the whole account.  This
\* is what "downstream stages surface it rather than pretending the picture is
\* complete" (inventory.go) rests on: no path through a denial, a failure, a
\* cancellation or a goroutine that never ran loses a resource in silence.
CompleteUnlessPartial ==
  outcome = "inventory" /\ ~partial =>
    IdsOf(resources) = UNION {Yields[c] : c \in AllReachable}

\* Every call that was not answered left a warning of its own service that
\* names it, none was left by a call that was, and partial says just that.
EveryGapWarned ==
  outcome = "inventory" =>
    /\ partial <=> warnings # <<>>
    /\ {warnings[i].message : i \in DOMAIN warnings} =
         {c \in Calls : verdict[c] \notin {"ok", "unasked"}}
    /\ \A i \in DOMAIN warnings :
         warnings[i].service = Owner[warnings[i].message]

\* What is missing from an inventory is admitted in it, call by call and as a whole.
GapsAdmitted == CompleteUnlessPartial /\ EveryGapWarned

\* Ctrl-C never degrades an inventory: one that is returned misses nothing
\* because of it, neither a collector that never ran nor a cancelled call
\* dressed up as a warning ("would be actively misleading").
NothingLostToCancel ==
  outcome = "inventory" =>
    /\ \A w \in Workers : g[w] = "done"
    /\ \A c \in Calls : verdict[c] # "cancelled"

\* The calls a scan makes are decided by the account's answers alone, never by
\* the interleaving: a call is issued iff it was due and nothing its collector
\* issued earlier made it give up.  For a dependent, due means that phase 1
\* found what it needs: what another dependent emits must not matter.
DueCalls ==
  {c \in Calls :
    /\ \/ c \in Starts /\ \A i \in Needs[c] :
            \E d \in Answered : Owner[d] \in Collectors /\ i \in Yields[d]
       \/ \E d \in Answered : c \in Reveals[d]
    /\ ~\E d \in Calls : /\ d < c /\ Owner[d] = Owner[c]
                         /\ verdict[d] \in {"failed", "cancelled"}}

ScheduleIndependent ==
  outcome = "inventory" => {c \in Calls : verdict[c] # "unasked"} = DueCalls

\* "Two scans of an unchanged account" give the same file: what is returned is
\* a function of the answers, sorted, without one resource twice.
CanonicalInventory ==
  outcome = "inventory" =>
    /\ {resources[i] : i \in DOMAIN resources} =
         {r \in Resources : r.call \in Answered /\ r.id \in Yields[r.call]}
    /\ \A i, j \in DOMAIN resources : i < j => resources[i].id < resources[j].id
    /\ \A i, j \in DOMAIN warnings : i < j => WarningLess(warnings[i], warnings[j])

\* Scan always returns, whatever the answers and whenever Ctrl-C is pressed:
\* no goroutine waits for a token nobody gives back.
Terminates == <>(main = "returned")
=============================================================================
