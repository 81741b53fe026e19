-------------------------- MODULE CollectorPromise --------------------------
(***************************************************************************)
(* What the rules in front of Collector ask of every collector: what it    *)
(* has learnt of it emits, or gives up with a warning, or finds deleted;   *)
(* it returns nil when it owes nothing, and an error at any time.          *)
(***************************************************************************)
VARIABLES
  alive,   \* resources that exist in the account
  owed,    \* learnt of, not yet answered for
  emitted, \* in the inventory
  lost,    \* given up
  warned,  \* the inventory is marked partial
  result   \* "running", "nil" or "error"

vars == <<alive, owed, emitted, lost, warned, result>>

Init ==
  /\ owed = {} /\ emitted = {} /\ lost = {}
  /\ warned = FALSE /\ result = "running"

\* The account's owner deletes something.
Delete(r) ==
  /\ alive' = alive \ {r}
  /\ UNCHANGED <<owed, emitted, lost, warned, result>>

\* One answer: resources are learnt of, emitted, given up with a warning, or
\* found deleted.  Nothing is learnt of, or answered for, twice.
Read ==
  LET done   == emitted' \ emitted
      missed == lost' \ lost
      learnt == (owed' \cup done \cup missed) \ owed
      gone   == owed \ (owed' \cup done \cup missed) IN
  /\ result = "running"
  /\ emitted \subseteq emitted' /\ lost \subseteq lost'
  /\ done \cap missed = {} /\ learnt \cap (emitted \cup lost) = {}
  /\ owed' \cap (emitted' \cup lost') = {}
  /\ gone \cap alive = {}
  /\ warned \/ missed # {} => warned'
  /\ result' \in {"running", "nil"} /\ (result' = "nil" => owed' = {})
  /\ UNCHANGED alive

Abort ==
  /\ result = "running" /\ result' = "error"
  /\ UNCHANGED <<alive, owed, emitted, lost, warned>>

Next == (\E r \in alive : Delete(r)) \/ Read \/ Abort

Spec == Init /\ [][Next]_vars
=============================================================================
