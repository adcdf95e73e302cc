-------------------------- MODULE AccountLifecycle --------------------------
(***************************************************************************)
(* What the platform promises of an account, whatever the orders, prices   *)
(* and roundings: an evaluation is judged at most once, a judgement is     *)
(* final, and graduation turns one PASSED evaluation into one FUNDED       *)
(* account and closes it in the same step.                                 *)
(***************************************************************************)
CONSTANTS Accounts,     \* account ids, those of funded accounts to come included
          Evaluations,  \* the accounts that exist at the start
          NoSource      \* the source of an account nobody graduated into

VARIABLES status,  \* the status of each account, "ABSENT" before it exists
          source   \* the evaluation a funded account comes from

vars == <<status, source>>

Statuses == {"ABSENT", "ACTIVE", "PASSED", "FAILED", "CLOSED"}

Init ==
  /\ status = [a \in Accounts |-> IF a \in Evaluations THEN "ACTIVE" ELSE "ABSENT"]
  /\ source = [a \in Accounts |-> NoSource]

Judge(a) ==
  /\ status[a] = "ACTIVE" /\ source[a] = NoSource
  /\ \E verdict \in {"PASSED", "FAILED"} : status' = [status EXCEPT ![a] = verdict]
  /\ UNCHANGED source

Graduate(e, f) ==
  /\ status[e] = "PASSED" /\ source[e] = NoSource /\ status[f] = "ABSENT"
  /\ status' = [status EXCEPT ![e] = "CLOSED", ![f] = "ACTIVE"]
  /\ source' = [source EXCEPT ![f] = e]

Next == \/ \E a \in Accounts : Judge(a)
        \/ \E e, f \in Accounts : Graduate(e, f)

Spec == Init /\ [][Next]_vars

(* One evaluation funds at most one account, and only a closed evaluation  *)
(* has funded one.                                                         *)
FundedOnce ==
  /\ \A f, g \in Accounts : source[f] = source[g] /\ source[f] # NoSource => f = g
  /\ \A f \in Accounts : source[f] # NoSource => status[source[f]] = "CLOSED"
=============================================================================
