------------------------------ MODULE TaskLedger ------------------------------
(***************************************************************************)
(* What a benchmark run promises about the tasks it accepts, without loops, *)
(* tokens, channels or workers: an accepted task is settled exactly once,   *)
(* the warmup tasks are discarded at the measurement boundary, and the run  *)
(* reports, once, the tasks of the window it ends in.                       *)
(* ClosedLoop implements this specification.                                *)
(***************************************************************************)
EXTENDS Naturals, FiniteSets

CONSTANTS
  Task,      \* task identities; their number bounds the tasks of one run
  NoReport   \* the report before the run has ended

VARIABLES
  status,    \* what has happened to each task
  window,    \* "warmup", "measurement", then "closed"
  report     \* the counts the run publishes

vars == <<status, window, report>>

Outcome == {"ok", "err"}

\* The tasks of the current window, and those among them with status s.
Accepted == {t \in Task : status[t] \in {"accepted"} \cup Outcome}
WithStatus(s) == {t \in Task : status[t] = s}

Init ==
  /\ status = [t \in Task |-> "unborn"]
  /\ window \in {"warmup", "measurement"}
  /\ report = NoReport

Accept(t) ==
  /\ window # "closed"
  /\ status[t] = "unborn"
  /\ status' = [status EXCEPT ![t] = "accepted"]
  /\ UNCHANGED <<window, report>>

Settle(t, o) ==
  /\ window # "closed"
  /\ status[t] = "accepted"
  /\ status' = [status EXCEPT ![t] = o]
  /\ UNCHANGED <<window, report>>

\* The boundary between warmup and measurement: nothing may be in flight.
Boundary ==
  /\ window = "warmup"
  /\ WithStatus("accepted") = {}
  /\ window' = "measurement"
  /\ status' = [t \in Task |-> IF t \in Accepted THEN "discarded" ELSE status[t]]
  /\ UNCHANGED report

\* The run ends with nothing in flight. It may end in the warmup window, when
\* it is cancelled there.
Finish ==
  /\ window # "closed"
  /\ WithStatus("accepted") = {}
  /\ window' = "closed"
  /\ report' = [created  |-> Cardinality(Accepted),
                complete |-> Cardinality(WithStatus("ok")),
                failed   |-> Cardinality(WithStatus("err"))]
  /\ UNCHANGED status

Next ==
  \/ \E t \in Task : Accept(t)
  \/ \E t \in Task, o \in Outcome : Settle(t, o)
  \/ Boundary
  \/ Finish

Spec == Init /\ [][Next]_vars
===============================================================================
