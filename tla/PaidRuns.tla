------------------------------ MODULE PaidRuns ------------------------------
(***************************************************************************)
(* What a passenger is promised for playing alone: every run that is       *)
(* finished can be paid, what is paid was finished, a report is paid once  *)
(* by the rules of some moment, and the total is what was paid.            *)
(***************************************************************************)
EXTENDS Naturals

CONSTANT Amounts(_)  \* what the points of a report may be worth

VARIABLES
  finished,  \* the reports of the runs that are finished, with id and points
  paid,      \* the ids that have been paid
  total

vars == <<finished, paid, total>>

Init ==
  /\ finished = {}
  /\ paid = {}
  /\ total = 0

\* Runs end, and may report what earlier ones did.
Finish ==
  /\ finished \subseteq finished'
  /\ UNCHANGED <<paid, total>>

Pay(report) ==
  /\ report \in finished
  /\ report.id \notin paid
  /\ paid' = paid \cup {report.id}
  /\ \E amount \in Amounts(report.points) : total' = total + amount
  /\ UNCHANGED finished

Next == Finish \/ \E report \in finished : Pay(report)

Spec == Init /\ [][Next]_vars
=============================================================================
