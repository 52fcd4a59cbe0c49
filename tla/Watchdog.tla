-------------------------------- MODULE Watchdog --------------------------------
(***************************************************************************)
(* The watchdog's monitor: one loop that loads the registered services,    *)
(* checks each, records the result, and has Docker restart a service that  *)
(* failed three checks in a row, at most three times before it only raises *)
(* the alert. Two counters of each service say where it stands; a healthy  *)
(* check resets both, and a restart of the watchdog loses them.            *)
(*                                                                         *)
(* The containers live on their own: one fails at any time, may recover by *)
(* itself, and needs some checks' time to come up after a restart. A step  *)
(* of the loop is a request and its answer, or what it does between two.   *)
(*                                                                         *)
(* The tables are those its statements name. Where they lack a column, as  *)
(* registered_services of migration 001 does, every load of the services   *)
(* fails: a behaviour of the model with no end of faults.                  *)
(*                                                                         *)
(* A definition marked "Variant of" is the code with one slip in it. No    *)
(* action uses it: it shows that a property can tell the slip.             *)
(***************************************************************************)
EXTENDS Naturals, FiniteSets

CONSTANTS
  Services,     \* rows of registered_services: inserted when a service starts, none removed,
                \* and each to be checked by http or tcp: no statement inserts another type
  Unstartable,  \* those whose container does not come up by a restart
  SlowestStart, \* bound: checks a start may take
  MaxOutages,   \* bound: containers that fail by themselves
  MaxFaults,    \* bound: statements and Docker requests that fail
  MaxCrashes    \* bound: restarts of the watchdog

ASSUME WatchdogAssumption ==
  /\ Unstartable \subseteq Services
  /\ SlowestStart \in Nat /\ MaxOutages \in Nat /\ MaxFaults \in Nat /\ MaxCrashes \in Nat

\* failures >= 3 and restarts >= 3 in checkService
FailureLimit == 3
RestartLimit == 3

VARIABLES
  container, \* container[s]: checks until it answers, or Down
  row,       \* row[s]: status in service_health
  running,   \* a round of checks is under way
  step,      \* step[s]: where checkService stands with s
  left,      \* services of this round that are still to be checked
  failures,  \* m.consecutiveFailures, which nothing looks at beyond the limit
  attempts,  \* m.restartAttempts
  restarts,  \* restarts[s]: those Docker executed since the watchdog started or found s healthy, up
             \* to one too many
  age,       \* age[s]: checks of s since Docker last reported a restart, up to the limit
  alerted,   \* services an alert was raised for since then
  bounds     \* outages, faults and crashes so far

vars == <<container, row, running, step, left, failures, attempts, restarts, age, alerted, bounds>>

memory == <<failures, attempts>>
history == <<restarts, age, alerted>>

\* A container that stays down until somebody does something.
Down == SlowestStart + 1

\* The result of the check is known; Docker is to restart the service; Docker has done it.
Steps == {"none", "unhealthy", "healthy", "restart", "answer"}

TypeOK ==
  /\ container \in [Services -> 0..Down]
  /\ row \in [Services -> {"none", "healthy", "unhealthy"}]
  /\ running \in BOOLEAN
  /\ step \in [Services -> Steps]
  /\ left \subseteq Services
  /\ failures \in [Services -> 0..FailureLimit]
  /\ attempts \in [Services -> 0..RestartLimit]
  /\ restarts \in [Services -> 0..RestartLimit + 1]
  /\ age \in [Services -> 0..FailureLimit]
  /\ alerted \subseteq Services
  /\ bounds \in [outages : Nat, faults : Nat, crashes : Nat]

Forgotten == [s \in Services |-> 0]

\* The watchdog is started after the gateway; the others may still be starting, or be down.
Init ==
  /\ container \in [Services -> 0..Down]
  /\ row = [s \in Services |-> "none"]
  /\ running = FALSE /\ left = {}
  /\ step = [s \in Services |-> "none"]
  /\ failures = Forgotten /\ attempts = Forgotten
  /\ restarts = Forgotten
  /\ age = [s \in Services |-> FailureLimit]
  /\ alerted = {}
  /\ bounds = [outages |-> 0, faults |-> 0, crashes |-> 0]

Answers(s) == container[s] = 0

Faulty == bounds.faults < MaxFaults /\ bounds' = [bounds EXCEPT !.faults = @ + 1]

\* checkService is not under way.
AtLoop == \A s \in Services : step[s] = "none"

\* checkService goes on with s, or returns.
Goto(s, next) == step' = [step EXCEPT ![s] = next]

Min3(n) == IF n < 3 THEN n ELSE 3

--------------------------------------------------------------------------------
(* The loop *)

\* loadServices: the enabled rows. A query that fails ends the round.
LoadServices ==
  /\ ~running
  /\ \/ left' = Services /\ running' = TRUE /\ UNCHANGED bounds
     \/ Faulty /\ UNCHANGED <<left, running>>
  /\ UNCHANGED <<container, row, step, memory, history>>

EndRound ==
  /\ running /\ AtLoop /\ left = {}
  /\ running' = FALSE
  /\ UNCHANGED <<container, row, step, left, memory, history, bounds>>

\* What a check does to a container: time passes, and one that starts comes nearer.
Later(s) == IF container[s] \in {0, Down} THEN container[s] ELSE container[s] - 1

\* checkHTTP, checkTCP: ask the service and wait for its answer or the deadline.
Check(s) ==
  /\ running /\ AtLoop /\ s \in left
  /\ left' = left \ {s}
  /\ Goto(s, IF Answers(s) THEN "healthy" ELSE "unhealthy")
  /\ container' = [container EXCEPT ![s] = Later(s)]
  /\ age' = [age EXCEPT ![s] = Min3(@ + 1)]
  /\ UNCHANGED <<row, running, memory, restarts, alerted, bounds>>

\* recordHealth: an upsert whose error is only logged. The publish that follows changes nothing.
Record(s, status) ==
  \/ row' = [row EXCEPT ![s] = status] /\ UNCHANGED bounds
  \/ Faulty /\ UNCHANGED row

\* The rest of checkService for a healthy service: both counters start again.
HandleHealthy(s) ==
  /\ step[s] = "healthy"
  /\ Record(s, "healthy")
  /\ failures' = [failures EXCEPT ![s] = 0]
  /\ attempts' = [attempts EXCEPT ![s] = 0]
  /\ restarts' = [restarts EXCEPT ![s] = 0]
  /\ alerted' = alerted \ {s}
  /\ Goto(s, "none")
  /\ UNCHANGED <<container, running, left, age>>

\* Variant of HandleUnhealthy: the attempts are not limited.
HandleUnhealthyUnlimited(s) ==
  LET counted == Min3(failures[s] + 1)
      critical == counted >= FailureLimit
  IN /\ step[s] = "unhealthy"
     /\ Record(s, "unhealthy")
     /\ failures' = [failures EXCEPT ![s] = counted]
     /\ Goto(s, IF critical THEN "restart" ELSE "none")
     /\ UNCHANGED alerted
     /\ UNCHANGED <<container, running, left, attempts, restarts, age>>

\* Variant of HandleUnhealthy: the alert waits for one attempt more than there will be.
HandleUnhealthyTooLate(s) ==
  LET counted == Min3(failures[s] + 1)
      critical == counted >= FailureLimit
  IN /\ step[s] = "unhealthy"
     /\ Record(s, "unhealthy")
     /\ failures' = [failures EXCEPT ![s] = counted]
     /\ Goto(s, IF critical /\ attempts[s] < RestartLimit THEN "restart" ELSE "none")
     /\ alerted' = IF critical /\ attempts[s] > RestartLimit THEN alerted \cup {s} ELSE alerted
     /\ UNCHANGED <<container, running, left, attempts, restarts, age>>

\* Variant of HandleUnhealthy: no return after the alert.
HandleUnhealthyGoingOn(s) ==
  LET counted == Min3(failures[s] + 1)
      critical == counted >= FailureLimit
  IN /\ step[s] = "unhealthy"
     /\ Record(s, "unhealthy")
     /\ failures' = [failures EXCEPT ![s] = counted]
     /\ Goto(s, IF critical THEN "restart" ELSE "none")
     /\ alerted' = IF critical /\ attempts[s] >= RestartLimit THEN alerted \cup {s} ELSE alerted
     /\ UNCHANGED <<container, running, left, attempts, restarts, age>>

\* ... and for one that is not: three failures call for a restart, or for the alert when
\* three restarts have been tried.
HandleUnhealthy(s) ==
  LET counted == Min3(failures[s] + 1)
      critical == counted >= FailureLimit
  IN /\ step[s] = "unhealthy"
     /\ Record(s, "unhealthy")
     /\ failures' = [failures EXCEPT ![s] = counted]
     /\ Goto(s, IF critical /\ attempts[s] < RestartLimit THEN "restart" ELSE "none")
     /\ alerted' = IF critical /\ attempts[s] >= RestartLimit THEN alerted \cup {s} ELSE alerted
     /\ UNCHANGED <<container, running, left, attempts, restarts, age>>

\* Docker: what becomes of a container it restarts.
Started(s) == IF s \in Unstartable THEN {Down} ELSE 0..SlowestStart

\* RestartContainer, up to the moment Docker has restarted the container.
DockerRestarts(s) ==
  /\ step[s] = "restart"
  /\ \E state \in Started(s) : container' = [container EXCEPT ![s] = state]
  /\ restarts' = [restarts EXCEPT ![s] = IF @ > RestartLimit THEN @ ELSE @ + 1]
  /\ Goto(s, "answer")
  /\ UNCHANGED <<row, running, left, memory, age, alerted, bounds>>

\* Variant of RestartReported: the failures stay, and the next check restarts again.
RestartReportedKeeping(s) ==
  /\ step[s] = "answer"
  /\ attempts' = [attempts EXCEPT ![s] = @ + 1]
  /\ age' = [age EXCEPT ![s] = 0]
  /\ Goto(s, "none")
  /\ UNCHANGED <<container, row, running, left, failures, restarts, alerted, bounds>>

\* Variant of RestartReported: a restart that worked is no attempt that failed.
RestartReportedUncounted(s) ==
  /\ step[s] = "answer"
  /\ failures' = [failures EXCEPT ![s] = 0]
  /\ age' = [age EXCEPT ![s] = 0]
  /\ Goto(s, "none")
  /\ UNCHANGED <<container, row, running, left, attempts, restarts, alerted, bounds>>

\* Docker reports the restart.
RestartReported(s) ==
  /\ step[s] = "answer"
  /\ failures' = [failures EXCEPT ![s] = 0]
  /\ attempts' = [attempts EXCEPT ![s] = @ + 1]
  /\ age' = [age EXCEPT ![s] = 0]
  /\ Goto(s, "none")
  /\ UNCHANGED <<container, row, running, left, restarts, alerted, bounds>>

\* Variant of RestartFails: only restarts that worked are counted.
RestartFailsUncounted(s) ==
  /\ step[s] \in {"restart", "answer"}
  /\ Faulty
  /\ Goto(s, "none")
  /\ UNCHANGED <<container, row, running, left, memory, history>>

\* A request to Docker fails, before the restart or with its answer: an attempt that leaves
\* the failures counted.
RestartFails(s) ==
  /\ step[s] \in {"restart", "answer"}
  /\ Faulty
  /\ attempts' = [attempts EXCEPT ![s] = @ + 1]
  /\ Goto(s, "none")
  /\ UNCHANGED <<container, row, running, left, failures, history>>

\* The watchdog stops, and Docker starts it again with its counters at zero.
Crash ==
  /\ bounds.crashes < MaxCrashes
  /\ bounds' = [bounds EXCEPT !.crashes = @ + 1]
  /\ running' = FALSE /\ left' = {}
  /\ step' = [s \in Services |-> "none"]
  /\ failures' = Forgotten /\ attempts' = Forgotten
  /\ restarts' = Forgotten /\ alerted' = {}
  /\ UNCHANGED <<container, row, age>>

--------------------------------------------------------------------------------
(* The services *)

\* A container stops answering, or never gets as far.
Fails(s) ==
  /\ container[s] # Down
  /\ bounds.outages < MaxOutages
  /\ bounds' = [bounds EXCEPT !.outages = @ + 1]
  /\ container' = [container EXCEPT ![s] = Down]
  /\ UNCHANGED <<row, running, step, left, memory, history>>

\* It answers again without the watchdog: a dependency came back, or somebody repaired it.
Recovers(s) ==
  /\ container[s] = Down
  /\ container' = [container EXCEPT ![s] = 0]
  /\ UNCHANGED <<row, running, step, left, memory, history, bounds>>

--------------------------------------------------------------------------------

Restart(s) == DockerRestarts(s) \/ RestartReported(s) \/ RestartFails(s)

Loop ==
  \/ LoadServices \/ EndRound
  \/ \E s \in Services : Check(s) \/ HandleHealthy(s) \/ HandleUnhealthy(s) \/ Restart(s)

Next ==
  \/ LoadServices \/ EndRound \/ Crash
  \/ \E s \in Services :
       \/ Check(s) \/ HandleHealthy(s) \/ HandleUnhealthy(s)
       \/ DockerRestarts(s) \/ RestartReported(s) \/ RestartFails(s)
       \/ Fails(s) \/ Recovers(s)

\* The ticker ticks, the checks have deadlines, and Docker answers: nothing bounds the
\* restart request, so that is owed by Docker alone.
Fairness == WF_vars(Loop)

Spec == Init /\ [][Next]_vars

FairSpec == Spec /\ Fairness

--------------------------------------------------------------------------------
(* Properties *)

\* While no check finds a service healthy, one life of the watchdog has Docker restart it
\* three times at most, failed and lost answers counted: it does not keep a broken service
\* from being looked at.
RestartsBounded == \A s \in Services : restarts[s] <= RestartLimit

\* A service is restarted only when three checks went by since Docker reported its last
\* restart, whatever the crashes in between: one that needs less to start is not restarted while
\* it starts.
Patient == \A s \in Services : step[s] = "restart" => age[s] = FailureLimit

\* Once the alert is raised the service is left alone until a check finds it healthy, for
\* whoever follows the alert to work on it.
LeftAlone ==
  [][\A s \in Services : s \in alerted /\ s \in alerted' => restarts'[s] = restarts[s]]_vars

\* Under FairSpec: an outage does not pass unnoticed. A service that is down recovers, or
\* the alert is raised, although statements and requests fail.
OutageEnds ==
  \A s \in Services :
    container[s] = Down ~> container[s] # Down \/ s \in alerted

\* Under FairSpec: a service that starts comes up, however long it takes: the watchdog's own
\* restarts, each of which begins the start again, come to an end.
SlowStartEnds ==
  \A s \in Services :
    container[s] \notin {0, Down} ~> container[s] \in {0, Down}
================================================================================
