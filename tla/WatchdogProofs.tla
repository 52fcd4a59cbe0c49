----------------------------- MODULE WatchdogProofs -----------------------------
(***************************************************************************)
(* Theorems of Watchdog, for every set of services and every number of     *)
(* outages, faults and crashes: types, that the restarts are bounded and   *)
(* spaced, and that an alerted service is left alone. They rest on         *)
(* WatchdogAssumption.                                                     *)
(***************************************************************************)
EXTENDS Watchdog, TLAPS

\* Docker has restarted s, and the monitor has not counted it yet.
Uncounted(s) == IF step[s] = "answer" THEN 1 ELSE 0

\* A restart Docker executed is an attempt, or about to be counted as one.
Counted(s) ==
  /\ restarts[s] <= attempts[s] + Uncounted(s)
  /\ step[s] \in {"restart", "answer"} => attempts[s] < RestartLimit

\* Every counted failure is a check since the last restart that was reported.
Spaced(s) ==
  /\ failures[s] <= age[s]
  /\ step[s] = "unhealthy" => Min3(failures[s] + 1) <= age[s]
  /\ step[s] = "restart" => age[s] = FailureLimit

\* After the alert there is no attempt left.
Alerted(s) == s \in alerted => attempts[s] = RestartLimit /\ step[s] \notin {"restart", "answer"}

IInv == TypeOK /\ \A s \in Services : Counted(s) /\ Spaced(s) /\ Alerted(s)

--------------------------------------------------------------------------------

LEMMA Goes ==
  ASSUME TypeOK, NEW s \in Services, NEW next \in Steps, Goto(s, next)
  PROVE  /\ step' \in [Services -> Steps] /\ step'[s] = next
         /\ \A t \in Services \ {s} : step'[t] = step[t]
BY DEF Goto, TypeOK

LEMMA FaultyType ==
  ASSUME TypeOK, Faulty \/ UNCHANGED bounds
  PROVE  bounds' \in [outages : Nat, faults : Nat, crashes : Nat]
BY DEF TypeOK, Faulty

LEMMA RecordType ==
  ASSUME TypeOK, NEW s \in Services, NEW status \in {"healthy", "unhealthy"}, Record(s, status)
  PROVE  /\ row' \in [Services -> {"none", "healthy", "unhealthy"}]
         /\ bounds' \in [outages : Nat, faults : Nat, crashes : Nat]
<1>1. Faulty \/ UNCHANGED bounds
    BY DEF Record
<1>2. row' = [row EXCEPT ![s] = status] \/ row' = row
    BY DEF Record
<1> QED
    BY <1>1, <1>2, FaultyType DEF TypeOK

LEMMA DownType == Down \in Nat /\ 0 \in 0..Down /\ Down \in 0..Down /\ 0..SlowestStart \subseteq 0..Down
BY WatchdogAssumption DEF Down

\* A step that changes nothing of s keeps what the invariant says of it.
LEMMA Same ==
  ASSUME NEW s \in Services, Counted(s), Spaced(s), Alerted(s),
         UNCHANGED <<restarts[s], attempts[s], failures[s], step[s], age[s], s \in alerted>>
  PROVE  Counted(s)' /\ Spaced(s)' /\ Alerted(s)'
BY DEF Counted, Spaced, Alerted, Uncounted

LEMMA StartInv == Init => IInv
<1> SUFFICES ASSUME Init PROVE IInv
    OBVIOUS
<1>1. TypeOK
    <2>1. /\ Forgotten \in [Services -> 0..FailureLimit] /\ Forgotten \in [Services -> 0..RestartLimit]
          /\ Forgotten \in [Services -> 0..(RestartLimit + 1)] /\ FailureLimit \in 0..FailureLimit
        BY DEF Forgotten, FailureLimit, RestartLimit
    <2>2. container \in [Services -> 0..Down] /\ bounds \in [outages : Nat, faults : Nat, crashes : Nat]
        BY DEF Init
    <2>3. /\ row \in [Services -> {"none", "healthy", "unhealthy"}] /\ running \in BOOLEAN
          /\ step \in [Services -> Steps] /\ left \subseteq Services /\ alerted \subseteq Services
        BY DEF Init, Steps
    <2>4. age \in [Services -> 0..FailureLimit]
        BY <2>1 DEF Init
    <2> QED
        BY <2>1, <2>2, <2>3, <2>4 DEF Init, TypeOK
<1>2. \A s \in Services : Counted(s) /\ Spaced(s) /\ Alerted(s)
    BY DEF Init, Counted, Spaced, Alerted, Uncounted, Forgotten, FailureLimit
<1> QED
    BY <1>1, <1>2 DEF IInv

\* The steps that only move the loop or the containers.
LEMMA QuietInv ==
  ASSUME IInv,
         \/ LoadServices \/ EndRound \/ UNCHANGED vars
         \/ \E s \in Services : Fails(s) \/ Recovers(s)
  PROVE  IInv'
<1> USE DEF IInv
<1>1. UNCHANGED <<restarts, attempts, failures, step, age, alerted>>
    BY DEF LoadServices, EndRound, vars, Fails, Recovers, memory, history
<1>2. TypeOK'
    <2>1. CASE LoadServices
        <3>1. Faulty \/ UNCHANGED bounds
            BY <2>1 DEF LoadServices
        <3>2. left' \subseteq Services /\ running' \in BOOLEAN /\ UNCHANGED <<container, row>>
            BY <2>1 DEF LoadServices, TypeOK
        <3> QED
            BY <3>1, <3>2, <1>1, FaultyType DEF TypeOK
    <2>2. CASE EndRound \/ UNCHANGED vars
        BY <2>2 DEF EndRound, vars, TypeOK, memory, history
    <2>3. ASSUME NEW s \in Services, Fails(s) \/ Recovers(s) PROVE TypeOK'
        BY <2>3, <1>1, DownType DEF Fails, Recovers, TypeOK
    <2> QED
        BY <2>1, <2>2, <2>3
<1>3. ASSUME NEW s \in Services PROVE Counted(s)' /\ Spaced(s)' /\ Alerted(s)'
    BY <1>1, Same
<1> QED
    BY <1>2, <1>3

LEMMA CheckInv == ASSUME IInv, NEW s \in Services, Check(s) PROVE IInv'
<1> USE DEF IInv
<1> DEFINE seen == IF Answers(s) THEN "healthy" ELSE "unhealthy"
<1>1. seen \in Steps /\ Goto(s, seen) /\ step[s] = "none"
    BY DEF Check, Steps, AtLoop
<1>2. /\ step' \in [Services -> Steps] /\ step'[s] \in {"healthy", "unhealthy"}
      /\ \A t \in Services \ {s} : step'[t] = step[t]
    BY <1>1, Goes
<1>3. /\ age' = [age EXCEPT ![s] = Min3(@ + 1)]
      /\ UNCHANGED <<row, running, failures, attempts, restarts, alerted, bounds>>
      /\ left' = left \ {s}
    BY DEF Check, memory
<1>4. Min3(age[s] + 1) \in 0..3 /\ failures[s] <= age[s] /\ failures[s] \in 0..3 /\ age[s] \in 0..3
    BY DEF TypeOK, Min3, Spaced, FailureLimit
<1>5. container' \in [Services -> 0..Down]
    <2>1. Later(s) \in 0..Down
        BY DownType DEF Later, TypeOK
    <2> QED
        BY <2>1 DEF Check, TypeOK
<1>6. TypeOK'
    BY <1>2, <1>3, <1>4, <1>5 DEF TypeOK, FailureLimit
<1>7. ASSUME NEW t \in Services PROVE Counted(t)' /\ Spaced(t)' /\ Alerted(t)'
    <2>1. CASE t # s
        BY <2>1, <1>2, <1>3, Same DEF TypeOK
    <2>2. CASE t = s
        <3>1. Min3(failures[s] + 1) <= Min3(age[s] + 1) /\ failures[s] <= Min3(age[s] + 1)
            BY <1>4 DEF Min3
        <3>2. age'[s] = Min3(age[s] + 1)
            BY <1>3 DEF TypeOK
        <3>3. Counted(s)' /\ Alerted(s)'
            BY <1>1, <1>2, <1>3 DEF Counted, Alerted, Uncounted
        <3> QED
            BY <2>2, <3>1, <3>2, <3>3, <1>2, <1>3 DEF Spaced
    <2> QED
        BY <2>1, <2>2
<1> QED
    BY <1>6, <1>7

LEMMA HealthyInv == ASSUME IInv, NEW s \in Services, HandleHealthy(s) PROVE IInv'
<1> USE DEF IInv
<1>1. /\ step' \in [Services -> Steps] /\ step'[s] = "none"
      /\ \A t \in Services \ {s} : step'[t] = step[t]
    BY Goes DEF HandleHealthy, Steps
<1>2. /\ failures' = [failures EXCEPT ![s] = 0] /\ attempts' = [attempts EXCEPT ![s] = 0]
      /\ restarts' = [restarts EXCEPT ![s] = 0] /\ alerted' = alerted \ {s}
      /\ UNCHANGED <<container, running, left, age>>
    BY DEF HandleHealthy
<1>3. TypeOK'
    <2>1. /\ row' \in [Services -> {"none", "healthy", "unhealthy"}]
          /\ bounds' \in [outages : Nat, faults : Nat, crashes : Nat]
        BY RecordType DEF HandleHealthy
    <2>2. 0 \in 0..FailureLimit /\ 0 \in 0..RestartLimit /\ 0 \in 0..(RestartLimit + 1)
        BY DEF FailureLimit, RestartLimit
    <2>3. /\ failures' \in [Services -> 0..FailureLimit] /\ attempts' \in [Services -> 0..RestartLimit]
          /\ restarts' \in [Services -> 0..(RestartLimit + 1)]
        BY <1>2, <2>2 DEF TypeOK
    <2> QED
        BY <1>1, <1>2, <2>1, <2>3 DEF TypeOK
<1>4. ASSUME NEW t \in Services PROVE Counted(t)' /\ Spaced(t)' /\ Alerted(t)'
    <2>1. CASE t # s
        BY <2>1, <1>1, <1>2, Same DEF TypeOK
    <2>2. CASE t = s
        BY <2>2, <1>1, <1>2 DEF Counted, Spaced, Alerted, Uncounted, TypeOK, FailureLimit
    <2> QED
        BY <2>1, <2>2
<1> QED
    BY <1>3, <1>4

LEMMA UnhealthyInv == ASSUME IInv, NEW s \in Services, HandleUnhealthy(s) PROVE IInv'
<1> USE DEF IInv
<1> DEFINE counted == Min3(failures[s] + 1)
           next == IF counted >= FailureLimit /\ attempts[s] < RestartLimit THEN "restart" ELSE "none"
<1>1. Goto(s, next) /\ next \in Steps /\ step[s] = "unhealthy"
    BY DEF HandleUnhealthy, Steps
<1>2. /\ step' \in [Services -> Steps] /\ step'[s] = next
      /\ \A t \in Services \ {s} : step'[t] = step[t]
    BY <1>1, Goes
<1>3. /\ failures' = [failures EXCEPT ![s] = counted]
      /\ alerted' = IF counted >= FailureLimit /\ attempts[s] >= RestartLimit
                    THEN alerted \cup {s} ELSE alerted
      /\ UNCHANGED <<container, running, left, attempts, restarts, age>>
    BY DEF HandleUnhealthy
<1>4. counted \in 0..3 /\ counted <= age[s] /\ age[s] \in 0..3 /\ attempts[s] \in 0..3
    BY <1>1 DEF TypeOK, Spaced, Min3, FailureLimit, RestartLimit
<1>5. TypeOK'
    <2>1. /\ row' \in [Services -> {"none", "healthy", "unhealthy"}]
          /\ bounds' \in [outages : Nat, faults : Nat, crashes : Nat]
        BY RecordType DEF HandleUnhealthy
    <2>2. failures' \in [Services -> 0..FailureLimit] /\ alerted' \subseteq Services
        BY <1>3, <1>4 DEF TypeOK, FailureLimit
    <2> QED
        BY <1>2, <1>3, <2>1, <2>2 DEF TypeOK
<1>6. ASSUME NEW t \in Services PROVE Counted(t)' /\ Spaced(t)' /\ Alerted(t)'
    <2>1. CASE t # s
        <3>1. UNCHANGED <<failures[t], t \in alerted>>
            BY <2>1, <1>3 DEF TypeOK
        <3> QED
            BY <2>1, <3>1, <1>2, <1>3, Same
    <2>2. CASE t = s
        <3>1. Counted(s)'
            BY <1>1, <1>2, <1>3 DEF Counted, Uncounted
        <3>2. Spaced(s)'
            <4>1. failures'[s] = counted
                BY <1>3 DEF TypeOK
            <4> QED
                BY <4>1, <1>2, <1>3, <1>4 DEF Spaced, FailureLimit
        <3>3. Alerted(s)'
            BY <1>2, <1>3, <1>4 DEF Alerted, RestartLimit
        <3> QED
            BY <2>2, <3>1, <3>2, <3>3
    <2> QED
        BY <2>1, <2>2
<1> QED
    BY <1>5, <1>6

LEMMA DockerRestartsInv == ASSUME IInv, NEW s \in Services, DockerRestarts(s) PROVE IInv'
<1> USE DEF IInv
<1>1. /\ step' \in [Services -> Steps] /\ step'[s] = "answer" /\ step[s] = "restart"
      /\ \A t \in Services \ {s} : step'[t] = step[t]
    BY Goes DEF DockerRestarts, Steps
<1>2. UNCHANGED <<row, running, left, failures, attempts, age, alerted, bounds>>
    BY DEF DockerRestarts, memory
<1>3. restarts[s] \in 0..4 /\ attempts[s] \in 0..3 /\ restarts[s] <= attempts[s] /\ attempts[s] < 3
    BY <1>1 DEF TypeOK, Counted, Uncounted, RestartLimit
<1>4. restarts' = [restarts EXCEPT ![s] = @ + 1]
    <2>1. ~(restarts[s] > RestartLimit)
        BY <1>3 DEF RestartLimit
    <2> QED
        BY <2>1 DEF DockerRestarts
<1>5. container' \in [Services -> 0..Down]
    <2>1. PICK state \in Started(s) : container' = [container EXCEPT ![s] = state]
        BY DEF DockerRestarts
    <2>2. state \in 0..Down
        BY <2>1, DownType DEF Started
    <2> QED
        BY <2>1, <2>2 DEF TypeOK
<1>6. TypeOK'
    <2>1. restarts[s] + 1 \in 0..(RestartLimit + 1)
        BY <1>3 DEF RestartLimit
    <2> QED
        BY <1>1, <1>2, <1>4, <1>5, <2>1 DEF TypeOK
<1>7. ASSUME NEW t \in Services PROVE Counted(t)' /\ Spaced(t)' /\ Alerted(t)'
    <2>1. CASE t # s
        BY <2>1, <1>1, <1>2, <1>4, Same DEF TypeOK
    <2>2. CASE t = s
        <3>1. restarts'[s] = restarts[s] + 1
            BY <1>4 DEF TypeOK
        <3> QED
            BY <2>2, <3>1, <1>1, <1>2, <1>3 DEF Counted, Spaced, Alerted, Uncounted, RestartLimit
    <2> QED
        BY <2>1, <2>2
<1> QED
    BY <1>6, <1>7

LEMMA RestartEndsInv ==
  ASSUME IInv, NEW s \in Services, RestartReported(s) \/ RestartFails(s) PROVE IInv'
<1> USE DEF IInv
<1>1. step[s] \in {"restart", "answer"} /\ Goto(s, "none")
    BY DEF RestartReported, RestartFails
<1>2. /\ step' \in [Services -> Steps] /\ step'[s] = "none"
      /\ \A t \in Services \ {s} : step'[t] = step[t]
    BY <1>1, Goes DEF Steps
<1>3. attempts[s] \in 0..3 /\ attempts[s] < 3 /\ restarts[s] \in 0..4
    BY <1>1 DEF TypeOK, Counted, RestartLimit
<1>4. /\ attempts' = [attempts EXCEPT ![s] = @ + 1]
      /\ UNCHANGED <<container, row, running, left, restarts, alerted>>
    BY DEF RestartReported, RestartFails, history
<1>5. /\ failures' \in [Services -> 0..FailureLimit] /\ age' \in [Services -> 0..FailureLimit]
      /\ failures'[s] <= age'[s]
      /\ \A t \in Services \ {s} : failures'[t] = failures[t] /\ age'[t] = age[t]
    <2>1. CASE RestartReported(s)
        BY <2>1 DEF RestartReported, TypeOK, FailureLimit
    <2>2. CASE RestartFails(s)
        BY <2>2 DEF RestartFails, TypeOK, history, Spaced
    <2> QED
        BY <2>1, <2>2
<1>6. TypeOK'
    <2>1. Faulty \/ UNCHANGED bounds
        BY DEF RestartReported, RestartFails
    <2>2. attempts' \in [Services -> 0..RestartLimit]
        BY <1>3, <1>4 DEF TypeOK, RestartLimit
    <2> QED
        BY <1>2, <1>4, <1>5, <2>1, <2>2, FaultyType DEF TypeOK
<1>7. ASSUME NEW t \in Services PROVE Counted(t)' /\ Spaced(t)' /\ Alerted(t)'
    <2>1. CASE t # s
        BY <2>1, <1>2, <1>4, <1>5, Same DEF TypeOK
    <2>2. CASE t = s
        <3>1. attempts'[s] = attempts[s] + 1
            BY <1>4 DEF TypeOK
        <3>2. Counted(s)'
            BY <3>1, <1>1, <1>2, <1>3, <1>4 DEF Counted, Uncounted
        <3>3. Spaced(s)' /\ Alerted(s)'
            BY <1>1, <1>2, <1>4, <1>5 DEF Spaced, Alerted
        <3> QED
            BY <2>2, <3>2, <3>3
    <2> QED
        BY <2>1, <2>2
<1> QED
    BY <1>6, <1>7

LEMMA CrashInv == IInv /\ Crash => IInv'
<1> SUFFICES ASSUME IInv, Crash PROVE IInv'
    OBVIOUS
<1>1. TypeOK'
    <2>1. /\ Forgotten \in [Services -> 0..FailureLimit] /\ Forgotten \in [Services -> 0..RestartLimit]
          /\ Forgotten \in [Services -> 0..(RestartLimit + 1)]
        BY DEF Forgotten, FailureLimit, RestartLimit
    <2>2. bounds' \in [outages : Nat, faults : Nat, crashes : Nat]
        BY DEF IInv, TypeOK, Crash
    <2>3. step' \in [Services -> Steps] /\ running' \in BOOLEAN /\ left' \subseteq Services
        BY DEF Crash, Steps
    <2> QED
        BY <2>1, <2>2, <2>3 DEF IInv, Crash, TypeOK
<1>2. \A s \in Services : Counted(s)' /\ Spaced(s)' /\ Alerted(s)'
    BY DEF IInv, TypeOK, Crash, Counted, Spaced, Alerted, Uncounted, Forgotten, FailureLimit
<1> QED
    BY <1>1, <1>2 DEF IInv

LEMMA NextInv == IInv /\ [Next]_vars => IInv'
<1> SUFFICES ASSUME IInv, [Next]_vars PROVE IInv'
    OBVIOUS
<1>1. CASE LoadServices \/ EndRound \/ UNCHANGED vars
    BY <1>1, QuietInv
<1>2. CASE Crash
    BY <1>2, CrashInv
<1>3. ASSUME NEW s \in Services, Fails(s) \/ Recovers(s) PROVE IInv'
    BY <1>3, QuietInv
<1>4. ASSUME NEW s \in Services, Check(s) \/ HandleHealthy(s) \/ HandleUnhealthy(s) PROVE IInv'
    BY <1>4, CheckInv, HealthyInv, UnhealthyInv
<1>5. ASSUME NEW s \in Services, DockerRestarts(s) \/ RestartReported(s) \/ RestartFails(s)
      PROVE  IInv'
    BY <1>5, DockerRestartsInv, RestartEndsInv
<1> QED
    BY <1>1, <1>2, <1>3, <1>4, <1>5 DEF Next

THEOREM Invariance == Spec => []IInv
<1>1. IInv /\ [Next]_vars => IInv'
    BY NextInv
<1> QED
    BY StartInv, <1>1, PTL DEF Spec

\* Counters and containers stay in their ranges: no attempt is made beyond the limit.
THEOREM TypeCorrect == Spec => []TypeOK
<1>1. IInv => TypeOK
    BY DEF IInv
<1> QED
    BY Invariance, <1>1, PTL

\* Docker restarts a service three times at most between two healthy checks of it.
THEOREM RestartsAreBounded == Spec => []RestartsBounded
<1>1. IInv => RestartsBounded
    <2> SUFFICES ASSUME IInv, NEW s \in Services PROVE restarts[s] <= RestartLimit
        BY DEF RestartsBounded
    <2>1. restarts[s] \in 0..4 /\ attempts[s] \in 0..3
        BY DEF IInv, TypeOK, RestartLimit
    <2> QED
        BY <2>1 DEF IInv, Counted, Uncounted, RestartLimit
<1> QED
    BY Invariance, <1>1, PTL

\* A restart is asked for only when three checks have passed since the last reported one.
THEOREM RestartsAreSpaced == Spec => []Patient
<1>1. IInv => Patient
    BY DEF IInv, Spaced, Patient
<1> QED
    BY Invariance, <1>1, PTL

\* A service an alert was raised for is not restarted before a check finds it healthy.
THEOREM AlertedIsLeftAlone == Spec => LeftAlone
<1> DEFINE Alone == \A s \in Services : s \in alerted /\ s \in alerted' => restarts'[s] = restarts[s]
<1>1. IInv /\ [Next]_vars => [Alone]_vars
    <2> SUFFICES ASSUME IInv, [Next]_vars, NEW s \in Services, s \in alerted, s \in alerted'
                 PROVE  restarts'[s] = restarts[s]
        OBVIOUS
    <2>1. step[s] \notin {"restart", "answer"} /\ restarts \in [Services -> 0..RestartLimit + 1]
        BY DEF IInv, Alerted, TypeOK
    <2>2. CASE Crash
        BY <2>2 DEF Crash
    <2>3. ASSUME NEW t \in Services, DockerRestarts(t) PROVE restarts'[s] = restarts[s]
        BY <2>1, <2>3 DEF DockerRestarts
    <2>4. ASSUME NEW t \in Services, HandleHealthy(t) PROVE restarts'[s] = restarts[s]
        BY <2>1, <2>4 DEF HandleHealthy
    <2>5. CASE \/ LoadServices \/ EndRound \/ UNCHANGED vars
               \/ \E t \in Services :
                    \/ Check(t) \/ HandleUnhealthy(t) \/ RestartReported(t) \/ RestartFails(t)
                    \/ Fails(t) \/ Recovers(t)
        BY <2>5 DEF LoadServices, EndRound, Check, HandleUnhealthy, RestartReported, RestartFails,
                    Fails, Recovers, vars, history
    <2> QED
        BY <2>2, <2>3, <2>4, <2>5 DEF Next
<1> QED
    BY Invariance, <1>1, PTL DEF Spec, LeftAlone
================================================================================
