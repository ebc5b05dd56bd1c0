---------------------------- MODULE HealthPipeline ---------------------------
(***************************************************************************)
(* From the health checks of one unit to the status the daemon shows:      *)
(* the goroutines of healthcheck.Checker, the channel healthCh, the event  *)
(* loop that applies its results with StateManager.UpdateHealth, and the   *)
(* registrations of the unit, each of which makes a new Checker            *)
(* (registerUnit and unregisterUnit, Watch and Unwatch).                   *)
(*                                                                         *)
(* A result carries only the unit's name.  The model notes as well which   *)
(* Checker sent it: no action reads that, only properties do.              *)
(***************************************************************************)
EXTENDS Integers, Sequences

CONSTANTS Checkers,    \* slots for Checker objects, one per registration
          Checks,      \* the unit's health checks
          Retries,     \* HealthCheck.Retries
          Capacity,    \* the capacity of healthCh
          None         \* no registration, or no health known

ASSUME RetriesAssumption  == Retries \in Nat \ {0}
ASSUME CapacityAssumption == Capacity \in Nat \ {0}
ASSUME NoneAssumption     == None \notin Checkers \cup BOOLEAN

VARIABLES ctx,          \* each Checker's context: unused, live or cancelled
          pc,           \* where the goroutine of each check is
          failures,     \* Checker.failures, up to Retries
          lastHealthy,  \* Checker.lastHealthy
          passed,       \* the checks that have ever passed (history)
          healthCh,     \* the results on their way to the event loop
          current,      \* the Checker of the unit's registration
          healthy       \* UnitStatus.Healthy, while the unit is registered

checkerVars == <<pc, failures, lastHealthy, passed>>
statusVars  == <<current, healthy>>
vars == <<ctx, checkerVars, healthCh, statusVars>>

Init == /\ ctx = [k \in Checkers |-> "unused"]
        /\ pc = [k \in Checkers |-> [i \in Checks |-> "wait"]]
        /\ failures = [k \in Checkers |-> [i \in Checks |-> 0]]
        /\ lastHealthy = [k \in Checkers |-> None]
        /\ passed = [k \in Checkers |-> {}]
        /\ healthCh = <<>>
        /\ current = None /\ healthy = None

----------------------------------------------------------------------------
(* Registrations. *)

\* Nothing of what Checker k did is left, so its place can be taken by a new one.
Gone(k) == /\ \/ ctx[k] = "unused"
              \/ \A i \in Checks : pc[k][i] = "done"
           /\ \A n \in DOMAIN healthCh : healthCh[n].from # k

Register(k) == /\ current = None /\ Gone(k)
               /\ current' = k /\ healthy' = None
               /\ ctx' = [ctx EXCEPT ![k] = "live"]
               /\ pc' = [pc EXCEPT ![k] = [i \in Checks |-> "wait"]]
               /\ failures' = [failures EXCEPT ![k] = [i \in Checks |-> 0]]
               /\ lastHealthy' = [lastHealthy EXCEPT ![k] = None]
               /\ passed' = [passed EXCEPT ![k] = {}]
               /\ UNCHANGED healthCh

\* The context is cancelled and the status dropped: the checks that are under
\* way, and the results that were sent, are not waited for.
Unregister == /\ current # None
              /\ ctx' = [ctx EXCEPT ![current] = "cancelled"]
              /\ current' = None /\ healthy' = None
              /\ UNCHANGED <<checkerVars, healthCh>>

----------------------------------------------------------------------------
(* runCheck: the goroutine of check i of Checker k. *)

At(k, i, from, to) == /\ pc[k][i] = from
                      /\ pc' = [pc EXCEPT ![k][i] = to]

Sending == {"sendUp", "sendDown"}

MutantUnlocked(k) == \E i \in Checks : TRUE

\* Checker.mu is held while a result waits for room in the channel.
Unlocked(k) == \A i \in Checks : pc[k][i] \notin Sending

\* The ticker fired.  select may take it after the context is cancelled.
BeginProbe(k, i) == /\ ctx[k] # "unused"
                    /\ At(k, i, "wait", "probe")
                    /\ UNCHANGED <<ctx, failures, lastHealthy, passed, healthCh,
                                   statusVars>>

\* A check that fails goes on probing, and sees the cancelled context only
\* once it passes.
MutantCheckExits(k, i) == /\ ctx[k] = "cancelled" /\ failures[k][i] = 0
                          /\ At(k, i, "wait", "done")
                          /\ UNCHANGED <<ctx, failures, lastHealthy, passed,
                                         healthCh, statusVars>>

CheckExits(k, i) == /\ ctx[k] = "cancelled"
                    /\ At(k, i, "wait", "done")
                    /\ UNCHANGED <<ctx, failures, lastHealthy, passed, healthCh,
                                   statusVars>>

\* Probe returned an error; that its context was cancelled is one too.
ProbeFails(k, i) ==
  LET count == IF failures[k][i] < Retries THEN failures[k][i] + 1 ELSE Retries
  IN /\ Unlocked(k)
     /\ At(k, i, "probe", IF count >= Retries THEN "report" ELSE "wait")
     /\ failures' = [failures EXCEPT ![k][i] = count]
     /\ UNCHANGED <<ctx, lastHealthy, passed, healthCh, statusVars>>

\* Only failures are reported.
MutantProbePasses(k, i) == /\ Unlocked(k)
                           /\ At(k, i, "probe", "wait")
                           /\ failures' = [failures EXCEPT ![k][i] = 0]
                           /\ passed' = [passed EXCEPT ![k] = @ \cup {i}]
                           /\ UNCHANGED <<ctx, lastHealthy, healthCh, statusVars>>

ProbePasses(k, i) == /\ Unlocked(k)
                     /\ At(k, i, "probe", "report")
                     /\ failures' = [failures EXCEPT ![k][i] = 0]
                     /\ passed' = [passed EXCEPT ![k] = @ \cup {i}]
                     /\ UNCHANGED <<ctx, lastHealthy, healthCh, statusVars>>

\* No check of Checker k has used up its retries.
AllBelow(k) == \A i \in Checks : failures[k][i] < Retries

\* reportStatus: the result is sent only when it differs from the last one.
ReportStatus(k, i) ==
  /\ Unlocked(k)
  /\ At(k, i, "report", IF lastHealthy[k] = AllBelow(k) THEN "wait"
                        ELSE IF AllBelow(k) THEN "sendUp" ELSE "sendDown")
  /\ lastHealthy' = [lastHealthy EXCEPT ![k] = AllBelow(k)]
  /\ UNCHANGED <<ctx, failures, passed, healthCh, statusVars>>

Result(k, i) == [from |-> k, healthy |-> pc[k][i] = "sendUp"]

\* The channel has no bound.
MutantSendUnbounded(k, i) ==
  /\ pc[k][i] \in Sending
  /\ pc' = [pc EXCEPT ![k][i] = "wait"]
  /\ healthCh' = Append(healthCh, Result(k, i))
  /\ UNCHANGED <<ctx, failures, lastHealthy, passed, statusVars>>

\* A result that finds the channel full is dropped.
MutantSend(k, i) ==
  /\ pc[k][i] \in Sending
  /\ pc' = [pc EXCEPT ![k][i] = "wait"]
  /\ healthCh' = IF Len(healthCh) < Capacity
                 THEN Append(healthCh, Result(k, i)) ELSE healthCh
  /\ UNCHANGED <<ctx, failures, lastHealthy, passed, statusVars>>

Send(k, i) == /\ pc[k][i] \in Sending /\ Len(healthCh) < Capacity
              /\ pc' = [pc EXCEPT ![k][i] = "wait"]
              /\ healthCh' = Append(healthCh, Result(k, i))
              /\ UNCHANGED <<ctx, failures, lastHealthy, passed, statusVars>>

----------------------------------------------------------------------------
(* The event loop calls StateManager.UpdateHealth.                            *)

\* A result that comes after the unit was unregistered is dropped.  Which
\* registration it was sent for cannot be seen.
UpdateHealth ==
  /\ healthCh # <<>>
  /\ healthCh' = Tail(healthCh)
  /\ healthy' = IF current = None THEN None ELSE Head(healthCh).healthy
  /\ UNCHANGED <<ctx, checkerVars, current>>

CheckStep(k, i) == \/ CheckExits(k, i) \/ ProbeFails(k, i) \/ ProbePasses(k, i)
                   \/ ReportStatus(k, i) \/ Send(k, i)

Next == \/ \E k \in Checkers : \/ Register(k)
                               \/ \E i \in Checks : BeginProbe(k, i) \/ CheckStep(k, i)
        \/ Unregister \/ UpdateHealth

Spec == Init /\ [][Next]_vars

\* Goroutines run and probes return (each check has a timeout).  A cancelled
\* check exits although its ticker may be ready as well: select picks among the
\* ready cases at random.
FairSpec == /\ Spec /\ WF_vars(UpdateHealth)
            /\ \A k \in Checkers : \A i \in Checks :
                 WF_vars(CheckStep(k, i)) /\ SF_vars(CheckExits(k, i))

----------------------------------------------------------------------------
(* Properties *)

Places == {"wait", "probe", "report", "done"} \cup Sending

\* The variables have their types, and the channel its capacity.
TypeOK ==
  /\ ctx \in [Checkers -> {"unused", "live", "cancelled"}]
  /\ pc \in [Checkers -> [Checks -> Places]]
  /\ failures \in [Checkers -> [Checks -> 0..Retries]]
  /\ lastHealthy \in [Checkers -> BOOLEAN \cup {None}]
  /\ passed \in [Checkers -> SUBSET Checks]
  /\ healthCh \in Seq([from : Checkers, healthy : BOOLEAN])
  /\ Len(healthCh) <= Capacity
  /\ current \in Checkers \cup {None} /\ healthy \in BOOLEAN \cup {None}

\* The counters are updated in one critical section and reported in another,
\* by several goroutines; still, whenever none of them has a report to make,
\* what was last reported is what the counters say.
ReportIsCurrent ==
  \A k \in Checkers :
    lastHealthy[k] # None /\ (\A i \in Checks : pc[k][i] \notin {"report"} \cup Sending)
      => lastHealthy[k] = AllBelow(k)

\* Results reach the status in the order they were decided: when none is on
\* its way, the status is the last report.  This is what a single Checker at a
\* time gives; registrations that overlap are the subject of StatusIsOwn.
StatusFollowsReports ==
  /\ current # None /\ healthCh = <<>>
  /\ \A i \in Checks : pc[current][i] \notin Sending
  => healthy = lastHealthy[current]

\* Every report of the registered Checker reaches the status, unless it is
\* superseded, or the unit unregistered, first.
ReportsArrive ==
  \A k \in Checkers : \A b \in BOOLEAN :
    (current = k /\ lastHealthy[k] = b) ~>
      (healthy = b \/ lastHealthy[k] # b \/ current # k)

\* A full channel never keeps a cancelled check from exiting.
CancelledChecksExit ==
  \A k \in Checkers : \A i \in Checks : ctx[k] = "cancelled" ~> pc[k][i] = "done"

----------------------------------------------------------------------------
(* What the documentation says of the code, and the code does not do. *)

\* docs/config.md:201: a unit is considered healthy only when all its health
\* checks pass.
HealthyMeansAllPassed ==
  \A k \in Checkers : current = k /\ healthy = TRUE => passed[k] = Checks

\* daemon.go:262: monitoring lasts until ctx is cancelled or Unwatch is called.
\* Hence a status comes from the checks of its own registration.
StatusIsOwn == current # None /\ healthy # None => lastHealthy[current] # None

\* docs/config.md:201: when a check has exhausted its retries the unit is
\* marked unhealthy.
MarkedUnhealthy ==
  \A k \in Checkers :
    (current = k /\ lastHealthy[k] = FALSE) ~>
      (healthy = FALSE \/ lastHealthy[k] # FALSE \/ current # k)
=============================================================================
