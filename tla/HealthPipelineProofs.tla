------------------------- MODULE HealthPipelineProofs -------------------------
(***************************************************************************)
(* The invariants of HealthPipeline, for all checks, retries, capacities   *)
(* and numbers of registrations.                                           *)
(*                                                                         *)
(* ReportDue: between the critical section that changes a counter and the  *)
(* one that reports, the goroutine that owes the report is at "report".    *)
(* NewestInFlight: Checker.mu is held over the send, so the results of a   *)
(* Checker enter the channel in the order they were decided, and its       *)
(* newest result in flight is what it last decided.                        *)
(*                                                                         *)
(* That the status follows needs in addition OwnResults, that a result is  *)
(* not applied to a later registration than the one it was sent for.  The  *)
(* code does not see to that: it is a hypothesis of StatusFollows.  That   *)
(* no registration is made while results or checks of an earlier one are   *)
(* left would do (ResultsOwned).                                           *)
(***************************************************************************)
EXTENDS HealthPipeline, SequenceTheorems, TLAPS

\* A report that is no longer right is about to be replaced.
ReportDue ==
  \A k \in Checkers :
    lastHealthy[k] \notin {None, AllBelow(k)} => \E i \in Checks : pc[k][i] = "report"

\* The goroutines of a Checker exist once it was registered.
UnusedIdle == \A k \in Checkers : ctx[k] = "unused" => \A i \in Checks : pc[k][i] = "wait"

\* One goroutine at a time holds Checker.mu over a send.
OneSender ==
  \A k \in Checkers : \A i, j \in Checks :
    pc[k][i] \in Sending /\ pc[k][j] \in Sending => i = j

\* Result n is the newest one of Checker k in the channel.
NewestQueued(k, n) ==
  /\ n \in DOMAIN healthCh /\ healthCh[n].from = k
  /\ \A m \in DOMAIN healthCh : m > n => healthCh[m].from # k

NewestInFlight ==
  \A k \in Checkers :
    /\ \A i \in Checks : pc[k][i] \in Sending => lastHealthy[k] = (pc[k][i] = "sendUp")
    /\ Unlocked(k) => \A n \in DOMAIN healthCh :
         NewestQueued(k, n) => lastHealthy[k] = healthCh[n].healthy

IInv == TypeOK /\ ReportDue /\ UnusedIdle /\ OneSender /\ NewestInFlight

\* A registration is made only when nothing is left of the earlier ones.
NoOverlap == current = None /\ current' # None => \A k \in Checkers : Gone(k)

OthersGone == current # None => \A k \in Checkers \ {current} : Gone(k)

\* Without a result on its way, the status is what was last decided.
Delivered ==
  /\ current # None /\ Unlocked(current)
  /\ \A n \in DOMAIN healthCh : healthCh[n].from # current
  => healthy = lastHealthy[current]

SoloInv == IInv /\ OthersGone

\* A result that is applied is one of the unit's registration.
OwnResults == UpdateHealth /\ current # None => Head(healthCh).from = current

\* Who sent a result has decided one since it was registered.
SentDecided == \A n \in DOMAIN healthCh : lastHealthy[healthCh[n].from] # None

\* Nobody says that a unit is healthy before one of its checks has passed.
SomePassed ==
  \A k \in Checkers :
    /\ \A i \in Checks : pc[k][i] = "report" => i \in passed[k] \/ failures[k][i] = Retries
    /\ lastHealthy[k] = TRUE => passed[k] # {}
    /\ \A n \in DOMAIN healthCh :
         healthCh[n].from = k /\ healthCh[n].healthy = TRUE => passed[k] # {}

\* A unit is called healthy only if one of its checks passed in its present
\* registration.
HealthySincePassed == current # None /\ healthy = TRUE => passed[current] # {}

Results == [from : Checkers, healthy : BOOLEAN]

----------------------------------------------------------------------------
\* A step of one goroutine moves that goroutine only.
LEMMA Moves ==
  ASSUME TypeOK, NEW k \in Checkers, NEW i \in Checks, NEW to \in Places,
         pc' = [pc EXCEPT ![k][i] = to]
  PROVE  /\ pc' \in [Checkers -> [Checks -> Places]]
         /\ \A l \in Checkers : \A j \in Checks :
              pc'[l][j] = IF l = k /\ j = i THEN to ELSE pc[l][j]
BY DEF TypeOK

\* What the channel holds after a send and after a receive.
LEMMA Appended ==
  ASSUME TypeOK, NEW r \in Results, healthCh' = Append(healthCh, r)
  PROVE  /\ healthCh' \in Seq(Results) /\ Len(healthCh') = Len(healthCh) + 1
         /\ DOMAIN healthCh = 1..Len(healthCh)
         /\ DOMAIN healthCh' = 1..(Len(healthCh) + 1)
         /\ healthCh'[Len(healthCh) + 1] = r
         /\ \A n \in 1..Len(healthCh) : healthCh'[n] = healthCh[n]
BY DEF TypeOK, Results

LEMMA Received ==
  ASSUME TypeOK, healthCh # <<>>, healthCh' = Tail(healthCh)
  PROVE  /\ healthCh' \in Seq(Results) /\ Len(healthCh') = Len(healthCh) - 1
         /\ Len(healthCh) \in Nat \ {0}
         /\ DOMAIN healthCh = 1..Len(healthCh)
         /\ DOMAIN healthCh' = 1..(Len(healthCh) - 1)
         /\ \A n \in 1..(Len(healthCh) - 1) : healthCh'[n] = healthCh[n + 1]
         /\ Head(healthCh) = healthCh[1] /\ healthCh[1] \in Results
<1>1. healthCh \in Seq(Results) BY DEF TypeOK, Results
<1>2. Len(healthCh) \in Nat \ {0} /\ DOMAIN healthCh = 1..Len(healthCh)
  BY <1>1, EmptySeq, LenProperties
<1>3. /\ Tail(healthCh) \in Seq(Results) /\ Len(Tail(healthCh)) = Len(healthCh) - 1
      /\ \A n \in 1..Len(Tail(healthCh)) : Tail(healthCh)[n] = healthCh[n + 1]
  BY <1>1, HeadTailProperties
<1>4. DOMAIN Tail(healthCh) = 1..Len(Tail(healthCh)) BY <1>3, LenProperties
<1>5. healthCh[1] \in Results BY <1>1, <1>2, ElementOfSeq
<1>6. Head(healthCh) = healthCh[1] BY <1>1
<1> QED BY <1>2, <1>3, <1>4, <1>5, <1>6

\* Every step keeps every variable in its type.
LEMMA TypeStep ==
  ASSUME TypeOK, [Next]_vars
  PROVE  TypeOK'
<1> USE RetriesAssumption DEF checkerVars, statusVars
<1>1. ASSUME NEW k \in Checkers, Register(k) PROVE TypeOK'
  <2>1. /\ pc' \in [Checkers -> [Checks -> Places]]
        /\ failures' \in [Checkers -> [Checks -> 0..Retries]]
    BY <1>1 DEF Register, TypeOK, Places, RetriesAssumption
  <2> QED BY <1>1, <2>1 DEF Register, TypeOK
<1>2. CASE Unregister BY <1>2 DEF Unregister, TypeOK
<1>3. ASSUME NEW k \in Checkers, NEW i \in Checks, BeginProbe(k, i) PROVE TypeOK'
  <2>1. "probe" \in Places BY DEF Places
  <2>2. pc' \in [Checkers -> [Checks -> Places]] BY <1>3, <2>1, Moves DEF BeginProbe, At
  <2> QED BY <1>3, <2>2 DEF BeginProbe, TypeOK
<1>4. ASSUME NEW k \in Checkers, NEW i \in Checks, CheckExits(k, i) PROVE TypeOK'
  <2>1. "done" \in Places BY DEF Places
  <2>2. pc' \in [Checkers -> [Checks -> Places]] BY <1>4, <2>1, Moves DEF CheckExits, At
  <2> QED BY <1>4, <2>2 DEF CheckExits, TypeOK
<1>5. ASSUME NEW k \in Checkers, NEW i \in Checks, ProbeFails(k, i) PROVE TypeOK'
  <2> DEFINE count == IF failures[k][i] < Retries THEN failures[k][i] + 1 ELSE Retries
  <2>1. count \in 0..Retries BY DEF TypeOK, RetriesAssumption
  <2>2. /\ pc' = [pc EXCEPT ![k][i] = IF count >= Retries THEN "report" ELSE "wait"]
        /\ failures' = [failures EXCEPT ![k][i] = count]
        /\ UNCHANGED <<ctx, lastHealthy, passed, healthCh, current, healthy>>
    BY <1>5 DEF ProbeFails, At
  <2>3. (IF count >= Retries THEN "report" ELSE "wait") \in Places BY DEF Places
  <2>4. pc' \in [Checkers -> [Checks -> Places]] BY <2>2, <2>3, Moves
  <2>5. failures' \in [Checkers -> [Checks -> 0..Retries]] BY <2>1, <2>2 DEF TypeOK
  <2> QED BY <2>2, <2>4, <2>5 DEF TypeOK
<1>6. ASSUME NEW k \in Checkers, NEW i \in Checks, ProbePasses(k, i) PROVE TypeOK'
  <2>1. "report" \in Places BY DEF Places
  <2>2. pc' \in [Checkers -> [Checks -> Places]] BY <1>6, <2>1, Moves DEF ProbePasses, At
  <2>3. failures' \in [Checkers -> [Checks -> 0..Retries]]
    BY <1>6 DEF ProbePasses, TypeOK, RetriesAssumption
  <2> QED BY <1>6, <2>2, <2>3 DEF ProbePasses, TypeOK
<1>7. ASSUME NEW k \in Checkers, NEW i \in Checks, ReportStatus(k, i) PROVE TypeOK'
  <2> DEFINE to == IF lastHealthy[k] = AllBelow(k) THEN "wait"
                   ELSE IF AllBelow(k) THEN "sendUp" ELSE "sendDown"
  <2>1. to \in Places BY DEF Places, Sending
  <2>2. pc' \in [Checkers -> [Checks -> Places]] BY <1>7, <2>1, Moves DEF ReportStatus, At
  <2>3. AllBelow(k) \in BOOLEAN BY DEF AllBelow
  <2>4. lastHealthy' \in [Checkers -> BOOLEAN \cup {None}]
    BY <1>7, <2>3 DEF ReportStatus, TypeOK
  <2> QED BY <1>7, <2>2, <2>4 DEF ReportStatus, TypeOK
<1>8. ASSUME NEW k \in Checkers, NEW i \in Checks, Send(k, i) PROVE TypeOK'
  <2>1. "wait" \in Places BY DEF Places
  <2>2. pc' \in [Checkers -> [Checks -> Places]] BY <1>8, <2>1, Moves DEF Send
  <2>3. Result(k, i) \in Results BY DEF Result, Results
  <2>4. healthCh' \in Seq(Results) /\ Len(healthCh') <= Capacity
    BY <1>8, <2>3, Appended, CapacityAssumption DEF Send, TypeOK, CapacityAssumption
  <2> QED BY <1>8, <2>2, <2>4 DEF Send, TypeOK, Results
<1>9. CASE UpdateHealth
  <2>1. healthCh' \in Seq(Results) /\ Len(healthCh') <= Capacity
    BY <1>9, Received, CapacityAssumption DEF UpdateHealth, TypeOK, CapacityAssumption
  <2>2. healthy' \in BOOLEAN \cup {None}
    BY <1>9, Received DEF UpdateHealth, Results
  <2> QED BY <1>9, <2>1, <2>2 DEF UpdateHealth, TypeOK, Results
<1>10. CASE UNCHANGED vars BY <1>10 DEF vars, TypeOK
<1> QED BY <1>1, <1>2, <1>3, <1>4, <1>5, <1>6, <1>7, <1>8, <1>9, <1>10
        DEF Next, CheckStep

----------------------------------------------------------------------------
\* Whether a Checker is below its retries depends on its own counters.
LEMMA BelowKept ==
  ASSUME NEW l \in Checkers, failures'[l] = failures[l]
  PROVE  AllBelow(l)' = AllBelow(l)
BY DEF AllBelow

\* A failure that does not use up the retries leaves the verdict as it is.
LEMMA FailureKeepsVerdict ==
  ASSUME TypeOK, NEW k \in Checkers, NEW i \in Checks, ProbeFails(k, i),
         pc'[k][i] # "report"
  PROVE  AllBelow(k)' = AllBelow(k)
<1> DEFINE count == IF failures[k][i] < Retries THEN failures[k][i] + 1 ELSE Retries
<1>1. count < Retries
  <2>1. pc' = [pc EXCEPT ![k][i] = IF count >= Retries THEN "report" ELSE "wait"]
    BY DEF ProbeFails, At
  <2>2. count \in 0..Retries /\ Retries \in Nat
    BY RetriesAssumption DEF TypeOK, RetriesAssumption
  <2> QED BY <2>1, <2>2 DEF TypeOK
<1>2. /\ failures[k][i] \in Nat /\ failures[k][i] < Retries
      /\ count = failures[k][i] + 1
  BY <1>1, RetriesAssumption DEF TypeOK, RetriesAssumption
<1>3. failures' = [failures EXCEPT ![k][i] = count] BY DEF ProbeFails
<1>4. \A j \in Checks : failures'[k][j] = IF j = i THEN count ELSE failures[k][j]
  BY <1>3 DEF TypeOK
<1> QED BY <1>1, <1>2, <1>4 DEF AllBelow

\* A verdict that changes is about to be reported.
LEMMA DueStep ==
  ASSUME TypeOK, ReportDue, [Next]_vars
  PROVE  ReportDue'
<1> USE DEF checkerVars, statusVars
<1> SUFFICES ASSUME NEW l \in Checkers, lastHealthy'[l] \notin {None, AllBelow(l)'}
             PROVE  \E j \in Checks : pc'[l][j] = "report"
  BY DEF ReportDue
<1>1. CASE failures'[l] = failures[l] /\ lastHealthy'[l] = lastHealthy[l]
           /\ \A j \in Checks : pc[l][j] = "report" => pc'[l][j] = "report"
  BY <1>1, BelowKept DEF ReportDue
<1>2. ASSUME NEW k \in Checkers, Register(k)
      PROVE  \E j \in Checks : pc'[l][j] = "report"
  <2>1. k # l BY <1>2 DEF Register, TypeOK
  <2> QED BY <1>1, <1>2, <2>1 DEF Register, TypeOK
<1>3. CASE Unregister \/ UpdateHealth \/ UNCHANGED vars
  BY <1>1, <1>3 DEF Unregister, UpdateHealth, vars
<1>4. ASSUME NEW k \in Checkers, NEW i \in Checks,
             BeginProbe(k, i) \/ CheckExits(k, i) \/ Send(k, i)
      PROVE  \E j \in Checks : pc'[l][j] = "report"
  <2>1. \E to \in Places : pc' = [pc EXCEPT ![k][i] = to]
    BY <1>4 DEF BeginProbe, CheckExits, Send, At, Places
  <2>2. pc[k][i] # "report" BY <1>4 DEF BeginProbe, CheckExits, Send, At, Sending
  <2>3. \A j \in Checks : pc[l][j] = "report" => pc'[l][j] = "report"
    BY <2>1, <2>2, Moves
  <2> QED BY <1>1, <1>4, <2>3 DEF BeginProbe, CheckExits, Send
<1>5. ASSUME NEW k \in Checkers, NEW i \in Checks, ProbeFails(k, i)
      PROVE  \E j \in Checks : pc'[l][j] = "report"
  <2> DEFINE to == IF (IF failures[k][i] < Retries THEN failures[k][i] + 1 ELSE Retries) >= Retries
                   THEN "report" ELSE "wait"
  <2>1. pc[k][i] = "probe" /\ pc' = [pc EXCEPT ![k][i] = to] /\ to \in Places
    BY <1>5 DEF ProbeFails, At, Places
  <2>2. \A j \in Checks : pc[l][j] = "report" => pc'[l][j] = "report"
    BY <2>1, Moves
  <2>3. lastHealthy' = lastHealthy BY <1>5 DEF ProbeFails
  <2>4. CASE k # l
    <3>1. failures'[l] = failures[l] BY <1>5, <2>4 DEF ProbeFails, TypeOK
    <3> QED BY <1>1, <2>2, <2>3, <3>1
  <2>5. CASE k = l
    BY <1>5, <2>2, <2>3, <2>5, FailureKeepsVerdict DEF ReportDue
  <2> QED BY <2>4, <2>5
<1>6. ASSUME NEW k \in Checkers, NEW i \in Checks, ProbePasses(k, i)
      PROVE  \E j \in Checks : pc'[l][j] = "report"
  <2>1. CASE k # l BY <1>1, <1>6, <2>1 DEF ProbePasses, At, TypeOK
  <2>2. CASE k = l BY <1>6, <2>2 DEF ProbePasses, At, TypeOK
  <2> QED BY <2>1, <2>2
<1>7. ASSUME NEW k \in Checkers, NEW i \in Checks, ReportStatus(k, i)
      PROVE  \E j \in Checks : pc'[l][j] = "report"
  <2>1. failures' = failures /\ lastHealthy' = [lastHealthy EXCEPT ![k] = AllBelow(k)]
    BY <1>7 DEF ReportStatus
  <2>2. k # l
    <3>1. AllBelow(l)' = AllBelow(l) BY <2>1, BelowKept
    <3> QED BY <2>1, <3>1 DEF TypeOK
  <2>3. lastHealthy'[l] = lastHealthy[l] /\ pc'[l] = pc[l]
    BY <1>7, <2>1, <2>2 DEF ReportStatus, At, TypeOK
  <2> QED BY <1>1, <2>1, <2>3
<1> QED BY <1>2, <1>3, <1>4, <1>5, <1>6, <1>7 DEF Next, CheckStep

----------------------------------------------------------------------------
\* A Checker that was never registered has no goroutine under way.
LEMMA UnusedStep ==
  ASSUME TypeOK, UnusedIdle, [Next]_vars
  PROVE  UnusedIdle'
<1> USE DEF checkerVars, statusVars
<1> SUFFICES ASSUME NEW l \in Checkers, ctx'[l] = "unused", NEW j \in Checks
             PROVE  pc'[l][j] = "wait"
  BY DEF UnusedIdle
<1>1. CASE ctx[l] = "unused" /\ pc'[l] = pc[l] BY <1>1 DEF UnusedIdle
<1>2. ASSUME NEW k \in Checkers, Register(k) PROVE pc'[l][j] = "wait"
  <2>1. k # l BY <1>2 DEF Register, TypeOK
  <2> QED BY <1>1, <1>2, <2>1 DEF Register, TypeOK
<1>3. CASE Unregister \/ UpdateHealth \/ UNCHANGED vars
  BY <1>1, <1>3, NoneAssumption DEF Unregister, UpdateHealth, vars, TypeOK
<1>4. ASSUME NEW k \in Checkers, NEW i \in Checks, BeginProbe(k, i) \/ CheckStep(k, i)
      PROVE  pc'[l][j] = "wait"
  <2>1. ctx' = ctx
    BY <1>4 DEF BeginProbe, CheckStep, CheckExits, ProbeFails, ProbePasses, ReportStatus, Send
  <2>2. k # l
    BY <1>4, <2>1 DEF UnusedIdle, BeginProbe, CheckStep, CheckExits, ProbeFails,
                      ProbePasses, ReportStatus, Send, At, Sending
  <2>3. pc'[l] = pc[l]
    BY <1>4, <2>2 DEF BeginProbe, CheckStep, CheckExits, ProbeFails, ProbePasses,
                      ReportStatus, Send, At, TypeOK
  <2> QED BY <1>1, <2>1, <2>3
<1> QED BY <1>2, <1>3, <1>4 DEF Next

----------------------------------------------------------------------------
(* The mutex over the send. *)

\* A goroutine begins to send only by reporting, with the mutex.
LEMMA SendersStep ==
  ASSUME TypeOK, [Next]_vars, NEW l \in Checkers, NEW j \in Checks, pc'[l][j] \in Sending
  PROVE  pc'[l][j] = pc[l][j] \/ ReportStatus(l, j)
<1> USE DEF checkerVars, statusVars
<1>1. ASSUME NEW k \in Checkers, Register(k)
      PROVE  pc'[l][j] = pc[l][j]
  BY <1>1 DEF Register, Sending, TypeOK
<1>2. CASE Unregister \/ UpdateHealth \/ UNCHANGED vars
  BY <1>2 DEF Unregister, UpdateHealth, vars
<1>3. ASSUME NEW k \in Checkers, NEW i \in Checks,
             BeginProbe(k, i) \/ CheckExits(k, i) \/ ProbeFails(k, i)
               \/ ProbePasses(k, i) \/ Send(k, i)
      PROVE  pc'[l][j] = pc[l][j]
  <2>1. \E to \in Places \ Sending : pc' = [pc EXCEPT ![k][i] = to]
    BY <1>3 DEF BeginProbe, CheckExits, ProbeFails, ProbePasses, Send, At, Places, Sending
  <2> QED BY <2>1, Moves
<1>4. ASSUME NEW k \in Checkers, NEW i \in Checks, ReportStatus(k, i)
      PROVE  pc'[l][j] = pc[l][j] \/ ReportStatus(l, j)
  <2>1. \E to \in Places : pc' = [pc EXCEPT ![k][i] = to]
    BY <1>4 DEF ReportStatus, At, Places, Sending
  <2> QED BY <1>4, <2>1, Moves
<1> QED BY <1>1, <1>2, <1>3, <1>4 DEF Next, CheckStep

LEMMA OneSenderStep ==
  ASSUME TypeOK, OneSender, [Next]_vars
  PROVE  OneSender'
<1> SUFFICES ASSUME NEW l \in Checkers, NEW i \in Checks, NEW j \in Checks,
                    pc'[l][i] \in Sending, pc'[l][j] \in Sending, i # j
             PROVE  FALSE
  BY DEF OneSender
<1>1. ASSUME NEW x \in Checks, NEW y \in Checks, x # y, ReportStatus(l, x)
      PROVE  pc'[l][y] \notin Sending
  <2>1. \E to \in Places : pc' = [pc EXCEPT ![l][x] = to]
    BY <1>1 DEF ReportStatus, At, Places, Sending
  <2>2. pc'[l][y] = pc[l][y] BY <1>1, <2>1, Moves
  <2> QED BY <1>1, <2>2 DEF ReportStatus, Unlocked
<1> QED BY <1>1, SendersStep DEF OneSender

----------------------------------------------------------------------------
\* Steps that concern neither the results nor the sends of Checker l.
LEMMA NewestKept ==
  ASSUME NewestInFlight, NEW l \in Checkers,
         lastHealthy'[l] = lastHealthy[l], healthCh' = healthCh,
         \A j \in Checks : /\ pc'[l][j] \in Sending => pc'[l][j] = pc[l][j]
                           /\ pc[l][j] \in Sending => pc'[l][j] \in Sending
  PROVE  /\ \A j \in Checks : pc'[l][j] \in Sending => lastHealthy'[l] = (pc'[l][j] = "sendUp")
         /\ Unlocked(l)' => \A n \in DOMAIN healthCh' :
              NewestQueued(l, n)' => lastHealthy'[l] = healthCh'[n].healthy
<1>1. Unlocked(l)' => Unlocked(l) BY DEF Unlocked
<1>2. \A n : NewestQueued(l, n)' <=> NewestQueued(l, n) BY DEF NewestQueued
<1>3. \A j \in Checks : pc[l][j] \in Sending => lastHealthy[l] = (pc[l][j] = "sendUp")
  BY DEF NewestInFlight
<1> QED BY <1>1, <1>2, <1>3 DEF NewestInFlight

\* Results of a Checker are decided, and enter the channel, one after the other.
LEMMA NewestStep ==
  ASSUME TypeOK, OneSender, NewestInFlight, [Next]_vars
  PROVE  NewestInFlight'
<1> USE DEF checkerVars, statusVars
<1> DEFINE Good(l) ==
      /\ \A j \in Checks : pc'[l][j] \in Sending => lastHealthy'[l] = (pc'[l][j] = "sendUp")
      /\ Unlocked(l)' => \A n \in DOMAIN healthCh' :
           NewestQueued(l, n)' => lastHealthy'[l] = healthCh'[n].healthy
<1> SUFFICES ASSUME NEW l \in Checkers PROVE Good(l) BY DEF NewestInFlight
<1>1. ASSUME NEW k \in Checkers, Register(k) PROVE Good(l)
  <2>1. CASE k # l BY <1>1, <2>1, NewestKept DEF Register, TypeOK
  <2>2. CASE k = l
    <3>1. \A n \in DOMAIN healthCh' : healthCh'[n].from # l
      BY <1>1, <2>2 DEF Register, Gone
    <3>2. \A j \in Checks : pc'[l][j] = "wait" BY <1>1, <2>2 DEF Register, TypeOK
    <3> QED BY <3>1, <3>2 DEF NewestQueued, Sending
  <2> QED BY <2>1, <2>2
<1>2. CASE Unregister \/ UNCHANGED vars BY <1>2, NewestKept DEF Unregister, vars
<1>3. ASSUME NEW k \in Checkers, NEW i \in Checks,
             BeginProbe(k, i) \/ CheckExits(k, i) \/ ProbeFails(k, i) \/ ProbePasses(k, i)
      PROVE  Good(l)
  <2>1. \E to \in Places \ Sending : pc' = [pc EXCEPT ![k][i] = to]
    BY <1>3 DEF BeginProbe, CheckExits, ProbeFails, ProbePasses, At, Places, Sending
  <2>2. pc[k][i] \notin Sending /\ UNCHANGED <<lastHealthy, healthCh>>
    BY <1>3 DEF BeginProbe, CheckExits, ProbeFails, ProbePasses, At, Sending
  <2>3. \A j \in Checks : /\ pc'[l][j] \in Sending => pc'[l][j] = pc[l][j]
                          /\ pc[l][j] \in Sending => pc'[l][j] \in Sending
    BY <2>1, <2>2, Moves
  <2> QED BY <2>2, <2>3, NewestKept
<1>4. ASSUME NEW k \in Checkers, NEW i \in Checks, ReportStatus(k, i) PROVE Good(l)
  <2> DEFINE to == IF lastHealthy[k] = AllBelow(k) THEN "wait"
                   ELSE IF AllBelow(k) THEN "sendUp" ELSE "sendDown"
  <2>1. /\ pc[k][i] = "report" /\ pc' = [pc EXCEPT ![k][i] = to] /\ Unlocked(k)
        /\ lastHealthy' = [lastHealthy EXCEPT ![k] = AllBelow(k)]
        /\ UNCHANGED healthCh
    BY <1>4 DEF ReportStatus, At
  <2>2. to \in Places BY DEF Places, Sending
  <2>3. \A m \in Checkers : \A j \in Checks :
          pc'[m][j] = IF m = k /\ j = i THEN to ELSE pc[m][j]
    BY <2>1, <2>2, Moves
  <2>4. CASE k # l BY <2>1, <2>3, <2>4, NewestKept DEF TypeOK
  <2>5. CASE k = l /\ lastHealthy[k] = AllBelow(k)
    <3>1. to = "wait" BY <2>5
    <3>2. lastHealthy'[l] = lastHealthy[l] BY <2>1, <2>5 DEF TypeOK
    <3>3. \A j \in Checks : /\ pc'[l][j] \in Sending => pc'[l][j] = pc[l][j]
                            /\ pc[l][j] \in Sending => pc'[l][j] \in Sending
      BY <2>1, <2>3, <2>5, <3>1 DEF Sending
    <3> QED BY <2>1, <3>2, <3>3, NewestKept
  <2>6. CASE k = l /\ lastHealthy[k] # AllBelow(k)
    <3>1. to = IF AllBelow(k) THEN "sendUp" ELSE "sendDown" BY <2>6
    <3>2. pc'[l][i] \in Sending BY <2>3, <2>6, <3>1 DEF Sending
    <3>3. ~Unlocked(l)' BY <3>2 DEF Unlocked
    <3>4. \A j \in Checks : pc'[l][j] \in Sending => j = i
      BY <2>1, <2>3, <2>6 DEF Unlocked
    <3>5. lastHealthy'[l] = AllBelow(l) BY <2>1, <2>6 DEF TypeOK
    <3>6. AllBelow(l) = (pc'[l][i] = "sendUp") BY <2>3, <2>6, <3>1 DEF AllBelow
    <3> QED BY <3>3, <3>4, <3>5, <3>6
  <2> QED BY <2>4, <2>5, <2>6
<1>5. ASSUME NEW k \in Checkers, NEW i \in Checks, Send(k, i) PROVE Good(l)
  <2>1. /\ pc[k][i] \in Sending /\ pc' = [pc EXCEPT ![k][i] = "wait"]
        /\ healthCh' = Append(healthCh, Result(k, i))
        /\ UNCHANGED lastHealthy
    BY <1>5 DEF Send
  <2>2. "wait" \in Places \ Sending BY DEF Places, Sending
  <2>3. \A m \in Checkers : \A j \in Checks :
          pc'[m][j] = IF m = k /\ j = i THEN "wait" ELSE pc[m][j]
    BY <2>1, <2>2, Moves
  <2>4. \A j \in Checks : pc'[l][j] \in Sending => pc'[l][j] = pc[l][j]
    BY <2>2, <2>3
  <2>5. \A j \in Checks : pc'[l][j] \in Sending => lastHealthy'[l] = (pc'[l][j] = "sendUp")
    BY <2>1, <2>4 DEF NewestInFlight
  <2>6. Result(k, i) \in Results /\ Result(k, i).from = k
        /\ Result(k, i).healthy = (pc[k][i] = "sendUp")
    BY DEF Result, Results
  <2>7. /\ Len(healthCh) \in Nat
        /\ DOMAIN healthCh = 1..Len(healthCh)
        /\ DOMAIN healthCh' = 1..(Len(healthCh) + 1)
        /\ healthCh'[Len(healthCh) + 1] = Result(k, i)
        /\ \A n \in 1..Len(healthCh) : healthCh'[n] = healthCh[n]
    BY <2>1, <2>6, Appended, LenProperties DEF TypeOK
  <2>8. CASE k # l
    <3>1. ASSUME NEW n \in DOMAIN healthCh', NewestQueued(l, n)'
          PROVE  NewestQueued(l, n) /\ healthCh'[n] = healthCh[n]
      <4>1. n \in DOMAIN healthCh BY <2>6, <2>7, <2>8, <3>1 DEF NewestQueued
      <4> QED BY <2>7, <3>1, <4>1 DEF NewestQueued
    <3>2. Unlocked(l)' => Unlocked(l) BY <2>3, <2>8 DEF Unlocked
    <3> QED BY <2>1, <2>5, <3>1, <3>2 DEF NewestInFlight, NewestQueued
  <2>9. CASE k = l
    <3>1. ASSUME NEW n \in DOMAIN healthCh', NewestQueued(l, n)'
          PROVE  n = Len(healthCh) + 1
      BY <2>6, <2>7, <2>9, <3>1 DEF NewestQueued
    <3>2. lastHealthy[k] = (pc[k][i] = "sendUp") BY <2>1 DEF NewestInFlight
    <3>3. lastHealthy'[l] = Result(k, i).healthy BY <2>1, <2>6, <2>9, <3>2
    <3> QED BY <2>5, <2>7, <3>1, <3>3
  <2> QED BY <2>8, <2>9
<1>6. CASE UpdateHealth
  <2>1. /\ UNCHANGED <<pc, lastHealthy>> /\ healthCh # <<>> /\ healthCh' = Tail(healthCh)
    BY <1>6 DEF UpdateHealth
  <2>2. /\ Len(healthCh) \in Nat \ {0}
        /\ DOMAIN healthCh = 1..Len(healthCh)
        /\ DOMAIN healthCh' = 1..(Len(healthCh) - 1)
        /\ \A n \in 1..(Len(healthCh) - 1) : healthCh'[n] = healthCh[n + 1]
    BY <2>1, Received
  <2>3. ASSUME NEW n \in DOMAIN healthCh', NewestQueued(l, n)'
        PROVE  NewestQueued(l, n + 1) /\ healthCh'[n] = healthCh[n + 1]
    <3>1. n + 1 \in DOMAIN healthCh BY <2>2
    <3>2. \A m \in DOMAIN healthCh : m > n + 1 => healthCh[m].from # l
      <4> SUFFICES ASSUME NEW m \in DOMAIN healthCh, m > n + 1
                   PROVE  healthCh[m].from # l
        OBVIOUS
      <4>1. m - 1 \in DOMAIN healthCh' /\ m - 1 > n /\ healthCh'[m - 1] = healthCh[m]
        BY <2>2
      <4> QED BY <2>3, <4>1 DEF NewestQueued
    <3> QED BY <2>2, <2>3, <3>1, <3>2 DEF NewestQueued
  <2>4. Unlocked(l)' = Unlocked(l) BY <2>1 DEF Unlocked
  <2>5. \A j \in Checks : pc'[l][j] \in Sending => lastHealthy'[l] = (pc'[l][j] = "sendUp")
    BY <2>1 DEF NewestInFlight
  <2> QED BY <2>1, <2>3, <2>4, <2>5 DEF NewestInFlight, NewestQueued
<1> QED BY <1>1, <1>2, <1>3, <1>4, <1>5, <1>6 DEF Next, CheckStep

----------------------------------------------------------------------------
LEMMA InitIInv == Init => IInv
<1> SUFFICES ASSUME Init PROVE IInv OBVIOUS
<1> USE DEF Init
<1>1. TypeOK
  <2>1. /\ pc \in [Checkers -> [Checks -> Places]]
        /\ failures \in [Checkers -> [Checks -> 0..Retries]]
    BY RetriesAssumption DEF Places, RetriesAssumption
  <2>2. healthCh \in Seq([from : Checkers, healthy : BOOLEAN]) /\ Len(healthCh) <= Capacity
    BY CapacityAssumption, EmptySeq DEF CapacityAssumption
  <2> QED BY <2>1, <2>2 DEF TypeOK
<1>2. ReportDue /\ UnusedIdle BY DEF ReportDue, UnusedIdle
<1>3. OneSender /\ NewestInFlight
  <2>1. \A k \in Checkers : \A i \in Checks : pc[k][i] \notin Sending BY DEF Sending
  <2> QED BY <2>1 DEF OneSender, NewestInFlight
<1> QED BY <1>1, <1>2, <1>3 DEF IInv

LEMMA NextIInv == IInv /\ [Next]_vars => IInv'
BY TypeStep, DueStep, UnusedStep, OneSenderStep, NewestStep DEF IInv

\* The conjunction that is preserved by every step.
THEOREM Inductive == Spec => []IInv
<1> QED BY InitIInv, NextIInv, PTL DEF Spec

\* Every variable keeps its type, and the channel its capacity.
THEOREM TypeCorrect == Spec => []TypeOK
<1>1. IInv => TypeOK BY DEF IInv
<1> QED BY <1>1, Inductive, PTL

\* Counting and reporting are critical sections of their own, and still the
\* last report is what the counters say, once nobody has one to make.
THEOREM ReportsCurrent == Spec => []ReportIsCurrent
<1>1. IInv => ReportIsCurrent BY DEF IInv, ReportDue, ReportIsCurrent
<1> QED BY <1>1, Inductive, PTL

\* However many goroutines report, and whatever registrations overlap, the
\* newest result of a Checker in flight is the last it decided: no older one
\* can arrive after it.
THEOREM ReportsInOrder == Spec => []NewestInFlight
<1>1. IInv => NewestInFlight BY DEF IInv
<1> QED BY <1>1, Inductive, PTL

----------------------------------------------------------------------------
(* Registrations one at a time. *)

\* A Checker of which nothing is left takes no step.
LEMMA GoneInert ==
  ASSUME UnusedIdle, NEW l \in Checkers, Gone(l), NEW i \in Checks
  PROVE  ~BeginProbe(l, i) /\ ~CheckStep(l, i)
BY DEF Gone, UnusedIdle, BeginProbe, CheckStep, CheckExits, ProbeFails,
       ProbePasses, ReportStatus, Send, At, Sending

LEMMA OthersGoneStep ==
  ASSUME TypeOK, UnusedIdle, OthersGone, [Next]_vars, NoOverlap
  PROVE  OthersGone'
<1> USE DEF checkerVars, statusVars
<1> SUFFICES ASSUME current' # None, NEW l \in Checkers, l # current'
             PROVE  Gone(l)'
  BY DEF OthersGone
<1>1. CASE Gone(l) /\ ctx'[l] = ctx[l] /\ pc'[l] = pc[l] /\ healthCh' = healthCh
  BY <1>1 DEF Gone
<1>2. ASSUME NEW k \in Checkers, Register(k) PROVE Gone(l)'
  <2>1. k # l /\ Gone(l) BY <1>2 DEF Register, NoOverlap
  <2> QED BY <1>1, <1>2, <2>1 DEF Register, TypeOK
<1>3. CASE Unregister BY <1>3 DEF Unregister
<1>4. CASE UNCHANGED vars BY <1>1, <1>4 DEF vars, OthersGone
<1>5. ASSUME NEW k \in Checkers, NEW i \in Checks, BeginProbe(k, i) \/ CheckStep(k, i)
      PROVE  Gone(l)'
  <2>1. current' = current /\ ctx' = ctx
    BY <1>5 DEF BeginProbe, CheckStep, CheckExits, ProbeFails, ProbePasses,
                ReportStatus, Send
  <2>2. Gone(l) BY <2>1 DEF OthersGone
  <2>3. k # l BY <1>5, <2>2, GoneInert
  <2>4. pc'[l] = pc[l]
    BY <1>5, <2>3 DEF BeginProbe, CheckStep, CheckExits, ProbeFails, ProbePasses,
                      ReportStatus, Send, At, TypeOK
  <2>5. CASE Send(k, i)
    <3>1. Result(k, i) \in Results /\ Result(k, i).from = k BY DEF Result, Results
    <3>2. /\ DOMAIN healthCh' = 1..(Len(healthCh) + 1)
          /\ healthCh'[Len(healthCh) + 1] = Result(k, i)
          /\ DOMAIN healthCh = 1..Len(healthCh) /\ Len(healthCh) \in Nat
          /\ \A n \in 1..Len(healthCh) : healthCh'[n] = healthCh[n]
      BY <2>5, <3>1, Appended, LenProperties DEF Send, TypeOK
    <3>3. \A n \in DOMAIN healthCh' : healthCh'[n].from # l
      BY <2>2, <2>3, <3>1, <3>2 DEF Gone
    <3> QED BY <2>1, <2>2, <2>4, <3>3 DEF Gone
  <2>6. CASE ~Send(k, i)
    <3>1. healthCh' = healthCh
      BY <1>5, <2>6 DEF BeginProbe, CheckStep, CheckExits, ProbeFails, ProbePasses,
                        ReportStatus
    <3> QED BY <1>1, <2>1, <2>2, <2>4, <3>1
  <2> QED BY <2>5, <2>6
<1>6. CASE UpdateHealth
  <2>1. Gone(l) /\ UNCHANGED <<ctx, pc>> BY <1>6 DEF UpdateHealth, OthersGone
  <2>2. /\ Len(healthCh) \in Nat \ {0}
        /\ DOMAIN healthCh = 1..Len(healthCh)
        /\ DOMAIN healthCh' = 1..(Len(healthCh) - 1)
        /\ \A n \in 1..(Len(healthCh) - 1) : healthCh'[n] = healthCh[n + 1]
    BY <1>6, Received DEF UpdateHealth
  <2>3. \A n \in DOMAIN healthCh' : n + 1 \in DOMAIN healthCh BY <2>2
  <2>4. \A n \in DOMAIN healthCh' : healthCh'[n].from # l BY <2>1, <2>2, <2>3 DEF Gone
  <2> QED BY <2>1, <2>4 DEF Gone
<1> QED BY <1>2, <1>3, <1>4, <1>5, <1>6 DEF Next

LEMMA DeliveredStep ==
  ASSUME IInv, Delivered, [Next]_vars, OwnResults
  PROVE  Delivered'
<1> USE DEF checkerVars, statusVars
<1> SUFFICES ASSUME current' # None, Unlocked(current)',
                    \A n \in DOMAIN healthCh' : healthCh'[n].from # current'
             PROVE  healthy' = lastHealthy'[current']
  BY DEF Delivered
<1>1. TypeOK /\ NewestInFlight BY DEF IInv
<1>2. ASSUME NEW k \in Checkers, Register(k) PROVE healthy' = lastHealthy'[current']
  BY <1>1, <1>2 DEF Register, TypeOK
<1>3. CASE Unregister BY <1>3 DEF Unregister
<1>4. ASSUME UNCHANGED <<current, healthy, lastHealthy, healthCh>>,
             Unlocked(current)' => Unlocked(current)
      PROVE  healthy' = lastHealthy'[current']
  BY <1>4 DEF Delivered
<1>5. CASE UNCHANGED vars BY <1>4, <1>5 DEF vars, Unlocked
<1>6. ASSUME NEW k \in Checkers, NEW i \in Checks, BeginProbe(k, i) \/ CheckStep(k, i)
      PROVE  healthy' = lastHealthy'[current']
  <2>1. current' = current /\ healthy' = healthy
    BY <1>6 DEF BeginProbe, CheckStep, CheckExits, ProbeFails, ProbePasses,
                ReportStatus, Send
  <2>2. current \in Checkers BY <1>1, <2>1 DEF TypeOK
  <2>3. CASE k # current
    <3>1. pc'[current] = pc[current] /\ lastHealthy'[current] = lastHealthy[current]
      BY <1>1, <1>6, <2>2, <2>3
         DEF BeginProbe, CheckStep, CheckExits, ProbeFails, ProbePasses, ReportStatus, Send,
             At, TypeOK
    <3>2. \A n \in DOMAIN healthCh : healthCh[n].from # current
      <4>1. CASE Send(k, i)
        <5>1. Result(k, i) \in Results  BY DEF Result, Results
        <5>2. /\ DOMAIN healthCh = 1..Len(healthCh) /\ Len(healthCh) \in Nat
              /\ DOMAIN healthCh' = 1..(Len(healthCh) + 1)
              /\ \A n \in 1..Len(healthCh) : healthCh'[n] = healthCh[n]
          BY <1>1, <4>1, <5>1, Appended, LenProperties DEF Send, TypeOK
        <5> QED  BY <2>1, <5>2
      <4>2. CASE ~Send(k, i)
        <5>1. healthCh' = healthCh
          BY <1>6, <4>2 DEF BeginProbe, CheckStep, CheckExits, ProbeFails, ProbePasses,
                            ReportStatus
        <5> QED  BY <2>1, <5>1
      <4> QED  BY <4>1, <4>2
    <3>3. Unlocked(current)  BY <2>1, <3>1 DEF Unlocked
    <3>4. current # None  BY <2>1
    <3>5. healthy = lastHealthy[current]  BY <3>2, <3>3, <3>4 DEF Delivered
    <3> QED  BY <2>1, <3>1, <3>5
  <2>4. CASE k = current /\ (BeginProbe(k, i) \/ CheckExits(k, i) \/ ProbeFails(k, i) \/ ProbePasses(k, i))
    <3>1. UNCHANGED <<lastHealthy, healthCh>>
      BY <2>4 DEF BeginProbe, CheckExits, ProbeFails, ProbePasses
    <3>2. \E to \in Places : pc' = [pc EXCEPT ![k][i] = to]
      BY <2>4 DEF BeginProbe, CheckExits, ProbeFails, ProbePasses, At, Places
    <3>3. pc[k][i] \notin Sending
      BY <2>4 DEF BeginProbe, CheckExits, ProbeFails, ProbePasses, At, Sending
    <3>4. \A j \in Checks : pc[k][j] \in Sending => pc'[k][j] \in Sending
      BY <1>1, <3>2, <3>3, Moves
    <3>5. Unlocked(current)' => Unlocked(current) BY <2>1, <2>4, <3>4 DEF Unlocked
    <3> QED BY <1>4, <2>1, <3>1, <3>5
  <2>5. CASE k = current /\ ReportStatus(k, i)
    <3>1. CASE lastHealthy[k] = AllBelow(k)
      <4>1. lastHealthy'[k] = lastHealthy[k] BY <1>1, <2>5, <3>1 DEF ReportStatus, TypeOK
      <4>2. healthCh' = healthCh /\ Unlocked(k) BY <2>5 DEF ReportStatus
      <4> QED BY <2>1, <2>5, <4>1, <4>2 DEF Delivered
    <3>2. CASE lastHealthy[k] # AllBelow(k)
      <4> DEFINE to == IF AllBelow(k) THEN "sendUp" ELSE "sendDown"
      <4>1. pc' = [pc EXCEPT ![k][i] = to] BY <2>5, <3>2 DEF ReportStatus, At
      <4>2. to \in Places /\ to \in Sending BY DEF Places, Sending
      <4>3. pc'[k][i] \in Sending BY <1>1, <4>1, <4>2, Moves
      <4> QED BY <2>1, <2>5, <4>3 DEF Unlocked
    <3> QED BY <3>1, <3>2
  <2>6. CASE k = current /\ Send(k, i)
    <3>1. Result(k, i) \in Results /\ Result(k, i).from = k BY DEF Result, Results
    <3>2. /\ DOMAIN healthCh' = 1..(Len(healthCh) + 1) /\ Len(healthCh) \in Nat
          /\ healthCh'[Len(healthCh) + 1] = Result(k, i)
      BY <1>1, <2>6, <3>1, Appended, LenProperties DEF Send, TypeOK
    <3> QED BY <2>1, <2>6, <3>1, <3>2
  <2> QED BY <1>6, <2>3, <2>4, <2>5, <2>6 DEF CheckStep
<1>7. CASE UpdateHealth
  <2>1. /\ UNCHANGED <<current, lastHealthy, pc>> /\ healthCh # <<>>
        /\ healthCh' = Tail(healthCh) /\ healthy' = Head(healthCh).healthy
    BY <1>7 DEF UpdateHealth
  <2>2. /\ Len(healthCh) \in Nat \ {0}
        /\ DOMAIN healthCh = 1..Len(healthCh)
        /\ DOMAIN healthCh' = 1..(Len(healthCh) - 1)
        /\ \A n \in 1..(Len(healthCh) - 1) : healthCh'[n] = healthCh[n + 1]
        /\ Head(healthCh) = healthCh[1] /\ healthCh[1] \in Results
    BY <1>1, <2>1, Received
  <2>3. healthCh[1].from = current
    <3>1. Head(healthCh).from = current  BY <1>7, <2>1 DEF OwnResults
    <3> QED BY <2>2, <3>1
  <2>4. \A m \in DOMAIN healthCh : m > 1 => healthCh[m].from # current
    <3> SUFFICES ASSUME NEW m \in DOMAIN healthCh, m > 1
                 PROVE  healthCh[m].from # current
      OBVIOUS
    <3>1. m - 1 \in DOMAIN healthCh' /\ healthCh'[m - 1] = healthCh[m] BY <2>2
    <3> QED BY <2>1, <3>1
  <2>5. NewestQueued(current, 1) BY <2>2, <2>3, <2>4 DEF NewestQueued
  <2>6. Unlocked(current) /\ current \in Checkers BY <1>1, <2>1 DEF Unlocked, TypeOK
  <2>7. 1 \in DOMAIN healthCh BY <2>2
  <2>8. lastHealthy[current] = healthCh[1].healthy
    BY <1>1, <2>5, <2>6, <2>7 DEF NewestInFlight
  <2> QED BY <2>1, <2>2, <2>8
<1> QED BY <1>2, <1>3, <1>5, <1>6, <1>7 DEF Next

\* A stutter is not a result's being applied.
LEMMA OwnResultsAlways == IInv /\ [OwnResults]_vars => OwnResults
<1> SUFFICES ASSUME IInv, UNCHANGED vars PROVE OwnResults  OBVIOUS
<1>1. healthCh' = healthCh  BY DEF vars
<1>2. ~UpdateHealth  BY <1>1, Received DEF UpdateHealth, IInv
<1> QED  BY <1>2 DEF OwnResults

\* As long as no result is applied to a later registration than its own,
\* results reach the status in the order they were decided: when none of the
\* registration's is on its way, the status is the last.
THEOREM StatusFollows == Spec /\ [][OwnResults]_vars => []StatusFollowsReports
<1> DEFINE Inv == IInv /\ Delivered
<1>1. Init => Inv  BY InitIInv DEF Delivered, Init
<1>2. Inv /\ [Next]_vars /\ [OwnResults]_vars => Inv'
  BY NextIInv, DeliveredStep, OwnResultsAlways
<1>3. Inv => StatusFollowsReports
  BY DEF Delivered, StatusFollowsReports, Unlocked
<1> QED  BY <1>1, <1>2, <1>3, PTL DEF Spec

LEMMA SentDecidedStep ==
  ASSUME IInv, SentDecided, [Next]_vars
  PROVE  SentDecided'
<1> USE DEF checkerVars, statusVars
<1> SUFFICES ASSUME NEW n \in DOMAIN healthCh' PROVE lastHealthy'[healthCh'[n].from] # None
  BY DEF SentDecided
<1>1. TypeOK /\ NewestInFlight  BY DEF IInv
<1>2. \A m \in DOMAIN healthCh : healthCh[m] \in Results
  <2>1. healthCh \in Seq(Results)  BY <1>1 DEF TypeOK, Results
  <2> QED  BY <2>1, ElementOfSeq, LenProperties
<1>3. ASSUME \A k \in Checkers : lastHealthy[k] # None => lastHealthy'[k] # None,
             \E m \in DOMAIN healthCh : healthCh'[n] = healthCh[m]
      PROVE  lastHealthy'[healthCh'[n].from] # None
  BY <1>2, <1>3 DEF SentDecided, Results
<1>4. ASSUME NEW k \in Checkers, Register(k) PROVE lastHealthy'[healthCh'[n].from] # None
  <2>1. healthCh' = healthCh /\ healthCh[n].from # k  BY <1>4 DEF Register, Gone
  <2> QED  BY <1>1, <1>2, <1>4, <2>1 DEF Register, SentDecided, TypeOK, Results
<1>5. CASE Unregister \/ UNCHANGED vars  BY <1>3, <1>5 DEF Unregister, vars
<1>6. ASSUME NEW k \in Checkers, NEW i \in Checks,
             BeginProbe(k, i) \/ CheckExits(k, i) \/ ProbeFails(k, i) \/ ProbePasses(k, i)
      PROVE  lastHealthy'[healthCh'[n].from] # None
  BY <1>3, <1>6 DEF BeginProbe, CheckExits, ProbeFails, ProbePasses
<1>7. ASSUME NEW k \in Checkers, NEW i \in Checks, ReportStatus(k, i)
      PROVE  lastHealthy'[healthCh'[n].from] # None
  <2>1. AllBelow(k) # None  BY NoneAssumption DEF AllBelow, NoneAssumption
  <2> QED  BY <1>1, <1>3, <1>7, <2>1 DEF ReportStatus, TypeOK
<1>8. ASSUME NEW k \in Checkers, NEW i \in Checks, Send(k, i)
      PROVE  lastHealthy'[healthCh'[n].from] # None
  <2>1. Result(k, i) \in Results /\ Result(k, i).from = k  BY DEF Result, Results
  <2>2. /\ DOMAIN healthCh = 1..Len(healthCh) /\ Len(healthCh) \in Nat
        /\ DOMAIN healthCh' = 1..(Len(healthCh) + 1)
        /\ healthCh'[Len(healthCh) + 1] = Result(k, i)
        /\ \A m \in 1..Len(healthCh) : healthCh'[m] = healthCh[m]
    BY <1>1, <1>8, <2>1, Appended, LenProperties DEF Send, TypeOK
  <2>3. lastHealthy[k] \in BOOLEAN /\ lastHealthy' = lastHealthy
    BY <1>1, <1>8 DEF Send, NewestInFlight
  <2>4. lastHealthy'[k] # None  BY <2>3, NoneAssumption DEF NoneAssumption
  <2>5. CASE n = Len(healthCh) + 1  BY <2>1, <2>2, <2>4, <2>5
  <2>6. CASE n # Len(healthCh) + 1
    <3>1. n \in DOMAIN healthCh /\ healthCh'[n] = healthCh[n]  BY <2>2, <2>6
    <3> QED  BY <1>3, <2>3, <3>1
  <2> QED  BY <2>5, <2>6
<1>9. CASE UpdateHealth
  <2>1. /\ Len(healthCh) \in Nat \ {0} /\ DOMAIN healthCh = 1..Len(healthCh)
        /\ DOMAIN healthCh' = 1..(Len(healthCh) - 1)
        /\ \A m \in 1..(Len(healthCh) - 1) : healthCh'[m] = healthCh[m + 1]
    BY <1>1, <1>9, Received DEF UpdateHealth
  <2>2. n + 1 \in DOMAIN healthCh /\ healthCh'[n] = healthCh[n + 1]  BY <2>1
  <2>3. lastHealthy' = lastHealthy  BY <1>9 DEF UpdateHealth
  <2> QED  BY <1>3, <2>2, <2>3
<1> QED  BY <1>4, <1>5, <1>6, <1>7, <1>8, <1>9 DEF Next, CheckStep

LEMMA StatusOwnStep ==
  ASSUME IInv, SentDecided, StatusIsOwn, [Next]_vars, OwnResults
  PROVE  StatusIsOwn'
<1> USE DEF checkerVars, statusVars
<1> SUFFICES ASSUME current' # None, healthy' # None PROVE lastHealthy'[current'] # None
  BY DEF StatusIsOwn
<1>1. TypeOK  BY DEF IInv
<1>2. ASSUME NEW k \in Checkers, Register(k) PROVE lastHealthy'[current'] # None
  BY <1>2 DEF Register
<1>3. CASE Unregister  BY <1>3 DEF Unregister
<1>4. CASE UNCHANGED vars  BY <1>4 DEF vars, StatusIsOwn
<1>5. ASSUME NEW k \in Checkers, NEW i \in Checks, BeginProbe(k, i) \/ CheckStep(k, i)
      PROVE  lastHealthy'[current'] # None
  <2>1. UNCHANGED <<current, healthy>>
    BY <1>5 DEF BeginProbe, CheckStep, CheckExits, ProbeFails, ProbePasses,
                ReportStatus, Send
  <2>2. lastHealthy[current] # None /\ current \in Checkers
    BY <1>1, <2>1 DEF StatusIsOwn, TypeOK
  <2>3. AllBelow(k) # None  BY NoneAssumption DEF AllBelow, NoneAssumption
  <2>4. lastHealthy' = lastHealthy \/ lastHealthy' = [lastHealthy EXCEPT ![k] = AllBelow(k)]
    BY <1>5 DEF BeginProbe, CheckStep, CheckExits, ProbeFails, ProbePasses,
                ReportStatus, Send
  <2> QED  BY <1>1, <2>1, <2>2, <2>3, <2>4 DEF TypeOK
<1>6. CASE UpdateHealth
  <2>1. UNCHANGED <<current, lastHealthy>> /\ healthCh # <<>> /\ healthCh' = Tail(healthCh)
    BY <1>6 DEF UpdateHealth
  <2>2. /\ Len(healthCh) \in Nat \ {0} /\ DOMAIN healthCh = 1..Len(healthCh)
        /\ Head(healthCh) = healthCh[1]
    BY <1>1, <2>1, Received
  <2>3. 1 \in DOMAIN healthCh /\ healthCh[1].from = current
    BY <1>6, <2>1, <2>2 DEF OwnResults
  <2>4. lastHealthy[healthCh[1].from] # None  BY <2>3 DEF SentDecided
  <2> QED  BY <2>1, <2>3, <2>4
<1> QED  BY <1>2, <1>3, <1>4, <1>5, <1>6 DEF Next

\* On the same condition a unit has a verdict only if a check of its present
\* registration came to one.
THEOREM StatusOwn == Spec /\ [][OwnResults]_vars => []StatusIsOwn
<1> DEFINE Inv == IInv /\ SentDecided /\ StatusIsOwn
<1>1. Init => Inv  BY InitIInv DEF SentDecided, StatusIsOwn, Init
<1>2. Inv /\ [Next]_vars /\ [OwnResults]_vars => Inv'
  BY NextIInv, SentDecidedStep, StatusOwnStep, OwnResultsAlways
<1>3. Inv => StatusIsOwn  OBVIOUS
<1> QED  BY <1>1, <1>2, <1>3, PTL DEF Spec

LEMMA SomePassedStep ==
  ASSUME IInv, SomePassed, [Next]_vars
  PROVE  SomePassed'
<1> USE DEF checkerVars, statusVars
<1> DEFINE Below(l) == \A i \in Checks : pc[l][i] = "report" =>
                         i \in passed[l] \/ failures[l][i] = Retries
           Sent(l) == \A n \in DOMAIN healthCh :
                        healthCh[n].from = l /\ healthCh[n].healthy = TRUE => passed[l] # {}
<1> SUFFICES ASSUME NEW l \in Checkers
             PROVE  Below(l)' /\ (lastHealthy'[l] = TRUE => passed'[l] # {}) /\ Sent(l)'
  BY DEF SomePassed
<1>1. TypeOK /\ NewestInFlight  BY DEF IInv
<1>2. Below(l) /\ (lastHealthy[l] = TRUE => passed[l] # {}) /\ Sent(l)  BY DEF SomePassed
<1>3. ASSUME UNCHANGED <<healthCh, lastHealthy>>, passed[l] \subseteq passed'[l]
      PROVE  (lastHealthy'[l] = TRUE => passed'[l] # {}) /\ Sent(l)'
  BY <1>2, <1>3
<1>4. ASSUME NEW k \in Checkers, Register(k)
      PROVE  Below(l)' /\ (lastHealthy'[l] = TRUE => passed'[l] # {}) /\ Sent(l)'
  <2>1. CASE k = l
    <3>1. \A i \in Checks : pc'[l][i] = "wait"  BY <1>1, <1>4, <2>1 DEF Register, TypeOK
    <3>2. lastHealthy'[l] = None  BY <1>1, <1>4, <2>1 DEF Register, TypeOK
    <3>3. None # TRUE  BY NoneAssumption DEF NoneAssumption
    <3>4. \A n \in DOMAIN healthCh' : healthCh'[n].from # l
      BY <1>4, <2>1 DEF Register, Gone
    <3> QED  BY <3>1, <3>2, <3>3, <3>4
  <2>2. CASE k # l
    <3>1. /\ pc'[l] = pc[l] /\ failures'[l] = failures[l] /\ passed'[l] = passed[l]
          /\ lastHealthy'[l] = lastHealthy[l] /\ healthCh' = healthCh
      BY <1>1, <1>4, <2>2 DEF Register, TypeOK
    <3> QED  BY <1>2, <3>1
  <2> QED  BY <2>1, <2>2
<1>5. CASE Unregister \/ UNCHANGED vars
  BY <1>2, <1>5 DEF Unregister, vars
<1>6. ASSUME NEW k \in Checkers, NEW i \in Checks, BeginProbe(k, i) \/ CheckExits(k, i)
      PROVE  Below(l)' /\ (lastHealthy'[l] = TRUE => passed'[l] # {}) /\ Sent(l)'
  <2>1. \E to \in Places \ {"report"} : pc' = [pc EXCEPT ![k][i] = to]
    BY <1>6 DEF BeginProbe, CheckExits, At, Places
  <2>2. \A j \in Checks : pc'[l][j] = "report" => pc[l][j] = "report"  BY <1>1, <2>1, Moves
  <2>3. UNCHANGED <<failures, passed, healthCh, lastHealthy>>
    BY <1>6 DEF BeginProbe, CheckExits
  <2> QED  BY <1>2, <1>3, <2>2, <2>3
<1>7. ASSUME NEW k \in Checkers, NEW i \in Checks, ProbeFails(k, i)
      PROVE  Below(l)' /\ (lastHealthy'[l] = TRUE => passed'[l] # {}) /\ Sent(l)'
  <2> DEFINE count == IF failures[k][i] < Retries THEN failures[k][i] + 1 ELSE Retries
             to == IF count >= Retries THEN "report" ELSE "wait"
  <2>1. /\ pc' = [pc EXCEPT ![k][i] = to] /\ to \in Places
        /\ failures' = [failures EXCEPT ![k][i] = count]
        /\ UNCHANGED <<passed, healthCh, lastHealthy>>
    BY <1>7 DEF ProbeFails, At, Places
  <2>2. to = "report" => count = Retries
    BY <1>1, RetriesAssumption DEF TypeOK, RetriesAssumption
  <2>3. \A j \in Checks : /\ pc'[l][j] = IF l = k /\ j = i THEN to ELSE pc[l][j]
                          /\ failures'[l][j] = IF l = k /\ j = i THEN count ELSE failures[l][j]
    BY <1>1, <2>1, Moves DEF TypeOK
  <2>4. Below(l)'
    <3> HIDE DEF to, count
    <3> QED  BY <1>2, <2>1, <2>2, <2>3
  <2> QED  BY <1>3, <2>1, <2>4
<1>8. ASSUME NEW k \in Checkers, NEW i \in Checks, ProbePasses(k, i)
      PROVE  Below(l)' /\ (lastHealthy'[l] = TRUE => passed'[l] # {}) /\ Sent(l)'
  <2>1. /\ pc' = [pc EXCEPT ![k][i] = "report"] /\ "report" \in Places
        /\ UNCHANGED <<healthCh, lastHealthy>>
    BY <1>8 DEF ProbePasses, At, Places
  <2>2. \A j \in Checks : /\ ~(l = k /\ j = i) => pc'[l][j] = pc[l][j]
                          /\ ~(l = k /\ j = i) => failures'[l][j] = failures[l][j]
    BY <1>1, <1>8, <2>1, Moves DEF ProbePasses, TypeOK
  <2>3. passed[l] \subseteq passed'[l] /\ (l = k => i \in passed'[l])
    BY <1>1, <1>8 DEF ProbePasses, TypeOK
  <2>4. Below(l)'  BY <1>2, <2>2, <2>3
  <2> QED  BY <1>3, <2>1, <2>3, <2>4
<1>9. ASSUME NEW k \in Checkers, NEW i \in Checks, ReportStatus(k, i)
      PROVE  Below(l)' /\ (lastHealthy'[l] = TRUE => passed'[l] # {}) /\ Sent(l)'
  <2> DEFINE to == IF lastHealthy[k] = AllBelow(k) THEN "wait"
                   ELSE IF AllBelow(k) THEN "sendUp" ELSE "sendDown"
  <2>1. /\ pc' = [pc EXCEPT ![k][i] = to]
        /\ pc[k][i] = "report" /\ UNCHANGED <<failures, passed, healthCh>>
        /\ lastHealthy' = [lastHealthy EXCEPT ![k] = AllBelow(k)]
    BY <1>9 DEF ReportStatus, At
  <2>2. \A j \in Checks : pc'[l][j] = "report" => pc[l][j] = "report"
    <3>1. to \in Places /\ to # "report"  BY DEF Places, Sending
    <3> QED  BY <1>1, <2>1, <3>1, Moves
  <2>3. Below(l)' /\ Sent(l)'  BY <1>2, <2>1, <2>2
  <2>4. ASSUME lastHealthy'[l] = TRUE PROVE passed'[l] # {}
    <3>1. CASE l # k  BY <1>1, <1>2, <2>1, <2>4, <3>1 DEF TypeOK
    <3>2. CASE l = k
      <4>1. AllBelow(k)
        <5>1. lastHealthy'[k] = AllBelow(k)  BY <1>1, <2>1 DEF TypeOK
        <5> QED  BY <2>4, <3>2, <5>1
      <4>2. failures[k][i] # Retries
        BY <4>1, RetriesAssumption DEF AllBelow, RetriesAssumption
      <4> QED  BY <1>2, <2>1, <3>2, <4>2
    <3> QED  BY <3>1, <3>2
  <2> QED  BY <2>3, <2>4
<1>10. ASSUME NEW k \in Checkers, NEW i \in Checks, Send(k, i)
       PROVE  Below(l)' /\ (lastHealthy'[l] = TRUE => passed'[l] # {}) /\ Sent(l)'
  <2>1. /\ pc' = [pc EXCEPT ![k][i] = "wait"] /\ "wait" \in Places
        /\ UNCHANGED <<failures, passed, lastHealthy>>
    BY <1>10 DEF Send, Places
  <2>2. \A j \in Checks : pc'[l][j] = "report" => pc[l][j] = "report"  BY <1>1, <2>1, Moves
  <2>3. Result(k, i) \in Results /\ Result(k, i).from = k
        /\ Result(k, i).healthy = (pc[k][i] = "sendUp")
    BY DEF Result, Results
  <2>4. /\ DOMAIN healthCh = 1..Len(healthCh) /\ Len(healthCh) \in Nat
        /\ DOMAIN healthCh' = 1..(Len(healthCh) + 1)
        /\ healthCh'[Len(healthCh) + 1] = Result(k, i)
        /\ \A m \in 1..Len(healthCh) : healthCh'[m] = healthCh[m]
    BY <1>1, <1>10, <2>3, Appended, LenProperties DEF Send, TypeOK
  <2>5. lastHealthy[k] = (pc[k][i] = "sendUp")  BY <1>1, <1>10 DEF Send, NewestInFlight
  <2>6. Sent(l)'
    <3> SUFFICES ASSUME NEW n \in DOMAIN healthCh',
                        healthCh'[n].from = l, healthCh'[n].healthy = TRUE
                 PROVE  passed'[l] # {}
      OBVIOUS
    <3>1. CASE n = Len(healthCh) + 1
      <4>1. l = k /\ Result(k, i).healthy = TRUE  BY <2>3, <2>4, <3>1
      <4>2. lastHealthy[k] = TRUE  BY <2>3, <2>5, <4>1
      <4> QED  BY <1>2, <2>1, <4>1, <4>2
    <3>2. CASE n # Len(healthCh) + 1
      <4>1. n \in DOMAIN healthCh /\ healthCh'[n] = healthCh[n]  BY <2>4, <3>2
      <4> QED  BY <1>2, <2>1, <4>1
    <3> QED  BY <3>1, <3>2
  <2> QED  BY <1>2, <2>1, <2>2, <2>6
<1>11. CASE UpdateHealth
  <2>1. /\ Len(healthCh) \in Nat \ {0} /\ DOMAIN healthCh = 1..Len(healthCh)
        /\ DOMAIN healthCh' = 1..(Len(healthCh) - 1)
        /\ \A m \in 1..(Len(healthCh) - 1) : healthCh'[m] = healthCh[m + 1]
    BY <1>1, <1>11, Received DEF UpdateHealth
  <2>2. \A n \in DOMAIN healthCh' : n + 1 \in DOMAIN healthCh /\ healthCh'[n] = healthCh[n + 1]
    BY <2>1
  <2>3. UNCHANGED <<pc, failures, passed, lastHealthy>>  BY <1>11 DEF UpdateHealth
  <2> QED  BY <1>2, <2>2, <2>3
<1> QED  BY <1>4, <1>5, <1>6, <1>7, <1>8, <1>9, <1>10, <1>11 DEF Next, CheckStep

LEMMA HealthyStep ==
  ASSUME IInv, SomePassed, HealthySincePassed, [Next]_vars, OwnResults
  PROVE  HealthySincePassed'
<1> USE DEF checkerVars, statusVars
<1> SUFFICES ASSUME current' # None, healthy' = TRUE PROVE passed'[current'] # {}
  BY DEF HealthySincePassed
<1>1. TypeOK  BY DEF IInv
<1>2. ASSUME NEW k \in Checkers, Register(k) PROVE passed'[current'] # {}
  BY <1>2, NoneAssumption DEF Register, NoneAssumption
<1>3. CASE Unregister  BY <1>3 DEF Unregister
<1>4. CASE UNCHANGED vars  BY <1>4 DEF vars, HealthySincePassed
<1>5. ASSUME NEW k \in Checkers, NEW i \in Checks, BeginProbe(k, i) \/ CheckStep(k, i)
      PROVE  passed'[current'] # {}
  <2>1. UNCHANGED <<current, healthy>>
    BY <1>5 DEF BeginProbe, CheckStep, CheckExits, ProbeFails, ProbePasses,
                ReportStatus, Send
  <2>2. passed' = passed \/ passed' = [passed EXCEPT ![k] = @ \cup {i}]
    BY <1>5 DEF BeginProbe, CheckStep, CheckExits, ProbeFails, ProbePasses,
                ReportStatus, Send
  <2>3. passed[current] # {} /\ current \in Checkers
    BY <1>1, <2>1 DEF HealthySincePassed, TypeOK
  <2> QED  BY <1>1, <2>1, <2>2, <2>3 DEF TypeOK
<1>6. CASE UpdateHealth
  <2>1. /\ UNCHANGED <<current, passed>> /\ healthCh # <<>> /\ healthCh' = Tail(healthCh)
        /\ healthy' = Head(healthCh).healthy
    BY <1>6 DEF UpdateHealth
  <2>2. /\ Len(healthCh) \in Nat \ {0} /\ DOMAIN healthCh = 1..Len(healthCh)
        /\ Head(healthCh) = healthCh[1]
    BY <1>1, <2>1, Received
  <2>3. /\ 1 \in DOMAIN healthCh /\ healthCh[1].from = current /\ healthCh[1].healthy = TRUE
        /\ current \in Checkers
    BY <1>1, <1>6, <2>1, <2>2 DEF OwnResults, TypeOK
  <2> QED  BY <2>1, <2>3 DEF SomePassed
<1> QED  BY <1>2, <1>3, <1>4, <1>5, <1>6 DEF Next

\* A check that has not run counts as passing, so HealthyMeansAllPassed fails;
\* but a unit is never healthy without any check having passed.
THEOREM HealthyHasPassed == Spec /\ [][OwnResults]_vars => []HealthySincePassed
<1> DEFINE Inv == IInv /\ SomePassed /\ HealthySincePassed
<1>1. Init => Inv
  <2> SUFFICES ASSUME Init PROVE SomePassed /\ HealthySincePassed  BY InitIInv
  <2>1. \A k \in Checkers : lastHealthy[k] # TRUE
    BY NoneAssumption DEF Init, NoneAssumption
  <2>2. \A k \in Checkers : \A i \in Checks : pc[k][i] # "report"  BY DEF Init
  <2>3. DOMAIN healthCh = {} /\ current = None  BY DEF Init
  <2> QED  BY <2>1, <2>2, <2>3 DEF SomePassed, HealthySincePassed
<1>2. Inv /\ [Next]_vars /\ [OwnResults]_vars => Inv'
  BY NextIInv, SomePassedStep, HealthyStep, OwnResultsAlways
<1>3. Inv => HealthySincePassed  OBVIOUS
<1> QED  BY <1>1, <1>2, <1>3, PTL DEF Spec

\* This is so if a registration waits until nothing is left of the earlier ones.
THEOREM ResultsOwned == Spec /\ [][NoOverlap]_vars => [][OwnResults]_vars
<1>1. Init => SoloInv  BY InitIInv DEF SoloInv, OthersGone, Init
<1>2. SoloInv /\ [Next]_vars /\ [NoOverlap]_vars => SoloInv'
  <2> SUFFICES ASSUME SoloInv, [Next]_vars, [NoOverlap]_vars PROVE SoloInv' OBVIOUS
  <2>1. NoOverlap BY DEF NoOverlap, vars, statusVars
  <2> QED BY <2>1, NextIInv, OthersGoneStep DEF SoloInv, IInv
<1>3. SoloInv => OwnResults
  <2> SUFFICES ASSUME SoloInv, UpdateHealth, current # None
               PROVE  Head(healthCh).from = current
    BY DEF OwnResults
  <2>1. healthCh # <<>> /\ healthCh' = Tail(healthCh)  BY DEF UpdateHealth
  <2>2. /\ Len(healthCh) \in Nat \ {0} /\ DOMAIN healthCh = 1..Len(healthCh)
        /\ Head(healthCh) = healthCh[1] /\ healthCh[1] \in Results
    BY <2>1, Received DEF SoloInv, IInv
  <2>3. 1 \in DOMAIN healthCh /\ healthCh[1].from \in Checkers  BY <2>2 DEF Results
  <2> QED  BY <2>2, <2>3 DEF SoloInv, OthersGone, Gone
<1> QED  BY <1>1, <1>2, <1>3, PTL DEF Spec
===============================================================================
