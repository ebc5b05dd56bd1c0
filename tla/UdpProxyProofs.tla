---------------------------- MODULE UdpProxyProofs ----------------------------
(***************************************************************************)
(* The invariants of UdpProxy, for all clients, session slots and TTLs.    *)
(*                                                                         *)
(* Four kinds of goroutine close sessions, each under a key that may have  *)
(* got another session meanwhile.  What saves the count is that taking a   *)
(* session out of the table is one critical section: by OneOwner a session *)
(* is in the table once, or in the hands of one goroutine, never both, so  *)
(* it is closed once, and NoLostSocket says that it cannot fall out of     *)
(* both.                                                                   *)
(***************************************************************************)
EXTENDS UdpProxy, FiniteSetTheorems, TLAPS

Held == InTable \cup InHand

\* A session in the table is under the address it was made for: so it is there
\* only once.
SessionKeyed == \A c \in Clients : table[c] # NoSession => client[table[c]] = c

OneOwner ==
  /\ InTable \cap InHand = {}
  /\ \A g, h \in Goroutines : \A s \in Sessions : s \in hand[g] /\ s \in hand[h] => g = h

\* The session about to be stored is known to readLoop only.
PendingOwn == rpc = "store" => rsess \in Sessions \ Held /\ client[rsess] = rclient

DoneEmpty == rpc = "done" => InTable = {}

Ownership == SessionKeyed /\ OneOwner /\ PendingOwn /\ DoneEmpty

\* While readLoop forwards, its session is the client's, unless it was taken out:
\* only readLoop makes sessions.
ForwardedOwn == rpc = "forward" => table[rclient] \in {rsess, NoSession}

IInv == /\ TypeOK
        /\ Ownership
        /\ ActiveIsSessions
        /\ SessionKeepsUnitUp
        /\ NoLostSocket

----------------------------------------------------------------------------
(* The sessions in the table and in hand. *)

LEMMA InTableMember ==
  ASSUME TypeOK
  PROVE  \A s : s \in InTable <=> s \in Sessions /\ \E c \in Clients : table[c] = s
BY SessionsAssumption DEF InTable, TypeOK, SessionsAssumption

LEMMA InHandMember ==
  \A s : s \in InHand <=> \E g \in Goroutines : s \in hand[g]
BY DEF InHand

LEMMA HeldFinite ==
  ASSUME TypeOK
  PROVE  /\ Held \subseteq Sessions
         /\ IsFiniteSet(Held)
         /\ Cardinality(Held) \in Nat
<1>1. Held \subseteq Sessions BY InTableMember, InHandMember DEF Held, TypeOK
<1>2. IsFiniteSet(Held) BY <1>1, SessionsAssumption, FS_Subset DEF SessionsAssumption
<1> QED BY <1>1, <1>2, FS_CardinalityType

\* closeSession(key), whoever calls it and whatever the key maps to by now, and
\* the end of readLoop, move sessions from the table into the hands of one goroutine.
LEMMA Moved ==
  ASSUME TypeOK, SessionKeyed, OneOwner, UNCHANGED client,
         \/ \E g \in Goroutines : \E c \in Clients : Remove(g, c)
         \/ ReaderExits
         \/ UNCHANGED <<table, hand>>
  PROVE  /\ table' \in [Clients -> Sessions \cup {NoSession}]
         /\ hand' \in [Goroutines -> SUBSET Sessions]
         /\ Held' = Held /\ InTable' \subseteq InTable
         /\ SessionKeyed' /\ OneOwner'
<1>1. CASE UNCHANGED <<table, hand>>
  BY <1>1 DEF TypeOK, Held, InTable, InHand, SessionKeyed, OneOwner
<1>2. ASSUME NEW g \in Goroutines, NEW c \in Clients, Remove(g, c)
      PROVE  /\ table' \in [Clients -> Sessions \cup {NoSession}]
             /\ hand' \in [Goroutines -> SUBSET Sessions]
             /\ Held' = Held /\ InTable' \subseteq InTable
             /\ SessionKeyed' /\ OneOwner'
  <2>1. /\ table' \in [Clients -> Sessions \cup {NoSession}]
        /\ hand' \in [Goroutines -> SUBSET Sessions]
    BY <1>2 DEF Remove, TypeOK
  <2>2. InTable' = InTable \ {table[c]}
    BY <1>2 DEF Remove, InTable, TypeOK, SessionKeyed
  <2>3. InHand' = InHand \cup ({table[c]} \ {NoSession})
    BY <1>2 DEF Remove, InHand, TypeOK
  <2>4. table[c] # NoSession => table[c] \in InTable BY DEF InTable
  <2>5. Held' = Held BY <2>2, <2>3, <2>4, InTableMember, SessionsAssumption DEF Held, SessionsAssumption
  <2>6. SessionKeyed' BY <1>2 DEF Remove, SessionKeyed, TypeOK
  <2>7. OneOwner' 
    <3>1. (InTable \cap InHand)' = {} BY <2>2, <2>3, InTableMember, SessionsAssumption DEF OneOwner, SessionsAssumption
    <3>2. table[c] # NoSession => \A h \in Goroutines : table[c] \notin hand[h]
      BY <2>4, InHandMember DEF OneOwner
    <3>3. \A h \in Goroutines : hand'[h] = IF h = g THEN hand[h] \cup ({table[c]} \ {NoSession})
                                           ELSE hand[h]
      BY <1>2 DEF Remove, TypeOK
    <3> QED BY <3>1, <3>2, <3>3 DEF OneOwner
  <2> QED BY <2>1, <2>2, <2>5, <2>6, <2>7
<1>3. CASE ReaderExits
  <2>1. hand["reader"] = {} /\ "reader" \in Goroutines BY <1>3 DEF ReaderExits, Goroutines
  <2>2. /\ table' = [c \in Clients |-> NoSession]
        /\ \A h \in Goroutines : hand'[h] = IF h = "reader" THEN InTable ELSE hand[h]
    BY <1>3 DEF ReaderExits, TypeOK
  <2>3. InTable \subseteq Sessions BY InTableMember
  <2>4. hand' \in [Goroutines -> SUBSET Sessions]
    BY <1>3, <2>3 DEF ReaderExits, TypeOK
  <2>5. InTable' = {} BY <2>2 DEF InTable
  <2>6. InHand' = InHand \cup InTable
    <3>1. \A s : s \in InHand' <=> \E g \in Goroutines : s \in hand'[g] BY DEF InHand
    <3> QED BY <2>1, <2>2, <3>1, InHandMember
  <2>7. OneOwner'
    <3>1. \A s \in InTable : \A h \in Goroutines : s \notin hand[h]
      BY InHandMember DEF OneOwner
    <3> QED BY <2>2, <2>5, <3>1 DEF OneOwner
  <2> QED BY <2>2, <2>4, <2>5, <2>6, <2>7 DEF Held, SessionKeyed
<1> QED BY <1>1, <1>2, <1>3

----------------------------------------------------------------------------
\* Every step keeps every variable in its type, the count apart: that it does
\* not go below zero follows from ActiveIsSessions.
LEMMA TypeStep ==
  ASSUME TypeOK, [Next]_vars, active' \in Nat
  PROVE  TypeOK'
<1> USE ClientsAssumption, SessionsAssumption, TTLAssumption
        DEF TypeOK, sessionVars, readerVars, unitVars, serving
<1>1. ASSUME NEW g \in Goroutines, NEW c \in Clients, Remove(g, c)
      PROVE  /\ table' \in [Clients -> Sessions \cup {NoSession}]
             /\ hand' \in [Goroutines -> SUBSET Sessions]
  BY <1>1 DEF Remove
<1>2. CASE ReaderStep
  <2>1. CASE EnsureRunning BY <2>1 DEF EnsureRunning
  <2>2. CASE NoSessionMade BY <2>2 DEF NoSessionMade
  <2>3. CASE Store BY <2>3 DEF Store
  <2>4. CASE Forward BY <2>4 DEF Forward
  <2>5. CASE ForwardFails
    <3>1. "reader" \in Goroutines BY DEF Goroutines
    <3> QED BY <1>1, <2>5, <3>1 DEF ForwardFails
  <2>6. CASE ReaderExits BY <2>6, InTableMember DEF ReaderExits
  <2>7. ASSUME NEW s \in Sessions, Dialed(s) PROVE TypeOK'
    BY <2>7 DEF Dialed
  <2> QED BY <1>2, <2>1, <2>2, <2>3, <2>4, <2>5, <2>6, <2>7 DEF ReaderStep
<1>3. CASE CloseStep
  <2>1. ASSUME NEW g \in Goroutines, NEW s \in hand[g], FinishClose(g, s) PROVE TypeOK'
    BY <2>1 DEF FinishClose
  <2>2. ASSUME NEW c \in stale, CloseStale(c) PROVE TypeOK'
    <3>1. "expirer" \in Goroutines BY DEF Goroutines
    <3> QED BY <1>1, <2>2, <3>1 DEF CloseStale
  <2> QED BY <1>3, <2>1, <2>2 DEF CloseStep
<1>4. CASE CollectStale BY <1>4 DEF CollectStale, Expired
<1>5. ASSUME NEW c \in Clients, Refresh(c) \/ NewClient(c) PROVE TypeOK'
  <2>1. CASE Refresh(c) BY <2>1 DEF Refresh
  <2>2. CASE NewClient(c) BY <2>2 DEF NewClient
  <2> QED BY <1>5, <2>1, <2>2
<1>6. ASSUME NEW s \in Sessions, ReplyStep(s) \/ Reply(s) \/ ReadFails(s) PROVE TypeOK'
  <2>1. CASE SetDeadline(s) BY <2>1 DEF SetDeadline
  <2>2. CASE ReplyLoopCancelled(s) BY <2>2 DEF ReplyLoopCancelled
  <2>3. CASE Deliver(s) BY <2>3 DEF Deliver
  <2>4. CASE ReadTimesOut(s) BY <2>4 DEF ReadTimesOut
  <2>5. CASE ReplyLoopEnds(s)
    <3>1. s \in Goroutines /\ client[s] \in Clients BY DEF Goroutines
    <3> QED BY <1>1, <2>5, <3>1 DEF ReplyLoopEnds
  <2>6. CASE Reply(s) BY <2>6 DEF Reply
  <2>7. CASE ReadFails(s) BY <2>7 DEF ReadFails
  <2> QED BY <1>6, <2>1, <2>2, <2>3, <2>4, <2>5, <2>6, <2>7 DEF ReplyStep
<1>7. CASE IdleStop BY <1>7 DEF IdleStop
<1>8. CASE Tick
  <2>1. \A t \in 0..TTL : Older(t) \in 0..TTL BY DEF Older
  <2> QED BY <1>8, <2>1 DEF Tick
<1>9. CASE Shutdown BY <1>9 DEF Shutdown
<1>10. CASE CloseListener BY <1>10 DEF CloseListener
<1>11. CASE Finished \/ UNCHANGED vars BY <1>11 DEF Finished, vars
<1> QED BY <1>2, <1>3, <1>4, <1>5, <1>6, <1>7, <1>8, <1>9, <1>10, <1>11 DEF Next

----------------------------------------------------------------------------
\* The steps that change who holds what are few.
LEMMA StepKinds ==
  ASSUME TypeOK, [Next]_vars
  PROVE  \/ Store
         \/ \E s \in Sessions : Dialed(s)
         \/ \E g \in Goroutines : \E s \in hand[g] : FinishClose(g, s)
         \/ /\ UNCHANGED client
            /\ \/ \E g \in Goroutines : \E c \in Clients : Remove(g, c)
               \/ ReaderExits
               \/ UNCHANGED <<table, hand>>
            /\ UNCHANGED sock
            /\ rpc' = "store" => rpc = "store" /\ UNCHANGED <<rsess, rclient>>
            /\ rpc' = "done" => rpc = "done" \/ ReaderExits
<1> USE DEF sessionVars, readerVars, unitVars, serving
<1>1. CASE ReaderStep /\ ~Store /\ ~\E s \in Sessions : Dialed(s)
  <2>1. "reader" \in Goroutines BY DEF Goroutines
  <2> QED BY <1>1, <2>1 DEF ReaderStep, EnsureRunning, NoSessionMade, Forward,
                             ForwardFails, ReaderExits, TypeOK
<1>2. CASE \E c \in stale : CloseStale(c)
  <2>1. "expirer" \in Goroutines BY DEF Goroutines
  <2> QED BY <1>2, <2>1 DEF CloseStale, TypeOK
<1>3. ASSUME NEW c \in Clients, Refresh(c) \/ NewClient(c)
      PROVE  /\ UNCHANGED <<client, table, hand, sock>>
             /\ rpc' \in {"forward", "ensure"}
  BY <1>3 DEF Refresh, NewClient
<1>4. ASSUME NEW s \in Sessions, ReplyLoopEnds(s)
      PROVE  /\ UNCHANGED <<client, sock, readerVars>>
             /\ \E g \in Goroutines : \E c \in Clients : Remove(g, c)
  <2>1. s \in Goroutines /\ client[s] \in Clients BY DEF Goroutines, TypeOK
  <2> QED BY <1>4, <2>1 DEF ReplyLoopEnds
<1>5. ASSUME NEW s \in Sessions,
             ReplyStep(s) \/ Reply(s) \/ ReadFails(s), ~ReplyLoopEnds(s)
      PROVE  UNCHANGED <<client, table, hand, sock, readerVars>>
  BY <1>5 DEF ReplyStep, SetDeadline, ReplyLoopCancelled, Deliver, ReadTimesOut,
              Reply, ReadFails
<1>6. CASE CollectStale \/ IdleStop \/ Tick \/ Shutdown \/ CloseListener
           \/ Finished \/ UNCHANGED vars
  BY <1>6 DEF CollectStale, IdleStop, Tick, Shutdown, CloseListener, Finished, vars
<1> QED BY <1>1, <1>2, <1>3, <1>4, <1>5, <1>6 DEF Next, ReaderStep, CloseStep

LEMMA StoreHeld ==
  ASSUME TypeOK, Ownership, Store
  PROVE  /\ SessionKeyed' /\ OneOwner'
         /\ table[rclient] = NoSession => /\ InTable' = InTable \cup {rsess}
                                          /\ Held' = Held \cup {rsess}
         /\ table[rclient] # NoSession => InTable' = InTable /\ Held' = Held
<1> USE DEF serving, readerVars
<1>1. /\ rsess \in Sessions \ Held /\ client[rsess] = rclient /\ UNCHANGED <<client, hand>>
      /\ rclient \in Clients
  BY DEF Store, Ownership, PendingOwn, TypeOK
<1>2. InHand' = InHand BY <1>1 DEF InHand
<1>3. CASE table[rclient] = NoSession
  <2>1. table' = [table EXCEPT ![rclient] = rsess] BY <1>3 DEF Store
  <2>2. InTable' = InTable \cup {rsess}
    BY <1>1, <1>3, <2>1, SessionsAssumption DEF InTable, TypeOK, SessionsAssumption
  <2>3. Held' = Held \cup {rsess} BY <1>2, <2>2 DEF Held
  <2>4. SessionKeyed' BY <1>1, <2>1 DEF SessionKeyed, TypeOK, Ownership
  <2>5. OneOwner' BY <1>1, <1>2, <2>2 DEF OneOwner, Ownership, Held
  <2> QED BY <1>3, <2>2, <2>3, <2>4, <2>5
<1>4. CASE table[rclient] # NoSession
  <2>1. table' = table BY <1>4 DEF Store
  <2>2. InTable' = InTable BY <2>1 DEF InTable
  <2> QED BY <1>1, <1>2, <1>4, <2>1, <2>2 DEF Held, SessionKeyed, OneOwner, Ownership
<1> QED BY <1>3, <1>4

LEMMA DialHeld ==
  ASSUME TypeOK, Ownership, NEW s \in Sessions, Dialed(s)
  PROVE  /\ Held' = Held /\ InTable' = InTable /\ s \notin Held
         /\ SessionKeyed' /\ OneOwner' /\ PendingOwn'
<1> USE DEF serving, readerVars
<1>1. UNCHANGED <<table, hand, rclient>> BY DEF Dialed
<1>2. /\ InTable' = InTable /\ InHand' = InHand /\ Held' = Held
  BY <1>1 DEF InTable, InHand, Held
<1>3. s \notin Held BY DEF Dialed, Free, Held
<1>4. SessionKeyed'
  <2>1. \A c \in Clients : table[c] # s BY <1>3, InTableMember DEF Held
  <2> QED BY <1>1, <2>1 DEF SessionKeyed, Ownership, Dialed, TypeOK
<1>5. OneOwner' BY <1>1, <1>2 DEF OneOwner, Ownership
<1>6. PendingOwn' BY <1>1, <1>2, <1>3 DEF PendingOwn, Dialed, TypeOK
<1> QED BY <1>2, <1>3, <1>4, <1>5, <1>6

LEMMA CloseHeld ==
  ASSUME TypeOK, Ownership, NEW g \in Goroutines, NEW s \in hand[g], FinishClose(g, s)
  PROVE  /\ Held' = Held \ {s} /\ InTable' = InTable /\ s \in Held
         /\ SessionKeyed' /\ OneOwner'
<1>1. UNCHANGED <<table, client>> /\ hand' = [hand EXCEPT ![g] = @ \ {s}] BY DEF FinishClose
<1>2. InTable' = InTable BY <1>1 DEF InTable
<1>3. s \in InHand BY InHandMember
<1>4. InHand' = InHand \ {s}
  <2>1. \A h \in Goroutines : hand'[h] = hand[h] \ {s}
    BY <1>1 DEF TypeOK, Ownership, OneOwner
  <2>2. \A r : r \in InHand' <=> \E h \in Goroutines : r \in hand'[h] BY DEF InHand
  <2> QED BY <2>1, <2>2, InHandMember
<1>5. s \notin InTable BY <1>3 DEF Ownership, OneOwner
<1>6. Held' = Held \ {s} /\ s \in Held BY <1>2, <1>3, <1>4, <1>5 DEF Held
<1>7. SessionKeyed' BY <1>1 DEF SessionKeyed, Ownership
<1>8. OneOwner' BY <1>1, <1>2, <1>4 DEF OneOwner, Ownership, TypeOK
<1> QED BY <1>2, <1>6, <1>7, <1>8

\* Whatever step is taken, no session gets a second owner.
LEMMA OwnershipStep ==
  ASSUME TypeOK, Ownership, [Next]_vars
  PROVE  Ownership'
<1>1. CASE Store
  <2>1. rpc' = "forward" BY <1>1 DEF Store
  <2> QED BY <1>1, <2>1, StoreHeld DEF Ownership, PendingOwn, DoneEmpty
<1>2. ASSUME NEW s \in Sessions, Dialed(s) PROVE Ownership'
  <2>1. rpc' = "store" BY <1>2 DEF Dialed
  <2> QED BY <1>2, <2>1, DialHeld DEF Ownership, DoneEmpty
<1>3. ASSUME NEW g \in Goroutines, NEW s \in hand[g], FinishClose(g, s) PROVE Ownership'
  <2>1. UNCHANGED <<rpc, rsess, rclient, client>> BY <1>3 DEF FinishClose, readerVars
  <2> QED BY <1>3, <2>1, CloseHeld DEF Ownership, PendingOwn, DoneEmpty
<1>4. CASE /\ UNCHANGED client
           /\ \/ \E g \in Goroutines : \E c \in Clients : Remove(g, c)
              \/ ReaderExits
              \/ UNCHANGED <<table, hand>>
           /\ rpc' = "store" => rpc = "store" /\ UNCHANGED <<rsess, rclient>>
           /\ rpc' = "done" => rpc = "done" \/ ReaderExits
  <2>1. SessionKeyed' /\ OneOwner' /\ Held' = Held /\ InTable' \subseteq InTable
    BY <1>4, Moved DEF Ownership
  <2>2. PendingOwn' BY <1>4, <2>1 DEF Ownership, PendingOwn
  <2>3. DoneEmpty'
    <3>1. ReaderExits => InTable' = {} BY DEF ReaderExits, InTable
    <3> QED BY <1>4, <2>1, <3>1 DEF Ownership, DoneEmpty
  <2> QED BY <2>1, <2>2, <2>3 DEF Ownership
<1> QED BY <1>1, <1>2, <1>3, <1>4, StepKinds

----------------------------------------------------------------------------
\* Only these steps touch the count, or begin or end the making of a session.
LEMMA CountKinds ==
  ASSUME TypeOK, [Next]_vars
  PROVE  \/ Store \/ NoSessionMade
         \/ \E c \in Clients : NewClient(c)
         \/ \E g \in Goroutines : \E s \in hand[g] : FinishClose(g, s)
         \/ active' = active /\ (Creating' <=> Creating)
<1> USE DEF sessionVars, readerVars, unitVars, serving, Creating
<1>1. CASE ReaderStep
  BY <1>1 DEF ReaderStep, EnsureRunning, Forward, ForwardFails, ReaderExits, Dialed
<1>2. CASE CloseStep BY <1>2 DEF CloseStep, CloseStale
<1>3. ASSUME NEW c \in Clients, Refresh(c) PROVE active' = active /\ (Creating' <=> Creating)
  BY <1>3 DEF Refresh
<1>4. ASSUME NEW s \in Sessions, ReplyStep(s) \/ Reply(s) \/ ReadFails(s)
      PROVE  active' = active /\ (Creating' <=> Creating)
  BY <1>4 DEF ReplyStep, SetDeadline, ReplyLoopCancelled, Deliver, ReadTimesOut,
              ReplyLoopEnds, Reply, ReadFails
<1>5. CASE CollectStale \/ IdleStop \/ Tick \/ Shutdown \/ CloseListener
           \/ Finished \/ UNCHANGED vars
  BY <1>5 DEF CollectStale, IdleStop, Tick, Shutdown, CloseListener, Finished, vars
<1> QED BY <1>1, <1>2, <1>3, <1>4, <1>5 DEF Next

LEMMA CountStep ==
  ASSUME TypeOK, Ownership, ActiveIsSessions, [Next]_vars
  PROVE  ActiveIsSessions' /\ active' \in Nat
<1> USE HeldFinite DEF ActiveIsSessions, Creating
<1>1. active = Cardinality(Held) + (IF Creating THEN 1 ELSE 0) BY DEF Held
<1>2. SUFFICES /\ active' = Cardinality(Held') + (IF Creating' THEN 1 ELSE 0)
               /\ Cardinality(Held') \in Nat
  BY <1>2 DEF Held
<1>3. CASE Store
  <2>1. rpc = "store" /\ rpc' = "forward" BY <1>3 DEF Store
  <2>2. CASE table[rclient] = NoSession
    <3>1. active' = active BY <1>3, <2>2 DEF Store
    <3>2. rsess \notin Held BY <2>1 DEF Ownership, PendingOwn
    <3>3. Cardinality(Held') = Cardinality(Held) + 1
      BY <1>3, <2>2, <3>2, StoreHeld, FS_AddElement
    <3> QED BY <1>1, <2>1, <3>1, <3>3
  <2>3. CASE table[rclient] # NoSession
    <3>1. active' = active - 1 BY <1>3, <2>3 DEF Store
    <3>2. Held' = Held BY <1>3, <2>3, StoreHeld
    <3> QED BY <1>1, <2>1, <3>1, <3>2
  <2> QED BY <2>2, <2>3
<1>4. CASE NoSessionMade
  <2>1. UNCHANGED <<table, hand>> /\ rpc \in {"ensure", "dial"} /\ rpc' = "read" /\ active' = active - 1
    BY <1>4 DEF NoSessionMade
  <2>2. Held' = Held BY <2>1 DEF Held, InTable, InHand
  <2> QED BY <1>1, <2>1, <2>2
<1>5. ASSUME NEW c \in Clients, NewClient(c)
      PROVE  /\ active' = Cardinality(Held') + (IF Creating' THEN 1 ELSE 0)
             /\ Cardinality(Held') \in Nat
  <2>1. UNCHANGED <<table, hand>> /\ rpc = "read" /\ rpc' = "ensure" /\ active' = active + 1
    BY <1>5 DEF NewClient
  <2>2. Held' = Held BY <2>1 DEF Held, InTable, InHand
  <2> QED BY <1>1, <2>1, <2>2
<1>6. ASSUME NEW g \in Goroutines, NEW s \in hand[g], FinishClose(g, s)
      PROVE  /\ active' = Cardinality(Held') + (IF Creating' THEN 1 ELSE 0)
             /\ Cardinality(Held') \in Nat
  <2>1. active' = active - 1 /\ rpc' = rpc BY <1>6 DEF FinishClose, readerVars
  <2>2. Held' = Held \ {s} /\ s \in Held BY <1>6, CloseHeld
  <2>3. Cardinality(Held') = Cardinality(Held) - 1 /\ IsFiniteSet(Held')
    BY <2>2, FS_RemoveElement
  <2>4. Cardinality(Held') \in Nat BY <2>3, FS_CardinalityType
  <2> QED BY <1>1, <2>1, <2>3, <2>4
<1>7. CASE /\ active' = active /\ (Creating' <=> Creating)
           /\ ~Store /\ ~\E g \in Goroutines : \E s \in hand[g] : FinishClose(g, s)
  <2>1. Held' = Held BY <1>7, StepKinds, Moved, DialHeld DEF Ownership
  <2> QED BY <1>1, <1>7, <2>1
<1> QED BY <1>3, <1>4, <1>5, <1>6, <1>7, CountKinds

\* A session, or one about to be dialled, is counted, so that the idle loop
\* leaves the unit alone.
LEMMA IdleMeansNoSession ==
  ASSUME TypeOK, ActiveIsSessions, active <= 0
  PROVE  InTable = {} /\ ~Creating
<1>1. active = Cardinality(Held) + (IF Creating THEN 1 ELSE 0)
  BY DEF ActiveIsSessions, Held
<1>2. Cardinality(Held) = 0 /\ ~Creating BY <1>1, HeldFinite DEF TypeOK
<1>3. Held = {} BY <1>2, HeldFinite, FS_EmptySet
<1> QED BY <1>2, <1>3 DEF Held

LEMMA UnitStep ==
  ASSUME TypeOK, Ownership, ActiveIsSessions, SessionKeepsUnitUp, [Next]_vars
  PROVE  SessionKeepsUnitUp'
<1> USE DEF SessionKeepsUnitUp, sessionVars, readerVars, unitVars, serving
<1>1. CASE Store
  <2>1. rpc = "store" /\ rpc' = "forward" /\ running' = running BY <1>1 DEF Store
  <2> QED BY <2>1
<1>2. ASSUME NEW s \in Sessions, Dialed(s) PROVE SessionKeepsUnitUp'
  <2>1. rpc = "dial" /\ running' = running BY <1>2 DEF Dialed
  <2> QED BY <2>1
<1>3. CASE EnsureRunning BY <1>3 DEF EnsureRunning
<1>4. CASE IdleStop
  <2>1. InTable = {} /\ ~Creating BY <1>4, IdleMeansNoSession DEF IdleStop
  <2>2. InTable' = InTable /\ rpc' = rpc BY <1>4 DEF IdleStop, InTable
  <2> QED BY <2>1, <2>2 DEF Creating
<1>5. ASSUME ~Store, ~\E s \in Sessions : Dialed(s), ~EnsureRunning, ~IdleStop
      PROVE  SessionKeepsUnitUp'
  <2>1. InTable' \subseteq InTable
    BY <1>5, StepKinds, Moved, CloseHeld DEF Ownership
  <2>2. running' = running /\ (rpc' \in {"dial", "store"} => rpc \in {"dial", "store"})
    <3>1. CASE ReaderStep
      BY <1>5, <3>1 DEF ReaderStep, NoSessionMade, Forward, ForwardFails, ReaderExits
    <3>2. CASE CloseStep BY <3>2 DEF CloseStep, FinishClose, CloseStale
    <3>3. ASSUME NEW c \in Clients, Refresh(c) \/ NewClient(c)
          PROVE  running' = running /\ rpc' \notin {"dial", "store"}
      BY <3>3 DEF Refresh, NewClient
    <3>4. ASSUME NEW s \in Sessions, ReplyStep(s) \/ Reply(s) \/ ReadFails(s)
          PROVE  UNCHANGED <<running, rpc>>
      BY <3>4 DEF ReplyStep, SetDeadline, ReplyLoopCancelled, Deliver, ReadTimesOut,
                  ReplyLoopEnds, Reply, ReadFails
    <3>5. CASE CollectStale \/ Tick \/ Shutdown \/ CloseListener \/ Finished
               \/ UNCHANGED vars
      BY <3>5 DEF CollectStale, Tick, Shutdown, CloseListener, Finished, vars
    <3> QED BY <1>5, <3>1, <3>2, <3>3, <3>4, <3>5 DEF Next
  <2> QED BY <2>1, <2>2
<1> QED BY <1>1, <1>2, <1>3, <1>4, <1>5

\* A socket is opened for a session that has an owner, and closed before the
\* session loses its last one.
LEMMA SocketStep ==
  ASSUME TypeOK, Ownership, NoLostSocket, [Next]_vars
  PROVE  NoLostSocket'
<1> USE DEF NoLostSocket, sessionVars, readerVars, unitVars, serving
<1>1. CASE Store
  <2>1. rpc = "store" /\ rsess \in Sessions BY <1>1 DEF Store, Ownership, PendingOwn
  <2>2. CASE table[rclient] = NoSession
    <3>1. sock' = sock /\ Held' = Held \cup {rsess} BY <1>1, <2>2, StoreHeld DEF Store
    <3> QED BY <2>1, <3>1 DEF Held
  <2>3. CASE table[rclient] # NoSession
    <3>1. sock' = [sock EXCEPT ![rsess] = "closed"] /\ Held' = Held
      BY <1>1, <2>3, StoreHeld DEF Store
    <3> QED BY <2>1, <3>1 DEF Held, TypeOK
  <2> QED BY <2>2, <2>3
<1>2. ASSUME NEW s \in Sessions, Dialed(s) PROVE NoLostSocket'
  <2>1. Held' = Held /\ rpc = "dial" /\ rpc' = "store" /\ rsess' = s
        /\ sock' = [sock EXCEPT ![s] = "open"]
    BY <1>2, DialHeld DEF Dialed
  <2> QED BY <2>1 DEF Held, TypeOK
<1>3. ASSUME NEW g \in Goroutines, NEW s \in hand[g], FinishClose(g, s)
      PROVE  NoLostSocket'
  <2>1. Held' = Held \ {s} /\ UNCHANGED <<rpc, rsess>>
        /\ sock' = [sock EXCEPT ![s] = "closed"]
    BY <1>3, CloseHeld DEF FinishClose
  <2> QED BY <2>1 DEF Held, TypeOK
<1>4. ASSUME ~Store, ~\E s \in Sessions : Dialed(s),
             ~\E g \in Goroutines : \E s \in hand[g] : FinishClose(g, s)
      PROVE  NoLostSocket'
  <2>1. Held' = Held /\ sock' = sock BY <1>4, StepKinds, Moved DEF Ownership
  <2>2. rpc = "store" => rpc' = "store" /\ rsess' = rsess
    <3>1. CASE ReaderStep
      BY <1>4, <3>1 DEF ReaderStep, EnsureRunning, NoSessionMade, Forward,
                        ForwardFails, ReaderExits
    <3>2. CASE CloseStep BY <3>2 DEF CloseStep, FinishClose, CloseStale
    <3>3. ASSUME NEW c \in Clients, Refresh(c) \/ NewClient(c) PROVE rpc # "store"
      BY <3>3 DEF Refresh, NewClient
    <3>4. ASSUME NEW s \in Sessions, ReplyStep(s) \/ Reply(s) \/ ReadFails(s)
          PROVE  UNCHANGED <<rpc, rsess>>
      BY <3>4 DEF ReplyStep, SetDeadline, ReplyLoopCancelled, Deliver, ReadTimesOut,
                  ReplyLoopEnds, Reply, ReadFails
    <3>5. CASE CollectStale \/ IdleStop \/ Tick \/ Shutdown \/ CloseListener
               \/ Finished \/ UNCHANGED vars
      BY <3>5 DEF CollectStale, IdleStop, Tick, Shutdown, CloseListener, Finished, vars
    <3> QED BY <3>1, <3>2, <3>3, <3>4, <3>5 DEF Next
  <2> QED BY <2>1, <2>2 DEF Held
<1> QED BY <1>1, <1>2, <1>3, <1>4

----------------------------------------------------------------------------
LEMMA InitIInv == Init => IInv
<1> SUFFICES ASSUME Init PROVE IInv OBVIOUS
<1> USE DEF Init
<1>1. AnyClient \in Clients BY ClientsAssumption DEF AnyClient, ClientsAssumption
<1>2. TypeOK
  <2>1. 0 \in 0..TTL BY TTLAssumption DEF TTLAssumption
  <2>2. hand \in [Goroutines -> SUBSET Sessions] /\ active \in Nat OBVIOUS
  <2>3. table \in [Clients -> Sessions \cup {NoSession}] OBVIOUS
  <2> QED BY <1>1, <2>1, <2>2, <2>3 DEF TypeOK
<1>3. InTable = {} /\ InHand = {} /\ Held = {} BY DEF InTable, InHand, Held
<1>4. Ownership
  BY <1>3 DEF Ownership, SessionKeyed, OneOwner, PendingOwn, DoneEmpty
<1>5. ActiveIsSessions BY <1>3, FS_EmptySet DEF ActiveIsSessions, Creating
<1> QED BY <1>2, <1>3, <1>4, <1>5 DEF IInv, SessionKeepsUnitUp, NoLostSocket

LEMMA NextIInv == IInv /\ [Next]_vars => IInv'
BY TypeStep, OwnershipStep, CountStep, UnitStep, SocketStep DEF IInv

\* The conjunction that is preserved by every step.
THEOREM Inductive == Spec => []IInv
<1> QED BY InitIInv, NextIInv, PTL DEF Spec

\* Every variable keeps its type: the count of connections is never negative,
\* however many goroutines close sessions.
THEOREM TypeCorrect == Spec => []TypeOK
<1>1. IInv => TypeOK BY DEF IInv
<1> QED BY <1>1, Inductive, PTL

\* Activator.active counts every session once.
THEOREM SessionsCounted == Spec => []ActiveIsSessions
<1>1. IInv => ActiveIsSessions BY DEF IInv
<1> QED BY <1>1, Inductive, PTL

\* No idle stop under a session.
THEOREM UnitKeptUp == Spec => []SessionKeepsUnitUp
<1>1. IInv => SessionKeepsUnitUp BY DEF IInv
<1> QED BY <1>1, Inductive, PTL

\* Every open backend socket belongs to a session somebody will close.
THEOREM SocketsOwned == Spec => []NoLostSocket
<1>1. IInv => NoLostSocket BY DEF IInv
<1> QED BY <1>1, Inductive, PTL

\* When all goroutines have returned, everything is closed and counted down.
THEOREM ShutdownComplete == Spec => []ShutdownLeavesNothing
<1>1. IInv => ShutdownLeavesNothing
  <2> SUFFICES ASSUME IInv, rpc = "done", InHand = {}
               PROVE  /\ InTable = {} /\ active = 0
                      /\ \A s \in Sessions : sock[s] = "closed"
    BY DEF ShutdownLeavesNothing
  <2>1. InTable = {} BY DEF IInv, Ownership, DoneEmpty
  <2>2. active = 0 BY <2>1, FS_EmptySet DEF IInv, ActiveIsSessions, Creating
  <2>3. \A s \in Sessions : sock[s] = "closed" BY <2>1 DEF IInv, NoLostSocket, TypeOK
  <2> QED BY <2>1, <2>2, <2>3
<1> QED BY <1>1, Inductive, PTL

----------------------------------------------------------------------------
(* Who may close the session of another. *)

\* closeSession is given an address.  The reply loop of a session takes down the
\* one its client has made since only if its own was taken out of the table
\* before; readLoop, when a write fails, only the one it wrote to.
ClosesOthersLate ==
  [][/\ \A s \in Sessions :
          ReplyLoopEnds(s) /\ table[client[s]] \notin {s, NoSession} => s \notin InTable
     /\ ForwardFails => table[rclient] \in {rsess, NoSession}]_vars

LEMMA InTableUnderAddress ==
  ASSUME TypeOK, SessionKeyed, NEW s \in InTable
  PROVE  table[client[s]] = s
BY InTableMember, SessionsAssumption DEF SessionKeyed, SessionsAssumption

LEMMA ForwardedStep ==
  ASSUME IInv, ForwardedOwn, [Next]_vars
  PROVE  ForwardedOwn'
<1> SUFFICES ASSUME rpc' = "forward" PROVE table'[rclient'] \in {rsess', NoSession}
  BY DEF ForwardedOwn
<1> USE DEF sessionVars, readerVars, unitVars, serving
<1>1. TypeOK  BY DEF IInv
<1>2. ASSUME NEW c \in Clients, Refresh(c) PROVE table'[rclient'] \in {rsess', NoSession}
  BY <1>2 DEF Refresh
<1>3. CASE Store
  BY <1>1, <1>3 DEF Store, TypeOK
<1>4. ASSUME rpc = "forward", UNCHANGED <<rsess, rclient>>,
             table'[rclient] \in {table[rclient], NoSession}
      PROVE  table'[rclient'] \in {rsess', NoSession}
  BY <1>4 DEF ForwardedOwn
<1>5. CASE ReaderStep
  BY <1>3, <1>5 DEF ReaderStep, EnsureRunning, NoSessionMade, Forward, ForwardFails,
                    ReaderExits, Dialed
<1>6. CASE CloseStep
  <2>1. ASSUME NEW c \in stale, CloseStale(c)
        PROVE  table'[rclient] \in {table[rclient], NoSession}
    BY <1>1, <2>1 DEF CloseStale, Remove, TypeOK
  <2> QED  BY <1>4, <1>6, <2>1 DEF CloseStep, FinishClose, CloseStale
<1>7. ASSUME NEW c \in Clients, NewClient(c)
      PROVE  table'[rclient'] \in {rsess', NoSession}
  BY <1>7 DEF NewClient
<1>8. ASSUME NEW s \in Sessions, ReplyStep(s) \/ Reply(s) \/ ReadFails(s)
      PROVE  table'[rclient'] \in {rsess', NoSession}
  <2>1. ReplyLoopEnds(s) => table'[rclient] \in {table[rclient], NoSession}
    BY <1>1 DEF ReplyLoopEnds, Remove, TypeOK
  <2> QED  BY <1>4, <1>8, <2>1
           DEF ReplyStep, SetDeadline, ReplyLoopCancelled, Deliver, ReadTimesOut,
               ReplyLoopEnds, Reply, ReadFails
<1>9. CASE \/ CollectStale \/ IdleStop \/ Tick \/ Shutdown \/ CloseListener
           \/ Finished \/ UNCHANGED vars
  BY <1>4, <1>9 DEF CollectStale, IdleStop, Tick, Shutdown, CloseListener, Finished, vars
<1> QED BY <1>2, <1>5, <1>6, <1>7, <1>8, <1>9 DEF Next

\* The session of another that ReplyLoopEndsOwnSession is about is closed only
\* by a reply loop that comes late: its own was taken out of the table already.
\* A failed write never closes another than it wrote to.
THEOREM OthersClosedLate == Spec => ClosesOthersLate
<1>1. Init => ForwardedOwn  BY DEF Init, ForwardedOwn
<1>2. IInv /\ ForwardedOwn /\ [Next]_vars => ForwardedOwn'  BY ForwardedStep
<1>3. IInv /\ ForwardedOwn =>
        [/\ \A s \in Sessions :
              ReplyLoopEnds(s) /\ table[client[s]] \notin {s, NoSession} => s \notin InTable
         /\ ForwardFails => table[rclient] \in {rsess, NoSession}]_vars
  <2> SUFFICES ASSUME IInv, ForwardedOwn
               PROVE  /\ \A s \in Sessions : table[client[s]] # s => s \notin InTable
                      /\ ForwardFails => table[rclient] \in {rsess, NoSession}
    OBVIOUS
  <2>1. \A s \in InTable : table[client[s]] = s
    BY InTableUnderAddress DEF IInv, Ownership
  <2> QED  BY <2>1 DEF ForwardedOwn, ForwardFails
<1> QED  BY Inductive, <1>1, <1>2, <1>3, PTL DEF Spec, ClosesOthersLate
===============================================================================
