------------------------------- MODULE UdpProxy ------------------------------
(***************************************************************************)
(* The UDP side of a socket_activation entry                               *)
(* (internal/socketactivation/udp.go): one goroutine reads datagrams and   *)
(* creates sessions, one goroutine per session copies replies back, one    *)
(* expires idle sessions.  They share the session table under udpProxy.mu, *)
(* and find a session in it by the client's address.                       *)
(*                                                                         *)
(* The elements of Sessions are slots for session objects, reused when     *)
(* nothing refers to the session any more.  A session counts as open in    *)
(* Activator.active from connOpened to connClosed.  What the activator     *)
(* does with the count is modelled in Activator; here ensureRunning and    *)
(* the idle stop are single steps on `running`.                            *)
(***************************************************************************)
EXTENDS Integers, FiniteSets

CONSTANTS Clients,     \* client source addresses
          Sessions,    \* slots for session objects
          TTL,         \* udpSessionTTL, in ticks
          NoSession    \* the table has no entry

ASSUME ClientsAssumption  == Clients # {}
ASSUME SessionsAssumption == IsFiniteSet(Sessions) /\ NoSession \notin Sessions
ASSUME TTLAssumption      == TTL \in Nat

VARIABLES table,       \* udpProxy.sessions: client -> session
          client,      \* the address each session was made for
          sock,        \* the state of each session's backend socket
          age,         \* the age of each session's lastSeen
          quiet,       \* the time since its reply loop set the read deadline
          loop,        \* where each session's replyLoop is
          rpc,         \* where readLoop is
          rclient,     \* the source of the datagram readLoop is handling
          rsess,       \* the session it forwards the datagram to
          stale,       \* the keys expireIdle has collected and not yet closed
          hand,        \* per goroutine: sessions it has removed, not yet closed
          active,      \* Activator.active, the part due to UDP
          running,     \* Activator.running
          conn,        \* the listener socket
          ctxDone      \* the serving context is cancelled

sessionVars == <<client, sock, age, quiet, loop>>
readerVars  == <<rpc, rclient, rsess>>
unitVars    == <<active, running>>
serving     == <<conn, ctxDone>>
vars == <<table, sessionVars, readerVars, stale, hand, unitVars, serving>>

Goroutines == {"reader", "expirer"} \cup Sessions   \* a session: its replyLoop

InTable  == {table[c] : c \in Clients} \ {NoSession}
InHand   == UNION {hand[g] : g \in Goroutines}
Creating == rpc \in {"ensure", "dial", "store"}

\* Nothing refers to the session object in slot s any more.
Free(s) == /\ sock[s] = "closed" /\ loop[s] = "none"
           /\ s \notin InTable \cup InHand
           /\ ~(rsess = s /\ rpc \in {"store", "forward"})

AnyClient == CHOOSE c \in Clients : TRUE   \* where an address is never read

Init == /\ table = [c \in Clients |-> NoSession]
        /\ client = [s \in Sessions |-> AnyClient]
        /\ sock = [s \in Sessions |-> "closed"]
        /\ age = [s \in Sessions |-> 0]
        /\ quiet = [s \in Sessions |-> 0]
        /\ loop = [s \in Sessions |-> "none"]
        /\ rpc = "read" /\ rclient = AnyClient
        /\ rsess = NoSession
        /\ stale = {} /\ hand = [g \in Goroutines |-> {}]
        /\ active = 0 /\ running = FALSE
        /\ conn = "open" /\ ctxDone = FALSE

----------------------------------------------------------------------------
(* closeSession(key), called by any of the goroutines: take whatever session  *)
(* the key maps to out of the table, close its socket, count it closed.       *)

\* The session is taken out of the table and then forgotten.
MutantRemove(g, c) == /\ UNCHANGED hand
                      /\ table' = [table EXCEPT ![c] = NoSession]

Remove(g, c) ==
  /\ hand' = [hand EXCEPT ![g] = @ \cup ({table[c]} \ {NoSession})]
  /\ table' = [table EXCEPT ![c] = NoSession]

\* backend.Close and connClosed, after the lock is released.
FinishClose(g, s) ==
  /\ s \in hand[g]
  /\ hand' = [hand EXCEPT ![g] = @ \ {s}]
  /\ sock' = [sock EXCEPT ![s] = "closed"]
  /\ active' = active - 1
  /\ UNCHANGED <<table, client, age, quiet, loop, readerVars, stale, running,
                 serving>>

----------------------------------------------------------------------------
(* readLoop and handleDatagram. *)

\* A datagram of a client with a session refreshes it.
Refresh(c) == /\ rpc = "read" /\ conn = "open" /\ hand["reader"] = {}
              /\ table[c] # NoSession
              /\ age' = [age EXCEPT ![table[c]] = 0]
              /\ rpc' = "forward" /\ rclient' = c /\ rsess' = table[c]
              /\ UNCHANGED <<table, client, sock, quiet, loop, stale, hand,
                             unitVars, serving>>

\* The connection is not counted as open.
MutantNewClient(c) == /\ rpc = "read" /\ conn = "open" /\ hand["reader"] = {}
                      /\ table[c] = NoSession
                      /\ rpc' = "ensure" /\ rclient' = c
                      /\ UNCHANGED <<table, sessionVars, rsess, stale, hand,
                                     unitVars, serving>>

\* Without a session the activator is told of an open connection first.
NewClient(c) == /\ rpc = "read" /\ conn = "open" /\ hand["reader"] = {}
                /\ table[c] = NoSession
                /\ active' = active + 1
                /\ rpc' = "ensure" /\ rclient' = c
                /\ UNCHANGED <<table, sessionVars, rsess, stale, hand, running,
                               serving>>

EnsureRunning == /\ rpc = "ensure"
                 /\ running' = TRUE
                 /\ rpc' = "dial"
                 /\ UNCHANGED <<table, sessionVars, rclient, rsess, stale, hand,
                                active, serving>>

\* session returns an error without connClosed.
MutantNoSessionMade ==
  /\ rpc \in {"ensure", "dial"}
  /\ rpc' = "read"
  /\ UNCHANGED <<table, sessionVars, rclient, rsess, stale, hand, unitVars, serving>>

\* ensureRunning or the dial returned an error: the deferred connClosed runs.
NoSessionMade == /\ rpc \in {"ensure", "dial"}
                 /\ active' = active - 1
                 /\ rpc' = "read"
                 /\ UNCHANGED <<table, sessionVars, rclient, rsess, stale, hand,
                                running, serving>>

Dialed(s) == /\ rpc = "dial" /\ Free(s)
             /\ client' = [client EXCEPT ![s] = rclient]
             /\ sock' = [sock EXCEPT ![s] = "open"]
             /\ age' = [age EXCEPT ![s] = 0]
             /\ rsess' = s /\ rpc' = "store"
             /\ UNCHANGED <<table, quiet, loop, rclient, stale, hand, unitVars,
                            serving>>

\* The table is looked at again: a session found there wins over the new one.
Store == /\ rpc = "store"
         /\ rpc' = "forward"
         /\ IF table[rclient] = NoSession
            THEN /\ table' = [table EXCEPT ![rclient] = rsess]
                 /\ loop' = [loop EXCEPT ![rsess] = "top"]
                 /\ UNCHANGED <<sock, rsess, active>>
            ELSE /\ sock' = [sock EXCEPT ![rsess] = "closed"]
                 /\ rsess' = table[rclient]
                 /\ active' = active - 1
                 /\ UNCHANGED <<table, loop>>
         /\ UNCHANGED <<client, age, quiet, rclient, stale, hand, running, serving>>

\* The datagram is written to the backend socket, if that is still open.
Forward == /\ rpc = "forward" /\ sock[rsess] = "open"
           /\ rpc' = "read"
           /\ UNCHANGED <<table, sessionVars, rclient, rsess, stale, hand,
                          unitVars, serving>>

ForwardFails == /\ rpc = "forward"
                /\ Remove("reader", rclient)
                /\ rpc' = "read"
                /\ UNCHANGED <<sessionVars, rclient, rsess, stale, unitVars,
                               serving>>

\* readLoop returns without closing the sessions that are left.
MutantReaderExits == /\ rpc = "read" /\ conn = "closed" /\ hand["reader"] = {}
                     /\ rpc' = "done"
                     /\ UNCHANGED <<table, sessionVars, rclient, rsess, stale,
                                    hand, unitVars, serving>>

\* readLoop returns, and the sessions that are left are taken out and closed.
ReaderExits == /\ rpc = "read" /\ conn = "closed" /\ hand["reader"] = {}
               /\ rpc' = "done"
               /\ hand' = [hand EXCEPT !["reader"] = InTable]
               /\ table' = [c \in Clients |-> NoSession]
               /\ UNCHANGED <<sessionVars, rclient, rsess, stale, unitVars,
                              serving>>

----------------------------------------------------------------------------
(* replyLoop of session s. *)

SetDeadline(s) == /\ loop[s] = "top" /\ ~ctxDone
                  /\ loop' = [loop EXCEPT ![s] = "reading"]
                  /\ quiet' = [quiet EXCEPT ![s] = 0]
                  /\ UNCHANGED <<table, client, sock, age, readerVars, stale,
                                 hand, unitVars, serving>>

ReplyLoopCancelled(s) == /\ loop[s] = "top" /\ ctxDone
                         /\ loop' = [loop EXCEPT ![s] = "none"]
                         /\ UNCHANGED <<table, client, sock, age, quiet,
                                        readerVars, stale, hand, unitVars,
                                        serving>>

Reply(s) == /\ loop[s] = "reading" /\ sock[s] = "open"
            /\ age' = [age EXCEPT ![s] = 0]
            /\ loop' = [loop EXCEPT ![s] = "deliver"]
            /\ UNCHANGED <<table, client, sock, quiet, readerVars, stale, hand,
                           unitVars, serving>>

Deliver(s) == /\ loop[s] = "deliver"
              /\ \/ conn = "open" /\ loop' = [loop EXCEPT ![s] = "top"]
                 \/ loop' = [loop EXCEPT ![s] = "error"]     \* WriteTo failed
              /\ UNCHANGED <<table, client, sock, age, quiet, readerVars, stale,
                             hand, unitVars, serving>>

\* Read returns an error: the socket is closed or the backend refuses.
ReadFails(s) == /\ loop[s] = "reading"
                /\ loop' = [loop EXCEPT ![s] = "error"]
                /\ UNCHANGED <<table, client, sock, age, quiet, readerVars,
                               stale, hand, unitVars, serving>>

ReadTimesOut(s) == /\ loop[s] = "reading" /\ quiet[s] = TTL
                   /\ loop' = [loop EXCEPT ![s] = "timeout"]
                   /\ UNCHANGED <<table, client, sock, age, quiet, readerVars,
                                  stale, hand, unitVars, serving>>

ReplyLoopEnds(s) == /\ loop[s] \in {"error", "timeout"}
                    /\ Remove(s, client[s])
                    /\ loop' = [loop EXCEPT ![s] = "none"]
                    /\ UNCHANGED <<client, sock, age, quiet, readerVars, stale,
                                   unitVars, serving>>

----------------------------------------------------------------------------
(* expireLoop and expireIdle: collect the keys, then close them one by one. *)

Expired == {c \in Clients : table[c] # NoSession /\ age[table[c]] >= TTL}

CollectStale == /\ ~ctxDone /\ stale = {} /\ hand["expirer"] = {}
                /\ Expired # {}
                /\ stale' = Expired
                /\ UNCHANGED <<table, sessionVars, readerVars, hand, unitVars,
                               serving>>

CloseStale(c) == /\ c \in stale /\ hand["expirer"] = {}
                 /\ stale' = stale \ {c}
                 /\ Remove("expirer", c)
                 /\ UNCHANGED <<sessionVars, readerVars, unitVars, serving>>

----------------------------------------------------------------------------
(* The activator's idle loop, the clock and the daemon's shutdown. *)

MutantIdleStop == /\ running
                  /\ running' = FALSE
                  /\ UNCHANGED <<table, sessionVars, readerVars, stale, hand,
                                 active, serving>>

IdleStop == /\ running /\ active <= 0
            /\ running' = FALSE
            /\ UNCHANGED <<table, sessionVars, readerVars, stale, hand, active,
                           serving>>

\* Only the age of a session in the table, and the deadline of a Read that is
\* waiting, are ever looked at.
Older(t) == IF t < TTL THEN t + 1 ELSE TTL

Tick == /\ \/ \E s \in InTable : age[s] < TTL
           \/ \E s \in Sessions : loop[s] = "reading" /\ quiet[s] < TTL
        /\ age' = [s \in Sessions |-> IF s \in InTable THEN Older(age[s]) ELSE 0]
        /\ quiet' = [s \in Sessions |->
                       IF loop[s] = "reading" THEN Older(quiet[s]) ELSE 0]
        /\ UNCHANGED <<table, client, sock, loop, readerVars, stale, hand,
                       unitVars, serving>>

Shutdown == /\ ~ctxDone
            /\ ctxDone' = TRUE
            /\ UNCHANGED <<table, sessionVars, readerVars, stale, hand,
                           unitVars, conn>>

CloseListener == /\ ctxDone /\ conn = "open"
                 /\ conn' = "closed"
                 /\ UNCHANGED <<table, sessionVars, readerVars, stale, hand,
                                unitVars, ctxDone>>

Finished == /\ rpc = "done" /\ InHand = {} /\ stale = {}
            /\ \A s \in Sessions : loop[s] = "none"
            /\ UNCHANGED vars

ReaderStep == \/ EnsureRunning \/ NoSessionMade \/ Store \/ Forward
              \/ ForwardFails \/ ReaderExits \/ \E s \in Sessions : Dialed(s)

ReplyStep(s) == \/ SetDeadline(s) \/ ReplyLoopCancelled(s) \/ Deliver(s)
                \/ ReadTimesOut(s) \/ ReplyLoopEnds(s)

CloseStep == \/ \E g \in Goroutines : \E s \in hand[g] : FinishClose(g, s)
             \/ \E c \in stale : CloseStale(c)

Next == \/ ReaderStep \/ CloseStep \/ CollectStale
        \/ \E c \in Clients : Refresh(c) \/ NewClient(c)
        \/ \E s \in Sessions : ReplyStep(s) \/ Reply(s) \/ ReadFails(s)
        \/ IdleStop \/ Tick \/ Shutdown \/ CloseListener \/ Finished

Spec == Init /\ [][Next]_vars

\* The goroutines run, calls on sockets return, a Read on a closed socket
\* fails, and a listener whose context is cancelled is closed.
FairSpec ==
  /\ Spec
  /\ WF_vars(ReaderStep) /\ WF_vars(CloseStep) /\ WF_vars(CloseListener)
  /\ \A s \in Sessions : /\ WF_vars(ReplyStep(s))
                         /\ WF_vars(sock[s] = "closed" /\ ReadFails(s))

----------------------------------------------------------------------------
(* Properties *)

\* The variables have their types; the count of connections never goes negative.
TypeOK ==
  /\ table \in [Clients -> Sessions \cup {NoSession}]
  /\ client \in [Sessions -> Clients]
  /\ sock \in [Sessions -> {"open", "closed"}]
  /\ age \in [Sessions -> 0..TTL] /\ quiet \in [Sessions -> 0..TTL]
  /\ loop \in [Sessions -> {"none", "top", "reading", "deliver", "error",
                            "timeout"}]
  /\ rpc \in {"read", "ensure", "dial", "store", "forward", "done"}
  /\ rclient \in Clients /\ rsess \in Sessions \cup {NoSession}
  /\ stale \subseteq Clients
  /\ hand \in [Goroutines -> SUBSET Sessions]
  /\ active \in Nat /\ running \in BOOLEAN
  /\ conn \in {"open", "closed"} /\ ctxDone \in BOOLEAN

\* The activator counts every session exactly once, from before it is created
\* until it is closed, although four kinds of goroutine close sessions and
\* several of them may go for the same key.
ActiveIsSessions ==
  active = Cardinality(InTable \cup InHand) + (IF Creating THEN 1 ELSE 0)

\* The unit is never stopped for idleness under a session, from the return of
\* ensureRunning on.
SessionKeepsUnitUp == InTable # {} \/ rpc \in {"dial", "store"} => running

\* No backend socket is lost: an open one belongs to a session in the table,
\* to one about to be stored, or to one that a goroutine is about to close.
NoLostSocket ==
  \A s \in Sessions : sock[s] = "open" =>
    s \in InTable \cup InHand \/ (rpc = "store" /\ rsess = s)

\* Once every goroutine has returned no session is left: each was closed and
\* counted down, whichever of them was closing what when the shutdown came.
ShutdownLeavesNothing ==
  rpc = "done" /\ InHand = {} /\ (\A s \in Sessions : loop[s] = "none") =>
    InTable = {} /\ active = 0 /\ \A s \in Sessions : sock[s] = "closed"

\* After a shutdown they do return.
ShutdownReleases ==
  ctxDone ~> (/\ rpc = "done" /\ active = 0
              /\ \A s \in Sessions : sock[s] = "closed")

----------------------------------------------------------------------------
(* What the documentation says of the code, and the code does not do. *)

Removed(c) == table[c] # NoSession /\ table'[c] # table[c]

\* README.md:197: replies are routed back while the session is live.  When the
\* reply loop of a session ends, the session it takes down is its own.
ReplyLoopEndsOwnSession ==
  [][\A c \in Clients : \A s \in Sessions :
       Removed(c) /\ loop[s] \in {"error", "timeout"} /\ loop'[s] = "none"
         => table[c] = s]_vars

\* udp.go:235: what expires are sessions that have seen no traffic within the
\* session TTL.
OnlyIdleSessionsExpire ==
  [][\A c \in Clients :
       Removed(c) /\ stale' # stale => age[table[c]] = TTL]_vars

\* README.md:197: sessions expire after a period of inactivity.
OnlyQuietSessionsTimeOut ==
  [][\A s \in Sessions : \A c \in Clients :
       Removed(c) /\ table[c] = s /\ loop[s] = "timeout" /\ loop'[s] = "none"
         => age[s] = TTL]_vars
=============================================================================
