----------------------------- MODULE Dependencies ----------------------------
(***************************************************************************)
(* The depends_on relation between units: how config.Load validates it     *)
(* (validateDependencies, detectCycle), how it orders units                *)
(* (DependencyOrder) and how the daemon turns it into the table the        *)
(* restarter cascades along (buildDependents).                             *)
(*                                                                         *)
(* A unit is a bare name and a type.  A dependency names a unit in full,   *)
(* or by its bare name only: then its type is NoType.  A behaviour is the  *)
(* validation of one configuration and, if it is accepted, its ordering.   *)
(* The recursive function visit, of which each traversal has its own,      *)
(* becomes a stack of its calls.                                           *)
(***************************************************************************)
EXTENDS Integers, Sequences, FiniteSets, SequencesExt

CONSTANTS Names,     \* bare unit names
          Types,     \* "service" and "timer"
          Lists,     \* the depends_on lists that units may have
          MaxUnits,  \* bound on the number of units
          NoType     \* no type given

Unit == [name : Names, type : Types]
Dep  == [name : Names, type : Types \cup {NoType}]

ASSUME NoTypeAssumption == NoType \notin Types
ASSUME ListsAssumption  == \A l \in Lists : l \in Seq(Dep)
ASSUME UnitsAssumption  == MaxUnits \in Nat

VARIABLES units,     \* cfg.Units: a sequence of units with their depends_on
          verdict,   \* of config.Load: "none", "accepted" or "rejected"
          stage,     \* the function that runs
          pos,       \* its loop over the units: the next one to visit
          stack,     \* the calls of visit, each with its loop over the dependencies
          visiting,  \* the names detectCycle is visiting
          visited,   \* the names marked visited
          order      \* what DependencyOrder returns

traversal == <<pos, stack, visiting, visited>>
load == <<units, verdict, stage, traversal, order>>

----------------------------------------------------------------------------
(* validateDependencies *)

Described == {units[k].unit : k \in DOMAIN units}
BareNames == {u.name : u \in Described}

\* A qualified name must be that of a unit, a bare one that of some unit.
Known(d) == IF d.type = NoType THEN d.name \in BareNames ELSE d \in Described

AllKnown == \A k \in DOMAIN units : \A j \in DOMAIN units[k].deps : Known(units[k].deps[j])

RejectUnknown == /\ stage = "validate" /\ ~AllKnown
                 /\ verdict' = "rejected" /\ stage' = "done"
                 /\ UNCHANGED <<units, traversal, order>>

BeginDetect == /\ stage = "validate" /\ AllKnown
               /\ stage' = "detect"
               /\ UNCHANGED <<units, verdict, traversal, order>>

----------------------------------------------------------------------------
(* The map `deps` of both traversals, and their calls of visit. *)

\* Dependencies are stripped to bare names, and of two units with the same bare
\* name the later one wins.
Latest(n) == CHOOSE k \in DOMAIN units :
             /\ units[k].unit.name = n
             /\ \A l \in DOMAIN units : units[l].unit.name = n => l <= k

BareDeps(n) == [j \in DOMAIN units[Latest(n)].deps |-> units[Latest(n)].deps[j].name]

Top == stack[Len(stack)]

\* The loop that runs, that of the innermost visit or that over the units, has
\* come to name n.
Reaches(n) ==
  \/ stack = <<>> /\ pos <= Len(units) /\ n = units[pos].unit.name
  \/ stack # <<>> /\ Top.next <= Len(BareDeps(Top.name)) /\ n = BareDeps(Top.name)[Top.next]

\* The call is over at once, and that loop goes on.
Proceed == IF stack = <<>> THEN pos' = pos + 1 /\ UNCHANGED stack
           ELSE stack' = [stack EXCEPT ![Len(stack)].next = @ + 1] /\ UNCHANGED pos

\* visit(n) begins its own loop.
Call(n) ==
  LET frame == [name |-> n, next |-> 1]
  IN IF stack = <<>> THEN pos' = pos + 1 /\ stack' = <<frame>>
     ELSE /\ stack' = Append([stack EXCEPT ![Len(stack)].next = @ + 1], frame)
          /\ UNCHANGED pos

\* It has come to the end of it.
Returns == stack # <<>> /\ Top.next > Len(BareDeps(Top.name))

----------------------------------------------------------------------------
(* detectCycle *)

Enter(n) == /\ stage = "detect" /\ Reaches(n)
            /\ n \notin visiting \cup visited
            /\ Call(n)
            /\ visiting' = visiting \cup {n}
            /\ UNCHANGED <<units, verdict, stage, visited, order>>

Revisit(n) == /\ stage = "detect" /\ Reaches(n)
              /\ n \in visited
              /\ Proceed
              /\ UNCHANGED <<units, verdict, stage, visiting, visited, order>>

\* A name met twice is a cycle.
MutantFindCycle(n) == /\ stage = "detect" /\ Reaches(n)
                      /\ n \in visiting \cup visited
                      /\ verdict' = "rejected" /\ stage' = "done"
                      /\ UNCHANGED <<units, traversal, order>>

FindCycle(n) == /\ stage = "detect" /\ Reaches(n)
                /\ n \in visiting
                /\ verdict' = "rejected" /\ stage' = "done"
                /\ UNCHANGED <<units, traversal, order>>

Leave == /\ stage = "detect" /\ Returns
         /\ stack' = Front(stack)
         /\ visiting' = visiting \ {Top.name}
         /\ visited' = visited \cup {Top.name}
         /\ UNCHANGED <<units, verdict, stage, pos, order>>

\* config.Load sorts the units by priority and returns, and DependencyOrder is
\* asked for the order.  Priorities can put the units in any order.
Accept == /\ stage = "detect" /\ stack = <<>> /\ pos > Len(units)
          /\ \E p \in Bijection(DOMAIN units, DOMAIN units) :
               units' = [k \in DOMAIN units |-> units[p[k]]]
          /\ verdict' = "accepted" /\ stage' = "order"
          /\ pos' = 1 /\ visited' = {}
          /\ UNCHANGED <<stack, visiting, order>>

----------------------------------------------------------------------------
(* DependencyOrder: a name is marked when visit begins, and added to the       *)
(* order when it ends.                                                         *)

EnterInOrder(n) == /\ stage = "order" /\ Reaches(n)
                   /\ n \notin visited
                   /\ Call(n)
                   /\ visited' = visited \cup {n}
                   /\ UNCHANGED <<units, verdict, stage, visiting, order>>

RevisitInOrder(n) == /\ stage = "order" /\ Reaches(n)
                     /\ n \in visited
                     /\ Proceed
                     /\ UNCHANGED <<units, verdict, stage, visiting, visited, order>>

\* A name is put before those it depends on.
MutantLeaveInOrder == /\ stage = "order" /\ Returns
                      /\ stack' = Front(stack)
                      /\ order' = <<Top.name>> \o order
                      /\ UNCHANGED <<units, verdict, stage, pos, visiting, visited>>

LeaveInOrder == /\ stage = "order" /\ Returns
                /\ stack' = Front(stack)
                /\ order' = Append(order, Top.name)
                /\ UNCHANGED <<units, verdict, stage, pos, visiting, visited>>

EndOrder == /\ stage = "order" /\ stack = <<>> /\ pos > Len(units)
            /\ stage' = "done"
            /\ UNCHANGED <<units, verdict, traversal, order>>

----------------------------------------------------------------------------
(* buildDependents *)

\* A bare name is taken to be of the type of the unit that depends on it.
Target(u, d) == IF d.type = NoType THEN [name |-> d.name, type |-> u.type] ELSE d

\* The pairs <<a, b>> with b in dependents[a].
BuildDependents ==
  UNION {{<<Target(u.unit, d), u.unit>> : d \in ToSet(u.deps)} : u \in ToSet(units)}

----------------------------------------------------------------------------

\* Any units, none of them twice, with any dependencies.
LoadInit ==
  /\ \E n \in 0..MaxUnits : \E us \in [1..n -> Unit] : \E ls \in [1..n -> Lists] :
       /\ IsInjective(us)
       /\ units = [k \in 1..n |-> [unit |-> us[k], deps |-> ls[k]]]
  /\ verdict = "none" /\ stage = "validate"
  /\ pos = 1 /\ stack = <<>>
  /\ visiting = {} /\ visited = {} /\ order = <<>>

Detect == \/ \E n \in Names : Enter(n) \/ Revisit(n) \/ FindCycle(n)
          \/ Leave \/ Accept

Order  == \/ \E n \in Names : EnterInOrder(n) \/ RevisitInOrder(n)
          \/ LeaveInOrder \/ EndOrder

LoadNext == RejectUnknown \/ BeginDetect \/ Detect \/ Order

LoadSpec == LoadInit /\ [][LoadNext]_load

\* A traversal goes on.
LoadFairSpec == LoadSpec /\ WF_load(LoadNext)

----------------------------------------------------------------------------
(* Properties *)

\* The variables have their types.
LoadTypeOK ==
  /\ units \in Seq([unit : Unit, deps : Seq(Dep)])
  /\ verdict \in {"none", "accepted", "rejected"}
  /\ stage \in {"validate", "detect", "order", "done"}
  /\ pos \in 1..Len(units) + 1
  /\ stack \in Seq([name : BareNames, next : Nat \ {0}])
  /\ visiting \subseteq BareNames /\ visited \subseteq BareNames
  /\ order \in Seq(BareNames)

\* A relation, given by its pairs, has a cycle in a finite set S: from each
\* member of some part of S it leads to a member of that part again.
Cyclic(edges, S) ==
  \E C \in SUBSET S : C # {} /\ \A a \in C : \E b \in C : <<a, b>> \in edges

BareEdges ==
  UNION {{<<units[k].unit.name, units[k].deps[j].name>> : j \in DOMAIN units[k].deps} :
         k \in DOMAIN units}

UniqueNames == \A u, v \in Described : u.name = v.name => u = v

\* As long as no two units share a bare name, config.Load accepts exactly the
\* configurations whose dependencies exist and form no cycle.
ExactlyCyclesRejected ==
  verdict # "none" /\ UniqueNames =>
    (verdict = "accepted" <=>
       /\ \A k \in DOMAIN units : \A j \in DOMAIN units[k].deps :
            LET d == units[k].deps[j]
            IN \E v \in Described : v.name = d.name /\ d.type \in {NoType, v.type}
       /\ ~Cyclic(BareEdges, Names))

\* For such a configuration DependencyOrder lists every unit once, after all
\* it depends on (README.md:43, "units that must be started first").
OrderRespectsDeps ==
  verdict = "accepted" /\ stage = "done" /\ UniqueNames =>
    /\ IsInjective(order) /\ ToSet(order) = BareNames
    /\ \A a, b \in DOMAIN order : <<order[a], order[b]>> \in BareEdges => b < a

\* Both traversals end.
TraversalsEnd == <>(stage = "done")

----------------------------------------------------------------------------
(* What the documentation says of the code, and the code does not do when a   *)
(* service and a timer have the same bare name, or types differ.              *)

\* docs/config.md:144: circular dependencies are detected and rejected.
AcceptedIsAcyclic ==
  verdict = "accepted" => ~Cyclic(BuildDependents, Described)

\* docs/config.md:143: all referenced units must exist in the configuration.
\* docs/config.md:147: bare names resolve to the same type as the dependent unit.
TargetsExist ==
  verdict = "accepted" => \A e \in BuildDependents : e[1] \in Described
=============================================================================
