---------------------------- MODULE RegistryProofs ----------------------------
(***************************************************************************)
(* What is registered and supervised, for all units, configurations and    *)
(* reloads.                                                                *)
(*                                                                         *)
(* IInv says what holds however the event loop and discovery interleave:   *)
(* what each can be doing, that discovery never unregisters, and that a    *)
(* registration that is alive is the one the unit has.  OwnInv adds, for   *)
(* the units that only the event loop registers, how far it is with each   *)
(* of them.  Discovery touches no such unit, so each of its steps leaves   *)
(* OwnInv as it was (Aside), and the event loop's calls for other units    *)
(* do too.                                                                 *)
(***************************************************************************)
EXTENDS Registry, SequenceTheorems, NaturalsInduction, WellFoundedInduction, TLAPS

\* The calls of unregisterUnit alone, and those that register the unit, perhaps
\* after they unregistered it.
Bare == [step : {"remove", "untrack", "drop"}, unit : Units]
Full == [step : {"remove", "untrack", "drop", "insert", "status", "track", "observe"},
         unit : Units, critical : BOOLEAN, live : BOOLEAN]

\* The units a template of some configuration matches.
AllInstances == UNION {Instances(c) : c \in Configs}

\* What each goroutine can be doing.
MainPlace ==
  /\ phase["main"] # "panic"
  /\ ~booted => phase["main"] \in {"scan", "register"} /\ next = cfg
  /\ phase["main"] = "idle" => call["main"] = NoCall /\ next = cfg
  /\ phase["main"] \in {"scan", "register"} => bound["main"] = Len(next)
  /\ phase["main"] \in {"idle", "scan"} => todo["main"] = {}
  /\ phase["main"] = "register" => todo["main"] \subseteq Instances(next)
  /\ phase["main"] = "new" => todo["main"] \subseteq Static(next)
  /\ phase["main"] = "old" =>
       todo["main"] \subseteq registered /\ (call["main"] # NoCall => call["main"].unit \notin todo["main"])

DiscoveryPlace ==
  /\ phase["discovery"] \in {"idle", "scan", "register", "panic"}
  /\ phase["discovery"] \in {"idle", "panic"} => call["discovery"] = NoCall
  /\ ~discovering => phase["discovery"] = "idle"
  /\ ~booted => ~discovering
  /\ todo["discovery"] \subseteq AllInstances
  /\ call["discovery"] # NoCall =>
       /\ call["discovery"].step \in {"insert", "status", "track", "observe"}
       /\ call["discovery"].unit \in AllInstances

\* A goroutine that is in no loop over the configuration is not on the way to
\* the end of one, and one that deals with an entry is not past the end.
Within ==
  \A g \in Goroutines : /\ phase[g] \in {"idle", "old", "new"} => bound[g] = 0
                        /\ phase[g] = "register" => idx[g] <= bound[g]

\* A registration that is alive is the one the unit has.
LiveRegistered ==
  \A g \in Goroutines : call[g] \in Full /\ call[g].live =>
    call[g].step \in {"status", "track", "observe"} /\ call[g].unit \in registered

Removing ==
  \A g \in Goroutines : call[g].step = "remove" => call[g].unit \in registered

Observed == critical \subseteq registered /\ watched \subseteq registered

IInv == /\ TypeOK /\ MainPlace /\ DiscoveryPlace /\ Within
        /\ LiveRegistered /\ Removing /\ Observed


----------------------------------------------------------------------------
(* Configurations. *)

LEMMA Named ==
  ASSUME NEW c \in Configs
  PROVE  /\ Len(c) \in Nat /\ DOMAIN c = 1..Len(c)
         /\ Static(c) \subseteq Units /\ Instances(c) \subseteq Units
         /\ Instances(c) \subseteq AllInstances
         /\ \A n \in DOMAIN c :
              /\ c[n].template \in BOOLEAN /\ c[n].critical \in BOOLEAN
              /\ c[n].names \subseteq Units
              /\ c[n].names \subseteq IF c[n].template THEN Instances(c) ELSE Static(c)
<1>1. c \in Seq(Entry)  BY ConfigsAssumption
<1>2. Len(c) \in Nat /\ DOMAIN c = 1..Len(c)  BY <1>1
<1>3. \A n \in DOMAIN c : c[n] \in Entry  BY <1>1, <1>2
<1>4. \A n \in DOMAIN c : /\ c[n].template \in BOOLEAN /\ c[n].critical \in BOOLEAN
                          /\ c[n].names \subseteq Units
  BY <1>3 DEF Entry
<1>5. \A t \in BOOLEAN : \A u \in Names(c, t) : \E n \in DOMAIN c : c[n].template = t /\ u \in c[n].names
  BY DEF Names
<1>6. \A t \in BOOLEAN : \A n \in DOMAIN c : c[n].template = t => c[n].names \subseteq Names(c, t)
  BY DEF Names
<1>7. Instances(c) \subseteq AllInstances  BY DEF AllInstances
<1> QED  BY <1>2, <1>4, <1>5, <1>6, <1>7 DEF Static, Instances

\* A set of numbers that is not empty has a least one.
LEMMA Least ==
  ASSUME NEW S \in SUBSET Nat, S # {}
  PROVE  \E n \in S : \A m \in S : n <= m
<1>1. PICK n \in S : \A m \in S : <<m, n>> \notin OpToRel(<, Nat)
  BY NatLessThanWellFounded, WFMin, Zenon
<1>2. \A m \in S : ~(m < n)  BY <1>1 DEF OpToRel
<1> QED  BY <1>2

LEMMA FlagOfNamed ==
  ASSUME NEW c \in Configs, NEW t \in BOOLEAN, NEW u \in Names(c, t)
  PROVE  FlagOf(c, u, t) \in BOOLEAN
<1> DEFINE naming == {n \in DOMAIN c : c[n].template = t /\ u \in c[n].names}
           Min(n) == n \in naming /\ \A m \in naming : n <= m
<1>1. naming # {} /\ naming \subseteq Nat  BY Named DEF Names
<1>2. \E n \in naming : \A m \in naming : n <= m
  <2> HIDE DEF naming
  <2> QED  BY <1>1, Least
<1>3. (CHOOSE n \in naming : \A m \in naming : n <= m) \in naming
  <2> HIDE DEF naming
  <2> QED  BY <1>2
<1> QED  BY <1>3, Named DEF FlagOf

\* The first entry that names the unit decides.
LEMMA FlagOfFirst ==
  ASSUME NEW c \in Configs, NEW t \in BOOLEAN, NEW u, NEW n \in DOMAIN c,
         c[n].template = t, u \in c[n].names,
         \A m \in DOMAIN c : m < n => ~(c[m].template = t /\ u \in c[m].names)
  PROVE  FlagOf(c, u, t) = c[n].critical
<1> DEFINE naming == {m \in DOMAIN c : c[m].template = t /\ u \in c[m].names}
<1>1. n \in naming /\ naming \subseteq Nat  BY Named
<1>2. \A m \in naming : n <= m  BY <1>1, Named
<1>3. (CHOOSE k \in naming : \A m \in naming : k <= m) = n
  <2> HIDE DEF naming
  <2>1. \A k \in naming : (\A m \in naming : k <= m) => k = n  BY <1>1, <1>2
  <2> QED  BY <1>1, <1>2, <2>1
<1> QED  BY <1>3 DEF FlagOf

----------------------------------------------------------------------------
(* Calls. *)

LEMMA CallShapes ==
  ASSUME NEW x \in Calls
  PROVE  /\ x = NoCall \/ x \in Bare \/ x \in Full
         /\ x.step = "none" <=> x = NoCall
         /\ x = NoCall => x \notin Full
         /\ x \in Bare => /\ x \notin Full /\ x.unit \in Units
                          /\ x.step \in {"remove", "untrack", "drop"}
                          /\ "critical" \notin DOMAIN x /\ "live" \notin DOMAIN x
         /\ x \in Full => /\ x.unit \in Units /\ x.critical \in BOOLEAN /\ x.live \in BOOLEAN
                          /\ x.step \in {"remove", "untrack", "drop", "insert", "status",
                                        "track", "observe"}
                          /\ "critical" \in DOMAIN x /\ "live" \in DOMAIN x
<1>1. x = NoCall \/ x \in Bare \/ x \in Full
  <2>1. CASE x \in [step : {"none"}]  BY <2>1 DEF NoCall
  <2> QED  BY <2>1 DEF Calls, Bare, Full
<1>2. CASE x = NoCall
  <2>1. "critical" \notin DOMAIN x /\ x.step = "none"  BY <1>2 DEF NoCall
  <2>2. x \notin Full /\ x \notin Bare  BY <2>1 DEF Full, Bare
  <2> QED  BY <1>2, <2>1, <2>2
<1>3. CASE x \in Bare
  <2>1. "critical" \notin DOMAIN x /\ "live" \notin DOMAIN x  BY <1>3 DEF Bare
  <2>2. x \notin Full  BY <2>1 DEF Full
  <2>3. x.unit \in Units /\ x.step \in {"remove", "untrack", "drop"}  BY <1>3 DEF Bare
  <2> QED  BY <1>3, <2>1, <2>2, <2>3 DEF NoCall
<1>4. CASE x \in Full
  <2>1. "critical" \in DOMAIN x /\ "live" \in DOMAIN x  BY <1>4 DEF Full
  <2>2. x \notin Bare  BY <2>1 DEF Bare
  <2>3. /\ x.unit \in Units /\ x.critical \in BOOLEAN /\ x.live \in BOOLEAN
        /\ x.step \in {"remove", "untrack", "drop", "insert", "status", "track", "observe"}
    BY <1>4 DEF Full
  <2> QED  BY <1>4, <2>1, <2>2, <2>3 DEF NoCall
<1> QED  BY <1>1, <1>2, <1>3, <1>4

LEMMA CallsAre == NoCall \in Calls /\ Bare \subseteq Calls /\ Full \subseteq Calls
<1>1. NoCall \in Calls  BY DEF NoCall, Calls
<1> QED  BY <1>1 DEF Calls, Bare, Full

\* A call moves to another of its steps.
LEMMA MovedFull ==
  ASSUME NEW x \in Full,
         NEW to \in {"remove", "untrack", "drop", "insert", "status", "track", "observe"}
  PROVE  LET y == [x EXCEPT !.step = to]
         IN /\ y \in Full /\ y.step = to /\ y.unit = x.unit
            /\ y.critical = x.critical /\ y.live = x.live
BY DEF Full

LEMMA MovedBare ==
  ASSUME NEW x \in Bare, NEW to \in {"remove", "untrack", "drop"}
  PROVE  LET y == [x EXCEPT !.step = to]
         IN y \in Bare /\ y.step = to /\ y.unit = x.unit
BY DEF Bare

LEMMA Cut ==
  ASSUME NEW x \in Full
  PROVE  LET y == [x EXCEPT !.live = FALSE]
         IN /\ y \in Full /\ y.step = x.step /\ y.unit = x.unit
            /\ y.critical = x.critical /\ y.live = FALSE
BY DEF Full

LEMMA Begun ==
  ASSUME NEW u \in Units, NEW f \in BOOLEAN
  PROVE  /\ LET x == Registering(u, f)
            IN x \in Full /\ x.step = "insert" /\ x.unit = u /\ x.critical = f /\ x.live = FALSE
         /\ LET x == Updating(u, f)
            IN x \in Full /\ x.step = "remove" /\ x.unit = u /\ x.critical = f /\ x.live = FALSE
         /\ LET x == Unregistering(u)
            IN x \in Bare /\ x.step = "remove" /\ x.unit = u
BY DEF Registering, Updating, Unregistering, Full, Bare

\* Only the call of g changes.
OthersStay(g) == /\ call' \in [Goroutines -> Calls]
                 /\ \A h \in Goroutines \ {g} : call'[h] = call[h]

\* The call of g goes on with its step to.
Moved(g, to) ==
  /\ call'[g].step = to /\ call'[g].unit = call[g].unit
  /\ call[g] \in Full <=> call'[g] \in Full
  /\ call[g] \in Full => call'[g].critical = call[g].critical

LEMMA Assigned ==
  ASSUME TypeOK, NEW g \in Goroutines, NEW d \in Calls, call' = [call EXCEPT ![g] = d]
  PROVE  OthersStay(g) /\ call'[g] = d
BY DEF TypeOK, OthersStay

LEMMA Moving ==
  ASSUME TypeOK, NEW g \in Goroutines, NEW to \in {"remove", "untrack", "drop"},
         call[g].step \in {"remove", "untrack", "drop"},
         NEW c, c = [call[g] EXCEPT !.step = to]
  PROVE  /\ c \in Calls /\ c.step = to /\ c.unit = call[g].unit /\ c # NoCall
         /\ call[g] \in Full <=> c \in Full
         /\ call[g] \in Full => c.critical = call[g].critical /\ c.live = call[g].live
<1>1. call[g] \in Calls  BY DEF TypeOK
<1>2. call[g] # NoCall  BY DEF NoCall
<1>3. CASE call[g] \in Full
  <2> DEFINE d == [call[g] EXCEPT !.step = to]
  <2>1. /\ d \in Full /\ d.step = to /\ d.unit = call[g].unit
        /\ d.critical = call[g].critical /\ d.live = call[g].live
    <3>1. to \in {"remove", "untrack", "drop", "insert", "status", "track", "observe"}  OBVIOUS
    <3> QED  BY <1>3, <3>1, MovedFull
  <2>2. c = d  OBVIOUS
  <2> HIDE DEF d
  <2> QED  BY <1>3, <2>1, <2>2, CallsAre, CallShapes
<1>4. CASE call[g] \in Bare
  <2>1. c \in Bare /\ c.step = to /\ c.unit = call[g].unit  BY <1>4, MovedBare
  <2> QED  BY <1>1, <1>4, <2>1, CallsAre, CallShapes
<1> QED  BY <1>1, <1>2, <1>3, <1>4, CallShapes

LEMMA FullMoves ==
  ASSUME TypeOK, NEW g \in Goroutines, call[g] \in Full,
         NEW to \in {"remove", "untrack", "drop", "insert", "status", "track", "observe"},
         Step(g, to)
  PROVE  OthersStay(g) /\ Moved(g, to) /\ call'[g].live = call[g].live /\ call'[g] \in Full
<1> DEFINE d == [call[g] EXCEPT !.step = to]
<1>1. call' = [call EXCEPT ![g] = d]  BY DEF Step
<1>2. d \in Full /\ d.step = to /\ d.unit = call[g].unit /\ d.critical = call[g].critical /\ d.live = call[g].live
  BY MovedFull
<1> HIDE DEF d
<1>3. OthersStay(g) /\ call'[g] = d  BY <1>1, <1>2, CallsAre, Assigned
<1> QED  BY <1>2, <1>3 DEF Moved

\* These steps belong to registrations.
LEMMA InRegistration ==
  ASSUME TypeOK, NEW g \in Goroutines, call[g].step \in {"insert", "status", "track", "observe"}
  PROVE  call[g] \in Full /\ call[g].unit \in Units
<1>1. call[g] \in Calls  BY DEF TypeOK
<1> QED  BY <1>1, CallShapes

LEMMA InCall ==
  ASSUME TypeOK, NEW g \in Goroutines, call[g].step # "none"
  PROVE  call[g] # NoCall /\ call[g] \in Bare \cup Full /\ call[g].unit \in Units
<1>1. call[g] \in Calls  BY DEF TypeOK
<1> QED  BY <1>1, CallShapes

LEMMA Returns ==
  ASSUME TypeOK, NEW g \in Goroutines, Return(g)
  PROVE  OthersStay(g) /\ call'[g] = NoCall
BY CallsAre, Assigned DEF Return

LEMMA Inserted ==
  ASSUME TypeOK, NEW g \in Goroutines, Insert(g)
  PROVE  OthersStay(g) /\ Moved(g, "status") /\ call'[g] \in Full /\ call'[g].live = TRUE
<1>1. call[g] \in Full  BY InRegistration DEF Insert, At
<1> DEFINE d == [call[g] EXCEPT !.step = "status", !.live = TRUE]
<1>2. call' = [call EXCEPT ![g] = d]  BY DEF Insert
<1>3. d \in Full /\ d.step = "status" /\ d.live = TRUE /\ d.unit = call[g].unit /\ d.critical = call[g].critical
  BY <1>1 DEF Full
<1> HIDE DEF d
<1>4. OthersStay(g) /\ call'[g] = d  BY <1>2, <1>3, CallsAre, Assigned
<1> QED  BY <1>1, <1>3, <1>4 DEF Moved

LEMMA Untracks ==
  ASSUME TypeOK, NEW g \in Goroutines, UnregisterTracker(g)
  PROVE  OthersStay(g) /\ Moved(g, "drop") /\ (call[g] \in Full => call'[g].live = call[g].live)
<1> DEFINE d == [call[g] EXCEPT !.step = "drop"]
<1>1. call' = [call EXCEPT ![g] = d]  BY DEF UnregisterTracker, Step
<1>2. call[g].step = "untrack"  BY DEF UnregisterTracker, At
<1>3. /\ d \in Calls /\ d.step = "drop" /\ d.unit = call[g].unit /\ d # NoCall
      /\ call[g] \in Full <=> d \in Full
      /\ call[g] \in Full => d.critical = call[g].critical /\ d.live = call[g].live
  <2> HIDE DEF d
  <2>1. d = [call[g] EXCEPT !.step = "drop"]  BY DEF d
  <2> QED  BY <1>2, <2>1, Moving
<1> HIDE DEF d
<1>4. OthersStay(g) /\ call'[g] = d  BY <1>1, <1>3, Assigned
<1> QED  BY <1>3, <1>4 DEF Moved

LEMMA Drops ==
  ASSUME TypeOK, NEW g \in Goroutines, UnregisterStatus(g)
  PROVE  /\ OthersStay(g)
         /\ \/ call[g] \in Full /\ Moved(g, "insert") /\ call'[g] \in Full /\ call'[g].live = call[g].live
            \/ call[g] \in Bare /\ call'[g] = NoCall
<1>1. call[g].step = "drop" /\ Removed(g)  BY DEF UnregisterStatus, At
<1>2. call[g] \in Bare \cup Full /\ call[g] \in Calls  BY <1>1, InCall DEF TypeOK
<1>3. CASE call[g] \in Full
  <2>1. Step(g, "insert")  BY <1>1, <1>2, <1>3, CallShapes DEF Removed
  <2> QED  BY <1>3, <2>1, FullMoves
<1>4. CASE call[g] \in Bare
  <2>1. Return(g)  BY <1>1, <1>2, <1>4, CallShapes DEF Removed
  <2> QED  BY <1>4, <2>1, Returns
<1> QED  BY <1>2, <1>3, <1>4

\* The registration of the unit that is removed is cut off, whoever makes it.
LEMMA Removes ==
  ASSUME TypeOK, NEW g \in Goroutines, Remove(g)
  PROVE  /\ call' \in [Goroutines -> Calls]
         /\ Moved(g, "untrack") /\ (call[g] \in Full => call'[g].live = call[g].live)
         /\ \A h \in Goroutines \ {g} :
              \/ call'[h] = call[h] /\ ~(call[h] \in Full /\ call[h].unit = call[g].unit)
              \/ /\ call[h] \in Full /\ call'[h] \in Full /\ call[h].unit = call[g].unit
                 /\ call'[h].step = call[h].step /\ call'[h].unit = call[h].unit
                 /\ call'[h].critical = call[h].critical /\ call'[h].live = FALSE
<1>1. call[g].step = "remove" /\ Running  BY DEF Remove, At
<1>2. \A h \in Goroutines :
        call'[h] = IF h = g THEN [call[g] EXCEPT !.step = "untrack"]
                   ELSE IF call[h].step = "none" \/ call[h].unit # call[g].unit THEN call[h]
                   ELSE IF "live" \in DOMAIN call[h]
                        THEN [call[h] EXCEPT !.live = FALSE] ELSE call[h]
  BY <1>1 DEF Remove, At
<1>3. DOMAIN call' = Goroutines /\ call' = [h \in Goroutines |-> call'[h]]  BY DEF Remove
<1>4. /\ call'[g] \in Calls /\ Moved(g, "untrack") /\ (call[g] \in Full => call'[g].live = call[g].live)
  <2>1. call'[g] = [call[g] EXCEPT !.step = "untrack"]  BY <1>2
  <2> QED  BY <1>1, <2>1, Moving DEF Moved
<1>5. ASSUME NEW h \in Goroutines \ {g}
      PROVE  /\ call'[h] \in Calls
             /\ \/ call'[h] = call[h] /\ ~(call[h] \in Full /\ call[h].unit = call[g].unit)
                \/ /\ call[h] \in Full /\ call'[h] \in Full /\ call[h].unit = call[g].unit
                   /\ call'[h].step = call[h].step /\ call'[h].unit = call[h].unit
                   /\ call'[h].critical = call[h].critical /\ call'[h].live = FALSE
  <2>1. call[h] \in Calls  BY DEF TypeOK
  <2>2. CASE call[h] \in Full /\ call[h].unit = call[g].unit
    <3>1. call[h].step # "none" /\ "live" \in DOMAIN call[h]  BY <2>1, <2>2, CallShapes
    <3>2. call'[h] = [call[h] EXCEPT !.live = FALSE]  BY <1>2, <2>2, <3>1
    <3> QED  BY <2>2, <3>2, Cut, CallsAre
  <2>3. CASE ~(call[h] \in Full /\ call[h].unit = call[g].unit)
    <3>1. \/ call[h].step = "none" \/ "live" \notin DOMAIN call[h]
          \/ call[h].unit # call[g].unit
      BY <2>1, <2>3, CallShapes
    <3>2. call'[h] = call[h]  BY <1>2, <3>1
    <3> QED  BY <2>1, <2>3, <3>2
  <2> QED  BY <2>2, <2>3
<1> QED  BY <1>3, <1>4, <1>5

----------------------------------------------------------------------------
(* The inductive invariant: calls. *)

LEMMA CallFrame ==
  ASSUME IInv, UNCHANGED <<config, progress, http>>,
         call' \in [Goroutines -> Calls],
         \A h \in Goroutines :
           call'[h] # NoCall => call[h] # NoCall /\ call'[h].unit = call[h].unit,
         call'["discovery"] # NoCall =>
           call'["discovery"].step \in {"insert", "status", "track", "observe"},
         registered' \subseteq Units, trackers' \subseteq Units,
         status' \in [Units -> {None, "unknown", "active", "failed"}],
         \A u \in registered \ registered' : call["main"] # NoCall /\ u = call["main"].unit,
         Observed', LiveRegistered', Removing'
  PROVE  IInv'
<1> USE DEF config, progress, http
<1>1. TypeOK'  BY DEF IInv, TypeOK, Observed
<1>2. MainPlace'
  <2>1. phase'["main"] = phase["main"] /\ bound'["main"] = bound["main"] /\ todo'["main"] = todo["main"]
    OBVIOUS
  <2>2. call'["main"] # NoCall => call["main"] # NoCall /\ call'["main"].unit = call["main"].unit
    BY DEF Goroutines
  <2> QED  BY <2>1, <2>2 DEF IInv, MainPlace
<1>3. DiscoveryPlace'
  <2>1. call'["discovery"] # NoCall =>
          call["discovery"] # NoCall /\ call'["discovery"].unit = call["discovery"].unit
    BY DEF Goroutines
  <2>2. phase'["discovery"] = phase["discovery"] /\ bound'["discovery"] = bound["discovery"] /\ todo'["discovery"] = todo["discovery"]
    OBVIOUS
  <2>3. AllInstances' = AllInstances  BY DEF AllInstances, Instances, Names
  <2> QED  BY <2>1, <2>2, <2>3 DEF IInv, DiscoveryPlace
<1>4. Within'  BY DEF IInv, Within
<1> QED  BY <1>1, <1>2, <1>3, <1>4 DEF IInv

\* The discovery loop never unregisters anything.
LEMMA OnlyMainRemoves ==
  ASSUME IInv, NEW g \in Goroutines, call[g].step \in {"remove", "untrack", "drop"}
  PROVE  g = "main"
<1>1. call["discovery"].step \in {"remove", "untrack", "drop"} => FALSE
  BY DEF IInv, DiscoveryPlace, NoCall
<1> QED  BY <1>1 DEF Goroutines

LEMMA CallKeeps ==
  ASSUME IInv, NEW g \in Goroutines, CallStep(g)
  PROVE  IInv'
<1> USE DEF config, tables, progress, http
<1>0. TypeOK /\ Observed /\ LiveRegistered /\ Removing  BY DEF IInv
<1>1. \A h \in Goroutines : call[h] \in Calls  BY <1>0 DEF TypeOK
<1>2. call["discovery"] # NoCall => call["discovery"].step \in {"insert", "status", "track", "observe"}
  BY DEF IInv, DiscoveryPlace
<1>3. registered \subseteq Units /\ trackers \subseteq Units /\ watched \subseteq registered /\ critical \subseteq registered
      /\ status \in [Units -> {None, "unknown", "active", "failed"}]
  BY <1>0 DEF TypeOK, Observed
<1>4. NoCall.step = "none" /\ NoCall \notin Full  BY CallsAre, CallShapes DEF NoCall
<1>5. ASSUME OthersStay(g), call'[g] = NoCall, registered' = registered, critical' = critical,
             watched' \subseteq registered, trackers' \subseteq Units,
             status' \in [Units -> {None, "unknown", "active", "failed"}],
             UNCHANGED <<config, progress, http>>
      PROVE  IInv'
  <2>1. LiveRegistered' /\ Removing'
    BY <1>0, <1>4, <1>5 DEF OthersStay, LiveRegistered, Removing
  <2>2. \A h \in Goroutines :
           call'[h] # NoCall => call[h] # NoCall /\ call'[h].unit = call[h].unit
    BY <1>5 DEF OthersStay
  <2>3. call'["discovery"] # NoCall =>
           call'["discovery"].step \in {"insert", "status", "track", "observe"}
    BY <1>2, <1>5 DEF OthersStay, Goroutines
  <2> QED  BY <1>3, <1>5, <2>1, <2>2, <2>3, CallFrame DEF OthersStay, Observed
<1>6. ASSUME call[g] \in Full, OthersStay(g), call'[g] \in Full,
             call'[g].unit = call[g].unit, call'[g].step \in {"status", "track", "observe"},
             call'[g].live => call[g].unit \in registered',
             registered \subseteq registered', registered' \subseteq Units,
             critical' \subseteq registered', watched' = watched, trackers' \subseteq Units,
             status' \in [Units -> {None, "unknown", "active", "failed"}],
             UNCHANGED <<config, progress, http>>
      PROVE  IInv'
  <2>1. LiveRegistered' /\ Removing'
    BY <1>0, <1>4, <1>6 DEF OthersStay, LiveRegistered, Removing
  <2>2. \A h \in Goroutines :
           call'[h] # NoCall => call[h] # NoCall /\ call'[h].unit = call[h].unit
    BY <1>4, <1>6 DEF OthersStay
  <2>3. call'["discovery"] # NoCall =>
           call'["discovery"].step \in {"insert", "status", "track", "observe"}
    BY <1>2, <1>6 DEF OthersStay, Goroutines
  <2> QED  BY <1>2, <1>3, <1>6, <2>1, <2>2, <2>3, CallFrame DEF OthersStay, Observed
<1>7. CASE AlreadyRegistered(g)
  BY <1>0, <1>3, <1>5, <1>7, Returns DEF AlreadyRegistered
<1>8. CASE Insert(g)
  <2>1. call[g].step = "insert" /\ call[g] \in Full /\ call[g].unit \in Units
    BY <1>0, <1>8, InRegistration DEF Insert, At
  <2>2. OthersStay(g) /\ Moved(g, "status") /\ call'[g] \in Full  BY <1>0, <1>8, Inserted
  <2>3. /\ registered' = registered \cup {call[g].unit}
        /\ critical' \subseteq critical \cup {call[g].unit}
        /\ UNCHANGED <<config, watched, status, trackers, progress, http>>
    BY <1>8 DEF Insert
  <2> QED  BY <1>3, <1>6, <2>1, <2>2, <2>3 DEF Moved
<1>9. CASE RegisterStatus(g)
  <2>1. call[g].step = "status" /\ call[g] \in Full /\ call[g].unit \in Units
    BY <1>0, <1>9, InRegistration DEF RegisterStatus, At
  <2>2. OthersStay(g) /\ Moved(g, "track") /\ call'[g] \in Full /\ call'[g].live = call[g].live
    BY <1>0, <1>9, <2>1, FullMoves DEF RegisterStatus
  <2>3. call[g].live => call[g].unit \in registered  BY <1>0, <2>1 DEF LiveRegistered
  <2>4. status' \in [Units -> {None, "unknown", "active", "failed"}]  BY <1>3, <1>9 DEF RegisterStatus
  <2>5. UNCHANGED <<config, registered, critical, watched, trackers, progress, http>>
    BY <1>9 DEF RegisterStatus
  <2> QED  BY <1>3, <1>6, <2>1, <2>2, <2>3, <2>4, <2>5 DEF Moved
<1>10. CASE RegisterTracker(g)
  <2>1. call[g].step = "track" /\ call[g] \in Full /\ call[g].unit \in Units
    BY <1>0, <1>10, InRegistration DEF RegisterTracker, At
  <2>2. OthersStay(g) /\ Moved(g, "observe") /\ call'[g] \in Full /\ call'[g].live = call[g].live
    BY <1>0, <1>10, <2>1, FullMoves DEF RegisterTracker
  <2>3. call[g].live => call[g].unit \in registered  BY <1>0, <2>1 DEF LiveRegistered
  <2>4. /\ trackers' = trackers \cup {call[g].unit}
        /\ UNCHANGED <<config, registered, critical, watched, status, progress, http>>
    BY <1>10 DEF RegisterTracker
  <2> QED  BY <1>3, <1>6, <2>1, <2>2, <2>3, <2>4 DEF Moved
<1>11. CASE Observe(g)
  <2>1. call[g].step = "observe" /\ call[g] \in Full /\ call[g].unit \in Units
    BY <1>0, <1>11, InRegistration DEF Observe, At
  <2>2. call[g].live => call[g].unit \in registered  BY <1>0, <2>1 DEF LiveRegistered
  <2>3. /\ Return(g) /\ watched' = IF call[g].live THEN watched \cup {call[g].unit} ELSE watched
        /\ UNCHANGED <<config, registered, critical, trackers, progress, http>>
        /\ status' = status \/ status' = [status EXCEPT ![call[g].unit] = StateOf(call[g].unit)]
    BY <1>11 DEF Observe
  <2>4. status' \in [Units -> {None, "unknown", "active", "failed"}]  BY <1>3, <2>3 DEF StateOf
  <2>5. watched' \subseteq registered  BY <1>3, <2>2, <2>3
  <2>6. OthersStay(g) /\ call'[g] = NoCall  BY <1>0, <2>3, Returns
  <2> QED  BY <1>3, <1>5, <2>3, <2>4, <2>5, <2>6
<1>12. CASE Remove(g)
  <2>1. call[g].step = "remove"  BY <1>12 DEF Remove, At
  <2>2. g = "main" /\ call[g] # NoCall  BY <1>4, <2>1, OnlyMainRemoves
  <2>3. /\ registered' = registered \ {call[g].unit} /\ critical' = critical \ {call[g].unit}
        /\ watched' = watched \ {call[g].unit}
        /\ UNCHANGED <<config, status, trackers, progress, http>>
    BY <1>12 DEF Remove
  <2>4. /\ call' \in [Goroutines -> Calls]
        /\ Moved(g, "untrack") /\ (call[g] \in Full => call'[g].live = call[g].live)
        /\ \/ call'["discovery"] = call["discovery"] /\ ~(call["discovery"] \in Full /\ call["discovery"].unit = call[g].unit)
           \/ /\ call["discovery"] \in Full /\ call'["discovery"] \in Full
              /\ call'["discovery"].step = call["discovery"].step /\ call'["discovery"].unit = call["discovery"].unit
              /\ call'["discovery"].live = FALSE
    BY <1>0, <1>12, <2>2, Removes DEF Goroutines
  <2>5. LiveRegistered'
    <3>1. ~(call'["main"] \in Full /\ call'["main"].live)
      BY <1>0, <2>1, <2>2, <2>4 DEF LiveRegistered, Moved
    <3>2. call'["discovery"] \in Full /\ call'["discovery"].live =>
            call'["discovery"].step \in {"status", "track", "observe"} /\ call'["discovery"].unit \in registered'
      BY <1>0, <2>3, <2>4 DEF LiveRegistered, Goroutines
    <3> QED  BY <3>1, <3>2 DEF LiveRegistered, Goroutines
  <2>6. call'["discovery"] # NoCall => call["discovery"] # NoCall
            /\ call'["discovery"].unit = call["discovery"].unit
            /\ call'["discovery"].step \in {"insert", "status", "track", "observe"}
    BY <1>2, <1>4, <2>4
  <2>7. Removing'
    <3>1. call'["main"].step # "remove"  BY <2>2, <2>4 DEF Moved
    <3>2. call'["discovery"].step # "remove"  BY <1>4, <2>6
    <3> QED  BY <3>1, <3>2 DEF Removing, Goroutines
  <2>8. \A h \in Goroutines :
           call'[h] # NoCall => call[h] # NoCall /\ call'[h].unit = call[h].unit
    BY <2>2, <2>4, <2>6 DEF Moved, Goroutines
  <2>9. Observed'  BY <1>3, <2>3 DEF Observed
  <2> QED  BY <1>3, <2>2, <2>3, <2>4, <2>5, <2>6, <2>7, <2>8, <2>9, CallFrame
<1>13. ASSUME g = "main", call[g] # NoCall, OthersStay(g), call'[g].unit = call[g].unit,
              call'[g].step \in {"drop", "insert"},
              call[g] \in Full => ~call[g].live, call'[g] \in Full => call[g] \in Full /\ call'[g].live = call[g].live,
              UNCHANGED <<config, registered, critical, watched, progress, http>>, trackers' \subseteq Units,
              status' \in [Units -> {None, "unknown", "active", "failed"}]
       PROVE  IInv'
  <2>1. LiveRegistered' /\ Removing'
    BY <1>0, <1>4, <1>13 DEF OthersStay, LiveRegistered, Removing
  <2>2. \A h \in Goroutines :
           call'[h] # NoCall => call[h] # NoCall /\ call'[h].unit = call[h].unit
    BY <1>4, <1>13 DEF OthersStay
  <2>3. call'["discovery"] # NoCall =>
           call'["discovery"].step \in {"insert", "status", "track", "observe"}
    BY <1>2, <1>13 DEF OthersStay, Goroutines
  <2> QED  BY <1>2, <1>3, <1>13, <2>1, <2>2, <2>3, CallFrame DEF OthersStay, Observed
<1>14. CASE UnregisterTracker(g)
  <2>1. call[g].step = "untrack"  BY <1>14 DEF UnregisterTracker, At
  <2>2. g = "main" /\ call[g] # NoCall /\ (call[g] \in Full => ~call[g].live)
    BY <1>0, <1>4, <2>1, OnlyMainRemoves DEF LiveRegistered
  <2>3. OthersStay(g) /\ Moved(g, "drop") /\ (call[g] \in Full => call'[g].live = call[g].live)
    BY <1>0, <1>14, Untracks
  <2>4. /\ trackers' = trackers \ {call[g].unit}
        /\ UNCHANGED <<config, registered, critical, watched, status, progress, http>>
    BY <1>14 DEF UnregisterTracker
  <2> QED  BY <1>3, <1>13, <2>2, <2>3, <2>4 DEF Moved
<1>15. CASE UnregisterStatus(g)
  <2>1. call[g].step = "drop"  BY <1>15 DEF UnregisterStatus, At
  <2>2. g = "main" /\ call[g] # NoCall /\ (call[g] \in Full => ~call[g].live)
    BY <1>0, <1>4, <2>1, OnlyMainRemoves DEF LiveRegistered
  <2>3. /\ status' = [status EXCEPT ![call[g].unit] = None]
        /\ UNCHANGED <<config, registered, critical, watched, trackers, progress, http>>
    BY <1>15 DEF UnregisterStatus
  <2>4. status' \in [Units -> {None, "unknown", "active", "failed"}]  BY <1>3, <2>3
  <2>5. CASE call[g] \in Full /\ Moved(g, "insert") /\ call'[g] \in Full /\ call'[g].live = call[g].live /\ OthersStay(g)
    BY <1>3, <1>13, <2>2, <2>3, <2>4, <2>5 DEF Moved
  <2>6. CASE call'[g] = NoCall /\ OthersStay(g)
    BY <1>3, <1>5, <2>3, <2>4, <2>6
  <2> QED  BY <1>0, <1>15, <2>5, <2>6, Drops
<1> QED  BY <1>7, <1>8, <1>9, <1>10, <1>11, <1>12, <1>14, <1>15 DEF CallStep

----------------------------------------------------------------------------
(* The inductive invariant: the loops. *)

\* The tables stay, and perhaps a goroutine that was in no call begins one.
LEMMA LoopFrame ==
  ASSUME IInv, UNCHANGED tables, TypeOK', MainPlace', DiscoveryPlace', Within',
         \A h \in Goroutines :
           \/ call'[h] = call[h]
           \/ /\ call'[h] \in Bare /\ call'[h].unit \in registered
           \/ /\ call'[h] \in Full /\ call'[h].live = FALSE
              /\ call'[h].step = "remove" => call'[h].unit \in registered
  PROVE  IInv'
<1> USE DEF tables
<1>1. LiveRegistered'
  <2>1. \A h \in Goroutines : call'[h] \in Bare => call'[h] \notin Full
    BY CallsAre, CallShapes
  <2> QED  BY <2>1 DEF IInv, LiveRegistered
<1>2. Removing'  BY DEF IInv, Removing
<1>3. Observed'  BY DEF IInv, Observed
<1> QED  BY <1>1, <1>2, <1>3 DEF IInv

LEMMA SourceKnown ==
  ASSUME IInv, NEW g \in Goroutines, More(g)
  PROVE  Source(g) \in Configs /\ idx[g] \in DOMAIN Source(g) /\ idx[g] \in 1..bound[g]
<1>1. Source(g) \in Configs  BY DEF Source, IInv, TypeOK
<1>2. Len(Source(g)) \in Nat /\ DOMAIN Source(g) = 1..Len(Source(g))  BY <1>1, Named
<1>3. idx[g] \in 1..(bound[g] + 1) /\ bound[g] \in Nat  BY DEF IInv, TypeOK
<1> QED  BY <1>1, <1>2, <1>3 DEF More

LEMMA NotCalling ==
  ASSUME IInv, NEW g \in Goroutines, At(g, "none")
  PROVE  call[g] = NoCall
BY CallShapes DEF IInv, TypeOK, At

LEMMA ScanKeeps ==
  ASSUME IInv, NEW g \in Goroutines, ScanStep(g)
  PROVE  IInv'
<1> USE DEF config, progress, http
<1>0. TypeOK /\ MainPlace /\ DiscoveryPlace /\ Within  BY DEF IInv
<1>1. CASE StaticEntry(g)
  <2>1. phase[g] = "scan" /\ call[g] = NoCall /\ More(g) /\ ~Here(g).template
    BY <1>1, NotCalling DEF StaticEntry, Ready
  <2>2. /\ Source(g) \in Configs /\ idx[g] \in DOMAIN Source(g) /\ idx[g] \in 1..bound[g]
        /\ Here(g).critical \in BOOLEAN /\ Here(g).names \subseteq Units
    BY <2>1, SourceKnown, Named DEF Here
  <2>3. /\ UNCHANGED <<config, tables, phase, bound, todo, flag, http>>
        /\ idx' = [idx EXCEPT ![g] = @ + 1]
    BY <1>1 DEF StaticEntry
  <2>4. \/ call' = call
        \/ g = "main" /\ ~booted /\ \E u \in Here(g).names : call' = [call EXCEPT ![g] = Registering(u, Here(g).critical)]
    BY <1>1 DEF StaticEntry
  <2>5. /\ OthersStay(g)
        /\ \/ call'[g] = NoCall
           \/ /\ g = "main" /\ ~booted
              /\ call'[g] \in Full /\ call'[g].live = FALSE /\ call'[g].step = "insert"
    <3>1. CASE call' = call  BY <1>0, <2>1, <3>1 DEF OthersStay, TypeOK
    <3>2. ASSUME NEW u \in Here(g).names, g = "main", ~booted,
                 call' = [call EXCEPT ![g] = Registering(u, Here(g).critical)]
          PROVE  /\ OthersStay(g) /\ call'[g] \in Full
                 /\ call'[g].live = FALSE /\ call'[g].step = "insert"
      <4> DEFINE d == Registering(u, Here(g).critical)
      <4>1. d \in Full /\ d.live = FALSE /\ d.step = "insert"  BY <2>2, Begun
      <4>2. call' = [call EXCEPT ![g] = d]  BY <3>2
      <4> HIDE DEF d
      <4>3. OthersStay(g) /\ call'[g] = d  BY <1>0, <4>1, <4>2, CallsAre, Assigned
      <4> QED  BY <4>1, <4>3
    <3> QED  BY <2>4, <3>1, <3>2
  <2>6. TypeOK'
    <3>1. idx' \in [Goroutines -> Nat] /\ \A h \in Goroutines : idx'[h] \in 1..(bound[h] + 1)
      BY <1>0, <2>2, <2>3 DEF TypeOK
    <3> QED  BY <1>0, <2>3, <2>5, <3>1 DEF TypeOK, OthersStay, tables
  <2>7. MainPlace'  BY <1>0, <2>1, <2>3, <2>5 DEF MainPlace, OthersStay, Goroutines, tables
  <2>8. DiscoveryPlace'
    BY <1>0, <2>1, <2>3, <2>5 DEF DiscoveryPlace, OthersStay, Goroutines, AllInstances, Instances, Names
  <2>9. Within'  BY <1>0, <2>1, <2>3 DEF Within, TypeOK
  <2> QED  BY <2>1, <2>3, <2>5, <2>6, <2>7, <2>8, <2>9, LoopFrame DEF OthersStay
<1>2. CASE List(g)
  <2>1. phase[g] = "scan" /\ call[g] = NoCall /\ More(g) /\ Here(g).template
    BY <1>2, NotCalling DEF List, Ready
  <2>2. /\ Source(g) \in Configs /\ idx[g] \in 1..bound[g] /\ Here(g).critical \in BOOLEAN
        /\ Here(g).names \subseteq Units /\ Here(g).names \subseteq Instances(Source(g))
        /\ Instances(Source(g)) \subseteq AllInstances
    BY <2>1, SourceKnown, Named DEF Here
  <2>3. /\ UNCHANGED <<config, tables, idx, bound, call, http>>
        /\ \A h \in Goroutines :
             /\ phase'[h] = IF h = g THEN "register" ELSE phase[h]
             /\ todo'[h] = IF h = g THEN Here(g).names \cap loaded ELSE todo[h]
    BY <1>0, <1>2 DEF List, TypeOK
  <2>4. TypeOK'
    <3>1. phase' \in [Goroutines -> {"idle", "scan", "register", "old", "new", "panic"}]
      BY <1>0, <1>2 DEF List, TypeOK
    <3>2. todo' \in [Goroutines -> SUBSET Units] /\ flag' \in [Goroutines -> BOOLEAN]
      BY <1>0, <1>2, <2>2 DEF List, TypeOK
    <3> QED  BY <1>0, <2>3, <3>1, <3>2 DEF TypeOK, tables
  <2>5. MainPlace'  BY <1>0, <2>1, <2>2, <2>3 DEF MainPlace, Goroutines, Source, tables
  <2>6. DiscoveryPlace'
    <3>1. AllInstances' = AllInstances  BY DEF AllInstances, Instances, Names
    <3> QED  BY <1>0, <2>1, <2>2, <2>3, <3>1 DEF DiscoveryPlace, Goroutines
  <2>7. Within'  BY <1>0, <2>2, <2>3 DEF Within
  <2> QED  BY <2>3, <2>4, <2>5, <2>6, <2>7, LoopFrame
<1>3. CASE ListFails(g)
  <2>1. phase[g] = "scan" /\ More(g)  BY <1>3 DEF ListFails, Ready
  <2>2. idx[g] \in 1..bound[g]  BY <2>1, SourceKnown
  <2>3. /\ UNCHANGED <<config, tables, phase, bound, todo, flag, call, http>>
        /\ idx' = [idx EXCEPT ![g] = @ + 1]
    BY <1>3 DEF ListFails
  <2>4. TypeOK'
    <3>1. idx' \in [Goroutines -> Nat] /\ \A h \in Goroutines : idx'[h] \in 1..(bound[h] + 1)
      BY <1>0, <2>2, <2>3 DEF TypeOK
    <3> QED  BY <1>0, <2>3, <3>1 DEF TypeOK, tables
  <2>5. MainPlace'  BY <1>0, <2>3 DEF MainPlace, tables
  <2>6. DiscoveryPlace'  BY <1>0, <2>3 DEF DiscoveryPlace, AllInstances, Instances, Names
  <2>7. Within'  BY <1>0, <2>1, <2>3 DEF Within, TypeOK
  <2> QED  BY <2>3, <2>4, <2>5, <2>6, <2>7, LoopFrame
<1>4. CASE EntryDone(g)
  <2>1. phase[g] = "register" /\ todo[g] = {} /\ idx[g] <= bound[g]
    BY <1>0, <1>4 DEF EntryDone, Ready, Within
  <2>2. UNCHANGED <<config, tables, bound, todo, call, http>>  BY <1>4 DEF EntryDone
  <2>3. \A h \in Goroutines : phase'[h] = IF h = g THEN "scan" ELSE phase[h]
    BY <1>0, <1>4 DEF EntryDone, TypeOK
  <2>4. TypeOK'
    <3>1. phase' \in [Goroutines -> {"idle", "scan", "register", "old", "new", "panic"}]
      BY <1>0, <1>4 DEF EntryDone, TypeOK
    <3>2. idx' \in [Goroutines -> Nat] /\ \A h \in Goroutines : idx'[h] \in 1..(bound[h] + 1)
      BY <1>0, <1>4, <2>1 DEF EntryDone, TypeOK
    <3>3. flag' \in [Goroutines -> BOOLEAN]  BY <1>0, <1>4 DEF EntryDone, TypeOK
    <3> QED  BY <1>0, <2>2, <3>1, <3>2, <3>3 DEF TypeOK, tables
  <2>5. MainPlace'  BY <1>0, <2>1, <2>2, <2>3 DEF MainPlace, Goroutines, tables
  <2>6. DiscoveryPlace'
    BY <1>0, <2>1, <2>2, <2>3 DEF DiscoveryPlace, Goroutines, AllInstances, Instances, Names
  <2>7. Within'
    <3>1. \A h \in Goroutines \ {g} : idx'[h] = idx[h]  BY <1>0, <1>4 DEF EntryDone, TypeOK
    <3> QED  BY <1>0, <2>2, <2>3, <3>1 DEF Within
  <2> QED  BY <2>2, <2>4, <2>5, <2>6, <2>7, LoopFrame
<1>5. ASSUME NEW u \in Units, RegisterInstance(g, u)
      PROVE  IInv'
  <2>1. phase[g] = "register" /\ call[g] = NoCall /\ u \in todo[g] /\ flag[g] \in BOOLEAN
    BY <1>0, <1>5, NotCalling DEF RegisterInstance, Ready, TypeOK
  <2>2. /\ UNCHANGED <<config, tables, phase, idx, bound, flag, http>>
        /\ todo' = [todo EXCEPT ![g] = @ \ {u}]
    BY <1>5 DEF RegisterInstance
  <2>3. /\ OthersStay(g) /\ call'[g] \in Full /\ call'[g].unit = u
        /\ call'[g].live = FALSE /\ call'[g].step = "insert"
    <3> DEFINE d == Registering(u, flag[g])
    <3>1. d \in Full /\ d.unit = u /\ d.live = FALSE /\ d.step = "insert"  BY <2>1, Begun
    <3>2. call' = [call EXCEPT ![g] = d]  BY <1>5 DEF RegisterInstance
    <3> HIDE DEF d
    <3>3. OthersStay(g) /\ call'[g] = d  BY <1>0, <3>1, <3>2, CallsAre, Assigned
    <3> QED  BY <3>1, <3>3
  <2>4. TypeOK'
    <3>1. todo' \in [Goroutines -> SUBSET Units]  BY <1>0, <2>2 DEF TypeOK
    <3> QED  BY <1>0, <2>2, <2>3, <3>1 DEF TypeOK, OthersStay, tables
  <2>5. \A h \in Goroutines : todo'[h] = IF h = g THEN todo[g] \ {u} ELSE todo[h]
    BY <1>0, <2>2 DEF TypeOK
  <2>6. MainPlace'  BY <1>0, <2>1, <2>2, <2>3, <2>5 DEF MainPlace, OthersStay, Goroutines, tables
  <2>7. DiscoveryPlace'
    BY <1>0, <2>1, <2>2, <2>3, <2>5 DEF DiscoveryPlace, OthersStay, Goroutines, AllInstances, Instances, Names
  <2>8. Within'  BY <1>0, <2>2 DEF Within
  <2> QED  BY <2>2, <2>3, <2>4, <2>6, <2>7, <2>8, LoopFrame DEF OthersStay
<1> QED  BY <1>1, <1>2, <1>3, <1>4, <1>5 DEF ScanStep

LEMMA ReloadKeeps ==
  ASSUME IInv, \/ MainDone \/ OldDone \/ NewDone \/ \E c \in Configs : Reload(c)
               \/ \E u \in Units : ReloadOld(u) \/ ReloadNew(u)
  PROVE  IInv'
<1> DEFINE Shifted ==
      /\ phase' \in [Goroutines -> {"idle", "scan", "register", "old", "new", "panic"}]
      /\ bound' \in [Goroutines -> Nat] /\ idx' \in [Goroutines -> Nat]
      /\ todo' \in [Goroutines -> SUBSET Units]
      /\ UNCHANGED <<phase["discovery"], bound["discovery"], idx["discovery"], todo["discovery"]>>
<1> HIDE DEF Shifted
<1> USE DEF config, progress, http
<1>0. TypeOK /\ MainPlace /\ DiscoveryPlace /\ Within /\ "main" \in Goroutines
  BY DEF IInv, Goroutines
<1>1. next \in Configs /\ Static(next) \subseteq Units /\ Len(next) \in Nat  BY <1>0, Named DEF TypeOK
<1>2. ASSUME At("main", "none"), UNCHANGED <<loaded, tables, flag, call, http>>,
             phase'["main"] \in {"idle", "scan", "old", "new"},
             Shifted,
             bound["main"] = 0 \/ phase'["main"] = "idle",
             phase'["main"] \in {"idle", "old", "new"} => bound'["main"] = 0,
             idx'["main"] = 1,
             next' \in Configs, booted', cfg' \in Configs, discovering' \in BOOLEAN,
             discovering => discovering',
             phase'["main"] \in {"idle", "scan"} => todo'["main"] = {},
             phase'["main"] = "scan" => bound'["main"] = Len(next'),
             phase'["main"] = "new" => todo'["main"] \subseteq Static(next'),
             phase'["main"] = "old" => todo'["main"] \subseteq registered,
             phase'["main"] = "idle" => next' = cfg'
      PROVE  IInv'
  <2>1. call["main"] = NoCall  BY <1>0, <1>2, NotCalling
  <2>4. TypeOK'
    <3>1. \A h \in Goroutines : idx'[h] \in 1..(bound'[h] + 1)
      BY <1>0, <1>2 DEF TypeOK, Goroutines, Shifted
    <3> QED  BY <1>0, <1>2, <3>1 DEF TypeOK, tables, Shifted
  <2>5. MainPlace'  BY <1>0, <1>2, <2>1 DEF MainPlace, tables, Shifted
  <2>6. DiscoveryPlace'
    <3>1. AllInstances' = AllInstances  BY DEF AllInstances, Instances, Names
    <3> QED  BY <1>0, <1>2, <3>1 DEF DiscoveryPlace, Goroutines, Shifted
  <2>7. Within'  BY <1>0, <1>2 DEF Within, Goroutines, Shifted
  <2> QED  BY <1>2, <2>4, <2>5, <2>6, <2>7, LoopFrame
<1>3. phase["main"] \in {"idle", "old", "new"} => bound["main"] = 0 /\ idx["main"] = 1
  BY <1>0 DEF TypeOK, Within
<1>4. CASE MainDone
  <2>1. phase["main"] = "scan" /\ todo["main"] = {}
    BY <1>0, <1>4 DEF MainDone, ScanEnds, Ready, MainPlace
  <2>2. /\ At("main", "none") /\ UNCHANGED <<loaded, tables, flag, call, http, todo>>
        /\ phase' = [phase EXCEPT !["main"] = "idle"] /\ idx' = [idx EXCEPT !["main"] = 1]
        /\ bound' = [bound EXCEPT !["main"] = 0]
        /\ booted' = TRUE /\ cfg' = next /\ next' = next
    BY <1>0, <1>4, <2>1 DEF MainDone, ScanEnds, Ready
  <2>3. discovering' \in BOOLEAN /\ (discovering => discovering')
    BY <1>0, <1>4 DEF MainDone, TypeOK
  <2>4. /\ phase'["main"] = "idle" /\ bound'["main"] = 0 /\ idx'["main"] = 1 /\ todo'["main"] = {}
        /\ Shifted
    BY <1>0, <2>1, <2>2 DEF TypeOK, Goroutines, Shifted
  <2> QED  BY <1>1, <1>2, <2>2, <2>3, <2>4
<1>5. CASE OldDone \/ NewDone \/ \E c \in Configs : Reload(c)
  <2>1. /\ At("main", "none") /\ phase["main"] \in {"idle", "old", "new"}
        /\ UNCHANGED <<cfg, booted, discovering, loaded, tables, flag, call, http>>
        /\ idx' = idx
    BY <1>5 DEF OldDone, NewDone, Reload, Ready
  <2>2. booted /\ bound["main"] = 0 /\ idx["main"] = 1 /\ discovering \in BOOLEAN /\ cfg \in Configs
    BY <1>0, <1>3, <2>1, <1>5 DEF MainPlace, TypeOK, OldDone, NewDone, Reload, Ready
  <2>3. CASE OldDone
    <3>1. /\ phase' = [phase EXCEPT !["main"] = "new"] /\ bound' = bound /\ next' = next
          /\ todo' = [todo EXCEPT !["main"] = Static(next)]
      BY <2>3 DEF OldDone
    <3>2. /\ phase'["main"] = "new" /\ bound'["main"] = 0 /\ idx'["main"] = 1
          /\ todo'["main"] \subseteq Static(next') /\ Shifted
      BY <1>0, <1>1, <2>1, <2>2, <3>1 DEF TypeOK, Goroutines, Shifted
    <3> QED  BY <1>1, <1>2, <2>1, <2>2, <3>1, <3>2
  <2>4. CASE NewDone
    <3>1. /\ phase' = [phase EXCEPT !["main"] = "scan"] /\ next' = next /\ todo' = todo
          /\ bound' = [bound EXCEPT !["main"] = Len(next)] /\ todo["main"] = {}
      BY <2>4 DEF NewDone
    <3>2. /\ phase'["main"] = "scan" /\ bound'["main"] = Len(next) /\ idx'["main"] = 1
          /\ todo'["main"] = {} /\ Shifted
      BY <1>0, <1>1, <2>1, <2>2, <3>1 DEF TypeOK, Goroutines, Shifted
    <3> QED  BY <1>1, <1>2, <2>1, <2>2, <3>1, <3>2
  <2>5. ASSUME NEW c \in Configs, Reload(c)
        PROVE  IInv'
    <3>1. /\ phase' = [phase EXCEPT !["main"] = "old"] /\ bound' = bound /\ next' = c
          /\ todo' = [todo EXCEPT !["main"] = registered]
      BY <2>5 DEF Reload
    <3>2. /\ phase'["main"] = "old" /\ bound'["main"] = 0 /\ idx'["main"] = 1
          /\ todo'["main"] \subseteq registered /\ Shifted
      BY <1>0, <1>1, <2>1, <2>2, <3>1 DEF TypeOK, Goroutines, Shifted
    <3> QED  BY <1>2, <2>1, <2>2, <3>1, <3>2
  <2> QED  BY <1>5, <2>3, <2>4, <2>5
<1>6. ASSUME NEW u \in Units, NEW d \in Calls, u \in todo["main"], At("main", "none"),
             phase["main"] \in {"old", "new"},
             todo' = [todo EXCEPT !["main"] = @ \ {u}], call' = [call EXCEPT !["main"] = d],
             UNCHANGED <<config, tables, phase, idx, bound, flag, http>>,
             d # NoCall => d.unit = u,
             \/ d = NoCall
             \/ d \in Bare /\ u \in registered
             \/ d \in Full /\ d.live = FALSE /\ (d.step = "remove" => u \in registered)
      PROVE  IInv'
  <2>1. OthersStay("main") /\ call'["main"] = d  BY <1>0, <1>6, Assigned
  <2>2. call["main"] = NoCall  BY <1>0, <1>6, NotCalling
  <2>3. TypeOK'
    <3>1. todo' \in [Goroutines -> SUBSET Units]  BY <1>0, <1>6 DEF TypeOK
    <3> QED  BY <1>0, <1>6, <2>1, <3>1 DEF TypeOK, OthersStay, tables
  <2>4. \A h \in Goroutines : todo'[h] = IF h = "main" THEN todo["main"] \ {u} ELSE todo[h]
    BY <1>0, <1>6 DEF TypeOK
  <2>5. MainPlace'  BY <1>0, <1>6, <2>1, <2>4 DEF MainPlace, tables
  <2>6. DiscoveryPlace'
    BY <1>0, <1>6, <2>1, <2>4 DEF DiscoveryPlace, OthersStay, Goroutines, AllInstances, Instances, Names
  <2>7. Within'  BY <1>0, <1>6 DEF Within
  <2>8. \A h \in Goroutines :
           \/ call'[h] = call[h]
           \/ /\ call'[h] \in Bare /\ call'[h].unit \in registered
           \/ /\ call'[h] \in Full /\ call'[h].live = FALSE
              /\ call'[h].step = "remove" => call'[h].unit \in registered
    BY <1>6, <2>1, <2>2, CallShapes DEF OthersStay
  <2> QED  BY <1>6, <2>3, <2>5, <2>6, <2>7, <2>8, LoopFrame
<1>7. ASSUME NEW u \in Units, ReloadOld(u)
       PROVE  IInv'
  <2> DEFINE d == IF u \in Static(next) THEN NoCall
                  ELSE IF u \in Instances(next) THEN Updating(u, FlagOf(next, u, TRUE))
                  ELSE Unregistering(u)
  <2>1. /\ phase["main"] = "old" /\ At("main", "none") /\ u \in todo["main"] /\ u \in registered
        /\ todo' = [todo EXCEPT !["main"] = @ \ {u}] /\ call' = [call EXCEPT !["main"] = d]
        /\ UNCHANGED <<config, tables, phase, idx, bound, flag, http>>
    BY <1>0, <1>7 DEF ReloadOld, Ready, MainPlace
  <2>2. CASE u \in Static(next)
    <3>1. d = NoCall /\ NoCall \in Calls  BY <2>2, CallsAre
    <3> HIDE DEF d
    <3> QED  BY <1>6, <2>1, <3>1
  <2>3. CASE u \notin Static(next) /\ u \in Instances(next)
    <3>1. FlagOf(next, u, TRUE) \in BOOLEAN  BY <1>1, <2>3, FlagOfNamed DEF Instances
    <3>2. d = Updating(u, FlagOf(next, u, TRUE))  BY <2>3
    <3>3. d \in Full /\ d.unit = u /\ d.live = FALSE /\ u \in registered
      <4> HIDE DEF d
      <4> QED  BY <2>1, <3>1, <3>2, Begun
    <3> HIDE DEF d
    <3> QED  BY <1>6, <2>1, <3>3, CallsAre
  <2>4. CASE u \notin Static(next) /\ u \notin Instances(next)
    <3>1. d \in Bare /\ d.unit = u  BY <2>4, Begun
    <3> HIDE DEF d
    <3> QED  BY <1>6, <2>1, <3>1, CallsAre
  <2> QED  BY <2>2, <2>3, <2>4
<1>8. ASSUME NEW u \in Units, ReloadNew(u)
       PROVE  IInv'
  <2> DEFINE d == IF u \in registered THEN Updating(u, FlagOf(next, u, FALSE))
                  ELSE Registering(u, FlagOf(next, u, FALSE))
  <2>1. /\ phase["main"] = "new" /\ At("main", "none") /\ u \in todo["main"] /\ u \in Static(next)
        /\ todo' = [todo EXCEPT !["main"] = @ \ {u}] /\ call' = [call EXCEPT !["main"] = d]
        /\ UNCHANGED <<config, tables, phase, idx, bound, flag, http>>
    BY <1>0, <1>8 DEF ReloadNew, Ready, MainPlace
  <2>2. PICK f \in BOOLEAN : f = FlagOf(next, u, FALSE)
    BY <1>1, <2>1, FlagOfNamed DEF Static
  <2>3. d = IF u \in registered THEN Updating(u, f) ELSE Registering(u, f)  BY <2>2
  <2> HIDE DEF d
  <2>4. d \in Full /\ d.unit = u /\ d.live = FALSE /\ (d.step = "remove" => u \in registered)
    <3>1. CASE u \in registered
      <4>1. d = Updating(u, f)  BY <2>3, <3>1
      <4> QED  BY <3>1, <4>1 DEF Updating, Registering, Full
    <3>2. CASE u \notin registered
      <4>1. d = Registering(u, f)  BY <2>3, <3>2
      <4>2. d \in Full /\ d.unit = u /\ d.live = FALSE /\ d.step = "insert"  
        BY <4>1 DEF Registering, Full
      <4> QED  BY <4>2
    <3> QED  BY <3>1, <3>2
  <2> QED  BY <1>6, <2>1, <2>4, CallsAre
<1> QED  BY <1>4, <1>5, <1>7, <1>8

LEMMA RestKeeps ==
  ASSUME IInv, \/ DiscoveryDone \/ DiscoveryTick \/ Panic \/ HealthStep
               \/ \E u \in Units : InstanceAppears(u) \/ StateSeen(u)
  PROVE  IInv'
<1> USE DEF config, progress, http
<1>0. TypeOK /\ MainPlace /\ DiscoveryPlace /\ Within /\ "discovery" \in Goroutines
  BY DEF IInv, Goroutines
<1>1. cfg \in Configs /\ Len(cfg) \in Nat  BY <1>0, Named DEF TypeOK
<1>2. ASSUME NEW to \in {"idle", "scan", "panic"}, NEW end \in Nat,
             At("discovery", "none"), discovering \/ to = "idle", to = "idle" => end = 0,
             phase' = [phase EXCEPT !["discovery"] = to],
             bound' = [bound EXCEPT !["discovery"] = end],
             idx' \in [Goroutines -> Nat], idx'["main"] = idx["main"], idx'["discovery"] \in 1..(end + 1),
             UNCHANGED <<config, tables, todo, flag, call, http>>
      PROVE  IInv'
  <2>1. call["discovery"] = NoCall  BY <1>0, <1>2, NotCalling
  <2>2. /\ phase' \in [Goroutines -> {"idle", "scan", "register", "old", "new", "panic"}]
        /\ bound' \in [Goroutines -> Nat]
    BY <1>0, <1>2 DEF TypeOK
  <2>3. /\ phase'["main"] = phase["main"] /\ phase'["discovery"] = to
        /\ bound'["main"] = bound["main"] /\ bound'["discovery"] = end
    BY <1>0, <1>2 DEF TypeOK, Goroutines
  <2>4. TypeOK'
    <3>1. \A h \in Goroutines : idx'[h] \in 1..(bound'[h] + 1)
      BY <1>0, <1>2, <2>3 DEF TypeOK, Goroutines
    <3> QED  BY <1>0, <1>2, <2>2, <3>1 DEF TypeOK, tables
  <2>5. MainPlace'  BY <1>0, <1>2, <2>3 DEF MainPlace, tables
  <2>6. DiscoveryPlace'
    <3>1. AllInstances' = AllInstances  BY DEF AllInstances, Instances, Names
    <3> QED  BY <1>0, <1>2, <2>1, <2>3, <3>1 DEF DiscoveryPlace
  <2>7. Within'  BY <1>0, <1>2, <2>3 DEF Within, Goroutines
  <2> QED  BY <1>2, <2>4, <2>5, <2>6, <2>7, LoopFrame
<1>3. /\ bound["discovery"] \in Nat /\ idx["discovery"] \in 1..(bound["discovery"] + 1)
      /\ phase["discovery"] = "idle" => idx["discovery"] = 1
      /\ phase["discovery"] # "idle" => discovering
      /\ idx \in [Goroutines -> Nat]
  BY <1>0 DEF TypeOK, Within, DiscoveryPlace
<1>4. bound = [bound EXCEPT !["discovery"] = bound["discovery"]]  BY <1>0 DEF TypeOK
<1>5. CASE DiscoveryDone
  <2>1. idx'["main"] = idx["main"] /\ idx'["discovery"] = 1 /\ idx' \in [Goroutines -> Nat]
    BY <1>3, <1>5 DEF DiscoveryDone, ScanEnds, Goroutines
  <2>2. /\ At("discovery", "none") /\ UNCHANGED <<config, tables, todo, flag, call, http>>
        /\ phase' = [phase EXCEPT !["discovery"] = "idle"]
        /\ bound' = [bound EXCEPT !["discovery"] = 0]
    BY <1>5 DEF DiscoveryDone, ScanEnds, Ready
  <2>3. 1 \in 1..(0 + 1)  OBVIOUS
  <2> QED  BY <1>2, <2>1, <2>2, <2>3
<1>6. CASE DiscoveryTick
  <2>1. 1 \in 1..(Len(cfg) + 1)  BY <1>1
  <2> QED  BY <1>1, <1>2, <1>3, <1>6, <2>1 DEF DiscoveryTick, Ready
<1>7. CASE Panic
  <2>1. phase["discovery"] = "scan" /\ At("discovery", "none")  BY <1>7 DEF Panic, Ready
  <2> QED  BY <1>2, <1>3, <1>4, <1>7, <2>1 DEF Panic
<1>8. CASE HealthStep \/ \E u \in Units : InstanceAppears(u) \/ StateSeen(u)
  <2>1. /\ UNCHANGED <<cfg, next, booted, discovering, registered, critical, watched, trackers, progress, call>>
    BY <1>8 DEF HealthStep, HealthBegins, HealthReads, HealthEnds, InstanceAppears, StateSeen, tables
  <2>2. status' \in [Units -> {None, "unknown", "active", "failed"}]
    BY <1>0, <1>8 DEF HealthStep, HealthBegins, HealthReads, HealthEnds, InstanceAppears, StateSeen, tables, StateOf, TypeOK
  <2>3. loaded' \subseteq Units
    BY <1>0, <1>8 DEF HealthStep, HealthBegins, HealthReads, HealthEnds, InstanceAppears, StateSeen, tables, TypeOK
  <2>4. request' \in (SUBSET Units) \cup {None} /\ answer' \in {None, 200, 503}
    <3>1. CASE HealthBegins  BY <1>0, <3>1 DEF HealthBegins, TypeOK
    <3>2. CASE HealthEnds
      <4>1. request' = None /\ answer' = None  BY <3>2 DEF HealthEnds
      <4> QED  BY <4>1
    <3>3. ASSUME NEW u \in Units, HealthReads(u)
          PROVE  request' \in (SUBSET Units) \cup {None} /\ answer' \in {None, 200, 503}
      <4>1. request \in SUBSET Units  BY <1>0, <3>3 DEF HealthReads, TypeOK
      <4> QED  BY <1>0, <3>3, <4>1 DEF HealthReads, TypeOK
    <3>4. CASE \E u \in Units : InstanceAppears(u) \/ StateSeen(u)
      BY <1>0, <3>4 DEF InstanceAppears, StateSeen, TypeOK
    <3> QED  BY <1>8, <3>1, <3>2, <3>3, <3>4 DEF HealthStep
  <2>5. TypeOK'  BY <1>0, <2>1, <2>2, <2>3, <2>4 DEF TypeOK
  <2>6. AllInstances' = AllInstances  BY DEF AllInstances, Instances, Names
  <2>7. MainPlace' /\ Within'  BY <1>0, <2>1 DEF MainPlace, Within
  <2>8. DiscoveryPlace'  BY <1>0, <2>1, <2>6 DEF DiscoveryPlace
  <2>9. LiveRegistered' /\ Removing' /\ Observed'
    BY <2>1 DEF IInv, LiveRegistered, Removing, Observed
  <2> QED  BY <2>5, <2>7, <2>8, <2>9 DEF IInv
<1> QED  BY <1>5, <1>6, <1>7, <1>8

LEMMA InitIInv ==
  ASSUME Init
  PROVE  IInv
<1>1. cfg \in Configs /\ Len(cfg) \in Nat  BY Named DEF Init
<1>2. \A c \in Configs : Instances(c) \subseteq Units  BY Named
<1>3. NoCall \in Calls /\ NoCall \notin Full /\ NoCall.step = "none"
  BY CallsAre, CallShapes DEF NoCall
<1>4. TypeOK
  <2>1. loaded \subseteq Units  BY <1>2 DEF Init
  <2>2. /\ bound \in [Goroutines -> Nat] /\ idx \in [Goroutines -> Nat]
        /\ \A g \in Goroutines : idx[g] \in 1..(bound[g] + 1)
    BY <1>1 DEF Init
  <2>3. phase \in [Goroutines -> {"idle", "scan", "register", "old", "new", "panic"}]  BY DEF Init
  <2>4. /\ todo \in [Goroutines -> SUBSET Units] /\ flag \in [Goroutines -> BOOLEAN]
        /\ call \in [Goroutines -> Calls]
    BY <1>3 DEF Init
  <2>5. request \in (SUBSET Units) \cup {None} /\ answer \in {None, 200, 503}  BY DEF Init
  <2>6. /\ status \in [Units -> {None, "unknown", "active", "failed"}]
        /\ cfg \in Configs /\ next \in Configs /\ booted \in BOOLEAN /\ discovering \in BOOLEAN
        /\ registered = {} /\ critical = {} /\ watched = {} /\ trackers = {}
    BY DEF Init
  <2> QED  BY <2>1, <2>2, <2>3, <2>4, <2>5, <2>6 DEF TypeOK
<1>5. MainPlace /\ DiscoveryPlace /\ Within
  BY <1>1 DEF Init, MainPlace, DiscoveryPlace, Within, Goroutines
<1>6. LiveRegistered /\ Removing /\ Observed
  BY <1>3 DEF Init, LiveRegistered, Removing, Observed
<1> QED  BY <1>4, <1>5, <1>6 DEF IInv

LEMMA NextIInv ==
  ASSUME IInv, [Next]_vars
  PROVE  IInv'
<1>1. CASE MainStep
  BY <1>1, CallKeeps, ScanKeeps, ReloadKeeps DEF MainStep, Goroutines
<1>2. CASE DiscoveryStep
  BY <1>2, CallKeeps, ScanKeeps, RestKeeps DEF DiscoveryStep, Goroutines
<1>3. CASE HealthStep \/ \E u \in Units : InstanceAppears(u) \/ StateSeen(u)
  BY <1>3, RestKeeps
<1>4. CASE \E c \in Configs : Reload(c)  BY <1>4, ReloadKeeps
<1>5. CASE UNCHANGED vars
  <2>1. TypeOK'  BY <1>5 DEF IInv, TypeOK, vars, config, tables, progress, http
  <2>2. AllInstances' = AllInstances  BY DEF AllInstances, Instances, Names
  <2> QED
    BY <1>5, <2>1, <2>2 DEF IInv, vars, config, tables, progress, http, MainPlace, DiscoveryPlace,
      Within, LiveRegistered, Removing, Observed
<1> QED  BY <1>1, <1>2, <1>3, <1>4, <1>5 DEF Next

\* Every reachable state satisfies the invariant.
THEOREM Inductive == Spec => []IInv
<1>1. Init => IInv  BY InitIInv
<1>2. IInv /\ [Next]_vars => IInv'  BY NextIInv
<1> QED  BY <1>1, <1>2, PTL DEF Spec

\* The variables have their types, and no loop is more than one entry past the
\* end it goes to, however long the configurations are.
THEOREM TypeCorrect == Spec => []TypeOK
<1>1. IInv => TypeOK  BY DEF IInv
<1> QED  BY <1>1, Inductive, PTL

\* registerUnit, unregisterUnit: only registered units count for /health and have
\* a watcher and a checker, and only they are unregistered, whatever reload and
\* discovery do to each other's units.
THEOREM ObservedAreRegistered == Spec => []OnlyRegisteredObserved
<1>1. IInv => OnlyRegisteredObserved  BY DEF IInv, OnlyRegisteredObserved, Observed, Removing, At
<1> QED  BY <1>1, Inductive, PTL

----------------------------------------------------------------------------
(* What the event loop does for a unit that no one else registers. *)

\* Only the event loop registers u.
Own(u) == ~discovering \/ u \notin AllInstances

Busy(u) == call["main"] # NoCall /\ call["main"].unit = u

\* The call that will insert u.
Inserting(u) == /\ Busy(u) /\ call["main"] \in Full
                /\ call["main"].step \in {"remove", "untrack", "drop", "insert"}

Clean(u) == u \notin registered /\ status[u] = None /\ u \notin trackers

\* Between two calls u is supervised in full or there is no trace of it; what a
\* call has done so far.
Progress(u) ==
  /\ ~Busy(u) => Supervised(u) \/ Clean(u)
  /\ Busy(u) =>
       LET step == call["main"].step
       IN /\ step = "insert" => Supervised(u) \/ Clean(u)
          /\ step \in {"status", "track", "observe"} => call["main"].live /\ u \in registered
          /\ step \in {"track", "observe"} => status[u] # None
          /\ step = "observe" => u \in trackers
          /\ step \in {"untrack", "drop"} => u \notin registered
          /\ step = "drop" => u \notin trackers

\* u is registered only if the configuration names it, or is about to go.
Extra(u) ==
  u \in registered => \/ u \in Static(next) \cup Instances(next)
                      \/ phase["main"] = "old" /\ (u \in todo["main"] \/ Busy(u))

\* A static entry that Run has gone past is registered.
MissingBoot(u) ==
  ~booted => \A n \in DOMAIN next :
    ~next[n].template /\ n < idx["main"] /\ u \in next[n].names => u \in registered \/ Inserting(u)

\* reload has yet to deal with u.
Due(u) == phase["main"] = "old" \/ (phase["main"] = "new" /\ u \in todo["main"])

Missing(u) == booted /\ u \in Static(next) => Due(u) \/ u \in registered \/ Inserting(u)

\* A unit of the configuration is registered or updated, any other unregistered.
Called(u) == Busy(u) => (call["main"] \in Full <=> u \in Static(next) \cup Instances(next))

\* The critical flag of a static unit is the one its first entry gives it.
Flagged(u) ==
  u \in Static(next) \ AllInstances =>
    /\ u \in registered /\ ~Due(u) /\ ~Inserting(u) => (u \in critical <=> FlagOf(next, u, FALSE))
    /\ Inserting(u) =>
         /\ u \notin registered \/ call["main"].step = "remove" =>
              call["main"].critical = FlagOf(next, u, FALSE)
         /\ u \in registered /\ call["main"].step = "insert" =>
              (u \in critical <=> FlagOf(next, u, FALSE))

Supervision(u) == /\ Progress(u) /\ Extra(u) /\ MissingBoot(u)
                  /\ Missing(u) /\ Called(u) /\ Flagged(u)

\* Instances are registered one entry at a time.
AtTemplate ==
  phase["main"] = "register" => idx["main"] \in DOMAIN next /\ next[idx["main"]].template

\* As long as discovery does not run there are no templates.
NoTemplates == booted /\ phase["main"] = "idle" /\ ~discovering => Instances(cfg) = {}

OwnInv == IInv /\ AtTemplate /\ NoTemplates /\ \A u \in Units : Own(u) => Supervision(u)

\* A step that is not about u.
Aside(u) ==
  /\ UNCHANGED <<next, booted, phase["main"], idx["main"]>>
  /\ u \in registered' <=> u \in registered
  /\ u \in critical' <=> u \in critical
  /\ u \in watched' <=> u \in watched
  /\ u \in trackers' <=> u \in trackers
  /\ status'[u] = None <=> status[u] = None
  /\ u \in todo'["main"] <=> u \in todo["main"]
  /\ call'["main"] = call["main"] \/ (~Busy(u) /\ ~Busy(u)')

LEMMA AsideKeeps ==
  ASSUME NEW u, Supervision(u), Aside(u)
  PROVE  Supervision(u)'
<1>1. (Busy(u)' <=> Busy(u)) /\ (Busy(u) => call'["main"] = call["main"])  BY DEF Aside, Busy
<1>2. Inserting(u)' <=> Inserting(u)  BY <1>1 DEF Inserting
<1>3. (Due(u)' <=> Due(u)) /\ (Supervised(u)' <=> Supervised(u)) /\ (Clean(u)' <=> Clean(u))
  BY DEF Aside, Due, Supervised, Clean
<1>4. Progress(u)'
  <2>1. CASE ~Busy(u)  BY <1>1, <1>3, <2>1 DEF Supervision, Progress
  <2>2. CASE Busy(u)  BY <1>1, <1>3, <2>2 DEF Supervision, Progress, Aside
  <2> QED  BY <2>1, <2>2
<1>5. Extra(u)'  BY <1>1 DEF Supervision, Extra, Aside
<1>6. MissingBoot(u)'  BY <1>2 DEF Supervision, MissingBoot, Aside
<1>7. Missing(u)'  BY <1>2, <1>3 DEF Supervision, Missing, Aside
<1>8. Called(u)'  BY <1>1 DEF Supervision, Called, Aside
<1>9. AllInstances' = AllInstances  BY DEF AllInstances, Instances, Names
<1>10. Flagged(u)'
  <2>1. Inserting(u) => call'["main"] = call["main"]  BY <1>1 DEF Inserting
  <2> QED  BY <1>2, <1>3, <1>9, <2>1 DEF Supervision, Flagged, Aside
<1> QED  BY <1>4, <1>5, <1>6, <1>7, <1>8, <1>10 DEF Supervision

\* A step of the call that the event loop makes for u.
LEMMA OwnCall ==
  ASSUME OwnInv, NEW u \in Units, Supervision(u), CallStep("main"), Busy(u)
  PROVE  Supervision(u)'
<1> USE DEF config, tables, progress, http
<1> DEFINE c == call["main"]
           Frame == UNCHANGED <<next, booted, phase, idx, todo>>
<1>0. /\ TypeOK /\ Observed /\ "main" \in Goroutines /\ c \in Calls /\ c # NoCall /\ c.unit = u
      /\ Progress(u) /\ Extra(u) /\ MissingBoot(u) /\ Missing(u) /\ Called(u) /\ Flagged(u)
  BY DEF OwnInv, IInv, Goroutines, Busy, Supervision, TypeOK
<1>1. /\ None \notin {"unknown", "active", "failed"} /\ AllInstances' = AllInstances
      /\ status \in [Units -> {None, "unknown", "active", "failed"}]
  BY <1>0, NoneAssumption DEF AllInstances, Instances, Names, TypeOK
<1>2. CASE AlreadyRegistered("main")
  <2>1. /\ c.step = "insert" /\ u \in registered /\ call'["main"] = NoCall /\ Frame
        /\ UNCHANGED <<registered, critical, watched, status, trackers>>
    BY <1>0, <1>2, Returns DEF AlreadyRegistered, At
  <2>2. Inserting(u) /\ ~Busy(u)' /\ ~Inserting(u)' /\ c \in Full
    BY <1>0, <2>1, InRegistration DEF Inserting, Busy
  <2>3. Progress(u)'  BY <1>0, <2>1, <2>2 DEF Progress, Supervised, Clean, Busy
  <2>4. Extra(u)' /\ Called(u)'  BY <1>0, <2>1, <2>2 DEF Extra, Called, Busy
  <2>5. MissingBoot(u)' /\ Missing(u)'  BY <2>1 DEF MissingBoot, Missing
  <2>6. Flagged(u)'  BY <1>0, <1>1, <2>1, <2>2 DEF Flagged
  <2> QED  BY <2>3, <2>4, <2>5, <2>6 DEF Supervision
<1>3. ASSUME c \in Full, c.step \in {"status", "track", "observe"}, Frame,
             UNCHANGED <<registered, critical>>, u \in registered, Progress(u)',
             \/ call'["main"] = NoCall
             \/ call'["main"].step \in {"track", "observe"} /\ call'["main"] \in Full
      PROVE  Supervision(u)'
  <2>1. ~Inserting(u) /\ ~Inserting(u)'  BY <1>3 DEF Inserting, Busy
  <2>2. u \in Static(next) \cup Instances(next)  BY <1>0, <1>3 DEF Called, Busy
  <2>3. Extra(u)' /\ Called(u)'  BY <1>3, <2>2 DEF Extra, Called, Busy
  <2>4. MissingBoot(u)' /\ Missing(u)'  BY <1>3 DEF MissingBoot, Missing
  <2>5. Flagged(u)'  BY <1>0, <1>1, <1>3, <2>1 DEF Flagged, Due
  <2> QED  BY <1>3, <2>3, <2>4, <2>5 DEF Supervision
<1>4. CASE Insert("main")
  <2>1. /\ c.step = "insert" /\ u \notin registered /\ registered' = registered \cup {u} /\ Frame
        /\ critical' = (IF c.critical THEN critical \cup {u} ELSE critical)
        /\ UNCHANGED <<watched, status, trackers>>
    BY <1>0, <1>4 DEF Insert, At
  <2>2. c \in Full /\ c.critical \in BOOLEAN /\ Inserting(u) /\ ~Inserting(u)' /\ u \notin critical
    <3>1. c \in Full  BY <1>0, <2>1, InRegistration
    <3>2. call'["main"].step = "status"  BY <1>0, <1>4, Inserted DEF Moved
    <3> QED  BY <1>0, <2>1, <3>1, <3>2, CallShapes DEF Inserting, Busy, Observed
  <2>3. /\ call'["main"].step = "status" /\ call'["main"] \in Full
        /\ call'["main"].live = TRUE /\ call'["main"].unit = u
    BY <1>0, <1>4, Inserted DEF Moved
  <2>4. call'["main"] # NoCall  BY <2>3 DEF NoCall
  <2>5. Progress(u)'  BY <2>1, <2>3, <2>4 DEF Progress, Busy
  <2>6. Extra(u)' /\ Called(u)'  BY <1>0, <2>1, <2>2, <2>3 DEF Extra, Called, Busy
  <2>7. MissingBoot(u)' /\ Missing(u)'  BY <2>1 DEF MissingBoot, Missing
  <2>8. Flagged(u)'
    <3>1. u \in critical' <=> c.critical  BY <2>1, <2>2
    <3> QED  BY <1>0, <1>1, <2>1, <2>2, <3>1 DEF Flagged
  <2> QED  BY <2>5, <2>6, <2>7, <2>8 DEF Supervision
<1>5. CASE RegisterStatus("main")
  <2>1. c.step = "status" /\ c \in Full  BY <1>0, <1>5, InRegistration DEF RegisterStatus, At
  <2>2. /\ call'["main"].step = "track" /\ call'["main"] \in Full /\ call'["main"].unit = u
        /\ call'["main"].live = c.live /\ call'["main"] # NoCall
    BY <1>0, <1>5, <2>1, FullMoves, CallsAre, CallShapes DEF RegisterStatus, Moved
  <2>3. /\ Frame /\ UNCHANGED <<registered, critical>> /\ status'[u] = "unknown"
        /\ u \in registered /\ c.live
    BY <1>0, <1>1, <1>5, <2>1 DEF RegisterStatus, Progress, Busy
  <2>4. Progress(u)'  BY <1>1, <2>2, <2>3 DEF Progress, Busy
  <2> QED  BY <1>3, <2>1, <2>2, <2>3, <2>4
<1>6. CASE RegisterTracker("main")
  <2>1. c.step = "track" /\ c \in Full  BY <1>0, <1>6, InRegistration DEF RegisterTracker, At
  <2>2. /\ call'["main"].step = "observe" /\ call'["main"] \in Full /\ call'["main"].unit = u
        /\ call'["main"].live = c.live /\ call'["main"] # NoCall
    BY <1>0, <1>6, <2>1, FullMoves, CallsAre, CallShapes DEF RegisterTracker, Moved
  <2>3. /\ Frame /\ UNCHANGED <<registered, critical, status>> /\ trackers' = trackers \cup {u}
        /\ u \in registered /\ c.live /\ status[u] # None
    BY <1>0, <1>6, <2>1 DEF RegisterTracker, Progress, Busy
  <2>4. Progress(u)'  BY <2>2, <2>3 DEF Progress, Busy
  <2> QED  BY <1>3, <2>1, <2>2, <2>3, <2>4
<1>7. CASE Observe("main")
  <2>1. c.step = "observe" /\ c \in Full  BY <1>0, <1>7, InRegistration DEF Observe, At
  <2>2. u \in registered /\ c.live /\ status[u] # None /\ u \in trackers
    BY <1>0, <2>1 DEF Progress, Busy
  <2>3. /\ Frame /\ UNCHANGED <<registered, critical, trackers>> /\ watched' = watched \cup {u}
        /\ call'["main"] = NoCall /\ ~Busy(u)'
    BY <1>0, <1>7, <2>2, Returns DEF Observe, Busy
  <2>4. status'[u] # None
    <3>1. status' = status \/ status' = [status EXCEPT ![u] = StateOf(u)]  BY <1>0, <1>7 DEF Observe
    <3> QED  BY <1>1, <2>2, <3>1 DEF StateOf
  <2>5. Progress(u)'  BY <2>2, <2>3, <2>4 DEF Progress, Supervised
  <2> QED  BY <1>3, <2>1, <2>2, <2>3, <2>5
<1>8. ASSUME c.step \in {"remove", "untrack", "drop"}, Frame, u \notin registered', Progress(u)',
             \/ /\ call'["main"].step \in {"untrack", "drop", "insert"} /\ call'["main"].unit = u
                /\ call'["main"] # NoCall /\ (c \in Full <=> call'["main"] \in Full)
                /\ c \in Full => call'["main"].critical = c.critical
             \/ call'["main"] = NoCall /\ c \notin Full,
             c.step = "remove" \/ u \notin registered
      PROVE  Supervision(u)'
  <2>1. c \in Full <=> u \in Static(next) \cup Instances(next)  BY <1>0 DEF Called, Busy
  <2>2. /\ c \in Full => Inserting(u) /\ Inserting(u)'
        /\ c \notin Full => ~Inserting(u) /\ ~Inserting(u)'
    BY <1>0, <1>8, CallsAre, CallShapes DEF Inserting, Busy
  <2>3. Extra(u)' /\ Called(u)'  BY <1>8, <2>1 DEF Extra, Called, Busy
  <2>4. Missing(u)'  BY <1>8, <2>1, <2>2 DEF Missing
  <2>5. MissingBoot(u)'
    <3>1. \A n \in DOMAIN next : ~next[n].template /\ u \in next[n].names => u \in Static(next)
      BY <1>0, Named DEF TypeOK
    <3> QED  BY <1>8, <2>1, <2>2, <3>1 DEF MissingBoot
  <2>6. Flagged(u)'
    <3>1. CASE c \in Full  BY <1>0, <1>1, <1>8, <2>2, <3>1 DEF Flagged
    <3>2. CASE c \notin Full  BY <1>8, <2>1, <3>2 DEF Flagged
    <3> QED  BY <3>1, <3>2
  <2> QED  BY <1>8, <2>3, <2>4, <2>5, <2>6 DEF Supervision
<1>9. CASE Remove("main")
  <2>1. /\ c.step = "remove" /\ registered' = registered \ {u} /\ Frame
        /\ UNCHANGED <<status, trackers>>
    BY <1>0, <1>9 DEF Remove, At
  <2>2. /\ call'["main"].step = "untrack" /\ call'["main"].unit = u
        /\ c \in Full <=> call'["main"] \in Full
        /\ c \in Full => call'["main"].critical = c.critical
    BY <1>0, <1>9, Removes DEF Moved
  <2>3. call'["main"] # NoCall  BY <2>2 DEF NoCall
  <2>4. Progress(u)'  BY <2>1, <2>2, <2>3 DEF Progress, Busy
  <2> QED  BY <1>8, <2>1, <2>2, <2>3, <2>4
<1>10. CASE UnregisterTracker("main")
  <2>1. /\ c.step = "untrack" /\ trackers' = trackers \ {u} /\ Frame
        /\ UNCHANGED <<status, registered>>
    BY <1>0, <1>10 DEF UnregisterTracker, At
  <2>2. /\ call'["main"].step = "drop" /\ call'["main"].unit = u
        /\ c \in Full <=> call'["main"] \in Full
        /\ c \in Full => call'["main"].critical = c.critical
    BY <1>0, <1>10, Untracks DEF Moved
  <2>3. call'["main"] # NoCall  BY <2>2 DEF NoCall
  <2>4. u \notin registered  BY <1>0, <2>1 DEF Progress, Busy
  <2>5. Progress(u)'  BY <2>1, <2>2, <2>3, <2>4 DEF Progress, Busy
  <2> QED  BY <1>8, <2>1, <2>2, <2>3, <2>4, <2>5
<1>11. CASE UnregisterStatus("main")
  <2>1. c.step = "drop" /\ Frame /\ UNCHANGED <<trackers, registered>> /\ status'[u] = None
    BY <1>0, <1>1, <1>11 DEF UnregisterStatus, At
  <2>2. u \notin registered /\ u \notin trackers  BY <1>0, <2>1 DEF Progress, Busy
  <2>3. CASE c \in Full /\ Moved("main", "insert") /\ call'["main"] \in Full
    <3>1. /\ call'["main"].step = "insert" /\ call'["main"].unit = u
          /\ call'["main"].critical = c.critical
      BY <1>0, <2>3 DEF Moved
    <3>2. call'["main"] # NoCall  BY <3>1 DEF NoCall
    <3>3. Progress(u)'  BY <2>1, <2>2, <3>1, <3>2 DEF Progress, Busy, Clean
    <3> QED  BY <1>8, <2>1, <2>2, <2>3, <3>1, <3>2, <3>3
  <2>4. CASE c \in Bare /\ call'["main"] = NoCall
    <3>1. c \notin Full  BY <1>0, <2>4, CallShapes
    <3>2. Progress(u)'  BY <2>1, <2>2, <2>4 DEF Progress, Busy, Clean
    <3> QED  BY <1>8, <2>1, <2>2, <2>4, <3>1, <3>2
  <2> QED  BY <1>0, <1>11, <2>3, <2>4, Drops
<1> QED  BY <1>2, <1>4, <1>5, <1>6, <1>7, <1>9, <1>10, <1>11 DEF CallStep

\* A step of a call for another unit.
LEMMA CallAside ==
  ASSUME IInv, NEW u \in Units, NEW g \in Goroutines, CallStep(g), call[g].unit # u
  PROVE  Aside(u)
<1> USE DEF config, tables, progress, http
<1>0. TypeOK  BY DEF IInv
<1>1. status \in [Units -> {None, "unknown", "active", "failed"}]  BY <1>0 DEF TypeOK
<1>2. call[g].step # "none" /\ call[g].unit \in Units
  <2>1. call[g].step # "none"
    BY DEF CallStep, AlreadyRegistered, Insert, RegisterStatus, RegisterTracker, Observe, Remove,
      UnregisterTracker, UnregisterStatus, At
  <2> QED  BY <1>0, <2>1, InCall
<1>3. UNCHANGED <<next, booted, phase["main"], idx["main"], todo["main"]>>
  BY DEF CallStep, AlreadyRegistered, Insert, RegisterStatus, RegisterTracker, Observe, Remove,
    UnregisterTracker, UnregisterStatus
<1>4. /\ u \in registered' <=> u \in registered
      /\ u \in critical' <=> u \in critical
  BY DEF CallStep, AlreadyRegistered, Insert, RegisterStatus, RegisterTracker, Observe, Remove,
    UnregisterTracker, UnregisterStatus
<1>5. /\ u \in watched' <=> u \in watched
      /\ u \in trackers' <=> u \in trackers
  BY DEF CallStep, AlreadyRegistered, Insert, RegisterStatus, RegisterTracker, Observe, Remove,
    UnregisterTracker, UnregisterStatus
<1>6. status'[u] = status[u]
  BY <1>1, <1>2 DEF CallStep, AlreadyRegistered, Insert, RegisterStatus, RegisterTracker, Observe,
    Remove, UnregisterTracker, UnregisterStatus
<1>7. \/ OthersStay(g) /\ (call'[g] = NoCall \/ call'[g].unit = call[g].unit)
      \/ g = "main" /\ call'["main"].unit = call["main"].unit
  <2>1. CASE AlreadyRegistered(g) \/ Observe(g)
    BY <1>0, <2>1, Returns DEF AlreadyRegistered, Observe
  <2>2. CASE Insert(g)  BY <1>0, <2>2, Inserted DEF Moved
  <2>3. CASE RegisterStatus(g)
    <3>1. call[g] \in Full  BY <1>0, <2>3, InRegistration DEF RegisterStatus, At
    <3> QED  BY <1>0, <2>3, <3>1, FullMoves DEF RegisterStatus, Moved
  <2>4. CASE RegisterTracker(g)
    <3>1. call[g] \in Full  BY <1>0, <2>4, InRegistration DEF RegisterTracker, At
    <3> QED  BY <1>0, <2>4, <3>1, FullMoves DEF RegisterTracker, Moved
  <2>5. CASE Remove(g)
    <3>1. g = "main"  BY <2>5, OnlyMainRemoves DEF Remove, At
    <3> QED  BY <1>0, <2>5, <3>1, Removes DEF Moved
  <2>6. CASE UnregisterTracker(g)  BY <1>0, <2>6, Untracks DEF Moved
  <2>7. CASE UnregisterStatus(g)  BY <1>0, <2>7, Drops DEF Moved
  <2> QED  BY <2>1, <2>2, <2>3, <2>4, <2>5, <2>6, <2>7 DEF CallStep
<1>8. call'["main"] = call["main"] \/ (~Busy(u) /\ ~Busy(u)')
  BY <1>7 DEF OthersStay, Busy, Goroutines
<1> QED  BY <1>3, <1>4, <1>5, <1>6, <1>8 DEF Aside

\* A step outside of calls that is not one of the event loop.
LEMMA OthersAside ==
  ASSUME IInv, NEW u \in Units,
         \/ ScanStep("discovery") \/ DiscoveryDone \/ DiscoveryTick \/ Panic \/ HealthStep
         \/ \E v \in Units : InstanceAppears(v) \/ StateSeen(v)
  PROVE  Aside(u)
<1> USE DEF config, tables, progress, http
<1>0. TypeOK /\ "main" \in Goroutines  BY DEF IInv, Goroutines
<1>1. /\ status \in [Units -> {None, "unknown", "active", "failed"}]
      /\ phase \in [Goroutines -> {"idle", "scan", "register", "old", "new", "panic"}]
      /\ idx \in [Goroutines -> Nat] /\ todo \in [Goroutines -> SUBSET Units]
      /\ call \in [Goroutines -> Calls] /\ StateOf(u) # None
  BY <1>0, NoneAssumption DEF TypeOK, StateOf
<1>2. CASE ScanStep("discovery")
  <2>1. UNCHANGED <<next, booted, tables>>
    BY <1>2 DEF ScanStep, StaticEntry, List, ListFails, EntryDone, RegisterInstance
  <2>2. phase' = phase \/ \E to : phase' = [phase EXCEPT !["discovery"] = to]
    BY <1>2 DEF ScanStep, StaticEntry, List, ListFails, EntryDone, RegisterInstance
  <2>3. idx' = idx \/ \E n : idx' = [idx EXCEPT !["discovery"] = n]
    BY <1>2 DEF ScanStep, StaticEntry, List, ListFails, EntryDone, RegisterInstance
  <2>4. todo' = todo \/ \E left : todo' = [todo EXCEPT !["discovery"] = left]
    BY <1>2 DEF ScanStep, StaticEntry, List, ListFails, EntryDone, RegisterInstance
  <2>5. call' = call \/ \E c : call' = [call EXCEPT !["discovery"] = c]
    BY <1>2 DEF ScanStep, StaticEntry, List, ListFails, EntryDone, RegisterInstance
  <2>6. phase'["main"] = phase["main"]  BY <1>0, <1>1, <2>2
  <2>7. idx'["main"] = idx["main"]  BY <1>0, <1>1, <2>3
  <2>8. todo'["main"] = todo["main"]  BY <1>0, <1>1, <2>4
  <2>9. call'["main"] = call["main"]  BY <1>0, <1>1, <2>5
  <2> QED  BY <2>1, <2>6, <2>7, <2>8, <2>9 DEF Aside
<1>3. CASE DiscoveryDone \/ DiscoveryTick \/ Panic
  <2>1. UNCHANGED <<next, booted, tables, todo, call>>
    BY <1>3 DEF DiscoveryDone, ScanEnds, DiscoveryTick, Panic
  <2>2. \E to : phase' = [phase EXCEPT !["discovery"] = to]
    BY <1>3 DEF DiscoveryDone, ScanEnds, DiscoveryTick, Panic
  <2>3. idx' = idx \/ idx' = [idx EXCEPT !["discovery"] = 1]
    BY <1>3 DEF DiscoveryDone, ScanEnds, DiscoveryTick, Panic
  <2>4. phase'["main"] = phase["main"]  BY <1>0, <1>1, <2>2
  <2>5. idx'["main"] = idx["main"]  BY <1>0, <1>1, <2>3
  <2> QED  BY <2>1, <2>4, <2>5 DEF Aside
<1>4. CASE HealthStep
  <2>1. UNCHANGED <<config, tables, progress, call>>
    BY <1>4 DEF HealthStep, HealthBegins, HealthReads, HealthEnds
  <2> QED  BY <2>1 DEF Aside
<1>5. ASSUME NEW v \in Units, InstanceAppears(v)
      PROVE  Aside(u)
  BY <1>5 DEF InstanceAppears, Aside
<1>6. ASSUME NEW v \in Units, StateSeen(v)
      PROVE  Aside(u)
  <2>1. /\ UNCHANGED <<next, booted, registered, critical, watched, trackers, progress, call>>
        /\ status[v] # None /\ status' = [status EXCEPT ![v] = StateOf(v)]
    BY <1>6 DEF StateSeen
  <2>2. status'[u] = None <=> status[u] = None
    BY <1>1, <2>1, NoneAssumption DEF StateOf
  <2> QED  BY <2>1, <2>2 DEF Aside
<1> QED  BY <1>2, <1>3, <1>4, <1>5, <1>6

\* The event loop goes on, and perhaps begins a call.
LEMMA ProgressBegins ==
  ASSUME NEW u, Progress(u), ~Busy(u), UNCHANGED tables,
         Busy(u)' => call'["main"].step \in {"insert", "remove"}
  PROVE  Progress(u)'
<1>1. Supervised(u)' \/ Clean(u)'  BY DEF Progress, Supervised, Clean, tables
<1> QED  BY <1>1 DEF Progress

\* Nothing begins for u.
LEMMA NothingBegins ==
  ASSUME NEW u, Supervision(u), ~Busy(u), ~Busy(u)', UNCHANGED <<tables, next, booted>>,
         Due(u)' <=> Due(u),
         phase["main"] = "old" => phase'["main"] = "old" /\ (u \in todo["main"] => u \in todo'["main"]),
         MissingBoot(u)'
  PROVE  Supervision(u)'
<1> USE DEF tables
<1>1. ~Inserting(u) /\ ~Inserting(u)'  BY DEF Inserting
<1>2. Progress(u)'  BY ProgressBegins DEF Supervision
<1>3. Extra(u)' /\ Called(u)'  BY DEF Supervision, Extra, Called
<1>4. Missing(u)'  BY <1>1 DEF Supervision, Missing
<1>5. AllInstances' = AllInstances  BY DEF AllInstances, Instances, Names
<1>6. Flagged(u)'  BY <1>1, <1>5 DEF Supervision, Flagged
<1> QED  BY <1>2, <1>3, <1>4, <1>6 DEF Supervision

LEMMA OwnScan ==
  ASSUME OwnInv, NEW u \in Units, Own(u), Supervision(u), ScanStep("main")
  PROVE  Supervision(u)'
<1> USE DEF config, tables, progress, http
<1>0. /\ IInv /\ TypeOK /\ MainPlace /\ AtTemplate /\ "main" \in Goroutines /\ next \in Configs
      /\ Progress(u) /\ Extra(u) /\ MissingBoot(u) /\ Missing(u) /\ Called(u) /\ Flagged(u)
  BY DEF OwnInv, IInv, Goroutines, Supervision, TypeOK
<1>1. /\ call["main"] = NoCall /\ ~Busy(u) /\ ~Inserting(u) /\ UNCHANGED <<tables, next, booted>>
      /\ phase["main"] \in {"scan", "register"} /\ NoCall \notin Full
  <2>1. At("main", "none") /\ phase["main"] \in {"scan", "register"} /\ UNCHANGED <<tables, next, booted>>
    BY DEF ScanStep, StaticEntry, List, ListFails, EntryDone, RegisterInstance, Ready
  <2> QED  BY <1>0, <2>1, NotCalling, CallsAre, CallShapes DEF Busy, Inserting
<1>2. phase'["main"] \in {"scan", "register"}
  BY <1>0, <1>1 DEF ScanStep, StaticEntry, List, ListFails, EntryDone, RegisterInstance, TypeOK
<1>3. /\ idx \in [Goroutines -> Nat] /\ call \in [Goroutines -> Calls] /\ AllInstances' = AllInstances
  BY <1>0 DEF TypeOK, AllInstances, Instances, Names
<1>4. ~Due(u) /\ ~Due(u)'  BY <1>1, <1>2 DEF Due
<1>5. ASSUME UNCHANGED call, MissingBoot(u)'
      PROVE  Supervision(u)'
  BY <1>1, <1>4, <1>5, NothingBegins DEF Busy
<1>6. ASSUME NEW v \in Units, NEW f \in BOOLEAN, OthersStay("main"),
             call'["main"] = Registering(v, f), MissingBoot(u)', v \in Static(next) \cup Instances(next),
             u = v /\ u \in Static(next) \ AllInstances /\ u \notin registered => f = FlagOf(next, u, FALSE)
      PROVE  Supervision(u)'
  <2>1. /\ call'["main"] \in Full /\ call'["main"].step = "insert" /\ call'["main"].unit = v
        /\ call'["main"].critical = f
    BY <1>6 DEF Registering, Full
  <2>2. call'["main"] # NoCall  BY <1>1, <2>1
  <2>3. CASE v # u
    <3>1. ~Busy(u)'  BY <2>1, <2>3 DEF Busy
    <3> QED  BY <1>1, <1>4, <1>6, <3>1, NothingBegins
  <2>4. CASE v = u
    <3>1. Inserting(u)' /\ Busy(u)'  BY <2>1, <2>2, <2>4 DEF Inserting, Busy
    <3>2. Progress(u)'  BY <1>0, <1>1, <2>1, ProgressBegins
    <3>3. Extra(u)' /\ Called(u)' /\ Missing(u)'
      BY <1>0, <1>1, <1>6, <2>1, <2>4, <3>1 DEF Extra, Called, Missing
    <3>4. Flagged(u)'
      BY <1>0, <1>1, <1>3, <1>4, <1>6, <2>1, <2>4, <3>1 DEF Flagged
    <3> QED  BY <1>6, <3>2, <3>3, <3>4 DEF Supervision
  <2> QED  BY <2>3, <2>4
<1>7. CASE StaticEntry("main")
  <2> DEFINE n == idx["main"]
  <2>1. /\ phase["main"] = "scan" /\ More("main") /\ Here("main") = next[n] /\ ~next[n].template
        /\ idx'["main"] = n + 1 /\ n \in Nat
    BY <1>0, <1>3, <1>7 DEF StaticEntry, Ready, Here, Source
  <2>2. n \in DOMAIN next /\ DOMAIN next \subseteq Nat
    <3>1. n \in DOMAIN Source("main")  BY <1>0, <2>1, SourceKnown
    <3> QED  BY <1>0, <3>1, Named DEF Source
  <2>3. CASE booted
    <3>1. UNCHANGED call /\ MissingBoot(u)'  BY <1>1, <1>7, <2>3 DEF StaticEntry, MissingBoot
    <3> QED  BY <1>5, <3>1
  <2>4. CASE ~booted
    <3>1. PICK v \in next[n].names : call' = [call EXCEPT !["main"] = Registering(v, next[n].critical)]
      BY <1>7, <2>1, <2>4 DEF StaticEntry
    <3>2. /\ v \in Units /\ next[n].critical \in BOOLEAN /\ v \in Static(next) /\ next[n].names = {v}
      BY <1>0, <2>1, <2>2, <3>1, Named, ConfigsAssumption
    <3>3. PICK f \in BOOLEAN : f = next[n].critical  BY <3>2
    <3> DEFINE d == Registering(v, f)
    <3>4. d \in Full /\ d.unit = v /\ d.step = "insert"  BY <3>2 DEF Registering, Full
    <3>5. call' = [call EXCEPT !["main"] = d]  BY <3>1, <3>3
    <3>6. OthersStay("main") /\ call'["main"] = d
      <4> HIDE DEF d
      <4> QED  BY <1>0, <3>4, <3>5, CallsAre, Assigned
    <3>7. u = v => Inserting(u)'
      <4> HIDE DEF d
      <4> QED  BY <1>1, <3>4, <3>6 DEF Inserting, Busy
    <3>8. MissingBoot(u)'
      <4> SUFFICES ASSUME NEW m \in DOMAIN next, ~next[m].template, m < n + 1, u \in next[m].names
                   PROVE  u \in registered \/ Inserting(u)'
        BY <1>1, <2>1 DEF MissingBoot
      <4>1. CASE m = n  BY <3>2, <3>7, <4>1
      <4>2. CASE m # n
        <5>1. m < n  BY <2>1, <2>2, <4>2
        <5> QED  BY <1>0, <1>1, <2>4, <5>1 DEF MissingBoot
      <4> QED  BY <4>1, <4>2
    <3>9. ASSUME u = v, u \notin registered
          PROVE  f = FlagOf(next, u, FALSE)
      <4>1. \A m \in DOMAIN next : m < n => ~(next[m].template = FALSE /\ u \in next[m].names)
        BY <1>0, <1>1, <2>4, <3>9 DEF MissingBoot
      <4>2. next[n].template = FALSE  BY <1>0, <2>1, <2>2, Named
      <4>3. FlagOf(next, u, FALSE) = next[n].critical
        BY <1>0, <2>2, <3>1, <3>9, <4>1, <4>2, FlagOfFirst
      <4> QED  BY <3>3, <4>3
    <3> QED  BY <1>6, <3>2, <3>6, <3>8, <3>9
  <2> QED  BY <2>3, <2>4
<1>8. CASE List("main")
  <2>1. UNCHANGED <<call, idx>>  BY <1>8 DEF List
  <2>2. MissingBoot(u)'  BY <1>0, <1>1, <2>1 DEF MissingBoot, Inserting, Busy
  <2> QED  BY <1>5, <2>1, <2>2
<1>9. ASSUME UNCHANGED call, idx'["main"] = idx["main"] + 1, idx["main"] \in DOMAIN next,
             next[idx["main"]].template
      PROVE  Supervision(u)'
  <2>1. DOMAIN next \subseteq Nat  BY <1>0, Named
  <2>2. MissingBoot(u)'
    <3> SUFFICES ASSUME ~booted, NEW m \in DOMAIN next, ~next[m].template, m < idx["main"] + 1,
                        u \in next[m].names
                 PROVE  u \in registered
      BY <1>1, <1>9 DEF MissingBoot
    <3>1. m < idx["main"]  BY <1>0, <1>3, <1>9, <2>1
    <3> QED  BY <1>0, <1>1, <3>1 DEF MissingBoot
  <2> QED  BY <1>5, <1>9, <2>2
<1>10. CASE ListFails("main")
  <2>1. More("main") /\ Here("main").template /\ UNCHANGED call /\ idx'["main"] = idx["main"] + 1
    BY <1>0, <1>3, <1>10 DEF ListFails
  <2>2. idx["main"] \in DOMAIN next  BY <1>0, <2>1, SourceKnown DEF Source
  <2> QED  BY <1>9, <2>1, <2>2 DEF Here, Source
<1>11. CASE EntryDone("main")
  <2>1. phase["main"] = "register" /\ UNCHANGED call /\ idx'["main"] = idx["main"] + 1
    BY <1>0, <1>3, <1>11 DEF EntryDone, Ready
  <2> QED  BY <1>0, <1>9, <2>1 DEF AtTemplate
<1>12. ASSUME NEW v \in Units, RegisterInstance("main", v)
       PROVE  Supervision(u)'
  <2>1. PICK f \in BOOLEAN : f = flag["main"]  BY <1>0 DEF TypeOK
  <2>2. /\ v \in Instances(next) /\ Instances(next) \subseteq AllInstances
        /\ call' = [call EXCEPT !["main"] = Registering(v, f)] /\ UNCHANGED idx
    BY <1>0, <1>12, <2>1, Named DEF RegisterInstance, Ready, MainPlace
  <2> DEFINE d == Registering(v, f)
  <2>3. d \in Full  BY Begun
  <2>4. OthersStay("main") /\ call'["main"] = d
    <3>1. call' = [call EXCEPT !["main"] = d]  BY <2>2
    <3> HIDE DEF d
    <3> QED  BY <1>0, <2>3, <3>1, CallsAre, Assigned
  <2>5. MissingBoot(u)'  BY <1>0, <1>1, <2>2 DEF MissingBoot
  <2> QED  BY <1>6, <2>2, <2>4, <2>5
<1> QED  BY <1>7, <1>8, <1>10, <1>11, <1>12 DEF ScanStep

LEMMA OwnReload ==
  ASSUME OwnInv, NEW u \in Units, Supervision(u),
         \/ MainDone \/ OldDone \/ NewDone \/ \E c \in Configs : Reload(c)
         \/ \E v \in Units : ReloadOld(v) \/ ReloadNew(v)
  PROVE  Supervision(u)'
<1> USE DEF config, tables, progress, http
<1>0. /\ IInv /\ TypeOK /\ MainPlace /\ "main" \in Goroutines /\ next \in Configs
      /\ Progress(u) /\ Extra(u) /\ MissingBoot(u) /\ Missing(u) /\ Called(u) /\ Flagged(u)
  BY DEF OwnInv, IInv, Goroutines, Supervision, TypeOK
<1>1. call["main"] = NoCall /\ ~Busy(u) /\ ~Inserting(u) /\ UNCHANGED tables /\ NoCall \notin Full
  <2>1. At("main", "none") /\ UNCHANGED tables
    BY DEF MainDone, ScanEnds, OldDone, NewDone, Reload, ReloadOld, ReloadNew, Ready
  <2> QED  BY <1>0, <2>1, NotCalling, CallsAre, CallShapes DEF Busy, Inserting
<1>2. /\ phase \in [Goroutines -> {"idle", "scan", "register", "old", "new", "panic"}]
      /\ todo \in [Goroutines -> SUBSET Units] /\ AllInstances' = AllInstances
  BY <1>0 DEF TypeOK, AllInstances, Instances, Names
<1>3. ASSUME UNCHANGED call, booted',
             \/ UNCHANGED next /\ Extra(u)' /\ (Due(u)' <=> Due(u))
             \/ UNCHANGED next /\ Extra(u)' /\ (u \in Static(next) => Due(u)')
             \/ phase'["main"] = "old" /\ todo'["main"] = registered,
             Missing(u)'
      PROVE  Supervision(u)'
  <2>1. ~Busy(u)' /\ ~Inserting(u)'  BY <1>1, <1>3 DEF Busy, Inserting
  <2>2. Progress(u)'  BY <1>0, <1>1, <2>1, ProgressBegins
  <2>3. Extra(u)'  BY <1>1, <1>3 DEF Extra
  <2>4. MissingBoot(u)' /\ Called(u)'  BY <1>3, <2>1 DEF MissingBoot, Called
  <2>5. Flagged(u)'
    <3>1. CASE UNCHANGED next  BY <1>0, <1>1, <1>2, <1>3, <2>1, <3>1 DEF Flagged, Due
    <3>2. CASE phase'["main"] = "old"  BY <2>1, <3>2 DEF Flagged, Due
    <3> QED  BY <1>3, <3>1, <3>2
  <2> QED  BY <1>3, <2>2, <2>3, <2>4, <2>5 DEF Supervision
<1>4. CASE MainDone
  <2>1. /\ phase["main"] = "scan" /\ phase'["main"] = "idle" /\ booted' /\ UNCHANGED <<call, next>>
        /\ idx["main"] > bound["main"] /\ bound["main"] = Len(next)
    BY <1>0, <1>2, <1>4 DEF MainDone, ScanEnds, Ready, MainPlace
  <2>2. ~Due(u) /\ ~Due(u)'  BY <2>1 DEF Due
  <2>3. Extra(u)'  BY <1>0, <1>1, <2>1 DEF Extra
  <2>4. Missing(u)'
    <3> SUFFICES ASSUME u \in Static(next)
                 PROVE  u \in registered
      BY <1>1, <2>1 DEF Missing
    <3>1. CASE booted  BY <1>0, <1>1, <2>2, <3>1 DEF Missing
    <3>2. CASE ~booted
      <4>1. PICK n \in DOMAIN next : next[n].template = FALSE /\ u \in next[n].names
        BY DEF Static, Names
      <4>2. n \in 1..Len(next) /\ Len(next) \in Nat /\ idx["main"] \in Nat
        BY <1>0, Named DEF TypeOK
      <4>3. n < idx["main"]  BY <2>1, <4>2
      <4> QED  BY <1>0, <1>1, <3>2, <4>1, <4>3 DEF MissingBoot
    <3> QED  BY <3>1, <3>2
  <2> QED  BY <1>3, <2>1, <2>2, <2>3, <2>4
<1>5. CASE OldDone
  <2>1. /\ phase["main"] = "old" /\ phase'["main"] = "new" /\ UNCHANGED <<call, next, booted>>
        /\ todo["main"] = {} /\ todo'["main"] = Static(next) /\ booted
    BY <1>0, <1>2, <1>5 DEF OldDone, Ready, MainPlace
  <2>2. Extra(u)'  BY <1>0, <1>1, <2>1 DEF Extra
  <2>3. (u \in Static(next) => Due(u)') /\ Missing(u)'  BY <2>1 DEF Due, Missing
  <2> QED  BY <1>3, <2>1, <2>2, <2>3
<1>6. CASE NewDone
  <2>1. /\ phase["main"] = "new" /\ phase'["main"] = "scan" /\ UNCHANGED <<call, next, booted>>
        /\ todo["main"] = {} /\ booted
    BY <1>0, <1>2, <1>6 DEF NewDone, Ready, MainPlace
  <2>2. ~Due(u) /\ ~Due(u)'  BY <2>1 DEF Due
  <2>3. Extra(u)'  BY <1>0, <1>1, <2>1 DEF Extra
  <2>4. Missing(u)'  BY <1>0, <1>1, <2>1, <2>2 DEF Missing
  <2> QED  BY <1>3, <2>1, <2>2, <2>3, <2>4
<1>7. ASSUME NEW c \in Configs, Reload(c)
      PROVE  Supervision(u)'
  <2>1. /\ phase'["main"] = "old" /\ UNCHANGED <<call, booted>> /\ booted
        /\ todo'["main"] = registered
    BY <1>0, <1>2, <1>7 DEF Reload
  <2>2. Missing(u)'  BY <2>1 DEF Missing, Due
  <2> QED  BY <1>3, <2>1, <2>2
<1>8. ASSUME NEW v \in Units, ReloadOld(v) \/ ReloadNew(v)
      PROVE  Supervision(u)'
  <2>1. /\ phase["main"] \in {"old", "new"} /\ UNCHANGED <<phase, next, booted, idx>> /\ booted
        /\ todo'["main"] = todo["main"] \ {v}
    BY <1>0, <1>2, <1>8 DEF ReloadOld, ReloadNew, Ready, MainPlace
  <2>2. MissingBoot(u)'  BY <2>1 DEF MissingBoot
  <2>3. ASSUME u # v, call'["main"] = NoCall \/ call'["main"].unit = v
        PROVE  Supervision(u)'
    <3>1. ~Busy(u)'  BY <2>3 DEF Busy
    <3>2. Due(u)' <=> Due(u)  BY <2>1, <2>3 DEF Due
    <3> QED  BY <1>1, <2>1, <2>2, <2>3, <3>1, <3>2, NothingBegins
  <2>4. CASE ReloadOld(v)
    <3> DEFINE d == IF v \in Static(next) THEN NoCall
                    ELSE IF v \in Instances(next) THEN Updating(v, FlagOf(next, v, TRUE))
                    ELSE Unregistering(v)
    <3>1. phase["main"] = "old" /\ call' = [call EXCEPT !["main"] = d]
      BY <2>4 DEF ReloadOld, Ready
    <3>2. \/ v \in Static(next) /\ d = NoCall
          \/ /\ v \notin Static(next) /\ v \in Instances(next) /\ d \in Full /\ d.unit = v /\ d.step = "remove"
          \/ /\ v \notin Static(next) /\ v \notin Instances(next)
             /\ d \in Bare /\ d.unit = v /\ d.step = "remove"
      <4>1. CASE v \in Static(next)  BY <4>1
      <4>2. CASE v \notin Static(next) /\ v \in Instances(next)
        <5>1. PICK f \in BOOLEAN : f = FlagOf(next, v, TRUE)
          BY <1>0, <4>2, FlagOfNamed DEF Instances
        <5>2. d = Updating(v, f)  BY <4>2, <5>1
        <5> HIDE DEF d
        <5>3. d \in Full /\ d.unit = v /\ d.step = "remove"
          BY <5>2 DEF Updating, Registering, Full
        <5> QED  BY <4>2, <5>3
      <4>3. CASE v \notin Static(next) /\ v \notin Instances(next)
        <5>1. d = Unregistering(v)  BY <4>3
        <5> HIDE DEF d
        <5> QED  BY <4>3, <5>1 DEF Unregistering, Bare
      <4> QED  BY <4>1, <4>2, <4>3
    <3> HIDE DEF d
    <3>3. call'["main"] = d  BY <1>0, <3>1, <3>2, CallsAre, Assigned
    <3>4. CASE u # v  BY <2>3, <3>2, <3>3, <3>4
    <3>5. CASE u = v
      <4>1. Progress(u)'  BY <1>0, <1>1, <3>2, <3>3, <3>5, ProgressBegins DEF Busy
      <4>2. Due(u) /\ Due(u)'  BY <2>1, <3>1 DEF Due
      <4>3. d \in Bare => d # NoCall /\ d \notin Full  BY CallsAre, CallShapes
      <4>4. d \in Full => d # NoCall  BY <1>1
      <4>5. Extra(u)' /\ Called(u)'
        BY <1>0, <2>1, <3>1, <3>2, <3>3, <3>5, <4>3, <4>4 DEF Extra, Called, Busy
      <4>6. Missing(u)'  BY <4>2 DEF Missing
      <4>7. Flagged(u)'
        BY <1>1, <2>1, <3>2, <3>3, <3>5, <4>2 DEF Flagged, Inserting, Busy
      <4> QED  BY <2>2, <4>1, <4>5, <4>6, <4>7 DEF Supervision
    <3> QED  BY <3>4, <3>5
  <2>5. CASE ReloadNew(v)
    <3> DEFINE d == IF v \in registered THEN Updating(v, FlagOf(next, v, FALSE))
                    ELSE Registering(v, FlagOf(next, v, FALSE))
    <3>1. /\ phase["main"] = "new" /\ v \in Static(next) /\ call' = [call EXCEPT !["main"] = d]
      BY <1>0, <2>5 DEF ReloadNew, Ready, MainPlace
    <3>2. PICK f \in BOOLEAN : f = FlagOf(next, v, FALSE)
      BY <1>0, <3>1, FlagOfNamed DEF Static
    <3>3. /\ d \in Full /\ d.unit = v /\ d.critical = f
          /\ d.step = IF v \in registered THEN "remove" ELSE "insert"
      <4>1. CASE v \in registered
        <5>1. d = Updating(v, f)  BY <3>2, <4>1
        <5> HIDE DEF d
        <5> QED  BY <4>1, <5>1 DEF Updating, Registering, Full
      <4>2. CASE v \notin registered
        <5>1. d = Registering(v, f)  BY <3>2, <4>2
        <5> HIDE DEF d
        <5> QED  BY <4>2, <5>1 DEF Registering, Full
      <4> QED  BY <4>1, <4>2
    <3> HIDE DEF d
    <3>4. call'["main"] = d /\ d # NoCall  BY <1>0, <1>1, <3>1, <3>3, CallsAre, Assigned
    <3>5. CASE u # v  BY <2>3, <3>3, <3>4, <3>5
    <3>6. CASE u = v
      <4>1. Inserting(u)' /\ Busy(u)'  BY <3>3, <3>4, <3>6 DEF Inserting, Busy
      <4>2. Progress(u)'  BY <1>0, <1>1, <3>3, <3>4, ProgressBegins
      <4>3. Extra(u)' /\ Called(u)' /\ Missing(u)'
        BY <2>1, <3>1, <3>3, <3>4, <3>6, <4>1 DEF Extra, Called, Missing
      <4>4. Flagged(u)'
        BY <1>1, <2>1, <3>2, <3>3, <3>4, <3>6, <4>1 DEF Flagged
      <4> QED  BY <2>2, <4>2, <4>3, <4>4 DEF Supervision
    <3> QED  BY <3>5, <3>6
  <2> QED  BY <1>8, <2>4, <2>5
<1> QED  BY <1>4, <1>5, <1>6, <1>7, <1>8

LEMMA PlacesKept ==
  ASSUME OwnInv, [Next]_vars
  PROVE  AtTemplate' /\ NoTemplates'
<1> USE DEF config, tables, progress, http
<1>0. /\ IInv /\ TypeOK /\ MainPlace /\ AtTemplate /\ NoTemplates /\ "main" \in Goroutines
      /\ next \in Configs /\ phase \in [Goroutines -> {"idle", "scan", "register", "old", "new", "panic"}]
      /\ idx \in [Goroutines -> Nat] /\ discovering \in BOOLEAN
  BY DEF OwnInv, IInv, Goroutines, TypeOK
<1>1. ASSUME UNCHANGED <<next, phase["main"], idx["main"], cfg, booted, discovering>>
      PROVE  AtTemplate' /\ NoTemplates'
  BY <1>0, <1>1 DEF AtTemplate, NoTemplates
<1>2. ASSUME phase'["main"] \in {"scan", "old", "new"}
      PROVE  AtTemplate' /\ NoTemplates'
  BY <1>2 DEF AtTemplate, NoTemplates
<1>3. ASSUME NEW g \in Goroutines, CallStep(g)
      PROVE  AtTemplate' /\ NoTemplates'
  <2>1. UNCHANGED <<next, phase, idx, cfg, booted, discovering>>
    BY <1>3 DEF CallStep, AlreadyRegistered, Insert, RegisterStatus, RegisterTracker, Observe, Remove,
      UnregisterTracker, UnregisterStatus
  <2> QED  BY <1>1, <2>1
<1>4. CASE \/ ScanStep("discovery") \/ DiscoveryDone \/ DiscoveryTick \/ Panic \/ HealthStep
           \/ \E u \in Units : InstanceAppears(u) \/ StateSeen(u)
  <2>1. UNCHANGED <<next, cfg, booted, discovering>>
    BY <1>4 DEF ScanStep, StaticEntry, List, ListFails, EntryDone, RegisterInstance, DiscoveryDone,
      DiscoveryTick, Panic, HealthStep, HealthBegins, HealthReads, HealthEnds, InstanceAppears, StateSeen
  <2>2. phase' = phase \/ \E to : phase' = [phase EXCEPT !["discovery"] = to]
    BY <1>4 DEF ScanStep, StaticEntry, List, ListFails, EntryDone, RegisterInstance, DiscoveryDone, ScanEnds,
      DiscoveryTick, Panic, HealthStep, HealthBegins, HealthReads, HealthEnds, InstanceAppears, StateSeen
  <2>3. idx' = idx \/ \E n : idx' = [idx EXCEPT !["discovery"] = n]
    BY <1>4 DEF ScanStep, StaticEntry, List, ListFails, EntryDone, RegisterInstance, DiscoveryDone, ScanEnds,
      DiscoveryTick, Panic, HealthStep, HealthBegins, HealthReads, HealthEnds, InstanceAppears, StateSeen
  <2>4. phase'["main"] = phase["main"]  BY <1>0, <2>2
  <2>5. idx'["main"] = idx["main"]  BY <1>0, <2>3
  <2> QED  BY <1>1, <2>1, <2>4, <2>5
<1>5. CASE ScanStep("main")
  <2>1. CASE List("main")
    <3>1. More("main") /\ Here("main").template /\ phase'["main"] = "register" /\ UNCHANGED <<next, idx>>
      BY <1>0, <2>1 DEF List
    <3>2. idx["main"] \in DOMAIN next  BY <1>0, <3>1, SourceKnown DEF Source
    <3> QED  BY <3>1, <3>2 DEF AtTemplate, NoTemplates, Here, Source
  <2>2. CASE StaticEntry("main") \/ ListFails("main")
    <3>1. phase'["main"] = "scan"  BY <2>2 DEF StaticEntry, ListFails, Ready
    <3> QED  BY <1>2, <3>1
  <2>3. CASE EntryDone("main")
    <3>1. phase'["main"] = "scan"  BY <1>0, <2>3 DEF EntryDone
    <3> QED  BY <1>2, <3>1
  <2>4. ASSUME NEW u \in Units, RegisterInstance("main", u)
        PROVE  AtTemplate' /\ NoTemplates'
    BY <1>1, <2>4 DEF RegisterInstance
  <2> QED  BY <1>5, <2>1, <2>2, <2>3, <2>4 DEF ScanStep
<1>6. CASE MainDone
  <2>1. phase'["main"] = "idle" /\ cfg' = next /\ discovering' = (discovering \/ Instances(next) # {})
    BY <1>0, <1>6 DEF MainDone, ScanEnds
  <2>2. ~discovering' => Instances(cfg') = {}  BY <1>0, <2>1
  <2> QED  BY <2>1, <2>2 DEF AtTemplate, NoTemplates
<1>7. CASE OldDone \/ NewDone \/ \E c \in Configs : Reload(c)
  <2>1. phase'["main"] \in {"scan", "old", "new"}  BY <1>0, <1>7 DEF OldDone, NewDone, Reload
  <2> QED  BY <1>2, <2>1
<1>8. CASE \E u \in Units : ReloadOld(u) \/ ReloadNew(u)
  <2>1. UNCHANGED <<next, phase, idx, cfg, booted, discovering>>  BY <1>8 DEF ReloadOld, ReloadNew
  <2> QED  BY <1>1, <2>1
<1>9. CASE UNCHANGED vars  BY <1>1, <1>9 DEF vars
<1> QED
  BY <1>3, <1>4, <1>5, <1>6, <1>7, <1>8, <1>9 DEF Next, MainStep, DiscoveryStep, Goroutines

LEMMA NextOwnInv ==
  ASSUME OwnInv, [Next]_vars
  PROVE  OwnInv'
<1>1. IInv /\ IInv'  BY NextIInv DEF OwnInv
<1>2. AtTemplate' /\ NoTemplates'  BY PlacesKept
<1>3. ASSUME NEW u \in Units, Own(u)'
      PROVE  Supervision(u)'
  <2> USE DEF config, tables, progress, http
  <2>1. discovering => discovering'
    BY <1>1 DEF Next, MainStep, DiscoveryStep, CallStep, ScanStep, HealthStep, vars,
      AlreadyRegistered, Insert, RegisterStatus, RegisterTracker, Observe, Remove, UnregisterTracker,
      UnregisterStatus, StaticEntry, List, ListFails, EntryDone, RegisterInstance, MainDone, OldDone,
      NewDone, ReloadOld, ReloadNew, DiscoveryDone, DiscoveryTick, Panic, HealthBegins, HealthEnds,
      HealthReads, Reload, InstanceAppears, StateSeen
  <2>2. Own(u) /\ Supervision(u)
    <3>1. AllInstances' = AllInstances  BY DEF AllInstances, Instances, Names
    <3>2. Own(u)  BY <1>3, <2>1, <3>1 DEF Own
    <3> QED  BY <3>2 DEF OwnInv
  <2>3. CASE CallStep("main")
    <3>1. call["main"].step # "none"
      BY <2>3 DEF CallStep, AlreadyRegistered, Insert, RegisterStatus, RegisterTracker, Observe, Remove,
        UnregisterTracker, UnregisterStatus, At
    <3>2. call["main"] # NoCall  BY <3>1 DEF NoCall
    <3>3. CASE Busy(u)  BY <2>2, <2>3, <3>3, OwnCall
    <3>4. CASE ~Busy(u)
      <4>1. call["main"].unit # u  BY <3>2, <3>4 DEF Busy
      <4> QED  BY <1>1, <2>2, <2>3, <4>1, CallAside, AsideKeeps DEF Goroutines
    <3> QED  BY <3>3, <3>4
  <2>4. CASE CallStep("discovery")
    <3>1. call["discovery"].step # "none"
      BY <2>4 DEF CallStep, AlreadyRegistered, Insert, RegisterStatus, RegisterTracker, Observe, Remove,
        UnregisterTracker, UnregisterStatus, At
    <3>2. call["discovery"] # NoCall  BY <3>1 DEF NoCall
    <3>3. call["discovery"].unit \in AllInstances /\ discovering
      BY <1>1, <3>2 DEF IInv, DiscoveryPlace
    <3>4. call["discovery"].unit # u  BY <2>2, <3>3 DEF Own
    <3> QED  BY <1>1, <2>2, <2>4, <3>4, CallAside, AsideKeeps DEF Goroutines
  <2>5. CASE \/ ScanStep("discovery") \/ DiscoveryDone \/ DiscoveryTick \/ Panic \/ HealthStep
             \/ \E v \in Units : InstanceAppears(v) \/ StateSeen(v)
    BY <1>1, <2>2, <2>5, OthersAside, AsideKeeps
  <2>6. CASE ScanStep("main")  BY <2>2, <2>6, OwnScan
  <2>7. CASE \/ MainDone \/ OldDone \/ NewDone \/ \E c \in Configs : Reload(c)
             \/ \E v \in Units : ReloadOld(v) \/ ReloadNew(v)
    BY <2>2, <2>7, OwnReload
  <2>8. CASE UNCHANGED vars
    <3>1. Aside(u)  BY <2>8 DEF Aside, vars
    <3> QED  BY <2>2, <3>1, AsideKeeps
  <2> QED  BY <2>3, <2>4, <2>5, <2>6, <2>7, <2>8 DEF Next, MainStep, DiscoveryStep
<1> QED  BY <1>1, <1>2, <1>3 DEF OwnInv

LEMMA InitOwnInv ==
  ASSUME Init
  PROVE  OwnInv
<1>1. IInv /\ "main" \in Goroutines /\ next \in Configs  BY InitIInv DEF Init, Goroutines
<1>2. phase["main"] = "scan" /\ ~booted /\ call["main"] = NoCall /\ registered = {} /\ idx["main"] = 1
  BY <1>1 DEF Init
<1>3. AtTemplate /\ NoTemplates  BY <1>2 DEF AtTemplate, NoTemplates
<1>4. ASSUME NEW u \in Units
      PROVE  Supervision(u)
  <2>1. ~Busy(u) /\ ~Inserting(u)  BY <1>2 DEF Busy, Inserting
  <2>2. Clean(u)  BY <1>2 DEF Init, Clean
  <2>3. DOMAIN next \subseteq Nat \ {0}  BY <1>1, Named
  <2>4. Progress(u) /\ Extra(u) /\ Missing(u) /\ Called(u)
    BY <1>2, <2>1, <2>2 DEF Progress, Extra, Missing, Called
  <2>5. MissingBoot(u)  BY <1>2, <2>3 DEF MissingBoot
  <2>6. Flagged(u)  BY <1>2, <2>1 DEF Flagged
  <2> QED  BY <2>4, <2>5, <2>6 DEF Supervision
<1> QED  BY <1>1, <1>3, <1>4 DEF OwnInv

\* The invariant with what the event loop does for the units it has for itself.
THEOREM OwnInductive == Spec => []OwnInv
<1>1. Init => OwnInv  BY InitOwnInv
<1>2. OwnInv /\ [Next]_vars => OwnInv'  BY NextOwnInv
<1> QED  BY <1>1, <1>2, PTL DEF Spec

\* Until discoveryLoop runs, reloads leave exactly the configured static units,
\* each supervised in full, and no trace of others (daemon_test.go:1309,
\* "reload unregisters removed units"), however many units and reloads there are.
THEOREM ReloadsExact == Spec => []ReloadExact
<1>1. ASSUME OwnInv, booted, ~discovering, phase["main"] = "idle"
      PROVE  /\ registered = Static(cfg) /\ \A u \in registered : Supervised(u)
             /\ \A u \in Units \ registered : status[u] = None /\ u \notin trackers
  <2>1. next = cfg /\ call["main"] = NoCall /\ Instances(cfg) = {}
    BY <1>1 DEF OwnInv, IInv, MainPlace, NoTemplates
  <2>2. Static(cfg) \subseteq Units /\ registered \subseteq Units  BY <1>1, Named DEF OwnInv, IInv, TypeOK
  <2>3. \A u \in Units : ~Busy(u) /\ ~Inserting(u) /\ ~Due(u) /\ Supervision(u)
    BY <1>1, <2>1 DEF Busy, Inserting, Due, Own, OwnInv
  <2>4. \A u \in Units : u \in registered <=> u \in Static(cfg)
    BY <1>1, <2>1, <2>3 DEF Supervision, Extra, Missing
  <2>5. \A u \in Units : Supervised(u) \/ Clean(u)  BY <2>3 DEF Supervision, Progress
  <2> QED  BY <2>2, <2>4, <2>5 DEF Supervised, Clean
<1>2. OwnInv => ReloadExact  BY <1>1 DEF ReloadExact
<1> QED  BY <1>2, OwnInductive, PTL

\* Between two reloads, a unit that no template of any configuration matches is
\* supervised in full if the configuration names it, and has left no trace if it
\* does not.
RegularExact ==
  booted /\ phase["main"] = "idle" => \A u \in Units \ AllInstances :
    IF u \in Static(cfg)
    THEN Supervised(u) /\ (u \in critical <=> FlagOf(cfg, u, FALSE))
    ELSE u \notin registered /\ status[u] = None /\ u \notin trackers

\* Discovery, however it interleaves with reloads, harms instances of templates
\* only: what daemon_test.go:1309 and daemon_test.go:1347 ask for (NoGhosts,
\* OnlyConfiguredRegistered, RegisteredIsSupervised) holds of every other unit.
THEOREM RegularUnitsExact == Spec => []RegularExact
<1>1. ASSUME OwnInv, booted, phase["main"] = "idle", NEW u \in Units \ AllInstances
      PROVE  IF u \in Static(cfg)
             THEN Supervised(u) /\ (u \in critical <=> FlagOf(cfg, u, FALSE))
             ELSE u \notin registered /\ status[u] = None /\ u \notin trackers
  <2>1. next = cfg /\ call["main"] = NoCall /\ cfg \in Configs
    BY <1>1 DEF OwnInv, IInv, MainPlace, TypeOK
  <2>2. ~Busy(u) /\ ~Inserting(u) /\ ~Due(u) /\ Supervision(u)
    BY <1>1, <2>1 DEF Busy, Inserting, Due, Own, OwnInv
  <2>3. u \in registered <=> u \in Static(cfg)
    <3>1. u \notin Instances(cfg)  BY <2>1 DEF AllInstances
    <3> QED  BY <1>1, <2>1, <2>2, <3>1 DEF Supervision, Missing, Extra
  <2>4. u \in registered => Supervised(u)  BY <2>2 DEF Supervision, Progress, Clean
  <2>5. u \in registered => (u \in critical <=> FlagOf(cfg, u, FALSE))
    BY <1>1, <2>1, <2>2, <2>3 DEF Supervision, Flagged
  <2>6. u \notin registered => Clean(u)
    BY <2>2 DEF Supervision, Progress, Supervised
  <2> QED  BY <2>3, <2>4, <2>5, <2>6 DEF Clean
<1>2. OwnInv => RegularExact  BY <1>1 DEF RegularExact
<1> QED  BY <1>2, OwnInductive, PTL

\* No unit is static in one configuration and matches a template of another.
Apart == \A c, d \in Configs : Static(c) \cap Instances(d) = {}

\* Between two reloads each static unit of the configuration is supervised in
\* full, with its critical flag, whatever discovery does, provided that no
\* template ever matches a static unit: without that discovery may be half way
\* through registering one when the event loop finds it registered already.
THEOREM StaticsSupervised == Apart => (Spec => []StaticSupervised)
<1> SUFFICES ASSUME Apart
             PROVE  Spec => []StaticSupervised
  OBVIOUS
<1>1. RegularExact /\ cfg \in Configs => StaticSupervised
  <2>1. cfg \in Configs => Static(cfg) \subseteq Units \ AllInstances
    BY Named DEF Apart, AllInstances
  <2> QED  BY <2>1 DEF RegularExact, StaticSupervised
<1>2. TypeOK => cfg \in Configs  BY DEF TypeOK
<1> QED  BY <1>1, <1>2, RegularUnitsExact, TypeCorrect, PTL
===============================================================================
