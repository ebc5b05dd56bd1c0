---------------------------- MODULE MCDependencies ---------------------------
(* Small instances of Dependencies for TLC. *)
EXTENDS Dependencies, Relation

\* At most one dependency, of any form.
OneOfAny == SeqOf(Dep, 1)

\* One dependency of any form, or up to two by bare names.
OneOrTwoBare == OneOfAny \cup SeqOf([name : Names, type : {NoType}], 2)

\* The code compares names, and nothing else, so it does not matter which is which.
Renamings == Permutations(Names)

\* Cyclic finds what the transitive closure finds.
ASSUME CyclicMeansCycle ==
  \A edges \in SUBSET (Names \X Names) :
    Cyclic(edges, Names) <=>
      ~IsIrreflexive(TransitiveClosure([p \in Names \X Names |-> p \in edges], Names), Names)
==============================================================================
