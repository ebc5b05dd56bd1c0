----------------------------- MODULE MCRestarter -----------------------------
(* A small instance of Restarter for TLC. *)
EXTENDS Restarter

CONSTANTS web, db    \* two units

\* Each unit depends on the other: Dependencies shows that config.Load accepts it.
Cycle == {<<web, db>>, <<db, web>>}

\* A timer that names itself and has a service of the same name: accepted too.
Self == {<<web, web>>}

\* A single unit, on which nothing depends.
Alone == {}
==============================================================================
