----------------------------- MODULE MCRegistry ------------------------------
(* Small instances of Registry for TLC. *)
EXTENDS Registry

CONSTANTS s, r, i    \* two units that entries name, and a template instance

OneStatic(u, f) == [template |-> FALSE, names |-> {u}, critical |-> f]
Template(f)     == [template |-> TRUE, names |-> {i}, critical |-> f]

\* The template comes and goes, and s changes its critical flag.
TemplateConfigs == {<<OneStatic(s, TRUE), Template(TRUE)>>,
                    <<OneStatic(s, FALSE)>>}

\* The same, with an empty file for a third.
MixedConfigs == TemplateConfigs \cup {<<>>}

\* The same template all the time.
SameConfig == {<<Template(FALSE)>>}

\* No templates; r comes and goes.
StaticConfigs == {<<OneStatic(s, TRUE), OneStatic(r, FALSE)>>, <<OneStatic(s, TRUE)>>}
==============================================================================
