------------------------------ MODULE MCCatalog -------------------------------
(* Catalog with a small set of definitions. *)
EXTENDS Compliance, TLC

CONSTANTS d1, g1, a1, a2

Shell(compliance, has) ==
    [kind |-> "shell", state |-> "PRESENT", compliance |-> compliance,
     has |-> has, text |-> 1]

\* A compliance check, and a remediation of the same kind that is none.
CheckDefinitions == {Shell(TRUE, {"detection"}), Shell(FALSE, {"script", "detection"})}

\* What executeShell reports of a check that passed or did not, and of a
\* remediation that succeeded: the result that might be taken for a check's.
Outcomes ==
    [def \in CheckDefinitions |->
        {<<"SUCCESS", "zero">>} \cup (IF def.compliance THEN {<<"SUCCESS", "nonzero">>} ELSE {})]

Symmetric == Permutations({a1, a2})

===============================================================================
