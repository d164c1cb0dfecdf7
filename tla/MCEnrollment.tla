----------------------------- MODULE MCEnrollment -----------------------------
(* Enrollment with two machines, one of which runs two commands. *)
EXTENDS Enrollment, TLC

CONSTANTS m1, m2, c1, c2, c3, t1

\* The first two commands run on the first machine.
Hosts == c1 :> m1 @@ c2 :> m1 @@ c3 :> m2

CommandSymmetry == Permutations({c1, c2})

\* max_uses of the one token.
TwoUses == t1 :> 2

\* The token in a URI, in a file that takes precedence over the environment,
\* or missing.
Arguments ==
    {[uri |-> t1, tokenFile |-> NoToken, env |-> t1, flag |-> NoToken],
     [uri |-> NoToken, tokenFile |-> t1, env |-> NoToken, flag |-> NoToken],
     [uri |-> NoToken, tokenFile |-> NoToken, env |-> NoToken, flag |-> NoToken]}

===============================================================================
