----------------------------- MODULE ResultLedger -----------------------------
(***************************************************************************)
(* What result reporting promises.  Every result an agent submits is       *)
(* recorded by the server at most once; the server refuses no result that  *)
(* it holds; and the agent forgets a result only after one or the other.   *)
(***************************************************************************)
CONSTANT Run

VARIABLES
    submitted,     \* results the agent has put into its outbox
    recorded,      \* results the server has recorded
    erased,        \* recorded results removed with their action
    refused,       \* results the server has refused
    forgotten      \* results the agent no longer holds

ledger == <<submitted, recorded, erased, refused, forgotten>>

Init ==
    /\ submitted = {}
    /\ recorded = {}
    /\ erased = {}
    /\ refused = {}
    /\ forgotten = {}

Submit(r) ==
    /\ r \notin submitted
    /\ submitted' = submitted \cup {r}
    /\ UNCHANGED <<recorded, erased, refused, forgotten>>

\* Also after a refusal: the copy of an earlier attempt, held up in the server
\* until its action was assigned again.
Record(r) ==
    /\ r \in submitted \ recorded
    /\ recorded' = recorded \cup {r}
    /\ UNCHANGED <<submitted, erased, refused, forgotten>>

Erase(R) ==
    /\ R \subseteq recorded
    /\ erased' = erased \cup R
    /\ UNCHANGED <<submitted, recorded, refused, forgotten>>

Refuse(r) ==
    /\ r \in submitted \ (recorded \ erased)
    /\ refused' = refused \cup {r}
    /\ UNCHANGED <<submitted, recorded, erased, forgotten>>

Forget(r) ==
    /\ r \in (recorded \cup refused) \ forgotten
    /\ forgotten' = forgotten \cup {r}
    /\ UNCHANGED <<submitted, recorded, erased, refused>>

Next ==
    \/ \E r \in Run : Submit(r) \/ Record(r) \/ Refuse(r) \/ Forget(r)
    \/ \E R \in SUBSET Run : Erase(R)

Spec == Init /\ [][Next]_ledger

===============================================================================
