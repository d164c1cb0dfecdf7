------------------------------ MODULE MCConsole -------------------------------
(***************************************************************************)
(* The console: its session and its lists.  The two share no state, so a   *)
(* behaviour of this model is one of Console or one of Lists.              *)
(***************************************************************************)
EXTENDS Console

CONSTANTS t1, MaxId, Time, Names, PageSizes, MaxEvents

VARIABLES kind, rows, events, used, request, items, repeated, kept, part

lists == INSTANCE Lists

Tabs == [c \in Call |-> t1]

listsVars == <<kind, rows, events, used, request, items, repeated, kept>>
allVars == <<vars, listsVars, part>>

NoLists ==
    /\ kind = "roles" /\ rows = [i \in {} |-> 0] /\ events = [i \in {} |-> 0]
    /\ used = {} /\ request = lists!Done /\ items = {} /\ repeated = FALSE /\ kept = {}

MCInit ==
    /\ Init
    /\ \/ part = "session" /\ NoLists
       \/ part = "lists" /\ lists!Init

SessionNext == part = "session" /\ Next /\ UNCHANGED <<listsVars, part>>
ListsNext == part = "lists" /\ lists!Next /\ UNCHANGED <<vars, part>>
MCNext == SessionNext \/ ListsNext

MCSpec ==
    /\ MCInit /\ [][MCNext]_allVars
    /\ WF_allVars(part = "session" /\ RefreshStep /\ UNCHANGED <<listsVars, part>>)
    /\ \A c \in Call :
          WF_allVars(part = "session" /\ CallStep(c) /\ UNCHANGED <<listsVars, part>>)

\* Lists: a collected list has every row that was there all the while, once,
\* whatever is created, deleted and renamed between its pages.
ListingIsComplete == lists!ListingIsComplete

===============================================================================
