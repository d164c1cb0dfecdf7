-------------------------------- MODULE Tables --------------------------------
(***************************************************************************)
(* What the SQL statements of the control plane are made of                *)
(* (server/internal/store/generated/core.sql.go).                          *)
(*                                                                         *)
(* A table with a key of its own is a function from its keys to its rows,  *)
(* and a row is a record of the columns the calling module tells apart;    *)
(* updated_at and the other timestamps that no statement reads are left    *)
(* out.  A table that only links others is a set of tuples.  A statement   *)
(* that writes is given the table and yields its new contents: where no    *)
(* row matches that is the old contents, and the caller's guard says what  *)
(* the handler makes of it.  A statement that reads yields the keys of the *)
(* rows it selects.                                                        *)
(***************************************************************************)
EXTENDS Naturals, FiniteSets

Insert(table, id, row) ==
    [i \in DOMAIN table \cup {id} |-> IF i = id THEN row ELSE table[i]]

\* DELETE of every row but these.
Keep(table, ids) == [i \in ids |-> table[i]]

Delete(table, id) == Keep(table, DOMAIN table \ {id})

\* UPDATE ... SET of the rows that ids selects.
Update(table, ids, Set(_)) ==
    [i \in DOMAIN table |-> IF i \in ids THEN Set(table[i]) ELSE table[i]]

\* :one on a key: sql.ErrNoRows unless it is there.
Get(table, id) == {id} \cap DOMAIN table

\* No other row holds this value of a UNIQUE column.
Unique(table, id, Column(_), value) ==
    \A i \in DOMAIN table \ {id} : Column(table[i]) # value

\* LIMIT, of these keys ORDERed BY before.
Limit(ids, limit, before(_, _)) ==
    {i \in ids : Cardinality({j \in ids : before(j, i)}) < limit}

ascending(i, j) == i < j
descending(i, j) == j < i

\* WHERE id > after ORDER BY id LIMIT limit.
Page(table, after, limit) == Limit({i \in DOMAIN table : i > after}, limit, ascending)

SetName(table, id, name) ==
    Update(table, {id}, LAMBDA row : [row EXCEPT !.name = name])

SetDescription(table, id, description) ==
    Update(table, {id}, LAMBDA row : [row EXCEPT !.description = description])

===============================================================================
