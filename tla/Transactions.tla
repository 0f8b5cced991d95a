---------------------------- MODULE Transactions ----------------------------
(***************************************************************************)
(* What every handler of the API server shares: the session that           *)
(* deps.get_db_session opens, commits after the handler and rolls back on  *)
(* an exception, over Postgres at its default READ COMMITTED.              *)
(*                                                                         *)
(* A row stands for a table (Schema): one representative per table.  A     *)
(* flush sends the columns that changed, and only those, and keeps the     *)
(* row locked until the end of the transaction; others read the committed  *)
(* row meanwhile and wait if they write it.  A row that is being inserted  *)
(* holds its unique keys, and keeps the rows it refers to from being       *)
(* deleted.  A flush is one step: the lock cycles that Postgres breaks     *)
(* by aborting one of two transactions do not arise.                       *)
(***************************************************************************)
EXTENDS Schema

CONSTANTS Requests,  \* requests the server handles at the same time
          None       \* NULL

ASSUME RequestsAssumption == IsFiniteSet(Requests) /\ None \notin Requests

VARIABLES table,   \* the committed rows
          writes,  \* request -> what its transaction has flushed
          req      \* request -> the handler it runs and where it stands
dbVars == <<table, writes, req>>

\* g with f over it, and f with the value v at x.
Over(f, g) == [x \in DOMAIN f \cup DOMAIN g |-> IF x \in DOMAIN f THEN f[x] ELSE g[x]]
Put(f, x, v) == [y \in DOMAIN f \cup {x} |-> IF y = x THEN v ELSE f[y]]

NoWrites == [x \in {} |-> None]
Idle == [op |-> "none", at |-> "idle", saw |-> None]
Gone == [refs |-> {}, gone |-> TRUE]
Row(x, columns) == Over([refs |-> Parents(x), gone |-> FALSE], columns)

TransactionsInit(rows) ==
    /\ table = rows
    /\ writes = [r \in Requests |-> NoWrites]
    /\ req = [r \in Requests |-> Idle]

At(r, op, at) == req[r].op = op /\ req[r].at = at
Holds(r, x) == x \in DOMAIN writes[r]
Inserts(r, x) == Holds(r, x) /\ x \notin DOMAIN table
Deletes(r, x) == Holds(r, x) /\ writes[r][x].gone
Others(r) == Requests \ {r}

\* What r reads: its own changes over what is committed.
Exists(r, x) == (x \in DOMAIN table \/ Holds(r, x)) /\ ~Deletes(r, x)
Seen(r, x) == IF Inserts(r, x) THEN writes[r][x]
              ELSE IF Holds(r, x) THEN Over(writes[r][x], table[x]) ELSE table[x]

\* May r write row x now, or insert it, or delete it, without waiting?
Unlocked(r, x) == \A q \in Others(r) : ~Holds(q, x)
MayInsert(r, x) == Unlocked(r, x) /\ \A p \in Parents(x), q \in Others(r) : ~Deletes(q, p)
MayDelete(r, x) ==
    /\ Unlocked(r, x)
    /\ \A c \in Restricting(x) \cup Cascading(x) : Unlocked(r, c)

\* The errors of the database: a unique key or a foreign key is violated.
Violates(r, x, row) == Exists(r, x) \/ \E p \in row.refs : ~Exists(r, p)
Referred(r, x) == \E c \in Restricting(x) : Exists(r, c) /\ x \in Seen(r, c).refs

\* An UPDATE of changed columns.  A row deleted since it was read matches
\* nothing, which the session reports as an error.
Columns(r, x, columns) ==
    IF Holds(r, x) THEN Over(columns, writes[r][x])
    ELSE Over([refs |-> table[x].refs, gone |-> FALSE], columns)
Update(r, x, columns) ==
    /\ Unlocked(r, x)
    /\ Exists(r, x)
    /\ writes' = [writes EXCEPT ![r] = Put(@, x, Columns(r, x, columns))]
Insert(r, x, row) ==
    /\ MayInsert(r, x)
    /\ ~Violates(r, x, row)
    /\ writes' = [writes EXCEPT ![r] = Put(@, x, row)]
\* DELETE of whole tables, with the rows that follow theirs.
Delete(r, xs) ==
    /\ \A x \in xs : MayDelete(r, x) /\ ~Referred(r, x)
    /\ LET all == {x \in xs \cup UNION {Cascading(y) : y \in xs} : Exists(r, x)}
       IN writes' = [writes EXCEPT ![r] = Over([x \in all |-> Gone], @)]

\* Mutant: an exception leaves the transaction open.
FailKeepsWrites(r) == req' = [req EXCEPT ![r] = Idle] /\ UNCHANGED <<table, writes>>

\* The handler goes on, ends without an answer from the database to wait
\* for, or fails: an HTTPException or a database error rolls back.
Begin(r, op, at, saw) ==
    /\ req[r] = Idle
    /\ req' = [req EXCEPT ![r] = [op |-> op, at |-> at, saw |-> saw]]
Goto(r, at) == req' = [req EXCEPT ![r].at = at]
Fail(r) ==
    /\ req' = [req EXCEPT ![r] = Idle]
    /\ writes' = [writes EXCEPT ![r] = NoWrites]
    /\ UNCHANGED table

\* Statements with what their errors lead to.  Another row of a table that
\* has its representative already is not represented.
UpdateOrFail(r, x, columns, next) ==
    /\ Unlocked(r, x)
    /\ IF Exists(r, x) THEN Update(r, x, columns) /\ Goto(r, next) /\ UNCHANGED table
       ELSE Fail(r)
InsertOrFail(r, x, row, next) ==
    /\ MayInsert(r, x)
    /\ IF Violates(r, x, row) THEN Fail(r)
       ELSE Insert(r, x, row) /\ Goto(r, next) /\ UNCHANGED table
AddOrFail(r, x, row, next) ==
    /\ \A p \in row.refs, q \in Others(r) : ~Deletes(q, p)
    /\ IF \E p \in row.refs : ~Exists(r, p) THEN Fail(r)
       ELSE /\ IF Unlocked(r, x) /\ ~Exists(r, x) THEN Insert(r, x, row) ELSE UNCHANGED writes
            /\ Goto(r, next)
            /\ UNCHANGED table
DeleteOrFail(r, x, next) ==
    /\ MayDelete(r, x)
    /\ IF Exists(r, x) /\ ~Referred(r, x)
       THEN Delete(r, {x}) /\ Goto(r, next) /\ UNCHANGED table
       ELSE Fail(r)

Result(r) ==
    [x \in {y \in DOMAIN table \cup DOMAIN writes[r] : ~Deletes(r, y)} |-> Seen(r, x)]
\* The end of get_db_session, and an explicit commit in the middle.
CommitTo(r, next) ==
    /\ table' = Result(r)
    /\ writes' = [writes EXCEPT ![r] = NoWrites]
    /\ req' = [req EXCEPT ![r] = next]
Commit(r) == req[r].at = "commit" /\ CommitTo(r, Idle)

\* The process dies: no transaction survives.
ServerDies ==
    /\ req' = [r \in Requests |-> Idle]
    /\ writes' = [r \in Requests |-> NoWrites]
    /\ UNCHANGED table

\* Rows refer to rows that are there, and a row has one writer.
DatabaseIsWhole ==
    /\ DOMAIN table \subseteq Tables
    /\ \A x \in DOMAIN table : table[x].refs \subseteq Parents(x) \cap DOMAIN table
    /\ \A r \in Requests : \A x \in DOMAIN writes[r] : Unlocked(r, x)
    /\ \A r \in Requests : req[r] = Idle => writes[r] = NoWrites
=============================================================================
