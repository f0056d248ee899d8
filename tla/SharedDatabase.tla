---------------------------- MODULE SharedDatabase ----------------------------
(***************************************************************************)
(* The ticket database as the processes that open it share it: one sqlite  *)
(* file in rollback-journal mode, one connection per process (store.py:49),*)
(* whose transactions Python's sqlite3 module begins before the first      *)
(* write and ends at the next commit of any thread of the process.         *)
(* sqlite and the module are external; what is modelled is which calls     *)
(* raise "database is locked", and what they leave behind: store.py never  *)
(* rolls back.                                                             *)
(***************************************************************************)
CONSTANT Procs

VARIABLES
    db,     \* the committed rows
    draft,  \* the rows as the process with uncommitted writes sees them
    lock    \* lock[p]: what the connection of p holds

dbVars == <<db, draft, lock>>

\* none: no transaction; begun: a transaction whose first write was refused;
\* shared: it has read since; reserved: it has written; pending: its commit was refused.
Locks == {"none", "begun", "shared", "reserved", "pending"}

Holds(p)  == lock[p] \in {"reserved", "pending"}
View(p)   == IF Holds(p) THEN draft ELSE db
Others(p) == Procs \ {p}

Readable(p)    == lock[p] \notin {"none", "begun"} \/ \A q \in Others(p) : lock[q] # "pending"
Writable(p)    == \A q \in Others(p) : ~Holds(q)
Committable(p) == \A q \in Others(p) : lock[q] # "shared"

\* A SELECT: outside a transaction its lock is gone when the row is fetched.
Reads(p) ==
    /\ Readable(p)
    /\ lock' = [lock EXCEPT ![p] = IF @ = "begun" THEN "shared" ELSE @]
    /\ UNCHANGED <<db, draft>>

ReadRefused(p) == ~Readable(p) /\ UNCHANGED dbVars

\* A write without its commit.
Executes(p, new) ==
    /\ Writable(p)
    /\ draft' = new
    /\ lock'  = [lock EXCEPT ![p] = IF @ = "pending" THEN @ ELSE "reserved"]
    /\ UNCHANGED db

\* A write and its commit, which publishes whatever the connection wrote before.
Puts(p, new) ==
    /\ Writable(p) /\ Committable(p)
    /\ db' = new /\ draft' = new
    /\ lock' = [lock EXCEPT ![p] = "none"]

\* The write, or the commit after it, waits five seconds and raises.
WriteRefused(p) ==
    /\ ~Writable(p)
    /\ lock' = [lock EXCEPT ![p] = IF @ = "none" THEN "begun" ELSE @]
    /\ UNCHANGED <<db, draft>>

CommitRefused(p, new) ==
    /\ Writable(p) /\ ~Committable(p)
    /\ draft' = new
    /\ lock'  = [lock EXCEPT ![p] = "pending"]
    /\ UNCHANGED db

PutRefused(p, new) == WriteRefused(p) \/ CommitRefused(p, new)

\* The process dies: its transaction is rolled back.
Dies(p) ==
    /\ draft' = IF Holds(p) THEN db ELSE draft
    /\ lock'  = [lock EXCEPT ![p] = "none"]
    /\ UNCHANGED db
===============================================================================
