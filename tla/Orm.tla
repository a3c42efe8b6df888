--------------------------------- MODULE Orm --------------------------------
(***************************************************************************)
(* gee-orm/day7-migrate: a Session collects clauses (session/record.go)    *)
(* and puts them into a statement, which clears them (session/raw.go);     *)
(* hooks (session/hooks.go) get the session in the middle of that.         *)
(* Engine.Transaction (geeorm.go) wraps a function that uses a session,    *)
(* and Engine.Migrate is such a function.                                  *)
(*                                                                         *)
(* The database is external: a statement changes what its transaction      *)
(* sees, or fails and changes nothing; Commit may fail, which rolls back.  *)
(* Of the rows only which cells are filled matters, of a condition the row *)
(* it selects.  The engine runs one job here.                              *)
(***************************************************************************)
EXTENDS Naturals, FiniteSets

CONSTANTS
    Rows,
    Cols,
    Fields,         \* of the struct whose table it is
    MaxStatements,  \* bound on the statements of a job
    None

ASSUME FieldsAssumption == Fields \subseteq Cols /\ Fields # {}
ASSUME NoneAssumption == None \notin Rows
ASSUME StatementsAssumption == MaxStatements \in Nat

VARIABLES
    disk,     \* the committed database: the table and tmp_table
    work,     \* what the open transaction sees
    tx,       \* session.tx: "none", "open", "done" (it is never reset)
    clause,   \* the WHERE collected, and how many statements were before it
    stmts,    \* history: statements this session has executed
    pc,       \* where the job is
    call,     \* the operation in progress and the WHERE its caller collected
    job,      \* a "session" of the user's own, a "transaction", a "migration"
    self,     \* history: the function has ended the transaction itself
    exit,     \* how the function ended: "value", "error", "panic", "goexit"
    result,   \* of Transaction: "value", "error", "panic", "goexit"
    before,   \* history: the database at the start
    last      \* history: what the function had done when it ended

sessionVars == <<tx, clause, stmts>>
historyVars == <<before, last>>
vars == <<disk, work, tx, clause, stmts, pc, call, job, self, exit, result,
          before, last>>

Tables == [cols : SUBSET Cols, rows : SUBSET Rows, cells : SUBSET (Rows \X Cols)]
NoTable == [cols |-> {}, rows |-> {}, cells |-> {}]
NoClause == [where |-> None, at |-> 0]
NoCall == [kind |-> "none", want |-> None]

Full(cols) == [cols |-> cols, rows |-> Rows, cells |-> Rows \X cols]
Databases == [table : {NoTable} \cup {Full(cs) : cs \in SUBSET Cols \ {{}}},
              tmp : {NoTable, Full(Cols)}]

Init ==
    /\ disk \in Databases
    /\ before = disk /\ work = disk /\ last = disk
    /\ tx = "none"
    /\ clause = NoClause
    /\ stmts = 0
    /\ pc = "idle"
    /\ call = NoCall
    /\ job = "session"
    /\ self = FALSE
    /\ exit = "none" /\ result = "none"

Goto(a, b) == pc = a /\ pc' = b

View == IF tx = "none" THEN disk ELSE work

-----------------------------------------------------------------------------
(* Exec, QueryRow and QueryRows *)

\* Clear, deferred: the clauses are gone whatever happens.
\* Mutant: an error skips it.
Cleared_OnSuccess(ok) == IF ok THEN NoClause ELSE clause
Cleared(ok) == NoClause

Executed(ok) ==
    /\ stmts' = stmts + 1
    /\ clause' = Cleared(ok)
    /\ UNCHANGED tx

\* In the transaction, or on the database itself, which commits at once.
Succeeds(db) ==
    /\ tx # "done"
    /\ Executed(TRUE)
    /\ IF tx = "open" THEN work' = db /\ UNCHANGED disk
                      ELSE disk' = db /\ UNCHANGED work

\* An error of the database; always, when the transaction is over.
Fails == Executed(FALSE) /\ UNCHANGED <<disk, work>>

-----------------------------------------------------------------------------
(* The operations of a session, as its user calls them *)

HookStates == {"before", "after"}

\* A hook may call it, too.
Where(r) ==
    /\ pc \in {"user"} \cup HookStates
    /\ clause' = [where |-> r, at |-> stmts]
    /\ UNCHANGED <<disk, work, tx, stmts, pc, call, job, self, exit, result,
                   historyVars>>

Kinds == {"insert", "update", "delete", "find"}

\* Insert, Update, Delete, and Find with First, up to their Before hook.
Call(kind) ==
    /\ stmts < MaxStatements
    /\ Goto("user", "before")
    /\ call' = [kind |-> kind, want |-> clause.where]
    /\ UNCHANGED <<disk, work, sessionVars, job, self, exit, result, historyVars>>

\* Count, and Raw with Exec: no hooks.
CallPlain ==
    /\ stmts < MaxStatements
    /\ pc = "user"
    /\ Succeeds(View) \/ Fails
    /\ UNCHANGED <<pc, call, job, self, exit, result, historyVars>>

AfterHook == IF pc = "before" THEN "exec" ELSE "user"

\* CallMethod: there is no hook, or it does nothing to the session; what it
\* returns is logged.
HookReturns ==
    /\ pc \in HookStates
    /\ pc' = AfterHook
    /\ UNCHANGED <<disk, work, sessionVars, call, job, self, exit, result,
                   historyVars>>

\* The hook executes a statement on its session, on another table.
HookExecutes ==
    /\ pc \in HookStates
    /\ stmts < MaxStatements
    /\ pc' = AfterHook
    /\ Succeeds(View) \/ Fails
    /\ UNCHANGED <<call, job, self, exit, result, historyVars>>

\* The hook panics, and the caller of the operation recovers: it keeps the
\* session, with what was collected in it.
HookPanics ==
    /\ pc \in HookStates
    /\ pc' = "user"
    /\ UNCHANGED <<disk, work, sessionVars, call, job, self, exit, result,
                   historyVars>>

\* Build: the WHERE, if there is one now, or every row.
Matching == {r \in View.table.rows : clause.where \in {None, r}}

Changed(rows, cells) ==
    [View EXCEPT !.table.rows = rows, !.table.cells = cells]

Effect(kind) ==
    LET t == View.table
    IN  CASE kind = "insert" -> Changed(Rows, t.cells \cup (Rows \ t.rows) \X t.cols)
          [] kind = "update" -> Changed(t.rows, t.cells \ Matching \X t.cols)
          [] kind = "delete" -> Changed(t.rows \ Matching,
                                        t.cells \ Matching \X t.cols)
          [] kind = "find"   -> View

\* The statement; the After hook follows unless there was an error.
Execute ==
    /\ \/ /\ View.table # NoTable
          /\ Goto("exec", "after")
          /\ Succeeds(Effect(call.kind))
       \/ Goto("exec", "user") /\ Fails
    /\ UNCHANGED <<call, job, self, exit, result, historyVars>>

-----------------------------------------------------------------------------
(* Transactions *)

Open == tx' = "open" /\ work' = disk /\ UNCHANGED <<clause, stmts>>

\* What has become of the transaction when Commit, or Rollback, was called.
Commit ==
    /\ tx' = "done"
    /\ (tx = "open" /\ disk' = work) \/ UNCHANGED disk
    /\ UNCHANGED <<work, clause, stmts>>

Rollback == tx' = "done" /\ UNCHANGED <<disk, work, clause, stmts>>

\* A session that its user begins; to begin another transaction in an open
\* one would need a second connection, and is left out.
UserBegins ==
    /\ pc = "user" /\ tx # "open"
    /\ Open
    /\ UNCHANGED <<disk, pc, call, job, self, exit, result, historyVars>>

UserEnds ==
    /\ pc = "user" /\ tx # "none"
    /\ Commit \/ Rollback
    /\ self' = TRUE
    /\ UNCHANGED <<pc, call, job, exit, result, historyVars>>

StartSession ==
    /\ Goto("idle", "user")
    /\ UNCHANGED <<disk, work, sessionVars, call, job, self, exit, result,
                   historyVars>>

\* Transaction up to f(s): f is the user's, or Migrate's.
StartTransaction ==
    /\ \/ Goto("idle", "user") /\ job' = "transaction"
       \/ Goto("idle", "hasTable") /\ job' = "migration"
    /\ Open
    /\ UNCHANGED <<disk, call, self, exit, result, historyVars>>

BeginFails ==
    /\ Goto("idle", "returned")
    /\ result' = "error"
    /\ UNCHANGED <<disk, work, sessionVars, call, job, self, exit, historyVars>>

Exits(how) ==
    /\ pc' = IF job = "session" THEN "returned" ELSE "deferred"
    /\ exit' = how
    /\ last' = work'
    /\ UNCHANGED <<call, job, self, result, before>>

\* f returns, panics (also because a hook did and f does not recover), or ends
\* its goroutine.
UserExits(how) ==
    /\ pc = "user" \/ (pc \in HookStates /\ how = "panic")
    /\ UNCHANGED <<disk, work, sessionVars>>
    /\ Exits(how)

\* Mutant: recover is missing, and a panic looks like success.
Unwanted_NoRecover == exit = "error"
Unwanted == exit \in {"error", "panic"}

\* Mutant: an error is returned without a Rollback.
Ended_Not == UNCHANGED <<disk, work, sessionVars>>
Ended == Rollback

\* The deferred function.  After runtime.Goexit recover() and err are nil.
Deferred ==
    /\ Goto("deferred", "returned")
    /\ \/ Unwanted /\ Ended /\ result' = exit
       \/ /\ ~Unwanted
          /\ Commit
          /\ result' = IF tx = "open" /\ disk' = work THEN exit ELSE "error"
    /\ UNCHANGED <<call, job, self, exit, historyVars>>

-----------------------------------------------------------------------------
(* Migrate *)

\* Mutant: the arguments of `difference` are swapped.
DelCols_Swapped(db) == Fields \ db.table.cols
DelCols(db) == db.table.cols \ Fields
AddCols(db) == Fields \ db.table.cols

\* HasTable; an error of the query is taken for "no".
HasTable ==
    /\ \/ View.table # NoTable /\ Succeeds(View) /\ Goto("hasTable", "select")
       \/ View.table = NoTable /\ Succeeds(View) /\ Goto("hasTable", "create")
       \/ Fails /\ Goto("hasTable", "create")
    /\ UNCHANGED <<call, job, self, exit, result, historyVars>>

\* A statement of Migrate succeeds, and the function goes on or returns nil ...
Goes(a, db, b) ==
    /\ pc = a
    /\ Succeeds(db)
    /\ IF b = "end" THEN Exits("value")
       ELSE pc' = b /\ UNCHANGED <<call, job, self, exit, result, historyVars>>

CreateTable ==
    /\ View.table = NoTable
    /\ Goes("create", [View EXCEPT !.table = [NoTable EXCEPT !.cols = Fields]], "end")

\* SELECT, Columns and Close; what to do follows from the columns.
Rest(db) ==
    IF AddCols(db) # {} THEN "add"
    ELSE IF DelCols(db) # {} THEN "copy" ELSE "end"

SelectColumns == Goes("select", View, Rest(View))

AddColumn(col) ==
    /\ col \in AddCols(View)
    /\ LET db == [View EXCEPT !.table.cols = @ \cup {col}]
       IN  Goes("add", db, Rest(db))

\* The three statements of one Exec.
CopyTable ==
    /\ View.tmp = NoTable
    /\ LET t == View.table
       IN  Goes("copy", [View EXCEPT !.tmp =
                 [cols |-> Fields, rows |-> t.rows,
                  cells |-> t.cells \cap (Rows \X Fields)]], "drop")

DropTable == Goes("drop", [View EXCEPT !.table = NoTable], "rename")

RenameTable == Goes("rename", [table |-> View.tmp, tmp |-> NoTable], "end")

MigrateStates == {"create", "select", "add", "copy", "drop", "rename"}

\* ... or it fails, and the function returns the error.
MigrateFails ==
    /\ pc \in MigrateStates
    /\ Fails
    /\ Exits("error")

-----------------------------------------------------------------------------
Next ==
    \/ StartSession \/ StartTransaction \/ BeginFails
    \/ \E r \in Rows : Where(r)
    \/ \E kind \in Kinds : Call(kind)
    \/ CallPlain \/ HookReturns \/ HookExecutes \/ HookPanics \/ Execute
    \/ UserBegins \/ UserEnds \/ Deferred
    \/ \E how \in {"value", "error", "panic", "goexit"} : UserExits(how)
    \/ HasTable \/ CreateTable \/ SelectColumns
    \/ \E col \in Cols : AddColumn(col)
    \/ CopyTable \/ DropTable \/ RenameTable \/ MigrateFails

Spec == Init /\ [][Next]_vars

-----------------------------------------------------------------------------
(* Properties *)

Outcomes == {"none", "value", "error", "panic", "goexit"}
Returned == job # "session" /\ pc = "returned"

\* Every variable stays in its range; a Transaction that has returned has
\* ended its transaction, on each way out of the function.
TypeOK ==
    /\ disk \in [table : Tables, tmp : Tables]
    /\ work \in [table : Tables, tmp : Tables]
    /\ tx \in {"none", "open", "done"}
    /\ clause \in [where : Rows \cup {None}, at : 0 .. stmts]
    /\ pc \in MigrateStates \cup HookStates
            \cup {"idle", "user", "exec", "hasTable", "deferred", "returned"}
    /\ call \in [kind : Kinds \cup {"none"}, want : Rows \cup {None}]
    /\ job \in {"session", "transaction", "migration"} /\ self \in BOOLEAN
    /\ exit \in Outcomes /\ result \in Outcomes
    /\ Returned => tx = "done"

\* A Transaction is all or nothing, unless its function ends the transaction by
\* itself.  Until it returns nobody else sees any of it.  When it returns an
\* error or panics (its function did, or a hook, or Commit failed) the database
\* is as before; when it returns nil, all is there that the function had done.
\* A function that ends its goroutine by runtime.Goexit is excepted: then
\* recover() and err are nil in the deferred function, which commits what was
\* half done (geeorm.go:72-74).
AllOrNothing ==
    job # "session" /\ ~self =>
        /\ pc # "returned" => disk = before
        /\ pc = "returned" /\ exit # "goexit" =>
              disk = IF result \in {"error", "panic"} THEN before ELSE last

\* A successful Migrate gives the table the columns of the struct and keeps
\* every row with what it had in the columns that stay; tmp_table is as it was.
Migrated ==
    Returned /\ job = "migration" /\ result = "value" =>
        /\ disk.table.cols = Fields
        /\ disk.table.rows = before.table.rows
        /\ disk.table.cells = before.table.cells \cap (Rows \X Fields)
        /\ disk.tmp = before.tmp

\* No statement is built with a condition that was collected before an earlier
\* statement of the session, whether that one succeeded, failed, was a hook's,
\* or was an Insert, which has none.  A call whose Before hook panics executes
\* no statement: if its caller recovers, its condition is still collected, and
\* the next statement of the session takes it.
NoResidue == pc = "exec" /\ clause.where # None => clause.at = stmts

\* What the docs say: what Where has collected is what Update and Delete
\* then work on; rows it does not select stay.
ChangesOnlyMatching ==
    [][pc = "exec" /\ call.kind \in {"update", "delete"} /\ call.want # None =>
         \A r \in Rows \ {call.want} :
             /\ r \in View.table.rows => r \in View'.table.rows
             /\ \A c \in Cols : <<r, c>> \in View.table.cells
                                  => <<r, c>> \in View'.table.cells]_vars
=============================================================================
