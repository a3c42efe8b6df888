------------------------------ MODULE Orm_proof ------------------------------
(***************************************************************************)
(* Transactions are all or nothing, and a migration does what it is to do, *)
(* for any table, struct and number of statements.                         *)
(*                                                                         *)
(* What is on the disk is what was there before until the deferred         *)
(* function runs (TxInv), which commits what the function had done when it *)
(* ended (EndInv), or nothing; MigrationInv says what a migration has done *)
(* so far, at each of its statements.                                      *)
(***************************************************************************)
EXTENDS Orm, TLAPS

Migrating == MigrateStates \cup {"hasTable"}

\* Which job is where, and that an operation in progress is one of the four.
JobInv ==
    /\ stmts \in Nat
    /\ pc = "idle" => /\ job = "session" /\ ~self /\ tx = "none"
                      /\ disk = before /\ work = before
    /\ pc \in Migrating => job = "migration"
    /\ pc = "deferred" => job # "session"
    /\ pc \in HookStates \cup {"exec"} => call.kind \in Kinds
    /\ job = "migration" =>
          ~self /\ pc \in Migrating \cup {"deferred", "returned"}

\* The clauses were collected since the last statement.
ClauseInv == clause.where # None => clause.at = stmts

\* Until the deferred function runs the transaction is open, unless the user's
\* function has ended it, and the disk is as it was.
TxInv ==
    job # "session" /\ ~self /\ pc # "returned" => tx = "open" /\ disk = before

\* What the deferred function finds.
EndInv ==
    pc = "deferred" =>
        last = work /\ exit \in {"value", "error", "panic", "goexit"}

\* Tables that are there at the start have no cells but those of their columns.
BeforeInv ==
    /\ before \in [table : Tables, tmp : Tables]
    /\ before.table.cells \subseteq Rows \X before.table.cols

\* What a migration is to have done in the end ...
IsMigrated(db) ==
    /\ db.table.cols = Fields
    /\ db.table.rows = before.table.rows
    /\ db.table.cells = before.table.cells \cap (Rows \X Fields)
    /\ db.tmp = before.tmp

\* ... what it has changed while it adds columns ...
Widened(db) ==
    /\ db = [before EXCEPT !.table.cols = db.table.cols]
    /\ before.table.cols \subseteq db.table.cols
    /\ db.table.cols \subseteq before.table.cols \cup Fields

\* ... and the table it has copied.
Copied(db) ==
    /\ before.tmp = NoTable
    /\ db.tmp = [cols |-> Fields, rows |-> before.table.rows,
                 cells |-> before.table.cells \cap (Rows \X Fields)]

MigrationInv ==
    job = "migration" =>
        /\ pc \in {"hasTable", "create", "select"} => work = before
        /\ pc \in {"add", "copy"} => Widened(work)
        /\ pc \in {"drop", "rename"} => Copied(work)
        /\ pc = "deferred" /\ exit = "value" => IsMigrated(last)

\* How a Transaction that has returned has left the disk: also after
\* runtime.Goexit, when what was half done is committed.
OutcomeInv ==
    Returned /\ ~self =>
        disk = IF result \in {"error", "panic"} THEN before ELSE last

IInv ==
    /\ TypeOK /\ JobInv /\ ClauseInv /\ TxInv /\ EndInv /\ BeforeInv
    /\ MigrationInv /\ OutcomeInv /\ Migrated

-----------------------------------------------------------------------------
(* Databases, and what a statement makes of one *)

DBs == [table : Tables, tmp : Tables]

LEMMA ViewTyped == TypeOK => View \in DBs
BY DEF TypeOK, View, DBs

LEMMA ChangedTyped ==
  ASSUME TypeOK, NEW rows \in SUBSET Rows, NEW cells \in SUBSET (Rows \X Cols)
  PROVE  Changed(rows, cells) \in DBs
BY ViewTyped DEF Changed, DBs, Tables

LEMMA EffectTyped ==
  ASSUME TypeOK, NEW kind \in Kinds
  PROVE  Effect(kind) \in DBs
<1>1. View \in DBs
  BY ViewTyped
<1> DEFINE t == View.table
<1>2. t.cols \in SUBSET Cols /\ t.rows \in SUBSET Rows
      /\ t.cells \in SUBSET (Rows \X Cols)
  BY <1>1 DEF DBs, Tables
<1>3. Matching \in SUBSET Rows
  BY <1>2 DEF Matching
<1>4. t.cells \cup (Rows \ t.rows) \X t.cols \in SUBSET (Rows \X Cols)
  BY <1>2
<1>5. t.cells \ Matching \X t.cols \in SUBSET (Rows \X Cols)
  BY <1>2
<1>6. CASE kind = "insert"
  BY <1>4, <1>6, ChangedTyped DEF Effect
<1>7. CASE kind = "update"
  BY <1>2, <1>5, <1>7, ChangedTyped DEF Effect
<1>8. CASE kind = "delete"
  BY <1>2, <1>3, <1>5, <1>8, ChangedTyped DEF Effect
<1>9. CASE kind = "find"
  BY <1>1, <1>9 DEF Effect
<1> QED  BY <1>6, <1>7, <1>8, <1>9 DEF Kinds

-----------------------------------------------------------------------------
(* Sessions and transactions: each step keeps each part of the invariant *)

LEMMA WhereKeeps ==
  ASSUME NEW r \in Rows, IInv, Where(r)
  PROVE  IInv'
<1>1. /\ TypeOK /\ JobInv /\ ClauseInv /\ TxInv /\ EndInv /\ BeforeInv
      /\ MigrationInv /\ OutcomeInv /\ Migrated
  BY DEF IInv
<1>2. TypeOK'
  BY <1>1, NoneAssumption DEF Where, TypeOK, JobInv, Returned
<1>3. JobInv' /\ ClauseInv'
  BY <1>1 DEF Where, JobInv, ClauseInv, historyVars
<1>4. TxInv' /\ EndInv' /\ BeforeInv'
  BY <1>1 DEF Where, TxInv, EndInv, BeforeInv, historyVars
<1>5. MigrationInv'
  BY <1>1 DEF Where, MigrationInv, Widened, Copied, IsMigrated, historyVars
<1>6. OutcomeInv' /\ Migrated'
  BY <1>1 DEF Where, OutcomeInv, Migrated, Returned, historyVars
<1> QED  BY <1>1, <1>2, <1>3, <1>4, <1>5, <1>6 DEF IInv

LEMMA CallKeeps ==
  ASSUME NEW kind \in Kinds, IInv, Call(kind)
  PROVE  IInv'
<1>1. /\ TypeOK /\ JobInv /\ ClauseInv /\ TxInv /\ EndInv /\ BeforeInv
      /\ MigrationInv /\ OutcomeInv /\ Migrated
  BY DEF IInv
<1>2. TypeOK'
  BY <1>1, NoneAssumption
     DEF Call, Goto, TypeOK, sessionVars, HookStates, Returned
<1>3. JobInv' /\ ClauseInv'
  BY <1>1
     DEF Call, Goto, JobInv, ClauseInv, sessionVars, MigrateStates, Migrating
<1>4. TxInv' /\ EndInv' /\ BeforeInv'
  BY <1>1 DEF Call, Goto, TxInv, EndInv, BeforeInv, sessionVars, historyVars
<1>5. MigrationInv'
  BY <1>1 DEF Call, Goto, MigrationInv
<1>6. OutcomeInv' /\ Migrated'
  BY <1>1 DEF Call, Goto, OutcomeInv, Migrated, Returned
<1> QED  BY <1>1, <1>2, <1>3, <1>4, <1>5, <1>6 DEF IInv

LEMMA HookReturnsKeeps ==
  ASSUME IInv, HookReturns
  PROVE  IInv'
<1>1. /\ TypeOK /\ JobInv /\ ClauseInv /\ TxInv /\ EndInv /\ BeforeInv
      /\ MigrationInv /\ OutcomeInv /\ Migrated
  BY DEF IInv
<1>2. TypeOK'
  BY <1>1, NoneAssumption
     DEF HookReturns, AfterHook, TypeOK, sessionVars, Returned
<1>3. JobInv' /\ ClauseInv'
  BY <1>1
     DEF HookReturns, AfterHook, JobInv, ClauseInv, sessionVars, HookStates,
         MigrateStates, Migrating
<1>4. TxInv' /\ EndInv' /\ BeforeInv'
  BY <1>1
     DEF HookReturns, AfterHook, TxInv, EndInv, BeforeInv, sessionVars,
         historyVars, HookStates
<1>5. MigrationInv'
  BY <1>1 DEF HookReturns, AfterHook, MigrationInv
<1>6. OutcomeInv' /\ Migrated'
  BY <1>1 DEF HookReturns, AfterHook, OutcomeInv, Migrated, Returned
<1> QED  BY <1>1, <1>2, <1>3, <1>4, <1>5, <1>6 DEF IInv

LEMMA HookPanicsKeeps ==
  ASSUME IInv, HookPanics
  PROVE  IInv'
<1>1. /\ TypeOK /\ JobInv /\ ClauseInv /\ TxInv /\ EndInv /\ BeforeInv
      /\ MigrationInv /\ OutcomeInv /\ Migrated
  BY DEF IInv
<1>2. TypeOK'
  BY <1>1, NoneAssumption
     DEF HookPanics, TypeOK, sessionVars, Returned
<1>3. JobInv' /\ ClauseInv'
  BY <1>1
     DEF HookPanics, JobInv, ClauseInv, sessionVars, HookStates,
         MigrateStates, Migrating
<1>4. TxInv' /\ EndInv' /\ BeforeInv'
  BY <1>1
     DEF HookPanics, TxInv, EndInv, BeforeInv, sessionVars,
         historyVars, HookStates
<1>5. MigrationInv'
  BY <1>1 DEF HookPanics, MigrationInv
<1>6. OutcomeInv' /\ Migrated'
  BY <1>1 DEF HookPanics, OutcomeInv, Migrated, Returned
<1> QED  BY <1>1, <1>2, <1>3, <1>4, <1>5, <1>6 DEF IInv

LEMMA StartSessionKeeps ==
  ASSUME IInv, StartSession
  PROVE  IInv'
<1>1. /\ TypeOK /\ JobInv /\ ClauseInv /\ TxInv /\ EndInv /\ BeforeInv
      /\ MigrationInv /\ OutcomeInv /\ Migrated
  BY DEF IInv
<1>2. TypeOK'
  BY <1>1, NoneAssumption DEF StartSession, Goto, TypeOK, sessionVars, Returned
<1>3. JobInv' /\ ClauseInv'
  BY <1>1
     DEF StartSession, Goto, JobInv, ClauseInv, sessionVars, HookStates,
         MigrateStates, Migrating
<1>4. TxInv' /\ EndInv' /\ BeforeInv'
  BY <1>1 DEF StartSession, Goto, JobInv, TxInv, EndInv, BeforeInv, historyVars
<1>5. MigrationInv'
  BY <1>1 DEF StartSession, Goto, MigrationInv
<1>6. OutcomeInv' /\ Migrated'
  BY <1>1 DEF StartSession, Goto, OutcomeInv, Migrated, Returned
<1> QED  BY <1>1, <1>2, <1>3, <1>4, <1>5, <1>6 DEF IInv

LEMMA CallPlainKeeps ==
  ASSUME IInv, CallPlain
  PROVE  IInv'
<1>1. /\ TypeOK /\ JobInv /\ ClauseInv /\ TxInv /\ EndInv /\ BeforeInv
      /\ MigrationInv /\ OutcomeInv /\ Migrated
  BY DEF IInv
<1>2. TypeOK'
  BY <1>1, NoneAssumption
     DEF CallPlain, Succeeds, Fails, Executed, Cleared, View, TypeOK, JobInv,
         Returned, NoClause
<1>3. JobInv' /\ ClauseInv'
  BY <1>1
     DEF CallPlain, Succeeds, Fails, Executed, Cleared, JobInv, ClauseInv,
         NoClause
<1>4. TxInv' /\ EndInv' /\ BeforeInv'
  BY <1>1
     DEF CallPlain, Succeeds, Fails, Executed, TxInv, EndInv, BeforeInv,
         historyVars
<1>5. MigrationInv'
  BY <1>1 DEF CallPlain, MigrationInv
<1>6. OutcomeInv' /\ Migrated'
  BY <1>1 DEF CallPlain, OutcomeInv, Migrated, Returned
<1> QED  BY <1>1, <1>2, <1>3, <1>4, <1>5, <1>6 DEF IInv

LEMMA HookExecutesKeeps ==
  ASSUME IInv, HookExecutes
  PROVE  IInv'
<1>1. /\ TypeOK /\ JobInv /\ ClauseInv /\ TxInv /\ EndInv /\ BeforeInv
      /\ MigrationInv /\ OutcomeInv /\ Migrated
  BY DEF IInv
<1>2. TypeOK'
  BY <1>1, NoneAssumption
     DEF HookExecutes, Succeeds, Fails, Executed, Cleared, View, AfterHook,
         TypeOK, JobInv, Returned, NoClause
<1>3. JobInv' /\ ClauseInv'
  BY <1>1
     DEF HookExecutes, Succeeds, Fails, Executed, Cleared, AfterHook, JobInv,
         ClauseInv, HookStates, MigrateStates, Migrating, NoClause
<1>4. TxInv' /\ EndInv' /\ BeforeInv'
  BY <1>1
     DEF HookExecutes, Succeeds, Fails, Executed, AfterHook, TxInv, EndInv,
         BeforeInv, historyVars, HookStates
<1>5. MigrationInv'
  BY <1>1 DEF HookExecutes, AfterHook, MigrationInv
<1>6. OutcomeInv' /\ Migrated'
  BY <1>1 DEF HookExecutes, AfterHook, OutcomeInv, Migrated, Returned
<1> QED  BY <1>1, <1>2, <1>3, <1>4, <1>5, <1>6 DEF IInv

LEMMA UserBeginsKeeps ==
  ASSUME IInv, UserBegins
  PROVE  IInv'
<1>1. /\ TypeOK /\ JobInv /\ ClauseInv /\ TxInv /\ EndInv /\ BeforeInv
      /\ MigrationInv /\ OutcomeInv /\ Migrated
  BY DEF IInv
<1>2. TypeOK'
  BY <1>1, NoneAssumption DEF UserBegins, Open, TypeOK, Returned
<1>3. JobInv' /\ ClauseInv'
  BY <1>1 DEF UserBegins, Open, JobInv, ClauseInv
<1>4. TxInv' /\ EndInv' /\ BeforeInv'
  BY <1>1 DEF UserBegins, TxInv, EndInv, BeforeInv, historyVars
<1>5. MigrationInv'
  BY <1>1 DEF UserBegins, MigrationInv
<1>6. OutcomeInv' /\ Migrated'
  BY <1>1 DEF UserBegins, OutcomeInv, Migrated, Returned
<1> QED  BY <1>1, <1>2, <1>3, <1>4, <1>5, <1>6 DEF IInv

LEMMA UserEndsKeeps ==
  ASSUME IInv, UserEnds
  PROVE  IInv'
<1>1. /\ TypeOK /\ JobInv /\ ClauseInv /\ TxInv /\ EndInv /\ BeforeInv
      /\ MigrationInv /\ OutcomeInv /\ Migrated
  BY DEF IInv
<1>2. TypeOK'
  BY <1>1, NoneAssumption DEF UserEnds, Commit, Rollback, TypeOK
<1>3. JobInv' /\ ClauseInv'
  BY <1>1
     DEF UserEnds, Commit, Rollback, JobInv, ClauseInv, MigrateStates,
         Migrating
<1>4. TxInv' /\ EndInv' /\ BeforeInv'
  BY <1>1 DEF UserEnds, TxInv, EndInv, BeforeInv, historyVars
<1>5. MigrationInv'
  BY <1>1 DEF UserEnds, MigrationInv
<1>6. OutcomeInv' /\ Migrated'
  BY <1>1 DEF UserEnds, OutcomeInv, Migrated, Returned
<1> QED  BY <1>1, <1>2, <1>3, <1>4, <1>5, <1>6 DEF IInv

LEMMA StartTransactionKeeps ==
  ASSUME IInv, StartTransaction
  PROVE  IInv'
<1>1. /\ TypeOK /\ JobInv /\ ClauseInv /\ TxInv /\ EndInv /\ BeforeInv
      /\ MigrationInv /\ OutcomeInv /\ Migrated
  BY DEF IInv
<1>2. TypeOK'
  BY <1>1, NoneAssumption DEF StartTransaction, Goto, Open, TypeOK, Returned
<1>3. JobInv' /\ ClauseInv'
  BY <1>1
     DEF StartTransaction, Goto, Open, JobInv, ClauseInv, HookStates,
         MigrateStates, Migrating
<1>4. TxInv' /\ EndInv' /\ BeforeInv'
  BY <1>1
     DEF StartTransaction, Goto, Open, JobInv, TxInv, EndInv, BeforeInv,
         historyVars
<1>5. MigrationInv'
  BY <1>1 DEF StartTransaction, Goto, Open, JobInv, MigrationInv, historyVars
<1>6. OutcomeInv' /\ Migrated'
  BY <1>1 DEF StartTransaction, Goto, OutcomeInv, Migrated, Returned
<1> QED  BY <1>1, <1>2, <1>3, <1>4, <1>5, <1>6 DEF IInv

LEMMA BeginFailsKeeps ==
  ASSUME IInv, BeginFails
  PROVE  IInv'
<1>1. /\ TypeOK /\ JobInv /\ ClauseInv /\ TxInv /\ EndInv /\ BeforeInv
      /\ MigrationInv /\ OutcomeInv /\ Migrated
  BY DEF IInv
<1>2. TypeOK'
  BY <1>1, NoneAssumption
     DEF BeginFails, Goto, TypeOK, JobInv, sessionVars, Outcomes, Returned
<1>3. JobInv' /\ ClauseInv'
  BY <1>1
     DEF BeginFails, Goto, JobInv, ClauseInv, sessionVars, HookStates,
         MigrateStates, Migrating
<1>4. TxInv' /\ EndInv' /\ BeforeInv'
  BY <1>1 DEF BeginFails, Goto, TxInv, EndInv, BeforeInv, historyVars
<1>5. MigrationInv'
  BY <1>1 DEF BeginFails, Goto, MigrationInv
<1>6. OutcomeInv' /\ Migrated'
  BY <1>1 DEF BeginFails, Goto, JobInv, OutcomeInv, Migrated, Returned
<1> QED  BY <1>1, <1>2, <1>3, <1>4, <1>5, <1>6 DEF IInv

LEMMA UserExitsKeeps ==
  ASSUME NEW how \in {"value", "error", "panic", "goexit"}, IInv, UserExits(how)
  PROVE  IInv'
<1>1. /\ TypeOK /\ JobInv /\ ClauseInv /\ TxInv /\ EndInv /\ BeforeInv
      /\ MigrationInv /\ OutcomeInv /\ Migrated
  BY DEF IInv
<1>2. TypeOK'
  BY <1>1, NoneAssumption
     DEF UserExits, Exits, TypeOK, sessionVars, Outcomes, Returned
<1>3. JobInv' /\ ClauseInv'
  BY <1>1
     DEF UserExits, Exits, JobInv, ClauseInv, sessionVars, HookStates,
         MigrateStates, Migrating
<1>4. TxInv' /\ EndInv' /\ BeforeInv'
  BY <1>1
     DEF UserExits, Exits, TxInv, EndInv, BeforeInv, sessionVars, HookStates
<1>5. MigrationInv'
  BY <1>1 DEF UserExits, Exits, JobInv, MigrationInv, MigrateStates, Migrating
<1>6. OutcomeInv' /\ Migrated'
  BY <1>1 DEF UserExits, Exits, OutcomeInv, Migrated, Returned
<1> QED  BY <1>1, <1>2, <1>3, <1>4, <1>5, <1>6 DEF IInv

LEMMA DeferredKeeps ==
  ASSUME IInv, Deferred
  PROVE  IInv'
<1>1. /\ TypeOK /\ JobInv /\ ClauseInv /\ TxInv /\ EndInv /\ BeforeInv
      /\ MigrationInv /\ OutcomeInv /\ Migrated
  BY DEF IInv
<1>2. TypeOK'
  BY <1>1, NoneAssumption
     DEF Deferred, Goto, Commit, Rollback, Ended, TypeOK, Outcomes
<1>3. JobInv' /\ ClauseInv'
  BY <1>1
     DEF Deferred, Goto, Commit, Rollback, Ended, JobInv, ClauseInv,
         HookStates, MigrateStates, Migrating
<1>4. TxInv' /\ EndInv' /\ BeforeInv'
  BY <1>1 DEF Deferred, Goto, TxInv, EndInv, BeforeInv, historyVars
<1>5. MigrationInv'
  BY <1>1 DEF Deferred, Goto, MigrationInv
<1>6. OutcomeInv' /\ Migrated'
  BY <1>1
     DEF Deferred, Goto, Commit, Rollback, Unwanted, Ended, JobInv, TxInv,
         EndInv, MigrationInv, OutcomeInv, Migrated, IsMigrated, historyVars
<1> QED  BY <1>1, <1>2, <1>3, <1>4, <1>5, <1>6 DEF IInv

\* The statement of an operation: it is in no migration, and leaves the disk
\* alone while a transaction is open.
LEMMA ExecuteKeeps ==
  ASSUME IInv, Execute
  PROVE  IInv'
<1>1. /\ TypeOK /\ JobInv /\ ClauseInv /\ TxInv /\ EndInv /\ BeforeInv
      /\ MigrationInv /\ OutcomeInv /\ Migrated
  BY DEF IInv
<1>2. pc = "exec" /\ pc' \in {"after", "user"} /\ job # "migration"
  BY <1>1 DEF Execute, Goto, JobInv, Migrating, MigrateStates
<1>3. /\ disk' \in DBs /\ work' \in DBs
      /\ tx' = tx /\ clause' = NoClause /\ stmts' = stmts + 1
      /\ tx = "open" => disk' = disk
      /\ UNCHANGED <<call, job, self, exit, result, historyVars>>
  <2>1. CASE Fails
    BY <1>1, <2>1 DEF Execute, Fails, Executed, Cleared, TypeOK, DBs
  <2>2. CASE View.table # NoTable /\ Succeeds(Effect(call.kind))
    <3>1. call.kind \in Kinds
      BY <1>1, <1>2 DEF JobInv
    <3> QED  BY <1>1, <2>2, <3>1, EffectTyped
             DEF Execute, Succeeds, Executed, Cleared, TypeOK, DBs
  <2> QED  BY <2>1, <2>2 DEF Execute
<1>4. TypeOK'
  BY <1>1, <1>2, <1>3, NoneAssumption
     DEF TypeOK, JobInv, HookStates, DBs, NoClause, Returned
<1>5. JobInv' /\ ClauseInv'
  BY <1>1, <1>2, <1>3
     DEF JobInv, ClauseInv, Migrating, MigrateStates, NoClause
<1>6. TxInv' /\ EndInv' /\ BeforeInv'
  BY <1>1, <1>2, <1>3 DEF TxInv, EndInv, BeforeInv, historyVars
<1>7. MigrationInv' /\ OutcomeInv' /\ Migrated'
  BY <1>1, <1>2, <1>3
     DEF MigrationInv, OutcomeInv, Migrated, Returned
<1> QED  BY <1>1, <1>4, <1>5, <1>6, <1>7 DEF IInv

-----------------------------------------------------------------------------
(* Migrate *)

LEMMA HasTableKeeps ==
  ASSUME IInv, HasTable
  PROVE  IInv'
<1>1. /\ TypeOK /\ JobInv /\ ClauseInv /\ TxInv /\ EndInv /\ BeforeInv
      /\ MigrationInv /\ OutcomeInv /\ Migrated
  BY DEF IInv
<1>2. TypeOK'
  BY <1>1, NoneAssumption
     DEF HasTable, Goto, Succeeds, Fails, Executed, Cleared, View, TypeOK,
         JobInv, MigrateStates, Returned, NoClause
<1>3. JobInv' /\ ClauseInv'
  BY <1>1
     DEF HasTable, Goto, Succeeds, Fails, Executed, Cleared, JobInv,
         ClauseInv, HookStates, MigrateStates, Migrating, NoClause
<1>4. TxInv' /\ EndInv' /\ BeforeInv'
  BY <1>1
     DEF HasTable, Goto, Succeeds, Fails, Executed, TxInv, EndInv, BeforeInv,
         historyVars
<1>5. MigrationInv'
  BY <1>1 DEF HasTable, Goto, Succeeds, Fails, View, MigrationInv, historyVars
<1>6. OutcomeInv' /\ Migrated'
  BY <1>1 DEF HasTable, Goto, OutcomeInv, Migrated, Returned
<1> QED  BY <1>1, <1>2, <1>3, <1>4, <1>5, <1>6 DEF IInv

LEMMA MigrateFailsKeeps ==
  ASSUME IInv, MigrateFails
  PROVE  IInv'
<1>1. /\ TypeOK /\ JobInv /\ ClauseInv /\ TxInv /\ EndInv /\ BeforeInv
      /\ MigrationInv /\ OutcomeInv /\ Migrated
  BY DEF IInv
<1>2. TypeOK'
  BY <1>1, NoneAssumption
     DEF MigrateFails, Fails, Exits, Executed, Cleared, TypeOK, JobInv,
         Outcomes, Returned, NoClause
<1>3. JobInv' /\ ClauseInv'
  BY <1>1
     DEF MigrateFails, Fails, Exits, Executed, Cleared, JobInv, ClauseInv,
         HookStates, Migrating, NoClause
<1>4. TxInv' /\ EndInv' /\ BeforeInv'
  BY <1>1
     DEF MigrateFails, Fails, Exits, Executed, TxInv, EndInv, BeforeInv,
         MigrateStates
<1>5. MigrationInv'
  BY <1>1 DEF MigrateFails, Exits, MigrationInv
<1>6. OutcomeInv' /\ Migrated'
  BY <1>1 DEF MigrateFails, Exits, OutcomeInv, Migrated, Returned
<1> QED  BY <1>1, <1>2, <1>3, <1>4, <1>5, <1>6 DEF IInv

\* A migration works in its transaction.
LEMMA MigrationView ==
  ASSUME IInv, pc \in Migrating
  PROVE  /\ job = "migration" /\ ~self /\ tx = "open" /\ disk = before
         /\ View = work /\ work \in DBs
BY DEF IInv, JobInv, TxInv, View, TypeOK, DBs, Migrating, MigrateStates

\* A statement of Migrate that leaves what the next one needs.
LEMMA GoesKeeps ==
  ASSUME IInv, NEW a \in Migrating, NEW db \in DBs,
         NEW b \in {"add", "copy", "drop", "rename", "end"},
         Goes(a, db, b),
         b \in {"add", "copy"} => Widened(db),
         b \in {"drop", "rename"} => Copied(db),
         b = "end" => IsMigrated(db)
  PROVE  IInv'
<1>1. /\ TypeOK /\ JobInv /\ ClauseInv /\ TxInv /\ EndInv /\ BeforeInv
      /\ MigrationInv /\ OutcomeInv /\ Migrated
  BY DEF IInv
<1>2. job = "migration" /\ ~self /\ tx = "open" /\ disk = before
  BY MigrationView DEF Goes
<1>3. /\ work' = db /\ disk' = disk /\ tx' = tx
      /\ clause' = NoClause /\ stmts' = stmts + 1
      /\ UNCHANGED <<call, job, self, result, before>>
  BY <1>2 DEF Goes, Succeeds, Executed, Cleared, Exits, historyVars
<1>4. \/ pc' = "deferred" /\ exit' = "value" /\ last' = work' /\ b = "end"
      \/ pc' = b /\ b # "end" /\ UNCHANGED <<exit, last>>
  BY <1>2 DEF Goes, Exits, historyVars
<1>5. TypeOK'
  BY <1>1, <1>3, <1>4, NoneAssumption
     DEF TypeOK, JobInv, MigrateStates, Outcomes, DBs, NoClause, Returned
<1>6. JobInv' /\ ClauseInv'
  BY <1>1, <1>2, <1>3, <1>4
     DEF JobInv, ClauseInv, Migrating, MigrateStates, HookStates, NoClause
<1>7. TxInv' /\ EndInv' /\ BeforeInv'
  BY <1>1, <1>2, <1>3, <1>4 DEF TxInv, EndInv, BeforeInv
<1>8. MigrationInv'
  BY <1>2, <1>3, <1>4 DEF MigrationInv, Widened, Copied, IsMigrated
<1>9. OutcomeInv' /\ Migrated'
  BY <1>2, <1>4 DEF OutcomeInv, Migrated, Returned
<1> QED  BY <1>5, <1>6, <1>7, <1>8, <1>9 DEF IInv

LEMMA CreateTableKeeps ==
  ASSUME IInv, CreateTable
  PROVE  IInv'
<1> DEFINE db == [View EXCEPT !.table = [NoTable EXCEPT !.cols = Fields]]
<1>1. pc = "create" /\ "create" \in Migrating /\ Goes("create", db, "end")
  BY DEF CreateTable, Goes, Migrating, MigrateStates
<1>2. View = before /\ View \in DBs
  BY <1>1, MigrationView DEF IInv, MigrationInv
<1>3. db \in DBs
  BY <1>2, FieldsAssumption DEF DBs, Tables, NoTable
<1>4. IsMigrated(db)
  BY <1>2 DEF IsMigrated, CreateTable, NoTable
<1> QED  BY <1>1, <1>3, <1>4, GoesKeeps

LEMMA RestIs ==
  ASSUME NEW db \in DBs
  PROVE  /\ Rest(db) \in {"add", "copy", "end"}
         /\ Rest(db) = "end" => db.table.cols = Fields
BY DEF Rest, AddCols, DelCols

\* When there is no column to add and none to drop the migration is done.
LEMMA WidenedIsMigrated ==
  ASSUME BeforeInv, NEW db \in DBs, Widened(db), db.table.cols = Fields
  PROVE  IsMigrated(db)
<1>1. /\ db.table.rows = before.table.rows /\ db.tmp = before.tmp
      /\ db.table.cells = before.table.cells
  BY DEF Widened, DBs, Tables
<1>2. before.table.cells \subseteq Rows \X Fields
  BY DEF BeforeInv, Widened
<1> QED  BY <1>1, <1>2 DEF IsMigrated

LEMMA SelectColumnsKeeps ==
  ASSUME IInv, SelectColumns
  PROVE  IInv'
<1>1. /\ pc = "select" /\ "select" \in Migrating
      /\ Goes("select", View, Rest(View))
  BY DEF SelectColumns, Goes, Migrating, MigrateStates
<1>2. View = before /\ View \in DBs /\ BeforeInv
  BY <1>1, MigrationView DEF IInv, MigrationInv
<1>3. Widened(View)
  BY <1>2 DEF Widened, DBs, Tables
<1> QED  BY <1>1, <1>2, <1>3, RestIs, WidenedIsMigrated, GoesKeeps

LEMMA AddColumnKeeps ==
  ASSUME IInv, NEW col \in Cols, AddColumn(col)
  PROVE  IInv'
<1> DEFINE db == [View EXCEPT !.table.cols = @ \cup {col}]
<1>1. pc = "add" /\ "add" \in Migrating /\ Goes("add", db, Rest(db))
      /\ col \in AddCols(View)
  BY DEF AddColumn, Goes, Migrating, MigrateStates
<1>2. View = work /\ View \in DBs /\ BeforeInv /\ Widened(View)
  BY <1>1, MigrationView DEF IInv, MigrationInv
<1>3. db \in DBs /\ db.table.cols = View.table.cols \cup {col}
  BY <1>2 DEF DBs, Tables
<1>4. Widened(db)
  <2>1. /\ View = [before EXCEPT !.table.cols = View.table.cols]
        /\ before.table.cols \subseteq View.table.cols
        /\ View.table.cols \subseteq before.table.cols \cup Fields
    BY <1>2 DEF Widened
  <2>2. before \in DBs
    BY <1>2 DEF BeforeInv, DBs
  <2> HIDE DEF db
  <2>3. db = [before EXCEPT !.table.cols = db.table.cols]
    <3> DEFINE e == [before EXCEPT !.table.cols = db.table.cols]
    <3>1. db.tmp = before.tmp /\ e.tmp = before.tmp
      BY <1>2, <2>1, <2>2 DEF db, DBs
    <3>2. /\ db.table = [before.table EXCEPT !.cols = db.table.cols]
          /\ e.table = [before.table EXCEPT !.cols = db.table.cols]
      BY <1>2, <1>3, <2>1, <2>2 DEF db, DBs
    <3>3. /\ db = [table |-> db.table, tmp |-> db.tmp]
          /\ e = [table |-> e.table, tmp |-> e.tmp]
      BY <1>3, <2>2 DEF DBs
    <3> QED  BY <3>1, <3>2, <3>3
  <2>4. /\ before.table.cols \subseteq db.table.cols
        /\ db.table.cols \subseteq before.table.cols \cup Fields
    BY <1>1, <1>3, <2>1 DEF AddCols
  <2> QED  BY <2>3, <2>4 DEF Widened
<1> HIDE DEF db
<1> QED  BY <1>1, <1>2, <1>3, <1>4, RestIs, WidenedIsMigrated, GoesKeeps

LEMMA CopyTableKeeps ==
  ASSUME IInv, CopyTable
  PROVE  IInv'
<1> DEFINE t == View.table
           db == [View EXCEPT !.tmp = [cols |-> Fields, rows |-> t.rows,
                      cells |-> t.cells \cap (Rows \X Fields)]]
<1>1. pc = "copy" /\ "copy" \in Migrating /\ Goes("copy", db, "drop")
      /\ View.tmp = NoTable
  BY DEF CopyTable, Goes, Migrating, MigrateStates
<1>2. View = work /\ View \in DBs /\ BeforeInv /\ Widened(View)
  BY <1>1, MigrationView DEF IInv, MigrationInv
<1>3. db \in DBs
  BY <1>2, FieldsAssumption DEF DBs, Tables
<1>4. /\ before.tmp = NoTable /\ t.rows = before.table.rows
      /\ t.cells = before.table.cells
  BY <1>1, <1>2 DEF Widened, DBs, Tables
<1>5. Copied(db)
  BY <1>2, <1>4 DEF Copied
<1> HIDE DEF db
<1> QED  BY <1>1, <1>3, <1>5, GoesKeeps

LEMMA DropTableKeeps ==
  ASSUME IInv, DropTable
  PROVE  IInv'
<1> DEFINE db == [View EXCEPT !.table = NoTable]
<1>1. pc = "drop" /\ "drop" \in Migrating /\ Goes("drop", db, "rename")
  BY DEF DropTable, Goes, Migrating, MigrateStates
<1>2. View = work /\ View \in DBs /\ Copied(View)
  BY <1>1, MigrationView DEF IInv, MigrationInv
<1>3. db \in DBs /\ Copied(db)
  BY <1>2 DEF DBs, Tables, NoTable, Copied
<1> HIDE DEF db
<1> QED  BY <1>1, <1>3, GoesKeeps

LEMMA RenameTableKeeps ==
  ASSUME IInv, RenameTable
  PROVE  IInv'
<1> DEFINE db == [table |-> View.tmp, tmp |-> NoTable]
<1>1. pc = "rename" /\ "rename" \in Migrating /\ Goes("rename", db, "end")
  BY DEF RenameTable, Goes, Migrating, MigrateStates
<1>2. View = work /\ View \in DBs /\ Copied(View)
  BY <1>1, MigrationView DEF IInv, MigrationInv
<1>3. db \in DBs /\ IsMigrated(db)
  BY <1>2 DEF DBs, Tables, NoTable, Copied, IsMigrated
<1> HIDE DEF db
<1> QED  BY <1>1, <1>3, GoesKeeps

-----------------------------------------------------------------------------
LEMMA DatabasesTyped ==
  ASSUME NEW db \in Databases
  PROVE  db \in DBs /\ db.table.cells \subseteq Rows \X db.table.cols
<1>1. NoTable \in Tables /\ NoTable.cells \subseteq Rows \X NoTable.cols
  BY DEF NoTable, Tables
<1>2. \A cs \in SUBSET Cols :
         Full(cs) \in Tables /\ Full(cs).cells \subseteq Rows \X Full(cs).cols
  <2> SUFFICES ASSUME NEW cs \in SUBSET Cols
               PROVE  /\ Full(cs) \in Tables
                      /\ Full(cs).cells \subseteq Rows \X Full(cs).cols
    OBVIOUS
  <2>1. Rows \X cs \in SUBSET (Rows \X Cols)
    OBVIOUS
  <2> QED  BY <2>1 DEF Full, Tables
<1> QED  BY <1>1, <1>2 DEF Databases, DBs

LEMMA InitHolds == Init => IInv
<1> SUFFICES ASSUME Init PROVE IInv
  OBVIOUS
<1>1. disk \in DBs /\ disk.table.cells \subseteq Rows \X disk.table.cols
  BY DatabasesTyped DEF Init
<1>2. TypeOK
  <2>1. disk \in DBs /\ work \in DBs
    BY <1>1 DEF Init
  <2>2. /\ tx \in {"none", "open", "done"}
        /\ clause \in [where : Rows \cup {None}, at : 0 .. stmts]
        /\ call \in [kind : Kinds \cup {"none"}, want : Rows \cup {None}]
    BY DEF Init, NoClause, NoCall
  <2>3. /\ pc = "idle" /\ job = "session" /\ self \in BOOLEAN
        /\ exit \in Outcomes /\ result \in Outcomes
    BY DEF Init, Outcomes
  <2> QED  BY <2>1, <2>2, <2>3 DEF TypeOK, DBs, Returned
<1>3. JobInv /\ ClauseInv /\ TxInv /\ EndInv
  BY DEF Init, JobInv, ClauseInv, TxInv, EndInv, NoClause, Migrating,
         MigrateStates, HookStates
<1>4. BeforeInv
  BY <1>1 DEF Init, BeforeInv, DBs
<1>5. MigrationInv /\ OutcomeInv /\ Migrated
  BY DEF Init, MigrationInv, OutcomeInv, Migrated
<1> QED  BY <1>2, <1>3, <1>4, <1>5 DEF IInv

LEMMA StutterKeeps == IInv /\ UNCHANGED vars => IInv'
<1> SUFFICES ASSUME IInv, UNCHANGED vars PROVE IInv'
  OBVIOUS
<1>1. TypeOK' /\ JobInv' /\ ClauseInv' /\ TxInv' /\ EndInv' /\ BeforeInv'
  BY DEF IInv, vars, TypeOK, JobInv, ClauseInv, TxInv, EndInv, BeforeInv,
         Returned
<1>2. MigrationInv' /\ OutcomeInv' /\ Migrated'
  BY DEF IInv, vars, MigrationInv, Widened, Copied, IsMigrated, OutcomeInv,
         Migrated, Returned
<1> QED  BY <1>1, <1>2 DEF IInv

LEMMA NextKeeps == IInv /\ [Next]_vars => IInv'
BY StutterKeeps, StartSessionKeeps, StartTransactionKeeps, BeginFailsKeeps,
   WhereKeeps, CallKeeps, CallPlainKeeps, HookReturnsKeeps, HookExecutesKeeps,
   HookPanicsKeeps,
   ExecuteKeeps, UserBeginsKeeps, UserEndsKeeps, DeferredKeeps, UserExitsKeeps,
   HasTableKeeps, CreateTableKeeps, SelectColumnsKeeps, AddColumnKeeps,
   CopyTableKeeps, DropTableKeeps, RenameTableKeeps, MigrateFailsKeeps
   DEF Next

LEMMA Invariance == Spec => []IInv
BY InitHolds, NextKeeps, PTL DEF Spec

-----------------------------------------------------------------------------
\* Every variable stays in its range, and a Transaction that has returned has
\* ended its transaction, whether its function returned, failed, panicked or
\* ended its goroutine.
THEOREM TypeCorrect == Spec => []TypeOK
<1>1. IInv => TypeOK
  BY DEF IInv
<1> QED  BY <1>1, Invariance, PTL

\* A Transaction that ends by a return or a panic is all or nothing, a failing
\* Commit and a panicking hook included, and nothing of it is seen before it
\* ends, for any number of rows, columns and statements.  Of runtime.Goexit it
\* says only the latter: the code then commits what was half done.
THEOREM Atomic == Spec => []AllOrNothing
<1>1. IInv => AllOrNothing
  BY DEF IInv, TxInv, OutcomeInv, Returned, AllOrNothing
<1> QED  BY <1>1, Invariance, PTL

\* A successful Migrate leaves the table with the columns of the struct, every
\* row with what it had in the columns that stay, and tmp_table as it was,
\* whatever the columns before and after.
THEOREM MigrationDone == Spec => []Migrated
<1>1. IInv => Migrated
  BY DEF IInv
<1> QED  BY <1>1, Invariance, PTL

\* No statement is built with a condition collected for an earlier one.
THEOREM NoLeftoverClause == Spec => []NoResidue
<1>1. IInv => NoResidue
  BY DEF IInv, ClauseInv, NoResidue
<1> QED  BY <1>1, Invariance, PTL
=============================================================================
