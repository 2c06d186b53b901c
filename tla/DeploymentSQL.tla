---------------------------- MODULE DeploymentSQL ----------------------------
(***************************************************************************)
(* deployment/sql_store.go: the directory of DeploymentStore kept in three *)
(* tables.  An operation is a transaction that reads the rows it depends   *)
(* on one statement at a time and makes its changes visible when it        *)
(* commits.  Two ways of isolating transactions are modelled:              *)
(*   "mysql"   SELECT ... FOR UPDATE holds the row until the transaction   *)
(*             ends; a plain SELECT sees what is committed when it runs;   *)
(*   "sqlite"  no row locks (the code leaves FOR UPDATE out); a            *)
(*             transaction whose snapshot another one has overwritten      *)
(*             cannot write.                                               *)
(* Any statement, and the commit, may fail: then the code rolls back.      *)
(* beginPlacementTx asks for serializable isolation, under which MySQL's   *)
(* plain SELECTs also lock what they read, wait, and may end in a deadlock *)
(* the database breaks by an error.  None of that is relied on: fewer      *)
(* locks allow more interleavings, and an error rolls back as any other.   *)
(* So the module says what committed transactions do, and nothing of who   *)
(* waits for whom.                                                         *)
(***************************************************************************)
EXTENDS DeploymentStore

CONSTANTS
    Sessions,    \* database sessions, one transaction each
    NoSession    \* the holder of a row that nobody has locked

ASSUME SessionsAssumption == NoSession \notin Sessions

VARIABLES
    dialect,         \* the store's SQLDialect
    tx,              \* session -> transaction, NoTx when it has none
    unitLock,        \* unit -> session that holds its row
    assignmentLock,  \* tenant -> session that holds its assignment row
    moveLock         \* tenant -> session that holds its move row

locks == <<unitLock, assignmentLock, moveLock>>
sqlVars == <<units, assignments, moves, dialect, tx, locks>>

\* The calls that pass validation, one record shape per operation.
UnitOps ==
    [kind : {"UpdateUnit"}, unit : Units, status : {"active", "disabled"}]
        \cup [kind : {"DisableUnit", "DeleteUnit"}, unit : Units]
AssignmentOps ==
    [kind : {"CreateAssignment"}, tenant : Tenants, updated : Assignment]
        \cup [kind : {"CompareAndSwapAssignment"}, tenant : Tenants,
              expected : Assignment, updated : Assignment]
CutoverOps ==
    {op \in [kind : {"CutoverMove"}, tenant : Tenants, expected : Assignment,
             move : Move, updated : Assignment] :
        /\ op.expected.unit = op.move.source
        /\ op.updated.unit = op.move.target
        /\ op.updated.version = op.expected.version + 1}

MoveOps == [kind : {"CreateMove", "DeleteMoveIfMatch"}, tenant : Tenants, move : Move]
Ops == UnitOps \cup AssignmentOps \cup CutoverOps \cup MoveOps

\* at: the next statement.  A transaction at "end" has nothing to write: a
\* check failed, or the directory already is as the call wants it.
Statements == {"unit", "assignments", "moves", "assignment", "move", "commit", "end"}
NoTx == [at |-> "idle"]
Tx == [op : Ops, at : Statements, stale : BOOLEAN]

SQLInit ==
    /\ Init
    /\ dialect \in {"mysql", "sqlite"}
    /\ tx = [s \in Sessions |-> NoTx]
    /\ unitLock = [u \in Units |-> NoSession]
    /\ assignmentLock = [t \in Tenants |-> NoSession]
    /\ moveLock = [t \in Tenants |-> NoSession]

-----------------------------------------------------------------------------
\* The unit row an operation locks.
UnitOf(op) ==
    CASE op.kind \in {"UpdateUnit", "DisableUnit", "DeleteUnit"} -> op.unit
      [] op.kind = "CreateMove" -> op.move.target
      [] OTHER -> op.updated.unit

\* The order of an operation's statements: the one that follows statement at.
\* A unit that the operation does not newly bind is not read.
After(op, at) ==
    CASE at = "begin" ->
           (CASE op.kind = "DeleteMoveIfMatch" -> "move"
              [] op.kind = "CompareAndSwapAssignment" /\ op.updated.unit = op.expected.unit -> "assignment"
              [] OTHER -> "unit")
      [] at = "unit" ->
           (CASE op.kind = "UpdateUnit" -> "commit"
              [] op.kind \in {"DisableUnit", "DeleteUnit"} -> "assignments"
              [] OTHER -> "assignment")
      [] at = "assignments" -> "moves"
      [] at = "assignment" /\ op.kind \in {"CutoverMove", "CreateMove"} -> "move"
      [] OTHER -> "commit"

\* What the unit row must hold for the operation to continue.
UnitFits(op) ==
    CASE op.kind = "UpdateUnit" -> units[UnitOf(op)] = op.status
      [] op.kind \in {"DisableUnit", "DeleteUnit"} -> units[UnitOf(op)] # "absent"
      [] OTHER -> units[UnitOf(op)] = "active"

\* Likewise for the assignment row; CreateAssignment inserts it.
AssignmentFits(op) ==
    CASE op.kind = "CreateAssignment" -> assignments[op.tenant] = NoAssignment
      [] op.kind = "CreateMove" -> assignments[op.tenant].unit = op.move.source
      [] OTHER -> assignments[op.tenant] = op.expected

\* Likewise for the move row; CreateMove inserts it.
MoveFits(op) ==
    CASE op.kind = "CreateMove" -> moves[op.tenant] = NoMove
      [] OTHER -> moves[op.tenant] = op.move

\* beginPlacementTx
Begin(s, op) ==
    /\ tx[s] = NoTx
    /\ tx' = [tx EXCEPT ![s] = [op |-> op, at |-> After(op, "begin"), stale |-> FALSE]]
    /\ UNCHANGED <<storeVars, dialect, locks>>

Open(s) == tx[s] # NoTx

\* A row is locked when it is read, by the databases that have row locks.
Free(lock, row, s) == lock[row] \in {NoSession, s}
Take(lock, row, s) == IF dialect = "sqlite" THEN lock ELSE [lock EXCEPT ![row] = s]

\* Mutant of LockUnit: the row is read without FOR UPDATE.
ReadUnitUnlocked(s) ==
    /\ Open(s) /\ tx[s].at = "unit"
    /\ LET op == tx[s].op IN
         tx' = [tx EXCEPT ![s].at =
                  CASE ~UnitFits(op) -> "end"
                    [] op.kind = "DisableUnit" /\ units[UnitOf(op)] = "disabled" -> "end"
                    [] OTHER -> After(op, "unit")]
    /\ UNCHANGED <<storeVars, dialect, locks>>

\* getUnitForUpdate and the caller's check of the unit.
LockUnit(s) ==
    /\ Open(s) /\ tx[s].at = "unit"
    /\ LET op == tx[s].op IN
         /\ Free(unitLock, UnitOf(op), s)
         /\ unitLock' = Take(unitLock, UnitOf(op), s)
         /\ tx' = [tx EXCEPT ![s].at =
                     CASE ~UnitFits(op) -> "end"
                       [] op.kind = "DisableUnit" /\ units[UnitOf(op)] = "disabled" -> "end"
                       [] OTHER -> After(op, "unit")]
    /\ UNCHANGED <<storeVars, dialect, assignmentLock, moveLock>>

\* unitReferencedInTx: assignments first, then moves, in two statements.  The
\* shared locks a serializable MySQL gives them are not modelled (see above).
ScanAssignments(s) ==
    /\ Open(s) /\ tx[s].at = "assignments"
    /\ tx' = [tx EXCEPT ![s].at =
                IF \E t \in Tenants : assignments[t].unit = UnitOf(tx[s].op)
                  THEN "end" ELSE After(tx[s].op, "assignments")]
    /\ UNCHANGED <<storeVars, dialect, locks>>

ScanMoves(s) ==
    /\ Open(s) /\ tx[s].at = "moves"
    /\ tx' = [tx EXCEPT ![s].at =
                IF \E t \in Tenants : UnitOf(tx[s].op) \in {moves[t].source, moves[t].target}
                  THEN "end" ELSE After(tx[s].op, "moves")]
    /\ UNCHANGED <<storeVars, dialect, locks>>

\* getAssignmentForUpdate, or the INSERT of CreateAssignment.
LockAssignment(s) ==
    /\ Open(s) /\ tx[s].at = "assignment"
    /\ LET op == tx[s].op IN
         /\ Free(assignmentLock, op.tenant, s)
         /\ assignmentLock' = Take(assignmentLock, op.tenant, s)
         /\ tx' = [tx EXCEPT ![s].at =
                     CASE ~AssignmentFits(op) -> "end"
                       [] op.kind = "CompareAndSwapAssignment" /\ op.expected = op.updated -> "end"
                       [] OTHER -> After(op, "assignment")]
    /\ UNCHANGED <<storeVars, dialect, unitLock, moveLock>>

\* getMoveForUpdate, or the INSERT of CreateMove.
LockMove(s) ==
    /\ Open(s) /\ tx[s].at = "move"
    /\ LET op == tx[s].op IN
         /\ Free(moveLock, op.tenant, s)
         /\ moveLock' = Take(moveLock, op.tenant, s)
         /\ tx' = [tx EXCEPT ![s].at = IF MoveFits(op) THEN After(op, "move") ELSE "end"]
    /\ UNCHANGED <<storeVars, dialect, unitLock, assignmentLock>>

\* The end of a transaction releases its rows.
Released(lock, s) == [row \in DOMAIN lock |-> IF lock[row] = s THEN NoSession ELSE lock[row]]
Release(s) ==
    /\ unitLock' = Released(unitLock, s)
    /\ assignmentLock' = Released(assignmentLock, s)
    /\ moveLock' = Released(moveLock, s)

\* Without row locks a write invalidates what the other transactions have read.
Overwrite(others) ==
    [s \in Sessions |->
        IF /\ dialect = "sqlite" /\ s \in others
           /\ Open(s) /\ tx[s].at # After(tx[s].op, "begin")
          THEN [tx[s] EXCEPT !.stale = TRUE]
          ELSE tx[s]]

\* The UPDATE, INSERT and DELETE statements of an operation.
Write(op) ==
    /\ units' = CASE op.kind = "DisableUnit" -> [units EXCEPT ![op.unit] = "disabled"]
                  [] op.kind = "DeleteUnit" -> [units EXCEPT ![op.unit] = "absent"]
                  [] op.kind = "UpdateUnit" -> [units EXCEPT ![op.unit] = op.status]
                  [] OTHER -> units
    /\ assignments' =
         IF op.kind \in {"CreateAssignment", "CompareAndSwapAssignment", "CutoverMove"}
           THEN [assignments EXCEPT ![op.tenant] = op.updated] ELSE assignments
    /\ moves' = CASE op.kind = "CreateMove" -> [moves EXCEPT ![op.tenant] = op.move]
                  [] op.kind \in {"CutoverMove", "DeleteMoveIfMatch"} ->
                       [moves EXCEPT ![op.tenant] = NoMove]
                  [] OTHER -> moves

Commit(s) ==
    /\ Open(s) /\ tx[s].at = "commit" /\ ~tx[s].stale
    /\ Write(tx[s].op)
    /\ tx' = [Overwrite(Sessions \ {s}) EXCEPT ![s] = NoTx]
    /\ Release(s)
    /\ UNCHANGED dialect

\* tx.Rollback after an error of any statement or of the commit, the end of a
\* transaction that has nothing to write, and the end of its process.
Rollback(s) ==
    /\ Open(s)
    /\ tx' = [tx EXCEPT ![s] = NoTx]
    /\ Release(s)
    /\ UNCHANGED <<storeVars, dialect>>

\* CreateUnit and DeleteMove are single statements outside a transaction.
InsertUnit(u, s) ==
    /\ unitLock[u] = NoSession
    /\ CreateUnit(u, s)
    /\ tx' = Overwrite(Sessions)
    /\ UNCHANGED <<dialect, locks>>

DeleteMoveRow(t) ==
    /\ moveLock[t] = NoSession
    /\ DeleteMove(t)
    /\ tx' = Overwrite(Sessions)
    /\ UNCHANGED <<dialect, locks>>

-----------------------------------------------------------------------------
SessionStep(s) ==
    \/ LockUnit(s) \/ ScanAssignments(s) \/ ScanMoves(s)
    \/ LockAssignment(s) \/ LockMove(s)
    \/ Commit(s) \/ Rollback(s)

SQLNext ==
    \/ \E s \in Sessions, op \in Ops : Begin(s, op)
    \/ \E s \in Sessions : SessionStep(s)
    \/ \E u \in Units, st \in {"active", "disabled"} : InsertUnit(u, st)
    \/ \E t \in Tenants : DeleteMoveRow(t)

SQLSpec == SQLInit /\ [][SQLNext]_sqlVars

-----------------------------------------------------------------------------
\* Type invariant: tables, transactions and lock holders.
SQLTypeOK ==
    /\ TypeOK
    /\ dialect \in {"mysql", "sqlite"}
    /\ tx \in [Sessions -> Tx \cup {NoTx}]
    /\ unitLock \in [Units -> Sessions \cup {NoSession}]
    /\ assignmentLock \in [Tenants -> Sessions \cup {NoSession}]
    /\ moveLock \in [Tenants -> Sessions \cup {NoSession}]

\* sql_store.go's comments on DisableUnit, CreateAssignment and CreateMove: the
\* row locks "serialize" the operations.  Every commit is one atomic operation
\* of the store contract, although its checks were made in earlier statements,
\* DisableUnit locks the unit only, and CreateMove never locks its source unit.
ImplementsStore == Spec
=============================================================================
