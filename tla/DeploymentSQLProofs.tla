------------------------- MODULE DeploymentSQLProofs -------------------------
(***************************************************************************)
(* The transactions of SQLStore implement the store contract, for any      *)
(* sessions, tenants and units.                                            *)
(*                                                                         *)
(* The argument: until a transaction ends, what its statements have found  *)
(* stays true (Established).  With row locks this is so because whoever    *)
(* changes a row holds it (Footprint); the two reference scans of          *)
(* DisableUnit and DeleteUnit hold nothing but the unit row, and rest on   *)
(* the fact that a new reference to a unit needs that row, or starts from  *)
(* an assignment that the scan would have seen.  Without row locks a       *)
(* transaction that was overtaken by a write cannot commit.                *)
(***************************************************************************)
EXTENDS DeploymentSQL, TLAPS

-----------------------------------------------------------------------------
(* The contract itself.  TypeOK and PlacementValid are inductive together: *)
(* CreateMove relies on the assignment it reads being placed.              *)

Inv == TypeOK /\ PlacementValid

\* The empty directory satisfies the invariant whatever units it starts with.
LEMMA InvInit == Init => Inv
BY UnitsAssumption DEF Init, Inv, TypeOK, PlacementValid, NoAssignment, NoMove

\* The zero assignment and the zero move name no unit of the directory.
LEMMA ZeroValues ==
    /\ NoAssignment \notin Assignment
    /\ NoMove \notin Move
    /\ NoAssignment.unit \notin Units
    /\ NoMove.source \notin Units
    /\ NoMove.target \notin Units
BY UnitsAssumption DEF NoAssignment, NoMove, Assignment, Move

\* Every operation of the store preserves the invariant, one step per action.
LEMMA InvStep == Inv /\ [Next]_storeVars => Inv'
<1> SUFFICES ASSUME Inv, [Next]_storeVars PROVE Inv'
  OBVIOUS
<1> USE ZeroValues DEF Inv, TypeOK, PlacementValid
<1>1. ASSUME NEW u \in Units, NEW s \in {"active", "disabled"}, CreateUnit(u, s)
      PROVE  Inv'
  BY <1>1 DEF CreateUnit, Statuses
<1>2. ASSUME NEW u \in Units, NEW s \in {"active", "disabled"}, UpdateUnit(u, s)
      PROVE  Inv'
  BY <1>2 DEF UpdateUnit, storeVars
<1>3. ASSUME NEW u \in Units, DisableUnit(u) PROVE Inv'
  BY <1>3 DEF DisableUnit, Referenced, Statuses
<1>4. ASSUME NEW u \in Units, DeleteUnit(u) PROVE Inv'
  BY <1>4 DEF DeleteUnit, Referenced, Statuses
<1>5. ASSUME NEW t \in Tenants, NEW a \in Assignment, CreateAssignment(t, a)
      PROVE  Inv'
  BY <1>5 DEF CreateAssignment
<1>6. ASSUME NEW t \in Tenants, NEW a \in Assignment, NEW b \in Assignment,
             CompareAndSwapAssignment(t, a, b)
      PROVE  Inv'
  BY <1>6 DEF CompareAndSwapAssignment
<1>7. ASSUME NEW t \in Tenants, NEW a \in Assignment, NEW b \in Assignment,
             NEW m \in Move, CutoverMove(t, a, m, b)
      PROVE  Inv'
  BY <1>7 DEF CutoverMove
<1>8. ASSUME NEW t \in Tenants, NEW m \in Move, CreateMove(t, m) PROVE Inv'
  <2>1. assignments[t].unit = m.source /\ m.source \in Units /\ m.target \in Units
    BY <1>8 DEF CreateMove, Move
  <2>2. units[m.source] = "active"
    BY <2>1
  <2> QED
    BY <1>8, <2>1, <2>2 DEF CreateMove
<1>9. ASSUME NEW t \in Tenants, NEW m \in Move, DeleteMoveIfMatch(t, m) PROVE Inv'
  BY <1>9 DEF DeleteMoveIfMatch
<1>10. ASSUME NEW t \in Tenants, DeleteMove(t) PROVE Inv'
  BY <1>10 DEF DeleteMove
<1>11. CASE UNCHANGED storeVars
  BY <1>11 DEF storeVars
<1> QED
  BY <1>1, <1>2, <1>3, <1>4, <1>5, <1>6, <1>7, <1>8, <1>9, <1>10, <1>11 DEF Next

\* The store contract of store.go: whatever sequence of operations direct
\* clients of the store perform, every unit an assignment or a prepared move
\* refers to is an active unit of the directory.
THEOREM StorePlacement == Spec => [](TypeOK /\ PlacementValid)
BY InvInit, InvStep, PTL DEF Spec, Inv

-----------------------------------------------------------------------------
(* The transactions.                                                       *)

AssignmentKinds == {"CreateAssignment", "CompareAndSwapAssignment", "CutoverMove", "CreateMove"}
MoveKinds == {"CutoverMove", "CreateMove", "DeleteMoveIfMatch"}
RemovalKinds == {"DisableUnit", "DeleteUnit"}

\* The operations that lock a unit row.
ReadsUnit(op) == After(op, "begin") = "unit"

\* A transaction is at a statement of its operation.
OnPath(op, at) ==
    /\ at = "unit" => ReadsUnit(op)
    /\ at \in {"assignments", "moves"} => op.kind \in RemovalKinds
    /\ at = "assignment" => op.kind \in AssignmentKinds
    /\ at = "move" => op.kind \in MoveKinds

\* What the statements before at have found.
Established(op, at) ==
    /\ ReadsUnit(op) /\ at \notin {"unit", "end"} => UnitFits(op)
    /\ op.kind \in AssignmentKinds /\ at \in {"move", "commit"} => AssignmentFits(op)
    /\ op.kind \in MoveKinds /\ at = "commit" => MoveFits(op)
    /\ op.kind \in RemovalKinds /\ at \in {"moves", "commit"} =>
         \A t \in Tenants : assignments[t].unit # UnitOf(op)
    /\ op.kind \in RemovalKinds /\ at = "commit" =>
         \A t \in Tenants : moves[t].source # UnitOf(op) /\ moves[t].target # UnitOf(op)

\* The rows that the statements before at have locked.
Locked(s, op, at) ==
    /\ ReadsUnit(op) /\ at \notin {"unit", "end"} => unitLock[UnitOf(op)] = s
    /\ op.kind \in AssignmentKinds /\ at \in {"move", "commit"} => assignmentLock[op.tenant] = s
    /\ op.kind \in MoveKinds /\ at = "commit" => moveLock[op.tenant] = s

\* Every open transaction is on its path, holds its rows and may rely on what
\* it has read unless it has been overtaken.
Sound(s) ==
    Open(s) => /\ OnPath(tx[s].op, tx[s].at)
               /\ dialect = "mysql" => ~tx[s].stale /\ Locked(s, tx[s].op, tx[s].at)
               /\ ~tx[s].stale => Established(tx[s].op, tx[s].at)

SQLInv == SQLTypeOK /\ PlacementValid /\ \A s \in Sessions : Sound(s)

-----------------------------------------------------------------------------
\* The fields that the call of each kind carries.
LEMMA OpFields ==
    ASSUME NEW op \in Ops
    PROVE  /\ op.kind \in {"UpdateUnit"} \cup RemovalKinds \cup AssignmentKinds \cup MoveKinds
           /\ op.kind \in {"UpdateUnit"} \cup RemovalKinds => op.unit \in Units
           /\ op.kind = "UpdateUnit" => op.status \in {"active", "disabled"}
           /\ op.kind \in AssignmentKinds \cup MoveKinds => op.tenant \in Tenants
           /\ op.kind \in AssignmentKinds \ {"CreateMove"} => op.updated \in Assignment
           /\ op.kind \in {"CompareAndSwapAssignment", "CutoverMove"} => op.expected \in Assignment
           /\ op.kind \in MoveKinds => op.move \in Move
           /\ op.kind = "CutoverMove" =>
                /\ op.expected.unit = op.move.source
                /\ op.updated = [unit |-> op.move.target, version |-> op.expected.version + 1]
<1>1. CASE op \in UnitOps
  BY <1>1 DEF UnitOps, RemovalKinds, AssignmentKinds, MoveKinds
<1>2. CASE op \in AssignmentOps
  BY <1>2 DEF AssignmentOps, RemovalKinds, AssignmentKinds, MoveKinds
<1>3. CASE op \in CutoverOps
  <2>1. /\ op.kind = "CutoverMove" /\ op.tenant \in Tenants
        /\ op.expected \in Assignment /\ op.updated \in Assignment /\ op.move \in Move
        /\ op.expected.unit = op.move.source
        /\ op.updated.unit = op.move.target
        /\ op.updated.version = op.expected.version + 1
    BY <1>3 DEF CutoverOps
  <2>2. op.updated = [unit |-> op.move.target, version |-> op.expected.version + 1]
    BY <2>1 DEF Assignment
  <2> QED
    BY <2>1, <2>2 DEF RemovalKinds, AssignmentKinds, MoveKinds
<1>4. CASE op \in MoveOps
  BY <1>4 DEF MoveOps, RemovalKinds, AssignmentKinds, MoveKinds
<1> QED
  BY <1>1, <1>2, <1>3, <1>4 DEF Ops

\* UnitOf names a unit for every operation that reads one.
LEMMA UnitOfType ==
    ASSUME NEW op \in Ops, op.kind # "DeleteMoveIfMatch"
    PROVE  UnitOf(op) \in Units
<1> USE OpFields DEF RemovalKinds, AssignmentKinds, MoveKinds
<1>1. op.kind \in {"UpdateUnit", "DisableUnit", "DeleteUnit"} => UnitOf(op) \in Units
  BY DEF UnitOf
<1>2. op.kind = "CreateMove" => UnitOf(op) \in Units
  BY DEF UnitOf, Move
<1>3. op.kind \in AssignmentKinds \ {"CreateMove"} => UnitOf(op) \in Units
  BY DEF UnitOf, Assignment
<1> QED
  BY <1>1, <1>2, <1>3

\* The first statement of each operation, and what follows the others.
LEMMA Order ==
    ASSUME NEW op \in Ops
    PROVE  /\ After(op, "begin") \in {"unit", "assignment", "move"}
           /\ OnPath(op, After(op, "begin"))
           /\ Established(op, After(op, "begin"))
           /\ \A s : Locked(s, op, After(op, "begin"))
           /\ ReadsUnit(op) => op.kind # "DeleteMoveIfMatch"
           /\ ~ReadsUnit(op) => \/ op.kind = "DeleteMoveIfMatch"
                                \/ /\ op.kind = "CompareAndSwapAssignment"
                                   /\ op.updated.unit = op.expected.unit
           /\ op.kind = "UpdateUnit" => After(op, "unit") = "commit"
           /\ op.kind \in RemovalKinds => After(op, "unit") = "assignments"
           /\ op.kind \in AssignmentKinds => After(op, "unit") = "assignment"
           /\ After(op, "assignments") = "moves"
           /\ After(op, "moves") = "commit"
           /\ After(op, "assignment") = IF op.kind \in {"CutoverMove", "CreateMove"}
                                         THEN "move" ELSE "commit"
           /\ After(op, "move") = "commit"
<1> USE OpFields
<1>1. CASE op.kind = "DeleteMoveIfMatch"
  BY <1>1 DEF After, OnPath, Established, Locked, ReadsUnit, RemovalKinds, AssignmentKinds, MoveKinds
<1>2. CASE op.kind = "CompareAndSwapAssignment" /\ op.updated.unit = op.expected.unit
  BY <1>2 DEF After, OnPath, Established, Locked, ReadsUnit, RemovalKinds, AssignmentKinds, MoveKinds
<1>3. CASE ~(op.kind = "DeleteMoveIfMatch") /\ ~(op.kind = "CompareAndSwapAssignment" /\ op.updated.unit = op.expected.unit)
  BY <1>3 DEF After, OnPath, Established, Locked, ReadsUnit, RemovalKinds, AssignmentKinds, MoveKinds
<1> QED
  BY <1>1, <1>2, <1>3

\* A session with a transaction has one of type Tx, and no other does.
LEMMA OpenTx ==
    ASSUME SQLTypeOK, NEW s \in Sessions
    PROVE  /\ Open(s) => /\ tx[s] \in Tx /\ tx[s].op \in Ops
                         /\ tx[s].at \in Statements /\ tx[s].stale \in BOOLEAN
           /\ ~Open(s) => tx[s] = NoTx
           /\ tx[s].at \in Statements => Open(s)
BY DEF SQLTypeOK, Open, Tx, NoTx, Statements

-----------------------------------------------------------------------------
\* Initially there is no transaction.
LEMMA SQLInvInit == SQLInit => SQLInv
<1> SUFFICES ASSUME SQLInit PROVE SQLInv
  OBVIOUS
<1>1. TypeOK /\ PlacementValid
  BY InvInit DEF SQLInit, Inv
<1>2. SQLTypeOK
  BY <1>1 DEF SQLInit, SQLTypeOK
<1>4. ASSUME NEW s \in Sessions PROVE Sound(s)
  BY DEF SQLInit, Sound, Open
<1> QED
  BY <1>1, <1>2, <1>4 DEF SQLInv

-----------------------------------------------------------------------------
\* The rows that session s holds stay its own.
KeepsLocks(s) ==
    /\ \A u \in Units : unitLock[u] = s => unitLock'[u] = s
    /\ \A t \in Tenants : assignmentLock[t] = s => assignmentLock'[t] = s
    /\ \A t \in Tenants : moveLock[t] = s => moveLock'[t] = s

\* What writer o (NoSession for a statement outside a transaction) changes: rows
\* that it holds, and references to a unit that it holds, or that the tenant's
\* assignment has anyway.
Footprint(o) ==
    /\ \A u \in Units : units'[u] # units[u] => unitLock[u] = o
    /\ \A t \in Tenants : assignments'[t] # assignments[t] => assignmentLock[t] = o
    /\ \A t \in Tenants : moves'[t] # moves[t] => moveLock[t] = o
    /\ \A t \in Tenants, u \in Units :
         assignments'[t].unit = u => assignments[t].unit = u \/ unitLock[u] = o
    /\ \A t \in Tenants, u \in Units :
         moves'[t].source = u \/ moves'[t].target = u =>
            \/ moves[t].source = u \/ moves[t].target = u
            \/ assignments[t].unit = u \/ unitLock[u] = o

\* The rows an operation is about are rows of the tables.
LEMMA LockedRows ==
    ASSUME NEW op \in Ops
    PROVE  /\ ReadsUnit(op) \/ op.kind \in RemovalKinds => UnitOf(op) \in Units
           /\ op.kind \in AssignmentKinds \cup MoveKinds => op.tenant \in Tenants
           /\ op.kind \in RemovalKinds => ReadsUnit(op)
BY OpFields, UnitOfType, Order DEF RemovalKinds

\* Locked depends on the rows its session holds only.
LEMMA LockedKept ==
    ASSUME NEW s, NEW op \in Ops, NEW at, KeepsLocks(s), Locked(s, op, at)
    PROVE  Locked(s, op, at)'
BY LockedRows DEF KeepsLocks, Locked

\* A step that leaves the tables and the transaction of s alone.
LEMMA Frame ==
    ASSUME SQLInv, NEW s \in Sessions, tx'[s] = tx[s],
           UNCHANGED <<storeVars, dialect>>, KeepsLocks(s)
    PROVE  Sound(s)'
<1> SUFFICES ASSUME Open(s) PROVE Sound(s)'
  BY DEF Sound, Open
<1>1. Sound(s) /\ tx[s].op \in Ops
  BY OpenTx DEF SQLInv
<1>2. dialect = "mysql" => Locked(s, tx[s].op, tx[s].at)'
  BY <1>1, LockedKept DEF Sound
<1>3. Established(tx[s].op, tx[s].at) => Established(tx[s].op, tx[s].at)'
  BY DEF Established, UnitFits, AssignmentFits, MoveFits, storeVars
<1> QED
  BY <1>1, <1>2, <1>3 DEF Sound, Open, Locked, Established, OnPath

\* Before its first statement a transaction has read nothing.
LEMMA NothingRead ==
    ASSUME NEW op \in Ops
    PROVE  /\ Established(op, After(op, "begin")) /\ Established(op, After(op, "begin"))'
           /\ \A s : Locked(s, op, After(op, "begin")) /\ Locked(s, op, After(op, "begin"))'
<1> DEFINE at == After(op, "begin")
<1>1. /\ ~(ReadsUnit(op) /\ at \notin {"unit", "end"})
      /\ ~(op.kind \in AssignmentKinds /\ at \in {"move", "commit"})
      /\ at \notin {"moves", "commit"}
  <2>1. CASE ReadsUnit(op)
    BY <2>1 DEF ReadsUnit
  <2>2. CASE op.kind = "DeleteMoveIfMatch"
    BY <2>2, Order DEF ReadsUnit, AssignmentKinds
  <2>3. CASE op.kind = "CompareAndSwapAssignment" /\ op.updated.unit = op.expected.unit
    <3>1. at = "assignment"
      BY <2>3 DEF After
    <3> QED
      BY <3>1 DEF ReadsUnit
  <2> QED
    BY <2>1, <2>2, <2>3, Order
<1> QED
  BY <1>1 DEF Established, Locked

\* A write of another party leaves a transaction as it was, or overtakes it.
LEMMA Interference ==
    ASSUME SQLInv, NEW o \in Sessions \cup {NoSession}, NEW s \in Sessions, s # o,
           UNCHANGED dialect, KeepsLocks(s), dialect = "mysql" => Footprint(o),
           tx'[s] = IF dialect = "sqlite" /\ Open(s) /\ tx[s].at # After(tx[s].op, "begin")
                      THEN [tx[s] EXCEPT !.stale = TRUE] ELSE tx[s]
    PROVE  Sound(s)'
<1>1. CASE ~Open(s)
  BY <1>1 DEF Open, Sound
<1> SUFFICES ASSUME Open(s) PROVE Sound(s)'
  BY <1>1
<1> DEFINE op == tx[s].op
           at == tx[s].at
<1>2. Sound(s) /\ op \in Ops /\ tx[s] \in Tx
  BY OpenTx DEF SQLInv
<1>3. CASE dialect = "mysql"
  <2>1. tx'[s] = tx[s]
    BY <1>3
  <2>2. /\ Locked(s, op, at) /\ Established(op, at) /\ OnPath(op, at) /\ ~tx[s].stale
    BY <1>2, <1>3 DEF Sound
  <2>3. Locked(s, op, at)'
    BY <1>2, <2>1, <2>2, LockedKept
  <2>4. Footprint(o)
    BY <1>3
  <2>5. ReadsUnit(op) /\ at \notin {"unit", "end"} => units'[UnitOf(op)] = units[UnitOf(op)]
    BY <1>2, <2>2, <2>4, LockedRows DEF Locked, Footprint
  <2>6. op.kind \in AssignmentKinds /\ at \in {"move", "commit"} =>
           assignments'[op.tenant] = assignments[op.tenant]
    BY <1>2, <2>2, <2>4, LockedRows DEF Locked, Footprint
  <2>7. op.kind \in MoveKinds /\ at = "commit" => moves'[op.tenant] = moves[op.tenant]
    BY <1>2, <2>2, <2>4, LockedRows DEF Locked, Footprint
  <2>8. op.kind \in RemovalKinds /\ at \in {"moves", "commit"} =>
           \A t \in Tenants : assignments'[t].unit # UnitOf(op)
    <3> SUFFICES ASSUME op.kind \in RemovalKinds, at \in {"moves", "commit"}, NEW t \in Tenants
                 PROVE  assignments'[t].unit # UnitOf(op)
      OBVIOUS
    <3>1. UnitOf(op) \in Units /\ unitLock[UnitOf(op)] = s /\ assignments[t].unit # UnitOf(op)
      BY <1>2, <2>2, LockedRows DEF Locked, Established
    <3> QED
      BY <3>1, <2>4 DEF Footprint
  <2>9. op.kind \in RemovalKinds /\ at = "commit" =>
           \A t \in Tenants : moves'[t].source # UnitOf(op) /\ moves'[t].target # UnitOf(op)
    <3> SUFFICES ASSUME op.kind \in RemovalKinds, at = "commit", NEW t \in Tenants
                 PROVE  moves'[t].source # UnitOf(op) /\ moves'[t].target # UnitOf(op)
      OBVIOUS
    <3>1. /\ UnitOf(op) \in Units /\ unitLock[UnitOf(op)] = s /\ assignments[t].unit # UnitOf(op)
          /\ moves[t].source # UnitOf(op) /\ moves[t].target # UnitOf(op)
      BY <1>2, <2>2, LockedRows DEF Locked, Established
    <3> QED
      BY <3>1, <2>4 DEF Footprint
  <2>10. Established(op, at)'
    BY <2>1, <2>2, <2>5, <2>6, <2>7, <2>8, <2>9
    DEF Established, UnitFits, AssignmentFits, MoveFits
  <2> QED
    BY <2>1, <2>2, <2>3, <2>10 DEF Sound, Open, OnPath
<1>4. CASE dialect = "sqlite" /\ at = After(op, "begin")
  <2>1. tx'[s] = tx[s]
    BY <1>4
  <2>2. Established(op, at)'
    BY <1>2, <1>4, <2>1, NothingRead
  <2> QED
    BY <1>2, <1>4, <2>1, <2>2 DEF Sound, Open
<1>5. CASE dialect = "sqlite" /\ at # After(op, "begin")
  <2>1. tx'[s].op = op /\ tx'[s].at = at /\ tx'[s].stale = TRUE
    BY <1>2, <1>5 DEF Tx
  <2> QED
    BY <1>2, <1>5, <2>1 DEF Sound, Open
<1> QED
  BY <1>3, <1>4, <1>5 DEF SQLInv, SQLTypeOK

-----------------------------------------------------------------------------
\* A statement of session s moves it to statement next and locks at most rows
\* that were free; nothing else changes.
Statement(s, next) ==
    /\ Open(s)
    /\ tx' = [tx EXCEPT ![s].at = next]
    /\ next \in Statements
    /\ UNCHANGED <<storeVars, dialect>>

\* It changes the program counter of s only.
LEMMA StatementTx ==
    ASSUME SQLInv, NEW s \in Sessions, NEW next, Statement(s, next)
    PROVE  /\ tx' \in [Sessions -> Tx \cup {NoTx}]
           /\ tx'[s].op = tx[s].op /\ tx'[s].at = next /\ tx'[s].stale = tx[s].stale
           /\ tx'[s] \in Tx
           /\ \A r \in Sessions \ {s} : tx'[r] = tx[r]
<1>1. tx[s] \in Tx /\ tx \in [Sessions -> Tx \cup {NoTx}]
  BY OpenTx DEF SQLInv, SQLTypeOK, Statement
<1>2. tx' = [tx EXCEPT ![s] = [tx[s] EXCEPT !.at = next]]
  BY DEF Statement
<1>3. [tx[s] EXCEPT !.at = next] \in Tx
  BY <1>1 DEF Tx, Statement
<1> QED
  BY <1>1, <1>2, <1>3 DEF Tx

\* It preserves the invariant if it does for session s.
LEMMA StatementInv ==
    ASSUME SQLInv, NEW s \in Sessions, NEW next, Statement(s, next),
           unitLock' \in [Units -> Sessions \cup {NoSession}],
           assignmentLock' \in [Tenants -> Sessions \cup {NoSession}],
           moveLock' \in [Tenants -> Sessions \cup {NoSession}],
           \A r \in Sessions \ {s} : KeepsLocks(r),
           Sound(s)'
    PROVE  SQLInv'
<1>1. TypeOK' /\ PlacementValid'
  BY DEF SQLInv, SQLTypeOK, Statement, TypeOK, PlacementValid, storeVars
<1>2. SQLTypeOK'
  BY <1>1, StatementTx DEF SQLInv, SQLTypeOK, Statement
<1>3. ASSUME NEW r \in Sessions PROVE Sound(r)'
  <2>1. CASE r = s
    BY <2>1
  <2>2. CASE r # s
    BY <2>2, StatementTx, Frame DEF Statement
  <2> QED
    BY <2>1, <2>2
<1> QED
  BY <1>1, <1>2, <1>3 DEF SQLInv

\* getUnitForUpdate preserves the invariant.
LEMMA LockUnitInv ==
    ASSUME SQLInv, NEW s \in Sessions, LockUnit(s)
    PROVE  SQLInv'
<1> DEFINE op == tx[s].op
           next == CASE ~UnitFits(op) -> "end"
                     [] op.kind = "DisableUnit" /\ units[UnitOf(op)] = "disabled" -> "end"
                     [] OTHER -> After(op, "unit")
<1>1. /\ Open(s) /\ tx[s].at = "unit" /\ op \in Ops /\ Sound(s)
      /\ tx' = [tx EXCEPT ![s].at = next]
      /\ Free(unitLock, UnitOf(op), s) /\ unitLock' = Take(unitLock, UnitOf(op), s)
      /\ UNCHANGED <<storeVars, dialect, assignmentLock, moveLock>>
  BY OpenTx DEF LockUnit, SQLInv
<1>2. ReadsUnit(op) /\ UnitOf(op) \in Units
  BY <1>1, LockedRows DEF Sound, OnPath
<1>3. /\ next = "end" \/ (UnitFits(op) /\ next = After(op, "unit"))
      /\ next \in {"commit", "assignments", "assignment", "end"}
      /\ next = "commit" => op.kind = "UpdateUnit"
      /\ next = "assignments" => op.kind \in RemovalKinds
      /\ next = "assignment" => op.kind \in AssignmentKinds
  <2>1. After(op, "unit") \in {"commit", "assignments", "assignment"}
        /\ (After(op, "unit") = "commit" => op.kind = "UpdateUnit")
        /\ (After(op, "unit") = "assignments" => op.kind \in RemovalKinds)
        /\ (After(op, "unit") = "assignment" => op.kind \in AssignmentKinds)
    <3>1. op.kind \in {"UpdateUnit"} \cup RemovalKinds \cup AssignmentKinds
      BY <1>1, <1>2, OpFields, Order DEF MoveKinds, AssignmentKinds
    <3> QED
      BY <1>1, <3>1, Order
  <2>2. next = "end" \/ (UnitFits(op) /\ next = After(op, "unit"))
    OBVIOUS
  <2> QED
    BY <2>1, <2>2
<1> HIDE DEF next
<1>4. Statement(s, next)
  BY <1>1, <1>3 DEF Statement, Statements
<1>5. /\ unitLock' \in [Units -> Sessions \cup {NoSession}]
      /\ unitLock \in [Units -> Sessions \cup {NoSession}]
      /\ \A u \in Units \ {UnitOf(op)} : unitLock'[u] = unitLock[u]
      /\ unitLock'[UnitOf(op)] \in {s, NoSession}
      /\ unitLock[UnitOf(op)] \in {s, NoSession}
      /\ dialect = "mysql" => unitLock'[UnitOf(op)] = s
  BY <1>1, <1>2 DEF SQLInv, SQLTypeOK, Free, Take
<1>6. ASSUME NEW r \in Sessions \ {s} PROVE KeepsLocks(r)
  BY <1>1, <1>5, SessionsAssumption DEF KeepsLocks
<1>7. /\ tx'[s].op = op /\ tx'[s].at = next /\ tx'[s].stale = tx[s].stale
      /\ \A r \in Sessions \ {s} : tx'[r] = tx[r]
  BY <1>4, StatementTx
<1>8. Sound(s)'
  <2>1. OnPath(tx[s].op, tx[s].at)'
    BY <1>3, <1>7 DEF OnPath
  <2>2. UnitFits(op) => Established(tx[s].op, tx[s].at)'
    BY <1>1, <1>3, <1>7
    DEF Established, UnitFits, storeVars, RemovalKinds, AssignmentKinds, MoveKinds
  <2>3. next = "end" => Established(tx[s].op, tx[s].at)'
    BY <1>7 DEF Established, RemovalKinds, MoveKinds
  <2>4. dialect = "mysql" => Locked(s, tx[s].op, tx[s].at)'
    BY <1>3, <1>5, <1>7 DEF Locked, RemovalKinds, AssignmentKinds, MoveKinds
  <2> QED
    BY <1>1, <1>3, <1>7, <2>1, <2>2, <2>3, <2>4 DEF Sound, Open
<1> QED
  BY <1>1, <1>4, <1>5, <1>6, <1>8, StatementInv DEF SQLInv, SQLTypeOK

\* The first statement of unitReferencedInTx preserves the invariant.
LEMMA ScanAssignmentsInv ==
    ASSUME SQLInv, NEW s \in Sessions, ScanAssignments(s)
    PROVE  SQLInv'
<1> DEFINE op == tx[s].op
           next == IF \E t \in Tenants : assignments[t].unit = UnitOf(op) THEN "end" ELSE After(op, "assignments")
<1>1. /\ Open(s) /\ tx[s].at = "assignments" /\ op \in Ops /\ Sound(s)
      /\ tx' = [tx EXCEPT ![s].at = next]
      /\ UNCHANGED <<storeVars, dialect, locks>>
  BY OpenTx DEF ScanAssignments, SQLInv
<1>2. op.kind \in RemovalKinds
  BY <1>1 DEF Sound, OnPath
<1>3. next = "end" \/ (next = "moves" /\ \A t \in Tenants : assignments[t].unit # UnitOf(op))
  BY <1>1, Order
<1> HIDE DEF next
<1>4. Statement(s, next)
  BY <1>1, <1>3 DEF Statement, Statements
<1>5. ASSUME NEW r \in Sessions PROVE KeepsLocks(r)
  BY <1>1 DEF KeepsLocks, locks
<1>6. /\ tx'[s].op = op /\ tx'[s].at = next /\ tx'[s].stale = tx[s].stale
      /\ \A r \in Sessions \ {s} : tx'[r] = tx[r]
  BY <1>4, StatementTx
<1>7. Sound(s)'
  <2>1. OnPath(tx[s].op, tx[s].at)'
    BY <1>2, <1>3, <1>6 DEF OnPath
  <2>2. ~tx[s].stale => Established(tx[s].op, tx[s].at)'
    BY <1>1, <1>2, <1>3, <1>6
    DEF Sound, Established, UnitFits, storeVars, RemovalKinds, AssignmentKinds, MoveKinds
  <2>3. dialect = "mysql" => Locked(s, tx[s].op, tx[s].at)'
    BY <1>1, <1>2, <1>3, <1>6 DEF Sound, Locked, locks, RemovalKinds, AssignmentKinds, MoveKinds
  <2> QED
    BY <1>1, <1>6, <2>1, <2>2, <2>3 DEF Sound, Open
<1> QED
  BY <1>1, <1>4, <1>5, <1>7, StatementInv DEF SQLInv, SQLTypeOK, locks

\* Its second statement, which looks for prepared moves.
LEMMA ScanMovesInv ==
    ASSUME SQLInv, NEW s \in Sessions, ScanMoves(s)
    PROVE  SQLInv'
<1> DEFINE op == tx[s].op
           next == IF \E t \in Tenants : UnitOf(op) \in {moves[t].source, moves[t].target} THEN "end" ELSE After(op, "moves")
<1>1. /\ Open(s) /\ tx[s].at = "moves" /\ op \in Ops /\ Sound(s)
      /\ tx' = [tx EXCEPT ![s].at = next]
      /\ UNCHANGED <<storeVars, dialect, locks>>
  BY OpenTx DEF ScanMoves, SQLInv
<1>2. op.kind \in RemovalKinds
  BY <1>1 DEF Sound, OnPath
<1>3. next = "end" \/ (next = "commit" /\ \A t \in Tenants : moves[t].source # UnitOf(op) /\ moves[t].target # UnitOf(op))
  BY <1>1, Order
<1> HIDE DEF next
<1>4. Statement(s, next)
  BY <1>1, <1>3 DEF Statement, Statements
<1>5. ASSUME NEW r \in Sessions PROVE KeepsLocks(r)
  BY <1>1 DEF KeepsLocks, locks
<1>6. /\ tx'[s].op = op /\ tx'[s].at = next /\ tx'[s].stale = tx[s].stale
      /\ \A r \in Sessions \ {s} : tx'[r] = tx[r]
  BY <1>4, StatementTx
<1>7. Sound(s)'
  <2>1. OnPath(tx[s].op, tx[s].at)'
    BY <1>2, <1>3, <1>6 DEF OnPath
  <2>2. ~tx[s].stale => Established(tx[s].op, tx[s].at)'
    BY <1>1, <1>2, <1>3, <1>6
    DEF Sound, Established, UnitFits, storeVars, RemovalKinds, AssignmentKinds, MoveKinds
  <2>3. dialect = "mysql" => Locked(s, tx[s].op, tx[s].at)'
    BY <1>1, <1>2, <1>3, <1>6 DEF Sound, Locked, locks, RemovalKinds, AssignmentKinds, MoveKinds
  <2> QED
    BY <1>1, <1>6, <2>1, <2>2, <2>3 DEF Sound, Open
<1> QED
  BY <1>1, <1>4, <1>5, <1>7, StatementInv DEF SQLInv, SQLTypeOK, locks

\* getAssignmentForUpdate and CreateAssignment's INSERT preserve the invariant.
LEMMA LockAssignmentInv ==
    ASSUME SQLInv, NEW s \in Sessions, LockAssignment(s)
    PROVE  SQLInv'
<1> DEFINE op == tx[s].op
           next == CASE ~AssignmentFits(op) -> "end"
                     [] op.kind = "CompareAndSwapAssignment" /\ op.expected = op.updated -> "end"
                     [] OTHER -> After(op, "assignment")
<1>1. /\ Open(s) /\ tx[s].at = "assignment" /\ op \in Ops /\ Sound(s)
      /\ tx' = [tx EXCEPT ![s].at = next]
      /\ Free(assignmentLock, op.tenant, s) /\ assignmentLock' = Take(assignmentLock, op.tenant, s)
      /\ UNCHANGED <<storeVars, dialect, unitLock, moveLock>>
  BY OpenTx DEF LockAssignment, SQLInv
<1>2. op.kind \in AssignmentKinds /\ op.tenant \in Tenants
  BY <1>1, OpFields DEF Sound, OnPath
<1>3. \/ next = "end"
      \/ next = "move" /\ op.kind \in {"CutoverMove", "CreateMove"} /\ AssignmentFits(op)
      \/ next = "commit" /\ op.kind \notin {"CutoverMove", "CreateMove"} /\ AssignmentFits(op)
  <2>1. next = "end" \/ (AssignmentFits(op) /\ next = After(op, "assignment"))
    OBVIOUS
  <2> QED
    BY <1>1, <2>1, Order
<1> HIDE DEF next
<1>4. Statement(s, next)
  BY <1>1, <1>3 DEF Statement, Statements
<1>5. /\ assignmentLock' \in [Tenants -> Sessions \cup {NoSession}]
      /\ assignmentLock \in [Tenants -> Sessions \cup {NoSession}]
      /\ \A t \in Tenants \ {op.tenant} : assignmentLock'[t] = assignmentLock[t]
      /\ assignmentLock'[op.tenant] \in {s, NoSession}
      /\ assignmentLock[op.tenant] \in {s, NoSession}
      /\ dialect = "mysql" => assignmentLock'[op.tenant] = s
  BY <1>1, <1>2 DEF SQLInv, SQLTypeOK, Free, Take
<1>6. ASSUME NEW r \in Sessions \ {s} PROVE KeepsLocks(r)
  BY <1>1, <1>5, SessionsAssumption DEF KeepsLocks
<1>7. /\ tx'[s].op = op /\ tx'[s].at = next /\ tx'[s].stale = tx[s].stale
      /\ \A r \in Sessions \ {s} : tx'[r] = tx[r]
  BY <1>4, StatementTx
<1>8. Sound(s)'
  <2>1. OnPath(tx[s].op, tx[s].at)'
    BY <1>3, <1>7 DEF OnPath, MoveKinds
  <2>2. ~tx[s].stale => Established(tx[s].op, tx[s].at)'
    BY <1>1, <1>2, <1>3, <1>7
    DEF Sound, Established, UnitFits, AssignmentFits, MoveFits, storeVars, RemovalKinds, AssignmentKinds, MoveKinds
  <2>3. dialect = "mysql" => Locked(s, tx[s].op, tx[s].at)'
    BY <1>1, <1>2, <1>3, <1>5, <1>7 DEF Sound, Locked, RemovalKinds, AssignmentKinds, MoveKinds
  <2> QED
    BY <1>1, <1>7, <2>1, <2>2, <2>3 DEF Sound, Open
<1> QED
  BY <1>1, <1>4, <1>5, <1>6, <1>8, StatementInv DEF SQLInv, SQLTypeOK

\* getMoveForUpdate and CreateMove's INSERT preserve the invariant.
LEMMA LockMoveInv ==
    ASSUME SQLInv, NEW s \in Sessions, LockMove(s)
    PROVE  SQLInv'
<1> DEFINE op == tx[s].op
           next == IF MoveFits(op) THEN After(op, "move") ELSE "end"
<1>1. /\ Open(s) /\ tx[s].at = "move" /\ op \in Ops /\ Sound(s)
      /\ tx' = [tx EXCEPT ![s].at = next]
      /\ Free(moveLock, op.tenant, s) /\ moveLock' = Take(moveLock, op.tenant, s)
      /\ UNCHANGED <<storeVars, dialect, unitLock, assignmentLock>>
  BY OpenTx DEF LockMove, SQLInv
<1>2. op.kind \in MoveKinds /\ op.tenant \in Tenants
  BY <1>1, OpFields DEF Sound, OnPath
<1>3. next = "end" \/ (next = "commit" /\ MoveFits(op))
  BY <1>1, Order
<1> HIDE DEF next
<1>4. Statement(s, next)
  BY <1>1, <1>3 DEF Statement, Statements
<1>5. /\ moveLock' \in [Tenants -> Sessions \cup {NoSession}]
      /\ moveLock \in [Tenants -> Sessions \cup {NoSession}]
      /\ \A t \in Tenants \ {op.tenant} : moveLock'[t] = moveLock[t]
      /\ moveLock'[op.tenant] \in {s, NoSession}
      /\ moveLock[op.tenant] \in {s, NoSession}
      /\ dialect = "mysql" => moveLock'[op.tenant] = s
  BY <1>1, <1>2 DEF SQLInv, SQLTypeOK, Free, Take
<1>6. ASSUME NEW r \in Sessions \ {s} PROVE KeepsLocks(r)
  BY <1>1, <1>5, SessionsAssumption DEF KeepsLocks
<1>7. /\ tx'[s].op = op /\ tx'[s].at = next /\ tx'[s].stale = tx[s].stale
      /\ \A r \in Sessions \ {s} : tx'[r] = tx[r]
  BY <1>4, StatementTx
<1>8. Sound(s)'
  <2>1. OnPath(tx[s].op, tx[s].at)'
    BY <1>3, <1>7 DEF OnPath, MoveKinds
  <2>2. ~tx[s].stale => Established(tx[s].op, tx[s].at)'
    BY <1>1, <1>2, <1>3, <1>7
    DEF Sound, Established, UnitFits, AssignmentFits, MoveFits, storeVars, RemovalKinds, AssignmentKinds, MoveKinds
  <2>3. dialect = "mysql" => Locked(s, tx[s].op, tx[s].at)'
    BY <1>1, <1>2, <1>3, <1>5, <1>7 DEF Sound, Locked, RemovalKinds, AssignmentKinds, MoveKinds
  <2> QED
    BY <1>1, <1>7, <2>1, <2>2, <2>3 DEF Sound, Open
<1> QED
  BY <1>1, <1>4, <1>5, <1>6, <1>8, StatementInv DEF SQLInv, SQLTypeOK

-----------------------------------------------------------------------------
\* beginPlacementTx preserves the invariant.
LEMMA BeginInv ==
    ASSUME SQLInv, NEW s \in Sessions, NEW op \in Ops, Begin(s, op)
    PROVE  SQLInv'
<1> DEFINE new == [op |-> op, at |-> After(op, "begin"), stale |-> FALSE]
<1>1. /\ new \in Tx /\ new # NoTx
      /\ new.op = op /\ new.at = After(op, "begin") /\ ~new.stale
  <2>1. After(op, "begin") \in {"unit", "assignment", "move"}
    BY Order
  <2> QED
    BY <2>1 DEF Tx, Statements, NoTx
<1> HIDE DEF new
<1>2. /\ tx[s] = NoTx /\ tx' = [tx EXCEPT ![s] = new]
      /\ UNCHANGED <<storeVars, dialect, locks>>
  BY DEF Begin, new
<1>3. /\ tx' \in [Sessions -> Tx \cup {NoTx}]
      /\ tx'[s] = new /\ \A r \in Sessions \ {s} : tx'[r] = tx[r]
  BY <1>1, <1>2 DEF SQLInv, SQLTypeOK
<1>4. TypeOK' /\ PlacementValid'
  BY <1>2 DEF SQLInv, SQLTypeOK, TypeOK, PlacementValid, storeVars
<1>5. SQLTypeOK'
  BY <1>2, <1>3, <1>4 DEF SQLInv, SQLTypeOK, locks
<1>6. ASSUME NEW r \in Sessions \ {s} PROVE Sound(r)'
  <2>1. KeepsLocks(r)
    BY <1>2 DEF KeepsLocks, locks
  <2> QED
    BY <1>2, <1>3, <2>1, Frame
<1>7. Sound(s)'
  BY <1>1, <1>3, Order, NothingRead DEF Sound, Open, OnPath
<1> QED
  BY <1>4, <1>5, <1>6, <1>7 DEF SQLInv

\* The end of a transaction: its rows are free, the others keep theirs.
LEMMA ReleaseLocks ==
    ASSUME SQLInv, NEW s \in Sessions, Release(s)
    PROVE  /\ unitLock' \in [Units -> Sessions \cup {NoSession}]
           /\ assignmentLock' \in [Tenants -> Sessions \cup {NoSession}]
           /\ moveLock' \in [Tenants -> Sessions \cup {NoSession}]
           /\ \A r \in Sessions \ {s} : KeepsLocks(r)
           /\ \A u \in Units : unitLock'[u] \in Sessions =>
                unitLock'[u] # s /\ unitLock'[u] = unitLock[u]
           /\ \A t \in Tenants : assignmentLock'[t] \in Sessions =>
                assignmentLock'[t] # s /\ assignmentLock'[t] = assignmentLock[t]
           /\ \A t \in Tenants : moveLock'[t] \in Sessions =>
                moveLock'[t] # s /\ moveLock'[t] = moveLock[t]
BY SessionsAssumption DEF SQLInv, SQLTypeOK, Release, Released, KeepsLocks

\* Rollback preserves the invariant.
LEMMA RollbackInv ==
    ASSUME SQLInv, NEW s \in Sessions, Rollback(s)
    PROVE  SQLInv'
<1>1. /\ tx' = [tx EXCEPT ![s] = NoTx] /\ Release(s)
      /\ UNCHANGED <<storeVars, dialect>>
  BY DEF Rollback
<1>2. /\ tx' \in [Sessions -> Tx \cup {NoTx}]
      /\ tx'[s] = NoTx /\ \A r \in Sessions \ {s} : tx'[r] = tx[r]
  BY <1>1 DEF SQLInv, SQLTypeOK
<1>3. TypeOK' /\ PlacementValid'
  BY <1>1 DEF SQLInv, SQLTypeOK, TypeOK, PlacementValid, storeVars
<1>4. SQLTypeOK'
  BY <1>1, <1>2, <1>3, ReleaseLocks DEF SQLInv, SQLTypeOK
<1>5. ASSUME NEW r \in Sessions \ {s} PROVE Sound(r)'
  BY <1>1, <1>2, ReleaseLocks, Frame
<1>6. Sound(s)'
  BY <1>2 DEF Sound, Open
<1> QED
  BY <1>3, <1>4, <1>5, <1>6 DEF SQLInv

-----------------------------------------------------------------------------
\* What a commit relies on: with or without row locks, everything the
\* transaction has read is still so.
LEMMA CommitReads ==
    ASSUME SQLInv, NEW s \in Sessions, Commit(s)
    PROVE  /\ tx[s].op \in Ops /\ Write(tx[s].op) /\ Release(s) /\ UNCHANGED dialect
           /\ tx' = [Overwrite(Sessions \ {s}) EXCEPT ![s] = NoTx]
           /\ Established(tx[s].op, "commit")
           /\ dialect = "mysql" => Locked(s, tx[s].op, "commit")
<1>1. Open(s) /\ tx[s].at = "commit" /\ ~tx[s].stale
  BY DEF Commit
<1>2. Sound(s) /\ tx[s].op \in Ops
  BY <1>1, OpenTx DEF SQLInv
<1> QED
  BY <1>1, <1>2 DEF Commit, Sound

\* Every commit is one operation of the store contract.
LEMMA CommitIsOperation ==
    ASSUME SQLInv, NEW s \in Sessions, Commit(s)
    PROVE  Next
<1> DEFINE op == tx[s].op
<1>1. op \in Ops /\ Write(op) /\ Established(op, "commit") /\ TypeOK /\ PlacementValid
  BY CommitReads DEF SQLInv, SQLTypeOK
<1> HIDE DEF op
<1>2. CASE op.kind = "UpdateUnit"
  <2>1. op.unit \in Units /\ op.status \in {"active", "disabled"} /\ units[op.unit] = op.status
    BY <1>1, <1>2, OpFields, Order DEF Established, UnitFits, UnitOf, MoveKinds
  <2>2. UpdateUnit(op.unit, op.status)
    BY <1>1, <1>2, <2>1 DEF UpdateUnit, Write, storeVars, TypeOK
  <2> QED
    BY <2>1, <2>2 DEF Next
<1>3. CASE op.kind = "DisableUnit"
  <2>1. /\ op.unit \in Units /\ units[op.unit] # "absent"
        /\ \A t \in Tenants : /\ assignments[t].unit # op.unit
                              /\ moves[t].source # op.unit /\ moves[t].target # op.unit
    BY <1>1, <1>3, OpFields, Order DEF Established, UnitFits, UnitOf, RemovalKinds
  <2>2. DisableUnit(op.unit)
    BY <1>1, <1>3, <2>1 DEF DisableUnit, Referenced, Write
  <2> QED
    BY <2>1, <2>2 DEF Next
<1>4. CASE op.kind = "DeleteUnit"
  <2>1. /\ op.unit \in Units /\ units[op.unit] # "absent"
        /\ \A t \in Tenants : /\ assignments[t].unit # op.unit
                              /\ moves[t].source # op.unit /\ moves[t].target # op.unit
    BY <1>1, <1>4, OpFields, Order DEF Established, UnitFits, UnitOf, RemovalKinds
  <2>2. DeleteUnit(op.unit)
    BY <1>1, <1>4, <2>1 DEF DeleteUnit, Referenced, Write
  <2> QED
    BY <2>1, <2>2 DEF Next
<1>5. CASE op.kind = "CreateAssignment"
  <2>1. /\ op.tenant \in Tenants /\ op.updated \in Assignment
        /\ units[op.updated.unit] = "active" /\ assignments[op.tenant] = NoAssignment
    BY <1>1, <1>5, OpFields, Order
    DEF Established, UnitFits, AssignmentFits, UnitOf, AssignmentKinds
  <2>2. CreateAssignment(op.tenant, op.updated)
    BY <1>1, <1>5, <2>1 DEF CreateAssignment, Write
  <2> QED
    BY <2>1, <2>2 DEF Next
<1>6. CASE op.kind = "CompareAndSwapAssignment"
  <2>1. /\ op.tenant \in Tenants /\ op.updated \in Assignment /\ op.expected \in Assignment
        /\ assignments[op.tenant] = op.expected
    BY <1>1, <1>6, OpFields DEF Established, AssignmentFits, AssignmentKinds
  <2>2. units[op.updated.unit] = "active"
    <3>1. CASE ReadsUnit(op)
      BY <1>1, <1>6, <3>1 DEF Established, UnitFits, UnitOf
    <3>2. CASE ~ReadsUnit(op)
      <4>1. op.updated.unit = op.expected.unit
        BY <1>1, <1>6, <3>2, Order
      <4>2. assignments[op.tenant] # NoAssignment
        BY <2>1, ZeroValues
      <4> QED
        BY <1>1, <2>1, <4>1, <4>2 DEF PlacementValid
    <3> QED
      BY <3>1, <3>2
  <2>3. CompareAndSwapAssignment(op.tenant, op.expected, op.updated)
    BY <1>1, <1>6, <2>1, <2>2 DEF CompareAndSwapAssignment, Write
  <2> QED
    BY <2>1, <2>3 DEF Next
<1>7. CASE op.kind = "CutoverMove"
  <2>1. /\ op.tenant \in Tenants /\ op.updated \in Assignment /\ op.expected \in Assignment
        /\ op.move \in Move /\ op.expected.unit = op.move.source
        /\ op.updated = [unit |-> op.move.target, version |-> op.expected.version + 1]
    BY <1>1, <1>7, OpFields DEF AssignmentKinds, MoveKinds
  <2>2. ReadsUnit(op)
    BY <1>1, <1>7, Order
  <2>3. /\ units[op.updated.unit] = "active" /\ assignments[op.tenant] = op.expected
        /\ moves[op.tenant] = op.move
    BY <1>1, <1>7, <2>2
    DEF Established, UnitFits, AssignmentFits, MoveFits, UnitOf, AssignmentKinds, MoveKinds
  <2>4. CutoverMove(op.tenant, op.expected, op.move, op.updated)
    BY <1>1, <1>7, <2>1, <2>3 DEF CutoverMove, Write
  <2> QED
    BY <2>1, <2>4 DEF Next
<1>8. CASE op.kind = "CreateMove"
  <2>1. op.tenant \in Tenants /\ op.move \in Move /\ ReadsUnit(op)
    BY <1>1, <1>8, OpFields, Order DEF MoveKinds
  <2>2. /\ units[op.move.target] = "active" /\ assignments[op.tenant].unit = op.move.source
        /\ moves[op.tenant] = NoMove
    BY <1>1, <1>8, <2>1
    DEF Established, UnitFits, AssignmentFits, MoveFits, UnitOf, AssignmentKinds, MoveKinds
  <2>3. CreateMove(op.tenant, op.move)
    BY <1>1, <1>8, <2>2 DEF CreateMove, Write
  <2> QED
    BY <2>1, <2>3 DEF Next
<1>9. CASE op.kind = "DeleteMoveIfMatch"
  <2>1. op.tenant \in Tenants /\ op.move \in Move /\ moves[op.tenant] = op.move
    BY <1>1, <1>9, OpFields DEF Established, MoveFits, MoveKinds
  <2>2. DeleteMoveIfMatch(op.tenant, op.move)
    BY <1>1, <1>9, <2>1 DEF DeleteMoveIfMatch, Write
  <2> QED
    BY <2>1, <2>2 DEF Next
<1> QED
  BY <1>1, <1>2, <1>3, <1>4, <1>5, <1>6, <1>7, <1>8, <1>9, OpFields
  DEF RemovalKinds, AssignmentKinds, MoveKinds

\* With row locks a commit changes rows and references that its session holds.
LEMMA CommitFootprint ==
    ASSUME SQLInv, NEW s \in Sessions, Commit(s), dialect = "mysql"
    PROVE  Footprint(s)
<1> DEFINE op == tx[s].op
<1>1. /\ op \in Ops /\ Write(op) /\ Established(op, "commit") /\ Locked(s, op, "commit")
      /\ TypeOK
  BY CommitReads DEF SQLInv, SQLTypeOK
<1> HIDE DEF op
<1>2. CASE op.kind \in {"UpdateUnit"} \cup RemovalKinds
  <2>1. op.unit \in Units /\ unitLock[op.unit] = s
    BY <1>1, <1>2, OpFields, Order DEF Locked, UnitOf, RemovalKinds
  <2>2. /\ \A u \in Units \ {op.unit} : units'[u] = units[u]
        /\ UNCHANGED <<assignments, moves>>
    BY <1>1, <1>2 DEF Write, TypeOK, RemovalKinds
  <2> QED
    BY <2>1, <2>2 DEF Footprint
<1>3. CASE op.kind \in AssignmentKinds \ {"CreateMove"}
  <2>1. /\ op.tenant \in Tenants /\ assignmentLock[op.tenant] = s /\ op.updated \in Assignment
        /\ op.kind = "CutoverMove" => moveLock[op.tenant] = s
    BY <1>1, <1>3, OpFields DEF Locked, AssignmentKinds, MoveKinds
  <2>2. unitLock[op.updated.unit] = s \/ assignments[op.tenant].unit = op.updated.unit
    <3>1. CASE ReadsUnit(op)
      BY <1>1, <1>3, <3>1 DEF Locked, UnitOf, AssignmentKinds
    <3>2. CASE ~ReadsUnit(op)
      BY <1>1, <1>3, <3>2, Order DEF Established, AssignmentFits, AssignmentKinds
    <3> QED
      BY <3>1, <3>2
  <2>3. /\ units' = units
        /\ \A t \in Tenants \ {op.tenant} : assignments'[t] = assignments[t] /\ moves'[t] = moves[t]
        /\ assignments'[op.tenant] = op.updated
        /\ op.kind = "CutoverMove" => moves'[op.tenant] = NoMove
        /\ op.kind # "CutoverMove" => moves'[op.tenant] = moves[op.tenant]
    BY <1>1, <1>3, <2>1 DEF Write, TypeOK, AssignmentKinds
  <2> QED
    BY <2>1, <2>2, <2>3, ZeroValues DEF Footprint
<1>4. CASE op.kind = "CreateMove"
  <2>1. /\ op.tenant \in Tenants /\ moveLock[op.tenant] = s /\ unitLock[op.move.target] = s
        /\ assignments[op.tenant].unit = op.move.source
    <3>1. ReadsUnit(op)
      BY <1>1, <1>4, Order
    <3> QED
      BY <1>1, <1>4, <3>1, OpFields
      DEF Locked, Established, AssignmentFits, UnitOf, AssignmentKinds, MoveKinds
  <2>2. /\ units' = units /\ assignments' = assignments
        /\ \A t \in Tenants \ {op.tenant} : moves'[t] = moves[t]
        /\ moves'[op.tenant] = op.move
    BY <1>1, <1>4, <2>1 DEF Write, TypeOK
  <2> QED
    BY <2>1, <2>2 DEF Footprint
<1>5. CASE op.kind = "DeleteMoveIfMatch"
  <2>1. op.tenant \in Tenants /\ moveLock[op.tenant] = s
    BY <1>1, <1>5, OpFields DEF Locked, MoveKinds
  <2>2. /\ units' = units /\ assignments' = assignments
        /\ \A t \in Tenants \ {op.tenant} : moves'[t] = moves[t]
        /\ moves'[op.tenant] = NoMove
    BY <1>1, <1>5, <2>1 DEF Write, TypeOK
  <2> QED
    BY <2>1, <2>2, ZeroValues DEF Footprint
<1> QED
  BY <1>1, <1>2, <1>3, <1>4, <1>5, OpFields DEF RemovalKinds, AssignmentKinds, MoveKinds

\* A write marks the overtaken transactions and changes no other part of them.
LEMMA OverwriteTx ==
    ASSUME SQLInv, NEW others \in SUBSET Sessions
    PROVE  /\ Overwrite(others) \in [Sessions -> Tx \cup {NoTx}]
           /\ \A r \in Sessions : Overwrite(others)[r].at = tx[r].at
           /\ \A r \in others : Overwrite(others)[r] =
                IF dialect = "sqlite" /\ Open(r) /\ tx[r].at # After(tx[r].op, "begin")
                  THEN [tx[r] EXCEPT !.stale = TRUE] ELSE tx[r]
<1>1. ASSUME NEW r \in Sessions, Open(r)
      PROVE  [tx[r] EXCEPT !.stale = TRUE] \in Tx /\ [tx[r] EXCEPT !.stale = TRUE].at = tx[r].at
  <2>1. tx[r] \in Tx
    BY <1>1, OpenTx DEF SQLInv
  <2> QED
    BY <2>1 DEF Tx
<1>2. tx \in [Sessions -> Tx \cup {NoTx}]
  BY DEF SQLInv, SQLTypeOK
<1> QED
  BY <1>1, <1>2 DEF Overwrite

\* A commit preserves the invariant.
LEMMA CommitInv ==
    ASSUME SQLInv, NEW s \in Sessions, Commit(s)
    PROVE  SQLInv'
<1>1. /\ Release(s) /\ UNCHANGED dialect
      /\ tx' = [Overwrite(Sessions \ {s}) EXCEPT ![s] = NoTx]
  BY CommitReads
<1>2. /\ tx' \in [Sessions -> Tx \cup {NoTx}] /\ tx'[s] = NoTx
      /\ \A r \in Sessions \ {s} : tx'[r].at = tx[r].at
      /\ \A r \in Sessions \ {s} : tx'[r] =
            IF dialect = "sqlite" /\ Open(r) /\ tx[r].at # After(tx[r].op, "begin")
              THEN [tx[r] EXCEPT !.stale = TRUE] ELSE tx[r]
  BY <1>1, OverwriteTx
<1>3. TypeOK' /\ PlacementValid'
  BY CommitIsOperation, InvStep DEF SQLInv, SQLTypeOK, Inv
<1>4. SQLTypeOK'
  BY <1>1, <1>2, <1>3, ReleaseLocks DEF SQLInv, SQLTypeOK
<1>5. ASSUME NEW r \in Sessions \ {s} PROVE Sound(r)'
  BY <1>1, <1>2, ReleaseLocks, CommitFootprint, Interference
<1>6. Sound(s)'
  BY <1>2 DEF Sound, Open
<1> QED
  BY <1>3, <1>4, <1>5, <1>6 DEF SQLInv

\* A single statement outside a transaction preserves the invariant.
LEMMA AutocommitInv ==
    ASSUME SQLInv, Next, Footprint(NoSession), tx' = Overwrite(Sessions),
           UNCHANGED <<dialect, locks>>
    PROVE  SQLInv'
<1>1. /\ tx' \in [Sessions -> Tx \cup {NoTx}]
      /\ \A r \in Sessions : tx'[r].at = tx[r].at
      /\ \A r \in Sessions : tx'[r] =
            IF dialect = "sqlite" /\ Open(r) /\ tx[r].at # After(tx[r].op, "begin")
              THEN [tx[r] EXCEPT !.stale = TRUE] ELSE tx[r]
  BY OverwriteTx
<1>2. TypeOK' /\ PlacementValid'
  BY InvStep DEF SQLInv, SQLTypeOK, Inv
<1>3. SQLTypeOK'
  BY <1>1, <1>2 DEF SQLInv, SQLTypeOK, locks
<1>4. ASSUME NEW r \in Sessions PROVE Sound(r)'
  <2>1. KeepsLocks(r)
    BY DEF KeepsLocks, locks
  <2> QED
    BY <1>1, <2>1, SessionsAssumption, Interference
<1> QED
  BY <1>2, <1>3, <1>4 DEF SQLInv

\* CreateUnit and DeleteMove are such statements.
LEMMA SingleStatements ==
    ASSUME SQLInv,
           \/ \E u \in Units, st \in {"active", "disabled"} : InsertUnit(u, st)
           \/ \E t \in Tenants : DeleteMoveRow(t)
    PROVE  Next /\ SQLInv'
<1>0. TypeOK
  BY DEF SQLInv, SQLTypeOK
<1>1. ASSUME NEW u \in Units, NEW st \in {"active", "disabled"}, InsertUnit(u, st)
      PROVE  Next /\ SQLInv'
  <2>1. Next
    BY <1>1 DEF InsertUnit, Next
  <2>2. Footprint(NoSession)
    BY <1>0, <1>1 DEF InsertUnit, CreateUnit, Footprint, TypeOK
  <2> QED
    BY <1>1, <2>1, <2>2, AutocommitInv DEF InsertUnit
<1>2. ASSUME NEW t \in Tenants, DeleteMoveRow(t)
      PROVE  Next /\ SQLInv'
  <2>1. Next
    BY <1>2 DEF DeleteMoveRow, Next
  <2>2. Footprint(NoSession)
    BY <1>0, <1>2, ZeroValues DEF DeleteMoveRow, DeleteMove, Footprint, TypeOK
  <2> QED
    BY <1>2, <2>1, <2>2, AutocommitInv DEF DeleteMoveRow
<1> QED
  BY <1>1, <1>2

-----------------------------------------------------------------------------
\* Every step preserves the invariant and is a step of the store contract or
\* leaves the tables alone.
LEMMA SQLStep == SQLInv /\ [SQLNext]_sqlVars => SQLInv' /\ [Next]_storeVars
<1> SUFFICES ASSUME SQLInv, [SQLNext]_sqlVars PROVE SQLInv' /\ [Next]_storeVars
  OBVIOUS
<1>1. ASSUME NEW s \in Sessions, NEW op \in Ops, Begin(s, op)
      PROVE  SQLInv' /\ UNCHANGED storeVars
  BY <1>1, BeginInv DEF Begin
<1>2. ASSUME NEW s \in Sessions, LockUnit(s) PROVE SQLInv' /\ UNCHANGED storeVars
  BY <1>2, LockUnitInv DEF LockUnit
<1>3. ASSUME NEW s \in Sessions, ScanAssignments(s) PROVE SQLInv' /\ UNCHANGED storeVars
  BY <1>3, ScanAssignmentsInv DEF ScanAssignments
<1>4. ASSUME NEW s \in Sessions, ScanMoves(s) PROVE SQLInv' /\ UNCHANGED storeVars
  BY <1>4, ScanMovesInv DEF ScanMoves
<1>5. ASSUME NEW s \in Sessions, LockAssignment(s) PROVE SQLInv' /\ UNCHANGED storeVars
  BY <1>5, LockAssignmentInv DEF LockAssignment
<1>6. ASSUME NEW s \in Sessions, LockMove(s) PROVE SQLInv' /\ UNCHANGED storeVars
  BY <1>6, LockMoveInv DEF LockMove
<1>7. ASSUME NEW s \in Sessions, Commit(s) PROVE SQLInv' /\ Next
  BY <1>7, CommitInv, CommitIsOperation
<1>8. ASSUME NEW s \in Sessions, Rollback(s) PROVE SQLInv' /\ UNCHANGED storeVars
  BY <1>8, RollbackInv DEF Rollback
<1>9. CASE \/ \E u \in Units, st \in {"active", "disabled"} : InsertUnit(u, st)
           \/ \E t \in Tenants : DeleteMoveRow(t)
  BY <1>9, SingleStatements
<1>10. CASE UNCHANGED sqlVars
  <2>1. UNCHANGED <<units, assignments, moves, dialect, tx, unitLock, assignmentLock, moveLock>>
    BY <1>10 DEF sqlVars, locks
  <2> QED
    BY <2>1 DEF SQLInv, SQLTypeOK, TypeOK, PlacementValid, Sound, Open, OnPath,
       Established, Locked, UnitFits, AssignmentFits, MoveFits, storeVars
<1> QED
  BY <1>1, <1>2, <1>3, <1>4, <1>5, <1>6, <1>7, <1>8, <1>9, <1>10 DEF SQLNext, SessionStep

\* The invariant holds throughout.
LEMMA SQLInvariance == SQLSpec => []SQLInv
BY SQLInvInit, SQLStep, PTL DEF SQLSpec

\* SQLStore implements the store contract: each transaction takes effect as one
\* operation of DeploymentStore, whatever the others do between its statements.
THEOREM SQLImplementsStore == SQLSpec => ImplementsStore
<1>1. SQLInit => Init
  BY DEF SQLInit
<1> QED
  BY <1>1, SQLInvariance, SQLStep, PTL DEF SQLSpec, ImplementsStore, Spec

\* Tables, transactions and locks are well typed, and nothing is placed on, or
\* moved from or to, a unit that is not active.
THEOREM SQLPlacement == SQLSpec => [](SQLTypeOK /\ PlacementValid)
<1>1. SQLInv => SQLTypeOK /\ PlacementValid
  BY DEF SQLInv
<1> QED
  BY <1>1, SQLInvariance, PTL

=============================================================================
