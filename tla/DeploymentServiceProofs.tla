----------------------- MODULE DeploymentServiceProofs -----------------------
(***************************************************************************)
(* Safety of the deployment service for any number of instances, callers,  *)
(* tenants and units.                                                      *)
(***************************************************************************)
EXTENDS DeploymentService, FiniteSetTheorems, TLAPS

\* Type correctness depends on the other three parts only through itself; the
\* mutex part is what makes a label stand for a held mutationMu.
IInv == /\ TypeOK
        /\ PlacementValid
        /\ MoveFromCurrentUnit
        /\ OneMutatorPerInstance

\* The zero values are no assignments and no moves.
LEMMA ZeroValues ==
    /\ NoAssignment \notin Directory!Assignment
    /\ NoMove \notin Directory!Move
    /\ NoAssignment.unit = NoUnit
    /\ NoUnit \notin Units
    /\ \A m \in Directory!Move : m.source \in Units /\ m.target \in Units
    /\ \A a \in Directory!Assignment : a.unit \in Units
BY DirectoryAssumption DEF NoAssignment, NoMove, Directory!NoAssignment,
   Directory!NoMove, Directory!Assignment, Directory!Move

\* The initial state satisfies the inductive invariant.
LEMMA InvInit == Init => IInv
BY DirectoryAssumption, HomeAssumption, NoClientAssumption
   DEF Init, IInv, TypeOK, PlacementValid, MoveFromCurrentUnit, OneMutatorPerInstance,
   Directory!Init, Directory!TypeOK, Directory!PlacementValid, NoAssignment, NoMove,
   Labels, Single, First, Held, UnitHeld, MoveHeld, AssignmentHeld

\* Typing of one step, one case per action.
LEMMA TypeStep == TypeOK /\ [Next]_vars => TypeOK'
<1> SUFFICES ASSUME TypeOK, [Next]_vars PROVE TypeOK'
  OBVIOUS
<1> USE HomeAssumption, ZeroValues
    DEF TypeOK, Directory!TypeOK, Labels, Single, First, Held, UnitHeld, MoveHeld,
        AssignmentHeld, Goto, Lock, Unlock, Refuse, Commit, Reset, storeVars, locals,
        NoAssignment, NoMove
<1>1. ASSUME NEW c \in Clients, Call(c) PROVE TypeOK'
  BY <1>1 DEF Call, CallUnitOperation, CallPlacement, CallMove, Begin
<1>2. ASSUME NEW c \in Clients, CreateUnit(c) PROVE TypeOK'
  BY <1>2 DEF CreateUnit, Directory!CreateUnit, Directory!Statuses
<1>3. ASSUME NEW c \in Clients, UpdateUnit(c) PROVE TypeOK'
  BY <1>3 DEF UpdateUnit, Directory!UpdateUnit, Directory!storeVars
<1>4. ASSUME NEW c \in Clients, DisableUnit(c) PROVE TypeOK'
  BY <1>4 DEF DisableUnit, Directory!DisableUnit, Directory!Statuses
<1>5. ASSUME NEW c \in Clients, FindUnit(c) PROVE TypeOK'
  BY <1>5 DEF FindUnit
<1>6. ASSUME NEW c \in Clients, DeleteUnit(c) PROVE TypeOK'
  BY <1>6 DEF DeleteUnit, Directory!DeleteUnit, Directory!Statuses
<1>7. ASSUME NEW c \in Clients, Assign(c) PROVE TypeOK'
  BY <1>7 DEF Assign
<1>8. ASSUME NEW c \in Clients, CreateAssignment(c) PROVE TypeOK'
  <2>1. [unit |-> unit[c], version |-> 1] \in Directory!Assignment
    BY <1>8, DirectoryAssumption DEF CreateAssignment, Directory!Assignment
  <2> QED
    BY <1>8, <2>1 DEF CreateAssignment, Directory!CreateAssignment
<1>9. ASSUME NEW c \in Clients, PrepareMove(c) PROVE TypeOK'
  BY <1>9 DEF PrepareMove, Directory!Move
<1>10. ASSUME NEW c \in Clients, MoveTarget(c) PROVE TypeOK'
  BY <1>10 DEF MoveTarget
<1>11. ASSUME NEW c \in Clients, CreateMove(c) PROVE TypeOK'
  BY <1>11 DEF CreateMove, Directory!CreateMove
<1>12. ASSUME NEW c \in Clients, Cutover(c) PROVE TypeOK'
  BY <1>12 DEF Cutover, ReadMove
<1>13. ASSUME NEW c \in Clients, CutoverCurrent(c) PROVE TypeOK'
  BY <1>13 DEF CutoverCurrent
<1>14. ASSUME NEW c \in Clients, CutoverTarget(c) PROVE TypeOK'
  BY <1>14 DEF CutoverTarget
<1>15. ASSUME NEW c \in Clients, CutoverMove(c) PROVE TypeOK'
  BY <1>15 DEF CutoverMove, Directory!CutoverMove
<1>16. ASSUME NEW c \in Clients, CancelMove(c) PROVE TypeOK'
  BY <1>16 DEF CancelMove, ReadMove
<1>17. ASSUME NEW c \in Clients, DeleteMove(c) PROVE TypeOK'
  BY <1>17 DEF DeleteMove, Directory!DeleteMoveIfMatch
<1>18. ASSUME NEW c \in Clients, StoreFails(c) PROVE TypeOK'
  BY <1>18 DEF StoreFails
<1>19. ASSUME NEW c \in Clients, Emit(c) PROVE TypeOK'
  BY <1>19 DEF Emit
<1>20. ASSUME NEW c \in Clients, Resolve(c) PROVE TypeOK'
  BY <1>20 DEF Resolve
<1>21. ASSUME NEW c \in Clients, ResolveUnit(c) PROVE TypeOK'
  BY <1>21 DEF ResolveUnit
<1>22. CASE Done
  BY <1>22 DEF Done, vars
<1>23. CASE UNCHANGED vars
  BY <1>23 DEF vars
<1> QED
  BY <1>1, <1>2, <1>3, <1>4, <1>5, <1>6, <1>7, <1>8, <1>9, <1>10, <1>11, <1>12, <1>13,
     <1>14, <1>15, <1>16, <1>17, <1>18, <1>19, <1>20, <1>21, <1>22, <1>23 DEF Next, Step

\* The local variables of every caller, and the directory, stay well typed.
THEOREM TypeCorrect == Spec => []TypeOK
<1>1. Init => TypeOK
  BY InvInit DEF IInv
<1> QED
  BY <1>1, TypeStep, PTL DEF Spec

-----------------------------------------------------------------------------
\* mutationMu is held exactly by the caller inside a compound operation.
LEMMA MutexStep == TypeOK /\ OneMutatorPerInstance /\ [Next]_vars => OneMutatorPerInstance'
<1> SUFFICES ASSUME TypeOK, OneMutatorPerInstance, [Next]_vars
             PROVE  OneMutatorPerInstance'
  OBVIOUS
<1> USE HomeAssumption, NoClientAssumption
    DEF OneMutatorPerInstance, TypeOK, Labels, Single, First, Held, Goto, Free, Lock,
        Unlock, Refuse, Commit
<1>1. ASSUME NEW c \in Clients, Call(c) PROVE OneMutatorPerInstance'
  BY <1>1 DEF Call, CallUnitOperation, CallPlacement, CallMove, Begin
<1>2. ASSUME NEW c \in Clients,
             \/ FindUnit(c) \/ Assign(c) \/ PrepareMove(c) \/ Cutover(c) \/ CancelMove(c)
      PROVE  OneMutatorPerInstance'
  BY <1>2 DEF FindUnit, Assign, PrepareMove, Cutover, CancelMove, ReadMove
<1>3. ASSUME NEW c \in Clients,
             \/ MoveTarget(c) \/ CutoverCurrent(c) \/ CutoverTarget(c)
             \/ Emit(c) \/ Resolve(c) \/ ResolveUnit(c)
      PROVE  OneMutatorPerInstance'
  BY <1>3 DEF MoveTarget, CutoverCurrent, CutoverTarget, Emit, Resolve, ResolveUnit
<1>4. ASSUME NEW c \in Clients, CreateUnit(c) \/ UpdateUnit(c) \/ DisableUnit(c)
      PROVE  OneMutatorPerInstance'
  BY <1>4 DEF CreateUnit, UpdateUnit, DisableUnit
<1>5. ASSUME NEW c \in Clients, DeleteUnit(c) \/ CreateAssignment(c) \/ CreateMove(c)
      PROVE  OneMutatorPerInstance'
  BY <1>5 DEF DeleteUnit, CreateAssignment, CreateMove
<1>6. ASSUME NEW c \in Clients, CutoverMove(c) \/ DeleteMove(c) \/ StoreFails(c)
      PROVE  OneMutatorPerInstance'
  BY <1>6 DEF CutoverMove, DeleteMove, StoreFails
<1>7. CASE Done \/ UNCHANGED vars
  BY <1>7 DEF Done, vars
<1> QED
  BY <1>1, <1>2, <1>3, <1>4, <1>5, <1>6, <1>7 DEF Next, Step

-----------------------------------------------------------------------------
\* A step of the service is one operation of the store, or changes nothing in it.
LEMMA StoreStep == TypeOK /\ [Next]_vars => [Directory!Next]_Directory!storeVars
<1> SUFFICES ASSUME TypeOK, [Next]_vars
             PROVE  Directory!Next \/ UNCHANGED storeVars
  BY DEF storeVars, Directory!storeVars
<1> USE ZeroValues DEF TypeOK, Directory!TypeOK, Single, UnitHeld, MoveHeld, AssignmentHeld
<1>1. ASSUME NEW c \in Clients, CreateUnit(c) \/ UpdateUnit(c) \/ DisableUnit(c) \/ DeleteUnit(c)
      PROVE  Directory!Next
  BY <1>1 DEF CreateUnit, UpdateUnit, DisableUnit, DeleteUnit, Directory!Next
<1>2. ASSUME NEW c \in Clients, CreateAssignment(c) PROVE Directory!Next
  <2>1. [unit |-> unit[c], version |-> 1] \in Directory!Assignment
    BY <1>2, DirectoryAssumption DEF CreateAssignment, Directory!Assignment
  <2> QED
    BY <1>2, <2>1 DEF CreateAssignment, Directory!Next
<1>3. ASSUME NEW c \in Clients, CreateMove(c) PROVE Directory!Next
  BY <1>3 DEF CreateMove, Directory!Next
<1>4. ASSUME NEW c \in Clients, CutoverMove(c) PROVE Directory!Next
  <2>1. [unit |-> move[c].target, version |-> assignment[c].version + 1] \in Directory!Assignment
    BY <1>4 DEF CutoverMove, Directory!CutoverMove
  <2> QED
    BY <1>4, <2>1 DEF CutoverMove, Directory!Next
<1>5. ASSUME NEW c \in Clients, DeleteMove(c) PROVE Directory!Next
  BY <1>5 DEF DeleteMove, Directory!Next
<1>6. ASSUME NEW c \in Clients,
             \/ Call(c) \/ FindUnit(c) \/ Assign(c) \/ PrepareMove(c) \/ MoveTarget(c)
             \/ Cutover(c) \/ CutoverCurrent(c) \/ CutoverTarget(c) \/ CancelMove(c)
             \/ StoreFails(c) \/ Emit(c) \/ Resolve(c) \/ ResolveUnit(c)
      PROVE  UNCHANGED storeVars
  BY <1>6 DEF Call, CallUnitOperation, CallPlacement, CallMove, Begin, FindUnit, Assign,
     PrepareMove, MoveTarget, Cutover, CancelMove, ReadMove, CutoverCurrent, CutoverTarget,
     StoreFails, Emit, Resolve, ResolveUnit, storeVars
<1>7. CASE Done \/ UNCHANGED vars
  BY <1>7 DEF Done, vars, storeVars
<1> QED
  BY <1>1, <1>2, <1>3, <1>4, <1>5, <1>6, <1>7 DEF Next, Step

\* The service implements the abstract directory: through every interleaving of
\* instances the three tables change only by whole store operations.
THEOREM ServiceImplementsStore == Spec => Directory!Spec
<1>1. Init => Directory!Init
  BY DEF Init
<1> QED
  BY <1>1, TypeCorrect, StoreStep, PTL DEF Spec, Directory!Spec

-----------------------------------------------------------------------------
\* The placement facts survive every operation of the service.  CreateMove needs
\* them: the source it checks is the unit of an assignment, hence active.
LEMMA PlacementStep ==
    TypeOK /\ PlacementValid /\ MoveFromCurrentUnit /\ [Next]_vars
        => PlacementValid' /\ MoveFromCurrentUnit'
<1> DEFINE P == PlacementValid /\ MoveFromCurrentUnit
<1> SUFFICES ASSUME TypeOK, P, [Next]_vars PROVE P'
  OBVIOUS
<1> USE ZeroValues DEF P, PlacementValid, Directory!PlacementValid, MoveFromCurrentUnit,
        TypeOK, Directory!TypeOK, Single, UnitHeld, MoveHeld, AssignmentHeld,
        NoAssignment, NoMove
<1>1. ASSUME NEW c \in Clients, CreateUnit(c) PROVE P'
  BY <1>1 DEF CreateUnit, Directory!CreateUnit
<1>2. ASSUME NEW c \in Clients, DisableUnit(c) PROVE P'
  BY <1>2 DEF DisableUnit, Directory!DisableUnit, Directory!Referenced
<1>3. ASSUME NEW c \in Clients, DeleteUnit(c) PROVE P'
  BY <1>3 DEF DeleteUnit, Directory!DeleteUnit, Directory!Referenced
<1>4. ASSUME NEW c \in Clients, CreateAssignment(c) PROVE P'
  BY <1>4 DEF CreateAssignment, Directory!CreateAssignment
<1>5. ASSUME NEW c \in Clients, CreateMove(c) PROVE P'
  <2> DEFINE t == tenant[c]
  <2>1. assignments[t] # NoAssignment /\ units[move[c].source] = "active"
    BY <1>5 DEF CreateMove, Directory!CreateMove
  <2> QED
    BY <1>5, <2>1 DEF CreateMove, Directory!CreateMove
<1>6. ASSUME NEW c \in Clients, CutoverMove(c) PROVE P'
  BY <1>6 DEF CutoverMove, Directory!CutoverMove
<1>7. ASSUME NEW c \in Clients, DeleteMove(c) PROVE P'
  BY <1>7 DEF DeleteMove, Directory!DeleteMoveIfMatch
<1>8. ASSUME NEW c \in Clients,
             \/ Call(c) \/ UpdateUnit(c) \/ FindUnit(c) \/ Assign(c) \/ PrepareMove(c)
             \/ MoveTarget(c) \/ Cutover(c) \/ CutoverCurrent(c) \/ CutoverTarget(c)
             \/ CancelMove(c) \/ StoreFails(c) \/ Emit(c) \/ Resolve(c) \/ ResolveUnit(c)
      PROVE  P'
  <2>1. UNCHANGED storeVars
    BY <1>8 DEF Call, CallUnitOperation, CallPlacement, CallMove, Begin, UpdateUnit,
       Directory!UpdateUnit, Directory!storeVars, FindUnit, Assign, PrepareMove, MoveTarget,
       Cutover, CancelMove, ReadMove, CutoverCurrent, CutoverTarget, StoreFails, Emit,
       Resolve, ResolveUnit, storeVars
  <2> QED
    BY <2>1 DEF storeVars
<1>9. CASE Done \/ UNCHANGED vars
  BY <1>9 DEF Done, vars
<1> QED
  BY <1>1, <1>2, <1>3, <1>4, <1>5, <1>6, <1>7, <1>8, <1>9 DEF Next, Step

\* The inductive invariant holds in every reachable state.
LEMMA InvAlways == Spec => []IInv
<1>1. IInv /\ [Next]_vars => IInv'
  BY TypeStep, MutexStep, PlacementStep DEF IInv
<1> QED
  BY InvInit, <1>1, PTL DEF Spec

\* However the instances interleave, tenants are placed on, and moved between,
\* active units of the directory only.
THEOREM ServicePlacement == Spec => []PlacementValid
BY InvAlways, PTL DEF IInv

\* A prepared move always starts at the tenant's current unit: PrepareMove, cutover
\* and CancelMove of any instances leave no stale move behind.
THEOREM ServiceMovesFresh == Spec => []MoveFromCurrentUnit
BY InvAlways, PTL DEF IInv

\* At most one compound operation is under way in an instance.
THEOREM ServiceMutex == Spec => []OneMutatorPerInstance
BY InvAlways, PTL DEF IInv

-----------------------------------------------------------------------------
(* Reports of cutovers.                                                    *)

\* The clients about to report a cutover of t, and the cutovers of t that were
\* reported or will be.
Announcing(t) == {c \in Clients : pc[c] = "emitCutover" /\ tenant[c] = t}
Announced(t) == reported[t] + Cardinality(Announcing(t))

\* There are as many clients about to report as a natural number says.
LEMMA AnnouncingFinite ==
    ASSUME NEW t \in Tenants
    PROVE  /\ IsFiniteSet(Announcing(t)) /\ IsFiniteSet(Announcing(t)')
           /\ Cardinality(Announcing(t)) \in Nat /\ Cardinality(Announcing(t)') \in Nat
<1>1. Announcing(t) \subseteq Clients /\ Announcing(t)' \subseteq Clients
  BY DEF Announcing
<1>2. IsFiniteSet(Announcing(t)) /\ IsFiniteSet(Announcing(t)')
  BY <1>1, ClientsAssumption, FS_Subset
<1> QED
  BY <1>2, FS_CardinalityType

\* A step adds at most one cutover to those announced, the one that gives the
\* assignment its next version.
LEMMA AnnouncedStep ==
    ASSUME TypeOK, [Next]_vars, NEW t \in Tenants
    PROVE  \/ Announced(t)' <= Announced(t) /\ assignments'[t].version >= assignments[t].version
           \/ /\ Announced(t)' <= Announced(t) + 1
              /\ assignments[t].version >= 1
              /\ assignments'[t].version = assignments[t].version + 1
<1> USE AnnouncingFinite
<1> DEFINE Grows == assignments'[t].version >= assignments[t].version
<1>1. reported[t] \in Nat /\ assignments[t].version \in Nat
  BY DirectoryAssumption DEF TypeOK, Directory!TypeOK, Directory!Assignment, NoAssignment,
     Directory!NoAssignment
<1>2. ASSUME Announcing(t)' \subseteq Announcing(t), reported'[t] = reported[t], Grows
      PROVE  Announced(t)' <= Announced(t) /\ Grows
  <2>1. Cardinality(Announcing(t)') <= Cardinality(Announcing(t))
    BY <1>2, FS_Subset
  <2> QED
    BY <2>1, <1>1, <1>2 DEF Announced
<1>3. ASSUME NEW c \in Clients, CutoverMove(c)
      PROVE  \/ Announced(t)' <= Announced(t) /\ Grows
             \/ /\ Announced(t)' <= Announced(t) + 1
                /\ assignments[t].version >= 1
                /\ assignments'[t].version = assignments[t].version + 1
  <2>1. reported' = reported /\ tenant' = tenant /\ pc[c] = "cutoverMove"
    BY <1>3 DEF CutoverMove, Commit, Reset
  <2>2. \A d \in Clients : d # c => pc'[d] = pc[d]
    BY <1>3 DEF CutoverMove, Commit, Goto, TypeOK
  <2>3. CASE tenant[c] = t
    <3>1. Announcing(t)' \subseteq Announcing(t) \cup {c}
      BY <2>1, <2>2 DEF Announcing
    <3>2. Cardinality(Announcing(t)') <= Cardinality(Announcing(t) \cup {c})
      BY <3>1, FS_AddElement, FS_Subset
    <3>3. Cardinality(Announcing(t) \cup {c}) <= Cardinality(Announcing(t)) + 1
      <4>1. Cardinality(Announcing(t) \cup {c}) \in {Cardinality(Announcing(t)), Cardinality(Announcing(t)) + 1}
        BY FS_AddElement
      <4> QED
        BY <4>1
    <3>4. Cardinality(Announcing(t) \cup {c}) \in Nat
      BY FS_AddElement, FS_CardinalityType
    <3>5. Announced(t)' <= Announced(t) + 1
      BY <3>2, <3>3, <3>4, <2>1, <1>1 DEF Announced
    <3>6. assignments[t] = assignment[c] /\ assignment[c] \in Directory!Assignment
      BY <1>3, <2>1, <2>3 DEF CutoverMove, Directory!CutoverMove, TypeOK, AssignmentHeld
    <3>7. assignments[t].version >= 1 /\ assignments'[t].version = assignments[t].version + 1
      BY <1>3, <2>3, <3>6, DirectoryAssumption DEF CutoverMove, Directory!CutoverMove, TypeOK,
         Directory!TypeOK, Directory!Assignment
    <3> QED
      BY <3>5, <3>7
  <2>4. CASE tenant[c] # t
    <3>1. assignments'[t] = assignments[t]
      BY <1>3, <2>4 DEF CutoverMove, Directory!CutoverMove, TypeOK, Directory!TypeOK
    <3> QED
      BY <1>1, <1>2, <2>1, <2>2, <2>4, <3>1 DEF Announcing
  <2> QED
    BY <2>3, <2>4
<1>4. ASSUME NEW c \in Clients, Emit(c)
      PROVE  Announced(t)' <= Announced(t) /\ Grows
  <2>1. assignments' = assignments /\ tenant' = tenant /\ pc' = [pc EXCEPT ![c] = "idle"]
    BY <1>4 DEF Emit, Goto, storeVars, locals
  <2>2. CASE pc[c] = "emitCutover" /\ tenant[c] = t
    <3>1. reported'[t] = reported[t] + 1
      BY <1>4, <2>2 DEF Emit, TypeOK
    <3>2. c \in Announcing(t) /\ Announcing(t)' = Announcing(t) \ {c}
      BY <2>1, <2>2 DEF Announcing, TypeOK
    <3>3. Cardinality(Announcing(t)') = Cardinality(Announcing(t)) - 1
      BY <3>2, FS_RemoveElement
    <3> QED
      BY <1>1, <2>1, <3>1, <3>3 DEF Announced
  <2>3. CASE ~(pc[c] = "emitCutover" /\ tenant[c] = t)
    <3>1. reported'[t] = reported[t]
      BY <1>4, <2>3 DEF Emit, TypeOK
    <3>2. Announcing(t)' \subseteq Announcing(t)
      BY <2>1, <2>3 DEF Announcing, TypeOK
    <3> QED
      BY <1>1, <1>2, <2>1, <3>1, <3>2
  <2> QED
    BY <2>2, <2>3
<1>5. ASSUME NEW c \in Clients, CreateAssignment(c)
      PROVE  Announced(t)' <= Announced(t) /\ Grows
  <2>1. Announcing(t)' \subseteq Announcing(t) /\ reported' = reported
    BY <1>5 DEF CreateAssignment, Commit, Goto, Reset, Announcing, TypeOK
  <2>2. Grows
    BY <1>1, <1>5, ZeroValues DEF CreateAssignment, Directory!CreateAssignment, TypeOK, Directory!TypeOK,
       NoAssignment, Directory!NoAssignment
  <2> QED
    BY <1>2, <2>1, <2>2
<1>6. ASSUME NEW c \in Clients,
             \/ Call(c) \/ CreateUnit(c) \/ UpdateUnit(c) \/ DisableUnit(c) \/ DeleteUnit(c)
             \/ FindUnit(c) \/ Assign(c) \/ PrepareMove(c) \/ MoveTarget(c) \/ CreateMove(c)
             \/ Cutover(c) \/ CutoverCurrent(c) \/ CutoverTarget(c) \/ CancelMove(c)
             \/ DeleteMove(c) \/ StoreFails(c) \/ Resolve(c) \/ ResolveUnit(c)
      PROVE  Announced(t)' <= Announced(t) /\ Grows
  <2>1. /\ reported' = reported /\ assignments' = assignments
        /\ \A d \in Clients : d # c => pc'[d] = pc[d] /\ tenant'[d] = tenant[d]
        /\ pc'[c] # "emitCutover"
    BY <1>6 DEF Call, CallUnitOperation, CallPlacement, CallMove, Begin, CreateUnit,
       UpdateUnit, DisableUnit, DeleteUnit, Directory!CreateUnit, Directory!UpdateUnit,
       Directory!DisableUnit, Directory!DeleteUnit, Directory!storeVars, FindUnit, Assign,
       PrepareMove, MoveTarget, CreateMove, Directory!CreateMove, Cutover, CancelMove,
       ReadMove, CutoverCurrent, CutoverTarget, DeleteMove, Directory!DeleteMoveIfMatch,
       StoreFails, Refuse, Resolve, ResolveUnit, Commit, Reset, Goto, storeVars, locals, Single, TypeOK
  <2>2. Announcing(t)' \subseteq Announcing(t)
    BY <2>1 DEF Announcing
  <2> QED
    BY <1>1, <1>2, <2>1, <2>2
<1>7. CASE UNCHANGED vars
  BY <1>1, <1>2, <1>7 DEF vars, Announcing
<1> QED
  BY <1>3, <1>4, <1>5, <1>6, <1>7 DEF Next, Step, Done

\* No version step is reported to two callers, however many instances run cutovers
\* of the same tenant (cutover, emit): the cutovers announced stay below the version.
THEOREM ServiceReports == Spec => []CutoversReportedOnce
<1>1. CutoversReportedOnce <=> \A t \in Tenants : Announced(t) = 0 \/ Announced(t) < assignments[t].version
  BY DEF CutoversReportedOnce, Announced, Announcing
<1>2. Init => CutoversReportedOnce
  <2> SUFFICES ASSUME Init, NEW t \in Tenants PROVE Announced(t) = 0
    BY <1>1
  <2>1. Announcing(t) = {} /\ reported[t] = 0
    BY DEF Init, Announcing
  <2> QED
    BY <2>1, FS_EmptySet DEF Announced
<1>3. TypeOK /\ CutoversReportedOnce /\ [Next]_vars => CutoversReportedOnce'
  <2> SUFFICES ASSUME TypeOK, CutoversReportedOnce, [Next]_vars, NEW t \in Tenants
               PROVE  Announced(t)' = 0 \/ Announced(t)' < assignments'[t].version
    BY DEF CutoversReportedOnce, Announced, Announcing
  <2>1. TypeOK'
    BY TypeStep
  <2>2. /\ reported[t] \in Nat /\ assignments[t].version \in Nat
        /\ reported'[t] \in Nat /\ assignments'[t].version \in Nat
    BY <2>1, DirectoryAssumption DEF TypeOK, Directory!TypeOK, Directory!Assignment, NoAssignment,
       Directory!NoAssignment
  <2>3. Announced(t) \in Nat /\ Announced(t)' \in Nat
    BY <2>2, AnnouncingFinite DEF Announced
  <2> QED
    BY <1>1, <2>2, <2>3, AnnouncedStep
<1> QED
  BY <1>2, <1>3, TypeCorrect, PTL DEF Spec

-----------------------------------------------------------------------------
\* An assignment only ever changes by Assign or along its prepared move, one
\* version at a time, and the same step removes the move.
THEOREM ServiceMovesOnly == Spec => ChangesAlongMoves
<1> DEFINE Along == \A t \in Tenants : assignments'[t] # assignments[t] =>
          IF assignments[t] = NoAssignment
          THEN assignments'[t].version = 1
          ELSE /\ moves[t] = [source |-> assignments[t].unit, target |-> assignments'[t].unit]
               /\ moves'[t] = NoMove
               /\ assignments'[t].version = assignments[t].version + 1
<1>1. TypeOK /\ [Next]_vars => [Along]_vars
  <2> SUFFICES ASSUME TypeOK, Next PROVE Along
    OBVIOUS
  <2> USE DEF TypeOK, Directory!TypeOK, MoveHeld, AssignmentHeld, NoAssignment, NoMove
  <2>1. ASSUME NEW c \in Clients, CreateAssignment(c) PROVE Along
    BY <2>1 DEF CreateAssignment, Directory!CreateAssignment
  <2>2. ASSUME NEW c \in Clients, CutoverMove(c) PROVE Along
    <3>1. move[c] = [source |-> move[c].source, target |-> move[c].target]
      BY <2>2 DEF CutoverMove, Directory!Move
    <3> QED
      BY <2>2, <3>1, ZeroValues DEF CutoverMove, Directory!CutoverMove
  <2>3. CASE UNCHANGED assignments
    BY <2>3
  <2>4. ASSUME NEW c \in Clients,
             \/ Call(c) \/ CreateUnit(c) \/ UpdateUnit(c) \/ DisableUnit(c) \/ DeleteUnit(c)
             \/ FindUnit(c) \/ Assign(c) \/ PrepareMove(c) \/ MoveTarget(c) \/ CreateMove(c)
             \/ Cutover(c) \/ CutoverCurrent(c) \/ CutoverTarget(c) \/ CancelMove(c)
             \/ DeleteMove(c) \/ StoreFails(c) \/ Emit(c) \/ Resolve(c) \/ ResolveUnit(c)
        PROVE UNCHANGED assignments
    BY <2>4 DEF Call, CallUnitOperation, CallPlacement, CallMove, Begin, CreateUnit,
       UpdateUnit, DisableUnit, DeleteUnit, Directory!CreateUnit, Directory!UpdateUnit,
       Directory!DisableUnit, Directory!DeleteUnit, Directory!storeVars, FindUnit, Assign,
       PrepareMove, MoveTarget, CreateMove, Directory!CreateMove, Cutover, CancelMove,
       ReadMove, CutoverCurrent, CutoverTarget, DeleteMove, Directory!DeleteMoveIfMatch,
       StoreFails, Emit, Resolve, ResolveUnit, storeVars
  <2> QED
    BY <2>1, <2>2, <2>3, <2>4 DEF Next, Step, Done, vars
<1> QED
  BY <1>1, TypeCorrect, PTL DEF Spec, ChangesAlongMoves
=============================================================================
