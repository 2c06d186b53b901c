-------------------------- MODULE DeploymentService --------------------------
(***************************************************************************)
(* deployment/service.go: service instances, each in its own process with  *)
(* its own mutationMu, over one shared Store.  A mutating call keeps       *)
(* mutationMu of its instance from its first store call to its last, so    *)
(* calls of one instance never interleave while calls of two instances     *)
(* interleave between any two store calls.  Locking is part of the first   *)
(* store call's step and unlocking part of the last one's.  The audit      *)
(* event is emitted after the unlock.  Any store call may fail: its        *)
(* context ended, its connection broke, or its commit was applied and the  *)
(* reply lost.                                                             *)
(***************************************************************************)
EXTENDS Naturals, FiniteSets

CONSTANTS
    Tenants, Units, NoUnit, MaxVersion,
    Clients,    \* goroutines calling the service
    NoClient,   \* the holder of a free mutationMu
    Instances,  \* service instances
    Home,       \* client -> the instance it calls
    MaxCalls    \* bound on the calls made in a behaviour

ASSUME HomeAssumption == Home \in [Clients -> Instances]
ASSUME DirectoryAssumption == NoUnit \notin Units /\ MaxVersion \in Nat \ {0}
ASSUME NoClientAssumption == NoClient \notin Clients
ASSUME ClientsAssumption == IsFiniteSet(Clients)

VARIABLES
    units, assignments, moves,
    mutationMu,  \* instance -> the client inside a compound operation
    pc,          \* where each client stands
    tenant,      \* the tenant its call is about
    unit,        \* the unit its call is about
    assignment,  \* the assignment it has read
    move,        \* the move it has read, or prepares
    reported,    \* tenant -> cutovers that returned successfully to a caller
    created,     \* history: tenant -> moves created so far
    observed,    \* history: client -> created[tenant] when it read the move
    calls        \* calls made so far

locals == <<tenant, unit, assignment, move, observed>>
storeVars == <<units, assignments, moves>>
vars == <<units, assignments, moves, mutationMu, pc, tenant, unit, assignment,
          move, reported, created, observed, calls>>

Directory == INSTANCE DeploymentStore

NoAssignment == Directory!NoAssignment
NoMove == Directory!NoMove

Single == {"createUnit", "updateUnit", "disableUnit"}
First  == {"findUnit", "assign", "prepare", "cutover", "cancel"}
Held   == {"deleteUnit", "createAssignment", "target", "createMove",
           "current", "cutoverTarget", "cutoverMove", "deleteMove"}
UnitHeld == {"findUnit", "deleteUnit", "assign", "createAssignment", "prepare", "target"}
MoveHeld == {"createMove", "target", "current", "cutoverTarget", "cutoverMove", "deleteMove"}
AssignmentHeld == {"cutoverTarget", "cutoverMove", "resolveUnit"}
Labels == {"idle", "resolve", "resolveUnit", "emit", "emitCutover"}
          \cup Single \cup First \cup Held

Init ==
    /\ Directory!Init
    /\ mutationMu = [i \in Instances |-> NoClient]
    /\ pc = [c \in Clients |-> "idle"]
    /\ tenant \in [Clients -> Tenants]
    /\ unit = [c \in Clients |-> NoUnit]
    /\ assignment = [c \in Clients |-> NoAssignment]
    /\ move = [c \in Clients |-> NoMove]
    /\ reported = [t \in Tenants |-> 0]
    /\ created = [t \in Tenants |-> 0]
    /\ observed = [c \in Clients |-> 0]
    /\ calls = 0

-----------------------------------------------------------------------------
(* Control.                                                                *)

Free(c) == mutationMu[Home[c]] = NoClient
Lock(c) == Free(c) /\ mutationMu' = [mutationMu EXCEPT ![Home[c]] = c]
Unlock(c) ==
    mutationMu' = [mutationMu EXCEPT ![Home[c]] = IF @ = c THEN NoClient ELSE @]

Goto(c, l) == pc' = [pc EXCEPT ![c] = l]

\* The call is over; its local variables are gone.
Reset(c) ==
    /\ unit' = [unit EXCEPT ![c] = NoUnit]
    /\ assignment' = [assignment EXCEPT ![c] = NoAssignment]
    /\ move' = [move EXCEPT ![c] = NoMove]
    /\ observed' = [observed EXCEPT ![c] = 0]
    /\ UNCHANGED tenant

\* An error return: the mutex is released and the caller gets the error.
Refuse(c) == Unlock(c) /\ Goto(c, "idle") /\ Reset(c)

\* The last store call was applied.  The call goes on at l, or, if the reply
\* was lost, returns an error without emitting anything.
Commit(c, l) ==
    /\ Unlock(c)
    /\ Goto(c, l) \/ Goto(c, "idle")
    /\ Reset(c)

Begin(c, l, t, u) ==
    /\ pc[c] = "idle"
    /\ calls < MaxCalls
    /\ calls' = calls + 1
    /\ Goto(c, l)
    /\ tenant' = [tenant EXCEPT ![c] = t]
    /\ unit' = [unit EXCEPT ![c] = u]
    /\ UNCHANGED <<storeVars, mutationMu, assignment, move, reported, created, observed>>

CallUnitOperation(c) ==
    \E u \in Units, l \in Single \cup {"findUnit"} : Begin(c, l, tenant[c], u)
CallPlacement(c) ==
    \E t \in Tenants, u \in Units, l \in {"assign", "prepare"} : Begin(c, l, t, u)
CallMove(c) ==
    \E t \in Tenants, l \in {"cutover", "cancel", "resolve"} : Begin(c, l, t, NoUnit)

-----------------------------------------------------------------------------
(* The unit catalog: CreateUnit, UpdateUnit, DisableUnit, DeleteUnit.      *)

\* A successful mutation is announced to the auditor; DisableUnit emits only
\* when it changed the status.
CreateUnit(c) ==
    /\ pc[c] = "createUnit"
    /\ Free(c)
    /\ \E s \in {"active", "disabled"} : Directory!CreateUnit(unit[c], s)
    /\ Commit(c, "emit")
    /\ UNCHANGED <<reported, created, calls>>

UpdateUnit(c) ==
    /\ pc[c] = "updateUnit"
    /\ Free(c)
    /\ \E s \in {"active", "disabled"} : Directory!UpdateUnit(unit[c], s)
    /\ Commit(c, "emit")
    /\ UNCHANGED <<reported, created, calls>>

DisableUnit(c) ==
    /\ pc[c] = "disableUnit"
    /\ Free(c)
    /\ Directory!DisableUnit(unit[c])
    /\ Commit(c, IF units[unit[c]] = "active" THEN "emit" ELSE "idle")
    /\ UNCHANGED <<reported, created, calls>>

FindUnit(c) ==
    /\ pc[c] = "findUnit"
    /\ units[unit[c]] # "absent"
    /\ Lock(c)
    /\ Goto(c, "deleteUnit")
    /\ UNCHANGED <<storeVars, locals, reported, created, calls>>

DeleteUnit(c) ==
    /\ pc[c] = "deleteUnit"
    /\ Directory!DeleteUnit(unit[c])
    /\ Commit(c, "emit")
    /\ UNCHANGED <<reported, created, calls>>

-----------------------------------------------------------------------------
(* activeUnitFor: the unit is read, must be active, and the host's policy  *)
(* must accept it; a denial is one of the errors of StoreFails.            *)

Assign(c) ==
    /\ pc[c] = "assign"
    /\ units[unit[c]] = "active"
    /\ Lock(c)
    /\ Goto(c, "createAssignment")
    /\ UNCHANGED <<storeVars, locals, reported, created, calls>>

CreateAssignment(c) ==
    /\ pc[c] = "createAssignment"
    /\ Directory!CreateAssignment(tenant[c], [unit |-> unit[c], version |-> 1])
    /\ Commit(c, "emit")
    /\ UNCHANGED <<reported, created, calls>>

\* Mutant of PrepareMove: the target is not compared with the current unit.
PrepareMoveToItself(c) ==
    /\ pc[c] = "prepare"
    /\ assignments[tenant[c]] # NoAssignment
    /\ Lock(c)
    /\ move' = [move EXCEPT ![c] =
                  [source |-> assignments[tenant[c]].unit, target |-> unit[c]]]
    /\ Goto(c, "target")
    /\ UNCHANGED <<storeVars, tenant, unit, assignment, observed, reported, created, calls>>

\* PrepareMove reads the assignment, then its target, then creates the move.
PrepareMove(c) ==
    /\ pc[c] = "prepare"
    /\ assignments[tenant[c]] # NoAssignment
    /\ assignments[tenant[c]].unit # unit[c]
    /\ Lock(c)
    /\ move' = [move EXCEPT ![c] =
                  [source |-> assignments[tenant[c]].unit, target |-> unit[c]]]
    /\ Goto(c, "target")
    /\ UNCHANGED <<storeVars, tenant, unit, assignment, observed, reported, created, calls>>

MoveTarget(c) ==
    /\ pc[c] = "target"
    /\ units[unit[c]] = "active"
    /\ Goto(c, "createMove")
    /\ UNCHANGED <<storeVars, mutationMu, locals, reported, created, calls>>

CreateMove(c) ==
    /\ pc[c] = "createMove"
    /\ Directory!CreateMove(tenant[c], move[c])
    /\ created' = [created EXCEPT ![tenant[c]] = @ + 1]
    /\ Commit(c, "emit")
    /\ UNCHANGED <<reported, calls>>

-----------------------------------------------------------------------------
(* cutover and CancelMove.                                                 *)

ReadMove(c, l) ==
    /\ moves[tenant[c]] # NoMove
    /\ Lock(c)
    /\ move' = [move EXCEPT ![c] = moves[tenant[c]]]
    /\ observed' = [observed EXCEPT ![c] = created[tenant[c]]]
    /\ Goto(c, l)
    /\ UNCHANGED <<storeVars, tenant, unit, assignment, reported, created, calls>>

Cutover(c) == pc[c] = "cutover" /\ ReadMove(c, "current")

\* The assignment must be the move's source and have a version to go to.
HasNextVersion(a) == a.version # MaxVersion

CutoverCurrent(c) ==
    /\ pc[c] = "current"
    /\ assignments[tenant[c]] # NoAssignment
    /\ assignments[tenant[c]].unit = move[c].source
    /\ HasNextVersion(assignments[tenant[c]])
    /\ assignment' = [assignment EXCEPT ![c] = assignments[tenant[c]]]
    /\ Goto(c, "cutoverTarget")
    /\ UNCHANGED <<storeVars, mutationMu, tenant, unit, move, observed, reported, created, calls>>

CutoverTarget(c) ==
    /\ pc[c] = "cutoverTarget"
    /\ units[move[c].target] = "active"
    /\ Goto(c, "cutoverMove")
    /\ UNCHANGED <<storeVars, mutationMu, locals, reported, created, calls>>

CutoverMove(c) ==
    /\ pc[c] = "cutoverMove"
    /\ Directory!CutoverMove(tenant[c], assignment[c], move[c],
            [unit |-> move[c].target, version |-> assignment[c].version + 1])
    /\ Commit(c, "emitCutover")
    /\ UNCHANGED <<reported, created, calls>>

CancelMove(c) == pc[c] = "cancel" /\ ReadMove(c, "deleteMove")

DeleteMove(c) ==
    /\ pc[c] = "deleteMove"
    /\ Directory!DeleteMoveIfMatch(tenant[c], move[c])
    /\ Commit(c, "emit")
    /\ UNCHANGED <<reported, created, calls>>

-----------------------------------------------------------------------------
(* Errors.                                                                 *)

\* A check of the service or of the store failed, the policy denied the unit,
\* or the store could not be reached: the mutex is released and the error goes
\* to the caller, with nothing written.
StoreFails(c) ==
    /\ pc[c] \in Single \cup First \cup Held \cup {"resolve", "resolveUnit"}
    /\ pc[c] \in Single \cup First => Free(c)
    /\ Refuse(c)
    /\ UNCHANGED <<storeVars, reported, created, calls>>

\* emit, outside the mutex.  The auditor may fail: the change stays committed
\* and the result is returned together with the error.
Emit(c) ==
    /\ pc[c] \in {"emit", "emitCutover"}
    /\ reported' = IF pc[c] = "emitCutover"
                   THEN [reported EXCEPT ![tenant[c]] = @ + 1] ELSE reported
    /\ Goto(c, "idle")
    /\ UNCHANGED <<storeVars, mutationMu, locals, created, calls>>

-----------------------------------------------------------------------------
(* Resolve takes no lock.                                                  *)

Resolve(c) ==
    /\ pc[c] = "resolve"
    /\ assignments[tenant[c]] # NoAssignment
    /\ assignment' = [assignment EXCEPT ![c] = assignments[tenant[c]]]
    /\ Goto(c, "resolveUnit")
    /\ UNCHANGED <<storeVars, mutationMu, tenant, unit, move, observed, reported, created, calls>>

ResolveUnit(c) ==
    /\ pc[c] = "resolveUnit"
    /\ units[assignment[c].unit] = "active"
    /\ Goto(c, "idle")
    /\ Reset(c)
    /\ UNCHANGED <<storeVars, mutationMu, reported, created, calls>>

Done ==
    /\ calls = MaxCalls
    /\ \A c \in Clients : pc[c] = "idle"
    /\ UNCHANGED vars

Call(c) == CallUnitOperation(c) \/ CallPlacement(c) \/ CallMove(c)

Step(c) == \/ CreateUnit(c)
           \/ UpdateUnit(c)
           \/ DisableUnit(c)
           \/ FindUnit(c)
           \/ DeleteUnit(c)
           \/ Assign(c)
           \/ CreateAssignment(c)
           \/ PrepareMove(c)
           \/ MoveTarget(c)
           \/ CreateMove(c)
           \/ Cutover(c)
           \/ CutoverCurrent(c)
           \/ CutoverTarget(c)
           \/ CutoverMove(c)
           \/ CancelMove(c)
           \/ DeleteMove(c)
           \/ StoreFails(c)
           \/ Emit(c)
           \/ Resolve(c)
           \/ ResolveUnit(c)

Next == \/ \E c \in Clients : Call(c) \/ Step(c)
        \/ Done

Spec == Init /\ [][Next]_vars

-----------------------------------------------------------------------------
\* Type invariant, with what the local variables hold at each label.
TypeOK ==
    /\ Directory!TypeOK
    /\ mutationMu \in [Instances -> Clients \cup {NoClient}]
    /\ pc \in [Clients -> Labels]
    /\ tenant \in [Clients -> Tenants]
    /\ unit \in [Clients -> Units \cup {NoUnit}]
    /\ assignment \in [Clients -> Directory!Assignment \cup {NoAssignment}]
    /\ move \in [Clients -> Directory!Move \cup {NoMove}]
    /\ reported \in [Tenants -> Nat]
    /\ created \in [Tenants -> Nat]
    /\ observed \in [Clients -> Nat]
    /\ calls \in Nat
    /\ \A c \in Clients :
        /\ pc[c] \in Single \cup UnitHeld => unit[c] \in Units
        /\ pc[c] \in MoveHeld => move[c] \in Directory!Move
        /\ pc[c] \in AssignmentHeld => assignment[c] \in Directory!Assignment

\* The store contract, as seen by every caller of every instance.
PlacementValid == Directory!PlacementValid

\* A prepared move always starts at the tenant's current unit, however the
\* calls of several instances interleave: the service rejects stale moves, and
\* nothing it does leaves one behind (docs/deployment.md "Controlled moves").
MoveFromCurrentUnit ==
    \A t \in Tenants : moves[t] # NoMove => assignments[t].unit = moves[t].source

\* Version is incremented on every cutover (deployment.go), and no version step
\* is ever reported to two callers: the cutovers reported and about to be
\* reported never exceed the version steps taken.
CutoversReportedOnce ==
    \A t \in Tenants :
        LET announced == reported[t] +
                Cardinality({c \in Clients : pc[c] = "emitCutover" /\ tenant[c] = t})
        IN announced = 0 \/ announced < assignments[t].version

\* A compound operation is alone in its instance, and mutationMu is never held
\* by a client that is not inside one: no error path returns without unlocking.
OneMutatorPerInstance ==
    \A c \in Clients : pc[c] \in Held <=> mutationMu[Home[c]] = c

\* What DeleteMoveIfMatch promises ("prevents a stale cancellation request from
\* deleting a replacement move"): a cancellation that would still match finds
\* the very move it has read, not a later one.
CancelsObservedMove ==
    \A c \in Clients : pc[c] = "deleteMove" /\ moves[tenant[c]] = move[c]
        => observed[c] = created[tenant[c]]

\* An assignment changes only by Assign, to version 1, or along its prepared
\* move, which the same step removes, to the next version.
ChangesAlongMoves ==
    [][\A t \in Tenants : assignments'[t] # assignments[t] =>
          IF assignments[t] = NoAssignment
          THEN assignments'[t].version = 1
          ELSE /\ moves[t] = [source |-> assignments[t].unit, target |-> assignments'[t].unit]
               /\ moves'[t] = NoMove
               /\ assignments'[t].version = assignments[t].version + 1]_vars
=============================================================================
