--------------------------- MODULE DeploymentStore ---------------------------
(***************************************************************************)
(* deployment/store.go, as deployment/memory.go implements it: the         *)
(* directory of deployment units, the current assignment of every tenant   *)
(* and its prepared move.  MemoryStore runs every operation under one lock *)
(* and changes nothing when it returns an error, so an operation is one    *)
(* atomic step whose guard is the conjunction of its checks.               *)
(***************************************************************************)
EXTENDS Naturals, FiniteSets

CONSTANTS
    Tenants,     \* tenant identifiers
    Units,       \* deployment unit identifiers
    NoUnit,      \* the empty unit ID
    MaxVersion   \* math.MaxUint64, the largest assignment version

ASSUME UnitsAssumption == NoUnit \notin Units
ASSUME MaxVersionAssumption == MaxVersion \in Nat \ {0}

VARIABLES
    units,        \* unit -> status
    assignments,  \* tenant -> assignment, NoAssignment when it has none
    moves         \* tenant -> prepared move, NoMove when it has none

storeVars == <<units, assignments, moves>>

\* A unit the directory does not hold is "absent".
Statuses == {"absent", "active", "disabled"}

\* The zero values of Go's Assignment and Move stand for a missing entry.
NoAssignment == [unit |-> NoUnit, version |-> 0]
NoMove == [source |-> NoUnit, target |-> NoUnit]

\* validateAssignment and validateMove: what an entry may hold.
Assignment == [unit : Units, version : 1..MaxVersion]
Move == {m \in [source : Units, target : Units] : m.source # m.target}

Init ==
    /\ units \in [Units -> Statuses]
    /\ assignments = [t \in Tenants |-> NoAssignment]
    /\ moves = [t \in Tenants |-> NoMove]

-----------------------------------------------------------------------------
\* unitReferencedLocked
Referenced(u) ==
    \E t \in Tenants : \/ assignments[t].unit = u
                       \/ moves[t].source = u
                       \/ moves[t].target = u

CreateUnit(u, s) ==
    /\ units[u] = "absent"
    /\ units' = [units EXCEPT ![u] = s]
    /\ UNCHANGED <<assignments, moves>>

\* Replaces the metadata only; a different status is refused.
UpdateUnit(u, s) ==
    /\ units[u] = s
    /\ UNCHANGED storeVars

\* Mutant of DisableUnit: prepared moves are not searched for the unit.
DisableUnitIgnoresMoves(u) ==
    /\ units[u] # "absent"
    /\ units[u] = "active" => \A t \in Tenants : assignments[t].unit # u
    /\ units' = [units EXCEPT ![u] = "disabled"]
    /\ UNCHANGED <<assignments, moves>>

\* Disabling a disabled unit succeeds and changes nothing.
DisableUnit(u) ==
    /\ units[u] # "absent"
    /\ units[u] = "active" => ~Referenced(u)
    /\ units' = [units EXCEPT ![u] = "disabled"]
    /\ UNCHANGED <<assignments, moves>>

DeleteUnit(u) ==
    /\ units[u] # "absent"
    /\ ~Referenced(u)
    /\ units' = [units EXCEPT ![u] = "absent"]
    /\ UNCHANGED <<assignments, moves>>

CreateAssignment(t, a) ==
    /\ units[a.unit] = "active"
    /\ assignments[t] = NoAssignment
    /\ assignments' = [assignments EXCEPT ![t] = a]
    /\ UNCHANGED <<units, moves>>

CompareAndSwapAssignment(t, expected, updated) ==
    /\ assignments[t] = expected
    /\ units[updated.unit] = "active"
    /\ assignments' = [assignments EXCEPT ![t] = updated]
    /\ UNCHANGED <<units, moves>>

\* Mutants of CutoverMove: the move, or the assignment and the move, are not
\* compared with the ones the caller has read.
CutoverCancelledMove(t, expected, move, updated) ==
    /\ assignments[t] = expected
    /\ units[updated.unit] = "active"
    /\ assignments' = [assignments EXCEPT ![t] = updated]
    /\ moves' = [moves EXCEPT ![t] = NoMove]
    /\ UNCHANGED units

CutoverBlindly(t, expected, move, updated) ==
    /\ units[updated.unit] = "active"
    /\ assignments' = [assignments EXCEPT ![t] = updated]
    /\ moves' = [moves EXCEPT ![t] = NoMove]
    /\ UNCHANGED units

\* The caller's three arguments must describe one move and one version step.
CutoverMove(t, expected, move, updated) ==
    /\ expected.unit = move.source
    /\ updated = [unit |-> move.target, version |-> expected.version + 1]
    /\ updated \in Assignment
    /\ moves[t] = move
    /\ assignments[t] = expected
    /\ units[updated.unit] = "active"
    /\ assignments' = [assignments EXCEPT ![t] = updated]
    /\ moves' = [moves EXCEPT ![t] = NoMove]
    /\ UNCHANGED units

\* Mutant of CreateMove: the source is taken from the caller unchecked.
CreateMoveFromAnywhere(t, move) ==
    /\ units[move.target] = "active"
    /\ moves[t] = NoMove
    /\ moves' = [moves EXCEPT ![t] = move]
    /\ UNCHANGED <<units, assignments>>

CreateMove(t, move) ==
    /\ units[move.target] = "active"
    /\ assignments[t].unit = move.source
    /\ moves[t] = NoMove
    /\ moves' = [moves EXCEPT ![t] = move]
    /\ UNCHANGED <<units, assignments>>

DeleteMove(t) ==
    /\ moves[t] # NoMove
    /\ moves' = [moves EXCEPT ![t] = NoMove]
    /\ UNCHANGED <<units, assignments>>

DeleteMoveIfMatch(t, move) ==
    /\ moves[t] = move
    /\ moves' = [moves EXCEPT ![t] = NoMove]
    /\ UNCHANGED <<units, assignments>>

-----------------------------------------------------------------------------
Next ==
    \/ \E u \in Units, s \in {"active", "disabled"} :
           CreateUnit(u, s) \/ UpdateUnit(u, s)
    \/ \E u \in Units : DisableUnit(u) \/ DeleteUnit(u)
    \/ \E t \in Tenants :
           \/ \E a \in Assignment : CreateAssignment(t, a)
           \/ \E a, b \in Assignment : CompareAndSwapAssignment(t, a, b)
           \/ \E a, b \in Assignment, m \in Move : CutoverMove(t, a, m, b)
           \/ \E m \in Move : CreateMove(t, m) \/ DeleteMoveIfMatch(t, m)
           \/ DeleteMove(t)

Spec == Init /\ [][Next]_storeVars

-----------------------------------------------------------------------------
\* Type invariant of the directory: assignments and moves it holds are valid.
TypeOK ==
    /\ units \in [Units -> Statuses]
    /\ assignments \in [Tenants -> Assignment \cup {NoAssignment}]
    /\ moves \in [Tenants -> Move \cup {NoMove}]

\* The placement invariant of store.go ("assignment and move creation may
\* reference only active units, disabling or deleting a unit must reject
\* references"): whatever is assigned, or is either end of a prepared move, is
\* an active unit of the directory.
PlacementValid ==
    \A t \in Tenants :
        /\ assignments[t] # NoAssignment => units[assignments[t].unit] = "active"
        /\ moves[t] # NoMove => /\ units[moves[t].source] = "active"
                               /\ units[moves[t].target] = "active"
=============================================================================
