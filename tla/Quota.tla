------------------------------- MODULE Quota -------------------------------
(***************************************************************************)
(* quota.SQLStore and the ai.Meter on top of it, for one tenant and        *)
(* period.  A mutation is a serializable transaction: it reads the row,    *)
(* checks the limit, then inserts or updates and commits; a duplicate key  *)
(* or a conflict starts it again.  The meter mutates one dimension after   *)
(* the other.  The database is external: it refuses to commit what was     *)
(* computed from a row that has changed since.                             *)
(***************************************************************************)
EXTENDS Integers, Sequences

CONSTANTS
    Consumers,          \* concurrent callers
    Limit,              \* dimension -> limit of the plan
    NoRow,              \* no usage row
    MaxInt,             \* math.MaxInt64
    MaxQuotaAttempts    \* quotaMutationMaxAttempts

Dimensions == DOMAIN Limit

ASSUME LimitsAssumption == \A r \in Dimensions : Limit[r] \in 0..MaxInt
ASSUME IntegerAssumption == MaxInt \in Nat /\ NoRow \notin 0..MaxInt
ASSUME QuotaAttemptsAssumption == MaxQuotaAttempts \in Nat \ {0}

VARIABLES
    usage,     \* dimension -> the row
    metering,  \* consumer -> the mutations left and the transaction
    counted,   \* dimension -> what committed mutations added since the last reset
    recorded   \* dimensions that were added to without a limit

quotaVars == <<usage, metering, counted, recorded>>

Value(row) == IF row = NoRow THEN 0 ELSE row

NotMetering == [left |-> << >>, stage |-> "idle", seen |-> NoRow, stale |-> FALSE, attempt |-> 0]
QuotaInit ==
    /\ usage = [r \in Dimensions |-> NoRow]
    /\ metering = [c \in Consumers |-> NotMetering]
    /\ counted = [r \in Dimensions |-> 0]
    /\ recorded = {}

-----------------------------------------------------------------------------
(* The meter.                                                              *)

Mutation(dimension, amount, limited) == [dimension |-> dimension, amount |-> amount, limited |-> limited]

\* ConsumeUsage: the dimensions in use that have a limit, in this order.
Consumption(u) ==
    LET use(dimension, amount) ==
          IF amount > 0 /\ dimension \in Dimensions /\ Limit[dimension] > 0
          THEN << Mutation(dimension, amount, TRUE) >> ELSE << >>
    IN use("turns", u.turns) \o use("input", u.input) \o use("output", u.output)
         \o use("total", u.input + u.output)

\* RecordUsage: no limit is looked at, and no total kept.
Recording(u) ==
    LET use(dimension, amount) ==
          IF amount > 0 /\ dimension \in Dimensions
          THEN << Mutation(dimension, amount, FALSE) >> ELSE << >>
    IN use("turns", u.turns) \o use("input", u.input) \o use("output", u.output)

Meter(c, mutations) ==
    /\ metering[c] = NotMetering
    /\ mutations # << >>
    /\ metering' = [metering EXCEPT ![c] = [NotMetering EXCEPT !.left = mutations, !.stage = "read",
                                                              !.attempt = 1]]
    /\ UNCHANGED <<usage, counted, recorded>>

-----------------------------------------------------------------------------
(* One mutation.                                                           *)

\* The next dimension, or the end of the call.
Advance(c) ==
    IF Len(metering[c].left) = 1 THEN NotMetering
    ELSE [NotMetering EXCEPT !.left = Tail(metering[c].left), !.stage = "read", !.attempt = 1]

\* The limit, and the largest integer.
Exceeds(m, used) ==
    \/ m.limited /\ m.amount > Limit[m.dimension] - used
    \/ m.amount > MaxInt - used

\* The SELECT and the checks; a refusal ends the whole call.
ReadUsage(c) ==
    LET m == metering[c].left[1]
        row == usage[m.dimension]
    IN /\ metering[c].stage = "read"
       /\ metering' = [metering EXCEPT ![c] =
                         IF Exceeds(m, Value(row)) THEN NotMetering
                         ELSE [metering[c] EXCEPT !.stage = "write", !.seen = row]]
       /\ UNCHANGED <<usage, counted, recorded>>

\* The other transactions that have read the row.
Outdated(r) ==
    [d \in Consumers |->
        IF metering[d].stage = "write" /\ metering[d].left[1].dimension = r
        THEN [metering[d] EXCEPT !.stale = TRUE] ELSE metering[d]]

\* Mutant of WriteUsage: the statements run without a serializable transaction.
WriteUsageAnyway(c) ==
    LET call == metering[c]
        m == call.left[1]
    IN /\ call.stage = "write"
       /\ usage' = [usage EXCEPT ![m.dimension] = Value(call.seen) + m.amount]
       /\ counted' = [counted EXCEPT ![m.dimension] = @ + m.amount]
       /\ recorded' = IF m.limited THEN recorded ELSE recorded \cup {m.dimension}
       /\ metering' = [Outdated(m.dimension) EXCEPT ![c] = Advance(c)]

\* The INSERT or UPDATE and the commit; the answer may be lost, which ends the
\* call like any other error.
WriteUsage(c) ==
    LET call == metering[c]
        m == call.left[1]
    IN /\ call.stage = "write"
       /\ ~call.stale
       /\ usage' = [usage EXCEPT ![m.dimension] = Value(call.seen) + m.amount]
       /\ counted' = [counted EXCEPT ![m.dimension] = @ + m.amount]
       /\ recorded' = IF m.limited THEN recorded ELSE recorded \cup {m.dimension}
       /\ \E next \in {Advance(c), NotMetering} :
              metering' = [Outdated(m.dimension) EXCEPT ![c] = next]

\* A conflict or a duplicate key: again, or given up after the last attempt.
RetryUsage(c) ==
    LET call == metering[c] IN
    /\ call.stage = "write"
    /\ metering' = [metering EXCEPT ![c] =
                      IF call.attempt < MaxQuotaAttempts
                      THEN [NotMetering EXCEPT !.left = call.left, !.stage = "read",
                                               !.attempt = call.attempt + 1]
                      ELSE NotMetering]
    /\ UNCHANGED <<usage, counted, recorded>>

\* Reset is one DELETE.
Reset(r) ==
    /\ usage' = [usage EXCEPT ![r] = NoRow]
    /\ counted' = [counted EXCEPT ![r] = 0]
    /\ recorded' = recorded \ {r}
    /\ metering' = Outdated(r)

QuotaStep(c) == ReadUsage(c) \/ WriteUsage(c) \/ RetryUsage(c)

QuotaTypeOK ==
    /\ \A r \in Dimensions : usage[r] \in 0..MaxInt \cup {NoRow}
    /\ \A c \in Consumers : /\ metering[c].stage \in {"idle", "read", "write"}
                            /\ metering[c].attempt \in 0..MaxQuotaAttempts
    /\ recorded \subseteq Dimensions

\* Usage is what committed calls have consumed since the last reset, however
\* they interleaved and were retried; a dimension that is only consumed stays
\* within its limit; and none passes the largest integer.
Metered ==
    \A r \in Dimensions :
        /\ Value(usage[r]) = counted[r]
        /\ counted[r] <= MaxInt
        /\ r \notin recorded => counted[r] <= Limit[r]
=============================================================================
