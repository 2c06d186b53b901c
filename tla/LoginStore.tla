----------------------------- MODULE LoginStore -----------------------------
(***************************************************************************)
(* oidc.MemoryLoginStore and oidc.SQLLoginStore: login requests that wait  *)
(* for their callback.  SaveLogin reads the clock before it takes the      *)
(* memory store's lock.  ConsumeLogin of the SQL store is a transaction,   *)
(* started again after a conflict, that reads and deletes the row; the     *)
(* expiry is looked at once it has committed.                              *)
(***************************************************************************)
EXTENDS Integers, FiniteSets

CONSTANTS
    Handlers,           \* goroutines
    States,             \* random values; a login's nonce and verifier go with its state
    NoLogin,            \* no such login
    Never,              \* the zero time
    MaxPending,         \* maxPending of the memory store
    CleanupInterval,    \* one minute
    MaxConsumeAttempts, \* sqlLoginConsumeMaxAttempts
    MaxTime             \* bound: the clock

ASSUME PendingAssumption == MaxPending \in Nat \ {0}
ASSUME ConsumeAssumption == MaxConsumeAttempts \in Nat \ {0}
ASSUME StatesAssumption == IsFiniteSet(States)
ASSUME TimeAssumption == MaxTime \in Nat

VARIABLES
    sql,          \* the SQL store is used
    now,          \* the clock
    logins,       \* state -> its login
    lastCleanup,  \* of the memory store
    storing,      \* handler -> its call of the store
    uses          \* state -> callbacks that were given its login

storeVars == <<sql, now, logins, lastCleanup, storing, uses>>

NotStoring == [stage |-> "idle", state |-> NoLogin, login |-> NoLogin, at |-> 0, attempt |-> 0,
               result |-> "none"]
StoreInit ==
    /\ sql \in BOOLEAN
    /\ now = 0
    /\ logins = [s \in States |-> NoLogin]
    /\ lastCleanup = Never
    /\ storing = [h \in Handlers |-> NotStoring]
    /\ uses = [s \in States |-> 0]

Expired(login, t) == login.expires <= t
Pending(table) == Cardinality({s \in States : table[s] # NoLogin})

StoreEnds(h, result) == storing' = [storing EXCEPT ![h].stage = "done", ![h].result = result]
StoreFails(h) == StoreEnds(h, "failed") /\ UNCHANGED <<sql, now, logins, lastCleanup, uses>>

-----------------------------------------------------------------------------
(* SaveLogin.                                                              *)

\* The clock is read; an expiry that has passed is refused.
Saving(state, login) ==
    [NotStoring EXCEPT !.state = state, !.login = login, !.at = now,
                       !.stage = IF Expired(login, now) THEN "done" ELSE "save",
                       !.result = IF Expired(login, now) THEN "expired" ELSE "none"]

\* cleanupExpiredLocked
CleanupDue(t) == lastCleanup = Never \/ t - lastCleanup >= CleanupInterval
Swept(t) == [s \in States |-> IF logins[s] # NoLogin /\ Expired(logins[s], t) THEN NoLogin ELSE logins[s]]

\* Mutant of SaveMemory: a full store takes one more.
SaveMemoryOneMore(h) ==
    LET call == storing[h]
        crowded == Pending(logins) > MaxPending
        table == IF CleanupDue(call.at) \/ crowded THEN Swept(call.at) ELSE logins
        full == Pending(table) > MaxPending
    IN /\ ~sql
       /\ call.stage = "save"
       /\ logins' = IF full THEN table ELSE [table EXCEPT ![call.state] = call.login]
       /\ lastCleanup' = IF CleanupDue(call.at) \/ crowded THEN call.at ELSE lastCleanup
       /\ StoreEnds(h, IF full THEN "full" ELSE "saved")
       /\ UNCHANGED <<sql, now, uses>>

\* The part under the lock.
SaveMemory(h) ==
    LET call == storing[h]
        first == IF CleanupDue(call.at) THEN Swept(call.at) ELSE logins
        crowded == Pending(first) >= MaxPending
        table == IF crowded THEN Swept(call.at) ELSE first
        full == Pending(table) >= MaxPending
    IN /\ ~sql
       /\ call.stage = "save"
       /\ IF first[call.state] # NoLogin
          THEN /\ logins' = first
               /\ lastCleanup' = IF CleanupDue(call.at) THEN call.at ELSE lastCleanup
               /\ StoreEnds(h, "duplicate")
          ELSE /\ logins' = IF full THEN table ELSE [table EXCEPT ![call.state] = call.login]
               /\ lastCleanup' = IF CleanupDue(call.at) \/ crowded THEN call.at ELSE lastCleanup
               /\ StoreEnds(h, IF full THEN "full" ELSE "saved")
       /\ UNCHANGED <<sql, now, uses>>

\* One INSERT, whose answer may be lost.
SaveSQL(h) ==
    LET call == storing[h] IN
    /\ sql
    /\ call.stage = "save"
    /\ IF logins[call.state] # NoLogin
       THEN StoreEnds(h, "duplicate") /\ UNCHANGED logins
       ELSE /\ logins' = [logins EXCEPT ![call.state] = call.login]
            /\ \E result \in {"saved", "failed"} : StoreEnds(h, result)
    /\ UNCHANGED <<sql, now, lastCleanup, uses>>

-----------------------------------------------------------------------------
(* ConsumeLogin.                                                           *)

Consuming(state) == [NotStoring EXCEPT !.state = state, !.stage = "consume", !.attempt = 1]

\* The login is given to the caller unless it has expired.
Given(h, login) ==
    IF Expired(login, now)
    THEN StoreEnds(h, "expired") /\ UNCHANGED uses
    ELSE /\ storing' = [storing EXCEPT ![h].stage = "done", ![h].result = "consumed", ![h].login = login]
         /\ uses' = [uses EXCEPT ![storing[h].state] = @ + 1]

ConsumeMemory(h) ==
    LET state == storing[h].state IN
    /\ ~sql
    /\ storing[h].stage = "consume"
    /\ IF logins[state] = NoLogin
       THEN StoreEnds(h, "not_found") /\ UNCHANGED <<logins, uses>>
       ELSE logins' = [logins EXCEPT ![state] = NoLogin] /\ Given(h, logins[state])
    /\ UNCHANGED <<sql, now, lastCleanup>>

\* getLoginForUpdate
ReadLogin(h) ==
    LET state == storing[h].state IN
    /\ sql
    /\ storing[h].stage = "consume"
    /\ IF logins[state] = NoLogin
       THEN StoreEnds(h, "not_found")
       ELSE storing' = [storing EXCEPT ![h].stage = "delete", ![h].login = logins[state]]
    /\ UNCHANGED <<sql, now, logins, lastCleanup, uses>>

\* Mutant of DeleteLogin: that the row is there is taken from the read.
DeleteLoginUnchecked(h) ==
    LET state == storing[h].state IN
    /\ storing[h].stage = "delete"
    /\ logins' = [logins EXCEPT ![state] = NoLogin]
    /\ storing' = [storing EXCEPT ![h].stage = "check"]
    /\ UNCHANGED <<sql, now, lastCleanup, uses>>

\* deleteLogin and the commit: a row that has gone since is not found.
DeleteLogin(h) ==
    LET state == storing[h].state IN
    /\ storing[h].stage = "delete"
    /\ IF logins[state] = NoLogin
       THEN StoreEnds(h, "not_found")
       ELSE storing' = [storing EXCEPT ![h].stage = "check"]
    /\ logins' = [logins EXCEPT ![state] = NoLogin]
    /\ UNCHANGED <<sql, now, lastCleanup, uses>>

\* The database ended the transaction: again, a few times.
RetryConsume(h) ==
    LET call == storing[h] IN
    /\ call.stage = "delete"
    /\ storing' = [storing EXCEPT ![h] =
                     IF call.attempt < MaxConsumeAttempts
                     THEN [call EXCEPT !.stage = "consume", !.attempt = call.attempt + 1, !.login = NoLogin]
                     ELSE [call EXCEPT !.stage = "done", !.result = "failed"]]
    /\ UNCHANGED <<sql, now, logins, lastCleanup, uses>>

\* After the commit.
CheckLogin(h) ==
    /\ storing[h].stage = "check"
    /\ Given(h, storing[h].login)
    /\ UNCHANGED <<sql, now, logins, lastCleanup>>

\* The database fails; after the commit its answer is lost.
StoreError(h) == sql /\ storing[h].stage \in {"save", "consume", "delete", "check"} /\ StoreFails(h)

StoreStep(h) ==
    \/ SaveMemory(h) \/ SaveSQL(h) \/ ConsumeMemory(h)
    \/ ReadLogin(h) \/ DeleteLogin(h) \/ RetryConsume(h) \/ CheckLogin(h) \/ StoreError(h)

Tick == now < MaxTime /\ now' = now + 1 /\ UNCHANGED <<sql, logins, lastCleanup, storing, uses>>

StoreTypeOK ==
    /\ now \in 0..MaxTime
    /\ ~sql => Pending(logins) <= MaxPending
    /\ \A h \in Handlers :
           /\ storing[h].stage \in {"idle", "save", "consume", "delete", "check", "done"}
           /\ storing[h].attempt \in 0..MaxConsumeAttempts
           /\ storing[h].result \in {"none", "expired", "duplicate", "full", "saved", "not_found",
                                     "consumed", "failed"}

\* A login is given to one callback at most and not after its expiry.
GivenOnce ==
    \A s \in States : uses'[s] # uses[s] =>
        /\ uses[s] = 0
        /\ \E h \in Handlers : /\ storing[h].state = s
                              /\ storing'[h].result = "consumed"
                              /\ ~Expired(storing'[h].login, now)

\* It goes when a callback with its state consumes it, even if the answer is lost
\* after the commit and nobody is given it, or once it has expired.
GoneForAReason ==
    \A s \in States : logins[s] # NoLogin /\ logins'[s] = NoLogin /\ ~Expired(logins[s], now)
        => \E h \in Handlers : storing[h].state = s /\ storing[h].stage \in {"consume", "delete"}

\* The memory store refuses a new one only when it is full of logins that have not.
FullOfValid ==
    \A h \in Handlers :
        storing[h].stage = "save" /\ storing'[h].result = "full"
        => Cardinality({s \in States : logins[s] # NoLogin /\ ~Expired(logins[s], storing[h].at)})
           >= MaxPending

StoreContract == GivenOnce /\ GoneForAReason /\ FullOfValid

\* The contract of both stores: a login is given to one callback at most and
\* not after its expiry, goes only when a callback consumes it or once it has
\* expired, and the memory store refuses a new one only when it is full of logins
\* that have not.
LoginsKept == [][StoreContract]_storeVars
=============================================================================
