---------------------------- MODULE LoginProofs ----------------------------
(***************************************************************************)
(* Proofs about Login: the contract of the login stores, the link of a     *)
(* session to its login, and what identity linking promises.               *)
(***************************************************************************)
EXTENDS Login, TLAPS, FiniteSetTheorems

Logins == [tenant : Tenants, user : Users \cup {NoUser}, expires : Int]
StoreStages == {"idle", "save", "consume", "delete", "check", "done"}
StoreResults == {"none", "expired", "duplicate", "full", "saved", "not_found", "consumed", "failed"}
StoreCalls == [stage : StoreStages, state : States \cup {NoLogin}, login : Logins \cup {NoLogin},
               at : Int, attempt : 0..MaxConsumeAttempts, result : StoreResults]

\* The variables of the stores, and the requests behind the states.
StoreTypes ==
    /\ sql \in BOOLEAN
    /\ now \in 0..MaxTime
    /\ logins \in [States -> Logins \cup {NoLogin}]
    /\ storing \in [Handlers -> StoreCalls]
    /\ uses \in [States -> Nat]
    /\ requested \in [States -> Requests \cup {None}]

\* The login is the one that was asked for under this state.
Matches(s, login) ==
    /\ s \in States /\ requested[s] # None
    /\ login \in Logins
    /\ login.tenant = requested[s].tenant /\ login.user = requested[s].user

\* A call that has the login of s outside the table: to save it, or to give it.
Holds(h, s) == storing[h].stage \in {"save", "check"} /\ storing[h].state = s

\* Where the logins are, they are the ones asked for.
LoginsMatch ==
    /\ \A s \in States : logins[s] # NoLogin => Matches(s, logins[s])
    /\ \A s \in States : uses[s] # 0 => requested[s] # None
    /\ \A h \in Handlers :
          storing[h].stage \in {"save", "delete", "check"} \/ storing[h].result = "consumed"
            => Matches(storing[h].state, storing[h].login)
    /\ \A h \in Handlers : storing[h].stage = "consume" => storing[h].state \in States

\* A login that has not been given yet is in the table or with one call, never
\* in two places; one that has been given is nowhere.
OnePlace ==
    /\ \A s \in States : logins[s] # NoLogin => uses[s] = 0
    /\ \A h \in Handlers, s \in States : Holds(h, s) =>
          /\ logins[s] = NoLogin /\ uses[s] = 0
          /\ \A g \in Handlers : Holds(g, s) => g = h

\* A call under way has no result, and saves with a clock it has read.
CallsUnderWay ==
    \A h \in Handlers : /\ storing[h].at <= now
                        /\ storing[h].result # "none" => storing[h].stage = "done"

\* The inductive invariant of the login stores.
StoreInv ==
    /\ StoreTypes /\ LoginsMatch /\ OnePlace /\ CallsUnderWay
    /\ ~sql => Pending(logins) <= MaxPending

-----------------------------------------------------------------------------
Tokens == {account.token : account \in Accounts}
Emails == {claims.email : claims \in Tokens \cup {account.info : account \in Accounts}}
PersonNames == {claims.name : claims \in Tokens \cup {account.info : account \in Accounts}}
Merged == [email : Emails, verified : BOOLEAN, name : PersonNames]
Codes == [login : States \cup {None}, account : Accounts]
Served == [tenant : Tenants, user : Users \cup {NoUser}, expires : Int \cup {Never}]
ClientStages == {"idle", "begin", "consume", "exchange", "userinfo", "assert", "authenticate"}
ClientCalls == [stage : ClientStages, state : States \cup {NoLogin}, code : Codes \cup {NoCode},
                login : Served \cup {NoLogin}, claims : Tokens \cup Merged \cup {None}]

\* The variables of the client.
ClientTypes == codes \subseteq Codes /\ serving \in [Handlers -> ClientCalls]

\* An address is claimed to be verified only if the provider vouches for it.
Vouched(account, claims) ==
    claims.verified => \E c \in {account.token, account.info} : c.email = claims.email /\ c.verified

\* A call of the client carries the login of the state it came with, and goes on
\* only with the code of that login.
CallbackBound(h) ==
    LET s == serving[h] IN
    /\ s.stage = "consume" => storing[h].state = s.state /\ s.code \in Codes \cup {NoCode}
    /\ s.stage \in {"exchange", "userinfo", "assert"} => s.code \in Codes /\ Matches(s.state, s.login)
    /\ s.stage \in {"userinfo", "assert"} => s.code.login = s.state
    /\ s.stage = "userinfo" => s.claims = s.code.account.token
    /\ s.stage = "assert" => s.claims \in Tokens \cup Merged /\ Vouched(s.code.account, s.claims)
CallbacksBound == \A h \in Handlers : CallbackBound(h)

-----------------------------------------------------------------------------
IdentityStages == {"idle", "lookup", "verify", "get_user", "create_user", "get_created", "member",
                   "get_member", "link", "insert", "update", "confirm", "done"}
IdentityResults == {"none", "unverified", "conflict", "not_member", "not_found", "session", "failed"}
Assertions == [tenant : Tenants, subject : Subjects, user : Users \cup {NoUser}, email : Emails,
               name : PersonNames, verified : BOOLEAN]
IdentityCalls == [stage : IdentityStages, assertion : Assertions \cup {NotFound},
                  user : Users \cup {NoUser}, attempt : 0..1, raced : BOOLEAN, result : IdentityResults]
LinkRecords == [user : Users, email : Emails, name : PersonNames]

\* The variables of the identity service, of the users and of the members.
IdentityTypes ==
    /\ strict \in BOOLEAN
    /\ users \in [Users -> Emails \cup {NoUser}]
    /\ members \subseteq Tenants \X Users
    /\ links \in [Tenants \X Subjects -> LinkRecords \cup {NoUser}]
    /\ authenticating \in [Clients -> IdentityCalls]

\* The user is chosen, exists with the asserted address, is a member.
Chosen == {"verify", "get_user", "create_user", "get_created", "member", "get_member", "link",
           "insert", "update", "confirm"}
Existing == {"member", "get_member", "link", "insert", "update", "confirm"}
Joined == {"link", "insert", "update", "confirm"}

\* What a call of Authenticate knows at each of its stages, unless somebody
\* unlinked, relinked or removed the member under it.
CallKnows(c) ==
    LET call == authenticating[c]
        a == Assertion(c)
        link == links[Key(a)]
    IN /\ call.stage # "idle" => a \in Assertions
       /\ call.result # "none" => call.stage = "done"
       /\ call.stage \in Chosen \/ call.result = "session" =>
             call.user \in Users /\ a.user \in {NoUser, call.user}
       /\ call.stage \in Existing => users[call.user] = a.email
       /\ call.stage \in Joined => call.raced \/ Membership(c) \in members
       /\ call.stage \notin Joined \cup {"done"} => call.attempt = 0
       /\ call.stage \in Joined /\ call.attempt = 1 => call.raced \/ link # NoUser
       /\ call.stage = "insert" /\ call.attempt = 1 => call.raced
       /\ call.stage = "update" => call.raced \/ (link # NoUser /\ link.user = call.user)
       /\ call.stage = "confirm" => call.raced \/ (link # NoUser /\ link = LinkOf(c))
CallsKnow == \A c \in Clients : CallKnows(c)

\* The inductive invariant of the identity service.
IdentityInv == IdentityTypes /\ CallsKnow

\* What is authenticated is what the client asserted for its callback.
AuthenticationBound(h) ==
    LET s == serving[h]
        a == Assertion(h)
    IN authenticating[h].stage # "idle" =>
          /\ s.stage = "authenticate"
          /\ s.code \in Codes /\ s.code.account.subject = a.subject
          /\ s.login \in Served /\ s.login.user = a.user
          /\ Vouched(s.code.account, a)
          /\ strict /\ ~a.verified => authenticating[h].result = "unverified"
          /\ s.code.login # None =>
                /\ s.code.login = s.state /\ s.state \in States /\ requested[s.state] # None
                /\ requested[s.state].tenant = a.tenant /\ requested[s.state].user = a.user
AuthenticationsBound == \A h \in Handlers : AuthenticationBound(h)

\* The inductive invariant of the whole login.
IInv ==
    /\ StoreInv /\ ClientTypes /\ CallbacksBound
    /\ IdentityInv /\ AuthenticationsBound

-----------------------------------------------------------------------------
(* The stores.                                                             *)

\* What a call that ends leaves in the call records.
LEMMA StoreEndsCall ==
    ASSUME StoreTypes, NEW h \in Handlers, NEW result \in StoreResults, StoreEnds(h, result)
    PROVE  /\ storing' \in [Handlers -> StoreCalls]
           /\ \A g \in Handlers : g # h => storing'[g] = storing[g]
           /\ storing'[h].stage = "done" /\ storing'[h].result = result
           /\ storing'[h].state = storing[h].state /\ storing'[h].login = storing[h].login
           /\ storing'[h].at = storing[h].at
  BY DEF StoreTypes, StoreEnds, StoreCalls, StoreStages

\* The number of pending logins does not grow with fewer of them.
LEMMA PendingShrinks ==
    ASSUME NEW f, NEW g, \A s \in States : g[s] # NoLogin => f[s] # NoLogin
    PROVE  Pending(g) \in Nat /\ Pending(f) \in Nat /\ Pending(g) <= Pending(f)
<1> DEFINE F == {s \in States : f[s] # NoLogin}
           G == {s \in States : g[s] # NoLogin}
<1>1. IsFiniteSet(F)
  BY StatesAssumption, FS_Subset
<1>2. G \subseteq F
  OBVIOUS
<1> QED
  BY <1>1, <1>2, FS_Subset, FS_CardinalityType DEF Pending

\* It grows by one at most with one more.
LEMMA PendingGrows ==
    ASSUME NEW f, NEW g, NEW x \in States,
           \A s \in States \ {x} : g[s] # NoLogin => f[s] # NoLogin
    PROVE  Pending(g) \in Nat /\ Pending(f) \in Nat /\ Pending(g) <= Pending(f) + 1
<1> DEFINE F == {s \in States : f[s] # NoLogin}
           G == {s \in States : g[s] # NoLogin}
<1>1. IsFiniteSet(F)
  BY StatesAssumption, FS_Subset
<1>2. G \subseteq F \cup {x}
  OBVIOUS
<1>3. /\ IsFiniteSet(F \cup {x})
      /\ Cardinality(F \cup {x}) \in {Cardinality(F), Cardinality(F) + 1}
  BY <1>1, FS_AddElement
<1>4. IsFiniteSet(G) /\ Cardinality(G) <= Cardinality(F \cup {x})
  BY <1>2, <1>3, FS_Subset
<1>5. Cardinality(F) \in Nat /\ Cardinality(G) \in Nat
  BY <1>1, <1>4, FS_CardinalityType
<1>6. Pending(f) = Cardinality(F) /\ Pending(g) = Cardinality(G)
  BY DEF Pending
<1> HIDE DEF F, G
<1> QED
  BY <1>3, <1>4, <1>5, <1>6

\* A step that leaves the table, the calls, the uses and the requests alone.
LEMMA StoreStutters ==
    ASSUME StoreInv, UNCHANGED <<sql, logins, storing, uses, requested>>, now' \in 0..MaxTime, now <= now'
    PROVE  StoreInv'
<1>1. now \in Int /\ now' \in Int /\ \A h \in Handlers : storing[h].at \in Int
  BY TimeAssumption DEF StoreInv, StoreTypes, StoreCalls
<1>2. CallsUnderWay'
  BY <1>1 DEF StoreInv, CallsUnderWay
<1> QED
  BY <1>2 DEF StoreInv, StoreTypes, LoginsMatch, OnePlace, Holds, Matches, Pending

\* Ending a call without giving its login, while logins leave the table.
LEMMA EndKeepsStore ==
    ASSUME StoreInv, NEW h \in Handlers, NEW result \in StoreResults \ {"consumed", "none"},
           StoreEnds(h, result), UNCHANGED <<sql, now, uses, requested>>,
           logins' \in [States -> Logins \cup {NoLogin}],
           \A s \in States : logins'[s] \in {logins[s], NoLogin}
    PROVE  StoreInv'
<1>1. /\ storing' \in [Handlers -> StoreCalls]
      /\ \A g \in Handlers : g # h => storing'[g] = storing[g]
      /\ storing'[h].stage = "done" /\ storing'[h].result = result
      /\ storing'[h].state = storing[h].state /\ storing'[h].login = storing[h].login
      /\ storing'[h].at = storing[h].at
  BY StoreEndsCall DEF StoreInv
<1>2. StoreTypes'
  BY <1>1 DEF StoreInv, StoreTypes
<1>3. LoginsMatch'
  BY <1>1 DEF StoreInv, LoginsMatch, Matches
<1>4. OnePlace'
  BY <1>1 DEF StoreInv, OnePlace, Holds
<1>5. CallsUnderWay'
  BY <1>1 DEF StoreInv, CallsUnderWay
<1>6. ~sql' => Pending(logins') <= MaxPending
  <2>1. Pending(logins') \in Nat /\ Pending(logins) \in Nat /\ Pending(logins') <= Pending(logins)
    BY PendingShrinks
  <2> QED
    BY <2>1, PendingAssumption DEF StoreInv
<1>7. Pending(logins)' = Pending(logins')
  BY DEF Pending
<1> QED
  BY <1>2, <1>3, <1>4, <1>5, <1>6, <1>7 DEF StoreInv

\* Saving the login of a call into a table that has shrunk at most.
LEMMA SavedKeepsStore ==
    ASSUME StoreInv, NEW h \in Handlers, storing[h].stage = "save",
           NEW result \in {"saved", "failed"}, StoreEnds(h, result),
           NEW table \in [States -> Logins \cup {NoLogin}],
           \A s \in States : table[s] \in {logins[s], NoLogin},
           logins' = [table EXCEPT ![storing[h].state] = storing[h].login],
           ~sql => Pending(table) < MaxPending,
           UNCHANGED <<sql, now, uses, requested>>
    PROVE  StoreInv'
<1>1. /\ storing' \in [Handlers -> StoreCalls]
      /\ \A g \in Handlers : g # h => storing'[g] = storing[g]
      /\ storing'[h].stage = "done" /\ storing'[h].result = result
      /\ storing'[h].state = storing[h].state /\ storing'[h].login = storing[h].login
      /\ storing'[h].at = storing[h].at
  BY StoreEndsCall DEF StoreInv, StoreResults
<1> DEFINE x == storing[h].state
<1>2. Matches(x, storing[h].login) /\ x \in States /\ storing[h].login \in Logins
  BY DEF StoreInv, LoginsMatch, Matches
<1>3. /\ logins'[x] = storing[h].login
      /\ \A s \in States \ {x} : logins'[s] \in {logins[s], NoLogin}
  BY <1>2
<1>4. StoreTypes'
  BY <1>1, <1>2 DEF StoreInv, StoreTypes
<1>5. Holds(h, x) /\ uses[x] = 0 /\ \A g \in Handlers : Holds(g, x) => g = h
  BY <1>2 DEF StoreInv, OnePlace, Holds
<1>6. LoginsMatch'
  BY <1>1, <1>2, <1>3 DEF StoreInv, LoginsMatch, Matches
<1>7. OnePlace'
  BY <1>1, <1>3, <1>5 DEF StoreInv, OnePlace, Holds
<1>8. CallsUnderWay'
  BY <1>1 DEF StoreInv, CallsUnderWay
<1>9. ~sql' => Pending(logins') <= MaxPending
  <2>1. \A s \in States \ {x} : logins'[s] # NoLogin => table[s] # NoLogin
    BY <1>2
  <2>2. Pending(logins') \in Nat /\ Pending(table) \in Nat /\ Pending(logins') <= Pending(table) + 1
    BY <2>1, <1>2, PendingGrows
  <2> QED
    BY <2>2, PendingAssumption
<1>10. Pending(logins)' = Pending(logins')
  BY DEF Pending
<1> QED
  BY <1>4, <1>6, <1>7, <1>8, <1>9, <1>10 DEF StoreInv

\* A sweep takes expired logins only, and takes all of them.
LEMMA Sweeps ==
    ASSUME StoreTypes, NEW t \in Int
    PROVE  /\ Swept(t) \in [States -> Logins \cup {NoLogin}]
           /\ \A s \in States : Swept(t)[s] \in {logins[s], NoLogin}
           /\ \A s \in States : logins[s] # NoLogin /\ Swept(t)[s] = NoLogin => Expired(logins[s], t)
           /\ \A s \in States : Swept(t)[s] # NoLogin => ~Expired(logins[s], t)
  BY DEF StoreTypes, Swept

\* SaveLogin of the memory store.
LEMMA SaveMemoryStep ==
    ASSUME StoreInv, NEW h \in Handlers, SaveMemory(h), UNCHANGED requested
    PROVE  StoreInv'
<1> DEFINE at == storing[h].at
           first == IF CleanupDue(at) THEN Swept(at) ELSE logins
           crowded == Pending(first) >= MaxPending
           table == IF crowded THEN Swept(at) ELSE first
           full == Pending(table) >= MaxPending
<1>1. at \in Int /\ StoreTypes
  BY DEF StoreInv, StoreTypes, StoreCalls
<1>2. /\ first \in [States -> Logins \cup {NoLogin}]
      /\ table \in [States -> Logins \cup {NoLogin}]
      /\ \A s \in States : first[s] \in {logins[s], NoLogin} /\ table[s] \in {logins[s], NoLogin}
  BY <1>1, Sweeps DEF StoreTypes
<1>3. /\ storing[h].stage = "save" /\ UNCHANGED <<sql, now, uses>>
      /\ \/ logins' = first /\ StoreEnds(h, "duplicate")
         \/ full /\ logins' = table /\ StoreEnds(h, "full")
         \/ ~full /\ logins' = [table EXCEPT ![storing[h].state] = storing[h].login]
            /\ StoreEnds(h, "saved")
  BY DEF SaveMemory
<1>4. full \in BOOLEAN /\ (~full => Pending(table) < MaxPending)
  <2>1. Pending(table) \in Nat
    BY PendingShrinks
  <2> QED
    BY <2>1, PendingAssumption
<1> HIDE DEF first, table, full
<1>5. CASE logins' = first /\ StoreEnds(h, "duplicate")
  BY <1>2, <1>3, <1>5, EndKeepsStore DEF StoreResults
<1>6. CASE logins' = table /\ StoreEnds(h, "full")
  BY <1>2, <1>3, <1>6, EndKeepsStore DEF StoreResults
<1>7. CASE ~full /\ logins' = [table EXCEPT ![storing[h].state] = storing[h].login]
           /\ StoreEnds(h, "saved")
  BY <1>2, <1>3, <1>4, <1>7, SavedKeepsStore
<1> QED
  BY <1>3, <1>5, <1>6, <1>7

\* SaveLogin of the SQL store.
LEMMA SaveSQLStep ==
    ASSUME StoreInv, NEW h \in Handlers, SaveSQL(h), UNCHANGED requested
    PROVE  StoreInv'
<1>1. CASE StoreEnds(h, "duplicate") /\ UNCHANGED logins
  <2>1. UNCHANGED <<sql, now, uses>> /\ logins' \in [States -> Logins \cup {NoLogin}]
    BY <1>1 DEF SaveSQL, StoreInv, StoreTypes
  <2> QED
    BY <1>1, <2>1, EndKeepsStore DEF StoreResults
<1>2. ASSUME NEW result \in {"saved", "failed"}, StoreEnds(h, result),
             logins' = [logins EXCEPT ![storing[h].state] = storing[h].login]
      PROVE  StoreInv'
  <2>1. sql /\ UNCHANGED <<sql, now, uses>> /\ storing[h].stage = "save"
    BY DEF SaveSQL
  <2>2. logins \in [States -> Logins \cup {NoLogin}]
    BY DEF StoreInv, StoreTypes
  <2> QED
    BY <1>2, <2>1, <2>2, SavedKeepsStore
<1> QED
  BY <1>1, <1>2 DEF SaveSQL

\* A call goes on to a stage at which it holds no login outside the table.
LEMMA MoveKeepsStore ==
    ASSUME StoreInv, NEW h \in Handlers,
           storing' \in [Handlers -> StoreCalls],
           \A g \in Handlers : g # h => storing'[g] = storing[g],
           storing'[h].stage \notin {"save", "check"},
           storing'[h].at <= now,
           storing'[h].result # "none" => storing'[h].stage = "done",
           storing'[h].stage = "consume" => storing'[h].state \in States,
           storing'[h].stage = "delete" \/ storing'[h].result = "consumed"
             => Matches(storing'[h].state, storing'[h].login),
           UNCHANGED <<sql, now, logins, uses, requested>>
    PROVE  StoreInv'
<1>1. StoreTypes'
  BY DEF StoreInv, StoreTypes
<1>2. LoginsMatch'
  BY DEF StoreInv, LoginsMatch, Matches
<1>3. OnePlace'
  BY DEF StoreInv, OnePlace, Holds
<1>4. CallsUnderWay'
  BY DEF StoreInv, CallsUnderWay
<1>5. Pending(logins)' = Pending(logins)
  BY DEF Pending
<1> QED
  BY <1>1, <1>2, <1>3, <1>4, <1>5 DEF StoreInv

\* The login of a call that alone has it is given to the caller, or has expired.
LEMMA GivenKeepsStore ==
    ASSUME StoreInv, NEW h \in Handlers, NEW login, Given(h, login),
           Matches(storing[h].state, login),
           uses[storing[h].state] = 0,
           \A g \in Handlers : Holds(g, storing[h].state) => g = h,
           logins' \in [States -> Logins \cup {NoLogin}],
           \A s \in States : logins'[s] \in {logins[s], NoLogin},
           logins'[storing[h].state] = NoLogin,
           UNCHANGED <<sql, now, requested>>
    PROVE  StoreInv'
<1> DEFINE x == storing[h].state
<1>1. CASE Expired(login, now)
  <2>1. StoreEnds(h, "expired") /\ UNCHANGED uses
    BY <1>1 DEF Given
  <2> QED
    BY <2>1, EndKeepsStore DEF StoreResults
<1>2. CASE ~Expired(login, now)
  <2>1. /\ storing' = [storing EXCEPT ![h].stage = "done", ![h].result = "consumed", ![h].login = login]
        /\ uses' = [uses EXCEPT ![x] = @ + 1]
    BY <1>2 DEF Given
  <2>2. x \in States /\ login \in Logins
    BY DEF Matches
  <2>3. /\ storing' \in [Handlers -> StoreCalls]
        /\ \A g \in Handlers : g # h => storing'[g] = storing[g]
        /\ storing'[h].stage = "done" /\ storing'[h].result = "consumed"
        /\ storing'[h].state = x /\ storing'[h].login = login
        /\ storing'[h].at = storing[h].at
    <3> DEFINE call == [storing[h] EXCEPT !.stage = "done", !.result = "consumed", !.login = login]
    <3>1. storing \in [Handlers -> StoreCalls] /\ storing[h] \in StoreCalls
      BY DEF StoreInv, StoreTypes
    <3>2. /\ call \in StoreCalls
          /\ call.stage = "done" /\ call.result = "consumed" /\ call.login = login
          /\ call.state = x /\ call.at = storing[h].at
      BY <2>2, <3>1 DEF StoreCalls, StoreStages, StoreResults
    <3>3. storing' = [storing EXCEPT ![h] = call]
      BY <2>1, <3>1
    <3> HIDE DEF call
    <3> QED
      BY <3>1, <3>2, <3>3
  <2>4. uses' \in [States -> Nat] /\ uses'[x] = 1 /\ \A s \in States \ {x} : uses'[s] = uses[s]
    BY <2>1, <2>2 DEF StoreInv, StoreTypes
  <2>5. StoreTypes'
    BY <2>3, <2>4 DEF StoreInv, StoreTypes
  <2>6. LoginsMatch'
    BY <2>2, <2>3, <2>4 DEF StoreInv, LoginsMatch, Matches
  <2>7. OnePlace'
    BY <2>2, <2>3, <2>4 DEF StoreInv, OnePlace, Holds
  <2>8. CallsUnderWay'
    BY <2>3 DEF StoreInv, CallsUnderWay
  <2>9. ~sql' => Pending(logins') <= MaxPending
    <3>1. Pending(logins') \in Nat /\ Pending(logins) \in Nat /\ Pending(logins') <= Pending(logins)
      BY PendingShrinks
    <3> QED
      BY <3>1, PendingAssumption DEF StoreInv
  <2>10. Pending(logins)' = Pending(logins')
    BY DEF Pending
  <2> QED
    BY <2>5, <2>6, <2>7, <2>8, <2>9, <2>10 DEF StoreInv
<1> QED
  BY <1>1, <1>2

\* ConsumeLogin of the memory store.
LEMMA ConsumeMemoryStep ==
    ASSUME StoreInv, NEW h \in Handlers, ConsumeMemory(h), UNCHANGED requested
    PROVE  StoreInv'
<1> DEFINE x == storing[h].state
<1>1. x \in States /\ storing[h].stage = "consume" /\ UNCHANGED <<sql, now>>
  BY DEF ConsumeMemory, StoreInv, LoginsMatch
<1>2. logins \in [States -> Logins \cup {NoLogin}]
  BY DEF StoreInv, StoreTypes
<1>3. CASE logins[x] = NoLogin
  <2>1. StoreEnds(h, "not_found") /\ UNCHANGED <<logins, uses>>
    BY <1>3 DEF ConsumeMemory
  <2> QED
    BY <1>1, <1>2, <2>1, EndKeepsStore DEF StoreResults
<1>4. CASE logins[x] # NoLogin
  <2>1. logins' = [logins EXCEPT ![x] = NoLogin] /\ Given(h, logins[x])
    BY <1>4 DEF ConsumeMemory
  <2>2. Matches(x, logins[x]) /\ uses[x] = 0 /\ \A g \in Handlers : ~Holds(g, x)
    BY <1>1, <1>4 DEF StoreInv, LoginsMatch, OnePlace
  <2>3. /\ logins' \in [States -> Logins \cup {NoLogin}]
        /\ \A s \in States : logins'[s] \in {logins[s], NoLogin}
        /\ logins'[x] = NoLogin
    BY <1>1, <1>2, <2>1
  <2> QED
    BY <1>1, <2>1, <2>2, <2>3, GivenKeepsStore
<1> QED
  BY <1>3, <1>4

\* The transaction of the SQL store's ConsumeLogin reads the row.
LEMMA ReadLoginStep ==
    ASSUME StoreInv, NEW h \in Handlers, ReadLogin(h), UNCHANGED requested
    PROVE  StoreInv'
<1> DEFINE x == storing[h].state
<1>1. x \in States /\ storing[h].stage = "consume" /\ UNCHANGED <<sql, now, logins, uses>>
  BY DEF ReadLogin, StoreInv, LoginsMatch
<1>2. logins \in [States -> Logins \cup {NoLogin}]
  BY DEF StoreInv, StoreTypes
<1>3. CASE logins[x] = NoLogin
  <2>1. StoreEnds(h, "not_found")
    BY <1>3 DEF ReadLogin
  <2> QED
    BY <1>1, <1>2, <2>1, EndKeepsStore DEF StoreResults
<1>4. CASE logins[x] # NoLogin
  <2>1. storing' = [storing EXCEPT ![h].stage = "delete", ![h].login = logins[x]]
    BY <1>4 DEF ReadLogin
  <2>2. Matches(x, logins[x])
    BY <1>1, <1>4 DEF StoreInv, LoginsMatch
  <2>3. /\ storing' \in [Handlers -> StoreCalls]
        /\ \A g \in Handlers : g # h => storing'[g] = storing[g]
        /\ storing'[h].stage = "delete" /\ storing'[h].result = storing[h].result
        /\ storing'[h].state = x /\ storing'[h].login = logins[x] /\ storing'[h].at = storing[h].at
    BY <2>1, <1>1, <1>2 DEF StoreInv, StoreTypes, StoreCalls, StoreStages
  <2>4. storing[h].result = "none" /\ storing[h].at <= now
    BY <1>1 DEF StoreInv, CallsUnderWay
  <2> QED
    BY <1>1, <2>2, <2>3, <2>4, MoveKeepsStore
<1> QED
  BY <1>3, <1>4

\* The transaction deletes the row and commits.
LEMMA DeleteLoginStep ==
    ASSUME StoreInv, NEW h \in Handlers, DeleteLogin(h), UNCHANGED requested
    PROVE  StoreInv'
<1> DEFINE x == storing[h].state
<1>1. x \in States /\ storing[h].stage = "delete" /\ UNCHANGED <<sql, now, uses>>
      /\ Matches(x, storing[h].login) /\ logins' = [logins EXCEPT ![x] = NoLogin]
  BY DEF DeleteLogin, StoreInv, LoginsMatch, Matches
<1>2. /\ logins' \in [States -> Logins \cup {NoLogin}]
      /\ \A s \in States : logins'[s] \in {logins[s], NoLogin}
      /\ logins'[x] = NoLogin
  BY <1>1 DEF StoreInv, StoreTypes
<1>3. CASE logins[x] = NoLogin
  <2>1. StoreEnds(h, "not_found")
    BY <1>3 DEF DeleteLogin
  <2> QED
    BY <1>1, <1>2, <2>1, EndKeepsStore DEF StoreResults
<1>4. CASE logins[x] # NoLogin
  <2>1. storing' = [storing EXCEPT ![h].stage = "check"]
    BY <1>4 DEF DeleteLogin
  <2>2. uses[x] = 0 /\ \A g \in Handlers : ~Holds(g, x)
    BY <1>1, <1>4 DEF StoreInv, OnePlace
  <2>3. /\ storing' \in [Handlers -> StoreCalls]
        /\ \A g \in Handlers : g # h => storing'[g] = storing[g]
        /\ storing'[h].stage = "check" /\ storing'[h].result = storing[h].result
        /\ storing'[h].state = x /\ storing'[h].login = storing[h].login
        /\ storing'[h].at = storing[h].at
    BY <2>1 DEF StoreInv, StoreTypes, StoreCalls, StoreStages
  <2>4. StoreTypes'
    BY <1>1, <1>2, <2>3 DEF StoreInv, StoreTypes
  <2>5. LoginsMatch'
    BY <1>1, <1>2, <2>3 DEF StoreInv, LoginsMatch, Matches
  <2>6. OnePlace'
    BY <1>1, <1>2, <2>2, <2>3 DEF StoreInv, OnePlace, Holds
  <2>7. CallsUnderWay'
    BY <1>1, <2>3 DEF StoreInv, CallsUnderWay
  <2>8. ~sql' => Pending(logins') <= MaxPending
    <3>1. Pending(logins') \in Nat /\ Pending(logins) \in Nat /\ Pending(logins') <= Pending(logins)
      BY <1>2, PendingShrinks
    <3> QED
      BY <1>1, <3>1, PendingAssumption DEF StoreInv
  <2>9. Pending(logins)' = Pending(logins')
    BY DEF Pending
  <2> QED
    BY <2>4, <2>5, <2>6, <2>7, <2>8, <2>9 DEF StoreInv
<1> QED
  BY <1>3, <1>4

\* The database ends the transaction, and it is started again or given up.
LEMMA RetryConsumeStep ==
    ASSUME StoreInv, NEW h \in Handlers, RetryConsume(h), UNCHANGED requested
    PROVE  StoreInv'
<1>1. storing[h].stage = "delete" /\ UNCHANGED <<sql, now, logins, uses>>
      /\ storing[h].state \in States /\ storing[h].result = "none" /\ storing[h].at <= now
  BY DEF RetryConsume, StoreInv, LoginsMatch, Matches, CallsUnderWay
<1>2. /\ storing' \in [Handlers -> StoreCalls]
      /\ \A g \in Handlers : g # h => storing'[g] = storing[g]
      /\ storing'[h].state = storing[h].state /\ storing'[h].at = storing[h].at
      /\ \/ storing'[h].stage = "consume" /\ storing'[h].result = "none"
         \/ storing'[h].stage = "done" /\ storing'[h].result = "failed"
  <2>1. storing[h].attempt \in 0..MaxConsumeAttempts /\ storing[h] \in StoreCalls
    BY DEF StoreInv, StoreTypes, StoreCalls
  <2>2. CASE storing[h].attempt < MaxConsumeAttempts
    <3> DEFINE call == [storing[h] EXCEPT !.stage = "consume", !.attempt = storing[h].attempt + 1,
                                          !.login = NoLogin]
    <3>1. storing' = [storing EXCEPT ![h] = call]
      BY <2>1, <2>2 DEF RetryConsume, StoreCalls
    <3>2. storing[h].attempt + 1 \in 0..MaxConsumeAttempts
      BY <2>1, <2>2, ConsumeAssumption
    <3>3. /\ call \in StoreCalls /\ call.stage = "consume" /\ call.result = "none"
          /\ call.state = storing[h].state /\ call.at = storing[h].at
      BY <1>1, <2>1, <3>2 DEF StoreCalls, StoreStages
    <3> HIDE DEF call
    <3> QED
      BY <3>1, <3>3 DEF StoreInv, StoreTypes
  <2>3. CASE ~(storing[h].attempt < MaxConsumeAttempts)
    <3>1. storing' = [storing EXCEPT ![h] = [@ EXCEPT !.stage = "done", !.result = "failed"]]
      BY <2>3 DEF RetryConsume
    <3> QED
      BY <1>1, <3>1 DEF StoreInv, StoreTypes, StoreCalls, StoreStages, StoreResults
  <2> QED
    BY <2>2, <2>3
<1> QED
  BY <1>1, <1>2, MoveKeepsStore

\* The expiry is looked at after the commit.
LEMMA CheckLoginStep ==
    ASSUME StoreInv, NEW h \in Handlers, CheckLogin(h), UNCHANGED requested
    PROVE  StoreInv'
<1> DEFINE x == storing[h].state
<1>1. Matches(x, storing[h].login) /\ x \in States /\ Given(h, storing[h].login)
      /\ UNCHANGED <<sql, now, logins>>
  BY DEF CheckLogin, StoreInv, LoginsMatch, Matches
<1>2. logins[x] = NoLogin /\ uses[x] = 0 /\ \A g \in Handlers : Holds(g, x) => g = h
  BY <1>1 DEF CheckLogin, StoreInv, OnePlace, Holds
<1>3. logins \in [States -> Logins \cup {NoLogin}]
  BY DEF StoreInv, StoreTypes
<1> QED
  BY <1>1, <1>2, <1>3, GivenKeepsStore

\* Every step of a store keeps its invariant.
LEMMA StoreStepKeeps ==
    ASSUME StoreInv, NEW h \in Handlers, StoreStep(h), UNCHANGED requested
    PROVE  StoreInv'
<1>1. ASSUME StoreError(h)
      PROVE  StoreInv'
  <2>1. StoreEnds(h, "failed") /\ UNCHANGED <<sql, now, logins, uses>>
    BY <1>1 DEF StoreError, StoreFails
  <2>2. logins \in [States -> Logins \cup {NoLogin}]
    BY DEF StoreInv, StoreTypes
  <2> QED
    BY <2>1, <2>2, EndKeepsStore DEF StoreResults
<1> QED
  BY <1>1, SaveMemoryStep, SaveSQLStep, ConsumeMemoryStep, ReadLoginStep, DeleteLoginStep,
     RetryConsumeStep, CheckLoginStep DEF StoreStep

\* The record of no call.
LEMMA NoStoreCall ==
    /\ NotStoring \in StoreCalls
    /\ NotStoring.stage = "idle" /\ NotStoring.result = "none" /\ NotStoring.at = 0
  BY ConsumeAssumption DEF NotStoring, StoreCalls, StoreStages, StoreResults

\* The call that BeginLogin makes of the store.
LEMMA SavingCall ==
    ASSUME StoreTypes, NEW x \in States, NEW login \in Logins
    PROVE  /\ Saving(x, login) \in StoreCalls
           /\ Saving(x, login).state = x /\ Saving(x, login).login = login
           /\ Saving(x, login).at = now
           /\ \/ Saving(x, login).stage = "save" /\ Saving(x, login).result = "none"
              \/ Saving(x, login).stage = "done" /\ Saving(x, login).result = "expired"
<1>1. now \in Int
  BY TimeAssumption DEF StoreTypes
<1>2. CASE Expired(login, now)
  BY <1>1, <1>2, NoStoreCall DEF Saving, StoreCalls, StoreStages, StoreResults
<1>3. CASE ~Expired(login, now)
  BY <1>1, <1>3, NoStoreCall DEF Saving, StoreCalls, StoreStages, StoreResults
<1> QED
  BY <1>2, <1>3

\* BeginLogin takes values nobody has and stores what was asked for under them.
LEMMA BeginLoginCall ==
    ASSUME StoreTypes, NEW h \in Handlers, NEW request \in Requests, BeginLogin(h, request)
    PROVE  \E x \in States, login \in Logins :
              /\ requested[x] = None
              /\ login.tenant = request.tenant /\ login.user = request.user
              /\ requested' = [requested EXCEPT ![x] = request]
              /\ storing' = [storing EXCEPT ![h] = Saving(x, login)]
              /\ serving' = [serving EXCEPT ![h].stage = "begin", ![h].state = x]
<1> DEFINE x == CHOOSE x \in Fresh : TRUE
           login == [tenant |-> request.tenant, user |-> request.user,
                     expires |-> IF request.until = None THEN now + TTL ELSE request.until]
<1>1. x \in Fresh
  BY DEF BeginLogin
<1>2. x \in States /\ requested[x] = None
  BY <1>1 DEF Fresh
<1>3. login \in Logins
  <2>1. now + TTL \in Int
    BY TTLAssumption, TimeAssumption DEF StoreTypes
  <2>2. request.until # None => request.until \in Int
    BY RequestsAssumption
  <2>3. request.tenant \in Tenants /\ request.user \in Users \cup {NoUser}
    BY AskedAssumption
  <2> QED
    BY <2>1, <2>2, <2>3 DEF Logins
<1>4. /\ requested' = [requested EXCEPT ![x] = request]
      /\ storing' = [storing EXCEPT ![h] = Saving(x, login)]
      /\ serving' = [serving EXCEPT ![h].stage = "begin", ![h].state = x]
  BY DEF BeginLogin
<1>5. login.tenant = request.tenant /\ login.user = request.user
  OBVIOUS
<1> HIDE DEF x, login
<1> QED
  BY <1>2, <1>3, <1>4, <1>5

\* BeginLogin hands a login to the store.
LEMMA BeginLoginStep ==
    ASSUME StoreInv, NEW h \in Handlers, NEW request \in Requests, BeginLogin(h, request)
    PROVE  StoreInv'
<1>1. PICK x \in States, login \in Logins :
              /\ requested[x] = None
              /\ login.tenant = request.tenant /\ login.user = request.user
              /\ requested' = [requested EXCEPT ![x] = request]
              /\ storing' = [storing EXCEPT ![h] = Saving(x, login)]
              /\ serving' = [serving EXCEPT ![h].stage = "begin", ![h].state = x]
  <2>1. StoreTypes
    BY DEF StoreInv
  <2> QED
    BY <2>1, BeginLoginCall
<1>2. UNCHANGED <<sql, now, logins, uses>> /\ request # None
  BY RequestsAssumption DEF BeginLogin
<1> DEFINE call == Saving(x, login)
<1>3. /\ call \in StoreCalls /\ call.state = x /\ call.login = login /\ call.at = now
      /\ \/ call.stage = "save" /\ call.result = "none"
         \/ call.stage = "done" /\ call.result = "expired"
  BY SavingCall DEF StoreInv
<1> HIDE DEF call
<1>4. /\ requested' \in [States -> Requests \cup {None}]
      /\ requested'[x] = request
      /\ \A s \in States : requested[s] # None => requested'[s] = requested[s]
  BY <1>1, <1>2 DEF StoreInv, StoreTypes
<1>5. /\ storing' \in [Handlers -> StoreCalls]
      /\ storing'[h] = call
      /\ \A g \in Handlers : g # h => storing'[g] = storing[g]
  BY <1>1, <1>3 DEF StoreInv, StoreTypes, call
<1>6. StoreTypes'
  BY <1>2, <1>4, <1>5 DEF StoreInv, StoreTypes
<1>8. Matches(x, login)'
  BY <1>1, <1>2, <1>4 DEF Matches
<1>9. LoginsMatch'
  <2>1. \A s \in States : logins'[s] # NoLogin => Matches(s, logins[s])'
    <3> SUFFICES ASSUME NEW s \in States, logins[s] # NoLogin
                 PROVE  Matches(s, logins[s])'
      BY <1>2
    <3>1. Matches(s, logins[s])
      BY DEF StoreInv, LoginsMatch
    <3> QED
      BY <3>1, <1>2, <1>4 DEF Matches
  <2>2. \A s \in States : uses'[s] # 0 => requested'[s] # None
    BY <1>2, <1>4 DEF StoreInv, LoginsMatch
  <2>3. \A g \in Handlers :
          storing'[g].stage \in {"save", "delete", "check"} \/ storing'[g].result = "consumed"
            => Matches(storing[g].state, storing[g].login)'
    <3>1. Matches(storing[h].state, storing[h].login)'
      BY <1>3, <1>5, <1>8 DEF Matches
    <3>2. ASSUME NEW g \in Handlers, g # h,
                 storing'[g].stage \in {"save", "delete", "check"} \/ storing'[g].result = "consumed"
          PROVE  Matches(storing[g].state, storing[g].login)'
      <4>1. Matches(storing[g].state, storing[g].login)
        BY <1>5, <3>2 DEF StoreInv, LoginsMatch
      <4> QED
        BY <1>4, <1>5, <3>2, <4>1 DEF Matches
    <3> QED
      BY <3>1, <3>2
  <2>4. \A g \in Handlers : storing'[g].stage = "consume" => storing'[g].state \in States
    BY <1>3, <1>5 DEF StoreInv, LoginsMatch
  <2> QED
    BY <1>2, <2>1, <2>2, <2>3, <2>4 DEF LoginsMatch
<1>10. logins[x] = NoLogin /\ uses[x] = 0 /\ \A g \in Handlers : ~Holds(g, x)
  BY <1>1 DEF StoreInv, LoginsMatch, Matches, Holds
<1>11. OnePlace'
  BY <1>2, <1>3, <1>5, <1>10 DEF StoreInv, OnePlace, Holds
<1>12. CallsUnderWay'
  <2>1. now <= now
    BY TimeAssumption DEF StoreInv, StoreTypes
  <2> QED
    BY <1>2, <1>3, <1>5, <2>1 DEF StoreInv, CallsUnderWay
<1>13. Pending(logins)' = Pending(logins)
  BY <1>2 DEF Pending
<1> QED
  BY <1>2, <1>6, <1>9, <1>11, <1>12, <1>13 DEF StoreInv

\* The client is done with its call of the store.
LEMMA ReplyStep ==
    ASSUME StoreInv, NEW h \in Handlers, LoginBegun(h) \/ LoginConsumed(h)
    PROVE  StoreInv'
<1>1. storing' = [storing EXCEPT ![h] = NotStoring] /\ UNCHANGED <<sql, now, logins, uses, requested>>
  BY DEF LoginBegun, LoginConsumed
<1>2. 0 <= now
  BY TimeAssumption DEF StoreInv, StoreTypes
<1>3. /\ storing' \in [Handlers -> StoreCalls] /\ storing'[h] = NotStoring
      /\ \A g \in Handlers : g # h => storing'[g] = storing[g]
  BY <1>1, NoStoreCall DEF StoreInv, StoreTypes
<1> QED
  BY <1>1, <1>2, <1>3, NoStoreCall, MoveKeepsStore

\* A callback asks the store for its login.
LEMMA HandleLoginCallbackStep ==
    ASSUME StoreInv, NEW h \in Handlers, NEW state \in States, NEW code,
           HandleLoginCallback(h, state, code)
    PROVE  StoreInv'
<1>1. storing' = [storing EXCEPT ![h] = Consuming(state)]
      /\ UNCHANGED <<sql, now, logins, uses, requested>>
  BY DEF HandleLoginCallback
<1>2. 0 <= now
  BY TimeAssumption DEF StoreInv, StoreTypes
<1>3. /\ Consuming(state) \in StoreCalls
      /\ Consuming(state).stage = "consume" /\ Consuming(state).state = state
      /\ Consuming(state).result = "none" /\ Consuming(state).at = 0
  <2>1. 1 \in 0..MaxConsumeAttempts
    BY ConsumeAssumption
  <2> QED
    BY <2>1, NoStoreCall DEF Consuming, StoreCalls, StoreStages
<1>4. /\ storing' \in [Handlers -> StoreCalls] /\ storing'[h] = Consuming(state)
      /\ \A g \in Handlers : g # h => storing'[g] = storing[g]
  BY <1>1, <1>3 DEF StoreInv, StoreTypes
<1> QED
  BY <1>1, <1>2, <1>3, <1>4, MoveKeepsStore

-----------------------------------------------------------------------------
(* The contract of the stores.                                             *)

\* Expiry is final.
LEMMA ExpiryStays ==
    ASSUME NEW login \in Logins, NEW t \in Int, NEW u \in Int, t <= u, Expired(login, t)
    PROVE  Expired(login, u)
  BY DEF Logins, Expired

\* Only a consumed login counts as used, by the call that alone has it.
LEMMA GivenCounts ==
    ASSUME StoreInv, NEW h \in Handlers, NEW login, Given(h, login), uses[storing[h].state] = 0
    PROVE  GivenOnce
<1>1. CASE Expired(login, now)
  BY <1>1 DEF Given, GivenOnce
<1>2. CASE ~Expired(login, now)
  <2>1. /\ storing' = [storing EXCEPT ![h].stage = "done", ![h].result = "consumed", ![h].login = login]
        /\ uses' = [uses EXCEPT ![storing[h].state] = @ + 1]
    BY <1>2 DEF Given
  <2>2. storing'[h].result = "consumed" /\ storing'[h].login = login
    BY <2>1 DEF StoreInv, StoreTypes, StoreCalls
  <2>3. \A s \in States : uses'[s] # uses[s] => s = storing[h].state
    BY <2>1 DEF StoreInv, StoreTypes
  <2> QED
    BY <1>2, <2>2, <2>3 DEF GivenOnce
<1> QED
  BY <1>1, <1>2

\* A step of another kind takes no login and refuses none.
LEMMA QuietContract ==
    ASSUME StoreInv, UNCHANGED <<logins, uses>>,
           \A h \in Handlers : storing[h].stage = "save" => storing'[h].result # "full"
    PROVE  StoreContract
  BY DEF StoreContract, GivenOnce, GoneForAReason, FullOfValid

\* The memory store refuses a login only when it is full of valid ones.
LEMMA SaveMemoryContract ==
    ASSUME StoreInv, NEW h \in Handlers, SaveMemory(h)
    PROVE  StoreContract
<1> DEFINE at == storing[h].at
           first == IF CleanupDue(at) THEN Swept(at) ELSE logins
           crowded == Pending(first) >= MaxPending
           table == IF crowded THEN Swept(at) ELSE first
           full == Pending(table) >= MaxPending
<1>1. at \in Int /\ now \in Int /\ at <= now /\ StoreTypes
  BY TimeAssumption DEF StoreInv, StoreTypes, StoreCalls, CallsUnderWay
<1>2. \A s \in States : /\ logins[s] # NoLogin /\ first[s] = NoLogin => Expired(logins[s], at)
                        /\ logins[s] # NoLogin /\ table[s] = NoLogin => Expired(logins[s], at)
  BY <1>1, Sweeps
<1>3. storing[h].state \in States /\ logins[storing[h].state] = NoLogin
  BY DEF SaveMemory, StoreInv, LoginsMatch, Matches, OnePlace, Holds
<1>4. GoneForAReason
  <2>1. \A s \in States : logins[s] # NoLogin => logins'[s] \in {first[s], table[s]}
    <3>1. \/ logins' = first
          \/ logins' = table
          \/ logins' = [table EXCEPT ![storing[h].state] = storing[h].login]
      BY DEF SaveMemory
    <3>2. first \in [States -> Logins \cup {NoLogin}] /\ table \in [States -> Logins \cup {NoLogin}]
      BY <1>1, Sweeps DEF StoreTypes
    <3> HIDE DEF first, table
    <3> QED
      BY <1>3, <3>1, <3>2
  <2>2. \A s \in States : logins[s] # NoLogin => logins[s] \in Logins
    BY <1>1 DEF StoreTypes
  <2>3. \A s \in States : logins[s] # NoLogin /\ logins'[s] = NoLogin => Expired(logins[s], now)
    <3> HIDE DEF first, table
    <3> QED
      BY <1>1, <1>2, <2>1, <2>2, ExpiryStays
  <2> QED
    BY <2>3 DEF GoneForAReason
<1>5. FullOfValid
  <2>1. \A g \in Handlers : storing[g].stage = "save" /\ storing'[g].result = "full" => g = h
    <3>1. \A g \in Handlers : storing[g].stage = "save" => storing[g].result = "none"
      BY DEF StoreInv, CallsUnderWay
    <3>2. \A g \in Handlers : g # h => storing'[g] = storing[g]
      BY <1>1 DEF SaveMemory, StoreEnds, StoreTypes
    <3> QED
      BY <3>1, <3>2
  <2>2. storing'[h].result = "full" => full
    <3>1. full \in BOOLEAN
      OBVIOUS
    <3>2. StoreEnds(h, "duplicate") \/ StoreEnds(h, IF full THEN "full" ELSE "saved")
      BY DEF SaveMemory
    <3> HIDE DEF full
    <3> QED
      BY <1>1, <3>2, StoreEndsCall DEF StoreResults
  <2>3. full => table = Swept(at)
    <3>1. ~crowded => table = first
      OBVIOUS
    <3>2. ~crowded => ~full
      BY <3>1
    <3> QED
      BY <3>2
  <2>4. Pending(Swept(at)) =
          Cardinality({s \in States : logins[s] # NoLogin /\ ~Expired(logins[s], at)})
    <3>1. {s \in States : Swept(at)[s] # NoLogin} =
            {s \in States : logins[s] # NoLogin /\ ~Expired(logins[s], at)}
      BY DEF Swept
    <3> QED
      BY <3>1 DEF Pending
  <2> QED
    BY <2>1, <2>2, <2>3, <2>4 DEF FullOfValid
<1>6. GivenOnce
  BY DEF SaveMemory, GivenOnce
<1> QED
  BY <1>4, <1>5, <1>6 DEF StoreContract

\* Nobody else's call ends with a full store.
LEMMA OthersNotFull ==
    ASSUME StoreInv, NEW h \in Handlers,
           \A g \in Handlers : g # h => storing'[g] = storing[g],
           storing[h].stage = "save" => storing'[h].result # "full"
    PROVE  FullOfValid
<1>1. \A g \in Handlers : storing[g].stage = "save" => storing[g].result = "none"
  BY DEF StoreInv, CallsUnderWay
<1> QED
  BY <1>1 DEF FullOfValid

\* Every step of a store keeps the contract.
LEMMA StoreStepContract ==
    ASSUME StoreInv, NEW h \in Handlers, StoreStep(h)
    PROVE  StoreContract
<1> DEFINE x == storing[h].state
<1> USE DEF StoreContract
<1>1. StoreTypes /\ storing \in [Handlers -> StoreCalls]
  BY DEF StoreInv, StoreTypes
<1>2. ASSUME SaveSQL(h)
      PROVE  StoreContract
  <2>1. PICK result \in {"duplicate", "saved", "failed"} : StoreEnds(h, result)
    BY <1>2 DEF SaveSQL
  <2>2. FullOfValid
    BY <1>1, <2>1, StoreEndsCall, OthersNotFull DEF StoreResults
  <2>3. x \in States /\ logins[x] = NoLogin
    BY <1>2 DEF SaveSQL, StoreInv, LoginsMatch, Matches, OnePlace, Holds
  <2>4. \A s \in States : logins[s] # NoLogin => logins'[s] = logins[s]
    BY <1>1, <1>2, <2>3 DEF SaveSQL, StoreTypes
  <2> QED
    BY <1>2, <2>2, <2>4 DEF SaveSQL, GivenOnce, GoneForAReason
<1>3. ASSUME ConsumeMemory(h)
      PROVE  StoreContract
  <2>1. \A g \in Handlers : g # h => storing'[g] = storing[g]
    BY <1>1, <1>3 DEF ConsumeMemory, StoreEnds, Given
  <2>2. FullOfValid
    BY <1>3, <2>1, OthersNotFull DEF ConsumeMemory
  <2>3. x \in States /\ storing[h].stage = "consume"
    BY <1>3 DEF ConsumeMemory, StoreInv, LoginsMatch
  <2>4. \A s \in States : s # x => logins'[s] = logins[s]
    BY <1>1, <1>3, <2>3 DEF ConsumeMemory, StoreTypes
  <2>5. GivenOnce
    <3>1. CASE logins[x] = NoLogin
      BY <1>3, <3>1 DEF ConsumeMemory, GivenOnce
    <3>2. CASE logins[x] # NoLogin
      <4>1. uses[x] = 0 /\ Given(h, logins[x])
        BY <1>3, <3>2, <2>3 DEF ConsumeMemory, StoreInv, OnePlace
      <4> QED
        BY <4>1, GivenCounts
    <3> QED
      BY <3>1, <3>2
  <2> QED
    BY <2>2, <2>3, <2>4, <2>5 DEF GoneForAReason
<1>4. ASSUME DeleteLogin(h)
      PROVE  StoreContract
  <2>1. \A g \in Handlers : g # h => storing'[g] = storing[g]
    BY <1>1, <1>4 DEF DeleteLogin, StoreEnds
  <2>2. FullOfValid
    BY <1>4, <2>1, OthersNotFull DEF DeleteLogin
  <2>3. x \in States /\ storing[h].stage = "delete"
    BY <1>4 DEF DeleteLogin, StoreInv, LoginsMatch, Matches
  <2>4. \A s \in States : s # x => logins'[s] = logins[s]
    BY <1>1, <1>4, <2>3 DEF DeleteLogin, StoreTypes
  <2> QED
    BY <1>4, <2>2, <2>3, <2>4 DEF DeleteLogin, GoneForAReason, GivenOnce
<1>5. ASSUME CheckLogin(h)
      PROVE  StoreContract
  <2>1. \A g \in Handlers : g # h => storing'[g] = storing[g]
    BY <1>1, <1>5 DEF CheckLogin, StoreEnds, Given
  <2>2. FullOfValid
    BY <1>5, <2>1, OthersNotFull DEF CheckLogin
  <2>3. uses[x] = 0 /\ Given(h, storing[h].login)
    BY <1>5 DEF CheckLogin, StoreInv, LoginsMatch, Matches, OnePlace, Holds
  <2>4. GivenOnce
    BY <2>3, GivenCounts
  <2> QED
    BY <1>5, <2>2, <2>4 DEF CheckLogin, GoneForAReason
<1>6. ASSUME ReadLogin(h) \/ RetryConsume(h) \/ StoreError(h)
      PROVE  StoreContract
  <2>1. \A g \in Handlers : g # h => storing'[g] = storing[g]
    BY <1>1, <1>6 DEF ReadLogin, RetryConsume, StoreError, StoreFails, StoreEnds
  <2>2. storing[h].stage = "save" => storing'[h].result # "full"
    BY <1>1, <1>6, StoreEndsCall DEF ReadLogin, RetryConsume, StoreError, StoreFails, StoreResults
  <2>3. FullOfValid
    BY <2>1, <2>2, OthersNotFull
  <2> QED
    BY <1>6, <2>3 DEF ReadLogin, RetryConsume, StoreError, StoreFails, GivenOnce, GoneForAReason
<1> QED
  BY <1>2, <1>3, <1>4, <1>5, <1>6, SaveMemoryContract DEF StoreStep

\* The store through every step of the login.
LEMMA StoreNext ==
    ASSUME StoreInv, [Next]_vars
    PROVE  StoreInv' /\ (StoreContract \/ UNCHANGED storeVars)
<1>1. ASSUME NEW h \in Handlers, Begin(h)
      PROVE  StoreInv' /\ StoreContract
  <2>1. PICK request \in Requests : BeginLogin(h, request)
    BY <1>1 DEF Begin
  <2>2. StoreInv'
    BY <2>1, BeginLoginStep
  <2>3. PICK x \in States, login \in Logins :
              /\ requested[x] = None
              /\ login.tenant = request.tenant /\ login.user = request.user
              /\ requested' = [requested EXCEPT ![x] = request]
              /\ storing' = [storing EXCEPT ![h] = Saving(x, login)]
              /\ serving' = [serving EXCEPT ![h].stage = "begin", ![h].state = x]
    <3>1. StoreTypes
      BY DEF StoreInv
    <3> QED
      BY <2>1, <3>1, BeginLoginCall
  <2>4. UNCHANGED <<logins, uses>>
    BY <2>1 DEF BeginLogin
  <2>5. storing'[h] = Saving(x, login) /\ \A g \in Handlers : g # h => storing'[g] = storing[g]
    BY <2>3 DEF StoreInv, StoreTypes
  <2>6. Saving(x, login).result # "full"
    BY SavingCall DEF StoreInv
  <2>7. FullOfValid
    BY <2>5, <2>6, OthersNotFull
  <2> QED
    BY <2>2, <2>4, <2>7 DEF StoreContract, GivenOnce, GoneForAReason
<1>2. ASSUME NEW h \in Handlers, Receive(h)
      PROVE  StoreInv' /\ StoreContract
  <2>1. PICK state \in States, code \in codes \cup {NoCode} : HandleLoginCallback(h, state, code)
    BY <1>2 DEF Receive
  <2>2. StoreInv'
    BY <2>1, HandleLoginCallbackStep
  <2>3. UNCHANGED <<logins, uses>> /\ storing' = [storing EXCEPT ![h] = Consuming(state)]
    BY <2>1 DEF HandleLoginCallback
  <2>4. storing'[h] = Consuming(state) /\ \A g \in Handlers : g # h => storing'[g] = storing[g]
    BY <2>3 DEF StoreInv, StoreTypes
  <2>5. Consuming(state).result # "full"
    BY NoStoreCall DEF Consuming, StoreCalls
  <2>6. FullOfValid
    BY <2>4, <2>5, OthersNotFull
  <2> QED
    BY <2>2, <2>3, <2>6 DEF StoreContract, GivenOnce, GoneForAReason
<1>3. ASSUME NEW h \in Handlers, LoginBegun(h) \/ LoginConsumed(h)
      PROVE  StoreInv' /\ StoreContract
  <2>1. UNCHANGED <<logins, uses>> /\ storing' = [storing EXCEPT ![h] = NotStoring]
    BY <1>3 DEF LoginBegun, LoginConsumed
  <2>2. storing'[h] = NotStoring /\ \A g \in Handlers : g # h => storing'[g] = storing[g]
    BY <2>1 DEF StoreInv, StoreTypes
  <2>3. FullOfValid
    BY <2>2, NoStoreCall, OthersNotFull
  <2> QED
    BY <1>3, <2>1, <2>3, ReplyStep DEF StoreContract, GivenOnce, GoneForAReason
<1>4. ASSUME NEW h \in Handlers, Store(h)
      PROVE  StoreInv' /\ StoreContract
  BY <1>4, StoreStepKeeps, StoreStepContract DEF Store, clientVars
<1>5. ASSUME Time
      PROVE  StoreInv' /\ StoreContract
  <2>1. UNCHANGED <<sql, logins, storing, uses, requested>> /\ now' = now + 1 /\ now < MaxTime
    BY <1>5 DEF Time, Tick, clientVars
  <2>2. now' \in 0..MaxTime /\ now <= now'
    BY <2>1, TimeAssumption DEF StoreInv, StoreTypes
  <2>3. \A h \in Handlers : storing[h].stage = "save" => storing'[h].result # "full"
    BY <2>1 DEF StoreInv, CallsUnderWay
  <2> QED
    BY <2>1, <2>2, <2>3, StoreStutters, QuietContract
<1>6. ASSUME UNCHANGED <<storeVars, requested>>
      PROVE  StoreInv' /\ UNCHANGED storeVars
  <2>1. now \in 0..MaxTime /\ now <= now
    BY TimeAssumption DEF StoreInv, StoreTypes
  <2> QED
    BY <1>6, <2>1, StoreStutters DEF storeVars
<1>7. ASSUME \/ \E h \in Handlers :
                  \/ Exchange(h) \/ FetchUserInfo(h) \/ Authenticate(h) \/ AuthenticateDirectly(h)
                  \/ Identify(h) \/ Answer(h)
             \/ Agree \/ Host \/ Quiet \/ UNCHANGED vars
      PROVE  UNCHANGED <<storeVars, requested>>
  BY <1>7 DEF Exchange, FetchUserInfo, Authenticate, AuthenticateDirectly, Identify, Answer, Agree,
     Approve, Host, Quiet, vars, clientVars
<1> QED
  BY <1>1, <1>2, <1>3, <1>4, <1>5, <1>6, <1>7 DEF Next, Serve

\* Initially there are no logins.
LEMMA StoreInitial == Init => StoreInv
<1> SUFFICES ASSUME Init
             PROVE  StoreInv
  OBVIOUS
<1>1. StoreTypes
  BY NoStoreCall, TimeAssumption DEF Init, StoreInit, ClientInit, StoreTypes
<1>2. LoginsMatch /\ OnePlace
  BY NoStoreCall DEF Init, StoreInit, LoginsMatch, OnePlace, Holds
<1>3. CallsUnderWay
  BY NoStoreCall DEF Init, StoreInit, CallsUnderWay
<1>4. Pending(logins) = 0
  <2>1. {s \in States : logins[s] # NoLogin} = {}
    BY DEF Init, StoreInit
  <2> QED
    BY <2>1, FS_EmptySet DEF Pending
<1> QED
  BY <1>1, <1>2, <1>3, <1>4, PendingAssumption DEF StoreInv

\* The invariant of the stores, in every reachable state.
LEMMA StoreAlways == Spec => []StoreInv
  BY StoreInitial, StoreNext, PTL DEF Spec

\* ConsumeLogin gives a login to one callback at most and not after its expiry;
\* a login leaves the store only when a callback consumes it, its answer lost or
\* not, or once it has expired; and the memory store refuses a new one only when it is full of logins that have not.
THEOREM StoresKeepLogins == Spec => LoginsKept
<1>1. StoreInv /\ [Next]_vars => [StoreContract]_storeVars
  BY StoreNext
<1> QED
  BY <1>1, StoreAlways, PTL DEF Spec, LoginsKept

-----------------------------------------------------------------------------
(* The identity service.                                                   *)

\* No address is the mark of an absent user.
LEMMA RealEmails == NoUser \notin Emails
  BY AccountsAssumption DEF Emails, Tokens

\* What a call that goes on, or ends, leaves in the call records.
LEMMA ToCall ==
    ASSUME IdentityTypes, NEW c \in Clients, NEW stage \in IdentityStages, To(c, stage)
    PROVE  /\ authenticating' \in [Clients -> IdentityCalls]
           /\ \A d \in Clients : d # c => authenticating'[d] = authenticating[d]
           /\ authenticating'[c].stage = stage
           /\ authenticating'[c].assertion = authenticating[c].assertion
           /\ authenticating'[c].user = authenticating[c].user
           /\ authenticating'[c].attempt = authenticating[c].attempt
           /\ authenticating'[c].raced = authenticating[c].raced
           /\ authenticating'[c].result = authenticating[c].result
  BY DEF IdentityTypes, To, IdentityCalls

LEMMA ConcludesCall ==
    ASSUME IdentityTypes, NEW c \in Clients, NEW result \in IdentityResults, Concludes(c, result)
    PROVE  /\ authenticating' \in [Clients -> IdentityCalls]
           /\ \A d \in Clients : d # c => authenticating'[d] = authenticating[d]
           /\ authenticating'[c].stage = "done" /\ authenticating'[c].result = result
           /\ authenticating'[c].assertion = authenticating[c].assertion
           /\ authenticating'[c].user = authenticating[c].user
           /\ authenticating'[c].raced = authenticating[c].raced
<1> DEFINE call == [authenticating[c] EXCEPT !.stage = "done", !.result = result]
<1>1. authenticating \in [Clients -> IdentityCalls] /\ authenticating[c] \in IdentityCalls
  BY DEF IdentityTypes
<1>2. /\ call \in IdentityCalls
      /\ call.stage = "done" /\ call.result = result
      /\ call.assertion = authenticating[c].assertion /\ call.user = authenticating[c].user
      /\ call.raced = authenticating[c].raced
  BY <1>1 DEF IdentityCalls, IdentityStages
<1>3. authenticating' = [authenticating EXCEPT ![c] = call]
  BY <1>1 DEF Concludes
<1> HIDE DEF call
<1> QED
  BY <1>1, <1>2, <1>3

\* What a call knows stays true when it does nothing and users and members come.
LEMMA KnowledgeStays ==
    ASSUME IdentityInv, NEW d \in Clients, authenticating'[d] = authenticating[d],
           \A u \in Users : users[u] # NoUser => users'[u] = users[u],
           members \subseteq members', UNCHANGED links
    PROVE  CallKnows(d)'
<1>1. CallKnows(d) /\ authenticating[d] \in IdentityCalls
  BY DEF IdentityInv, IdentityTypes, CallsKnow
<1>2. Assertion(d)' = Assertion(d) /\ LinkOf(d)' = LinkOf(d) /\ Membership(d)' = Membership(d)
  BY DEF Assertion, LinkOf, Membership
<1>3. authenticating[d].stage \in Existing =>
         authenticating[d].user \in Users /\ users[authenticating[d].user] = Assertion(d).email
         /\ Assertion(d).email # NoUser
  BY <1>1, RealEmails DEF CallKnows, Existing, Chosen, Assertions
<1> QED
  BY <1>1, <1>2, <1>3 DEF CallKnows, Key

\* A step of one call, in which users and members may come.
LEMMA OneCallSteps ==
    ASSUME IdentityInv, NEW c \in Clients, IdentityTypes',
           \A d \in Clients : d # c => authenticating'[d] = authenticating[d],
           \A u \in Users : users[u] # NoUser => users'[u] = users[u],
           members \subseteq members', UNCHANGED links,
           CallKnows(c)', EndsRight(c)
    PROVE  IdentityInv' /\ LinkContract
<1>1. CallsKnow'
  BY KnowledgeStays DEF CallsKnow
<1>2. \A d \in Clients : EndsRight(d)
  <2>1. \A d \in Clients : authenticating[d].result # "none" => authenticating[d].stage = "done"
    BY DEF IdentityInv, CallsKnow, CallKnows
  <2> QED
    BY <2>1 DEF EndsRight
<1> QED
  BY <1>1, <1>2 DEF IdentityInv, LinkContract, LinksKeepUser

\* A call that has chosen its user goes on to another stage.
LEMMA GoesOn ==
    ASSUME IdentityInv, NEW c \in Clients, authenticating[c].stage \in Chosen,
           NEW stage \in Chosen, To(c, stage), authenticating[c].stage \in Joined => stage \in Joined,
           UNCHANGED <<strict, links>>,
           users' \in [Users -> Emails \cup {NoUser}], members' \subseteq Tenants \X Users,
           \A u \in Users : users[u] # NoUser => users'[u] = users[u],
           members \subseteq members',
           stage \in Existing => users'[authenticating[c].user] = Assertion(c).email,
           stage \in Joined => authenticating[c].raced \/ Membership(c) \in members',
           stage \in Joined /\ authenticating[c].attempt = 1
             => authenticating[c].raced \/ links[Key(Assertion(c))] # NoUser,
           stage = "insert" /\ authenticating[c].attempt = 1 => authenticating[c].raced,
           stage = "update" => authenticating[c].raced
             \/ (/\ links[Key(Assertion(c))] # NoUser
                 /\ links[Key(Assertion(c))].user = authenticating[c].user),
           stage = "confirm" => authenticating[c].raced
             \/ (links[Key(Assertion(c))] # NoUser /\ links[Key(Assertion(c))] = LinkOf(c))
    PROVE  IdentityInv' /\ LinkContract
<1>1. CallKnows(c) /\ IdentityTypes
  BY DEF IdentityInv, CallsKnow
<1>2. /\ authenticating' \in [Clients -> IdentityCalls]
      /\ \A d \in Clients : d # c => authenticating'[d] = authenticating[d]
      /\ authenticating'[c].stage = stage
      /\ authenticating'[c].assertion = authenticating[c].assertion
      /\ authenticating'[c].user = authenticating[c].user
      /\ authenticating'[c].attempt = authenticating[c].attempt
      /\ authenticating'[c].raced = authenticating[c].raced
      /\ authenticating'[c].result = authenticating[c].result
  BY <1>1, ToCall DEF Chosen, IdentityStages
<1>3. IdentityTypes'
  BY <1>1, <1>2 DEF IdentityTypes
<1>4. authenticating[c].result = "none" /\ Assertion(c) \in Assertions
      /\ authenticating[c].user \in Users /\ Assertion(c).user \in {NoUser, authenticating[c].user}
      /\ (stage \notin Joined => authenticating[c].attempt = 0)
  BY <1>1 DEF CallKnows, Chosen
<1>5. Assertion(c)' = Assertion(c) /\ LinkOf(c)' = LinkOf(c) /\ Membership(c)' = Membership(c)
  BY <1>2 DEF Assertion, LinkOf, Membership
<1>6. CallKnows(c)'
  <2>1. stage # "idle" /\ stage # "done"
    BY DEF Chosen
  <2> QED
    BY <1>2, <1>4, <1>5, <2>1 DEF CallKnows, Key
<1>7. EndsRight(c)
  <2>1. authenticating'[c].result = "none"
    BY <1>2, <1>4
  <2> QED
    BY <2>1 DEF EndsRight
<1> QED
  BY <1>2, <1>3, <1>6, <1>7, OneCallSteps

\* A call ends without writing a link.
LEMMA Ends ==
    ASSUME IdentityInv, NEW c \in Clients, authenticating[c].stage \notin {"idle", "done"},
           NEW result \in IdentityResults \ {"none"}, Concludes(c, result),
           UNCHANGED <<strict, users, members, links>>,
           result = "session" =>
             authenticating[c].stage \in Joined /\ links[Key(Assertion(c))] = LinkOf(c),
           result = "conflict" =>
             \/ users[authenticating[c].user] # Assertion(c).email
             \/ /\ links[Key(Assertion(c))] # NoUser
                /\ links[Key(Assertion(c))].user # authenticating[c].user
             \/ authenticating[c].raced
    PROVE  IdentityInv' /\ LinkContract
<1>1. CallKnows(c) /\ IdentityTypes
  BY DEF IdentityInv, CallsKnow
<1>2. /\ authenticating' \in [Clients -> IdentityCalls]
      /\ \A d \in Clients : d # c => authenticating'[d] = authenticating[d]
      /\ authenticating'[c].stage = "done" /\ authenticating'[c].result = result
      /\ authenticating'[c].assertion = authenticating[c].assertion
      /\ authenticating'[c].user = authenticating[c].user
      /\ authenticating'[c].raced = authenticating[c].raced
  BY <1>1, ConcludesCall
<1>3. IdentityTypes'
  BY <1>1, <1>2 DEF IdentityTypes
<1>4. Assertion(c)' = Assertion(c) /\ Assertion(c) \in Assertions
  BY <1>1, <1>2 DEF Assertion, CallKnows
<1>5. result = "session" => /\ authenticating[c].user \in Users
                            /\ Assertion(c).user \in {NoUser, authenticating[c].user}
                            /\ users[authenticating[c].user] = Assertion(c).email
                            /\ authenticating[c].raced \/ Membership(c) \in members
  BY <1>1 DEF CallKnows, Joined, Existing, Chosen
<1>6. CallKnows(c)'
  BY <1>2, <1>4, <1>5 DEF CallKnows, Chosen, Existing, Joined
<1>7. EndsRight(c)
  BY <1>2, <1>5 DEF EndsRight
<1> QED
  BY <1>2, <1>3, <1>6, <1>7, OneCallSteps

\* The lookup chooses the user.
LEMMA LookUpUserStep ==
    ASSUME IdentityInv, NEW c \in Clients, LookUpUser(c)
    PROVE  IdentityInv' /\ LinkContract
<1> DEFINE a == Assertion(c)
           link == links[Key(a)]
           user == CASE a.user # NoUser -> a.user
                     [] a.user = NoUser /\ link # NoUser -> link.user
                     [] OTHER -> DefaultUser[a.subject]
           call == [authenticating[c] EXCEPT !.stage = "verify", !.user = user]
<1>1. CallKnows(c) /\ IdentityTypes /\ authenticating[c].stage = "lookup"
      /\ UNCHANGED <<strict, users, members, links>>
  BY DEF IdentityInv, CallsKnow, LookUpUser
<1>2. a \in Assertions /\ authenticating[c].result = "none" /\ authenticating[c].attempt = 0
  BY <1>1 DEF CallKnows, Joined
<1>3. Key(a) \in Tenants \X Subjects /\ a.subject \in Subjects /\ a.user \in Users \cup {NoUser}
  BY <1>2 DEF Assertions, Key
<1>4. link # NoUser => link.user \in Users
  BY <1>1, <1>3 DEF IdentityTypes, LinkRecords
<1>5. user \in Users /\ a.user \in {NoUser, user}
  BY <1>3, <1>4, DefaultUserAssumption
<1>6. authenticating \in [Clients -> IdentityCalls] /\ authenticating[c] \in IdentityCalls
  BY <1>1 DEF IdentityTypes
<1>7. authenticating' = [authenticating EXCEPT ![c] = call]
  BY <1>6 DEF LookUpUser
<1> HIDE DEF user
<1>8. /\ call \in IdentityCalls
      /\ call.stage = "verify" /\ call.user = user /\ call.assertion = authenticating[c].assertion
      /\ call.result = authenticating[c].result /\ call.attempt = authenticating[c].attempt
  BY <1>5, <1>6 DEF IdentityCalls, IdentityStages
<1> HIDE DEF call
<1>9. /\ authenticating' \in [Clients -> IdentityCalls] /\ authenticating'[c] = call
      /\ \A d \in Clients : d # c => authenticating'[d] = authenticating[d]
  BY <1>6, <1>7, <1>8
<1>10. IdentityTypes'
  BY <1>1, <1>9 DEF IdentityTypes
<1>11. Assertion(c)' = a
  BY <1>8, <1>9 DEF Assertion
<1>12. CallKnows(c)'
  BY <1>2, <1>5, <1>8, <1>9, <1>11 DEF CallKnows, Chosen, Existing, Joined
<1>13. EndsRight(c)
  BY <1>2, <1>8, <1>9 DEF EndsRight
<1> QED
  BY <1>1, <1>9, <1>10, <1>12, <1>13, OneCallSteps

\* userID and ensureUser, and the membership: one store access each.
LEMMA VerifyUserStep ==
    ASSUME IdentityInv, NEW c \in Clients, VerifyUser(c)
    PROVE  IdentityInv' /\ LinkContract
<1>1. authenticating[c].stage = "verify" /\ UNCHANGED <<strict, users, members, links>>
  BY DEF VerifyUser
<1>2. users \in [Users -> Emails \cup {NoUser}] /\ members \subseteq Tenants \X Users
  BY DEF IdentityInv, IdentityTypes
<1>3. CASE /\ links[Key(Assertion(c))] # NoUser
           /\ links[Key(Assertion(c))].user # authenticating[c].user
  <2>1. Concludes(c, "conflict")
    BY <1>3 DEF VerifyUser
  <2> QED
    BY <1>1, <1>3, <2>1, Ends DEF IdentityResults
<1>4. CASE ~(/\ links[Key(Assertion(c))] # NoUser
             /\ links[Key(Assertion(c))].user # authenticating[c].user)
  <2>1. To(c, "get_user")
    BY <1>4 DEF VerifyUser
  <2> QED
    BY <1>1, <1>2, <2>1, GoesOn DEF Chosen, Existing, Joined
<1> QED
  BY <1>3, <1>4

LEMMA GetUserStep ==
    ASSUME IdentityInv, NEW c \in Clients, GetUser(c)
    PROVE  IdentityInv' /\ LinkContract
<1> DEFINE email == users[authenticating[c].user]
<1>1. authenticating[c].stage \in {"get_user", "get_created"}
      /\ UNCHANGED <<strict, users, members, links>>
  BY DEF GetUser
<1>2. users \in [Users -> Emails \cup {NoUser}] /\ members \subseteq Tenants \X Users
  BY DEF IdentityInv, IdentityTypes
<1>3. Assertion(c).email # NoUser
  BY <1>1, RealEmails DEF IdentityInv, CallsKnow, CallKnows, Assertions
<1>4. CASE email = NoUser
  <2>1. To(c, "create_user")
    BY <1>3, <1>4 DEF GetUser
  <2> QED
    BY <1>1, <1>2, <2>1, GoesOn DEF Chosen, Existing, Joined
<1>5. CASE email = Assertion(c).email
  <2>1. To(c, "member")
    BY <1>3, <1>5 DEF GetUser
  <2> QED
    BY <1>1, <1>2, <1>5, <2>1, GoesOn DEF Chosen, Existing, Joined
<1>6. CASE email \notin {NoUser, Assertion(c).email}
  <2>1. Concludes(c, "conflict")
    BY <1>6 DEF GetUser
  <2> QED
    BY <1>1, <1>6, <2>1, Ends DEF IdentityResults
<1> QED
  BY <1>4, <1>5, <1>6

LEMMA CreateUserStep ==
    ASSUME IdentityInv, NEW c \in Clients, CreateUser(c)
    PROVE  IdentityInv' /\ LinkContract
<1> DEFINE u == authenticating[c].user
<1>1. authenticating[c].stage = "create_user" /\ UNCHANGED <<strict, members, links>>
  BY DEF CreateUser
<1>2. users \in [Users -> Emails \cup {NoUser}] /\ members \subseteq Tenants \X Users
  BY DEF IdentityInv, IdentityTypes
<1>3. u \in Users /\ Assertion(c).email \in Emails
  BY <1>1 DEF IdentityInv, CallsKnow, CallKnows, Chosen, Assertions
<1>4. CASE users[u] # NoUser
  <2>1. To(c, "get_created") /\ UNCHANGED users
    BY <1>4 DEF CreateUser
  <2> QED
    BY <1>1, <1>2, <2>1, GoesOn DEF Chosen, Existing, Joined
<1>5. CASE users[u] = NoUser
  <2>1. To(c, "member") /\ users' = [users EXCEPT ![u] = Assertion(c).email]
    BY <1>5 DEF CreateUser
  <2>2. /\ users' \in [Users -> Emails \cup {NoUser}] /\ users'[u] = Assertion(c).email
        /\ \A v \in Users : users[v] # NoUser => users'[v] = users[v]
    BY <1>2, <1>3, <1>5, <2>1
  <2> QED
    BY <1>1, <1>2, <2>1, <2>2, GoesOn DEF Chosen, Existing, Joined
<1> QED
  BY <1>4, <1>5

LEMMA AddMemberStep ==
    ASSUME IdentityInv, NEW c \in Clients, AddMember(c)
    PROVE  IdentityInv' /\ LinkContract
<1>1. authenticating[c].stage = "member" /\ UNCHANGED <<strict, users, links>>
      /\ members' = members \cup {Membership(c)}
  BY DEF AddMember
<1>2. users \in [Users -> Emails \cup {NoUser}] /\ members \subseteq Tenants \X Users
  BY DEF IdentityInv, IdentityTypes
<1>3. /\ authenticating[c].user \in Users /\ Assertion(c).tenant \in Tenants
      /\ users[authenticating[c].user] = Assertion(c).email
  BY <1>1 DEF IdentityInv, CallsKnow, CallKnows, Chosen, Existing, Assertions
<1>4. members' \subseteq Tenants \X Users
  BY <1>1, <1>2, <1>3 DEF Membership
<1>5. PICK stage \in {"get_member", "link"} : To(c, stage)
  BY DEF AddMember
<1>6. authenticating[c].attempt = 0
  BY <1>1 DEF IdentityInv, CallsKnow, CallKnows, Joined
<1> QED
  BY <1>1, <1>2, <1>3, <1>4, <1>5, <1>6, GoesOn DEF Chosen, Existing, Joined

LEMMA GetMemberStep ==
    ASSUME IdentityInv, NEW c \in Clients, GetMember(c)
    PROVE  IdentityInv' /\ LinkContract
<1>1. authenticating[c].stage = "get_member" /\ UNCHANGED <<strict, users, members, links>>
  BY DEF GetMember
<1>2. users \in [Users -> Emails \cup {NoUser}] /\ members \subseteq Tenants \X Users
  BY DEF IdentityInv, IdentityTypes
<1>3. /\ users[authenticating[c].user] = Assertion(c).email
      /\ authenticating[c].attempt = 0
  BY <1>1 DEF IdentityInv, CallsKnow, CallKnows, Existing, Joined
<1>4. CASE Membership(c) \in members
  <2>1. To(c, "link")
    BY <1>4 DEF GetMember
  <2> QED
    BY <1>1, <1>2, <1>3, <1>4, <2>1, GoesOn DEF Chosen, Existing, Joined
<1>5. CASE Membership(c) \notin members
  <2>1. Concludes(c, "not_member")
    BY <1>5 DEF GetMember
  <2> QED
    BY <1>1, <2>1, Ends DEF IdentityResults
<1> QED
  BY <1>4, <1>5

LEMMA AccessFailsStep ==
    ASSUME IdentityInv, NEW c \in Clients, AccessFails(c)
    PROVE  IdentityInv' /\ LinkContract
  BY Ends DEF AccessFails, IdentityResults

\* What a call that is about to link knows.
LEMMA JoinedKnows ==
    ASSUME IdentityInv, NEW c \in Clients, authenticating[c].stage \in Joined
    PROVE  /\ authenticating[c].stage \in Chosen /\ authenticating[c].stage \notin {"idle", "done"}
           /\ authenticating[c] \in IdentityCalls
           /\ authenticating[c].result = "none"
           /\ Assertion(c) \in Assertions /\ Key(Assertion(c)) \in Tenants \X Subjects
           /\ authenticating[c].user \in Users
           /\ Assertion(c).user \in {NoUser, authenticating[c].user}
           /\ LinkOf(c) \in LinkRecords /\ LinkOf(c).user = authenticating[c].user
           /\ users[authenticating[c].user] = Assertion(c).email
           /\ authenticating[c].raced \/ Membership(c) \in members
           /\ authenticating[c].attempt = 1
                => authenticating[c].raced \/ links[Key(Assertion(c))] # NoUser
           /\ users \in [Users -> Emails \cup {NoUser}] /\ members \subseteq Tenants \X Users
<1>1. authenticating[c].stage \in Chosen /\ authenticating[c].stage \in Existing
      /\ authenticating[c].stage \notin {"idle", "done"}
  BY DEF Joined, Existing, Chosen
<1>2. CallKnows(c) /\ IdentityTypes /\ authenticating[c] \in IdentityCalls
  BY DEF IdentityInv, CallsKnow, IdentityTypes
<1>3. Assertion(c) \in Assertions /\ authenticating[c].user \in Users
  BY <1>1, <1>2 DEF CallKnows
<1>4. Key(Assertion(c)) \in Tenants \X Subjects /\ LinkOf(c) \in LinkRecords
      /\ LinkOf(c).user = authenticating[c].user
  BY <1>3 DEF Assertions, Key, LinkOf, LinkRecords
<1> QED
  BY <1>1, <1>2, <1>3, <1>4 DEF CallKnows, IdentityTypes

\* GetByExternal of an attempt of the SQL store.
LEMMA ReadLinkStep ==
    ASSUME IdentityInv, NEW c \in Clients, ReadLink(c)
    PROVE  IdentityInv' /\ LinkContract
<1> DEFINE link == links[Key(Assertion(c))]
<1>1. authenticating[c].stage \in Joined /\ UNCHANGED <<strict, users, members, links>>
  BY DEF ReadLink, Joined
<1>2. CASE link = NoUser
  <2>1. To(c, "insert")
    BY <1>2 DEF ReadLink
  <2> QED
    BY <1>1, <1>2, <2>1, JoinedKnows, GoesOn DEF Chosen, Joined
<1>3. CASE link # NoUser /\ link.user = authenticating[c].user
  <2>1. To(c, "update")
    BY <1>3 DEF ReadLink
  <2> QED
    BY <1>1, <1>3, <2>1, JoinedKnows, GoesOn DEF Chosen, Joined
<1>4. CASE link # NoUser /\ link.user # authenticating[c].user
  <2>1. Concludes(c, "conflict")
    BY <1>4 DEF ReadLink
  <2> QED
    BY <1>1, <1>4, <2>1, JoinedKnows, Ends DEF IdentityResults
<1> QED
  BY <1>2, <1>3, <1>4

\* After an update that met no row, the link is read once more.
LEMMA ConfirmLinkStep ==
    ASSUME IdentityInv, NEW c \in Clients, ConfirmLink(c)
    PROVE  IdentityInv' /\ LinkContract
<1> DEFINE link == links[Key(Assertion(c))]
<1>1. authenticating[c].stage \in Joined /\ UNCHANGED <<strict, users, members, links>>
  BY DEF ConfirmLink, Joined
<1>2. CASE authenticating[c].raced
  <2>1. PICK result \in {"not_found", "session", "conflict"} :
            Concludes(c, result) /\ (result = "session" => link = LinkOf(c))
    BY DEF ConfirmLink
  <2> QED
    BY <1>1, <1>2, <2>1, JoinedKnows, Ends DEF IdentityResults
<1>3. CASE ~authenticating[c].raced
  <2>1. link # NoUser /\ link = LinkOf(c)
    BY <1>3 DEF ConfirmLink, IdentityInv, CallsKnow, CallKnows
  <2>2. Concludes(c, "session")
    BY <2>1 DEF ConfirmLink
  <2> QED
    BY <1>1, <2>1, <2>2, JoinedKnows, Ends DEF IdentityResults
<1> QED
  BY <1>2, <1>3

\* Whoever works on identity k notes the change of its link.
LEMMA RacedCalls ==
    ASSUME IdentityTypes, NEW k
    PROVE  /\ Raced(k) \in [Clients -> IdentityCalls]
           /\ \A d \in Clients :
                 /\ Raced(k)[d].stage = authenticating[d].stage
                 /\ Raced(k)[d].assertion = authenticating[d].assertion
                 /\ Raced(k)[d].user = authenticating[d].user
                 /\ Raced(k)[d].attempt = authenticating[d].attempt
                 /\ Raced(k)[d].result = authenticating[d].result
                 /\ authenticating[d].raced => Raced(k)[d].raced
                 /\ authenticating[d].stage \notin {"idle", "done"} /\ Key(Assertion(d)) = k
                      => Raced(k)[d].raced
<1> DEFINE call(d) == IF authenticating[d].stage \notin {"idle", "done"} /\ Key(Assertion(d)) = k
                      THEN [authenticating[d] EXCEPT !.raced = TRUE] ELSE authenticating[d]
<1>1. ASSUME NEW d \in Clients
      PROVE  /\ call(d) \in IdentityCalls
             /\ call(d).stage = authenticating[d].stage
             /\ call(d).assertion = authenticating[d].assertion
             /\ call(d).user = authenticating[d].user
             /\ call(d).attempt = authenticating[d].attempt
             /\ call(d).result = authenticating[d].result
             /\ authenticating[d].raced => call(d).raced
             /\ authenticating[d].stage \notin {"idle", "done"} /\ Key(Assertion(d)) = k
                  => call(d).raced
  BY DEF IdentityTypes, IdentityCalls
<1>2. Raced(k) = [d \in Clients |-> call(d)]
  BY DEF Raced
<1> HIDE DEF call
<1> QED
  BY <1>1, <1>2

\* A call knows what it knew, or that it was raced, when another links or unlinks.
LEMMA LinkChanges ==
    ASSUME IdentityInv, NEW d \in Clients, NEW k,
           authenticating'[d].stage = authenticating[d].stage,
           authenticating'[d].assertion = authenticating[d].assertion,
           authenticating'[d].user = authenticating[d].user,
           authenticating'[d].attempt = authenticating[d].attempt,
           authenticating'[d].result = authenticating[d].result,
           authenticating[d].raced => authenticating'[d].raced,
           \A j \in Tenants \X Subjects : j # k => links'[j] = links[j],
           \/ links'[k] = links[k]
           \/ links[k] = NoUser
           \/ authenticating[d].stage \notin {"idle", "done"} /\ Key(Assertion(d)) = k
                => authenticating'[d].raced,
           UNCHANGED <<users, members>>
    PROVE  CallKnows(d)'
<1> DEFINE j == Key(Assertion(d))
<1>1. CallKnows(d)
  BY DEF IdentityInv, CallsKnow
<1>2. Assertion(d)' = Assertion(d) /\ LinkOf(d)' = LinkOf(d) /\ Membership(d)' = Membership(d)
  BY DEF Assertion, LinkOf, Membership
<1>3. CASE authenticating[d].stage \notin Joined
  BY <1>1, <1>2, <1>3 DEF CallKnows, Joined
<1>4. CASE authenticating[d].stage \in Joined
  <2>1. j \in Tenants \X Subjects /\ authenticating[d].stage \notin {"idle", "done"}
    BY <1>4, JoinedKnows
  <2>2. authenticating'[d].raced \/ links'[j] = links[j] \/ links[j] = NoUser
    BY <2>1
  <2>3. Key(Assertion(d))' = j
    BY <1>2 DEF Key
  <2> QED
    BY <1>1, <1>2, <1>4, <2>1, <2>2, <2>3 DEF CallKnows
<1> QED
  BY <1>3, <1>4

\* A call under way ends as it should when another one takes the step.
LEMMA OtherCallEnds ==
    ASSUME IdentityInv, NEW d \in Clients, authenticating'[d].result = authenticating[d].result
    PROVE  EndsRight(d)
<1>1. authenticating[d].result # "none" => authenticating[d].stage = "done"
  BY DEF IdentityInv, CallsKnow, CallKnows
<1> QED
  BY <1>1 DEF EndsRight

\* A call that may writes the link and ends.
LEMMA LinksStep ==
    ASSUME IdentityInv, NEW c \in Clients, authenticating[c].stage \in Joined,
           NEW results, results \subseteq {"session", "failed"}, Links(c, results),
           \/ links[Key(Assertion(c))] = NoUser
           \/ links[Key(Assertion(c))].user = authenticating[c].user
    PROVE  IdentityInv' /\ LinkContract
<1> DEFINE k == Key(Assertion(c))
           others == IF links[k] \in {NoUser, LinkOf(c)} THEN authenticating ELSE Raced(k)
<1>1. /\ k \in Tenants \X Subjects /\ LinkOf(c) \in LinkRecords
      /\ LinkOf(c).user = authenticating[c].user
      /\ authenticating[c] \in IdentityCalls /\ Assertion(c) \in Assertions
      /\ authenticating[c].user \in Users
      /\ Assertion(c).user \in {NoUser, authenticating[c].user}
      /\ users[authenticating[c].user] = Assertion(c).email
      /\ authenticating[c].raced \/ Membership(c) \in members
  BY JoinedKnows
<1>2. PICK result \in results :
        authenticating' = [others EXCEPT ![c] =
                             [authenticating[c] EXCEPT !.stage = "done", !.result = result]]
  BY DEF Links
<1>3. links' = [links EXCEPT ![k] = LinkOf(c)] /\ UNCHANGED <<strict, users, members>>
  BY DEF Links
<1>4. IdentityTypes /\ links \in [Tenants \X Subjects -> LinkRecords \cup {NoUser}]
  BY DEF IdentityInv, IdentityTypes
<1>5. /\ links' \in [Tenants \X Subjects -> LinkRecords \cup {NoUser}]
      /\ links'[k] = LinkOf(c)
      /\ \A j \in Tenants \X Subjects : j # k => links'[j] = links[j]
  BY <1>1, <1>3, <1>4
<1> DEFINE call == [authenticating[c] EXCEPT !.stage = "done", !.result = result]
<1>6. /\ call \in IdentityCalls
      /\ call.stage = "done" /\ call.result = result /\ result \in {"session", "failed"}
      /\ call.assertion = authenticating[c].assertion /\ call.user = authenticating[c].user
  BY <1>1 DEF IdentityCalls, IdentityStages, IdentityResults
<1>7. /\ others \in [Clients -> IdentityCalls]
      /\ \A d \in Clients :
            /\ others[d].stage = authenticating[d].stage
            /\ others[d].assertion = authenticating[d].assertion
            /\ others[d].user = authenticating[d].user
            /\ others[d].attempt = authenticating[d].attempt
            /\ others[d].result = authenticating[d].result
            /\ authenticating[d].raced => others[d].raced
            /\ \/ links[k] \in {NoUser, LinkOf(c)}
               \/ authenticating[d].stage \notin {"idle", "done"} /\ Key(Assertion(d)) = k
                    => others[d].raced
  <2>1. CASE links[k] \in {NoUser, LinkOf(c)}
    BY <1>4, <2>1 DEF IdentityTypes
  <2>2. CASE links[k] \notin {NoUser, LinkOf(c)}
    <3>1. others = Raced(k)
      BY <2>2
    <3> HIDE DEF others
    <3> QED
      BY <1>4, <3>1, RacedCalls
  <2> QED
    BY <2>1, <2>2
<1>8. authenticating' = [others EXCEPT ![c] = call]
  BY <1>2
<1> HIDE DEF others, call
<1>9. /\ authenticating' \in [Clients -> IdentityCalls] /\ authenticating'[c] = call
      /\ \A d \in Clients : d # c => authenticating'[d] = others[d]
  BY <1>6, <1>7, <1>8
<1>10. IdentityTypes'
  BY <1>3, <1>4, <1>5, <1>9 DEF IdentityTypes
<1>11. CallKnows(c)'
  <2>1. Assertion(c)' = Assertion(c)
    BY <1>6, <1>9 DEF Assertion
  <2> QED
    BY <1>1, <1>6, <1>9, <2>1 DEF CallKnows, Chosen, Existing, Joined
<1>12. ASSUME NEW d \in Clients, d # c
       PROVE  CallKnows(d)' /\ EndsRight(d)
  <2>1. /\ authenticating'[d].stage = authenticating[d].stage
        /\ authenticating'[d].assertion = authenticating[d].assertion
        /\ authenticating'[d].user = authenticating[d].user
        /\ authenticating'[d].attempt = authenticating[d].attempt
        /\ authenticating'[d].result = authenticating[d].result
        /\ authenticating[d].raced => authenticating'[d].raced
    BY <1>7, <1>9, <1>12
  <2>2. \/ links'[k] = links[k]
        \/ links[k] = NoUser
        \/ authenticating[d].stage \notin {"idle", "done"} /\ Key(Assertion(d)) = k
             => authenticating'[d].raced
    BY <1>5, <1>7, <1>9, <1>12
  <2> HIDE DEF k
  <2> QED
    BY <1>3, <1>5, <2>1, <2>2, LinkChanges, OtherCallEnds
<1>13. EndsRight(c)
  BY <1>1, <1>3, <1>5, <1>6, <1>9 DEF EndsRight
<1>14. LinksKeepUser
  BY <1>1, <1>5 DEF LinksKeepUser
<1>15. CallsKnow'
  BY <1>11, <1>12 DEF CallsKnow
<1> QED
  BY <1>10, <1>12, <1>13, <1>14, <1>15 DEF IdentityInv, LinkContract

\* Link of the memory store.
LEMMA LinkMemoryStep ==
    ASSUME IdentityInv, NEW c \in Clients, LinkMemory(c)
    PROVE  IdentityInv' /\ LinkContract
<1> DEFINE link == links[Key(Assertion(c))]
<1>1. authenticating[c].stage \in Joined
  BY DEF LinkMemory, Joined
<1>2. CASE link # NoUser /\ link.user # authenticating[c].user
  <2>1. Concludes(c, "conflict") /\ UNCHANGED <<strict, users, members, links>>
    BY <1>2 DEF LinkMemory
  <2> QED
    BY <1>1, <1>2, <2>1, JoinedKnows, Ends DEF IdentityResults
<1>3. CASE ~(link # NoUser /\ link.user # authenticating[c].user)
  <2>1. Links(c, {"session"})
    BY <1>3 DEF LinkMemory
  <2> QED
    BY <1>1, <1>3, <2>1, LinksStep
<1> QED
  BY <1>2, <1>3

\* UPDATE ... WHERE user_id = ...
LEMMA UpdateLinkStep ==
    ASSUME IdentityInv, NEW c \in Clients, UpdateLink(c)
    PROVE  IdentityInv' /\ LinkContract
<1> DEFINE link == links[Key(Assertion(c))]
           matches == link # NoUser /\ link.user = authenticating[c].user
<1>1. authenticating[c].stage \in Joined /\ authenticating[c].stage = "update"
  BY DEF UpdateLink, Joined
<1>2. CASE matches /\ Links(c, {"session", "failed"})
  BY <1>1, <1>2, LinksStep
<1>3. CASE (~matches \/ link = LinkOf(c)) /\ To(c, "confirm") /\ UNCHANGED <<strict, users, members, links>>
  <2>1. authenticating[c].raced \/ matches
    BY <1>1 DEF IdentityInv, CallsKnow, CallKnows
  <2> QED
    BY <1>1, <1>3, <2>1, JoinedKnows, GoesOn DEF Chosen, Joined
<1> QED
  BY <1>2, <1>3 DEF UpdateLink

\* INSERT, and a second attempt after a duplicate key.
LEMMA InsertLinkStep ==
    ASSUME IdentityInv, NEW c \in Clients, InsertLink(c)
    PROVE  IdentityInv' /\ LinkContract
<1> DEFINE link == links[Key(Assertion(c))]
<1>1. authenticating[c].stage \in Joined /\ authenticating[c].stage = "insert"
  BY DEF InsertLink, Joined
<1>2. CASE link = NoUser
  <2>1. Links(c, {"session", "failed"})
    BY <1>2 DEF InsertLink
  <2> QED
    BY <1>1, <1>2, <2>1, LinksStep
<1>3. CASE link # NoUser /\ authenticating[c].attempt = 1
  <2>1. Concludes(c, "conflict") /\ UNCHANGED <<strict, users, members, links>>
    BY <1>3 DEF InsertLink
  <2>2. authenticating[c].raced
    BY <1>1, <1>3 DEF IdentityInv, CallsKnow, CallKnows
  <2> QED
    BY <1>1, <2>1, <2>2, JoinedKnows, Ends DEF IdentityResults
<1>4. CASE link # NoUser /\ authenticating[c].attempt # 1
  <2> DEFINE call == [authenticating[c] EXCEPT !.stage = "link", !.attempt = 1]
  <2>1. authenticating \in [Clients -> IdentityCalls] /\ authenticating[c] \in IdentityCalls
        /\ IdentityTypes
    BY DEF IdentityInv, IdentityTypes
  <2>2. authenticating' = [authenticating EXCEPT ![c] = call]
        /\ UNCHANGED <<strict, users, members, links>>
    BY <1>4, <2>1 DEF InsertLink
  <2>3. /\ call \in IdentityCalls /\ call.stage = "link" /\ call.attempt = 1
        /\ call.assertion = authenticating[c].assertion /\ call.user = authenticating[c].user
        /\ call.raced = authenticating[c].raced /\ call.result = authenticating[c].result
    <3>1. 1 \in 0..1 /\ "link" \in IdentityStages
      BY DEF IdentityStages
    <3> QED
      BY <2>1, <3>1 DEF IdentityCalls
  <2> HIDE DEF call
  <2>4. /\ authenticating' \in [Clients -> IdentityCalls] /\ authenticating'[c] = call
        /\ \A d \in Clients : d # c => authenticating'[d] = authenticating[d]
    BY <2>1, <2>2, <2>3
  <2>5. IdentityTypes'
    BY <2>1, <2>2, <2>4 DEF IdentityTypes
  <2>6. Assertion(c)' = Assertion(c) /\ LinkOf(c)' = LinkOf(c) /\ Membership(c)' = Membership(c)
    BY <2>3, <2>4 DEF Assertion, LinkOf, Membership
  <2>7. CallKnows(c)'
    BY <1>1, <1>4, <2>2, <2>3, <2>4, <2>6, JoinedKnows DEF CallKnows, Joined, Key
  <2>8. EndsRight(c)
    BY <2>3, <2>4, OtherCallEnds
  <2> QED
    BY <2>2, <2>4, <2>5, <2>7, <2>8, OneCallSteps
<1> QED
  BY <1>2, <1>3, <1>4

\* The host unlinks an identity, or removes a member.
LEMMA UnlinkStep ==
    ASSUME IdentityInv, NEW k \in Tenants \X Subjects, Unlink(k)
    PROVE  IdentityInv' /\ LinkContract
<1>1. links' = [links EXCEPT ![k] = NoUser] /\ authenticating' = Raced(k)
      /\ UNCHANGED <<strict, users, members>> /\ IdentityTypes
  BY DEF Unlink, IdentityInv
<1>2. /\ links' \in [Tenants \X Subjects -> LinkRecords \cup {NoUser}]
      /\ links'[k] = NoUser
      /\ \A j \in Tenants \X Subjects : j # k => links'[j] = links[j]
  BY <1>1 DEF IdentityTypes
<1>3. IdentityTypes'
  BY <1>1, <1>2, RacedCalls DEF IdentityTypes
<1>4. ASSUME NEW d \in Clients
      PROVE  CallKnows(d)' /\ EndsRight(d)
  <2>1. /\ authenticating'[d].stage = authenticating[d].stage
        /\ authenticating'[d].assertion = authenticating[d].assertion
        /\ authenticating'[d].user = authenticating[d].user
        /\ authenticating'[d].attempt = authenticating[d].attempt
        /\ authenticating'[d].result = authenticating[d].result
        /\ authenticating[d].raced => authenticating'[d].raced
        /\ authenticating[d].stage \notin {"idle", "done"} /\ Key(Assertion(d)) = k
             => authenticating'[d].raced
    BY <1>1, RacedCalls
  <2> QED
    BY <1>1, <1>2, <2>1, LinkChanges, OtherCallEnds
<1>5. LinksKeepUser
  BY <1>2 DEF LinksKeepUser
<1> QED
  BY <1>3, <1>4, <1>5 DEF IdentityInv, LinkContract, CallsKnow

LEMMA RemoveMemberStep ==
    ASSUME IdentityInv, NEW t \in Tenants, NEW u \in Users, RemoveMember(t, u)
    PROVE  IdentityInv' /\ LinkContract
<1> DEFINE call(d) == IF authenticating[d].stage \notin {"idle", "done"} /\ Membership(d) = <<t, u>>
                      THEN [authenticating[d] EXCEPT !.raced = TRUE] ELSE authenticating[d]
<1>1. members' = members \ {<<t, u>>} /\ UNCHANGED <<strict, users, links>> /\ IdentityTypes
      /\ authenticating' = [d \in Clients |-> call(d)]
  BY DEF RemoveMember, IdentityInv
<1>2. ASSUME NEW d \in Clients
      PROVE  /\ call(d) \in IdentityCalls
             /\ call(d).stage = authenticating[d].stage
             /\ call(d).assertion = authenticating[d].assertion
             /\ call(d).user = authenticating[d].user
             /\ call(d).attempt = authenticating[d].attempt
             /\ call(d).result = authenticating[d].result
             /\ authenticating[d].raced => call(d).raced
             /\ authenticating[d].stage \notin {"idle", "done"} /\ Membership(d) = <<t, u>>
                  => call(d).raced
  BY <1>1 DEF IdentityTypes, IdentityCalls
<1> HIDE DEF call
<1>3. authenticating' \in [Clients -> IdentityCalls] /\ \A d \in Clients : authenticating'[d] = call(d)
  BY <1>1, <1>2
<1>4. IdentityTypes'
  BY <1>1, <1>3 DEF IdentityTypes
<1>5. ASSUME NEW d \in Clients
      PROVE  CallKnows(d)' /\ EndsRight(d)
  <2>1. CallKnows(d) /\ authenticating'[d] = call(d)
    BY <1>3 DEF IdentityInv, CallsKnow
  <2>2. Assertion(d)' = Assertion(d) /\ LinkOf(d)' = LinkOf(d) /\ Membership(d)' = Membership(d)
    BY <1>2, <2>1 DEF Assertion, LinkOf, Membership
  <2>3. authenticating[d].stage \in Joined => call(d).raced \/ Membership(d) \in members'
    BY <1>1, <1>2, JoinedKnows
  <2>4. CallKnows(d)'
    BY <1>1, <1>2, <2>1, <2>2, <2>3 DEF CallKnows, Key
  <2>5. EndsRight(d)
    BY <1>2, <2>1, OtherCallEnds
  <2> QED
    BY <2>4, <2>5
<1>6. LinksKeepUser
  BY <1>1 DEF LinksKeepUser
<1> QED
  BY <1>4, <1>5, <1>6 DEF IdentityInv, LinkContract, CallsKnow

-----------------------------------------------------------------------------
(* The client.                                                             *)

\* The record of no call of the client.
LEMMA NoClientCall ==
    NotServing \in ClientCalls /\ NotServing.stage = "idle"
  BY DEF NotServing, ClientCalls, ClientStages

\* The callback of a call stays bound while others take steps.
LEMMA BoundStays ==
    ASSUME NEW g \in Handlers, CallbackBound(g), serving'[g] = serving[g],
           serving[g].stage = "consume" => storing'[g].state = storing[g].state,
           \A s \in States : requested[s] # None => requested'[s] = requested[s]
    PROVE  CallbackBound(g)'
<1>1. Matches(serving[g].state, serving[g].login) => Matches(serving[g].state, serving[g].login)'
  BY DEF Matches
<1> QED
  BY <1>1 DEF CallbackBound, Vouched

\* A step of one call of the client.
LEMMA OneCallServed ==
    ASSUME ClientTypes, CallbacksBound, NEW h \in Handlers,
           NEW call \in ClientCalls, serving' = [serving EXCEPT ![h] = call],
           codes \subseteq codes', codes' \subseteq Codes,
           \A g \in Handlers : g # h => storing'[g].state = storing[g].state,
           \A s \in States : requested[s] # None => requested'[s] = requested[s],
           CallbackBound(h)'
    PROVE  ClientTypes' /\ CallbacksBound' /\ \A g \in Handlers : g # h => serving'[g] = serving[g]
<1>1. /\ serving' \in [Handlers -> ClientCalls]
      /\ \A g \in Handlers : g # h => serving'[g] = serving[g]
  BY DEF ClientTypes
<1>2. \A g \in Handlers : g # h => CallbackBound(g)'
  BY <1>1, BoundStays DEF CallbacksBound
<1> QED
  BY <1>1, <1>2 DEF ClientTypes, CallbacksBound

\* A new login leaves the other calls of the client alone.
LEMMA BeginServes ==
    ASSUME StoreInv, ClientTypes, CallbacksBound, NEW h \in Handlers, Begin(h)
    PROVE  /\ ClientTypes' /\ CallbacksBound' /\ serving[h].stage = "idle"
           /\ \A g \in Handlers : g # h => serving'[g] = serving[g]
           /\ \A s \in States : requested[s] # None => requested'[s] = requested[s]
<1>1. PICK request \in Requests : BeginLogin(h, request)
  BY DEF Begin
<1>2. StoreTypes
  BY DEF StoreInv
<1>3. PICK x \in States, login \in Logins :
              /\ requested[x] = None
              /\ login.tenant = request.tenant /\ login.user = request.user
              /\ requested' = [requested EXCEPT ![x] = request]
              /\ storing' = [storing EXCEPT ![h] = Saving(x, login)]
              /\ serving' = [serving EXCEPT ![h].stage = "begin", ![h].state = x]
  BY <1>1, <1>2, BeginLoginCall
<1>4. \A s \in States : requested[s] # None => requested'[s] = requested[s]
  BY <1>2, <1>3 DEF StoreTypes
<1>5. \A g \in Handlers : g # h => storing'[g].state = storing[g].state
  BY <1>2, <1>3 DEF StoreTypes
<1> DEFINE call == [serving[h] EXCEPT !.stage = "begin", !.state = x]
<1>6. serving[h] \in ClientCalls /\ serving[h] = NotServing /\ UNCHANGED codes
  BY <1>1 DEF ClientTypes, BeginLogin
<1>7. call \in ClientCalls /\ call.stage = "begin"
  BY <1>6 DEF ClientCalls, ClientStages
<1>8. serving' = [serving EXCEPT ![h] = call]
  BY <1>3 DEF ClientTypes
<1> HIDE DEF call
<1>9. CallbackBound(h)'
  BY <1>7, <1>8 DEF CallbackBound, ClientTypes
<1> QED
  BY <1>4, <1>5, <1>6, <1>7, <1>8, <1>9, OneCallServed, NoClientCall DEF ClientTypes

\* A callback asks the store for the login of its own state.
LEMMA ReceiveServes ==
    ASSUME StoreInv, ClientTypes, CallbacksBound, NEW h \in Handlers, Receive(h)
    PROVE  /\ ClientTypes' /\ CallbacksBound' /\ serving[h].stage = "idle"
           /\ \A g \in Handlers : g # h => serving'[g] = serving[g]
           /\ UNCHANGED requested
<1>1. PICK state \in States, code \in codes \cup {NoCode} : HandleLoginCallback(h, state, code)
  BY DEF Receive
<1> DEFINE call == [serving[h] EXCEPT !.stage = "consume", !.state = state, !.code = code]
<1>2. /\ serving[h] \in ClientCalls /\ serving[h] = NotServing /\ UNCHANGED <<codes, requested>>
      /\ code \in Codes \cup {NoCode}
      /\ storing' = [storing EXCEPT ![h] = Consuming(state)]
  BY <1>1 DEF ClientTypes, HandleLoginCallback
<1>3. call \in ClientCalls /\ call.stage = "consume" /\ call.state = state /\ call.code = code
  BY <1>2 DEF ClientCalls, ClientStages
<1>4. serving' = [serving EXCEPT ![h] = call]
  BY <1>1 DEF ClientTypes, HandleLoginCallback
<1> HIDE DEF call
<1>5. /\ \A g \in Handlers : g # h => storing'[g].state = storing[g].state
      /\ storing'[h] = Consuming(state)
  BY <1>2 DEF StoreInv, StoreTypes
<1>6. Consuming(state).state = state
  BY NoStoreCall DEF Consuming, StoreCalls
<1>7. CallbackBound(h)'
  BY <1>2, <1>3, <1>4, <1>5, <1>6 DEF CallbackBound, ClientTypes
<1> QED
  BY <1>2, <1>3, <1>4, <1>5, <1>7, OneCallServed, NoClientCall DEF ClientTypes

\* A call of the client is answered.
LEMMA ReplyServes ==
    ASSUME StoreInv, ClientTypes, CallbacksBound, NEW h \in Handlers, Replies(h),
           codes' = codes, \A g \in Handlers : g # h => storing'[g] = storing[g], UNCHANGED requested
    PROVE  /\ ClientTypes' /\ CallbacksBound'
           /\ \A g \in Handlers : g # h => serving'[g] = serving[g]
<1>1. serving' = [serving EXCEPT ![h] = NotServing]
  BY DEF Replies
<1>2. CallbackBound(h)'
  BY <1>1, NoClientCall DEF CallbackBound, ClientTypes
<1> QED
  BY <1>1, <1>2, NoClientCall, OneCallServed DEF ClientTypes

\* The login that the store gave is the one of the callback's state.
LEMMA ConsumedServes ==
    ASSUME StoreInv, ClientTypes, CallbacksBound, NEW h \in Handlers, LoginBegun(h) \/ LoginConsumed(h)
    PROVE  /\ ClientTypes' /\ CallbacksBound' /\ serving[h].stage \in {"begin", "consume"}
           /\ \A g \in Handlers : g # h => serving'[g] = serving[g]
           /\ UNCHANGED requested
<1>1. /\ storing' = [storing EXCEPT ![h] = NotStoring] /\ UNCHANGED <<requested, codes>>
      /\ serving[h].stage \in {"begin", "consume"}
  BY DEF LoginBegun, LoginConsumed
<1>2. \A g \in Handlers : g # h => storing'[g] = storing[g]
  BY <1>1 DEF StoreInv, StoreTypes
<1>3. CASE Replies(h)
  BY <1>1, <1>2, <1>3, ReplyServes
<1>4. CASE ~Replies(h)
  <2>1. /\ serving[h].stage = "consume"
        /\ storing[h].result = "consumed" /\ serving[h].code # NoCode
        /\ serving' = [serving EXCEPT ![h].stage = "exchange", ![h].login = storing[h].login]
    BY <1>4 DEF LoginBegun, LoginConsumed
  <2> DEFINE call == [serving[h] EXCEPT !.stage = "exchange", !.login = storing[h].login]
  <2>2. /\ serving[h] \in ClientCalls /\ serving[h].code \in Codes
        /\ storing[h].state = serving[h].state
    BY <2>1 DEF ClientTypes, CallbacksBound, CallbackBound
  <2>3. Matches(serving[h].state, storing[h].login)
    BY <2>1, <2>2 DEF StoreInv, LoginsMatch
  <2>4. storing[h].login \in Served
    BY <2>3 DEF Matches, Logins, Served
  <2>5. /\ call \in ClientCalls /\ call.stage = "exchange" /\ call.login = storing[h].login
        /\ call.state = serving[h].state /\ call.code = serving[h].code
    BY <2>2, <2>4 DEF ClientCalls, ClientStages
  <2>6. serving' = [serving EXCEPT ![h] = call]
    BY <2>1 DEF ClientTypes
  <2> HIDE DEF call
  <2>7. CallbackBound(h)'
    BY <1>1, <2>2, <2>3, <2>5, <2>6 DEF CallbackBound, ClientTypes, Matches
  <2> QED
    BY <1>1, <1>2, <2>5, <2>6, <2>7, OneCallServed DEF ClientTypes
<1> QED
  BY <1>3, <1>4

\* The address of merged claims is vouched for by whoever it came with.
LEMMA MergedVouched ==
    ASSUME NEW account \in Accounts
    PROVE  LET merged == mergeClaims(account.token, account.info)
           IN merged \in Merged /\ Vouched(account, merged)
<1> DEFINE token == account.token
           info == account.info
           merged == mergeClaims(token, info)
<1>1. /\ token.email \in Emails /\ info.email \in Emails
      /\ token.name \in PersonNames /\ info.name \in PersonNames
  BY DEF Emails, PersonNames, Tokens
<1>2. token.verified \in BOOLEAN /\ info.verified \in BOOLEAN
  BY AccountsAssumption
<1>3. /\ merged.email = IF token.email = None THEN info.email ELSE token.email
      /\ merged.verified = IF token.email = None THEN info.verified
                           ELSE token.verified \/ (info.email = token.email /\ info.verified)
      /\ merged.name = IF token.name = None THEN info.name ELSE token.name
      /\ merged = [email |-> merged.email, verified |-> merged.verified, name |-> merged.name]
  BY DEF mergeClaims
<1>4. merged.email \in Emails /\ merged.verified \in BOOLEAN /\ merged.name \in PersonNames
  BY <1>1, <1>2, <1>3
<1>5. merged \in Merged
  BY <1>3, <1>4 DEF Merged
<1>6. merged.verified => \/ token.email = merged.email /\ token.verified
                         \/ info.email = merged.email /\ info.verified
  BY <1>2, <1>3
<1> HIDE DEF merged
<1>7. Vouched(account, merged)
  BY <1>6 DEF Vouched
<1> QED
  BY <1>5, <1>7 DEF merged

\* The code is exchanged, and its nonce is that of the callback's state.
LEMMA ExchangeServes ==
    ASSUME StoreInv, ClientTypes, CallbacksBound, NEW h \in Handlers, Exchange(h)
    PROVE  /\ ClientTypes' /\ CallbacksBound' /\ serving[h].stage = "exchange"
           /\ \A g \in Handlers : g # h => serving'[g] = serving[g]
           /\ UNCHANGED requested
<1>1. UNCHANGED <<storing, requested, codes>> /\ serving[h].stage = "exchange"
  BY DEF Exchange, storeVars
<1>2. CASE Replies(h)
  BY <1>1, <1>2, ReplyServes
<1>3. CASE ~Replies(h)
  <2> DEFINE account == serving[h].code.account
             stage == Claimed(account.token)
             call == [serving[h] EXCEPT !.stage = stage, !.claims = account.token]
  <2>1. /\ serving[h].code.login = serving[h].state
        /\ serving' = [serving EXCEPT ![h].stage = stage, ![h].claims = account.token]
    BY <1>3 DEF Exchange
  <2>2. serving[h] \in ClientCalls /\ serving[h].code \in Codes
        /\ Matches(serving[h].state, serving[h].login)
    BY <1>1 DEF ClientTypes, CallbacksBound, CallbackBound
  <2>3. account \in Accounts /\ account.token \in Tokens
    BY <2>2 DEF Codes, Tokens
  <2>4. stage \in {"userinfo", "assert"}
    BY DEF Claimed
  <2>5. serving' = [serving EXCEPT ![h] = call]
    BY <2>1 DEF ClientTypes
  <2> HIDE DEF stage
  <2>6. /\ call \in ClientCalls /\ call.stage = stage /\ call.claims = account.token
        /\ call.code = serving[h].code /\ call.state = serving[h].state
        /\ call.login = serving[h].login
    BY <2>2, <2>3, <2>4 DEF ClientCalls, ClientStages
  <2> HIDE DEF call
  <2>7. Vouched(account, account.token)
    BY DEF Vouched
  <2>8. serving'[h] = call
    BY <2>5 DEF ClientTypes
  <2>9. Matches(serving[h].state, serving[h].login)'
    BY <1>1, <2>2, <2>6, <2>8 DEF Matches
  <2>10. CallbackBound(h)'
    BY <1>1, <2>1, <2>2, <2>3, <2>4, <2>6, <2>7, <2>8, <2>9 DEF CallbackBound, Matches, Vouched
  <2> QED
    BY <1>1, <2>5, <2>6, <2>10, OneCallServed DEF ClientTypes
<1> QED
  BY <1>2, <1>3

\* UserInfo is fetched and merged.
LEMMA FetchServes ==
    ASSUME StoreInv, ClientTypes, CallbacksBound, NEW h \in Handlers, FetchUserInfo(h)
    PROVE  /\ ClientTypes' /\ CallbacksBound' /\ serving[h].stage = "userinfo"
           /\ \A g \in Handlers : g # h => serving'[g] = serving[g]
           /\ UNCHANGED requested
<1>1. UNCHANGED <<storing, requested, codes>> /\ serving[h].stage = "userinfo"
  BY DEF FetchUserInfo, storeVars
<1>2. CASE Replies(h)
  BY <1>1, <1>2, ReplyServes
<1>3. CASE ~Replies(h)
  <2> DEFINE account == serving[h].code.account
             merged == mergeClaims(serving[h].claims, account.info)
             call == [serving[h] EXCEPT !.stage = "assert", !.claims = merged]
  <2>1. serving' = [serving EXCEPT ![h].stage = "assert", ![h].claims = merged]
    BY <1>3 DEF FetchUserInfo
  <2>2. /\ serving[h] \in ClientCalls /\ serving[h].code \in Codes
        /\ Matches(serving[h].state, serving[h].login)
        /\ serving[h].code.login = serving[h].state /\ serving[h].claims = account.token
    BY <1>1 DEF ClientTypes, CallbacksBound, CallbackBound
  <2>3. account \in Accounts
    BY <2>2 DEF Codes
  <2>4. merged \in Merged /\ Vouched(account, merged)
    BY <2>2, <2>3, MergedVouched
  <2>5. serving' = [serving EXCEPT ![h] = call]
    BY <2>1 DEF ClientTypes
  <2> HIDE DEF merged
  <2>6. /\ call \in ClientCalls /\ call.stage = "assert" /\ call.claims = merged
        /\ call.code = serving[h].code /\ call.state = serving[h].state
        /\ call.login = serving[h].login
    BY <2>2, <2>4 DEF ClientCalls, ClientStages
  <2> HIDE DEF call
  <2>7. serving'[h] = call
    BY <2>5 DEF ClientTypes
  <2>8. Matches(serving[h].state, serving[h].login)'
    BY <1>1, <2>2, <2>6, <2>7 DEF Matches
  <2>9. CallbackBound(h)'
    BY <1>1, <2>2, <2>4, <2>6, <2>7, <2>8 DEF CallbackBound, Matches, Vouched
  <2> QED
    BY <1>1, <2>5, <2>6, <2>9, OneCallServed DEF ClientTypes
<1> QED
  BY <1>2, <1>3

\* A call of the store keeps the state it was made for.
LEMMA StoreKeepsState ==
    ASSUME StoreInv, NEW h \in Handlers, StoreStep(h)
    PROVE  \A g \in Handlers : storing'[g].state = storing[g].state
<1>1. storing \in [Handlers -> StoreCalls]
  BY DEF StoreInv, StoreTypes
<1>2. \A result : StoreEnds(h, result) => \A g \in Handlers : storing'[g].state = storing[g].state
  BY <1>1 DEF StoreEnds, StoreCalls
<1>3. ASSUME NEW login, Given(h, login)
      PROVE  \A g \in Handlers : storing'[g].state = storing[g].state
  <2>1. CASE Expired(login, now)
    BY <1>2, <1>3, <2>1 DEF Given
  <2>2. CASE ~Expired(login, now)
    <3> DEFINE call == [storing[h] EXCEPT !.stage = "done", !.result = "consumed", !.login = login]
    <3>1. storing' = [storing EXCEPT ![h] = call]
      BY <1>1, <1>3, <2>2 DEF Given
    <3>2. call.state = storing[h].state
      BY <1>1 DEF StoreCalls
    <3> HIDE DEF call
    <3> QED
      BY <1>1, <3>1, <3>2
  <2> QED
    BY <2>1, <2>2
<1>4. ASSUME RetryConsume(h)
      PROVE  \A g \in Handlers : storing'[g].state = storing[g].state
  BY <1>1, <1>4 DEF RetryConsume, StoreCalls
<1>5. ASSUME ReadLogin(h) \/ DeleteLogin(h)
      PROVE  \A g \in Handlers : storing'[g].state = storing[g].state
  BY <1>1, <1>2, <1>5 DEF ReadLogin, DeleteLogin, StoreCalls
<1>6. ASSUME SaveMemory(h) \/ SaveSQL(h) \/ StoreError(h)
      PROVE  \A g \in Handlers : storing'[g].state = storing[g].state
  BY <1>2, <1>6 DEF SaveMemory, SaveSQL, StoreError, StoreFails
<1>7. ASSUME ConsumeMemory(h) \/ CheckLogin(h)
      PROVE  \A g \in Handlers : storing'[g].state = storing[g].state
  BY <1>2, <1>3, <1>7 DEF ConsumeMemory, CheckLogin
<1> QED
  BY <1>4, <1>5, <1>6, <1>7 DEF StoreStep

-----------------------------------------------------------------------------
(* The login as a whole.                                                   *)

\* The assertion of an account's claims.
LEMMA AssertionMade ==
    ASSUME NEW account \in Accounts, NEW claims \in Tokens \cup Merged, NEW login,
           login.tenant \in Tenants, login.user \in Users \cup {NoUser}, Vouched(account, claims)
    PROVE  LET a == AssertionOf(account, claims, login)
           IN /\ a \in Assertions /\ a.tenant = login.tenant /\ a.user = login.user
              /\ a.subject = account.subject /\ a.verified = claims.verified
              /\ Vouched(account, a)
<1> DEFINE a == AssertionOf(account, claims, login)
<1>1. claims.email \in Emails /\ claims.name \in PersonNames /\ claims.verified \in BOOLEAN
  <2>1. CASE claims \in Tokens
    BY <2>1, AccountsAssumption DEF Emails, PersonNames, Tokens
  <2>2. CASE claims \in Merged
    BY <2>2 DEF Merged
  <2> QED
    BY <2>1, <2>2
<1>2. account.subject \in Subjects
  BY AccountsAssumption
<1>3. /\ a.tenant = login.tenant /\ a.user = login.user /\ a.email = claims.email
      /\ a.subject = account.subject /\ a.verified = claims.verified
  BY DEF AssertionOf
<1>4. a \in Assertions
  BY <1>1, <1>2 DEF AssertionOf, Assertions
<1> HIDE DEF a
<1>5. Vouched(account, a)
  BY <1>3 DEF Vouched
<1> QED
  BY <1>3, <1>4, <1>5 DEF a

\* The records of no call, and of a new call of Authenticate.
LEMMA NoIdentityCall ==
    /\ NotAuthenticating \in IdentityCalls
    /\ NotAuthenticating.stage = "idle" /\ NotAuthenticating.user = NoUser
    /\ NotAuthenticating.attempt = 0 /\ NotAuthenticating.raced = FALSE
    /\ NotAuthenticating.result = "none"
  BY DEF NotAuthenticating, IdentityCalls, IdentityStages, IdentityResults

LEMMA NewIdentityCall ==
    ASSUME NEW a \in Assertions, strict \in BOOLEAN
    PROVE  /\ Authenticating(a) \in IdentityCalls
           /\ Authenticating(a).assertion = a /\ Authenticating(a).attempt = 0
           /\ \/ strict /\ ~a.verified /\ Authenticating(a).stage = "done"
                 /\ Authenticating(a).result = "unverified"
              \/ ~(strict /\ ~a.verified) /\ Authenticating(a).stage = "lookup"
                 /\ Authenticating(a).result = "none"
<1>1. "done" \in IdentityStages /\ "lookup" \in IdentityStages
      /\ "unverified" \in IdentityResults /\ "none" \in IdentityResults
  BY DEF IdentityStages, IdentityResults
<1>2. CASE strict /\ ~a.verified
  <2>1. Authenticating(a) = [NotAuthenticating EXCEPT !.assertion = a, !.stage = "done",
                                                      !.result = "unverified"]
    BY <1>2 DEF Authenticating
  <2> QED
    BY <1>1, <1>2, <2>1, NoIdentityCall DEF IdentityCalls
<1>3. CASE ~(strict /\ ~a.verified)
  <2>1. Authenticating(a) = [NotAuthenticating EXCEPT !.assertion = a, !.stage = "lookup",
                                                      !.result = "none"]
    BY <1>3 DEF Authenticating
  <2> QED
    BY <1>1, <1>3, <2>1, NoIdentityCall DEF IdentityCalls
<1> QED
  BY <1>2, <1>3

\* One call of Authenticate begins, or is answered.
LEMMA CallReplaced ==
    ASSUME IdentityInv, NEW c \in Clients, NEW call \in IdentityCalls,
           authenticating[c].stage \in {"idle", "done"},
           authenticating' = [authenticating EXCEPT ![c] = call],
           \/ call.stage = "idle" /\ call.result = "none"
           \/ call.stage = "lookup" /\ call.result = "none"
           \/ call.stage = "done" /\ call.result = "unverified",
           call.stage # "idle" => call.assertion \in Assertions,
           call.attempt = 0, UNCHANGED <<strict, users, members, links>>
    PROVE  IdentityInv' /\ LinkContract
<1>1. /\ authenticating' \in [Clients -> IdentityCalls] /\ authenticating'[c] = call
      /\ \A d \in Clients : d # c => authenticating'[d] = authenticating[d]
  BY DEF IdentityInv, IdentityTypes
<1>2. IdentityTypes'
  BY <1>1 DEF IdentityInv, IdentityTypes
<1>3. CallKnows(c)'
  BY <1>1 DEF CallKnows, Assertion, Chosen, Existing, Joined
<1>4. EndsRight(c)
  BY DEF EndsRight
<1> QED
  BY <1>1, <1>2, <1>3, <1>4, OneCallSteps

\* The link of a call of Authenticate to its callback is not lost when another
\* call takes a step, or when it takes one itself.
LEMMA AuthenticationStays ==
    ASSUME NEW h \in Handlers, AuthenticationBound(h), CallKnows(h), serving'[h] = serving[h],
           \A s \in States : requested[s] # None => requested'[s] = requested[s],
           UNCHANGED strict,
           authenticating'[h].assertion = authenticating[h].assertion,
           authenticating[h].stage = "idle" => authenticating'[h].stage = "idle",
           authenticating[h].stage = "done" => authenticating'[h].result = authenticating[h].result
    PROVE  AuthenticationBound(h)'
<1>1. Assertion(h)' = Assertion(h)
  BY DEF Assertion
<1>2. strict /\ ~Assertion(h).verified /\ authenticating[h].stage # "idle" =>
        authenticating'[h].result = "unverified"
  BY DEF AuthenticationBound, CallKnows
<1> QED
  BY <1>1, <1>2 DEF AuthenticationBound, Vouched

\* A step of Authenticate or of the host changes no assertion, starts no call and
\* leaves results alone.
Framed(d) ==
    /\ authenticating'[d].assertion = authenticating[d].assertion
    /\ authenticating[d].stage = "idle" => authenticating'[d].stage = "idle"
    /\ authenticating[d].stage = "done" => authenticating'[d].result = authenticating[d].result

LEMMA IdentifyFrame ==
    ASSUME IdentityInv, NEW c \in Clients, AuthenticateStep(c) \/ LinkMemory(c) \/ LinkStep(c)
    PROVE  UNCHANGED strict /\ \A d \in Clients : Framed(d)
<1>1. /\ authenticating \in [Clients -> IdentityCalls] /\ IdentityTypes
      /\ authenticating[c].stage \notin {"idle", "done"} /\ UNCHANGED strict
  BY DEF IdentityInv, IdentityTypes, AuthenticateStep, LinkStep, LookUpUser, VerifyUser, GetUser, CreateUser,
     AddMember, GetMember, AccessFails, LinkMemory, ReadLink, InsertLink, UpdateLink, ConfirmLink, Links
<1>2. ASSUME NEW stage, To(c, stage)
      PROVE  \A d \in Clients : Framed(d)
  BY <1>1, <1>2 DEF To, Framed, IdentityCalls
<1>3. ASSUME NEW result, Concludes(c, result)
      PROVE  \A d \in Clients : Framed(d)
  BY <1>1, <1>3 DEF Concludes, Framed, IdentityCalls
<1>4. ASSUME NEW results, Links(c, results)
      PROVE  \A d \in Clients : Framed(d)
  <2> DEFINE k == Key(Assertion(c))
             others == IF links[k] \in {NoUser, LinkOf(c)} THEN authenticating ELSE Raced(k)
  <2>1. PICK result \in results :
          authenticating' = [others EXCEPT ![c] =
                               [authenticating[c] EXCEPT !.stage = "done", !.result = result]]
    BY <1>4 DEF Links
  <2> DEFINE call == [authenticating[c] EXCEPT !.stage = "done", !.result = result]
  <2>2. call.assertion = authenticating[c].assertion
    BY <1>1 DEF IdentityCalls
  <2>3. /\ others \in [Clients -> IdentityCalls]
        /\ \A d \in Clients : /\ others[d].stage = authenticating[d].stage
                              /\ others[d].assertion = authenticating[d].assertion
                              /\ others[d].result = authenticating[d].result
    BY <1>1, RacedCalls
  <2>4. authenticating' = [others EXCEPT ![c] = call]
    BY <2>1
  <2> HIDE DEF others, call
  <2>5. authenticating'[c] = call /\ \A d \in Clients : d # c => authenticating'[d] = others[d]
    BY <2>3, <2>4
  <2> QED
    BY <1>1, <2>2, <2>3, <2>5 DEF Framed
<1>5. ASSUME LookUpUser(c)
      PROVE  \A d \in Clients : Framed(d)
  BY <1>1, <1>5 DEF LookUpUser, Framed, IdentityCalls
<1>6. ASSUME InsertLink(c)
      PROVE  \A d \in Clients : Framed(d)
  <2>1. CASE authenticating' = [authenticating EXCEPT ![c].stage = "link", ![c].attempt = 1]
    BY <1>1, <2>1 DEF Framed, IdentityCalls
  <2> QED
    BY <1>3, <1>4, <1>6, <2>1 DEF InsertLink
<1>7. ASSUME VerifyUser(c) \/ GetUser(c) \/ CreateUser(c) \/ AddMember(c) \/ GetMember(c)
      PROVE  \A d \in Clients : Framed(d)
  <2>1. (\E stage \in IdentityStages : To(c, stage)) \/ (\E result \in IdentityResults : Concludes(c, result))
    <3>1. CASE VerifyUser(c)
      BY <3>1 DEF VerifyUser, IdentityStages, IdentityResults
    <3>2. CASE GetUser(c)
      BY <3>2 DEF GetUser, IdentityStages, IdentityResults
    <3>3. CASE CreateUser(c)
      BY <3>3 DEF CreateUser, IdentityStages
    <3>4. CASE AddMember(c)
      BY <3>4 DEF AddMember, IdentityStages
    <3>5. CASE GetMember(c)
      BY <3>5 DEF GetMember, IdentityStages, IdentityResults
    <3> QED
      BY <1>7, <3>1, <3>2, <3>3, <3>4, <3>5
  <2> QED
    BY <1>2, <1>3, <2>1
<1>8. ASSUME AccessFails(c)
      PROVE  \A d \in Clients : Framed(d)
  BY <1>3, <1>8 DEF AccessFails
<1>9. ASSUME LinkMemory(c) \/ UpdateLink(c)
      PROVE  \A d \in Clients : Framed(d)
  BY <1>2, <1>3, <1>4, <1>9 DEF LinkMemory, UpdateLink
<1>10. ASSUME ReadLink(c) \/ ConfirmLink(c)
       PROVE  \A d \in Clients : Framed(d)
  <2>1. (\E stage \in IdentityStages : To(c, stage)) \/ (\E result \in IdentityResults : Concludes(c, result))
    <3>1. CASE ReadLink(c)
      BY <3>1 DEF ReadLink, IdentityStages, IdentityResults
    <3>2. CASE ConfirmLink(c)
      BY <3>2 DEF ConfirmLink, IdentityResults
    <3> QED
      BY <1>10, <3>1, <3>2
  <2> QED
    BY <1>2, <1>3, <2>1
<1> QED
  BY <1>1, <1>5, <1>6, <1>7, <1>8, <1>9, <1>10 DEF AuthenticateStep, LinkStep

LEMMA HostFrame ==
    ASSUME IdentityInv, Host
    PROVE  UNCHANGED strict /\ \A d \in Clients : Framed(d)
<1>1. IdentityTypes
  BY DEF IdentityInv
<1>2. ASSUME NEW k \in Tenants \X Subjects, Unlink(k)
      PROVE  UNCHANGED strict /\ \A d \in Clients : Framed(d)
  BY <1>1, <1>2, RacedCalls DEF Unlink, Framed
<1>3. ASSUME NEW t \in Tenants, NEW u \in Users, RemoveMember(t, u)
      PROVE  UNCHANGED strict /\ \A d \in Clients : Framed(d)
  BY <1>1, <1>3 DEF RemoveMember, Framed, IdentityTypes, IdentityCalls
<1> QED
  BY <1>2, <1>3 DEF Host

\* Every step of the identity service keeps its invariant and its contract.
LEMMA IdentifyKeeps ==
    ASSUME IdentityInv, NEW c \in Clients, AuthenticateStep(c) \/ LinkMemory(c) \/ LinkStep(c)
    PROVE  IdentityInv' /\ LinkContract
  BY LookUpUserStep, VerifyUserStep, GetUserStep, CreateUserStep, AddMemberStep, GetMemberStep,
     AccessFailsStep, LinkMemoryStep, ReadLinkStep, InsertLinkStep, UpdateLinkStep, ConfirmLinkStep
     DEF AuthenticateStep, LinkStep

LEMMA HostKeeps ==
    ASSUME IdentityInv, Host
    PROVE  IdentityInv' /\ LinkContract
  BY UnlinkStep, RemoveMemberStep DEF Host

\* Identity state that does not change.
LEMMA IdentityStutters ==
    ASSUME IdentityInv, UNCHANGED identityVars
    PROVE  IdentityInv'
  BY DEF IdentityInv, IdentityTypes, CallsKnow, CallKnows, Assertion, Key, LinkOf, Membership, identityVars

\* The rest of the invariant after a step.
Rest == ClientTypes /\ CallbacksBound /\ IdentityInv /\ AuthenticationsBound

\* A step of the client for one handler, whose call is not being authenticated.
LEMMA ClientStepKeeps ==
    ASSUME IInv, NEW h \in Handlers, UNCHANGED identityVars,
           serving[h].stage # "authenticate",
           ClientTypes', CallbacksBound',
           \A g \in Handlers : g # h => serving'[g] = serving[g],
           \A s \in States : requested[s] # None => requested'[s] = requested[s]
    PROVE  Rest'
<1>1. IdentityInv'
  BY IdentityStutters DEF IInv
<1>2. UNCHANGED <<strict, authenticating>>
  BY DEF identityVars
<1>3. \A g \in Handlers : AuthenticationBound(g) /\ CallKnows(g)
  BY ClientsAssumption DEF IInv, AuthenticationsBound, IdentityInv, CallsKnow
<1>4. authenticating[h].stage = "idle"
  BY <1>3 DEF AuthenticationBound
<1>5. \A g \in Handlers : AuthenticationBound(g)'
  <2>1. AuthenticationBound(h)'
    BY <1>2, <1>4 DEF AuthenticationBound
  <2>2. \A g \in Handlers : g # h => AuthenticationBound(g)'
    BY <1>2, <1>3, AuthenticationStays
  <2> QED
    BY <2>1, <2>2
<1> QED
  BY <1>1, <1>5 DEF Rest, AuthenticationsBound

\* A step of the identity service for one client, or of the host.
LEMMA IdentityStepKeeps ==
    ASSUME IInv, UNCHANGED <<storeVars, clientVars>>, UNCHANGED strict,
           \A d \in Clients : Framed(d), IdentityInv'
    PROVE  Rest'
<1>1. UNCHANGED <<storing, requested, codes, serving>>
  BY DEF storeVars, clientVars
<1>2. ClientTypes' /\ CallbacksBound'
  BY <1>1, BoundStays DEF IInv, ClientTypes, CallbacksBound
<1>3. \A g \in Handlers : AuthenticationBound(g) /\ CallKnows(g) /\ Framed(g)
  BY ClientsAssumption DEF IInv, AuthenticationsBound, IdentityInv, CallsKnow
<1>4. \A g \in Handlers : AuthenticationBound(g)'
  BY <1>1, <1>3, AuthenticationStays DEF Framed
<1> QED
  BY <1>2, <1>4 DEF Rest, AuthenticationsBound

\* The application authenticates what the client asserts for handler h.
LEMMA StartKeeps ==
    ASSUME IInv, NEW h \in Handlers, NEW a \in Assertions, NEW call \in ClientCalls,
           serving[h].stage # "authenticate",
           serving' = [serving EXCEPT ![h] = call], call.stage = "authenticate",
           authenticating' = [authenticating EXCEPT ![h] = Authenticating(a)],
           UNCHANGED <<storeVars, requested, codes, strict, users, members, links>>,
           call.code \in Codes, call.code.account.subject = a.subject,
           call.login \in Served, call.login.user = a.user,
           Vouched(call.code.account, a),
           call.code.login # None =>
             /\ call.code.login = call.state /\ call.state \in States /\ requested[call.state] # None
             /\ requested[call.state].tenant = a.tenant /\ requested[call.state].user = a.user
    PROVE  Rest' /\ LinkContract
<1>1. \A g \in Handlers : AuthenticationBound(g) /\ CallKnows(g) /\ g \in Clients
  BY ClientsAssumption DEF IInv, AuthenticationsBound, IdentityInv, CallsKnow
<1>2. authenticating[h].stage = "idle" /\ strict \in BOOLEAN
  BY <1>1 DEF AuthenticationBound, IInv, IdentityInv, IdentityTypes
<1>3. /\ Authenticating(a) \in IdentityCalls
      /\ Authenticating(a).assertion = a /\ Authenticating(a).attempt = 0
      /\ \/ strict /\ ~a.verified /\ Authenticating(a).stage = "done"
            /\ Authenticating(a).result = "unverified"
         \/ ~(strict /\ ~a.verified) /\ Authenticating(a).stage = "lookup"
            /\ Authenticating(a).result = "none"
  BY <1>2, NewIdentityCall
<1>4. IdentityInv' /\ LinkContract
  BY <1>1, <1>2, <1>3, CallReplaced DEF IInv
<1>5. UNCHANGED storing
  BY DEF storeVars
<1>6. /\ serving'[h] = call /\ authenticating'[h] = Authenticating(a)
      /\ \A g \in Handlers : g # h => authenticating'[g] = authenticating[g]
  BY ClientsAssumption DEF IInv, ClientTypes, IdentityInv, IdentityTypes
<1>7. CallbackBound(h)'
  BY <1>6 DEF CallbackBound
<1>8. ClientTypes' /\ CallbacksBound' /\ \A g \in Handlers : g # h => serving'[g] = serving[g]
  BY <1>5, <1>7, OneCallServed DEF IInv, ClientTypes
<1>9. AuthenticationBound(h)'
  <2>1. Assertion(h)' = a
    BY <1>3, <1>6 DEF Assertion
  <2> QED
    BY <1>3, <1>6, <2>1 DEF AuthenticationBound
<1>10. \A g \in Handlers : g # h => AuthenticationBound(g)'
  BY <1>1, <1>6, <1>8, AuthenticationStays
<1> QED
  BY <1>4, <1>8, <1>9, <1>10 DEF Rest, AuthenticationsBound

LEMMA AuthenticateKeeps ==
    ASSUME IInv, NEW h \in Handlers, Authenticate(h)
    PROVE  Rest' /\ LinkContract
<1> DEFINE s == serving[h]
           a == AssertionOf(s.code.account, s.claims, s.login)
           call == [s EXCEPT !.stage = "authenticate"]
<1>1. /\ s.stage = "assert" /\ s \in ClientCalls /\ s.code \in Codes /\ Matches(s.state, s.login)
      /\ s.code.login = s.state /\ s.claims \in Tokens \cup Merged
      /\ Vouched(s.code.account, s.claims)
  BY DEF Authenticate, IInv, ClientTypes, CallbacksBound, CallbackBound
<1>2. /\ s.code.account \in Accounts /\ s.login \in Served /\ s.login.tenant \in Tenants
      /\ s.login.user \in Users \cup {NoUser}
  BY <1>1 DEF Codes, Matches, Logins, Served
<1>3. /\ a \in Assertions /\ a.tenant = s.login.tenant /\ a.user = s.login.user
      /\ a.subject = s.code.account.subject /\ Vouched(s.code.account, a)
  BY <1>1, <1>2, AssertionMade
<1>4. /\ call \in ClientCalls /\ call.stage = "authenticate" /\ call.code = s.code
      /\ call.login = s.login /\ call.state = s.state
  BY <1>1 DEF ClientCalls, ClientStages
<1>5. /\ serving' = [serving EXCEPT ![h] = call]
      /\ authenticating' = [authenticating EXCEPT ![h] = Authenticating(a)]
      /\ UNCHANGED <<storeVars, requested, codes, strict, users, members, links>>
  BY DEF Authenticate, Serves, IInv, ClientTypes
<1>6. /\ s.state \in States /\ requested[s.state] # None
      /\ requested[s.state].tenant = a.tenant /\ requested[s.state].user = a.user
  BY <1>1, <1>3 DEF Matches
<1> HIDE DEF a, call
<1> QED
  BY <1>1, <1>2, <1>3, <1>4, <1>5, <1>6, StartKeeps

LEMMA AuthenticateDirectlyKeeps ==
    ASSUME IInv, NEW h \in Handlers, AuthenticateDirectly(h)
    PROVE  Rest' /\ LinkContract
<1>1. PICK account \in Accounts, request \in Requests :
          /\ serving' = [serving EXCEPT ![h].stage = "authenticate",
                                        ![h].code = [login |-> None, account |-> account],
                                        ![h].login = [tenant |-> request.tenant, user |-> request.user,
                                                      expires |-> Never]]
          /\ authenticating' = [authenticating EXCEPT ![h] = Authenticating(
                                   AssertionOf(account, account.token, request))]
  BY DEF AuthenticateDirectly
<1> DEFINE a == AssertionOf(account, account.token, request)
           code == [login |-> None, account |-> account]
           login == [tenant |-> request.tenant, user |-> request.user, expires |-> Never]
           call == [serving[h] EXCEPT !.stage = "authenticate", !.code = code, !.login = login]
<1>2. serving[h] \in ClientCalls /\ serving[h].stage = "idle"
      /\ UNCHANGED <<storeVars, requested, codes, strict, users, members, links>>
  BY NoClientCall DEF AuthenticateDirectly, IInv, ClientTypes
<1>3. request.tenant \in Tenants /\ request.user \in Users \cup {NoUser}
  BY AskedAssumption
<1>4. account.token \in Tokens /\ Vouched(account, account.token)
  BY DEF Tokens, Vouched
<1>5. /\ a \in Assertions /\ a.tenant = request.tenant /\ a.user = request.user
      /\ a.subject = account.subject /\ Vouched(account, a)
  BY <1>3, <1>4, AssertionMade
<1>6. code \in Codes /\ login \in Served /\ code.login = None /\ code.account = account
      /\ login.user = request.user
  BY <1>3 DEF Codes, Served
<1>7. serving' = [serving EXCEPT ![h] = call]
  BY <1>1 DEF IInv, ClientTypes
<1> HIDE DEF a, code, login
<1>8. call \in ClientCalls /\ call.stage = "authenticate" /\ call.code = code /\ call.login = login
  BY <1>2, <1>6 DEF ClientCalls, ClientStages
<1>9. authenticating' = [authenticating EXCEPT ![h] = Authenticating(a)]
  BY <1>1 DEF a
<1> HIDE DEF call
<1> QED
  BY <1>2, <1>5, <1>6, <1>7, <1>8, <1>9, StartKeeps

LEMMA AnswerKeeps ==
    ASSUME IInv, NEW h \in Handlers, Answer(h)
    PROVE  Rest' /\ LinkContract
<1>1. /\ authenticating[h].stage = "done" /\ Replies(h)
      /\ authenticating' = [authenticating EXCEPT ![h] = NotAuthenticating]
      /\ UNCHANGED <<storing, requested, codes, strict, users, members, links>>
  BY DEF Answer, storeVars
<1>2. IdentityInv' /\ LinkContract
  BY <1>1, ClientsAssumption, NoIdentityCall, CallReplaced DEF IInv
<1>3. ClientTypes' /\ CallbacksBound' /\ \A g \in Handlers : g # h => serving'[g] = serving[g]
  BY <1>1, ReplyServes DEF IInv
<1>4. /\ authenticating'[h] = NotAuthenticating
      /\ \A g \in Handlers : g # h => authenticating'[g] = authenticating[g]
  BY <1>1, ClientsAssumption DEF IInv, IdentityInv, IdentityTypes
<1>5. \A g \in Handlers : AuthenticationBound(g) /\ CallKnows(g)
  BY ClientsAssumption DEF IInv, AuthenticationsBound, IdentityInv, CallsKnow
<1>6. AuthenticationBound(h)'
  BY <1>4, NoIdentityCall DEF AuthenticationBound
<1>7. \A g \in Handlers : g # h => AuthenticationBound(g)'
  BY <1>1, <1>3, <1>4, <1>5, AuthenticationStays
<1> QED
  BY <1>2, <1>3, <1>6, <1>7 DEF Rest, AuthenticationsBound

\* A step that leaves the calls and the identities alone.
LEMMA RestStutters ==
    ASSUME IInv, UNCHANGED <<serving, requested, identityVars>>, codes \subseteq codes', codes' \subseteq Codes,
           \A g \in Handlers : storing'[g].state = storing[g].state
    PROVE  Rest'
<1>1. ClientTypes' /\ CallbacksBound'
  BY BoundStays DEF IInv, ClientTypes, CallbacksBound
<1>2. IdentityInv'
  BY IdentityStutters DEF IInv
<1>3. \A g \in Handlers : AuthenticationBound(g) /\ CallKnows(g)
  BY ClientsAssumption DEF IInv, AuthenticationsBound, IdentityInv, CallsKnow
<1>4. UNCHANGED <<strict, authenticating>>
  BY DEF identityVars
<1>5. \A g \in Handlers : AuthenticationBound(g)'
  BY <1>3, <1>4, AuthenticationStays
<1> QED
  BY <1>1, <1>2, <1>5 DEF Rest, AuthenticationsBound

\* Every step keeps the invariant of the login.
LEMMA LoginNext ==
    ASSUME IInv, [Next]_vars
    PROVE  IInv' /\ (LinkContract \/ UNCHANGED identityVars)
<1>1. StoreInv' /\ StoreInv /\ ClientTypes /\ CallbacksBound /\ IdentityInv
  BY StoreNext DEF IInv
<1>2. ASSUME NEW h \in Handlers, Begin(h)
      PROVE  Rest' /\ UNCHANGED identityVars
  <2>1. UNCHANGED identityVars
    BY <1>2 DEF Begin
  <2> QED
    BY <1>1, <1>2, <2>1, BeginServes, ClientStepKeeps
<1>3. ASSUME NEW h \in Handlers, Receive(h)
      PROVE  Rest' /\ UNCHANGED identityVars
  <2>1. UNCHANGED identityVars
    BY <1>3 DEF Receive
  <2> QED
    BY <1>1, <1>3, <2>1, ReceiveServes, ClientStepKeeps
<1>4. ASSUME NEW h \in Handlers, Serve(h)
      PROVE  Rest' /\ UNCHANGED identityVars
  <2>1. UNCHANGED identityVars
    BY <1>4 DEF Serve
  <2>2. /\ ClientTypes' /\ CallbacksBound' /\ serving[h].stage # "authenticate"
        /\ \A g \in Handlers : g # h => serving'[g] = serving[g]
        /\ UNCHANGED requested
    BY <1>1, <1>4, ConsumedServes, ExchangeServes, FetchServes DEF Serve
  <2> QED
    BY <2>1, <2>2, ClientStepKeeps
<1>5. ASSUME NEW h \in Handlers, Store(h)
      PROVE  Rest' /\ UNCHANGED identityVars
  BY <1>1, <1>5, StoreKeepsState, RestStutters DEF Store, clientVars, ClientTypes
<1>6. ASSUME NEW h \in Handlers, Identify(h)
      PROVE  Rest' /\ LinkContract
  <2>1. h \in Clients /\ (AuthenticateStep(h) \/ LinkMemory(h) \/ LinkStep(h))
    BY <1>6, ClientsAssumption DEF Identify
  <2>2. UNCHANGED <<storeVars, clientVars>>
    BY <1>6 DEF Identify
  <2>3. IdentityInv' /\ LinkContract /\ UNCHANGED strict /\ \A d \in Clients : Framed(d)
    BY <1>1, <2>1, IdentifyKeeps, IdentifyFrame
  <2> QED
    BY <2>2, <2>3, IdentityStepKeeps
<1>7. ASSUME Host
      PROVE  Rest' /\ LinkContract
  <2>1. UNCHANGED <<storeVars, clientVars>>
    BY <1>7 DEF Host
  <2>2. IdentityInv' /\ LinkContract /\ UNCHANGED strict /\ \A d \in Clients : Framed(d)
    BY <1>1, <1>7, HostKeeps, HostFrame
  <2> QED
    BY <2>1, <2>2, IdentityStepKeeps
<1>8. ASSUME Agree
      PROVE  Rest' /\ UNCHANGED identityVars
  <2>1. PICK s \in States, account \in Accounts : Approve(s, account)
    BY <1>8 DEF Agree
  <2>2. codes' = codes \cup {[login |-> s, account |-> account]} /\ UNCHANGED <<storing, requested, serving>>
    BY <2>1 DEF Approve, storeVars
  <2>3. [login |-> s, account |-> account] \in Codes
    BY DEF Codes
  <2>4. codes \subseteq codes' /\ codes' \subseteq Codes
    BY <1>1, <2>2, <2>3 DEF ClientTypes
  <2>5. UNCHANGED identityVars
    BY <1>8 DEF Agree
  <2> QED
    BY <2>2, <2>4, <2>5, RestStutters
<1>9. ASSUME Time \/ Quiet \/ UNCHANGED vars
      PROVE  Rest' /\ UNCHANGED identityVars
  <2>1. UNCHANGED <<storing, requested, codes, serving, identityVars>>
    BY <1>9 DEF Time, Tick, Quiet, vars, storeVars, clientVars
  <2> QED
    BY <1>1, <2>1, RestStutters DEF ClientTypes
<1>10. Rest' /\ (LinkContract \/ UNCHANGED identityVars)
  BY <1>2, <1>3, <1>4, <1>5, <1>6, <1>7, <1>8, <1>9, AuthenticateKeeps, AuthenticateDirectlyKeeps,
     AnswerKeeps DEF Next
<1> QED
  BY <1>1, <1>10 DEF IInv, Rest

LEMMA LoginInitial == Init => IInv
<1> SUFFICES ASSUME Init
             PROVE  IInv
  OBVIOUS
<1>1. ClientTypes /\ CallbacksBound
  BY NoClientCall DEF Init, ClientInit, ClientTypes, CallbacksBound, CallbackBound
<1>2. IdentityTypes
  BY NoIdentityCall DEF Init, IdentityInit, IdentityTypes
<1>3. \A c \in Clients : authenticating[c] = NotAuthenticating
  BY DEF Init, IdentityInit
<1>4. CallsKnow
  BY <1>3, NoIdentityCall DEF CallsKnow, CallKnows, Chosen, Existing, Joined
<1>5. AuthenticationsBound
  BY <1>3, ClientsAssumption, NoIdentityCall DEF AuthenticationsBound, AuthenticationBound
<1> QED
  BY <1>1, <1>2, <1>4, <1>5, StoreInitial DEF IInv, IdentityInv

\* The invariant of the login, in every reachable state.
LEMMA LoginAlways == Spec => []IInv
<1>1. IInv /\ [Next]_vars => IInv'
  BY LoginNext
<1> QED
  BY <1>1, LoginInitial, PTL DEF Spec

\* The pending logins, within the memory store's limit, and the calls keep their
\* types: maxPending, the attempts of ConsumeLogin and of Link are never exceeded.
THEOREM LoginTypes == Spec => []LoginTypeOK
<1>1. IInv => LoginTypeOK
  <2> SUFFICES ASSUME IInv
               PROVE  LoginTypeOK
    OBVIOUS
  <2>1. StoreTypeOK
    BY DEF IInv, StoreInv, StoreTypes, StoreTypeOK, StoreCalls, StoreStages, StoreResults
  <2>2. IdentityTypeOK
    BY DEF IInv, IdentityInv, IdentityTypes, IdentityTypeOK, IdentityCalls, IdentityStages,
       IdentityResults, LinkRecords
  <2>3. \A h \in Handlers : serving[h].stage \in ClientStages
    BY DEF IInv, ClientTypes, ClientCalls
  <2> QED
    BY <2>1, <2>2, <2>3 DEF LoginTypeOK, ClientStages
<1> QED
  BY <1>1, LoginAlways, PTL

\* Authenticate makes a session only for the tenant, the user and the account of
\* the one login whose callback it serves, and under requireVerifiedEmail only
\* with an address that the ID token or UserInfo vouches for.
THEOREM SessionsBound == Spec => []SessionBound
<1>1. IInv => SessionBound
  <2> SUFFICES ASSUME IInv, NEW h \in Handlers, authenticating[h].result = "session"
               PROVE  LET s == serving[h]
                          a == Assertion(h)
                          vouching == {claims \in {s.code.account.token, s.code.account.info} :
                                           claims.email = a.email /\ claims.verified}
                      IN /\ s.code.account.subject = a.subject
                         /\ strict => vouching # {}
                         /\ s.login.user \in {NoUser, authenticating[h].user}
                         /\ s.code.login # None =>
                               /\ s.code.login = s.state
                               /\ requested[s.state].tenant = a.tenant
                               /\ requested[s.state].user = a.user
    BY DEF SessionBound
  <2>1. CallKnows(h) /\ AuthenticationBound(h)
    BY ClientsAssumption DEF IInv, IdentityInv, CallsKnow, AuthenticationsBound
  <2>2. authenticating[h].stage # "idle" /\ Assertion(h).user \in {NoUser, authenticating[h].user}
    BY <2>1 DEF CallKnows
  <2>3. strict => Assertion(h).verified
    BY <2>1, <2>2 DEF AuthenticationBound
  <2> QED
    BY <2>1, <2>2, <2>3 DEF AuthenticationBound, Vouched
<1> QED
  BY <1>1, LoginAlways, PTL

\* identity.Service keeps a linked identity with its user until it is unlinked, a
\* session leaves user, membership and link behind, and a conflict has a reason
\* other than a first login at the same time (Authenticate, Link of both stores).
THEOREM IdentitiesStay == Spec => LinksStay
<1>1. IInv /\ [Next]_vars => [LinkContract]_identityVars
  BY LoginNext
<1> QED
  BY <1>1, LoginAlways, PTL DEF Spec, LinksStay
=============================================================================
