------------------------------- MODULE Login -------------------------------
(***************************************************************************)
(* The login of a user: the client turns a callback into an assertion      *)
(* (OIDC) and the application has it authenticated (Identity).  Assertions *)
(* that come another way (SAML, magic links) are authenticated directly.   *)
(***************************************************************************)
EXTENDS OIDC, Identity

CONSTANT Scenarios   \* the configuration (sql, fetch, strict), and bounds on what happens in it

ASSUME ClientsAssumption == Clients = Handlers
ASSUME AskedAssumption ==
    \A request \in Requests : request.tenant \in Tenants /\ request.user \in Users \cup {NoUser}
ASSUME AccountsAssumption ==
    \A account \in Accounts : \A claims \in {account.token, account.info} :
        account.subject \in Subjects /\ claims.email # NoUser /\ claims.verified \in BOOLEAN

VARIABLE budget

vars == <<storeVars, clientVars, identityVars, budget>>

Init ==
    /\ StoreInit /\ ClientInit /\ IdentityInit
    /\ \E scenario \in Scenarios : /\ <<sql, fetch, strict>> = scenario.config
                                  /\ budget = scenario.bounds

Spend(what) == budget[what] > 0 /\ budget' = [budget EXCEPT ![what] = @ - 1]

-----------------------------------------------------------------------------
Begin(h) ==
    /\ Spend("begin")
    /\ \E request \in Requests : BeginLogin(h, request)
    /\ UNCHANGED identityVars

Agree ==
    /\ Spend("approve")
    /\ \E s \in States, account \in Accounts : Approve(s, account)
    /\ UNCHANGED identityVars

Receive(h) ==
    /\ Spend("receive")
    /\ \E state \in States, code \in codes \cup {NoCode} : HandleLoginCallback(h, state, code)
    /\ UNCHANGED identityVars

Serve(h) ==
    /\ LoginBegun(h) \/ LoginConsumed(h) \/ Exchange(h) \/ FetchUserInfo(h)
    /\ UNCHANGED <<identityVars, budget>>

Store(h) == StoreStep(h) /\ UNCHANGED <<clientVars, identityVars, budget>>

\* The application authenticates what the client asserts.
Authenticate(h) ==
    /\ serving[h].stage = "assert"
    /\ Serves(h, "authenticate")
    /\ authenticating' = [authenticating EXCEPT ![h] = Authenticating(
                             AssertionOf(serving[h].code.account, serving[h].claims, serving[h].login))]
    /\ UNCHANGED <<storeVars, fetch, requested, asked, codes, redeemed, strict, users, members, links, budget>>

AuthenticateDirectly(h) ==
    /\ Spend("direct")
    /\ serving[h] = NotServing
    /\ \E account \in Accounts, request \in Requests :
          /\ account.token.email # None
          /\ serving' = [serving EXCEPT ![h].stage = "authenticate",
                                        ![h].code = [login |-> None, account |-> account],
                                        ![h].login = [tenant |-> request.tenant, user |-> request.user,
                                                      expires |-> Never]]
          /\ authenticating' = [authenticating EXCEPT ![h] = Authenticating(
                                   AssertionOf(account, account.token, request))]
    /\ UNCHANGED <<storeVars, fetch, requested, asked, codes, redeemed, strict, users, members, links>>

Identify(h) ==
    /\ AuthenticateStep(h) \/ (~sql /\ LinkMemory(h)) \/ (sql /\ LinkStep(h))
    /\ UNCHANGED <<storeVars, clientVars, budget>>

Answer(h) ==
    /\ authenticating[h].stage = "done"
    /\ Replies(h)
    /\ authenticating' = [authenticating EXCEPT ![h] = NotAuthenticating]
    /\ UNCHANGED <<storeVars, fetch, requested, asked, codes, redeemed, strict, users, members, links, budget>>

Host ==
    /\ Spend("host")
    /\ \/ \E k \in Tenants \X Subjects : Unlink(k)
       \/ \E t \in Tenants, u \in Users : RemoveMember(t, u)
    /\ UNCHANGED <<storeVars, clientVars>>

Time == Spend("time") /\ Tick /\ UNCHANGED <<clientVars, identityVars>>

Quiet == (\A h \in Handlers : serving[h] = NotServing) /\ UNCHANGED vars

Next ==
    \/ \E h \in Handlers : \/ Begin(h) \/ Receive(h) \/ Serve(h) \/ Store(h)
                           \/ Authenticate(h) \/ AuthenticateDirectly(h) \/ Identify(h) \/ Answer(h)
    \/ Agree \/ Host \/ Time \/ Quiet

Spec == Init /\ [][Next]_vars

-----------------------------------------------------------------------------
\* Type invariant of the pending logins, within the memory store's limit, and of
\* the calls.
LoginTypeOK ==
    /\ StoreTypeOK /\ IdentityTypeOK
    /\ \A h \in Handlers : serving[h].stage \in
           {"idle", "begin", "consume", "exchange", "userinfo", "assert", "authenticate"}

\* A session is for the tenant, and for the user if one was named, of the one
\* login its callback carried, and for an account that agreed to that login,
\* although callbacks are repeated, late and mixed up; and, if verified emails
\* are required, the email is one that the ID token or UserInfo itself vouches for.
SessionBound ==
    \A h \in Handlers : authenticating[h].result = "session" =>
        LET s == serving[h]
            a == Assertion(h)
            vouching == {claims \in {s.code.account.token, s.code.account.info} :
                             claims.email = a.email /\ claims.verified}
        IN /\ s.code.account.subject = a.subject
           /\ strict => vouching # {}
           /\ s.login.user \in {NoUser, authenticating[h].user}
           /\ s.code.login # None =>
                 /\ s.code.login = s.state
                 /\ requested[s.state].tenant = a.tenant
                 /\ requested[s.state].user = a.user
=============================================================================
