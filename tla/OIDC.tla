-------------------------------- MODULE OIDC --------------------------------
(***************************************************************************)
(* oidc.Client on a login store: BeginLogin saves a request under fresh    *)
(* random values; HandleLoginCallback consumes it, exchanges the code,     *)
(* checks the nonce and makes an assertion from the claims of the ID token *)
(* and of UserInfo.  Provider and browser are external: callbacks come     *)
(* late, twice, or with the code of another login; a code is redeemed      *)
(* once; not every provider looks at the PKCE verifier.                    *)
(***************************************************************************)
EXTENDS LoginStore

CONSTANTS
    Requests,   \* what BeginLogin is asked for: tenant, user, until
    Accounts,   \* what the provider knows: subject, token and info claims
    NoCode,     \* the provider's error instead of a code
    None,       \* an absent claim or value
    TTL         \* effectiveTTL

ASSUME TTLAssumption == TTL \in Nat \ {0}
ASSUME RequestsAssumption ==
    None \notin Requests /\ \A request \in Requests : request.until \in Int \cup {None}

VARIABLES
    fetch,      \* fetchUserInfo
    requested,  \* state -> the request it was made for
    asked,      \* states whose URL was returned to a browser
    codes,      \* codes the provider has issued: login, account
    redeemed,   \* codes that have been exchanged
    serving     \* handler -> its call of the client

clientVars == <<fetch, requested, asked, codes, redeemed, serving>>

NotServing == [stage |-> "idle", state |-> NoLogin, code |-> NoCode, login |-> NoLogin, claims |-> None]
ClientInit ==
    /\ fetch \in BOOLEAN
    /\ requested = [s \in States |-> None]
    /\ asked = {} /\ codes = {} /\ redeemed = {}
    /\ serving = [h \in Handlers |-> NotServing]

Serves(h, stage) == serving' = [serving EXCEPT ![h].stage = stage]
Replies(h) == serving' = [serving EXCEPT ![h] = NotServing]

-----------------------------------------------------------------------------
(* BeginLogin.                                                             *)

\* Begin: random values nobody has.
Fresh == {s \in States : requested[s] = None}

BeginLogin(h, request) ==
    /\ serving[h] = NotServing
    /\ Fresh # {}
    /\ LET s == CHOOSE x \in Fresh : TRUE
           login == [tenant |-> request.tenant, user |-> request.user,
                     expires |-> IF request.until = None THEN now + TTL ELSE request.until]
       IN /\ requested' = [requested EXCEPT ![s] = request]
          /\ storing' = [storing EXCEPT ![h] = Saving(s, login)]
          /\ serving' = [serving EXCEPT ![h].stage = "begin", ![h].state = s]
    /\ UNCHANGED <<sql, now, logins, lastCleanup, uses, fetch, asked, codes, redeemed>>

LoginBegun(h) ==
    /\ serving[h].stage = "begin"
    /\ storing[h].stage = "done"
    /\ asked' = IF storing[h].result = "saved" THEN asked \cup {serving[h].state} ELSE asked
    /\ Replies(h)
    /\ storing' = [storing EXCEPT ![h] = NotStoring]
    /\ UNCHANGED <<sql, now, logins, lastCleanup, uses, fetch, requested, codes, redeemed>>

\* Somebody follows the URL and agrees.
Approve(s, account) ==
    /\ s \in asked
    /\ [login |-> s, account |-> account] \notin codes
    /\ codes' = codes \cup {[login |-> s, account |-> account]}
    /\ UNCHANGED <<storeVars, fetch, requested, asked, redeemed, serving>>

-----------------------------------------------------------------------------
(* HandleLoginCallback.                                                    *)

HandleLoginCallback(h, state, code) ==
    /\ serving[h] = NotServing
    /\ state \in asked
    /\ code \in codes \cup {NoCode}
    /\ storing' = [storing EXCEPT ![h] = Consuming(state)]
    /\ serving' = [serving EXCEPT ![h].stage = "consume", ![h].state = state, ![h].code = code]
    /\ UNCHANGED <<sql, now, logins, lastCleanup, uses, fetch, requested, asked, codes, redeemed>>

\* Callback: without a login, or with the provider's error, it ends here.
LoginConsumed(h) ==
    /\ serving[h].stage = "consume"
    /\ storing[h].stage = "done"
    /\ IF storing[h].result = "consumed" /\ serving[h].code # NoCode
       THEN serving' = [serving EXCEPT ![h].stage = "exchange", ![h].login = storing[h].login]
       ELSE Replies(h)
    /\ storing' = [storing EXCEPT ![h] = NotStoring]
    /\ UNCHANGED <<sql, now, logins, lastCleanup, uses, fetch, requested, asked, codes, redeemed>>

\* What comes after the ID token.
Claimed(claims) == IF fetch \/ claims.email = None THEN "userinfo" ELSE "assert"

\* Mutant of Exchange: the nonce is not compared.
ExchangeAnyNonce(h) ==
    LET code == serving[h].code IN
    /\ serving[h].stage = "exchange"
    /\ \/ Replies(h) /\ redeemed' \in {redeemed, redeemed \cup {code}}
       \/ /\ code \notin redeemed
          /\ redeemed' = redeemed \cup {code}
          /\ serving' = [serving EXCEPT ![h].stage = Claimed(code.account.token),
                                        ![h].claims = code.account.token]
    /\ UNCHANGED <<storeVars, fetch, requested, asked, codes>>

\* The code for a token whose nonce must be the login's; the provider may
\* refuse, or its answer be lost.
Exchange(h) ==
    LET code == serving[h].code IN
    /\ serving[h].stage = "exchange"
    /\ \/ Replies(h) /\ redeemed' \in {redeemed, redeemed \cup {code}}
       \/ /\ code \notin redeemed
          /\ redeemed' = redeemed \cup {code}
          /\ code.login = serving[h].state
          /\ serving' = [serving EXCEPT ![h].stage = Claimed(code.account.token),
                                        ![h].claims = code.account.token]
    /\ UNCHANGED <<storeVars, fetch, requested, asked, codes>>

\* A verification vouches for the address it came with.
mergeClaims(primary, fallback) ==
    [email |-> IF primary.email = None THEN fallback.email ELSE primary.email,
     verified |-> IF primary.email = None THEN fallback.verified
                  ELSE primary.verified \/ (fallback.email = primary.email /\ fallback.verified),
     name |-> IF primary.name = None THEN fallback.name ELSE primary.name]

\* userInfoClaims; the subject must not differ and there must be an address.
FetchUserInfo(h) ==
    LET account == serving[h].code.account
        merged == mergeClaims(serving[h].claims, account.info)
    IN /\ serving[h].stage = "userinfo"
       /\ \/ Replies(h)
          \/ /\ account.info.subject \in {None, account.subject}
             /\ merged.email # None
             /\ serving' = [serving EXCEPT ![h].stage = "assert", ![h].claims = merged]
       /\ UNCHANGED <<storeVars, fetch, requested, asked, codes, redeemed>>

\* The assertion of the result.
AssertionOf(account, claims, login) ==
    [tenant |-> login.tenant, subject |-> account.subject, user |-> login.user,
     email |-> claims.email, name |-> claims.name, verified |-> claims.verified]
=============================================================================
