------------------------------ MODULE Identity ------------------------------
(***************************************************************************)
(* identity.Service on its link store and the user service.  Authenticate  *)
(* finds the user of an external identity, makes sure that user and        *)
(* membership exist and links the identity, one store access after the     *)
(* other; nothing is taken back when a later one fails.  The SQL store     *)
(* reads a link before it inserts or updates it.  Another session may have *)
(* got there first at every step; a host unlinks and removes members.      *)
(***************************************************************************)
EXTENDS Naturals

CONSTANTS
    Clients,       \* goroutines
    Tenants, Subjects, Users,
    DefaultUser,   \* DefaultUserID: subject -> user
    NoUser,        \* no user, no link
    NotFound       \* no assertion

ASSUME DefaultUserAssumption == DefaultUser \in [Subjects -> Users]

VARIABLES
    strict,          \* requireVerifiedEmail
    users,           \* user -> email
    members,         \* pairs of tenant and user
    links,           \* <<tenant, subject>> -> user, email, name
    authenticating   \* client -> its call

identityVars == <<strict, users, members, links, authenticating>>

NotAuthenticating == [stage |-> "idle", assertion |-> NotFound, user |-> NoUser, attempt |-> 0,
                      raced |-> FALSE, result |-> "none"]
IdentityInit ==
    /\ strict \in BOOLEAN
    /\ users = [u \in Users |-> NoUser]
    /\ members = {}
    /\ links = [k \in Tenants \X Subjects |-> NoUser]
    /\ authenticating = [c \in Clients |-> NotAuthenticating]

Assertion(c) == authenticating[c].assertion
Key(a) == <<a.tenant, a.subject>>
Membership(c) == <<Assertion(c).tenant, authenticating[c].user>>
LinkOf(c) == [user |-> authenticating[c].user, email |-> Assertion(c).email, name |-> Assertion(c).name]

To(c, stage) == authenticating' = [authenticating EXCEPT ![c].stage = stage]
Concludes(c, result) == authenticating' = [authenticating EXCEPT ![c].stage = "done", ![c].result = result]

\* validate
Authenticating(a) ==
    [NotAuthenticating EXCEPT !.assertion = a,
        !.stage = IF strict /\ ~a.verified THEN "done" ELSE "lookup",
        !.result = IF strict /\ ~a.verified THEN "unverified" ELSE "none"]

-----------------------------------------------------------------------------
(* userID and ensureUser.                                                  *)

LookUpUser(c) ==
    LET a == Assertion(c)
        link == links[Key(a)]
    IN /\ authenticating[c].stage = "lookup"
       /\ authenticating' = [authenticating EXCEPT
             ![c].stage = "verify",
             ![c].user = CASE a.user # NoUser -> a.user
                           [] a.user = NoUser /\ link # NoUser -> link.user
                           [] OTHER -> DefaultUser[a.subject]]
       /\ UNCHANGED <<strict, users, members, links>>

\* The second lookup.
VerifyUser(c) ==
    LET link == links[Key(Assertion(c))] IN
    /\ authenticating[c].stage = "verify"
    /\ IF link # NoUser /\ link.user # authenticating[c].user
       THEN Concludes(c, "conflict") ELSE To(c, "get_user")
    /\ UNCHANGED <<strict, users, members, links>>

\* GetUser, also after somebody else has created the user: the email must agree.
GetUser(c) ==
    LET email == users[authenticating[c].user] IN
    /\ authenticating[c].stage \in {"get_user", "get_created"}
    /\ CASE email = NoUser -> To(c, "create_user")
         [] email = Assertion(c).email -> To(c, "member")
         [] OTHER -> Concludes(c, "conflict")
    /\ UNCHANGED <<strict, users, members, links>>

CreateUser(c) ==
    LET u == authenticating[c].user IN
    /\ authenticating[c].stage = "create_user"
    /\ IF users[u] # NoUser
       THEN To(c, "get_created") /\ UNCHANGED users
       ELSE To(c, "member") /\ users' = [users EXCEPT ![u] = Assertion(c).email]
    /\ UNCHANGED <<strict, members, links>>

-----------------------------------------------------------------------------
(* Membership.                                                             *)

AddMember(c) ==
    /\ authenticating[c].stage = "member"
    /\ To(c, IF Membership(c) \in members THEN "get_member" ELSE "link")
    /\ members' = members \cup {Membership(c)}
    /\ UNCHANGED <<strict, users, links>>

\* The roles of the member there is, who may have been removed by now.
GetMember(c) ==
    /\ authenticating[c].stage = "get_member"
    /\ IF Membership(c) \in members
       THEN To(c, "link")
       ELSE Concludes(c, "not_member")
    /\ UNCHANGED <<strict, users, members, links>>

-----------------------------------------------------------------------------
(* Link.                                                                   *)

\* The other calls for this identity note that the link changed under them.
Raced(k) ==
    [d \in Clients |->
        IF authenticating[d].stage \notin {"idle", "done"} /\ Key(Assertion(d)) = k
        THEN [authenticating[d] EXCEPT !.raced = TRUE] ELSE authenticating[d]]

\* What a write of the link does: a first link is no change to the others.
Links(c, results) ==
    LET k == Key(Assertion(c))
        others == IF links[k] \in {NoUser, LinkOf(c)} THEN authenticating ELSE Raced(k)
    IN /\ links' = [links EXCEPT ![k] = LinkOf(c)]
       /\ \E result \in results :
             authenticating' = [others EXCEPT ![c] = [authenticating[c] EXCEPT !.stage = "done", !.result = result]]
       /\ UNCHANGED <<strict, users, members>>

LinkMemory(c) ==
    LET link == links[Key(Assertion(c))] IN
    /\ authenticating[c].stage = "link"
    /\ IF link # NoUser /\ link.user # authenticating[c].user
       THEN Concludes(c, "conflict") /\ UNCHANGED <<strict, users, members, links>>
       ELSE Links(c, {"session"})

\* GetByExternal of an attempt of the SQL store.
ReadLink(c) ==
    LET link == links[Key(Assertion(c))] IN
    /\ authenticating[c].stage = "link"
    /\ CASE link = NoUser -> To(c, "insert")
         [] link # NoUser /\ link.user = authenticating[c].user -> To(c, "update")
         [] OTHER -> Concludes(c, "conflict")
    /\ UNCHANGED <<strict, users, members, links>>

\* Mutant of InsertLink: a duplicate key is not looked into.
InsertLinkOnce(c) ==
    /\ authenticating[c].stage = "insert"
    /\ IF links[Key(Assertion(c))] = NoUser
       THEN Links(c, {"session", "failed"})
       ELSE Concludes(c, "conflict") /\ UNCHANGED <<strict, users, members, links>>

\* A duplicate key starts the second attempt, or is a conflict after it.
InsertLink(c) ==
    /\ authenticating[c].stage = "insert"
    /\ IF links[Key(Assertion(c))] = NoUser
       THEN Links(c, {"session", "failed"})
       ELSE /\ IF authenticating[c].attempt = 1
               THEN Concludes(c, "conflict")
               ELSE authenticating' = [authenticating EXCEPT ![c].stage = "link", ![c].attempt = 1]
            /\ UNCHANGED <<strict, users, members, links>>

\* UPDATE ... WHERE user_id = ...: a database may count a row it left as it was
\* as not affected, and then the link is read once more.
UpdateLink(c) ==
    LET link == links[Key(Assertion(c))]
        matches == link # NoUser /\ link.user = authenticating[c].user
    IN /\ authenticating[c].stage = "update"
       /\ \/ matches /\ Links(c, {"session", "failed"})
          \/ /\ ~matches \/ link = LinkOf(c)
             /\ To(c, "confirm")
             /\ UNCHANGED <<strict, users, members, links>>

ConfirmLink(c) ==
    LET link == links[Key(Assertion(c))] IN
    /\ authenticating[c].stage = "confirm"
    /\ Concludes(c, CASE link = NoUser -> "not_found" [] link = LinkOf(c) -> "session" [] OTHER -> "conflict")
    /\ UNCHANGED <<strict, users, members, links>>

\* A store access fails.
AccessFails(c) ==
    /\ authenticating[c].stage \notin {"idle", "done"}
    /\ Concludes(c, "failed")
    /\ UNCHANGED <<strict, users, members, links>>

AuthenticateStep(c) ==
    \/ LookUpUser(c) \/ VerifyUser(c) \/ GetUser(c) \/ CreateUser(c) \/ AddMember(c) \/ GetMember(c)
    \/ AccessFails(c)
LinkStep(c) == ReadLink(c) \/ InsertLink(c) \/ UpdateLink(c) \/ ConfirmLink(c)

-----------------------------------------------------------------------------
(* The host.                                                               *)

Unlink(k) ==
    /\ links[k] # NoUser
    /\ links' = [links EXCEPT ![k] = NoUser]
    /\ authenticating' = Raced(k)
    /\ UNCHANGED <<strict, users, members>>

RemoveMember(t, u) ==
    /\ <<t, u>> \in members
    /\ members' = members \ {<<t, u>>}
    /\ authenticating' = [d \in Clients |->
          IF authenticating[d].stage \notin {"idle", "done"} /\ Membership(d) = <<t, u>>
          THEN [authenticating[d] EXCEPT !.raced = TRUE] ELSE authenticating[d]]
    /\ UNCHANGED <<strict, users, links>>

IdentityTypeOK ==
    /\ members \subseteq Tenants \X Users
    /\ \A k \in Tenants \X Subjects : links[k] # NoUser => links[k].user \in Users
    /\ \A c \in Clients :
           /\ authenticating[c].stage \in {"idle", "lookup", "verify", "get_user", "create_user", "get_created",
                  "member", "get_member", "link", "insert", "update", "confirm", "done"}
           /\ authenticating[c].attempt \in 0..1
           /\ authenticating[c].result \in {"none", "unverified", "conflict", "not_member", "not_found",
                  "session", "failed"}

\* A linked identity keeps its user until it is unlinked.
LinksKeepUser ==
    \A k \in Tenants \X Subjects :
        links[k] # NoUser /\ links'[k] # NoUser => links'[k].user = links[k].user

\* What a call that ends now has established or met.
EndsRight(c) ==
    LET call == authenticating[c]
        link == links[Key(Assertion(c))]
    IN call.stage \notin {"idle", "done"} =>
          /\ authenticating'[c].result = "session" =>
                /\ users'[call.user] = Assertion(c).email
                /\ call.raced \/ (Membership(c) \in members' /\ links'[Key(Assertion(c))] = LinkOf(c))
          /\ authenticating'[c].result = "conflict" =>
                \/ users[call.user] # Assertion(c).email
                \/ link # NoUser /\ link.user # call.user
                \/ call.raced

LinkContract == LinksKeepUser /\ \A c \in Clients : EndsRight(c)

\* A linked identity keeps its user until it is unlinked; a call that ends with
\* a session leaves the user with the asserted email, the membership and the
\* link; and a call ends with a conflict only because another user has the
\* identity, the user has another email, or the link was changed or removed
\* under it: first logins at the same time do not fail each other.
LinksStay == [][LinkContract]_identityVars
=============================================================================
