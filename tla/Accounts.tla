------------------------------ MODULE Accounts ------------------------------
(***************************************************************************)
(* How organizations and their first accounts come to be: self-serve       *)
(* signup (pkg/api/signup.go), a super administrator's CreateOrganization  *)
(* with its invitation (superadmin.go), the completion of an invitation    *)
(* (public.go), and the bootstrap of the super administrator when a server *)
(* starts (postgres.go, bootstrapSuperAdmin).                              *)
(*                                                                         *)
(* No sequence of theirs is a transaction: each database call is a step,   *)
(* may fail before or after it took effect, and the server may die in      *)
(* between: it then takes no further step, and its next start is that of   *)
(* another process.  The unique key of users is all that joins the calls.  *)
(***************************************************************************)
EXTENDS Naturals, FiniteSets

CONSTANTS
    Servers,          \* starts of a server, one after the other or side by side
    Calls,            \* HTTP requests
    Emails,           \* addresses as they are typed
    LowerCase,        \* strings.ToLower on addresses
    Reserved,         \* addresses that reservedLocalPart keeps from signing up
    SuperAdminEmail,  \* SUPERADMIN_EMAIL as each start finds it, lowered
    Failures          \* what may become of a call to the database, see Writes

Procs == Servers \cup Calls

ASSUME AccountsAssumption ==
    /\ Servers \cap Calls = {}
    /\ Emails # {}
    /\ LowerCase \in [Emails -> Emails]
    /\ Reserved \subseteq Emails
    /\ SuperAdminEmail \in [Servers -> Emails]
    /\ Failures \subseteq {"refused", "lost"}

VARIABLES
    organizations,  \* the last id drawn: the rows are 1 .. organizations
    policies,       \* the organizations with a row in policies
    users,          \* the rows of users
    invitations,    \* the rows of invitations
    kind,           \* what a process is doing: "boot", "signup", "create", "setup"
    pc,             \* the database call it makes next
    email,          \* the address it works for
    orgID,          \* the organization it works for
    token,          \* the invitation it redeems, named after the call that made it
    session,        \* the account its session token names, as a set of rows
    overlooked      \* history: the starts whose account a start's count missed

tables  == <<organizations, policies, users, invitations>>
locals  == <<kind, email, orgID, token, session, overlooked>>
vars    == <<tables, locals, pc>>

\* A statement is executed and reported so, refused, or executed although its
\* caller is told of an error.  A query answers or fails.
Writes  == {"done"} \cup Failures
Queries == IF Failures = {} THEN {TRUE} ELSE BOOLEAN

Init ==
    /\ organizations = 0
    /\ policies = {}
    /\ users = {}
    /\ invitations = {}
    /\ kind = [p \in Procs |-> IF p \in Servers THEN "boot" ELSE "none"]
    /\ pc = [p \in Procs |-> IF p \in Servers THEN "count" ELSE "idle"]
    /\ email = [p \in Procs |-> IF p \in Servers THEN SuperAdminEmail[p]
                                ELSE CHOOSE e \in Emails : TRUE]
    /\ orgID = [p \in Procs |-> 0]
    /\ token = [p \in Procs |-> p]
    /\ session = [p \in Procs |-> {}]
    /\ overlooked = [s \in Servers |-> {}]

Goto(p, step) == pc' = [pc EXCEPT ![p] = step]

\* How a process ends: a server serves, whatever became of its bootstrap.
Fail(p) == Goto(p, IF p \in Servers THEN "up" ELSE "failed")
Succeed(p) == Goto(p, IF p \in Servers THEN "up" ELSE "ok")

Serving == \E s \in Servers : pc[s] = "up"

-----------------------------------------------------------------------------
(* Requests arrive *)

\* Signup, as far as it goes without the database.
Signup(c, e) ==
    /\ Serving /\ pc[c] = "idle"
    /\ LowerCase[e] \notin Reserved
    /\ kind' = [kind EXCEPT ![c] = "signup"]
    /\ email' = [email EXCEPT ![c] = LowerCase[e]]
    /\ Goto(c, "lookup")
    /\ UNCHANGED <<tables, orgID, token, session, overlooked>>

\* CreateOrganization, for somebody with the session of a super administrator;
\* the address is taken as it is typed.
CreateForOther(c, e) ==
    /\ Serving /\ pc[c] = "idle"
    /\ \E u \in users : u.role = "super_admin"
    /\ kind' = [kind EXCEPT ![c] = "create"]
    /\ email' = [email EXCEPT ![c] = e]
    /\ Goto(c, "org")
    /\ UNCHANGED <<tables, orgID, token, session, overlooked>>

\* CompleteSetup, with the link CreateOrganization mailed and returned.
CompleteSetup(c, t) ==
    /\ Serving /\ pc[c] = "idle"
    /\ kind[t] = "create" /\ pc[t] = "ok"
    /\ kind' = [kind EXCEPT ![c] = "setup"]
    /\ token' = [token EXCEPT ![c] = t]
    /\ Goto(c, "redeem")
    /\ UNCHANGED <<tables, email, orgID, session, overlooked>>

-----------------------------------------------------------------------------
(* Calls to the database *)

\* The starts that counted no user and have not made theirs, or never will.
Bootstrapping == {s \in Servers : pc[s] \in {"org", "policy", "user"}}

\* A count shows none of their accounts, a failed count nobody's.
Overlooking(s, ok) ==
    [overlooked EXCEPT ![s] = IF ok THEN Bootstrapping ELSE Servers \ {s}]

\* Mistake: the start looks for its own super administrator only.
CountUsersMine(s) ==
    /\ pc[s] = "count"
    /\ \E ok \in Queries :
         IF ok /\ \E u \in users : u.email = email[s]
         THEN Goto(s, "up") /\ UNCHANGED overlooked
         ELSE Goto(s, "org") /\ overlooked' = Overlooking(s, ok)
    /\ UNCHANGED <<tables, kind, email, orgID, token, session>>

\* bootstrapSuperAdmin: an error of the count is ignored and reads as 0.
CountUsers(s) ==
    /\ pc[s] = "count"
    /\ \E ok \in Queries :
         IF ok /\ users # {} THEN Goto(s, "up") /\ UNCHANGED overlooked
         ELSE Goto(s, "org") /\ overlooked' = Overlooking(s, ok)
    /\ UNCHANGED <<tables, kind, email, orgID, token, session>>

\* An error of the lookup reads as: no such account.
LookupUser(c) ==
    /\ pc[c] = "lookup"
    /\ \E ok \in Queries :
          IF ok /\ \E u \in users : u.email = email[c]
          THEN Fail(c) ELSE Goto(c, "org")
    /\ UNCHANGED <<tables, locals>>

\* Mistake: the id is read back instead of returned by the insert.
NewOrgIDReadBack == IF organizations = 0 THEN 1 ELSE organizations

NewOrgID == organizations + 1

\* Mistake: the error is not looked at.
CreateOrganizationUnchecked(p) ==
    /\ pc[p] = "org"
    /\ \E w \in Writes :
         /\ organizations' = IF w = "refused" THEN organizations ELSE organizations + 1
         /\ orgID' = IF w = "done" THEN [orgID EXCEPT ![p] = NewOrgID] ELSE orgID
    /\ Goto(p, "policy")
    /\ UNCHANGED <<policies, users, invitations, kind, email, token, session, overlooked>>

CreateOrganization(p) ==
    /\ pc[p] = "org"
    /\ \E w \in Writes :
         /\ organizations' = IF w = "refused" THEN organizations ELSE organizations + 1
         /\ IF w = "done"
            THEN Goto(p, "policy") /\ orgID' = [orgID EXCEPT ![p] = NewOrgID]
            ELSE Fail(p) /\ UNCHANGED orgID
    /\ UNCHANGED <<policies, users, invitations, kind, email, token, session, overlooked>>

\* UpdatePolicy finds no row for an organization this new; its error is logged
\* or ignored.
UpdatePolicy(p) ==
    /\ pc[p] = "policy"
    /\ \E w \in Writes :
          policies' = IF w = "refused" THEN policies ELSE policies \cup {orgID[p]}
    /\ Goto(p, IF kind[p] = "create" THEN "invite" ELSE "user")
    /\ UNCHANGED <<organizations, users, invitations, locals>>

\* Invitation and mail; a mail that cannot be sent is logged, the link is
\* returned in any case.
CreateInvitation(c) ==
    /\ pc[c] = "invite"
    /\ \E w \in Writes :
         /\ invitations' =
              IF w = "refused" THEN invitations
              ELSE invitations \cup {[token |-> token[c], email |-> email[c],
                                      organization_id |-> orgID[c],
                                      expired |-> FALSE, used |-> FALSE]}
         /\ IF w = "done" THEN Succeed(c) ELSE Fail(c)
    /\ UNCHANGED <<organizations, policies, users, locals>>

GetInvitationByToken(c) ==
    /\ pc[c] = "redeem"
    /\ \E ok \in Queries :
         IF ok
         THEN \E i \in invitations :
                /\ i.token = token[c]
                /\ IF i.used \/ i.expired
                   THEN Fail(c) /\ UNCHANGED <<email, orgID>>
                   ELSE /\ Goto(c, "user")
                        /\ email' = [email EXCEPT ![c] = i.email]
                        /\ orgID' = [orgID EXCEPT ![c] = i.organization_id]
         ELSE Fail(c) /\ UNCHANGED <<email, orgID>>
    /\ UNCHANGED <<tables, kind, token, session, overlooked>>

\* Mistake: no unique key.
TakenNever(e) == FALSE

\* The unique key of users.
Taken(e) == \E u \in users : u.email = e

\* The account belongs to whoever chose its password: the process p.
Account(p) == [email |-> email[p], password |-> p,
               role  |-> IF kind[p] = "boot" THEN "super_admin" ELSE "org_admin",
               organization_id |-> orgID[p]]

AfterUser(p) == CASE kind[p] = "signup" -> "session"
                  [] kind[p] = "setup"  -> "mark"
                  [] OTHER              -> "up"

\* Mistake: an account that is there already is replaced.
CreateUserAnew(p) ==
    /\ pc[p] = "user"
    /\ \E w \in Writes :
         /\ users' = IF w = "refused" THEN users
                     ELSE {u \in users : u.email # email[p]} \cup {Account(p)}
         /\ IF w = "done" THEN Goto(p, AfterUser(p)) ELSE Fail(p)
    /\ UNCHANGED <<organizations, policies, invitations, locals>>

\* Mistake: an invitation is marked before the account is made.
CreateUserLast(p) ==
    /\ pc[p] = "user"
    /\ \E w \in Writes :
         /\ users' = IF w = "refused" \/ Taken(email[p]) THEN users
                     ELSE users \cup {Account(p)}
         /\ IF w = "done" /\ ~Taken(email[p]) THEN Goto(p, AfterUser(p)) ELSE Fail(p)
    /\ invitations' = IF kind[p] # "setup" THEN invitations
                      ELSE {IF i.token = token[p] THEN [i EXCEPT !.used = TRUE] ELSE i :
                              i \in invitations}
    /\ UNCHANGED <<organizations, policies, locals>>

CreateUser(p) ==
    /\ pc[p] = "user"
    /\ \E w \in Writes :
         /\ users' = IF w = "refused" \/ Taken(email[p]) THEN users
                     ELSE users \cup {Account(p)}
         /\ IF w = "done" /\ ~Taken(email[p]) THEN Goto(p, AfterUser(p)) ELSE Fail(p)
    /\ UNCHANGED <<organizations, policies, invitations, locals>>

\* Signup reads the account back and signs a session token for what it finds.
ReadAccount(c) ==
    /\ pc[c] = "session"
    /\ \E ok \in Queries :
         IF ok
         THEN \E u \in {v \in users : v.email = email[c]} :
                session' = [session EXCEPT ![c] = {u}] /\ Succeed(c)
         ELSE Fail(c) /\ UNCHANGED session
    /\ UNCHANGED <<tables, kind, email, orgID, token, overlooked>>

\* An error is not looked at.
MarkInvitationUsed(c) ==
    /\ pc[c] = "mark"
    /\ \E w \in Writes :
         invitations' = IF w = "refused" THEN invitations
                        ELSE {IF i.token = token[c] THEN [i EXCEPT !.used = TRUE] ELSE i :
                                i \in invitations}
    /\ Succeed(c)
    /\ UNCHANGED <<organizations, policies, users, locals>>

-----------------------------------------------------------------------------
(* Time *)

\* 48 hours are over.
Expire(i) ==
    /\ ~i.expired
    /\ invitations' = (invitations \ {i}) \cup {[i EXCEPT !.expired = TRUE]}
    /\ UNCHANGED <<organizations, policies, users, locals, pc>>

Next ==
    \/ \E c \in Calls, e \in Emails : Signup(c, e) \/ CreateForOther(c, e)
    \/ \E c \in Calls, t \in Calls : CompleteSetup(c, t)
    \/ \E s \in Servers : CountUsers(s)
    \/ \E p \in Procs : CreateOrganization(p) \/ UpdatePolicy(p) \/ CreateUser(p)
    \/ \E c \in Calls : \/ LookupUser(c)
                        \/ CreateInvitation(c)
                        \/ GetInvitationByToken(c)
                        \/ ReadAccount(c)
                        \/ MarkInvitationUsed(c)
    \/ \E i \in invitations : Expire(i)

Spec == Init /\ [][Next]_vars

-----------------------------------------------------------------------------
(* Properties *)

UserRow == [email : Emails, password : Procs, role : {"super_admin", "org_admin"},
            organization_id : 1 .. organizations]

InvitationRow == [token : Calls, email : Emails, organization_id : 1 .. organizations,
                  expired : BOOLEAN, used : BOOLEAN]

Steps == {"idle", "count", "lookup", "org", "policy", "invite", "redeem",
          "user", "session", "mark", "up", "ok", "failed"}

\* Every variable has its type; in particular every account, policy and
\* invitation belongs to an organization there is.
TypeOK ==
    /\ organizations \in Nat
    /\ policies \subseteq 1 .. organizations
    /\ users \subseteq UserRow
    /\ invitations \subseteq InvitationRow
    /\ kind \in [Procs -> {"none", "boot", "signup", "create", "setup"}]
    /\ pc \in [Procs -> Steps]
    /\ email \in [Procs -> Emails]
    /\ orgID \in [Procs -> 0 .. organizations]
    /\ token \in [Procs -> Procs]
    /\ session \in [Procs -> SUBSET UserRow]
    /\ overlooked \in [Servers -> SUBSET Servers]

\* Whoever was told that an account was made has it, for good: it opens with
\* the password of that very call and administers the organization that call
\* created or was invited to.  Signup and CompleteSetup look first and create
\* later, so calls for one address or one invitation race (signup.go:83-108,
\* public.go:62-79); those that lose are told so.
AcknowledgedAccountIsMine ==
    \A c \in Calls : kind[c] \in {"signup", "setup"} /\ pc[c] = "ok" =>
        Account(c) \in users

\* The session token of a signup is for the account that signup made
\* (signup.go:114-119 reads it back by address).
SessionIsMyOwn ==
    \A c \in Calls : \A u \in session[c] : u = Account(c)

\* An organization has one account at the most: however signups, invitations
\* and bootstraps fail and start over, nobody gets into another's.
OneAccountPerOrganization ==
    \A u, v \in users : u.organization_id = v.organization_id => u = v

\* Starts find different addresses in their environments (postgres.go:207), so
\* the unique key does not keep them apart: the count does (postgres.go:200-205).
\* Two super administrators come of two starts of which one counted while the
\* other was between its count and its account, or whose count failed; never of
\* a start that counted after the other was done.
SecondSuperAdminWasOverlooked ==
    \A u, v \in users : u.role = "super_admin" /\ v.role = "super_admin" /\ u # v =>
        \/ u.password \in overlooked[v.password]
        \/ v.password \in overlooked[u.password]

\* An invitation is never spent without the account it was for: while it says
\* "used", the invited address has an account in that organization
\* (public.go:76-82).
SpentInvitationMadeAccount ==
    \A i \in invitations : i.used =>
        \E u \in users : u.email = i.email /\ u.organization_id = i.organization_id
=============================================================================
