--------------------------- MODULE Accounts_proofs ---------------------------
(***************************************************************************)
(* Theorems about Accounts for any number of servers, calls and addresses, *)
(* whatever calls to the database fail.                                    *)
(*                                                                         *)
(* The argument: an id of an organization is drawn by one process          *)
(* (OwnInv), an invitation speaks for the process that drew it (LinkInv),  *)
(* an account has the address and the organization of such a process       *)
(* (UserInv), and addresses are unique (KeyInv).  A start that counted no  *)
(* user is overlooked by, or overlooks, every other such start (CountInv). *)
(***************************************************************************)
EXTENDS Accounts, TLAPS

\* What a process has done so far shows in its state.
ProcInv ==
    \A p \in Procs :
      /\ p \in Servers <=> kind[p] = "boot"
      /\ pc[p] = "idle" <=> kind[p] = "none"
      /\ pc[p] \in {"lookup", "session"} => kind[p] = "signup"
      /\ pc[p] = "invite" => kind[p] = "create"
      /\ pc[p] \in {"redeem", "mark"} => kind[p] = "setup"
      /\ pc[p] \in {"count", "up"} => kind[p] = "boot"
      /\ pc[p] \in {"org", "policy"} => kind[p] \in {"boot", "signup", "create"}
      /\ pc[p] = "user" => kind[p] \in {"boot", "signup", "setup"}
      /\ pc[p] \in {"ok", "failed"} => kind[p] # "boot"
      /\ pc[p] \in {"idle", "count", "lookup", "org", "redeem"} => orgID[p] = 0
      /\ pc[p] \in {"policy", "invite", "user", "session", "mark"} => orgID[p] # 0
      /\ kind[p] # "setup" => token[p] = p
      /\ pc[p] # "ok" => session[p] = {}

\* A process that draws its own organization, and has drawn it.
Drew(p) == kind[p] # "setup" /\ orgID[p] # 0

OwnInv == \A p, q \in Procs : Drew(p) /\ Drew(q) /\ orgID[p] = orgID[q] => p = q

\* An invitation, and whoever redeems it, speaks for the call that made it.
LinkInv ==
    /\ \A i \in invitations :
         /\ Drew(i.token)
         /\ email[i.token] = i.email /\ orgID[i.token] = i.organization_id
    /\ \A p \in Procs : kind[p] = "setup" /\ orgID[p] # 0 =>
         /\ Drew(token[p])
         /\ email[token[p]] = email[p] /\ orgID[token[p]] = orgID[p]

KeyInv == \A u, v \in users : u.email = v.email => u = v

UserInv == \A u \in users :
    \E p \in Procs : Drew(p) /\ email[p] = u.email /\ orgID[p] = u.organization_id

\* A start that may make a super administrator, or has made one.
Booted(s) == \/ s \in Bootstrapping
             \/ \E u \in users : u.role = "super_admin" /\ u.password = s

\* The later of two counts overlooked the earlier start.
Known(s, t) == s \in overlooked[t] \/ t \in overlooked[s]

CountInv == \A s, t \in Servers : s # t /\ Booted(s) /\ Booted(t) => Known(s, t)

\* A super administrator is the account of a start that is through with it.
MadeBy(u) == /\ u.password \in Servers /\ pc[u.password] = "up"
             /\ u = Account(u.password)

BootInv == \A u \in users : u.role = "super_admin" => MadeBy(u)

MineInv ==
    \A p \in Procs :
        \/ pc[p] \in {"session", "mark"}
        \/ pc[p] = "ok" /\ kind[p] \in {"signup", "setup"}
        => Account(p) \in users

IInv == /\ TypeOK /\ ProcInv /\ OwnInv /\ LinkInv /\ KeyInv /\ UserInv /\ MineInv
        /\ SessionIsMyOwn /\ SpentInvitationMadeAccount /\ CountInv /\ BootInv

USE AccountsAssumption DEF Procs

-----------------------------------------------------------------------------
(* Types *)

\* A row with another flag is still a row.
LEMMA FlagsAreTyped ==
  ASSUME NEW i \in InvitationRow
  PROVE  /\ [i EXCEPT !.used = TRUE] \in InvitationRow
         /\ [i EXCEPT !.expired = TRUE] \in InvitationRow
  BY DEF InvitationRow

\* Every step keeps the types.
LEMMA TypeStep ==
  ASSUME TypeOK, ProcInv, LinkInv, Next
  PROVE  TypeOK'
<1>1. ASSUME NEW c \in Calls, NEW e \in Emails, Signup(c, e)
      PROVE  TypeOK'
  <2>1. /\ pc' \in [Procs -> Steps]
        /\ kind' \in [Procs -> {"none", "boot", "signup", "create", "setup"}]
        /\ email' \in [Procs -> Emails]
    BY <1>1 DEF Signup, TypeOK, Steps, Goto
  <2> QED
    BY <1>1, <2>1 DEF Signup, TypeOK, UserRow, InvitationRow, tables
<1>2. ASSUME NEW c \in Calls, NEW e \in Emails, CreateForOther(c, e)
      PROVE  TypeOK'
  BY <1>2 DEF CreateForOther, TypeOK, Steps, UserRow, InvitationRow, ProcInv, Account,
    AfterUser, tables, locals, Goto, Fail, Succeed
<1>3. ASSUME NEW c \in Calls, NEW t \in Calls, CompleteSetup(c, t)
      PROVE  TypeOK'
  BY <1>3 DEF CompleteSetup, TypeOK, Steps, UserRow, InvitationRow, ProcInv, Account,
    AfterUser, tables, locals, Goto, Fail, Succeed
<1>4. ASSUME NEW s \in Servers, CountUsers(s)
      PROVE  TypeOK'
  <2>1. pc' \in [Procs -> Steps]
    BY <1>4 DEF CountUsers, TypeOK, Steps, Goto
  <2>2. overlooked' \in [Servers -> SUBSET Servers]
    <3>1. \A ok \in BOOLEAN : Overlooking(s, ok) \in [Servers -> SUBSET Servers]
      BY DEF Overlooking, Bootstrapping, TypeOK
    <3> QED
      BY <1>4, <3>1 DEF CountUsers, Queries, TypeOK
  <2> QED
    BY <1>4, <2>1, <2>2 DEF CountUsers, TypeOK, UserRow, InvitationRow, tables
<1>5. ASSUME NEW p \in Procs, CreateOrganization(p)
      PROVE  TypeOK'
  BY <1>5 DEF CreateOrganization, NewOrgID, TypeOK, Steps, UserRow, InvitationRow,
    ProcInv, Account, AfterUser, tables, locals, Goto, Fail, Succeed
<1>6. ASSUME NEW p \in Procs, UpdatePolicy(p)
      PROVE  TypeOK'
  <2>1. orgID[p] \in 1 .. organizations
    BY <1>6 DEF UpdatePolicy, TypeOK, ProcInv
  <2>2. policies' \subseteq 1 .. organizations
    BY <1>6, <2>1 DEF UpdatePolicy, TypeOK
  <2> QED
    BY <1>6, <2>2 DEF UpdatePolicy, TypeOK, Steps, UserRow, InvitationRow, locals, Goto
<1>7. ASSUME NEW p \in Procs, CreateUser(p)
      PROVE  TypeOK'
  BY <1>7 DEF CreateUser, TypeOK, Steps, UserRow, InvitationRow, ProcInv, Account,
    AfterUser, tables, locals, Goto, Fail, Succeed
<1>8. ASSUME NEW c \in Calls, CreateInvitation(c)
      PROVE  TypeOK'
  <2>1. /\ orgID[c] \in 1 .. organizations
        /\ token[c] \in Calls /\ email[c] \in Emails
    BY <1>8 DEF CreateInvitation, TypeOK, ProcInv
  <2>2. [token |-> token[c], email |-> email[c], organization_id |-> orgID[c],
         expired |-> FALSE, used |-> FALSE] \in InvitationRow
    BY <2>1 DEF InvitationRow
  <2>3. invitations' \subseteq InvitationRow
    BY <1>8, <2>2 DEF CreateInvitation, TypeOK
  <2>4. pc' \in [Procs -> Steps]
    BY <1>8 DEF CreateInvitation, TypeOK, Steps, Goto, Succeed, Fail
  <2> QED
    BY <1>8, <2>3, <2>4 DEF CreateInvitation, TypeOK, UserRow, InvitationRow, locals
<1>9. ASSUME NEW c \in Calls, GetInvitationByToken(c)
      PROVE  TypeOK'
  <2>1. UNCHANGED <<organizations, policies, users, invitations, kind, token, session,
                    overlooked>>
    BY <1>9 DEF GetInvitationByToken, tables
  <2>2. pc' \in [Procs -> Steps]
    BY <1>9 DEF GetInvitationByToken, TypeOK, Steps, Goto, Fail
  <2>3. \A i \in invitations : i.email \in Emails /\ i.organization_id \in 0 .. organizations
    BY DEF TypeOK, InvitationRow
  <2>4. email' \in [Procs -> Emails] /\ orgID' \in [Procs -> 0 .. organizations]
    BY <1>9, <2>3 DEF GetInvitationByToken, TypeOK
  <2> QED
    BY <2>1, <2>2, <2>4 DEF TypeOK, UserRow, InvitationRow
<1>10. ASSUME NEW c \in Calls, ReadAccount(c)
      PROVE  TypeOK'
  <2>1. UNCHANGED <<organizations, policies, users, invitations, kind, email, orgID, token,
                    overlooked>>
    BY <1>10 DEF ReadAccount, tables
  <2>2. pc' \in [Procs -> Steps]
    BY <1>10 DEF ReadAccount, TypeOK, Steps, Goto, Fail, Succeed
  <2>3. session' \in [Procs -> SUBSET UserRow]
    BY <1>10 DEF ReadAccount, TypeOK
  <2> QED
    BY <2>1, <2>2, <2>3 DEF TypeOK, UserRow, InvitationRow
<1>11. ASSUME NEW c \in Calls, MarkInvitationUsed(c)
      PROVE  TypeOK'
  <2>1. \A i \in invitations : [i EXCEPT !.used = TRUE] \in InvitationRow
    BY FlagsAreTyped DEF TypeOK
  <2>2. invitations' \subseteq InvitationRow
    BY <1>11, <2>1 DEF MarkInvitationUsed, TypeOK
  <2>3. pc' \in [Procs -> Steps]
    BY <1>11 DEF MarkInvitationUsed, TypeOK, Steps, Goto, Succeed
  <2> QED
    BY <1>11, <2>2, <2>3 DEF MarkInvitationUsed, TypeOK, UserRow, InvitationRow, locals
<1>12. ASSUME NEW c \in Calls, LookupUser(c)
      PROVE  TypeOK'
  BY <1>12 DEF LookupUser, TypeOK, Steps, UserRow, InvitationRow, ProcInv, Account,
    AfterUser, tables, locals, Goto, Fail, Succeed
<1>13. ASSUME NEW i \in invitations, Expire(i)
      PROVE  TypeOK'
  <2>1. invitations' \subseteq InvitationRow
    BY <1>13, FlagsAreTyped DEF Expire, TypeOK
  <2> QED
    BY <1>13, <2>1 DEF Expire, TypeOK, UserRow, InvitationRow, locals
<1> QED
  BY <1>1, <1>2, <1>3, <1>4, <1>5, <1>6, <1>7, <1>8, <1>9, <1>10, <1>11, <1>12,
     <1>13 DEF Next

-----------------------------------------------------------------------------
(* Processes and organizations *)

\* Every step takes its process from one of its states to the next.
LEMMA ProcStep ==
  ASSUME TypeOK, ProcInv, LinkInv, Next
  PROVE  ProcInv'
<1>1. ASSUME NEW c \in Calls, NEW e \in Emails, Signup(c, e)
      PROVE  ProcInv'
  BY <1>1 DEF Signup, TypeOK, ProcInv, LinkInv, Drew, Steps, Account, AfterUser,
    tables, locals, Goto, Fail, Succeed
<1>2. ASSUME NEW c \in Calls, NEW e \in Emails, CreateForOther(c, e)
      PROVE  ProcInv'
  BY <1>2 DEF CreateForOther, TypeOK, ProcInv, LinkInv, Drew, Steps, Account,
    AfterUser, tables, locals, Goto, Fail, Succeed
<1>3. ASSUME NEW c \in Calls, NEW t \in Calls, CompleteSetup(c, t)
      PROVE  ProcInv'
  BY <1>3 DEF CompleteSetup, TypeOK, ProcInv, LinkInv, Drew, Steps, Account,
    AfterUser, tables, locals, Goto, Fail, Succeed
<1>4. ASSUME NEW s \in Servers, CountUsers(s)
      PROVE  ProcInv'
  BY <1>4 DEF CountUsers, TypeOK, ProcInv, LinkInv, Drew, Steps, Account, AfterUser,
    tables, locals, Goto, Fail, Succeed
<1>5. ASSUME NEW p \in Procs, CreateOrganization(p)
      PROVE  ProcInv'
  BY <1>5 DEF CreateOrganization, NewOrgID, TypeOK, ProcInv, LinkInv, Drew, Steps,
    Account, AfterUser, tables, locals, Goto, Fail, Succeed
<1>6. ASSUME NEW p \in Procs, UpdatePolicy(p)
      PROVE  ProcInv'
  BY <1>6 DEF UpdatePolicy, TypeOK, ProcInv, LinkInv, Drew, Steps, Account, AfterUser,
    tables, locals, Goto, Fail, Succeed
<1>7. ASSUME NEW p \in Procs, CreateUser(p)
      PROVE  ProcInv'
  BY <1>7 DEF CreateUser, TypeOK, ProcInv, LinkInv, Drew, Steps, Account, AfterUser,
    tables, locals, Goto, Fail, Succeed
<1>8. ASSUME NEW c \in Calls, LookupUser(c)
      PROVE  ProcInv'
  BY <1>8 DEF LookupUser, TypeOK, ProcInv, LinkInv, Drew, Steps, Account, AfterUser,
    tables, locals, Goto, Fail, Succeed
<1>9. ASSUME NEW c \in Calls, CreateInvitation(c)
      PROVE  ProcInv'
  BY <1>9 DEF CreateInvitation, TypeOK, ProcInv, LinkInv, Drew, Steps, Account,
    AfterUser, tables, locals, Goto, Fail, Succeed
<1>10. ASSUME NEW c \in Calls, GetInvitationByToken(c)
      PROVE  ProcInv'
  BY <1>10 DEF GetInvitationByToken, TypeOK, ProcInv, LinkInv, Drew, Steps, Account,
    AfterUser, tables, locals, Goto, Fail, Succeed
<1>11. ASSUME NEW c \in Calls, ReadAccount(c)
      PROVE  ProcInv'
  BY <1>11 DEF ReadAccount, TypeOK, ProcInv, LinkInv, Drew, Steps, Account, AfterUser,
    tables, locals, Goto, Fail, Succeed
<1>12. ASSUME NEW c \in Calls, MarkInvitationUsed(c)
      PROVE  ProcInv'
  BY <1>12 DEF MarkInvitationUsed, TypeOK, ProcInv, LinkInv, Drew, Steps, Account,
    AfterUser, tables, locals, Goto, Fail, Succeed
<1>13. ASSUME NEW i \in invitations, Expire(i)
      PROVE  ProcInv'
  BY <1>13 DEF Expire, TypeOK, ProcInv, LinkInv, Drew, Steps, Account, AfterUser,
    tables, locals, Goto, Fail, Succeed
<1> QED
  BY <1>1, <1>2, <1>3, <1>4, <1>5, <1>6, <1>7, <1>8, <1>9, <1>10, <1>11, <1>12,
     <1>13 DEF Next

\* What p works for is settled.
Kept(p) == /\ kind'[p] = kind[p] /\ email'[p] = email[p]
           /\ orgID'[p] = orgID[p] /\ token'[p] = token[p]

\* A process that drew its organization keeps it, and its address.
LEMMA DrawnStays ==
  ASSUME TypeOK, ProcInv, Next
  PROVE  \A q \in Procs : Drew(q) => Kept(q)
<1>1. ASSUME NEW c \in Calls, NEW e \in Emails, Signup(c, e) \/ CreateForOther(c, e)
      PROVE  \A q \in Procs : Drew(q) => Kept(q)
  BY <1>1 DEF Signup, CreateForOther, Kept, TypeOK, ProcInv, Drew, tables, locals
<1>2. ASSUME NEW c \in Calls, NEW t \in Calls, CompleteSetup(c, t)
      PROVE  \A q \in Procs : Drew(q) => Kept(q)
  BY <1>2 DEF CompleteSetup, Kept, TypeOK, ProcInv, Drew, tables, locals
<1>3. ASSUME NEW s \in Servers, CountUsers(s)
      PROVE  \A q \in Procs : Drew(q) => Kept(q)
  BY <1>3 DEF CountUsers, Kept, TypeOK, ProcInv, Drew, tables, locals
<1>4. ASSUME NEW p \in Procs, CreateOrganization(p)
      PROVE  \A q \in Procs : Drew(q) => Kept(q)
  BY <1>4 DEF CreateOrganization, NewOrgID, Kept, TypeOK, ProcInv, Drew, tables,
    locals
<1>5. ASSUME NEW p \in Procs, UpdatePolicy(p) \/ CreateUser(p)
      PROVE  \A q \in Procs : Drew(q) => Kept(q)
  BY <1>5 DEF UpdatePolicy, CreateUser, Kept, TypeOK, ProcInv, Drew, tables, locals
<1>6. ASSUME NEW c \in Calls, GetInvitationByToken(c)
      PROVE  \A q \in Procs : Drew(q) => Kept(q)
  BY <1>6 DEF GetInvitationByToken, Kept, TypeOK, ProcInv, Drew, tables, locals
<1>7. ASSUME NEW c \in Calls, LookupUser(c) \/ CreateInvitation(c) \/ ReadAccount(c)
            \/ MarkInvitationUsed(c)
      PROVE  \A q \in Procs : Drew(q) => Kept(q)
  BY <1>7 DEF LookupUser, CreateInvitation, ReadAccount, MarkInvitationUsed, Kept,
    TypeOK, ProcInv, Drew, tables, locals
<1>8. ASSUME NEW i \in invitations, Expire(i)
      PROVE  \A q \in Procs : Drew(q) => Kept(q)
  BY <1>8 DEF Expire, Kept, TypeOK, ProcInv, Drew, tables, locals
<1> QED
  BY <1>1, <1>2, <1>3, <1>4, <1>5, <1>6, <1>7, <1>8 DEF Next

\* A new id differs from all that were drawn.
LEMMA OwnStep ==
  ASSUME TypeOK, ProcInv, OwnInv, Next
  PROVE  OwnInv'
<1>1. ASSUME NEW c \in Calls, NEW e \in Emails, Signup(c, e) \/ CreateForOther(c, e)
      PROVE  OwnInv'
  BY <1>1 DEF Signup, CreateForOther, OwnInv, TypeOK, ProcInv, Drew, tables, locals
<1>2. ASSUME NEW c \in Calls, NEW t \in Calls, CompleteSetup(c, t)
      PROVE  OwnInv'
  BY <1>2 DEF CompleteSetup, OwnInv, TypeOK, ProcInv, Drew, tables, locals
<1>3. ASSUME NEW s \in Servers, CountUsers(s)
      PROVE  OwnInv'
  BY <1>3 DEF CountUsers, OwnInv, TypeOK, ProcInv, Drew, tables, locals
<1>4. ASSUME NEW p \in Procs, CreateOrganization(p)
      PROVE  OwnInv'
  BY <1>4 DEF CreateOrganization, NewOrgID, OwnInv, TypeOK, ProcInv, Drew, tables,
    locals
<1>5. ASSUME NEW p \in Procs, UpdatePolicy(p) \/ CreateUser(p)
      PROVE  OwnInv'
  BY <1>5 DEF UpdatePolicy, CreateUser, OwnInv, TypeOK, ProcInv, Drew, tables, locals
<1>6. ASSUME NEW c \in Calls, GetInvitationByToken(c)
      PROVE  OwnInv'
  BY <1>6 DEF GetInvitationByToken, OwnInv, TypeOK, ProcInv, Drew, tables, locals
<1>7. ASSUME NEW c \in Calls, LookupUser(c) \/ CreateInvitation(c) \/ ReadAccount(c)
            \/ MarkInvitationUsed(c)
      PROVE  OwnInv'
  BY <1>7 DEF LookupUser, CreateInvitation, ReadAccount, MarkInvitationUsed, OwnInv,
    TypeOK, ProcInv, Drew, tables, locals
<1>8. ASSUME NEW i \in invitations, Expire(i)
      PROVE  OwnInv'
  BY <1>8 DEF Expire, OwnInv, TypeOK, ProcInv, Drew, tables, locals
<1> QED
  BY <1>1, <1>2, <1>3, <1>4, <1>5, <1>6, <1>7, <1>8 DEF Next

\* Links are made to processes that keep what they drew.
LEMMA LinkStep ==
  ASSUME TypeOK, ProcInv, LinkInv, Next
  PROVE  LinkInv'
<1> USE DrawnStays
<1>1. ASSUME NEW c \in Calls, NEW e \in Emails, Signup(c, e) \/ CreateForOther(c, e)
      PROVE  LinkInv'
  BY <1>1 DEF Signup, CreateForOther, Kept, LinkInv, TypeOK, ProcInv, InvitationRow,
    Drew, tables, locals
<1>2. ASSUME NEW c \in Calls, NEW t \in Calls, CompleteSetup(c, t)
      PROVE  LinkInv'
  BY <1>2 DEF CompleteSetup, Kept, LinkInv, TypeOK, ProcInv, InvitationRow, Drew,
    tables, locals
<1>3. ASSUME NEW s \in Servers, CountUsers(s)
      PROVE  LinkInv'
  BY <1>3 DEF CountUsers, Kept, LinkInv, TypeOK, ProcInv, InvitationRow, Drew, tables,
    locals
<1>4. ASSUME NEW p \in Procs, CreateOrganization(p)
      PROVE  LinkInv'
  BY <1>4 DEF CreateOrganization, NewOrgID, Kept, LinkInv, TypeOK, ProcInv,
    InvitationRow, Drew, tables, locals
<1>5. ASSUME NEW p \in Procs, UpdatePolicy(p)
      PROVE  LinkInv'
  BY <1>5 DEF UpdatePolicy, Kept, LinkInv, TypeOK, ProcInv, InvitationRow, Drew,
    tables, locals
<1>6. ASSUME NEW p \in Procs, CreateUser(p)
      PROVE  LinkInv'
  BY <1>6 DEF CreateUser, Kept, LinkInv, TypeOK, ProcInv, InvitationRow, Drew, tables,
    locals
<1>7. ASSUME NEW c \in Calls, CreateInvitation(c)
      PROVE  LinkInv'
  BY <1>7 DEF CreateInvitation, Kept, LinkInv, TypeOK, ProcInv, InvitationRow, Drew,
    tables, locals
<1>8. ASSUME NEW c \in Calls, GetInvitationByToken(c)
      PROVE  LinkInv'
  BY <1>8 DEF GetInvitationByToken, Kept, LinkInv, TypeOK, ProcInv, InvitationRow,
    Drew, tables, locals
<1>9. ASSUME NEW c \in Calls, MarkInvitationUsed(c)
      PROVE  LinkInv'
  BY <1>9 DEF MarkInvitationUsed, Kept, LinkInv, TypeOK, ProcInv, InvitationRow, Drew,
    tables, locals
<1>10. ASSUME NEW c \in Calls, LookupUser(c) \/ ReadAccount(c)
      PROVE  LinkInv'
  BY <1>10 DEF LookupUser, ReadAccount, Kept, LinkInv, TypeOK, ProcInv, InvitationRow,
    Drew, tables, locals
<1>11. ASSUME NEW i \in invitations, Expire(i)
      PROVE  LinkInv'
  BY <1>11 DEF Expire, Kept, LinkInv, TypeOK, ProcInv, InvitationRow, Drew, tables,
    locals
<1> QED
  BY <1>1, <1>2, <1>3, <1>4, <1>5, <1>6, <1>7, <1>8, <1>9, <1>10, <1>11 DEF Next

-----------------------------------------------------------------------------
(* Accounts *)

\* The rows of users change in one way only.
LEMMA NewUser ==
  ASSUME TypeOK, ProcInv, Next
  PROVE  \/ users' = users
         \/ \E q \in Procs : /\ pc[q] = "user" /\ ~Taken(email[q])
                            /\ users' = users \cup {Account(q)}
                            /\ UNCHANGED locals
<1>1. ASSUME NEW c \in Calls, NEW e \in Emails, Signup(c, e) \/ CreateForOther(c, e)
      PROVE  \/ users' = users
         \/ \E q \in Procs : /\ pc[q] = "user" /\ ~Taken(email[q])
                            /\ users' = users \cup {Account(q)}
                            /\ UNCHANGED locals
  BY <1>1 DEF Signup, CreateForOther, tables, locals
<1>2. ASSUME NEW c \in Calls, NEW t \in Calls, CompleteSetup(c, t)
      PROVE  \/ users' = users
         \/ \E q \in Procs : /\ pc[q] = "user" /\ ~Taken(email[q])
                            /\ users' = users \cup {Account(q)}
                            /\ UNCHANGED locals
  BY <1>2 DEF CompleteSetup, tables, locals
<1>3. ASSUME NEW s \in Servers, CountUsers(s)
      PROVE  \/ users' = users
         \/ \E q \in Procs : /\ pc[q] = "user" /\ ~Taken(email[q])
                            /\ users' = users \cup {Account(q)}
                            /\ UNCHANGED locals
  BY <1>3 DEF CountUsers, tables, locals
<1>4. ASSUME NEW p \in Procs, CreateUser(p)
      PROVE  \/ users' = users
         \/ \E q \in Procs : /\ pc[q] = "user" /\ ~Taken(email[q])
                            /\ users' = users \cup {Account(q)}
                            /\ UNCHANGED locals
  BY <1>4 DEF CreateUser, tables, locals
<1>5. ASSUME NEW p \in Procs, CreateOrganization(p) \/ UpdatePolicy(p)
      PROVE  \/ users' = users
         \/ \E q \in Procs : /\ pc[q] = "user" /\ ~Taken(email[q])
                            /\ users' = users \cup {Account(q)}
                            /\ UNCHANGED locals
  BY <1>5 DEF CreateOrganization, NewOrgID, UpdatePolicy, tables, locals
<1>6. ASSUME NEW c \in Calls, LookupUser(c) \/ CreateInvitation(c) \/
            GetInvitationByToken(c) \/ ReadAccount(c) \/ MarkInvitationUsed(c)
      PROVE  \/ users' = users
         \/ \E q \in Procs : /\ pc[q] = "user" /\ ~Taken(email[q])
                            /\ users' = users \cup {Account(q)}
                            /\ UNCHANGED locals
  BY <1>6 DEF LookupUser, CreateInvitation, GetInvitationByToken, ReadAccount,
    MarkInvitationUsed, tables, locals
<1>7. ASSUME NEW i \in invitations, Expire(i)
      PROVE  \/ users' = users
         \/ \E q \in Procs : /\ pc[q] = "user" /\ ~Taken(email[q])
                            /\ users' = users \cup {Account(q)}
                            /\ UNCHANGED locals
  BY <1>7 DEF Expire, tables, locals
<1> QED
  BY <1>1, <1>2, <1>3, <1>4, <1>5, <1>6, <1>7 DEF Next

\* No second account gets an address.
LEMMA KeyStep ==
  ASSUME TypeOK, ProcInv, KeyInv, Next
  PROVE  KeyInv'
BY NewUser DEF KeyInv, Taken, Account

\* An account has the address and organization of a process that drew it.
LEMMA UserStep ==
  ASSUME TypeOK, ProcInv, LinkInv, UserInv, Next
  PROVE  UserInv'
<1>1. \A p \in Procs : Drew(p) => Drew(p)' /\ Kept(p)
  BY DrawnStays DEF Kept, Drew
<1>2. ASSUME NEW u \in users
      PROVE  \E p \in Procs : /\ Drew(p)' /\ email'[p] = u.email
                              /\ orgID'[p] = u.organization_id
  BY <1>1 DEF UserInv, Kept
<1>3. ASSUME NEW q \in Procs, pc[q] = "user", UNCHANGED locals
      PROVE  \E p \in Procs : /\ Drew(p)' /\ email'[p] = Account(q).email
                              /\ orgID'[p] = Account(q).organization_id
  <2>1. CASE kind[q] # "setup"
    BY <1>3, <2>1 DEF ProcInv, Drew, Account, locals
  <2>2. CASE kind[q] = "setup"
    <3>1. orgID[q] # 0
      BY <1>3 DEF ProcInv
    <3>2. token[q] \in Procs
      BY DEF TypeOK
    <3>3. /\ Drew(token[q])
          /\ email[token[q]] = email[q] /\ orgID[token[q]] = orgID[q]
      BY <2>2, <3>1 DEF LinkInv
    <3> QED
      BY <1>3, <2>2, <3>2, <3>3 DEF Drew, Account, locals
  <2> QED
    BY <2>1, <2>2
<1> QED
  BY <1>2, <1>3, NewUser DEF UserInv

\* Nobody takes an account away from the process that made it.
LEMMA MineStep ==
  ASSUME TypeOK, ProcInv, MineInv, Next
  PROVE  MineInv'
<1>1. ASSUME NEW c \in Calls, NEW e \in Emails, Signup(c, e) \/ CreateForOther(c, e)
      PROVE  MineInv'
  BY <1>1 DEF Signup, CreateForOther, MineInv, Account, TypeOK, ProcInv, tables,
    locals, Goto, Fail, Succeed, AfterUser
<1>2. ASSUME NEW c \in Calls, NEW t \in Calls, CompleteSetup(c, t)
      PROVE  MineInv'
  BY <1>2 DEF CompleteSetup, MineInv, Account, TypeOK, ProcInv, tables, locals, Goto,
    Fail, Succeed, AfterUser
<1>3. ASSUME NEW s \in Servers, CountUsers(s)
      PROVE  MineInv'
  BY <1>3 DEF CountUsers, MineInv, Account, TypeOK, ProcInv, tables, locals, Goto,
    Fail, Succeed, AfterUser
<1>4. ASSUME NEW p \in Procs, CreateOrganization(p)
      PROVE  MineInv'
  BY <1>4 DEF CreateOrganization, NewOrgID, MineInv, Account, TypeOK, ProcInv, tables,
    locals, Goto, Fail, Succeed, AfterUser
<1>5. ASSUME NEW p \in Procs, UpdatePolicy(p)
      PROVE  MineInv'
  BY <1>5 DEF UpdatePolicy, MineInv, Account, TypeOK, ProcInv, tables, locals, Goto,
    Fail, Succeed, AfterUser
<1>6. ASSUME NEW p \in Procs, CreateUser(p)
      PROVE  MineInv'
  BY <1>6 DEF CreateUser, MineInv, Account, TypeOK, ProcInv, tables, locals, Goto,
    Fail, Succeed, AfterUser
<1>7. ASSUME NEW c \in Calls, LookupUser(c)
      PROVE  MineInv'
  BY <1>7 DEF LookupUser, MineInv, Account, TypeOK, ProcInv, tables, locals, Goto,
    Fail, Succeed, AfterUser
<1>8. ASSUME NEW c \in Calls, CreateInvitation(c)
      PROVE  MineInv'
  BY <1>8 DEF CreateInvitation, MineInv, Account, TypeOK, ProcInv, tables, locals,
    Goto, Fail, Succeed, AfterUser
<1>9. ASSUME NEW c \in Calls, GetInvitationByToken(c)
      PROVE  MineInv'
  BY <1>9 DEF GetInvitationByToken, MineInv, Account, TypeOK, ProcInv, tables, locals,
    Goto, Fail, Succeed, AfterUser
<1>10. ASSUME NEW c \in Calls, ReadAccount(c)
      PROVE  MineInv'
  BY <1>10 DEF ReadAccount, MineInv, Account, TypeOK, ProcInv, tables, locals, Goto,
    Fail, Succeed, AfterUser
<1>11. ASSUME NEW c \in Calls, MarkInvitationUsed(c)
      PROVE  MineInv'
  BY <1>11 DEF MarkInvitationUsed, MineInv, Account, TypeOK, ProcInv, tables, locals,
    Goto, Fail, Succeed, AfterUser
<1>12. ASSUME NEW i \in invitations, Expire(i)
      PROVE  MineInv'
  BY <1>12 DEF Expire, MineInv, Account, TypeOK, ProcInv, tables, locals, Goto, Fail,
    Succeed, AfterUser
<1> QED
  BY <1>1, <1>2, <1>3, <1>4, <1>5, <1>6, <1>7, <1>8, <1>9, <1>10, <1>11, <1>12 DEF Next

\* The account read back by address is the one that was made.
LEMMA SessionStep ==
  ASSUME TypeOK, ProcInv, KeyInv, MineInv, SessionIsMyOwn, Next
  PROVE  SessionIsMyOwn'
<1>1. ASSUME NEW c \in Calls, NEW e \in Emails, Signup(c, e) \/ CreateForOther(c, e)
      PROVE  SessionIsMyOwn'
  BY <1>1 DEF Signup, CreateForOther, SessionIsMyOwn, Account, TypeOK, ProcInv,
    tables, locals, Goto, Fail, Succeed
<1>2. ASSUME NEW c \in Calls, NEW t \in Calls, CompleteSetup(c, t)
      PROVE  SessionIsMyOwn'
  BY <1>2 DEF CompleteSetup, SessionIsMyOwn, Account, TypeOK, ProcInv, tables, locals,
    Goto, Fail, Succeed
<1>3. ASSUME NEW s \in Servers, CountUsers(s)
      PROVE  SessionIsMyOwn'
  BY <1>3 DEF CountUsers, SessionIsMyOwn, Account, TypeOK, ProcInv, tables, locals,
    Goto, Fail, Succeed
<1>4. ASSUME NEW p \in Procs, CreateOrganization(p)
      PROVE  SessionIsMyOwn'
  BY <1>4 DEF CreateOrganization, NewOrgID, SessionIsMyOwn, Account, TypeOK, ProcInv,
    tables, locals, Goto, Fail, Succeed
<1>5. ASSUME NEW p \in Procs, UpdatePolicy(p)
      PROVE  SessionIsMyOwn'
  BY <1>5 DEF UpdatePolicy, SessionIsMyOwn, Account, TypeOK, ProcInv, tables, locals,
    Goto, Fail, Succeed
<1>6. ASSUME NEW p \in Procs, CreateUser(p)
      PROVE  SessionIsMyOwn'
  BY <1>6 DEF CreateUser, SessionIsMyOwn, Account, TypeOK, ProcInv, tables, locals,
    Goto, Fail, Succeed
<1>7. ASSUME NEW c \in Calls, ReadAccount(c)
      PROVE  SessionIsMyOwn'
  <2>1. /\ Account(c) \in users /\ Account(c).email = email[c]
        /\ \A q \in Procs : Account(q)' = Account(q)
    BY <1>7 DEF ReadAccount, MineInv, Account
  <2>2. \A u \in users : u.email = email[c] => u = Account(c)
    BY <2>1 DEF KeyInv
  <2>3. \A q \in Calls : \A u \in session'[q] : u = Account(q)
    BY <1>7, <2>2 DEF ReadAccount, SessionIsMyOwn, TypeOK
  <2> QED
    BY <2>1, <2>3 DEF SessionIsMyOwn
<1>8. ASSUME NEW c \in Calls, LookupUser(c) \/ CreateInvitation(c) \/
            GetInvitationByToken(c) \/ MarkInvitationUsed(c)
      PROVE  SessionIsMyOwn'
  BY <1>8 DEF LookupUser, CreateInvitation, GetInvitationByToken, MarkInvitationUsed,
    SessionIsMyOwn, Account, TypeOK, ProcInv, tables, locals, Goto, Fail, Succeed
<1>9. ASSUME NEW i \in invitations, Expire(i)
      PROVE  SessionIsMyOwn'
  BY <1>9 DEF Expire, SessionIsMyOwn, Account, TypeOK, ProcInv, tables, locals, Goto,
    Fail, Succeed
<1> QED
  BY <1>1, <1>2, <1>3, <1>4, <1>5, <1>6, <1>7, <1>8, <1>9 DEF Next

\* An invitation is marked by a process that made the account.
LEMMA SpentStep ==
  ASSUME TypeOK, ProcInv, LinkInv, MineInv, SpentInvitationMadeAccount, Next
  PROVE  SpentInvitationMadeAccount'
<1>1. ASSUME NEW c \in Calls, NEW e \in Emails, Signup(c, e) \/ CreateForOther(c, e)
      PROVE  SpentInvitationMadeAccount'
  BY <1>1 DEF Signup, CreateForOther, SpentInvitationMadeAccount, TypeOK,
    InvitationRow, tables, locals
<1>2. ASSUME NEW c \in Calls, NEW t \in Calls, CompleteSetup(c, t)
      PROVE  SpentInvitationMadeAccount'
  BY <1>2 DEF CompleteSetup, SpentInvitationMadeAccount, TypeOK, InvitationRow,
    tables, locals
<1>3. ASSUME NEW s \in Servers, CountUsers(s)
      PROVE  SpentInvitationMadeAccount'
  BY <1>3 DEF CountUsers, SpentInvitationMadeAccount, TypeOK, InvitationRow, tables,
    locals
<1>4. ASSUME NEW p \in Procs, CreateUser(p)
      PROVE  SpentInvitationMadeAccount'
  BY <1>4 DEF CreateUser, SpentInvitationMadeAccount, TypeOK, InvitationRow, tables,
    locals
<1>5. ASSUME NEW p \in Procs, CreateOrganization(p) \/ UpdatePolicy(p)
      PROVE  SpentInvitationMadeAccount'
  BY <1>5 DEF CreateOrganization, NewOrgID, UpdatePolicy, SpentInvitationMadeAccount,
    TypeOK, InvitationRow, tables, locals
<1>6. ASSUME NEW c \in Calls, CreateInvitation(c)
      PROVE  SpentInvitationMadeAccount'
  BY <1>6 DEF CreateInvitation, SpentInvitationMadeAccount, TypeOK, InvitationRow,
    tables, locals
<1>7. ASSUME NEW c \in Calls, MarkInvitationUsed(c)
      PROVE  SpentInvitationMadeAccount'
  <2>1. /\ Account(c) \in users
        /\ Account(c).email = email[c] /\ Account(c).organization_id = orgID[c]
    BY <1>7 DEF MarkInvitationUsed, MineInv, Account
  <2>2. /\ email[token[c]] = email[c] /\ orgID[token[c]] = orgID[c]
    BY <1>7 DEF MarkInvitationUsed, ProcInv, LinkInv
  <2>3. \A i \in invitations : i.token = token[c] =>
           i.email = Account(c).email /\ i.organization_id = Account(c).organization_id
    BY <2>1, <2>2 DEF LinkInv
  <2>4. \A i \in invitations :
          LET j == [i EXCEPT !.used = TRUE]
          IN  j.email = i.email /\ j.organization_id = i.organization_id
    BY DEF TypeOK, InvitationRow
  <2>5. \A j \in invitations' :
           \/ j \in invitations
           \/ \E i \in invitations : i.token = token[c] /\ j = [i EXCEPT !.used = TRUE]
    BY <1>7 DEF MarkInvitationUsed
  <2>6. users' = users
    BY <1>7 DEF MarkInvitationUsed
  <2>7. ASSUME NEW j \in invitations', j.used
        PROVE  \E u \in users : u.email = j.email /\ u.organization_id = j.organization_id
    <3>1. CASE j \in invitations
      BY <2>7, <3>1 DEF SpentInvitationMadeAccount
    <3>2. ASSUME NEW i \in invitations, i.token = token[c], j = [i EXCEPT !.used = TRUE]
          PROVE  /\ j.email = Account(c).email
                 /\ j.organization_id = Account(c).organization_id
      BY <2>3, <2>4, <3>2
    <3> QED
      BY <2>1, <2>5, <3>1, <3>2
  <2> QED
    BY <2>6, <2>7 DEF SpentInvitationMadeAccount
<1>8. ASSUME NEW c \in Calls, LookupUser(c) \/ GetInvitationByToken(c) \/
            ReadAccount(c)
      PROVE  SpentInvitationMadeAccount'
  BY <1>8 DEF LookupUser, GetInvitationByToken, ReadAccount,
    SpentInvitationMadeAccount, TypeOK, InvitationRow, tables, locals
<1>9. ASSUME NEW i \in invitations, Expire(i)
      PROVE  SpentInvitationMadeAccount'
  BY <1>9 DEF Expire, SpentInvitationMadeAccount, TypeOK, InvitationRow, tables,
    locals
<1> QED
  BY <1>1, <1>2, <1>3, <1>4, <1>5, <1>6, <1>7, <1>8, <1>9 DEF Next

-----------------------------------------------------------------------------
(* Super administrators *)

\* What a step that is no count leaves alone of the starts of the server: none
\* begins its bootstrap, and one that is through with it stays so.
Calm == /\ overlooked' = overlooked
        /\ \A s \in Servers : s \in Bootstrapping' => s \in Bootstrapping
        /\ \A s \in Servers : pc[s] = "up" => pc'[s] = "up" /\ Account(s)' = Account(s)

\* Only counts disturb the starts.
LEMMA CalmStep ==
  ASSUME TypeOK, ProcInv, Next
  PROVE  Calm \/ \E s \in Servers : CountUsers(s)
<1>1. ASSUME NEW c \in Calls, NEW e \in Emails, Signup(c, e) \/ CreateForOther(c, e)
      PROVE  Calm
  BY <1>1 DEF Signup, CreateForOther, Calm, Bootstrapping, Account, AfterUser, TypeOK,
    ProcInv, tables, locals, Goto, Fail, Succeed
<1>2. ASSUME NEW c \in Calls, NEW t \in Calls, CompleteSetup(c, t)
      PROVE  Calm
  BY <1>2 DEF CompleteSetup, Calm, Bootstrapping, Account, AfterUser, TypeOK,
    ProcInv, tables, locals, Goto, Fail, Succeed
<1>3. ASSUME NEW p \in Procs, CreateOrganization(p)
      PROVE  Calm
  BY <1>3 DEF CreateOrganization, NewOrgID, Calm, Bootstrapping, Account, AfterUser, TypeOK,
    ProcInv, tables, locals, Goto, Fail, Succeed
<1>4. ASSUME NEW p \in Procs, UpdatePolicy(p)
      PROVE  Calm
  BY <1>4 DEF UpdatePolicy, Calm, Bootstrapping, Account, AfterUser, TypeOK,
    ProcInv, tables, locals, Goto, Fail, Succeed
<1>5. ASSUME NEW p \in Procs, CreateUser(p)
      PROVE  Calm
  BY <1>5 DEF CreateUser, Calm, Bootstrapping, Account, AfterUser, TypeOK,
    ProcInv, tables, locals, Goto, Fail, Succeed
<1>6. ASSUME NEW c \in Calls, LookupUser(c) \/ CreateInvitation(c)
      PROVE  Calm
  BY <1>6 DEF LookupUser, CreateInvitation, Calm, Bootstrapping, Account, AfterUser, TypeOK,
    ProcInv, tables, locals, Goto, Fail, Succeed
<1>7. ASSUME NEW c \in Calls, GetInvitationByToken(c)
      PROVE  Calm
  BY <1>7 DEF GetInvitationByToken, Calm, Bootstrapping, Account, AfterUser, TypeOK,
    ProcInv, tables, locals, Goto, Fail, Succeed
<1>8. ASSUME NEW c \in Calls, ReadAccount(c) \/ MarkInvitationUsed(c)
      PROVE  Calm
  BY <1>8 DEF ReadAccount, MarkInvitationUsed, Calm, Bootstrapping, Account, AfterUser, TypeOK,
    ProcInv, tables, locals, Goto, Fail, Succeed
<1>9. ASSUME NEW i \in invitations, Expire(i)
      PROVE  Calm
  BY <1>9 DEF Expire, Calm, Bootstrapping, Account, AfterUser, TypeOK,
    ProcInv, tables, locals, Goto, Fail, Succeed
<1> QED
  BY <1>1, <1>2, <1>3, <1>4, <1>5, <1>6, <1>7, <1>8, <1>9 DEF Next

\* The account of a start is made as its last step.
LEMMA NewSuperAdmin ==
  ASSUME TypeOK, ProcInv, Next, NEW u \in users', u \notin users,
         u.role = "super_admin"
  PROVE  MadeBy(u)' /\ u.password \in Bootstrapping /\ overlooked' = overlooked
<1>1. PICK p \in Procs : CreateUser(p) /\ u = Account(p)
  <2>1. \/ users' = users
        \/ \E p \in Procs : CreateUser(p)
    BY DEF Next, Signup, CreateForOther, CompleteSetup, CountUsers, CreateOrganization,
      UpdatePolicy, LookupUser, CreateInvitation, GetInvitationByToken, ReadAccount,
      MarkInvitationUsed, Expire, tables
  <2>2. PICK p \in Procs : CreateUser(p)
    BY <2>1
  <2> QED
    BY <2>2 DEF CreateUser
<1>2. u.password = p /\ kind[p] = "boot" /\ pc[p] = "user"
  BY <1>1 DEF Account, CreateUser
<1>3. p \in Servers
  BY <1>2 DEF ProcInv
<1>4. pc'[p] = "up"
  BY <1>1, <1>2, <1>3 DEF CreateUser, AfterUser, Goto, Fail, TypeOK
<1>5. Account(p)' = Account(p)
  BY <1>1 DEF CreateUser, Account, locals
<1> QED
  BY <1>1, <1>2, <1>3, <1>4, <1>5 DEF MadeBy, Bootstrapping, CreateUser, locals

\* Nobody's super administrator becomes somebody else's.
LEMMA BootStep ==
  ASSUME TypeOK, ProcInv, BootInv, Next
  PROVE  BootInv'
<1>1. ASSUME NEW u \in users, u.role = "super_admin", Calm
      PROVE  MadeBy(u)'
  BY <1>1 DEF Calm, BootInv, MadeBy
<1>2. ASSUME NEW u \in users, u.role = "super_admin", NEW s \in Servers, CountUsers(s)
      PROVE  MadeBy(u)'
  <2>1. pc'[u.password] = "up"
    BY <1>2 DEF BootInv, MadeBy, CountUsers, Goto, TypeOK
  <2>2. \A t \in Servers : Account(t)' = Account(t)
    BY <1>2 DEF CountUsers, Account
  <2> QED
    BY <1>2, <2>1, <2>2 DEF BootInv, MadeBy
<1> QED
  BY <1>1, <1>2, NewSuperAdmin, CalmStep DEF BootInv

\* A start that counts nobody overlooks those that may still make somebody.
LEMMA CountStep ==
  ASSUME TypeOK, ProcInv, CountInv, Next
  PROVE  CountInv'
<1>1. ASSUME NEW s \in Servers, CountUsers(s)
      PROVE  CountInv'
  <2>1. users' = users
    BY <1>1 DEF CountUsers, tables
  <2>2. \A t \in Servers : t # s => overlooked'[t] = overlooked[t] /\ pc'[t] = pc[t]
    BY <1>1 DEF CountUsers, Overlooking, Goto, TypeOK
  <2>3. \A t \in Servers : t # s /\ Booted(t)' => Booted(t)
    BY <2>1, <2>2 DEF Booted, Bootstrapping
  <2>4. CASE overlooked' = overlooked /\ pc'[s] = "up"
    <3>1. Booted(s)' => Booted(s)
      BY <2>1, <2>4 DEF Booted, Bootstrapping
    <3> QED
      BY <2>3, <2>4, <3>1 DEF CountInv, Known
  <2>5. CASE \A t \in Servers : t # s /\ Booted(t) => t \in overlooked'[s]
    BY <2>2, <2>3, <2>5 DEF CountInv, Known
  <2>6. PICK ok \in BOOLEAN : IF ok /\ users # {}
                              THEN Goto(s, "up") /\ UNCHANGED overlooked
                              ELSE Goto(s, "org") /\ overlooked' = Overlooking(s, ok)
    BY <1>1 DEF CountUsers, Queries
  <2>7. CASE ok /\ users # {}
    BY <2>4, <2>6, <2>7 DEF Goto, TypeOK
  <2>8. CASE ok /\ users = {}
    BY <2>5, <2>6, <2>8 DEF Booted, Overlooking, TypeOK
  <2>9. CASE ~ok
    BY <2>5, <2>6, <2>9 DEF Booted, Overlooking, TypeOK
  <2> QED
    BY <2>7, <2>8, <2>9
<1>2. ASSUME Calm
      PROVE  CountInv'
  <2>1. \A s \in Servers : Booted(s)' => Booted(s)
    BY <1>2, NewSuperAdmin DEF Booted, Calm
  <2> QED
    BY <1>2, <2>1 DEF CountInv, Known, Calm
<1> QED
  BY <1>1, <1>2, CalmStep

-----------------------------------------------------------------------------
(* The theorems *)

\* The invariant holds initially.
LEMMA InitInv == Init => IInv
<1>1. Init => TypeOK
  <2>1. (CHOOSE e \in Emails : TRUE) \in Emails
    OBVIOUS
  <2> QED
    BY <2>1 DEF Init, TypeOK, Steps
<1>2. Init => ProcInv /\ OwnInv /\ LinkInv /\ KeyInv /\ UserInv /\ MineInv
  BY DEF Init, ProcInv, OwnInv, LinkInv, Drew, KeyInv, UserInv, MineInv
<1>3. Init => SessionIsMyOwn /\ SpentInvitationMadeAccount /\ CountInv /\ BootInv
  BY DEF Init, SessionIsMyOwn, SpentInvitationMadeAccount, CountInv, Booted,
     Bootstrapping, BootInv
<1> QED
  BY <1>1, <1>2, <1>3 DEF IInv

\* Every step keeps the invariant.
LEMMA StepInv == IInv /\ [Next]_vars => IInv'
<1>1. ASSUME IInv, Next
      PROVE  IInv'
  BY <1>1, TypeStep, ProcStep, OwnStep, LinkStep, KeyStep, UserStep, MineStep,
     SessionStep, SpentStep, CountStep, BootStep DEF IInv
<1>2. ASSUME IInv, UNCHANGED vars
      PROVE  IInv'
  BY <1>2 DEF IInv, vars, tables, locals, TypeOK, Steps, UserRow, InvitationRow, ProcInv,
     OwnInv, LinkInv, Drew, KeyInv, UserInv, MineInv, Account, SessionIsMyOwn,
     SpentInvitationMadeAccount, CountInv, Booted, Bootstrapping, Known, BootInv, MadeBy
<1> QED
  BY <1>1, <1>2

\* The invariant of Accounts: what every call knows of the organization it
\* drew, of the invitation it redeems and of the account it made.
THEOREM Invariance == Spec => []IInv
BY InitInv, StepInv, PTL DEF Spec

\* All variables keep their types; accounts, policies and invitations belong
\* to organizations that exist.
THEOREM TypeCorrect == Spec => []TypeOK
<1>1. IInv => TypeOK
  BY DEF IInv
<1> QED
  BY Invariance, <1>1, PTL

\* Whoever is told that an account was made owns it, however many signups and
\* redemptions race for its address (signup.go:83-108, public.go:62-79).
THEOREM AccountsAreMine == Spec => []AcknowledgedAccountIsMine
<1>1. IInv => AcknowledgedAccountIsMine
  BY DEF IInv, MineInv, AcknowledgedAccountIsMine
<1> QED
  BY Invariance, <1>1, PTL

\* A signup's session is for the account it made (signup.go:114-119).
THEOREM SessionsAreMine == Spec => []SessionIsMyOwn
<1>1. IInv => SessionIsMyOwn
  BY DEF IInv
<1> QED
  BY Invariance, <1>1, PTL

\* No organization ever has two accounts: tenants stay apart.
THEOREM TenantsStayApart == Spec => []OneAccountPerOrganization
<1>1. ASSUME IInv
      PROVE  OneAccountPerOrganization
  <2>1. SUFFICES ASSUME NEW u \in users, NEW v \in users,
                        u.organization_id = v.organization_id
                 PROVE  u = v
    BY DEF OneAccountPerOrganization
  <2>2. PICK p \in Procs : Drew(p) /\ email[p] = u.email /\ orgID[p] = u.organization_id
    BY <1>1 DEF IInv, UserInv
  <2>3. PICK q \in Procs : Drew(q) /\ email[q] = v.email /\ orgID[q] = v.organization_id
    BY <1>1 DEF IInv, UserInv
  <2>4. p = q
    BY <1>1, <2>1, <2>2, <2>3 DEF IInv, OwnInv
  <2> QED
    BY <1>1, <2>2, <2>3, <2>4 DEF IInv, KeyInv
<1> QED
  BY Invariance, <1>1, PTL

\* Of two starts that made super administrators, with whatever addresses, one
\* counted while the other was at it, or could not count (postgres.go:200-241).
THEOREM SuperAdminsWereOverlooked == Spec => []SecondSuperAdminWasOverlooked
<1>1. ASSUME IInv
      PROVE  SecondSuperAdminWasOverlooked
  <2>1. SUFFICES ASSUME NEW u \in users, NEW v \in users, u # v,
                        u.role = "super_admin", v.role = "super_admin"
                 PROVE  Known(u.password, v.password)
    BY DEF SecondSuperAdminWasOverlooked, Known
  <2>2. MadeBy(u) /\ MadeBy(v)
    BY <1>1, <2>1 DEF IInv, BootInv
  <2>3. u.password # v.password
    BY <2>1, <2>2 DEF MadeBy
  <2>4. Booted(u.password) /\ Booted(v.password)
    BY <2>1 DEF Booted
  <2> QED
    BY <1>1, <2>2, <2>3, <2>4 DEF IInv, CountInv, MadeBy
<1> QED
  BY Invariance, <1>1, PTL

\* A spent invitation has made the account it was for (public.go:76-82).
THEOREM InvitationsAreNotLost == Spec => []SpentInvitationMadeAccount
<1>1. IInv => SpentInvitationMadeAccount
  BY DEF IInv
<1> QED
  BY Invariance, <1>1, PTL
=============================================================================
