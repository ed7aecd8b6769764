---------------------------- MODULE IdentityProofs ----------------------------
(***************************************************************************)
(* Proofs about Identity, for every number of people and requests, every   *)
(* lifetime and limit, and whatever handlers end half way.                 *)
(*                                                                         *)
(* What each handler has read lives in its job, so each invariant needs    *)
(* what the jobs in flight still know: that a session about to be promoted *)
(* was proved, that a code which let a request through is dated, that an   *)
(* enrolment stored the codes before the one it is at, and that an instant *)
(* announced by a 429 outlasts every failure it was computed from.         *)
(***************************************************************************)
EXTENDS Identity, WellFoundedInduction, TLAPS

\* What a request knows of people, sessions and links at each statement.
JobTyped ==
  /\ DOMAIN job = Request
  /\ \A r \in Request :
       /\ job[r].pc \in {"locked", "told", "password", "open", "failed", "totp", "secret",
                         "recovery", "issue", "count", "upsert", "codes"}
            => job[r].who \in Identifier
       /\ job[r].pc \in {"totp", "secret", "recovery", "promote"}
            => job[r].session \in DOMAIN sessions
       /\ At(r, "open") => job[r].life \in Nat
       /\ At(r, "told") => job[r].until \in Int
       /\ At(r, "upsert") => job[r].first \in BOOLEAN
       /\ At(r, "codes") => job[r].n \in 1 .. CodesPer + 1

\* What no longer waits for a second factor was proved, and so was what is about to
\* be promoted.
FactorFirst ==
  /\ \A s \in DOMAIN sessions : sessions[s].pending \/ s \in proved
  /\ \A r \in Request : At(r, "promote") => job[r].session \in proved

\* A code that let a request through is dated.
SpentIsUsed == \A p \in spent : p[1] \in used

\* An enrolment is that of its link's person, nobody issues a link twice, and the
\* codes before the one an enrolment is at are stored.
CodesOf(who, by, k) == { [who |-> who, by |-> by, n |-> n] : n \in 1 .. k }

LinkKnown ==
  \A r \in Request : job[r].pc \in {"mark", "count", "upsert", "codes"} =>
    /\ job[r].link \in DOMAIN invitations
    /\ ~ At(r, "mark") => invitations[job[r].link].who = job[r].who

IssuedIsDone == \A i \in DOMAIN invitations : At(i, "done")

CodesInOrder ==
  \A r \in Request : At(r, "codes") => CodesOf(job[r].who, r, job[r].n - 1) \subseteq codes

\* What a 429 announced outlasts each failure it counted; the others were past.
UntilOutlasts ==
  \A r \in Request : At(r, "told") =>
    \A t \in Instant : job[r].when[t] > 0 =>
      t + Lockout <= job[r].until \/ now - t >= Lockout

IInv ==
  /\ TypeOK /\ JobTyped
  /\ FactorFirst /\ SpentIsUsed /\ CodeSpentOnce
  /\ LinkKnown /\ IssuedIsDone /\ CodesInOrder /\ ConsumedMeansEnrolled
  /\ UntilOutlasts

-----------------------------------------------------------------------------
(* The greatest of a set of instants, and a sum over none.                 *)

LEMMA GreatestInstant ==
  ASSUME NEW S \in SUBSET Instant, S # {}
  PROVE  Max(S) \in S /\ \A t \in S : t <= Max(S)
<1> DEFINE Left == { MaxTime - t : t \in S }
<1>1. Left \in SUBSET Nat
  <2> SUFFICES ASSUME NEW t \in S PROVE MaxTime - t \in Nat
    OBVIOUS
  <2> QED
    BY IdentityAssumption DEF Instant
<1>2. Left # {}
  OBVIOUS
<1>3. OpToRel(<, Nat) = { p \in Nat \X Nat : p[1] < p[2] }
  BY DEF OpToRel
<1>4. PICK m \in Left : \A k \in Left : ~ (<<k, m>> \in OpToRel(<, Nat))
  <2> HIDE DEF Left
  <2> QED
    BY <1>1, <1>2, NatLessThanWellFounded, WFMin
<1>5. \A k \in Left : k >= m
  <2> HIDE DEF Left
  <2> SUFFICES ASSUME NEW k \in Left, k < m PROVE FALSE
    BY <1>1
  <2>1. <<k, m>> \notin { p \in Nat \X Nat : p[1] < p[2] }
    BY <1>3, <1>4, Zenon
  <2> QED
    BY <1>1, <2>1
<1>6. PICK t \in S : m = MaxTime - t
  OBVIOUS
<1>7. \A u \in S : t >= u
  <2>1. TAKE u \in S
  <2>2. MaxTime - u >= m
    BY <1>5
  <2> QED
    BY <1>6, <2>2, IdentityAssumption DEF Instant
<1>8. \E x \in S : \A y \in S : x >= y
  BY <1>7
<1>9. Max(S) \in S /\ \A y \in S : Max(S) >= y
  BY <1>8 DEF Max
<1> QED
  BY <1>9, IdentityAssumption DEF Instant

LEMMA SumOfNone == ASSUME NEW op(_) PROVE MapThenSumSet(op, {}) = 0
  BY DEF MapThenSumSet, MapThenFoldSet

LEMMA LockedHasRecent ==
  ASSUME NEW who, Locked(who) PROVE Recent(who) # {}
<1> SUFFICES ASSUME Recent(who) = {} PROVE FALSE
  OBVIOUS
<1>1. Failed(who) = 0
  BY SumOfNone DEF Failed
<1> QED
  BY <1>1, IdentityAssumption DEF Locked

-----------------------------------------------------------------------------
(* What a step of a request writes.                                        *)

USE DEF tables

Step(r) == SignsIn(r) \/ Enrols(r) \/ Dies(r)

\* The job of no other request changes.
LEMMA OwnJobOnly ==
  ASSUME DOMAIN job = Request, NEW r \in Request, Step(r)
  PROVE  /\ DOMAIN job' = Request
         /\ \A q \in Request \ {r} : job'[q] = job[q]
BY DEF Step, SignsIn, Enrols, Dies, Goes, Login, AnswerLocked, VerifyPassword,
   RecordFailure, OpenSession, Finish, TotpLockout, VerifyTotp, SpendCode, Verified,
   Promote, Logout, Invite, Reissue, IssueInvitation, Look, MarkOpen, Accept,
   CountAccounts, UpsertAccount, StoreCode, ConsumeInvitation

\* Each table is written by the statements that name it.
LEMMA Writers ==
  ASSUME NEW r \in Request, Step(r)
  PROVE  /\ now' = now
         /\ accounts' = accounts \/ UpsertAccount(r)
         /\ codes' = codes \/ StoreCode(r)
         /\ (used' = used /\ spent' = spent) \/ SpendCode(r)
         /\ \/ sessions' = sessions
            \/ OpenSession(r) \/ Promote(r)
            \/ \E s \in DOMAIN sessions : Logout(r, s)
            \/ \E who \in Identifier : Reissue(r, who)
         /\ \/ invitations' = invitations
            \/ IssueInvitation(r) \/ MarkOpen(r) \/ ConsumeInvitation(r)
         /\ failures' = failures \/ RecordFailure(r)
         /\ proved' = proved \/ VerifyTotp(r) \/ SpendCode(r)
         /\ deaths' = deaths \/ Dies(r)
BY DEF Step, SignsIn, Enrols, Dies, Login, AnswerLocked, VerifyPassword,
   RecordFailure, OpenSession, Finish, TotpLockout, VerifyTotp, SpendCode, Verified,
   Promote, Logout, Invite, Reissue, IssueInvitation, Look, MarkOpen, Accept,
   CountAccounts, UpsertAccount, StoreCode, ConsumeInvitation

\* Rows are added and changed, none is taken away.
LEMMA RowsStay ==
  ASSUME NEW r \in Request, Step(r)
  PROVE  /\ DOMAIN sessions \subseteq DOMAIN sessions'
         /\ DOMAIN invitations \subseteq DOMAIN invitations'
         /\ codes \subseteq codes' /\ used \subseteq used' /\ proved \subseteq proved'
<1>1. codes \subseteq codes'
  BY Writers DEF StoreCode
<1>2. used \subseteq used'
  BY Writers DEF SpendCode
<1>3. proved \subseteq proved'
  BY Writers DEF VerifyTotp, SpendCode, Verified
<1>4. DOMAIN invitations \subseteq DOMAIN invitations'
  BY Writers DEF IssueInvitation, Put, MarkOpen, ConsumeInvitation
<1>5. DOMAIN sessions \subseteq DOMAIN sessions'
  BY Writers DEF OpenSession, Put, Promote, Logout, Reissue
<1> QED
  BY <1>1, <1>2, <1>3, <1>4, <1>5

-----------------------------------------------------------------------------
(* Types.                                                                  *)

LEMMA SessionsTyped ==
  ASSUME TypeOK, JobTyped, NEW r \in Request, Step(r)
  PROVE  /\ DOMAIN sessions' \subseteq Request
         /\ \A s \in DOMAIN sessions' : sessions'[s] \in Session
<1> USE IdentityAssumption DEF TypeOK, Instant
<1>1. CASE sessions' = sessions
  BY <1>1
<1>2. CASE OpenSession(r)
  BY <1>2 DEF OpenSession, Put, Opened, At, JobTyped, Session
<1>3. CASE Promote(r)
  <2>1. job[r].session \in DOMAIN sessions
    BY <1>3 DEF Promote, At, JobTyped
  <2>2. sessions[job[r].session] \in Session /\ now + SessionLifetime \in Nat
    BY <2>1
  <2> QED
    BY <1>3, <2>1, <2>2 DEF Promote, Put, Session
<1>4. ASSUME NEW s \in DOMAIN sessions, Logout(r, s)
      PROVE  /\ DOMAIN sessions' \subseteq Request
             /\ \A t \in DOMAIN sessions' : sessions'[t] \in Session
  BY <1>4 DEF Logout, Session
<1>5. ASSUME NEW who \in Identifier, Reissue(r, who)
      PROVE  /\ DOMAIN sessions' \subseteq Request
             /\ \A t \in DOMAIN sessions' : sessions'[t] \in Session
  BY <1>5 DEF Reissue, Session
<1> QED
  BY <1>1, <1>2, <1>3, <1>4, <1>5, Writers

LEMMA InvitationsTyped ==
  ASSUME TypeOK, JobTyped, NEW r \in Request, Step(r)
  PROVE  /\ DOMAIN invitations' \subseteq Request
         /\ \A i \in DOMAIN invitations' : invitations'[i] \in Invitation
<1> USE IdentityAssumption DEF TypeOK, Instant
<1>1. CASE invitations' = invitations
  BY <1>1
<1>2. CASE IssueInvitation(r)
  BY <1>2 DEF IssueInvitation, Put, At, JobTyped, Invitation
<1>3. CASE MarkOpen(r)
  BY <1>3 DEF MarkOpen, Invitation
<1>4. CASE ConsumeInvitation(r)
  BY <1>4 DEF ConsumeInvitation, Invitation
<1> QED
  BY <1>1, <1>2, <1>3, <1>4, Writers

LEMMA TypeKept ==
  ASSUME TypeOK, JobTyped, NEW r \in Request, Step(r)
  PROVE  TypeOK'
<1> USE IdentityAssumption DEF Instant, Enrolment
<1>1. now' \in Instant /\ deaths' \in 0 .. MaxDeaths
  BY Writers DEF TypeOK, Dies
<1>2. /\ DOMAIN accounts' \subseteq Identifier
      /\ \A who \in DOMAIN accounts' : accounts'[who] \in [by : Enrolment, owner : BOOLEAN]
  <2>1. CASE accounts' = accounts
    BY <2>1 DEF TypeOK
  <2>2. CASE UpsertAccount(r)
    <3>1. job[r].who \in Identifier /\ job[r].first \in BOOLEAN
      BY <2>2 DEF UpsertAccount, At, JobTyped
    <3>2. Enrolled(r) \in [by : Enrolment, owner : BOOLEAN]
      BY <3>1 DEF TypeOK, Enrolled
    <3> QED
      BY <2>2, <3>1, <3>2 DEF TypeOK, UpsertAccount, Put
  <2> QED
    BY <2>1, <2>2, Writers
<1>3. codes' \subseteq Code
  <2>1. CASE codes' = codes
    BY <2>1 DEF TypeOK
  <2>2. CASE StoreCode(r)
    <3>1. job[r].who \in Identifier /\ job[r].n \in 1 .. CodesPer
      BY <2>2 DEF StoreCode, AllStored, At, JobTyped
    <3> QED
      BY <2>2, <3>1 DEF TypeOK, StoreCode, Code
  <2> QED
    BY <2>1, <2>2, Writers
<1>4. used' \subseteq codes' /\ spent' \subseteq Code \X Request
  <2>1. CASE used' = used /\ spent' = spent
    BY <2>1, RowsStay DEF TypeOK
  <2>2. CASE SpendCode(r)
    BY <2>2 DEF TypeOK, SpendCode, Spendable
  <2> QED
    BY <2>1, <2>2, Writers
<1>5. failures' \in [Identifier -> [Instant -> Nat]]
  <2>1. CASE failures' = failures
    BY <2>1 DEF TypeOK
  <2>2. CASE RecordFailure(r)
    <3>1. job[r].who \in Identifier /\ now \in Instant
      BY <2>2 DEF RecordFailure, At, JobTyped, TypeOK
    <3>2. failures[job[r].who] \in [Instant -> Nat]
      BY <3>1 DEF TypeOK
    <3>3. failures[job[r].who][now] + 1 \in Nat
      BY <3>1, <3>2
    <3> QED
      BY <2>2, <3>1, <3>2, <3>3 DEF RecordFailure, TypeOK
  <2> QED
    BY <2>1, <2>2, Writers
<1>6. proved' \subseteq DOMAIN sessions'
  <2>1. proved' \subseteq proved \cup DOMAIN sessions
    <3>1. CASE proved' = proved
      BY <3>1
    <3>2. CASE VerifyTotp(r)
      BY <3>2 DEF VerifyTotp, Verified, At, JobTyped
    <3>3. CASE SpendCode(r)
      BY <3>3 DEF SpendCode, Verified, At, JobTyped
    <3> QED
      BY <3>1, <3>2, <3>3, Writers
  <2> QED
    BY <2>1, RowsStay DEF TypeOK
<1> QED
  BY <1>1, <1>2, <1>3, <1>4, <1>5, <1>6, SessionsTyped, InvitationsTyped DEF TypeOK

LEMMA JobKept ==
  ASSUME TypeOK, JobTyped, NEW r \in Request, Step(r)
  PROVE  JobTyped'
<1> DEFINE Fits(q) ==
       /\ job[q].pc \in {"locked", "told", "password", "open", "failed", "totp", "secret",
                         "recovery", "issue", "count", "upsert", "codes"}
            => job[q].who \in Identifier
       /\ job[q].pc \in {"totp", "secret", "recovery", "promote"}
            => job[q].session \in DOMAIN sessions
       /\ At(q, "open") => job[q].life \in Nat
       /\ At(q, "told") => job[q].until \in Int
       /\ At(q, "upsert") => job[q].first \in BOOLEAN
       /\ At(q, "codes") => job[q].n \in 1 .. CodesPer + 1
<1> USE IdentityAssumption
<1>1. DOMAIN job = Request /\ Fits(r)
  BY DEF JobTyped
<1>2. ASSUME NEW q \in Request \ {r} PROVE Fits(q)'
  BY OwnJobOnly, RowsStay DEF JobTyped, At
<1>3. Fits(r)'
  <2> USE <1>1 DEF Goes, At, Idle, Done
  <2>1. ASSUME NEW who \in Identifier, NEW pw \in Enrolment, Login(r, who, pw) PROVE Fits(r)'
    BY <2>1 DEF Login
  <2>2. CASE AnswerLocked(r)
    <3>1. CASE Locked(job[r].who)
      <4>1. Recent(job[r].who) # {} /\ Recent(job[r].who) \in SUBSET Instant
        BY <3>1, LockedHasRecent DEF Recent
      <4>2. Max(Recent(job[r].who)) \in Instant
        BY <4>1, GreatestInstant
      <4>3. Until(job[r].who) \in Int
        BY <4>2 DEF Until, Instant
      <4> QED
        BY <2>2, <3>1, <4>3 DEF AnswerLocked
    <3>2. CASE ~ Locked(job[r].who)
      BY <2>2, <3>2 DEF AnswerLocked
    <3> QED
      BY <3>1, <3>2
  <2>3. CASE VerifyPassword(r)
    BY <2>3 DEF VerifyPassword
  <2>4. CASE RecordFailure(r) \/ OpenSession(r) \/ Promote(r) \/ IssueInvitation(r)
               \/ MarkOpen(r) \/ Dies(r)
    BY <2>4 DEF RecordFailure, OpenSession, Promote, IssueInvitation, MarkOpen, Dies
  <2>5. ASSUME NEW t \in DOMAIN sessions, NEW f \in Factor, Finish(r, t, f) PROVE Fits(r)'
    <3>1. sessions[t].who \in Identifier /\ f.kind \in {"totp", "recovery"}
      BY DEF TypeOK, Session, Factor
    <3> QED
      BY <2>5, <3>1 DEF Finish
  <2>6. CASE TotpLockout(r)
    BY <2>6 DEF TotpLockout
  <2>7. CASE VerifyTotp(r) \/ SpendCode(r)
    BY <2>7, RowsStay DEF VerifyTotp, SpendCode, Verified
  <2>8. ASSUME NEW t \in DOMAIN sessions, Logout(r, t) PROVE Fits(r)'
    BY <2>8 DEF Logout
  <2>9. ASSUME NEW who \in Identifier, Invite(r, who) \/ Reissue(r, who) PROVE Fits(r)'
    BY <2>9 DEF Invite, Reissue
  <2>10. ASSUME NEW i \in DOMAIN invitations, Look(r, i) \/ Accept(r, i) PROVE Fits(r)'
    <3>1. invitations[i].who \in Identifier
      BY DEF TypeOK, Invitation
    <3> QED
      BY <2>10, <3>1 DEF Look, Accept
  <2>11. CASE CountAccounts(r)
    BY <2>11 DEF CountAccounts
  <2>12. CASE UpsertAccount(r)
    BY <2>12 DEF UpsertAccount
  <2>13. CASE StoreCode(r)
    BY <2>13 DEF StoreCode, AllStored
  <2>14. CASE ConsumeInvitation(r)
    BY <2>14 DEF ConsumeInvitation
  <2> QED
    BY <2>1, <2>2, <2>3, <2>4, <2>5, <2>6, <2>7, <2>8, <2>9, <2>10, <2>11, <2>12, <2>13,
       <2>14 DEF Step, SignsIn, Enrols
<1> HIDE DEF Fits
<1>4. \A q \in Request : Fits(q)'
  BY <1>2, <1>3
<1> QED
  BY <1>1, <1>4, OwnJobOnly DEF JobTyped, Fits

-----------------------------------------------------------------------------
(* Each part of the invariant.                                             *)

LEMMA FactorKept ==
  ASSUME TypeOK, JobTyped, FactorFirst, NEW r \in Request, Step(r)
  PROVE  FactorFirst'
<1>1. ASSUME NEW s \in DOMAIN sessions' PROVE sessions'[s].pending \/ s \in proved'
  <2>1. CASE sessions' = sessions
    BY <2>1, RowsStay DEF FactorFirst
  <2>2. CASE OpenSession(r)
    BY <2>2, RowsStay DEF OpenSession, Put, Opened, FactorFirst
  <2>3. CASE Promote(r)
    BY <2>3, RowsStay DEF Promote, Put, FactorFirst
  <2>4. ASSUME NEW t \in DOMAIN sessions, Logout(r, t)
        PROVE  sessions'[s].pending = sessions[s].pending /\ s \in DOMAIN sessions
    BY <2>4 DEF Logout, TypeOK, Session
  <2>5. ASSUME NEW who \in Identifier, Reissue(r, who)
        PROVE  sessions'[s].pending = sessions[s].pending /\ s \in DOMAIN sessions
    BY <2>5 DEF Reissue, TypeOK, Session
  <2> QED
    BY <2>1, <2>2, <2>3, <2>4, <2>5, Writers, RowsStay DEF FactorFirst
<1>2. ASSUME NEW q \in Request, At(q, "promote")' PROVE job'[q].session \in proved'
  <2>1. CASE q # r
    BY <1>2, <2>1, OwnJobOnly, RowsStay DEF FactorFirst, At, JobTyped
  <2>2. CASE q = r
    <3>1. VerifyTotp(r) \/ SpendCode(r)
      BY <1>2, <2>2 DEF Step, SignsIn, Enrols, Dies, Goes, At, Idle, Done, Login, AnswerLocked,
         VerifyPassword, RecordFailure, OpenSession, Finish, Factor, TotpLockout, Promote,
         Logout, Invite, Reissue, IssueInvitation, Look, MarkOpen, Accept, CountAccounts,
         UpsertAccount, StoreCode, ConsumeInvitation, JobTyped
    <3> QED
      BY <1>2, <2>2, <3>1 DEF VerifyTotp, SpendCode, Verified, Goes, At, JobTyped
  <2> QED
    BY <2>1, <2>2
<1> QED
  BY <1>1, <1>2 DEF FactorFirst

LEMMA SpentKept ==
  ASSUME SpentIsUsed, CodeSpentOnce, NEW r \in Request, Step(r)
  PROVE  SpentIsUsed' /\ CodeSpentOnce'
<1>1. CASE used' = used /\ spent' = spent
  BY <1>1 DEF SpentIsUsed, CodeSpentOnce
<1>2. CASE SpendCode(r)
  BY <1>2 DEF SpendCode, Spendable, SpentIsUsed, CodeSpentOnce
<1> QED
  BY <1>1, <1>2, Writers

LEMMA LinksKept ==
  ASSUME TypeOK, JobTyped, LinkKnown, IssuedIsDone, NEW r \in Request, Step(r)
  PROVE  LinkKnown' /\ IssuedIsDone'
<1>1. \A i \in DOMAIN invitations : i \in DOMAIN invitations' /\ invitations'[i].who = invitations[i].who
  <2>1. CASE invitations' = invitations
    BY <2>1
  <2>2. CASE IssueInvitation(r)
    BY <2>2 DEF IssueInvitation, Put, IssuedIsDone, At
  <2>3. CASE MarkOpen(r)
    BY <2>3 DEF MarkOpen, TypeOK, Invitation
  <2>4. CASE ConsumeInvitation(r)
    BY <2>4 DEF ConsumeInvitation, TypeOK, Invitation
  <2> QED
    BY <2>1, <2>2, <2>3, <2>4, Writers
<1>2. LinkKnown'
  <2> SUFFICES ASSUME NEW q \in Request, job'[q].pc \in {"mark", "count", "upsert", "codes"}
               PROVE  /\ job'[q].link \in DOMAIN invitations
                      /\ job'[q].pc # "mark" => invitations[job'[q].link].who = job'[q].who
    BY <1>1 DEF LinkKnown, At
  <2>1. CASE q # r
    BY <2>1, OwnJobOnly DEF LinkKnown, At, JobTyped
  <2>2. CASE q = r
    BY <2>2 DEF Step, SignsIn, Enrols, Dies, Goes, At, Idle, Done, Login, AnswerLocked,
       VerifyPassword, RecordFailure, OpenSession, Finish, Factor, TotpLockout, VerifyTotp,
       SpendCode, Verified, Promote, Logout, Invite, Reissue, IssueInvitation, Look, MarkOpen,
       Accept, CountAccounts, UpsertAccount, StoreCode, ConsumeInvitation, JobTyped, LinkKnown
  <2> QED
    BY <2>1, <2>2
<1>3. IssuedIsDone'
  <2> SUFFICES ASSUME NEW i \in DOMAIN invitations' PROVE job'[i].pc = "done"
    BY DEF IssuedIsDone, At
  <2>1. CASE i = r /\ i \notin DOMAIN invitations
    <3>1. IssueInvitation(r)
      BY <2>1, Writers DEF MarkOpen, ConsumeInvitation
    <3> QED
      BY <2>1, <3>1 DEF IssueInvitation, Goes, Done, JobTyped
  <2>2. CASE i = r /\ i \in DOMAIN invitations
    BY <2>2 DEF IssuedIsDone, At, Step, SignsIn, Enrols, Dies, Login, AnswerLocked,
       VerifyPassword, RecordFailure, OpenSession, Finish, TotpLockout, VerifyTotp,
       SpendCode, Promote, Logout, Invite, Reissue, IssueInvitation, Look, MarkOpen,
       Accept, CountAccounts, UpsertAccount, StoreCode, ConsumeInvitation
  <2>3. CASE i # r
    <3>1. i \in DOMAIN invitations
      BY <2>3, Writers DEF IssueInvitation, Put, MarkOpen, ConsumeInvitation
    <3> QED
      BY <2>3, <3>1, OwnJobOnly DEF IssuedIsDone, At, TypeOK, JobTyped
  <2> QED
    BY <2>1, <2>2, <2>3
<1> QED
  BY <1>2, <1>3

LEMMA CodesKept ==
  ASSUME TypeOK, JobTyped, LinkKnown, CodesInOrder, NEW r \in Request, Step(r)
  PROVE  CodesInOrder'
<1> SUFFICES ASSUME NEW q \in Request, job'[q].pc = "codes"
             PROVE  CodesOf(job'[q].who, q, job'[q].n - 1) \subseteq codes'
  BY DEF CodesInOrder, At, CodesOf
<1>1. CASE q # r
  <2>1. job'[q] = job[q] /\ At(q, "codes")
    BY <1>1, OwnJobOnly DEF At, JobTyped
  <2>2. CodesOf(job[q].who, q, job[q].n - 1) \subseteq codes
    BY <2>1 DEF CodesInOrder
  <2> QED
    BY <2>1, <2>2, RowsStay
<1>2. CASE q = r
  <2>1. UpsertAccount(r) \/ StoreCode(r)
    BY <1>2 DEF Step, SignsIn, Enrols, Dies, Goes, At, Idle, Done, Login, AnswerLocked,
       VerifyPassword, RecordFailure, OpenSession, Finish, Factor, TotpLockout, VerifyTotp,
       SpendCode, Verified, Promote, Logout, Invite, Reissue, IssueInvitation, Look, MarkOpen,
       Accept, CountAccounts, ConsumeInvitation, JobTyped
  <2>2. CASE UpsertAccount(r)
    BY <1>2, <2>2 DEF UpsertAccount, Goes, JobTyped, CodesOf
  <2>3. CASE StoreCode(r)
    <3>1. /\ job[r].n \in 1 .. CodesPer /\ job'[r].n = job[r].n + 1
          /\ job'[r].who = job[r].who
      BY <1>2, <2>3, IdentityAssumption DEF StoreCode, AllStored, Goes, JobTyped, At
    <3>2. CodesOf(job[r].who, r, job[r].n - 1) \subseteq codes
      BY <2>3 DEF StoreCode, CodesInOrder
    <3>3. codes' = codes \cup {[who |-> job[r].who, by |-> r, n |-> job[r].n]}
      BY <2>3 DEF StoreCode
    <3> QED
      BY <1>2, <3>1, <3>2, <3>3 DEF CodesOf
  <2> QED
    BY <2>1, <2>2, <2>3
<1> QED
  BY <1>1, <1>2

\* A link is marked consumed when the codes are all there, and codes stay.
LEMMA ConsumedKept ==
  ASSUME TypeOK, JobTyped, LinkKnown, IssuedIsDone, CodesInOrder, ConsumedMeansEnrolled,
         NEW r \in Request, Step(r)
  PROVE  ConsumedMeansEnrolled'
<1> DEFINE Whole(i) == \E q \in Request : CodesOf(invitations[i].who, q, CodesPer) \subseteq codes
<1>1. \A i \in DOMAIN invitations : invitations[i].consumed => Whole(i)
  BY DEF ConsumedMeansEnrolled, CodesOf
<1>2. ASSUME NEW i \in DOMAIN invitations' , invitations'[i].consumed
      PROVE  \E q \in Request : CodesOf(invitations'[i].who, q, CodesPer) \subseteq codes'
  <2>1. CASE invitations' = invitations
    BY <1>1, <1>2, <2>1, RowsStay
  <2>2. CASE IssueInvitation(r)
    BY <1>1, <1>2, <2>2, RowsStay DEF IssueInvitation, Put
  <2>3. CASE MarkOpen(r)
    <3>1. /\ i \in DOMAIN invitations /\ invitations[i].consumed
          /\ invitations'[i].who = invitations[i].who
      BY <1>2, <2>3 DEF MarkOpen, TypeOK, Invitation
    <3> QED
      BY <1>1, <3>1, RowsStay
  <2>4. CASE ConsumeInvitation(r)
    <3>1. CASE i = job[r].link
      <4>1. job[r].n - 1 = CodesPer
        BY <2>4, IdentityAssumption DEF ConsumeInvitation, AllStored, At, JobTyped
      <4>2. invitations'[i].who = job[r].who
        BY <2>4, <3>1 DEF ConsumeInvitation, At, LinkKnown, TypeOK, Invitation
      <4>3. CodesOf(job[r].who, r, CodesPer) \subseteq codes
        BY <2>4, <4>1 DEF ConsumeInvitation, CodesInOrder
      <4> QED
        BY <4>2, <4>3, RowsStay
    <3>2. CASE i # job[r].link
      BY <1>1, <1>2, <2>4, <3>2, RowsStay DEF ConsumeInvitation
    <3> QED
      BY <3>1, <3>2
  <2> QED
    BY <2>1, <2>2, <2>3, <2>4, Writers
<1> QED
  BY <1>2 DEF ConsumedMeansEnrolled, CodesOf

LEMMA AnnouncedUntil ==
  ASSUME TypeOK, NEW who \in Identifier, NEW t \in Instant, failures[who][t] > 0
  PROVE  t + Lockout <= Until(who) \/ now - t >= Lockout
<1> USE IdentityAssumption
<1>1. CASE t \in Recent(who)
  <2>1. t <= Max(Recent(who)) /\ Max(Recent(who)) \in Instant
    BY <1>1, GreatestInstant DEF Recent
  <2> QED
    BY <2>1 DEF Until, Instant
<1>2. CASE t \notin Recent(who)
  BY <1>2 DEF Recent, Instant, TypeOK
<1> QED
  BY <1>1, <1>2

LEMMA UntilKept ==
  ASSUME TypeOK, JobTyped, UntilOutlasts, NEW r \in Request, Step(r)
  PROVE  UntilOutlasts'
<1> SUFFICES ASSUME NEW q \in Request, job'[q].pc = "told", NEW t \in Instant,
                    job'[q].when[t] > 0
             PROVE  t + Lockout <= job'[q].until \/ now - t >= Lockout
  BY Writers DEF UntilOutlasts, At, Instant
<1>1. CASE q # r
  BY <1>1, OwnJobOnly DEF UntilOutlasts, At, JobTyped
<1>2. CASE q = r
  <2>1. AnswerLocked(r)
    BY <1>2 DEF Step, SignsIn, Enrols, Dies, Goes, At, Idle, Done, Login, VerifyPassword,
       RecordFailure, OpenSession, Finish, Factor, TotpLockout, VerifyTotp, SpendCode, Verified,
       Promote, Logout, Invite, Reissue, IssueInvitation, Look, MarkOpen, Accept,
       CountAccounts, UpsertAccount, StoreCode, ConsumeInvitation, JobTyped
  <2>2. /\ job'[r].until = Until(job[r].who) /\ job'[r].when = failures[job[r].who]
        /\ job[r].who \in Identifier
    BY <1>2, <2>1 DEF AnswerLocked, Goes, Done, JobTyped, At
  <2> QED
    BY <1>2, <2>2, AnnouncedUntil
<1> QED
  BY <1>1, <1>2

-----------------------------------------------------------------------------
(* The invariant.                                                          *)

LEMMA Initially == Init => IInv
<1> SUFFICES ASSUME Init PROVE IInv
  OBVIOUS
<1> USE IdentityAssumption DEF Init
<1>1. TypeOK
  <2>1. /\ DOMAIN accounts \subseteq Identifier /\ codes \subseteq Code
        /\ \A who \in DOMAIN accounts : accounts[who] \in [by : Enrolment, owner : BOOLEAN]
    <3>1. CASE accounts = << >> /\ codes = {}
      BY <3>1
    <3>2. ASSUME NEW who \in Identifier, accounts = [w \in {who} |-> [by |-> Before, owner |-> TRUE]],
                 codes = { [who |-> who, by |-> Before, n |-> n] : n \in 1 .. CodesPer }
          PROVE  /\ DOMAIN accounts \subseteq Identifier /\ codes \subseteq Code
                 /\ \A w \in DOMAIN accounts : accounts[w] \in [by : Enrolment, owner : BOOLEAN]
      BY <3>2 DEF Enrolment, Code
    <3> QED
      BY <3>1, <3>2
  <2>2. /\ DOMAIN sessions = {} /\ DOMAIN invitations = {}
        /\ failures \in [Identifier -> [Instant -> Nat]]
    OBVIOUS
  <2> QED
    BY <2>1, <2>2 DEF TypeOK, Instant
<1>2. JobTyped /\ CodesInOrder /\ LinkKnown /\ UntilOutlasts
  BY DEF JobTyped, CodesInOrder, LinkKnown, UntilOutlasts, At, Idle
<1>3. FactorFirst /\ SpentIsUsed /\ CodeSpentOnce /\ IssuedIsDone /\ ConsumedMeansEnrolled
  BY DEF FactorFirst, SpentIsUsed, CodeSpentOnce, IssuedIsDone, ConsumedMeansEnrolled, At, Idle
<1> QED
  BY <1>1, <1>2, <1>3 DEF IInv

LEMMA TickKeeps == IInv /\ Tick => IInv'
<1> SUFFICES ASSUME IInv, Tick PROVE IInv'
  OBVIOUS
<1> USE DEF IInv, Tick
<1>1. TypeOK'
  BY IdentityAssumption DEF TypeOK, Instant
<1>2. JobTyped' /\ CodesInOrder' /\ LinkKnown'
  BY DEF JobTyped, CodesInOrder, LinkKnown, At
<1>3. FactorFirst' /\ SpentIsUsed' /\ CodeSpentOnce' /\ IssuedIsDone' /\ ConsumedMeansEnrolled'
  BY DEF FactorFirst, SpentIsUsed, CodeSpentOnce, IssuedIsDone, ConsumedMeansEnrolled, At
<1>4. UntilOutlasts'
  BY IdentityAssumption DEF UntilOutlasts, At, TypeOK, Instant
<1> QED
  BY <1>1, <1>2, <1>3, <1>4

LEMMA StutterKeeps == IInv /\ UNCHANGED vars => IInv'
BY DEF IInv, vars, TypeOK, JobTyped, FactorFirst, SpentIsUsed, CodeSpentOnce, LinkKnown,
   IssuedIsDone, CodesInOrder, ConsumedMeansEnrolled, UntilOutlasts, At

LEMMA RequestKeeps ==
  ASSUME IInv, NEW r \in Request, Step(r) PROVE IInv'
BY TypeKept, JobKept, FactorKept, SpentKept, LinksKept, CodesKept, ConsumedKept, UntilKept
DEF IInv

LEMMA Invariance == Spec => []IInv
<1>1. IInv /\ [Next]_vars => IInv'
  BY RequestKeeps, TickKeeps, StutterKeeps DEF Next, Step
<1> QED
  BY <1>1, Initially, PTL DEF Spec

-----------------------------------------------------------------------------
(* What follows.                                                           *)

\* Every table holds rows of its own shape, whatever handlers overlap
\* (005_identity.sql, 006_pending_session.sql).
THEOREM IdentityTypeCorrect == Spec => []TypeOK
<1>1. IInv => TypeOK
  BY DEF IInv
<1> QED
  BY <1>1, Invariance, PTL

\* A session that grants is one whose second factor was verified
\* (identity_pg.py:178-183).
THEOREM NoGrantWithoutFactor == Spec => []GrantNeedsSecondFactor
<1>1. IInv => GrantNeedsSecondFactor
  BY DEF IInv, FactorFirst, GrantNeedsSecondFactor, Grants
<1> QED
  BY <1>1, Invariance, PTL

\* A recovery code lets one request through, however many bring it at once: what
\* decides is the one statement that dates it (identity_pg.py:130-134).
THEOREM CodesWorkOnce == Spec => []CodeSpentOnce
<1>1. IInv => CodeSpentOnce
  BY DEF IInv
<1> QED
  BY <1>1, Invariance, PTL

\* A consumed link left a whole enrolment (identity_pg.py:260-261).
THEOREM ConsumedIsWhole == Spec => []ConsumedMeansEnrolled
<1>1. IInv => ConsumedMeansEnrolled
  BY DEF IInv
<1> QED
  BY <1>1, Invariance, PTL

\* An account is free from the instant that a 429 announced, if no failure was
\* recorded since (domain/identity.py:39-49).
THEOREM LockoutEnds == Spec => []UntilHolds
<1>1. ASSUME IInv PROVE UntilHolds
  <2> SUFFICES ASSUME NEW r \in Request, At(r, "told"), now >= job[r].until,
                      failures[job[r].who] = job[r].when
               PROVE  ~ Locked(job[r].who)
    BY DEF UntilHolds
  <2>1. job[r].until \in Int /\ now \in Int /\ Instant \subseteq Int /\ Lockout \in Int
    BY <1>1, IdentityAssumption DEF IInv, TypeOK, JobTyped, Instant
  <2>2. ASSUME NEW t \in Instant, failures[job[r].who][t] > 0 PROVE ~ (now - t < Lockout)
    <3>1. t + Lockout <= job[r].until \/ now - t >= Lockout
      BY <1>1, <2>2 DEF IInv, UntilOutlasts
    <3>2. t \in Int
      BY <2>1
    <3> QED
      BY <2>1, <3>1, <3>2
  <2>3. Recent(job[r].who) = {}
    BY <2>2 DEF Recent
  <2> QED
    BY <2>3, LockedHasRecent
<1> QED
  BY <1>1, Invariance, PTL

\* A session that was revoked or has run out never grants again, though its second
\* factor was being verified meanwhile (identity_pg.py:184-204).
THEOREM EndIsFinal == Spec => EndedStaysEnded
<1> DEFINE Stays == \A s \in DOMAIN sessions : ~ Alive(s) => ~ Grants(s)'
<1>1. ASSUME IInv, NEW r \in Request, Step(r) PROVE Stays
  <2> SUFFICES ASSUME NEW s \in DOMAIN sessions, ~ Alive(s) PROVE ~ Grants(s)'
    OBVIOUS
  <2> USE <1>1 DEF IInv, Alive, Grants
  <2>1. CASE sessions' = sessions
    BY <2>1, Writers
  <2>2. CASE OpenSession(r)
    BY <2>2, Writers DEF OpenSession, Put, Opened
  <2>3. CASE Promote(r)
    BY <2>3, Writers DEF Promote, Promotable, Put
  <2>4. ASSUME NEW t \in DOMAIN sessions, Logout(r, t) PROVE ~ Grants(s)'
    BY <2>4, Writers DEF Logout, TypeOK, Session
  <2>5. ASSUME NEW who \in Identifier, Reissue(r, who) PROVE ~ Grants(s)'
    BY <2>5, Writers DEF Reissue, TypeOK, Session
  <2> QED
    BY <2>1, <2>2, <2>3, <2>4, <2>5, Writers
<1>2. ASSUME IInv, Tick PROVE Stays
  BY <1>2, IdentityAssumption DEF IInv, Tick, Alive, Grants, TypeOK, Session, Instant
<1>3. ASSUME IInv, UNCHANGED vars PROVE Stays
  BY <1>3 DEF vars, Alive, Grants
<1>4. IInv /\ [Next]_vars => [Stays]_vars
  BY <1>1, <1>2, <1>3 DEF Next, Step
<1> QED
  BY <1>4, Invariance, PTL DEF Spec, EndedStaysEnded
=============================================================================
