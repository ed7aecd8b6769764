------------------------------- MODULE Identity -------------------------------
(***************************************************************************)
(* People signing in: the rules of domain/identity.py, the tables of       *)
(* 005_identity.sql and 006_pending_session.sql, adapters/identity_pg.py,  *)
(* the handlers of api/routes_auth.py, and the owner's commands of         *)
(* admin.py.                                                               *)
(*                                                                         *)
(* The connection is autocommit: a handler is as many steps as it has      *)
(* statements that matter, other handlers run in other threads between any *)
(* two, and a handler may end after any of them (an exception, a pool      *)
(* timeout, the process).  A request runs one handler; what it creates, a  *)
(* session, an invitation, an enrolment, bears its name.  A password, an   *)
(* authenticator secret or a code is known by the enrolment that made it.  *)
(* Left out: what is only shown (attempt context, codes remaining, the bar *)
(* of the period), attempts recorded with an outcome no rule counts,       *)
(* cookies, and disabled_at, which nothing sets.  Every account comes from *)
(* an enrolment and has an authenticator, so login never ends at "ok".     *)
(***************************************************************************)
EXTENDS Integers, FiniteSets, FiniteSetsExt

CONSTANTS
  Request,            \* requests and commands
  Identifier,         \* the people
  Before,             \* an enrolment made before the first state
  CodesPer,           \* recovery codes of an enrolment
  MaxAttempts,        \* MAX_ATTEMPTS
  Lockout,            \* LOCKOUT
  SessionLifetime,    \* SESSION_LIFETIME
  PendingLife,        \* minutes=5: between the password and the second factor
  EnrolLife,          \* minutes=10: between the enrolment and the second factor
  InvitationLifetime, \* INVITATION_LIFETIME
  MaxTime,            \* bound of the model: the last instant
  MaxDeaths           \* bound of the model: handlers that end half way

ASSUME IdentityAssumption ==
  /\ Before \notin Request
  /\ CodesPer \in Nat \ {0} /\ MaxAttempts \in Nat \ {0} /\ Lockout \in Nat \ {0}
  /\ SessionLifetime \in Nat /\ PendingLife \in Nat /\ EnrolLife \in Nat
  /\ InvitationLifetime \in Nat /\ MaxTime \in Nat /\ MaxDeaths \in Nat

VARIABLES
  now,
  accounts,    \* identifier -> whose enrolment set its credentials, and is_owner
  codes,       \* recovery codes stored
  used,        \* those with used_at
  sessions,    \* request that opened it -> the row
  invitations, \* request that issued it -> the row
  failures,    \* attempts that count, per identifier and instant
  job,         \* where each request is in its handler
  proved,      \* history: sessions whose second factor was verified
  spent,       \* history: the requests each code let through
  deaths       \* counter of the model's bound

tables == <<accounts, codes, used, sessions, invitations, failures>>
vars == <<now, tables, job, proved, spent, deaths>>

Instant == 0 .. MaxTime
Enrolment == Request \cup {Before}
Code == [who : Identifier, by : Enrolment, n : 1 .. CodesPer]
Session == [who : Identifier, pending : BOOLEAN, expires : Nat, revoked : BOOLEAN]
Invitation == [who : Identifier, expires : Nat, opened : BOOLEAN, consumed : BOOLEAN]
Factor == [kind : {"totp"}, by : Enrolment]
            \cup [kind : {"recovery"}, by : Enrolment, n : 1 .. CodesPer]

Idle == [pc |-> "idle"]
Done == [pc |-> "done"]

TypeOK ==
  /\ now \in Instant /\ deaths \in 0 .. MaxDeaths
  /\ DOMAIN accounts \subseteq Identifier
  /\ \A who \in DOMAIN accounts : accounts[who] \in [by : Enrolment, owner : BOOLEAN]
  /\ used \subseteq codes /\ codes \subseteq Code
  /\ DOMAIN sessions \subseteq Request /\ DOMAIN invitations \subseteq Request
  /\ \A s \in DOMAIN sessions : sessions[s] \in Session
  /\ \A i \in DOMAIN invitations : invitations[i] \in Invitation
  /\ failures \in [Identifier -> [Instant -> Nat]]
  /\ proved \subseteq DOMAIN sessions
  /\ spent \subseteq Code \X Request

\* An empty database, or one with its owner enrolled.
Init ==
  /\ now = 0 /\ deaths = 0
  /\ \/ accounts = << >> /\ codes = {}
     \/ \E who \in Identifier :
          /\ accounts = [w \in {who} |-> [by |-> Before, owner |-> TRUE]]
          /\ codes = { [who |-> who, by |-> Before, n |-> n] : n \in 1 .. CodesPer }
  /\ used = {} /\ sessions = << >> /\ invitations = << >>
  /\ failures = [who \in Identifier |-> [t \in Instant |-> 0]]
  /\ job = [r \in Request |-> Idle]
  /\ proved = {} /\ spent = {}

Goes(r, j) == job' = [job EXCEPT ![r] = j]
At(r, pc) == job[r].pc = pc

\* Adds or replaces a row.
Put(rows, id, row) ==
  [k \in DOMAIN rows \cup {id} |-> IF k = id THEN row ELSE rows[k]]

-----------------------------------------------------------------------------
(* lockout_state().                                                        *)

Recent(who) == { t \in Instant : failures[who][t] > 0 /\ now - t < Lockout }
Failed(who) == MapThenSumSet(LAMBDA t : failures[who][t], Recent(who))
Locked(who) == Failed(who) >= MaxAttempts

\* Mutant of Until: the oldest failure in the window.
UntilOldest(who) == Min(Recent(who)) + Lockout

Until(who) == Max(Recent(who)) + Lockout

-----------------------------------------------------------------------------
(* POST /login: verify_password(), lockout(), open_session().              *)

\* pw is the enrolment whose password is typed.
Login(r, who, pw) ==
  /\ At(r, "idle")
  /\ Goes(r, IF Locked(who) THEN [pc |-> "locked", who |-> who]
             ELSE [pc |-> "password", who |-> who, pw |-> pw])
  /\ UNCHANGED <<now, tables, proved, spent, deaths>>

\* The answer 429: locked until, if the second look still finds it so.
AnswerLocked(r) ==
  /\ At(r, "locked")
  /\ LET who == job[r].who
     IN  Goes(r, IF Locked(who)
                 THEN [pc |-> "told", who |-> who, until |-> Until(who), when |-> failures[who]]
                 ELSE Done)
  /\ UNCHANGED <<now, tables, proved, spent, deaths>>

VerifyPassword(r) ==
  /\ At(r, "password")
  /\ LET who == job[r].who
     IN  Goes(r, IF who \in DOMAIN accounts /\ accounts[who].by = job[r].pw
                 THEN [pc |-> "open", who |-> who, life |-> PendingLife]
                 ELSE [pc |-> "failed", who |-> who])
  /\ UNCHANGED <<now, tables, proved, spent, deaths>>

\* _record() with an outcome that counts.
RecordFailure(r) ==
  /\ At(r, "failed")
  /\ failures' = [failures EXCEPT ![job[r].who][now] = @ + 1]
  /\ Goes(r, Done)
  /\ UNCHANGED <<now, accounts, codes, used, sessions, invitations, proved, spent, deaths>>

\* Mutant of Opened: open_session() called without pending.
OpenedWhole(who, life) ==
  [who |-> who, pending |-> FALSE, expires |-> now + life, revoked |-> FALSE]

Opened(who, life) ==
  [who |-> who, pending |-> TRUE, expires |-> now + life, revoked |-> FALSE]

OpenSession(r) ==
  /\ At(r, "open")
  /\ sessions' = Put(sessions, r, Opened(job[r].who, job[r].life))
  /\ Goes(r, Done)
  /\ UNCHANGED <<now, accounts, codes, used, invitations, failures, proved, spent, deaths>>

-----------------------------------------------------------------------------
(* POST /totp and /recovery: _finish() and its two verifications.          *)

\* session_principal(allow_pending=True).
Alive(s) == ~ sessions[s].revoked /\ now < sessions[s].expires

\* session_principal(), as require_principal() and the sockets call it.
Grants(s) == Alive(s) /\ ~ sessions[s].pending

Finish(r, s, factor) ==
  /\ At(r, "idle") /\ s \in DOMAIN sessions
  /\ Goes(r, IF Alive(s)
             THEN [pc |-> factor.kind, session |-> s, who |-> sessions[s].who, factor |-> factor]
             ELSE Done)
  /\ UNCHANGED <<now, tables, proved, spent, deaths>>

TotpLockout(r) ==
  /\ At(r, "totp")
  /\ Goes(r, IF Locked(job[r].who) THEN Done
             ELSE [pc |-> "secret", session |-> job[r].session, who |-> job[r].who,
                   factor |-> job[r].factor])
  /\ UNCHANGED <<now, tables, proved, spent, deaths>>

\* What follows a verification.
Verified(r, ok) ==
  IF ok
  THEN /\ Goes(r, [pc |-> "promote", session |-> job[r].session])
       /\ proved' = proved \cup {job[r].session}
  ELSE Goes(r, [pc |-> "failed", who |-> job[r].who]) /\ UNCHANGED proved

VerifyTotp(r) ==
  /\ At(r, "secret")
  /\ Verified(r, accounts[job[r].who].by = job[r].factor.by)
  /\ UNCHANGED <<now, tables, spent, deaths>>

\* Mutant of Spendable: used_at is not looked at.
SpendableAgain(c) == c \in codes

Spendable(c) == c \in codes \ used

\* verify_recovery(): one UPDATE ... RETURNING finds the code and dates it.
SpendCode(r) ==
  /\ At(r, "recovery")
  /\ LET c == [who |-> job[r].who, by |-> job[r].factor.by, n |-> job[r].factor.n]
     IN  /\ used' = IF Spendable(c) THEN used \cup {c} ELSE used
         /\ spent' = IF Spendable(c) THEN spent \cup {<<c, r>>} ELSE spent
         /\ Verified(r, Spendable(c))
  /\ UNCHANGED <<now, accounts, codes, sessions, invitations, failures, deaths>>

\* Mutant of Promotable: the deadline is left to the reader of the session.
PromotableLate(s) == sessions[s].pending

Promotable(s) == sessions[s].pending /\ now < sessions[s].expires

\* promote_session().  _finish() answers "done" whatever it returns.
Promote(r) ==
  /\ At(r, "promote")
  /\ LET s == job[r].session
     IN  sessions' = IF Promotable(s)
                     THEN Put(sessions, s, [who |-> sessions[s].who, pending |-> FALSE,
                                            expires |-> now + SessionLifetime,
                                            revoked |-> sessions[s].revoked])
                     ELSE sessions
  /\ Goes(r, Done)
  /\ UNCHANGED <<now, accounts, codes, used, invitations, failures, proved, spent, deaths>>

\* POST /logout: revoke_session().
Logout(r, s) ==
  /\ At(r, "idle") /\ s \in DOMAIN sessions
  /\ sessions' = [sessions EXCEPT ![s].revoked = TRUE]
  /\ Goes(r, Done)
  /\ UNCHANGED <<now, accounts, codes, used, invitations, failures, proved, spent, deaths>>

-----------------------------------------------------------------------------
(* Invitations: admin invite and reissue, GET and POST /invitation.        *)

Invite(r, who) ==
  /\ At(r, "idle")
  /\ Goes(r, [pc |-> "issue", who |-> who])
  /\ UNCHANGED <<now, tables, proved, spent, deaths>>

\* cmd_reissue(): every session of the account, then issue_invitation().
Reissue(r, who) ==
  /\ At(r, "idle") /\ who \in DOMAIN accounts
  /\ sessions' = [s \in DOMAIN sessions |->
                    [sessions[s] EXCEPT !.revoked = @ \/ sessions[s].who = who]]
  /\ Goes(r, [pc |-> "issue", who |-> who])
  /\ UNCHANGED <<now, accounts, codes, used, invitations, failures, proved, spent, deaths>>

IssueInvitation(r) ==
  /\ At(r, "issue")
  /\ invitations' = Put(invitations, r, [who |-> job[r].who, expires |-> now + InvitationLifetime,
                                         opened |-> FALSE, consumed |-> FALSE])
  /\ Goes(r, Done)
  /\ UNCHANGED <<now, accounts, codes, used, sessions, failures, proved, spent, deaths>>

\* invitation_state() is "issued" or "open".
Usable(i) == ~ invitations[i].consumed /\ now < invitations[i].expires

\* inspect_invitation(mark_open=True): a read, and a write if it was issued.
Look(r, i) ==
  /\ At(r, "idle") /\ i \in DOMAIN invitations
  /\ Usable(i) /\ ~ invitations[i].opened
  /\ Goes(r, [pc |-> "mark", link |-> i])
  /\ UNCHANGED <<now, tables, proved, spent, deaths>>

MarkOpen(r) ==
  /\ At(r, "mark")
  /\ invitations' = [invitations EXCEPT ![job[r].link].opened = TRUE]
  /\ Goes(r, Done)
  /\ UNCHANGED <<now, accounts, codes, used, sessions, failures, proved, spent, deaths>>

\* consume_invitation(): the link is inspected,
Accept(r, i) ==
  /\ At(r, "idle") /\ i \in DOMAIN invitations
  /\ Goes(r, IF Usable(i) THEN [pc |-> "count", who |-> invitations[i].who, link |-> i] ELSE Done)
  /\ UNCHANGED <<now, tables, proved, spent, deaths>>

\* the accounts are counted,
CountAccounts(r) ==
  /\ At(r, "count")
  /\ Goes(r, [pc |-> "upsert", who |-> job[r].who, link |-> job[r].link,
              first |-> accounts = << >>])
  /\ UNCHANGED <<now, tables, proved, spent, deaths>>

\* a conflict keeps is_owner,
Enrolled(r) ==
  [by |-> r, owner |-> IF job[r].who \in DOMAIN accounts THEN accounts[job[r].who].owner
                       ELSE job[r].first]

UpsertAccount(r) ==
  /\ At(r, "upsert")
  /\ accounts' = Put(accounts, job[r].who, Enrolled(r))
  /\ Goes(r, [pc |-> "codes", who |-> job[r].who, link |-> job[r].link, n |-> 1])
  /\ UNCHANGED <<now, codes, used, sessions, invitations, failures, proved, spent, deaths>>

\* Mutant of AllStored: the link is consumed before the last code is stored.
AllStoredButOne(n) == n >= CodesPer

AllStored(n) == n > CodesPer

\* the codes are stored one by one,
StoreCode(r) ==
  /\ At(r, "codes") /\ ~ AllStored(job[r].n)
  /\ codes' = codes \cup {[who |-> job[r].who, by |-> r, n |-> job[r].n]}
  /\ Goes(r, [pc |-> "codes", who |-> job[r].who, link |-> job[r].link, n |-> job[r].n + 1])
  /\ UNCHANGED <<now, accounts, used, sessions, invitations, failures, proved, spent, deaths>>

\* and the link is consumed; accept() then opens a pending session.
ConsumeInvitation(r) ==
  /\ At(r, "codes") /\ AllStored(job[r].n)
  /\ invitations' = [invitations EXCEPT ![job[r].link].consumed = TRUE]
  /\ Goes(r, [pc |-> "open", who |-> job[r].who, life |-> EnrolLife])
  /\ UNCHANGED <<now, accounts, codes, used, sessions, failures, proved, spent, deaths>>

-----------------------------------------------------------------------------

\* The handler ends where it is: what it wrote stays written.
Dies(r) ==
  /\ job[r].pc \notin {"idle", "told", "done"} /\ deaths < MaxDeaths
  /\ Goes(r, Done)
  /\ deaths' = deaths + 1
  /\ UNCHANGED <<now, tables, proved, spent>>

Tick ==
  /\ now < MaxTime
  /\ now' = now + 1
  /\ UNCHANGED <<tables, job, proved, spent, deaths>>

SignsIn(r) ==
  \/ \E who \in Identifier, pw \in Enrolment : Login(r, who, pw)
  \/ AnswerLocked(r) \/ VerifyPassword(r) \/ RecordFailure(r) \/ OpenSession(r)
  \/ \E s \in DOMAIN sessions, f \in Factor : Finish(r, s, f)
  \/ TotpLockout(r) \/ VerifyTotp(r) \/ SpendCode(r) \/ Promote(r)
  \/ \E s \in DOMAIN sessions : Logout(r, s)

Enrols(r) ==
  \/ \E who \in Identifier : Invite(r, who) \/ Reissue(r, who)
  \/ IssueInvitation(r)
  \/ \E i \in DOMAIN invitations : Look(r, i) \/ Accept(r, i)
  \/ MarkOpen(r) \/ CountAccounts(r) \/ UpsertAccount(r) \/ StoreCode(r) \/ ConsumeInvitation(r)

Next ==
  \/ \E r \in Request : SignsIn(r) \/ Enrols(r) \/ Dies(r)
  \/ Tick

Spec == Init /\ [][Next]_vars
-----------------------------------------------------------------------------
(* Properties.                                                             *)

\* Whatever handlers overlap or end half way, a session that grants is one whose
\* second factor was verified (identity_pg.py:178-183, 006_pending_session.sql:1-6).
GrantNeedsSecondFactor == \A s \in DOMAIN sessions : Grants(s) => s \in proved

\* A recovery code lets one request through, however many bring it at once and
\* whatever becomes of the one it let through (identity_pg.py:130-134).
CodeSpentOnce == \A a, b \in spent : a[1] = b[1] => a = b

\* A session revoked, or past its deadline, never grants from then on: not even if
\* its second factor was being verified meanwhile (identity_pg.py:184-204).
EndedStaysEnded ==
  [][\A s \in DOMAIN sessions : ~ Alive(s) => ~ Grants(s)']_vars

\* A consumed link was consumed by an enrolment that left the account and all of
\* its codes: a failed write does not burn it (identity_pg.py:260-261).
ConsumedMeansEnrolled ==
  \A i \in DOMAIN invitations :
    invitations[i].consumed =>
      \E r \in Request :
        { [who |-> invitations[i].who, by |-> r, n |-> n] : n \in 1 .. CodesPer } \subseteq codes

\* The end of a lockout that a 429 announces is kept: from that instant, without a
\* further failure, the account is not locked, also when attempts that had passed
\* the check were recorded beyond the limit (domain/identity.py:39-49).
UntilHolds ==
  \A r \in Request :
    At(r, "told") /\ now >= job[r].until /\ failures[job[r].who] = job[r].when
      => ~ Locked(job[r].who)

-----------------------------------------------------------------------------
(* Expected by the sources and not so: the README tells each.              *)

\* "an invitation link that is actually single use" (identity_pg.py:5-6).
LinkIsSingleUse ==
  \A a, b \in Request :
    At(a, "codes") /\ At(b, "codes") /\ job[a].link = job[b].link => a = b

\* "replace an account's authenticator and codes" (admin.py:94).
ReissueReplacesCodes ==
  (\A r \in Request : job[r].pc \in {"idle", "told", "done"} /\ deaths = 0)
    => \A c \in codes \ used : c.by = accounts[c.who].by

\* "done" means signed in (routes_auth.py:131-134).
DoneGrants ==
  [][\A r \in Request, s \in DOMAIN sessions :
       /\ At(r, "promote") /\ job[r].session = s
       /\ job'[r] = Done /\ deaths' = deaths
       => Grants(s)']_vars

\* "A single-node panel has an owner" (005_identity.sql:43-44).
OneOwner ==
  Cardinality({ who \in DOMAIN accounts : accounts[who].owner }) <= 1
=============================================================================
