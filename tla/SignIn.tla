------------------------------- MODULE SignIn -------------------------------
(***************************************************************************)
(* How a person gets a session, and how it is taken away: log-in with a    *)
(* password and the throttle in front of it, single sign-on, passwords     *)
(* issued by administrators, changed by their owners or set through a      *)
(* mailed link (internal/app/auth.go, security.go, mail.go,                *)
(* admin_users.go).                                                        *)
(*                                                                         *)
(* A request is several statements, each a step; what a transaction has    *)
(* written appears with its commit, and until then it holds the rows.  A   *)
(* request that is refused where it starts is no step.  Passwords are      *)
(* reduced to who has chosen them.                                         *)
(***************************************************************************)
EXTENDS Integers, FiniteSets

CONSTANTS
  Accounts,      \* rows of users, and names that may become one
  SsoAccounts,   \* those with source 'oidc'
  Addresses,     \* of clients
  Tokens,        \* rows of sessions
  Links,         \* rows of password_resets
  Tickets,       \* rows of oidc_states
  Requests,      \* request handlers
  MaxAttempts,         \* security.login_max_attempts
  IpLockoutMultiplier, \* ipLockoutMultiplier
  AutoProvision,       \* oidc.auto_provision
  Nothing

ASSUME SignInAssumption ==
  /\ SsoAccounts \subseteq Accounts /\ Accounts \cap Addresses = {}
  /\ (Accounts \cup Addresses) \cap Tokens = {}
  /\ MaxAttempts \in Nat \ {0} /\ IpLockoutMultiplier \in Nat \ {0}
  /\ AutoProvision \in BOOLEAN
  /\ Nothing \notin Accounts \cup Addresses \cup Tokens \cup Links \cup Tickets
  /\ IsFiniteSet(Requests)

VARIABLES
  status,    \* of an account: absent, or users.active
  password,  \* users.password_hash: none, its owner's, or an administrator's
  mustChange,\* users.must_change_password
  owner,     \* sessions.user_id, Nothing when there is no such row
  link,      \* the row is absent, open, or used_at is set
  to,        \* password_resets.user_id
  ticket,    \* the row of oidc_states is absent, open or gone
  failures,  \* auth_throttle.failures of an account or address; 0 when there
             \* is no row, or its last failure is longer ago than the lock-out
  job,       \* how far a request is
  for,       \* the account it is about
  with,      \* the address, session, link or ticket it came with
  gone,      \* sessions and throttle rows it has deleted and not committed
  others,    \* links it has closed and not committed
  sets,      \* history: how often a link has set a password
  since,     \* history: the links used before this one was issued
  served     \* history: how many sessions a ticket has opened

accounts == <<status, password, mustChange>>
links == <<link, to, sets, since>>
tickets == <<ticket, served>>
request == <<job, for, with, gone, others>>
vars == <<accounts, owner, links, tickets, failures, request>>

-----------------------------------------------------------------------------

LocalAccounts == Accounts \ SsoAccounts
Keys == Accounts \cup Addresses
Job ==
  {"idle", "comparing", "failed", "counted", "right", "opened", "changing",
   "changed", "found", "marked", "set", "closing", "issuing", "mailed",
   "returned", "provisioned"}

Init ==
  /\ status = [u \in Accounts |-> "absent"]
  /\ password = [u \in Accounts |-> "none"]
  /\ mustChange = [u \in Accounts |-> FALSE]
  /\ owner = [t \in Tokens |-> Nothing]
  /\ link = [l \in Links |-> "absent"]
  /\ to = [l \in Links |-> Nothing]
  /\ ticket = [s \in Tickets |-> "absent"]
  /\ failures = [k \in Keys |-> 0]
  /\ job = [r \in Requests |-> "idle"]
  /\ for = [r \in Requests |-> Nothing] /\ with = [r \in Requests |-> Nothing]
  /\ gone = [r \in Requests |-> {}] /\ others = [r \in Requests |-> {}]
  /\ sets = [l \in Links |-> 0] /\ since = [l \in Links |-> {}]
  /\ served = [s \in Tickets |-> 0]

SessionsOf(u) == {t \in Tokens : owner[t] = u}
UnusedLinks(u) == {l \in Links : link[l] = "open" /\ to[l] = u}

(* Mutant: the account is updated after its other links. *)
HoldsAccountLate(r, u) == job[r] \in {"closing", "issuing"} /\ for[r] = u

(* The rows of users and password_resets a transaction has changed. *)
HoldsAccount(r, u) == job[r] \in {"set", "closing", "issuing"} /\ for[r] = u
HoldsLink(r, l) ==
  /\ job[r] \in {"marked", "set", "closing"}
  /\ with[r] = l \/ l \in others[r]
AccountFree(u) == \A q \in Requests : ~HoldsAccount(q, u)
LinkFree(l) == \A q \in Requests : ~HoldsLink(q, l)
RowFree(k) == \A q \in Requests : k \notin gone[q]

Begin(r, j, u, w) ==
  /\ job[r] = "idle"
  /\ job' = [job EXCEPT ![r] = j]
  /\ for' = [for EXCEPT ![r] = u]
  /\ with' = [with EXCEPT ![r] = w]
  /\ UNCHANGED <<gone, others>>

Proceed(r, from, j) ==
  /\ job[r] = from
  /\ job' = [job EXCEPT ![r] = j]
  /\ UNCHANGED <<for, with, gone, others>>

End(r) ==
  /\ job' = [job EXCEPT ![r] = "idle"]
  /\ for' = [for EXCEPT ![r] = Nothing]
  /\ with' = [with EXCEPT ![r] = Nothing]
  /\ gone' = [gone EXCEPT ![r] = {}]
  /\ others' = [others EXCEPT ![r] = {}]

(* A statement fails, an answer is an error, the client or the process goes  *)
(* away: what is not committed is rolled back, no later statement is run.    *)
Abandon(r) ==
  job[r] # "idle" /\ End(r) /\ UNCHANGED <<accounts, owner, links, tickets, failures>>

-----------------------------------------------------------------------------
(* Log-in with a password: localLogin, issueSession and the throttle. *)

Threshold(k) == IF k \in Addresses THEN MaxAttempts * IpLockoutMultiplier ELSE MaxAttempts

(* Mutant: the lock comes one failure late. *)
LockedLate(k) == failures[k] > Threshold(k)

(* locked_until is set to the end of the lock-out with every failure from     *)
(* the threshold on; a window ends the lock-out after the last failure: while *)
(* the setting is not changed, a lock and its window end together.            *)
Locked(k) == failures[k] >= Threshold(k)

(* loginLock finds no lock in force for either of loginThrottleKeys. *)
Attempt(r, u, a) ==
  /\ ~Locked(u) /\ ~Locked(a)
  /\ Begin(r, "comparing", u, a)
  /\ UNCHANGED <<accounts, owner, links, tickets, failures>>

(* Only an active account with a password hash can be right. *)
Right(r) ==
  /\ Proceed(r, "comparing", "right")
  /\ status[for[r]] = "active" /\ password[for[r]] # "none"
  /\ UNCHANGED <<accounts, owner, links, tickets, failures>>

Wrong(r) ==
  /\ Proceed(r, "comparing", "failed")
  /\ UNCHANGED <<accounts, owner, links, tickets, failures>>

(* The upsert of recordLoginFailure for one key. *)
Count(k) == RowFree(k) /\ failures' = [failures EXCEPT ![k] = @ + 1]

CountForAddress(r) ==
  /\ Proceed(r, "failed", "counted") /\ Count(with[r])
  /\ UNCHANGED <<accounts, owner, links, tickets>>

CountForAccount(r) ==
  /\ job[r] = "counted" /\ Count(for[r]) /\ End(r)
  /\ UNCHANGED <<accounts, owner, links, tickets>>

(* issueSession: the token is random, so nobody else's. *)
OpenSession(r, t) ==
  /\ owner[t] = Nothing /\ \A q \in Requests : with[q] # t /\ t \notin gone[q]
  /\ owner' = [owner EXCEPT ![t] = for[r]]
  /\ Proceed(r, "right", "opened")
  /\ UNCHANGED <<accounts, links, tickets, failures>>

(* clearLoginFailures: one DELETE of both rows. *)
Forgotten(K) == failures' = [k \in Keys |-> IF k \in K THEN 0 ELSE failures[k]]

ClearFailures(r) ==
  /\ job[r] = "opened" /\ RowFree(for[r])
  /\ Forgotten({for[r], with[r]}) /\ End(r)
  /\ UNCHANGED <<accounts, owner, links, tickets>>

(* The lock-out has passed since the last failure: the next one counts as    *)
(* the first, and the row is cleaned away some time.                         *)
Lapse(k) ==
  /\ failures[k] > 0
  /\ failures' = [failures EXCEPT ![k] = 0]
  /\ UNCHANGED <<accounts, owner, links, tickets, request>>

-----------------------------------------------------------------------------
(* Sessions and passwords of who is signed in. *)

(* logout, or the row is past expires_at and cleaned away. *)
EndSession(t) ==
  /\ owner[t] # Nothing
  /\ owner' = [owner EXCEPT ![t] = Nothing]
  /\ UNCHANGED <<accounts, links, tickets, failures, request>>

(* changePassword, also with a password that has to be changed: the current  *)
(* one is compared with what the account has now.                            *)
VerifyChange(r, t) ==
  /\ owner[t] # Nothing /\ status[owner[t]] = "active"
  /\ owner[t] \in LocalAccounts /\ password[owner[t]] # "none"
  /\ Begin(r, "changing", owner[t], t)
  /\ UNCHANGED <<accounts, owner, links, tickets, failures>>

(* UPDATE ... WHERE id: whatever the password is by now. *)
SetOwnPassword(r) ==
  /\ AccountFree(for[r])
  /\ Proceed(r, "changing", "changed")
  /\ password' = [password EXCEPT ![for[r]] = "own"]
  /\ mustChange' = [mustChange EXCEPT ![for[r]] = FALSE]
  /\ UNCHANGED <<status, owner, links, tickets, failures>>

Without(T) == [t \in Tokens |-> IF t \in T THEN Nothing ELSE owner[t]]

EndOtherSessions(r) ==
  /\ job[r] = "changed" /\ End(r)
  /\ owner' = Without(SessionsOf(for[r]) \ {with[r]})
  /\ UNCHANGED <<accounts, links, tickets, failures>>

-----------------------------------------------------------------------------
(* Links by mail. *)

(* issuePasswordReset: the INSERT, for who may have a link. *)
Issued(l, u) ==
  /\ u \in LocalAccounts /\ status[u] = "active" /\ link[l] = "absent"
  /\ link' = [link EXCEPT ![l] = "open"]
  /\ to' = [to EXCEPT ![l] = u]
  /\ since' = [since EXCEPT ![l] =
       {k \in Links : sets[k] > 0 \/ \E q \in Requests : job[q] = "closing" /\ with[q] = k}]
  /\ UNCHANGED sets

(* requestPasswordReset: Links stands for the limit of requests. *)
RequestLink(l, u) ==
  Issued(l, u) /\ UNCHANGED <<accounts, owner, tickets, failures, request>>

(* resetUserPassword with viaEmail: the sessions end when the mail is sent,  *)
(* and stay, with the link, when it cannot be sent.                          *)
MailLink(r, l, u) ==
  /\ Issued(l, u) /\ Begin(r, "mailed", u, Nothing)
  /\ UNCHANGED <<accounts, owner, tickets, failures>>

EndSessions(r) ==
  /\ job[r] = "mailed" /\ End(r)
  /\ owner' = Without(SessionsOf(for[r]))
  /\ UNCHANGED <<accounts, links, tickets, failures>>

(* completePasswordReset: lookupPasswordReset before the transaction.  When a *)
(* link has expired nobody finds it any more; its row stays unused.          *)
FindLink(r, l) ==
  /\ link[l] = "open" /\ status[to[l]] = "active"
  /\ Begin(r, "found", to[l], l)
  /\ UNCHANGED <<accounts, owner, links, tickets, failures>>

(* Mutant: AND used_at IS NULL is left out. *)
MarkAnyLink(r) ==
  /\ LinkFree(with[r])
  /\ Proceed(r, "found", "marked")
  /\ UNCHANGED <<accounts, owner, links, tickets, failures>>

(* SET used_at ... WHERE used_at IS NULL: when the row is locked, this waits *)
(* and looks again.  A link that is used by then is refused (Abandon).       *)
MarkLink(r) ==
  /\ Proceed(r, "found", "marked")
  /\ LinkFree(with[r]) /\ link[with[r]] = "open"
  /\ UNCHANGED <<accounts, owner, links, tickets, failures>>

Deleted(u) == SessionsOf(u) \cup {k \in {u} : failures[k] > 0}

(* The account's row is updated; sessions and throttle row are deleted. *)
SetPassword(r) ==
  /\ job[r] = "marked" /\ AccountFree(for[r])
  /\ job' = [job EXCEPT ![r] = "set"]
  /\ gone' = [gone EXCEPT ![r] = Deleted(for[r])]
  /\ UNCHANGED <<accounts, owner, links, tickets, failures, for, with, others>>

(* SET used_at ... WHERE user_id AND used_at IS NULL, of the other links. *)
CloseOthers(r) ==
  LET rest == UnusedLinks(for[r]) \ {with[r]}
  IN  /\ job[r] = "set" /\ \A l \in rest : LinkFree(l)
      /\ job' = [job EXCEPT ![r] = "closing"]
      /\ others' = [others EXCEPT ![r] = rest]
      /\ UNCHANGED <<accounts, owner, links, tickets, failures, for, with, gone>>

CommitReset(r) ==
  LET u == for[r]
      l == with[r]
  IN  /\ job[r] = "closing" /\ End(r)
      /\ password' = [password EXCEPT ![u] = "own"]
      /\ mustChange' = [mustChange EXCEPT ![u] = FALSE]
      /\ owner' = Without(gone[r])
      /\ Forgotten(gone[r])
      /\ link' = [k \in Links |-> IF k \in others[r] \cup {l} THEN "used" ELSE link[k]]
      /\ sets' = [sets EXCEPT ![l] = @ + 1]
      /\ UNCHANGED <<status, to, since, tickets>>

-----------------------------------------------------------------------------
(* Administrators. *)

(* createUser, and EnsureBootstrapAdmin for the first one. *)
CreateUser(u) ==
  /\ u \in LocalAccounts /\ status[u] = "absent"
  /\ status' = [status EXCEPT ![u] = "active"]
  /\ password' = [password EXCEPT ![u] = "temporary"]
  /\ mustChange' = [mustChange EXCEPT ![u] = TRUE]
  /\ UNCHANGED <<owner, links, tickets, failures, request>>

EnsureBootstrapAdmin(u) ==
  /\ u \in LocalAccounts /\ status[u] = "absent"
  /\ status' = [status EXCEPT ![u] = "active"]
  /\ password' = [password EXCEPT ![u] = "own"]
  /\ mustChange' = [mustChange EXCEPT ![u] = FALSE]
  /\ UNCHANGED <<owner, links, tickets, failures, request>>

(* resetUserPassword: the three statements of its transaction. *)
IssueTemporary(r, u) ==
  /\ job[r] = "idle" /\ AccountFree(u)
  /\ u \in LocalAccounts /\ status[u] # "absent"
  /\ job' = [job EXCEPT ![r] = "issuing"]
  /\ for' = [for EXCEPT ![r] = u]
  /\ gone' = [gone EXCEPT ![r] = Deleted(u)]
  /\ UNCHANGED <<accounts, owner, links, tickets, failures, with, others>>

(* Mutant: must_change_password is not set. *)
CommitForGood(r) ==
  /\ job[r] = "issuing" /\ End(r)
  /\ password' = [password EXCEPT ![for[r]] = "temporary"]
  /\ owner' = Without(gone[r])
  /\ Forgotten(gone[r])
  /\ UNCHANGED <<status, mustChange, links, tickets>>

CommitTemporary(r) ==
  /\ job[r] = "issuing" /\ End(r)
  /\ password' = [password EXCEPT ![for[r]] = "temporary"]
  /\ mustChange' = [mustChange EXCEPT ![for[r]] = TRUE]
  /\ owner' = Without(gone[r])
  /\ Forgotten(gone[r])
  /\ UNCHANGED <<status, links, tickets>>

(* updateUser with active: sessions stay, and do not serve meanwhile. *)
SetActive(u) ==
  /\ status[u] # "absent" /\ AccountFree(u)
  /\ status' = [status EXCEPT ![u] = IF @ = "active" THEN "inactive" ELSE "active"]
  /\ UNCHANGED <<password, mustChange, owner, links, tickets, failures, request>>

(* The part of revokeUserSessions that is about sessions. *)
RevokeUserSessions(u) ==
  /\ SessionsOf(u) # {}
  /\ owner' = Without(SessionsOf(u))
  /\ UNCHANGED <<accounts, links, tickets, failures, request>>

-----------------------------------------------------------------------------
(* Single sign-on. *)

OidcStart(s) ==
  /\ ticket[s] = "absent"
  /\ ticket' = [ticket EXCEPT ![s] = "open"]
  /\ UNCHANGED <<accounts, owner, links, served, failures, request>>

(* The browser comes back with an error, or the ten minutes have passed. *)
DropTicket(s) ==
  /\ ticket[s] = "open"
  /\ ticket' = [ticket EXCEPT ![s] = "gone"]
  /\ UNCHANGED <<accounts, owner, links, served, failures, request>>

(* Mutant: the row is read, and not deleted. *)
ReadTicket(r, s) ==
  /\ ticket[s] = "open" /\ Begin(r, "returned", Nothing, s)
  /\ UNCHANGED <<accounts, owner, links, tickets, failures>>

(* oidcCallback: DELETE ... RETURNING, before the provider is asked. *)
TakeTicket(r, s) ==
  /\ ticket[s] = "open" /\ Begin(r, "returned", Nothing, s)
  /\ ticket' = [ticket EXCEPT ![s] = "gone"]
  /\ UNCHANGED <<accounts, owner, links, served, failures>>

(* The provider names an account, which is made when it may be.  A name that *)
(* belongs to a local account is refused (upsertOIDCUser).  Whether the      *)
(* account is active is only asked when none are made.                       *)
Provision(r, u) ==
  /\ job[r] = "returned" /\ u \in SsoAccounts /\ AccountFree(u)
  /\ AutoProvision \/ status[u] = "active"
  /\ status' = [status EXCEPT ![u] = IF @ = "absent" THEN "active" ELSE @]
  /\ job' = [job EXCEPT ![r] = "provisioned"]
  /\ for' = [for EXCEPT ![r] = u]
  /\ UNCHANGED <<password, mustChange, owner, links, tickets, failures, with, gone, others>>

OpenSsoSession(r, t) ==
  /\ job[r] = "provisioned"
  /\ owner[t] = Nothing /\ \A q \in Requests : with[q] # t /\ t \notin gone[q]
  /\ owner' = [owner EXCEPT ![t] = for[r]]
  /\ served' = [served EXCEPT ![with[r]] = @ + 1]
  /\ End(r)
  /\ UNCHANGED <<accounts, links, ticket, failures>>

-----------------------------------------------------------------------------

Step(r) ==
  \/ Abandon(r)
  \/ Right(r) \/ Wrong(r) \/ CountForAddress(r) \/ CountForAccount(r)
  \/ ClearFailures(r)
  \/ SetOwnPassword(r) \/ EndOtherSessions(r) \/ EndSessions(r)
  \/ MarkLink(r) \/ SetPassword(r) \/ CloseOthers(r) \/ CommitReset(r)
  \/ CommitTemporary(r)

Next ==
  \/ \E r \in Requests : Step(r)
  \/ \E r \in Requests, u \in Accounts, a \in Addresses : Attempt(r, u, a)
  \/ \E r \in Requests, t \in Tokens :
       OpenSession(r, t) \/ VerifyChange(r, t) \/ OpenSsoSession(r, t)
  \/ \E r \in Requests, l \in Links : FindLink(r, l)
  \/ \E r \in Requests, l \in Links, u \in Accounts : MailLink(r, l, u)
  \/ \E r \in Requests, u \in Accounts : IssueTemporary(r, u) \/ Provision(r, u)
  \/ \E r \in Requests, s \in Tickets : TakeTicket(r, s)
  \/ \E k \in Keys : Lapse(k)
  \/ \E t \in Tokens : EndSession(t)
  \/ \E l \in Links, u \in Accounts : RequestLink(l, u)
  \/ \E u \in Accounts :
       \/ CreateUser(u) \/ EnsureBootstrapAdmin(u)
       \/ SetActive(u) \/ RevokeUserSessions(u)
  \/ \E s \in Tickets : OidcStart(s) \/ DropTicket(s)

Spec == Init /\ [][Next]_vars

-----------------------------------------------------------------------------

(* Every variable has its type. *)
TypeOK ==
  /\ status \in [Accounts -> {"absent", "active", "inactive"}]
  /\ password \in [Accounts -> {"none", "own", "temporary"}]
  /\ mustChange \in [Accounts -> BOOLEAN]
  /\ owner \in [Tokens -> Accounts \cup {Nothing}]
  /\ link \in [Links -> {"absent", "open", "used"}]
  /\ to \in [Links -> Accounts \cup {Nothing}]
  /\ ticket \in [Tickets -> {"absent", "open", "gone"}]
  /\ failures \in [Keys -> Nat]
  /\ job \in [Requests -> Job]
  /\ for \in [Requests -> Accounts \cup {Nothing}]
  /\ with \in [Requests -> Addresses \cup Tokens \cup Links \cup Tickets \cup {Nothing}]
  /\ gone \in [Requests -> SUBSET (Tokens \cup Accounts)]
  /\ others \in [Requests -> SUBSET Links]
  /\ sets \in [Links -> Nat] /\ since \in [Links -> SUBSET Links]
  /\ served \in [Tickets -> Nat]

(* A request in the middle of a handler knows what the handler is about, and *)
(* what it has locked is as it was.                                          *)
RequestAgrees(r) ==
  /\ job[r] # "idle" => for[r] # Nothing \/ job[r] = "returned"
  /\ job[r] \in {"comparing", "failed", "counted", "right", "opened"} =>
       with[r] \in Addresses
  /\ job[r] \in {"changing", "changed", "mailed", "issuing"} => for[r] \in LocalAccounts
  /\ job[r] \in {"found", "marked", "set", "closing"} =>
       /\ with[r] \in Links /\ link[with[r]] # "absent"
       /\ for[r] = to[with[r]] /\ for[r] \in LocalAccounts
  /\ job[r] \in {"marked", "set", "closing"} => link[with[r]] = "open"
  /\ gone[r] # {} => job[r] \in {"set", "closing", "issuing"}
  /\ others[r] # {} =>
       job[r] = "closing" /\ others[r] \subseteq UnusedLinks(for[r]) \ {with[r]}
  /\ job[r] \in {"returned", "provisioned"} => with[r] \in Tickets
  /\ job[r] = "provisioned" => for[r] \in SsoAccounts

LocksExclude ==
  \A r, q \in Requests : r # q =>
    /\ \A u \in Accounts : ~(HoldsAccount(r, u) /\ HoldsAccount(q, u))
    /\ \A l \in Links : ~(HoldsLink(r, l) /\ HoldsLink(q, l))

(* Links are for local accounts, and only a used one has set a password. *)
LinksAgree ==
  \A l \in Links :
    /\ link[l] # "absent" => to[l] \in LocalAccounts
    /\ sets[l] > 0 => link[l] = "used"

(* A password an administrator knows has to be changed, no other has; single *)
(* sign-on accounts have none, so no log-in is right for them.               *)
PasswordsAgree ==
  /\ \A u \in Accounts : mustChange[u] <=> password[u] = "temporary"
  /\ \A u \in SsoAccounts : password[u] = "none"

(* What is not closed with a link has been issued after it was used. *)
LaterLinksOnly ==
  /\ \A r \in Requests : job[r] = "closing" =>
       \A k \in UnusedLinks(for[r]) : k = with[r] \/ k \in others[r] \/ with[r] \in since[k]
  /\ \A l \in Links : sets[l] > 0 => \A k \in UnusedLinks(to[l]) : l \in since[k]

(* A link sets one password ("한 번만 유효", ADMIN_GUIDE), however often the *)
(* form is sent at the same time; and of several links for one account that  *)
(* are open together, asked for by the user or sent by administrators, one   *)
(* does: whoever finds an old mail cannot undo what a newer one has done.    *)
(* completePasswordReset looks the link up before its transaction, so this   *)
(* rests on the conditions of its two updates and on their row locks.        *)
OneResetPerRound ==
  /\ \A l \in Links : sets[l] <= 1
  /\ \A k, l \in Links :
       (k # l /\ to[k] = to[l] /\ sets[k] > 0 /\ sets[l] > 0) =>
         k \in since[l] \/ l \in since[k]

(* Requests past the lock whose failure, if it is one, is not yet counted. *)
Pending(k) ==
  {r \in Requests : \/ job[r] \in {"comparing", "failed"} /\ k \in {for[r], with[r]}
                    \/ job[r] = "counted" /\ k = for[r]}

(* The lock is looked up before the password is compared and the failure is  *)
(* counted afterwards, so requests that overlap pass the lock together: but  *)
(* within one window no account and no address gets further than one try     *)
(* short of its threshold plus one per request at the same time.             *)
AttemptsBounded ==
  \A k \in Keys :
    failures[k] + Cardinality(Pending(k)) < Threshold(k) + Cardinality(Requests)

(* However often and however close together the browser comes back with it,  *)
(* a ticket opens one session: the second answer of the provider is nobody's.*)
TicketServesOnce == \A s \in Tickets : served[s] <= 1

TicketsAgree ==
  \A s \in Tickets :
    LET Back == {r \in Requests : job[r] \in {"returned", "provisioned"} /\ with[r] = s}
    IN  /\ \A r, q \in Back : r = q
        /\ Back # {} => ticket[s] = "gone" /\ served[s] = 0
        /\ served[s] > 0 => ticket[s] = "gone"

(* Inductive: what the theorems rest on. *)
IInv ==
  /\ TypeOK /\ LocksExclude /\ LinksAgree /\ PasswordsAgree /\ LaterLinksOnly
  /\ OneResetPerRound /\ AttemptsBounded
  /\ TicketServesOnce /\ TicketsAgree
  /\ \A r \in Requests : RequestAgrees(r)

(* The next statement of r has to wait for q. *)
WaitsFor(r, q) ==
  \/ job[r] = "found" /\ HoldsLink(q, with[r])
  \/ job[r] \in {"marked", "changing"} /\ HoldsAccount(q, for[r])
  \/ job[r] = "set" /\ \E l \in UnusedLinks(for[r]) \ {with[r]} : HoldsLink(q, l)
  \/ job[r] \in {"counted", "opened"} /\ for[r] \in gone[q]

(* Requests that wait for each other in a circle, until PostgreSQL fails one *)
(* of them, are two completions with different links of one account: the one *)
(* wants the account, the other the first one's link.  Log-ins, changes and  *)
(* resets by administrators wait, but nobody waits for them in turn.         *)
OnlyTwoLinksBlock ==
  \A S \in SUBSET Requests :
    (S # {} /\ \A r \in S : \E q \in S : q # r /\ WaitsFor(r, q)) =>
      \E r, q \in S :
        /\ job[r] = "marked" /\ job[q] = "set" /\ for[r] = for[q]
        /\ with[r] # with[q]
=============================================================================
