------------------------------- MODULE ApiKeys -------------------------------
(***************************************************************************)
(* Personal API keys (internal/app/keys.go): issue up to a limit, rotation *)
(* with a time of grace for the old key, changes of scope, revocation, the *)
(* look-up that lets a session or a key in (authenticated in auth.go), and *)
(* the end of everything an account has (revokeUserSessions in             *)
(* admin_users.go).                                                        *)
(*                                                                         *)
(* A request is let in first and does its statements then, each a step; no *)
(* statement looks at the credential again.  The scopes an administrator   *)
(* allows only refuse more, so a refusal by them is a request that does    *)
(* not go on.                                                              *)
(***************************************************************************)
EXTENDS Integers, FiniteSets

CONSTANTS
  Users,
  Sessions,   \* rows of sessions
  ApiKeys,    \* rows of api_keys
  Requests,   \* request handlers
  MaxActive,  \* security.api_key_max_active
  Nothing

ASSUME KeysAssumption ==
  /\ MaxActive \in Nat \ {0} /\ IsFiniteSet(Requests) /\ IsFiniteSet(ApiKeys)
  /\ Nothing \notin Users \cup ApiKeys

VARIABLES
  active,   \* users.active
  session,  \* sessions.user_id, Nothing when there is no such row
  owner,    \* api_keys.user_id, Nothing when there is no such row
  state,    \* active; grace: revoked_at is set and grace_until is to come;
            \* revoked: without grace, or after it; expired: expires_at is past
  writes,   \* api_keys.scopes has 'write'
  from,     \* api_keys.rotated_from
  job,      \* how far a request is
  for,      \* whose request it is, or of an administrator: whom it is about
  key,      \* the row it has read
  took,     \* the scope it has read with it
  ended,    \* sessions and keys it has ended and not committed
  out       \* history: the account has been signed out everywhere, and has not
            \* logged in since

account == <<active, session, out>>
rows == <<owner, state, writes, from>>
request == <<job, for, key, took, ended>>
vars == <<account, rows, request>>

-----------------------------------------------------------------------------

Init ==
  /\ active = [u \in Users |-> TRUE]
  /\ session = [t \in Sessions |-> Nothing]
  /\ owner = [k \in ApiKeys |-> Nothing]
  /\ state = [k \in ApiKeys |-> "absent"]
  /\ writes = [k \in ApiKeys |-> FALSE]
  /\ from = [k \in ApiKeys |-> Nothing]
  /\ job = [r \in Requests |-> "idle"]
  /\ for = [r \in Requests |-> Nothing]
  /\ key = [r \in Requests |-> Nothing]
  /\ took = [r \in Requests |-> FALSE]
  /\ ended = [r \in Requests |-> {}]
  /\ out = [u \in Users |-> FALSE]

KeysOf(u) == {k \in ApiKeys : owner[k] = u}
Serves(k) == state[k] \in {"active", "grace"}
RowFree(x) == \A q \in Requests : x \notin ended[q]

Proceed(r, now, j) ==
  /\ job[r] = now
  /\ job' = [job EXCEPT ![r] = j]
  /\ UNCHANGED <<for, ended>>

End(r) ==
  /\ job' = [job EXCEPT ![r] = "idle"]
  /\ for' = [for EXCEPT ![r] = Nothing]
  /\ key' = [key EXCEPT ![r] = Nothing]
  /\ took' = [took EXCEPT ![r] = FALSE]
  /\ ended' = [ended EXCEPT ![r] = {}]

(* It is refused, or fails, and what it has not committed is rolled back. *)
Abandon(r) == job[r] # "idle" /\ End(r) /\ UNCHANGED <<account, rows>>

-----------------------------------------------------------------------------
(* authenticated *)

Enter(r, u) ==
  /\ job[r] = "idle"
  /\ job' = [job EXCEPT ![r] = "let in"]
  /\ for' = [for EXCEPT ![r] = u]
  /\ UNCHANGED <<account, rows, key, took, ended>>

EnterWithSession(r, t) ==
  session[t] # Nothing /\ active[session[t]] /\ Enter(r, session[t])

(* Every operation on keys is a change, and asks for the scope 'write'. *)
EnterWithKey(r, k) ==
  Serves(k) /\ active[owner[k]] /\ writes[k] /\ Enter(r, owner[k])

-----------------------------------------------------------------------------
(* createAPIKey *)

(* Mutant: one key more than the limit. *)
CountKeysLate(r) ==
  /\ Proceed(r, "let in", "creating")
  /\ Cardinality({k \in KeysOf(for[r]) : Serves(k)}) <= MaxActive
  /\ UNCHANGED <<account, rows, key, took>>

CountKeys(r) ==
  /\ Proceed(r, "let in", "creating")
  /\ Cardinality({k \in KeysOf(for[r]) : Serves(k)}) < MaxActive
  /\ UNCHANGED <<account, rows, key, took>>

Inserted(k, u, w, old) ==
  /\ state[k] = "absent"
  /\ owner' = [owner EXCEPT ![k] = u]
  /\ writes' = [writes EXCEPT ![k] = w]
  /\ from' = [from EXCEPT ![k] = old]

InsertKey(r, k, w) ==
  /\ job[r] = "creating"
  /\ Inserted(k, for[r], w, Nothing)
  /\ state' = [state EXCEPT ![k] = "active"]
  /\ End(r) /\ UNCHANGED account

-----------------------------------------------------------------------------
(* updateAPIKey and rotateAPIKey read the row, and write it by id alone. *)

(* Mutant: AND revoked_at IS NULL is left out. *)
ReadServingKey(r, k, j) ==
  /\ Proceed(r, "let in", j)
  /\ owner[k] = for[r] /\ Serves(k)
  /\ key' = [key EXCEPT ![r] = k]
  /\ took' = [took EXCEPT ![r] = writes[k]]
  /\ UNCHANGED <<account, rows>>

ReadKey(r, k, j) ==
  /\ Proceed(r, "let in", j)
  /\ owner[k] = for[r] /\ state[k] = "active"
  /\ key' = [key EXCEPT ![r] = k]
  /\ took' = [took EXCEPT ![r] = writes[k]]
  /\ UNCHANGED <<account, rows>>

UpdateKey(r, w) ==
  /\ job[r] = "updating" /\ RowFree(key[r])
  /\ writes' = [writes EXCEPT ![key[r]] = w]
  /\ End(r) /\ UNCHANGED <<account, owner, state, from>>

(* The old key is revoked with the grace g, which may be none, the new one   *)
(* inserted with its name, its scope and the next version, and both are      *)
(* committed.  The old one may be in grace, or revoked, by now.              *)
CommitRotation(r, k, g) ==
  /\ job[r] = "rotating" /\ RowFree(key[r])
  /\ Inserted(k, for[r], took[r], key[r])
  /\ state' = [state EXCEPT ![k] = "active",
                            ![key[r]] = IF @ = "expired" THEN @ ELSE g]
  /\ End(r) /\ UNCHANGED account

(* revokeAPIKey: one UPDATE ... WHERE revoked_at IS NULL. *)
RevokeKey(r, k) ==
  /\ job[r] = "let in" /\ owner[k] = for[r] /\ state[k] = "active" /\ RowFree(k)
  /\ state' = [state EXCEPT ![k] = "revoked"]
  /\ End(r) /\ UNCHANGED <<account, owner, writes, from>>

-----------------------------------------------------------------------------
(* revokeUserSessions: sessions are deleted and keys revoked that are not yet *)
(* revoked, in one transaction.                                              *)

EndEverything(r, u) ==
  /\ job[r] = "idle"
  /\ \A k \in KeysOf(u) : state[k] = "active" => RowFree(k)
  /\ \A t \in Sessions : session[t] = u => RowFree(t)
  /\ job' = [job EXCEPT ![r] = "ending"]
  /\ for' = [for EXCEPT ![r] = u]
  /\ ended' = [ended EXCEPT ![r] =
       {t \in Sessions : session[t] = u} \cup {k \in KeysOf(u) : state[k] = "active"}]
  /\ UNCHANGED <<account, rows, key, took>>

CommitEnd(r) ==
  /\ job[r] = "ending"
  /\ session' = [t \in Sessions |-> IF t \in ended[r] THEN Nothing ELSE session[t]]
  /\ state' = [k \in ApiKeys |->
       IF k \in ended[r] /\ state[k] = "active" THEN "revoked" ELSE state[k]]
  /\ out' = [out EXCEPT ![for[r]] = \A t \in Sessions : session[t] = for[r] => t \in ended[r]]
  /\ End(r) /\ UNCHANGED <<active, owner, writes, from>>

-----------------------------------------------------------------------------
(* What else happens to accounts, and time. *)

(* issueSession *)
LogIn(u, t) ==
  /\ active[u] /\ session[t] = Nothing
  /\ session' = [session EXCEPT ![t] = u]
  /\ out' = [out EXCEPT ![u] = FALSE]
  /\ UNCHANGED <<active, rows, request>>

(* logout, or the row is past expires_at. *)
EndSession(t) ==
  /\ session[t] # Nothing /\ RowFree(t)
  /\ session' = [session EXCEPT ![t] = Nothing]
  /\ UNCHANGED <<active, out, rows, request>>

(* updateUser: no session and no key changes, but none serves meanwhile. *)
SetActive(u) ==
  /\ active' = [active EXCEPT ![u] = ~@]
  /\ UNCHANGED <<session, out, rows, request>>

GracePasses(k) ==
  /\ state[k] = "grace"
  /\ state' = [state EXCEPT ![k] = "revoked"]
  /\ UNCHANGED <<account, owner, writes, from, request>>

Expire(k) ==
  /\ state[k] \in {"active", "grace"}
  /\ state' = [state EXCEPT ![k] = "expired"]
  /\ UNCHANGED <<account, owner, writes, from, request>>

Next ==
  \/ \E r \in Requests : Abandon(r) \/ CountKeys(r) \/ CommitEnd(r)
  \/ \E r \in Requests, t \in Sessions : EnterWithSession(r, t)
  \/ \E r \in Requests, k \in ApiKeys :
       \/ EnterWithKey(r, k) \/ RevokeKey(r, k)
       \/ \E j \in {"updating", "rotating"} : ReadKey(r, k, j)
       \/ \E w \in BOOLEAN : InsertKey(r, k, w)
       \/ \E g \in {"grace", "revoked"} : CommitRotation(r, k, g)
  \/ \E r \in Requests, w \in BOOLEAN : UpdateKey(r, w)
  \/ \E r \in Requests, u \in Users : EndEverything(r, u)
  \/ \E u \in Users, t \in Sessions : LogIn(u, t)
  \/ \E t \in Sessions : EndSession(t)
  \/ \E u \in Users : SetActive(u)
  \/ \E k \in ApiKeys : GracePasses(k) \/ Expire(k)

Spec == Init /\ [][Next]_vars

-----------------------------------------------------------------------------

(* Every variable has its type. *)
TypeOK ==
  /\ active \in [Users -> BOOLEAN] /\ out \in [Users -> BOOLEAN]
  /\ session \in [Sessions -> Users \cup {Nothing}]
  /\ owner \in [ApiKeys -> Users \cup {Nothing}]
  /\ state \in [ApiKeys -> {"absent", "active", "grace", "revoked", "expired"}]
  /\ writes \in [ApiKeys -> BOOLEAN]
  /\ from \in [ApiKeys -> ApiKeys \cup {Nothing}]
  /\ job \in [Requests -> {"idle", "let in", "creating", "updating", "rotating", "ending"}]
  /\ for \in [Requests -> Users \cup {Nothing}]
  /\ key \in [Requests -> ApiKeys \cup {Nothing}]
  /\ took \in [Requests -> BOOLEAN]
  /\ ended \in [Requests -> SUBSET (Sessions \cup ApiKeys)]

Rotating(k) == {r \in Requests : job[r] = "rotating" /\ key[r] = k}
Heirs(k) == {h \in ApiKeys : from[h] = k}

(* A rotation writes the old row without looking at it again, so rotations of *)
(* one key that overlap each leave an heir, and one that comes after a        *)
(* revocation gives grace to a revoked key.  But it has found the key active: *)
(* whatever the order, a key has no more heirs than requests overlapped, and  *)
(* is not rotated again later.                                                *)
HeirsBounded ==
  \A k \in ApiKeys :
    Cardinality(Heirs(k)) + Cardinality(Rotating(k)) <= Cardinality(Requests)

Creating(u) == {r \in Requests : job[r] = "creating" /\ for[r] = u}

(* Keys are counted before they are inserted, so requests that overlap exceed *)
(* the limit together: by one less than there are requests, counting revoked  *)
(* keys that a rotation on its way may give grace.  Heirs are not counted     *)
(* here: a rotation looks at no limit, and each may add one.                  *)
IssueBounded ==
  \A u \in Users :
    Cardinality({k \in KeysOf(u) : from[k] = Nothing /\ (Serves(k) \/ Rotating(k) # {})})
      + Cardinality(Creating(u)) < MaxActive + Cardinality(Requests)

(* A request knows whose it is, and what it has read is still there.         *)
RequestAgrees(r) ==
  /\ job[r] # "idle" => for[r] \in Users
  /\ job[r] \in {"updating", "rotating"} =>
       key[r] \in ApiKeys /\ owner[key[r]] = for[r] /\ state[key[r]] # "absent"
  /\ ended[r] # {} => job[r] = "ending"

(* A row is somebody's, and what has an heir is not active any more. *)
RowsAgree ==
  \A k \in ApiKeys :
    /\ state[k] = "absent" <=> owner[k] = Nothing
    /\ state[k] = "absent" => from[k] = Nothing
    /\ from[k] # Nothing => state[from[k]] \in {"grace", "revoked", "expired"}

(* Inductive: what the theorems rest on. *)
IInv ==
  TypeOK /\ RowsAgree /\ HeirsBounded /\ IssueBounded /\ \A r \in Requests : RequestAgrees(r)

(* Violated.  "Session end" revokes every session and every personal key at   *)
(* once (ADMIN_GUIDE.md), so until the next log-in nothing of the account     *)
(* serves.  But its UPDATE passes over keys that are revoked and in grace, and *)
(* with one of them new keys are issued.                                      *)
OffboardedIsOut ==
  \A u \in Users : out[u] => \A k \in KeysOf(u) : ~Serves(k)
=============================================================================
