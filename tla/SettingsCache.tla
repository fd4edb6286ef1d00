---------------------------- MODULE SettingsCache ----------------------------
(***************************************************************************)
(* Settings and the caches of them (internal/app/settings.go).  They are   *)
(* rows of one table; every server process keeps those it has read for a   *)
(* few seconds (getSetting), and forgets them when it saves itself         *)
(* (updateSettings, invalidateSettings).  The rules across settings are    *)
(* checked on what getSetting answers, before the transaction begins.      *)
(*                                                                         *)
(* Two settings stand for all: local and Keycloak log-in, one of which     *)
(* must stay enabled.  Time is counted in ticks.  What updateSettings asks *)
(* for is chosen when it has read what it needs, and a request that reads  *)
(* settings for another purpose is one that then ends.                     *)
(***************************************************************************)
EXTENDS Integers, FiniteSets

CONSTANTS
  Nodes,     \* server processes
  Requests,  \* request handlers
  TTL,       \* settingsCacheTTL, in ticks
  Nothing

ASSUME SettingsAssumption == TTL \in Nat \ {0} /\ Nothing \notin BOOLEAN

Keys == {"local", "oidc"}
Blank == [k \in Keys |-> Nothing]

(* Of every setting: nothing, or what validateSettingValue lets pass. *)
Maybe == [Keys -> BOOLEAN \cup {Nothing}]

VARIABLES
  stored,   \* settings.value
  cached,   \* settingsCache of a node: the value,
  left,     \* and the ticks until it expires
  job,      \* how far a request is
  node,     \* where it runs
  seen,     \* what getSetting has answered it
  key,      \* what it queries for,
  age,      \* the ticks since it took the time, before the query,
  answer,   \* and what the query returned
  input,    \* what it has to write still
  written,  \* what it has written and not committed
  quiet,    \* history: ticks since the last change was committed, TTL for more
  calm,     \* history: of a request: none was, from TTL before it began until now
  hasty     \* history: a request that is not calm has changed something

caches == <<cached, left>>
request == <<job, node, seen, key, age, answer, input, written>>
history == <<quiet, calm, hasty>>
vars == <<stored, caches, request, history>>

-----------------------------------------------------------------------------

(* The rule: authentication_lockout. *)
Rule(f) == \E k \in Keys : f[k] = TRUE

Init ==
  /\ stored \in {f \in [Keys -> BOOLEAN] : Rule(f)}
  /\ cached = [n \in Nodes |-> Blank]
  /\ left = [n \in Nodes |-> [k \in Keys |-> 0]]
  /\ job = [r \in Requests |-> "idle"]
  /\ node = [r \in Requests |-> Nothing]
  /\ seen = [r \in Requests |-> Blank]
  /\ key = [r \in Requests |-> Nothing]
  /\ age = [r \in Requests |-> 0]
  /\ answer = [r \in Requests |-> Nothing]
  /\ input = [r \in Requests |-> Blank]
  /\ written = [r \in Requests |-> Blank]
  /\ quiet = TTL
  /\ calm = [r \in Requests |-> FALSE]
  /\ hasty = FALSE

Begin(r, n) ==
  /\ job[r] = "idle"
  /\ job' = [job EXCEPT ![r] = "reading"]
  /\ node' = [node EXCEPT ![r] = n]
  /\ calm' = [calm EXCEPT ![r] = quiet = TTL]
  /\ UNCHANGED <<stored, caches, seen, key, age, answer, input, written, quiet, hasty>>

End(r) ==
  /\ job' = [job EXCEPT ![r] = "idle"]
  /\ node' = [node EXCEPT ![r] = Nothing]
  /\ seen' = [seen EXCEPT ![r] = Blank]
  /\ key' = [key EXCEPT ![r] = Nothing]
  /\ age' = [age EXCEPT ![r] = 0]
  /\ answer' = [answer EXCEPT ![r] = Nothing]
  /\ input' = [input EXCEPT ![r] = Blank]
  /\ written' = [written EXCEPT ![r] = Blank]
  /\ calm' = [calm EXCEPT ![r] = FALSE]

(* It is refused, fails, or only wanted to read; a transaction is rolled back. *)
Abandon(r) ==
  /\ job[r] \notin {"idle", "committed"}
  /\ End(r) /\ UNCHANGED <<stored, caches, quiet, hasty>>

-----------------------------------------------------------------------------
(* getSetting *)

FindCached(r, k) ==
  /\ job[r] = "reading" /\ seen[r][k] = Nothing /\ left[node[r]][k] > 0
  /\ seen' = [seen EXCEPT ![r][k] = cached[node[r]][k]]
  /\ UNCHANGED <<stored, caches, job, node, key, age, answer, input, written, history>>

Miss(r, k) ==
  /\ job[r] = "reading" /\ seen[r][k] = Nothing /\ left[node[r]][k] = 0
  /\ job' = [job EXCEPT ![r] = "asking"]
  /\ key' = [key EXCEPT ![r] = k]
  /\ age' = [age EXCEPT ![r] = 0]
  /\ UNCHANGED <<stored, caches, node, seen, answer, input, written, history>>

Query(r) ==
  /\ job[r] = "asking"
  /\ job' = [job EXCEPT ![r] = "answered"]
  /\ answer' = [answer EXCEPT ![r] = stored[key[r]]]
  /\ UNCHANGED <<stored, caches, node, seen, key, age, input, written, history>>

Returned(r) ==
  /\ job' = [job EXCEPT ![r] = "reading"]
  /\ key' = [key EXCEPT ![r] = Nothing]
  /\ age' = [age EXCEPT ![r] = 0]
  /\ answer' = [answer EXCEPT ![r] = Nothing]
  /\ UNCHANGED <<stored, node, input, written, history>>

(* The query fails: nothing is cached, and the empty value does not enable. *)
QueryFails(r) ==
  /\ job[r] = "asking"
  /\ UNCHANGED caches
  /\ seen' = [seen EXCEPT ![r][key[r]] = FALSE]
  /\ Returned(r)

(* Expired entries are not told from none. *)
Entry(r, v, t) ==
  /\ cached' = [cached EXCEPT ![node[r]][key[r]] = IF t > 0 THEN v ELSE Nothing]
  /\ left' = [left EXCEPT ![node[r]][key[r]] = t]

(* Mutant: the time is taken after the query. *)
FillLate(r) ==
  /\ job[r] = "answered"
  /\ Entry(r, answer[r], TTL)
  /\ seen' = [seen EXCEPT ![r][key[r]] = answer[r]]
  /\ Returned(r)

(* It lasts from before the query, whatever has been saved, and forgotten,    *)
(* on this node since.                                                       *)
Fill(r) ==
  /\ job[r] = "answered"
  /\ Entry(r, answer[r], TTL - age[r])
  /\ seen' = [seen EXCEPT ![r][key[r]] = answer[r]]
  /\ Returned(r)

-----------------------------------------------------------------------------
(* updateSettings *)

Effective(f, s) == [k \in Keys |-> IF f[k] # Nothing THEN f[k] ELSE s[k]]

(* Mutant: what is not sent is not looked at. *)
SaveOfSent(r, f) ==
  /\ job[r] = "reading"
  /\ \A k \in Keys : f[k] # Nothing \/ seen[r][k] # Nothing
  /\ \E k \in Keys : f[k] # FALSE
  /\ job' = [job EXCEPT ![r] = "writing"]
  /\ input' = [input EXCEPT ![r] = f]
  /\ seen' = [seen EXCEPT ![r] = Blank]
  /\ UNCHANGED <<stored, caches, node, key, age, answer, written, history>>

Save(r, f) ==
  /\ job[r] = "reading"
  /\ \A k \in Keys : f[k] # Nothing \/ seen[r][k] # Nothing
  /\ Rule(Effective(f, seen[r]))
  /\ job' = [job EXCEPT ![r] = "writing"]
  /\ input' = [input EXCEPT ![r] = f]
  /\ seen' = [seen EXCEPT ![r] = Blank]
  /\ UNCHANGED <<stored, caches, node, key, age, answer, written, history>>

(* Mutant: keys are taken as the map yields them. *)
AnyNext(r, k) == input[r][k] # Nothing

(* Keys are sorted. *)
IsNext(r, k) == input[r][k] # Nothing /\ (k = "oidc" => input[r]["local"] = Nothing)

RowFree(r, k) == \A q \in Requests \ {r} : written[q][k] = Nothing

(* A value that is stored already is not written. *)
Skip(r, k) ==
  /\ job[r] = "writing" /\ IsNext(r, k) /\ stored[k] = input[r][k]
  /\ input' = [input EXCEPT ![r][k] = Nothing]
  /\ UNCHANGED <<stored, caches, job, node, seen, key, age, answer, written, history>>

Write(r, k) ==
  /\ job[r] = "writing" /\ IsNext(r, k) /\ stored[k] # input[r][k] /\ RowFree(r, k)
  /\ written' = [written EXCEPT ![r][k] = input[r][k]]
  /\ input' = [input EXCEPT ![r][k] = Nothing]
  /\ UNCHANGED <<stored, caches, job, node, seen, key, age, answer, history>>

Commit(r) ==
  /\ job[r] = "writing" /\ input[r] = Blank
  /\ job' = [job EXCEPT ![r] = "committed"]
  /\ stored' = Effective(written[r], stored)
  /\ written' = [written EXCEPT ![r] = Blank]
  /\ IF written[r] = Blank
       THEN UNCHANGED history
       ELSE /\ quiet' = 0
            /\ calm' = [q \in Requests |-> FALSE]
            /\ hasty' = (hasty \/ ~calm[r])
  /\ UNCHANGED <<caches, node, seen, key, age, answer, input>>

(* invalidateSettings *)
Invalidate(r) ==
  /\ job[r] = "committed"
  /\ cached' = [cached EXCEPT ![node[r]] = Blank]
  /\ left' = [left EXCEPT ![node[r]] = [k \in Keys |-> 0]]
  /\ End(r) /\ UNCHANGED <<stored, quiet, hasty>>

-----------------------------------------------------------------------------

Later(t) == IF t < TTL THEN t + 1 ELSE TTL

Tick ==
  /\ left' = [n \in Nodes |-> [k \in Keys |-> IF left[n][k] > 0 THEN left[n][k] - 1 ELSE 0]]
  /\ cached' = [n \in Nodes |-> [k \in Keys |-> IF left[n][k] > 1 THEN cached[n][k] ELSE Nothing]]
  /\ age' = [r \in Requests |-> IF job[r] \in {"asking", "answered"} THEN Later(age[r]) ELSE 0]
  /\ quiet' = Later(quiet)
  /\ UNCHANGED <<stored, job, node, seen, key, answer, input, written, calm, hasty>>

Next ==
  \/ \E r \in Requests, n \in Nodes : Begin(r, n)
  \/ \E r \in Requests :
       Abandon(r) \/ Query(r) \/ QueryFails(r) \/ Fill(r) \/ Commit(r) \/ Invalidate(r)
  \/ \E r \in Requests, k \in Keys :
       FindCached(r, k) \/ Miss(r, k) \/ Skip(r, k) \/ Write(r, k)
  \/ \E r \in Requests, f \in Maybe : Save(r, f)
  \/ Tick

Spec == Init /\ [][Next]_vars

-----------------------------------------------------------------------------

(* Every variable has its type. *)
TypeOK ==
  /\ stored \in [Keys -> BOOLEAN]
  /\ cached \in [Nodes -> Maybe] /\ left \in [Nodes -> [Keys -> 0 .. TTL]]
  /\ job \in [Requests -> {"idle", "reading", "asking", "answered", "writing", "committed"}]
  /\ node \in [Requests -> Nodes \cup {Nothing}]
  /\ seen \in [Requests -> Maybe]
  /\ key \in [Requests -> Keys \cup {Nothing}]
  /\ age \in [Requests -> 0 .. TTL]
  /\ answer \in [Requests -> BOOLEAN \cup {Nothing}]
  /\ input \in [Requests -> Maybe] /\ written \in [Requests -> Maybe]
  /\ quiet \in 0 .. TTL /\ calm \in [Requests -> BOOLEAN] /\ hasty \in BOOLEAN

(* Readers fill the cache with what they found before a save, and on nodes    *)
(* that do not know of it nothing is forgotten: still, a node serves a value  *)
(* that is not stored any more only if it asked before the last change, and   *)
(* so TTL after it none does.                                                *)
StalenessBounded ==
  \A n \in Nodes, k \in Keys :
    left[n][k] > 0 /\ cached[n][k] # stored[k] => left[n][k] + quiet <= TTL

(* Requests that save at the same time, or on two nodes within TTL, can break *)
(* the rule together, each checked against what the other has replaced.  If   *)
(* every one began TTL after the change before it and was alone, the rule     *)
(* holds, whatever readers have left in the caches.                          *)
RulesKept == hasty \/ Rule(stored)

Stuck(r) ==
  \E k \in Keys : IsNext(r, k) /\ stored[k] # input[r][k] /\ ~RowFree(r, k)

(* Saves of the same settings wait for each other's rows, never in a ring:    *)
(* one of them can go on.                                                    *)
SavesProceed ==
  (\E r \in Requests : job[r] = "writing") => \E r \in Requests : job[r] = "writing" /\ ~Stuck(r)

(* What a request holds belongs to the stage it is at; an answer that is not  *)
(* stored any more is from before the last change; a calm request has seen no *)
(* value that is not stored, and what it is about to store keeps the rule.    *)
RequestAgrees(r) ==
  /\ job[r] # "idle" => node[r] \in Nodes
  /\ job[r] \in {"asking", "answered"} => key[r] \in Keys
  /\ job[r] \notin {"reading", "asking", "answered"} => seen[r] = Blank
  /\ job[r] # "writing" => input[r] = Blank /\ written[r] = Blank
  /\ \A k \in Keys :
       written[r][k] # Nothing => input[r][k] = Nothing /\ (k = "oidc" => input[r]["local"] = Nothing)
  /\ job[r] = "answered" => answer[r] \in BOOLEAN
  /\ job[r] = "answered" /\ answer[r] # stored[key[r]] => quiet <= age[r] /\ ~calm[r]
  /\ calm[r] => quiet = TTL /\ \A k \in Keys : seen[r][k] \in {Nothing, FALSE, stored[k]}
  /\ calm[r] /\ job[r] = "writing" => Rule(Effective(input[r], Effective(written[r], stored)))

(* Inductive: what the theorems rest on. *)
IInv ==
  /\ TypeOK /\ StalenessBounded /\ RulesKept
  /\ \A n \in Nodes, k \in Keys : left[n][k] > 0 => cached[n][k] \in BOOLEAN
  /\ \A r \in Requests : RequestAgrees(r)
=============================================================================
