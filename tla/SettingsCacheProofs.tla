------------------------- MODULE SettingsCacheProofs -------------------------
(***************************************************************************)
(* SettingsCache, for any number of nodes and requests and any TTL: a save *)
(* is seen everywhere within TTL, saves that are TTL apart keep the rule,  *)
(* and those that meet do not wait for each other in a ring.               *)
(***************************************************************************)
EXTENDS SettingsCache, TLAPS

USE DEF Keys

(* A value of a setting, or none, for each. *)
LEMMA Values ==
  ASSUME NEW f \in Maybe
  PROVE  /\ DOMAIN f = Keys
         /\ \A k \in Keys : f[k] \in BOOLEAN \cup {Nothing}
         /\ \A g \in Maybe : f = g <=> \A k \in Keys : f[k] = g[k]
  BY DEF Maybe

LEMMA EffectiveType ==
  ASSUME NEW f \in Maybe, NEW s \in [Keys -> BOOLEAN]
  PROVE  Effective(f, s) \in [Keys -> BOOLEAN]
  BY DEF Effective, Maybe

LEMMA BlankType == Blank \in Maybe
  BY DEF Blank, Maybe

(* Only a request that ends, or one other step of it, changes what it holds. *)
Only(r) ==
  \A q \in Requests \ {r} :
    /\ job'[q] = job[q] /\ node'[q] = node[q] /\ seen'[q] = seen[q] /\ key'[q] = key[q]
    /\ age'[q] = age[q] /\ answer'[q] = answer[q]
    /\ input'[q] = input[q] /\ written'[q] = written[q]

Over(r) ==
  /\ job'[r] = "idle" /\ node'[r] = Nothing /\ seen'[r] = Blank /\ key'[r] = Nothing
  /\ age'[r] = 0 /\ answer'[r] = Nothing /\ input'[r] = Blank /\ written'[r] = Blank
  /\ calm'[r] = FALSE

LEMMA Ends ==
  ASSUME TypeOK, NEW r \in Requests, End(r)
  PROVE  /\ Only(r) /\ Over(r)
         /\ \A q \in Requests \ {r} : calm'[q] = calm[q]
         /\ job' \in [Requests -> {"idle", "reading", "asking", "answered", "writing", "committed"}]
         /\ node' \in [Requests -> Nodes \cup {Nothing}]
         /\ seen' \in [Requests -> Maybe] /\ key' \in [Requests -> Keys \cup {Nothing}]
         /\ age' \in [Requests -> 0 .. TTL] /\ answer' \in [Requests -> BOOLEAN \cup {Nothing}]
         /\ input' \in [Requests -> Maybe] /\ written' \in [Requests -> Maybe]
         /\ calm' \in [Requests -> BOOLEAN]
  BY BlankType, SettingsAssumption DEF TypeOK, End, Only, Over

LEMMA TypingStep == TypeOK /\ (\A r \in Requests : RequestAgrees(r)) /\ [Next]_vars => TypeOK'
  <1> SUFFICES ASSUME TypeOK, \A r \in Requests : RequestAgrees(r), [Next]_vars PROVE TypeOK'
    OBVIOUS
  <1> USE BlankType, SettingsAssumption DEF TypeOK, history, caches
  <1>1. CASE UNCHANGED vars
    BY <1>1 DEF vars, request
  <1>2. ASSUME NEW r \in Requests, NEW n \in Nodes, Begin(r, n) PROVE TypeOK'
    BY <1>2 DEF Begin
  <1>3. ASSUME NEW r \in Requests, Abandon(r) PROVE TypeOK'
    BY <1>3, Ends DEF Abandon
  <1>4. ASSUME NEW r \in Requests, Query(r) PROVE TypeOK'
    BY <1>4 DEF Query, RequestAgrees
  <1>5. ASSUME NEW r \in Requests, NEW v \in BOOLEAN, key[r] \in Keys,
               seen' = [seen EXCEPT ![r][key[r]] = v]
        PROVE  seen' \in [Requests -> Maybe]
    BY <1>5 DEF Maybe
  <1>6. ASSUME NEW r \in Requests, QueryFails(r) PROVE TypeOK'
    <2>1. key[r] \in Keys
      BY <1>6 DEF QueryFails, RequestAgrees
    <2>2. seen' \in [Requests -> Maybe]
      BY <1>5, <1>6, <2>1 DEF QueryFails
    <2> QED
      BY <1>6, <2>2 DEF QueryFails, Returned
  <1>7. ASSUME NEW r \in Requests, Fill(r) PROVE TypeOK'
    <2>1. key[r] \in Keys /\ node[r] \in Nodes /\ answer[r] \in BOOLEAN
      BY <1>7 DEF Fill, RequestAgrees
    <2>3. TTL - age[r] \in 0 .. TTL
      OBVIOUS
    <2>2. cached' \in [Nodes -> Maybe] /\ left' \in [Nodes -> [Keys -> 0 .. TTL]]
      BY <1>7, <2>1, <2>3 DEF Fill, Entry, Maybe
    <2>4. seen' \in [Requests -> Maybe]
      BY <1>5, <1>7, <2>1 DEF Fill
    <2> QED
      BY <1>7, <2>2, <2>4 DEF Fill, Returned
  <1>8. ASSUME NEW r \in Requests, Commit(r) PROVE TypeOK'
    <2>1. stored' \in [Keys -> BOOLEAN]
      BY <1>8, EffectiveType DEF Commit
    <2>2. quiet' \in 0 .. TTL /\ calm' \in [Requests -> BOOLEAN] /\ hasty' \in BOOLEAN
      <3>1. CASE written[r] = Blank
        BY <1>8, <3>1 DEF Commit
      <3>2. CASE written[r] # Blank
        <4>1. quiet' = 0 /\ calm' = [q \in Requests |-> FALSE] /\ hasty' = (hasty \/ ~calm[r])
          BY <1>8, <3>2 DEF Commit
        <4>2. hasty' \in BOOLEAN
          BY <4>1, Zenon
        <4> QED
          BY <4>1, <4>2
      <3> QED
        BY <3>1, <3>2
    <2> QED
      BY <1>8, <2>1, <2>2 DEF Commit
  <1>9. ASSUME NEW r \in Requests, Invalidate(r) PROVE TypeOK'
    <2>1. cached' \in [Nodes -> Maybe] /\ left' \in [Nodes -> [Keys -> 0 .. TTL]]
      <3>1. [k \in Keys |-> 0] \in [Keys -> 0 .. TTL]
        OBVIOUS
      <3>2. /\ cached' = [cached EXCEPT ![node[r]] = Blank]
            /\ left' = [left EXCEPT ![node[r]] = [k \in Keys |-> 0]]
        BY <1>9 DEF Invalidate
      <3> QED
        BY <3>1, <3>2
    <2>2. End(r) /\ UNCHANGED <<stored, quiet, hasty>>
      BY <1>9 DEF Invalidate
    <2> QED
      BY <2>1, <2>2, Ends
  <1>10. ASSUME NEW r \in Requests, NEW k \in Keys, FindCached(r, k) PROVE TypeOK'
    <2>1. node[r] \in Nodes
      BY <1>10 DEF FindCached, RequestAgrees
    <2>2. seen' \in [Requests -> Maybe]
      BY <1>10, <2>1 DEF FindCached, Maybe
    <2> QED
      BY <1>10, <2>2 DEF FindCached
  <1>11. ASSUME NEW r \in Requests, NEW k \in Keys, Miss(r, k) PROVE TypeOK'
    BY <1>11 DEF Miss
  <1>12. ASSUME NEW r \in Requests, NEW k \in Keys, Skip(r, k) PROVE TypeOK'
    BY <1>12 DEF Skip, Maybe
  <1>13. ASSUME NEW r \in Requests, NEW k \in Keys, Write(r, k) PROVE TypeOK'
    BY <1>13 DEF Write, Maybe
  <1>14. ASSUME NEW r \in Requests, NEW f \in Maybe, Save(r, f) PROVE TypeOK'
    BY <1>14 DEF Save
  <1>15. CASE Tick
    <2>1. cached' \in [Nodes -> Maybe] /\ left' \in [Nodes -> [Keys -> 0 .. TTL]]
      BY <1>15 DEF Tick, Maybe
    <2>2. age' \in [Requests -> 0 .. TTL] /\ quiet' \in 0 .. TTL
      BY <1>15 DEF Tick, Later
    <2> QED
      BY <1>15, <2>1, <2>2 DEF Tick
  <1> QED
    BY <1>1, <1>2, <1>3, <1>4, <1>6, <1>7, <1>8, <1>9, <1>10, <1>11, <1>12, <1>13, <1>14, <1>15
       DEF Next, Maybe

-----------------------------------------------------------------------------
(* Staleness *)

Entries == \A n \in Nodes, k \in Keys : left[n][k] > 0 => cached[n][k] \in BOOLEAN

(* Neither what is stored nor what is cached changes. *)
Rests == UNCHANGED <<stored, caches, quiet>>

LEMMA CommitStores ==
  ASSUME TypeOK, NEW r \in Requests, Commit(r)
  PROVE  /\ \A k \in Keys : stored'[k] = IF written[r][k] # Nothing THEN written[r][k] ELSE stored[k]
         /\ written[r] = Blank => stored' = stored
  <1>1. stored' = Effective(written[r], stored)
    BY DEF Commit
  <1>2. \A k \in Keys : stored'[k] = IF written[r][k] # Nothing THEN written[r][k] ELSE stored[k]
    BY <1>1 DEF Effective
  <1>3. stored \in [Keys -> BOOLEAN] /\ stored' \in [Keys -> BOOLEAN]
    BY <1>1, EffectiveType DEF TypeOK
  <1>4. ASSUME written[r] = Blank PROVE stored' = stored
    BY <1>2, <1>3, <1>4 DEF Blank
  <1> QED
    BY <1>2, <1>4

LEMMA StalenessStep ==
  ASSUME TypeOK, StalenessBounded, Entries, \A r \in Requests : RequestAgrees(r), [Next]_vars
  PROVE  StalenessBounded' /\ Entries'
  <1> SUFFICES ASSUME NEW n \in Nodes, NEW k \in Keys, left'[n][k] > 0
               PROVE  /\ cached'[n][k] # stored'[k] => left'[n][k] + quiet' <= TTL
                      /\ cached'[n][k] \in BOOLEAN
    BY DEF StalenessBounded, Entries
  <1>1. /\ left[n][k] \in 0 .. TTL /\ quiet \in 0 .. TTL /\ TTL \in Nat \ {0}
        /\ left[n][k] > 0 => cached[n][k] \in BOOLEAN
        /\ left[n][k] > 0 /\ cached[n][k] # stored[k] => left[n][k] + quiet <= TTL
    BY SettingsAssumption DEF TypeOK, StalenessBounded, Entries
  <1>2. CASE Rests
    BY <1>1, <1>2 DEF Rests, caches
  <1>3. ASSUME NEW r \in Requests, Fill(r)
        PROVE  /\ cached'[n][k] # stored'[k] => left'[n][k] + quiet' <= TTL
               /\ cached'[n][k] \in BOOLEAN
    <2>1. /\ job[r] = "answered" /\ answer[r] \in BOOLEAN
          /\ answer[r] # stored[key[r]] => quiet <= age[r]
          /\ key[r] \in Keys /\ node[r] \in Nodes
          /\ age[r] \in 0 .. TTL
      BY <1>3 DEF Fill, RequestAgrees, TypeOK
    <2>2. /\ stored' = stored /\ quiet' = quiet
          /\ cached' = [cached EXCEPT ![node[r]][key[r]] =
                         IF TTL - age[r] > 0 THEN answer[r] ELSE Nothing]
          /\ left' = [left EXCEPT ![node[r]][key[r]] = TTL - age[r]]
      BY <1>3 DEF Fill, Entry, Returned, history
    <2>3. CASE n = node[r] /\ k = key[r]
      <3>1. left'[n][k] = TTL - age[r] /\ cached'[n][k] = IF TTL - age[r] > 0 THEN answer[r] ELSE Nothing
        BY <2>1, <2>2, <2>3 DEF TypeOK, Maybe
      <3> QED
        BY <1>1, <2>1, <2>2, <2>3, <3>1
    <2>4. CASE ~(n = node[r] /\ k = key[r])
      <3>1. left'[n][k] = left[n][k] /\ cached'[n][k] = cached[n][k]
        BY <2>1, <2>2, <2>4 DEF TypeOK, Maybe
      <3> QED
        BY <1>1, <2>2, <3>1
    <2> QED
      BY <2>3, <2>4
  <1>4. ASSUME NEW r \in Requests, Commit(r)
        PROVE  /\ cached'[n][k] # stored'[k] => left'[n][k] + quiet' <= TTL
               /\ cached'[n][k] \in BOOLEAN
    <2>1. left' = left /\ cached' = cached
      BY <1>4 DEF Commit, caches
    <2>2. CASE written[r] = Blank
      <3>1. stored' = stored
        BY <1>4, <2>2, CommitStores
      <3>2. quiet' = quiet
        BY <1>4, <2>2 DEF Commit, history
      <3> QED
        BY <1>1, <2>1, <3>1, <3>2
    <2>3. CASE written[r] # Blank
      <3>1. quiet' = 0
        BY <1>4, <2>3 DEF Commit
      <3> QED
        BY <1>1, <2>1, <3>1
    <2> QED
      BY <2>2, <2>3
  <1>5. ASSUME NEW r \in Requests, Invalidate(r)
        PROVE  /\ cached'[n][k] # stored'[k] => left'[n][k] + quiet' <= TTL
               /\ cached'[n][k] \in BOOLEAN
    <2>1. /\ stored' = stored /\ quiet' = quiet
          /\ cached' = [cached EXCEPT ![node[r]] = Blank]
          /\ left' = [left EXCEPT ![node[r]] = [x \in Keys |-> 0]]
      BY <1>5 DEF Invalidate
    <2>2. n # node[r]
      BY <2>1 DEF TypeOK
    <2>3. left'[n] = left[n] /\ cached'[n] = cached[n]
      BY <2>1, <2>2 DEF TypeOK
    <2> QED
      BY <1>1, <2>1, <2>3
  <1>6. CASE Tick
    <2>1. /\ left'[n][k] = (IF left[n][k] > 0 THEN left[n][k] - 1 ELSE 0)
          /\ cached'[n][k] = (IF left[n][k] > 1 THEN cached[n][k] ELSE Nothing)
          /\ stored' = stored /\ quiet' = Later(quiet)
      BY <1>6 DEF Tick
    <2>2. quiet' <= quiet + 1
      BY <1>1, <2>1 DEF Later
    <2>3. quiet' \in 0 .. TTL
      BY <1>1, <2>1 DEF Later
    <2> QED
      BY <1>1, <2>1, <2>2, <2>3
  <1> QED
    BY <1>2, <1>3, <1>4, <1>5, <1>6
       DEF Next, vars, history, Rests, Begin, Abandon, Query, QueryFails, Returned, FindCached,
           Miss, Skip, Write, Save

-----------------------------------------------------------------------------
(* The rule, and what requests know *)

(* What counts for a request besides what it holds itself. *)
LEMMA Frame ==
  ASSUME TypeOK, NEW q \in Requests, RequestAgrees(q),
         job'[q] = job[q], node'[q] = node[q], seen'[q] = seen[q], key'[q] = key[q],
         age'[q] = age[q], answer'[q] = answer[q], input'[q] = input[q], written'[q] = written[q],
         calm'[q] = calm[q], stored' = stored, quiet' = quiet
  PROVE  RequestAgrees(q)'
  <1>1. \A k \in Keys : Effective(input[q], Effective(written[q], stored))'[k]
                       = Effective(input[q], Effective(written[q], stored))[k]
    BY DEF Effective
  <1> QED
    BY <1>1 DEF RequestAgrees, Rule

(* It is not calm, and what it has been answered is as old. *)
LEMMA Ruffled ==
  ASSUME TypeOK, NEW q \in Requests, RequestAgrees(q),
         job'[q] = job[q], node'[q] = node[q], seen'[q] = seen[q], key'[q] = key[q],
         age'[q] = age[q], answer'[q] = answer[q], input'[q] = input[q], written'[q] = written[q],
         calm'[q] = FALSE, quiet' = 0
  PROVE  RequestAgrees(q)'
  <1>1. age[q] \in 0 .. TTL
    BY DEF TypeOK
  <1>2. 0 <= age[q]
    BY <1>1, SettingsAssumption
  <1> QED
    BY <1>2 DEF RequestAgrees

LEMMA Idle ==
  ASSUME NEW r \in Requests, Over(r)
  PROVE  RequestAgrees(r)'
  BY DEF Over, RequestAgrees, Blank

LEMMA RuleStep ==
  ASSUME TypeOK, RulesKept, \A r \in Requests : RequestAgrees(r), [Next]_vars
  PROVE  RulesKept'
  <1>1. CASE UNCHANGED <<stored, hasty>>
    BY <1>1 DEF RulesKept, Rule
  <1>2. ASSUME NEW r \in Requests, Commit(r) PROVE RulesKept'
    <2>1. CASE written[r] = Blank
      <3>1. stored' = stored
        BY <1>2, <2>1, CommitStores
      <3>2. hasty' = hasty
        BY <1>2, <2>1 DEF Commit, history
      <3> QED
        BY <3>1, <3>2 DEF RulesKept, Rule
    <2>2. CASE written[r] # Blank
      <3>1. hasty' = (hasty \/ ~calm[r])
        BY <1>2, <2>2 DEF Commit
      <3>2. ASSUME calm[r] PROVE Rule(stored')
        <4>1. Rule(Effective(input[r], Effective(written[r], stored))) /\ input[r] = Blank
          BY <1>2, <3>2 DEF Commit, RequestAgrees
        <4>2. \A k \in Keys : Effective(input[r], Effective(written[r], stored))[k] = stored'[k]
          BY <1>2, <4>1, CommitStores DEF Effective, Blank
        <4> QED
          BY <4>1, <4>2 DEF Rule
      <3>3. CASE calm[r]
        BY <3>2, <3>3 DEF RulesKept, Rule
      <3>4. CASE ~calm[r]
        <4>1. hasty'
          BY <3>1, <3>4
        <4> QED
          BY <4>1 DEF RulesKept
      <3> QED
        BY <3>3, <3>4
    <2> QED
      BY <2>1, <2>2
  <1> QED
    BY <1>1, <1>2
       DEF Next, vars, history, caches, Begin, Abandon, Query, QueryFails, Returned, Fill, FindCached,
           Miss, Skip, Write, Save, Invalidate, Tick

LEMMA RequestsStep ==
  ASSUME TypeOK, StalenessBounded, Entries, \A r \in Requests : RequestAgrees(r), [Next]_vars, TypeOK'
  PROVE  \A r \in Requests : RequestAgrees(r)'
  <1> SUFFICES ASSUME NEW q \in Requests PROVE RequestAgrees(q)'
    OBVIOUS
  <1>1. TypeOK /\ RequestAgrees(q) /\ TTL \in Nat \ {0} /\ quiet \in 0 .. TTL
    BY SettingsAssumption DEF TypeOK
  <1>2. CASE UNCHANGED vars
    BY <1>1, <1>2, Frame DEF vars, request, history
  <1>3. ASSUME NEW r \in Requests, NEW n \in Nodes, Begin(r, n) PROVE RequestAgrees(q)'
    <2>1. CASE q # r
      BY <1>1, <1>3, <2>1, Frame DEF Begin, TypeOK
    <2>2. CASE q = r
      <3>1. /\ job'[q] = "reading" /\ node'[q] \in Nodes /\ calm'[q] = (quiet = TTL)
            /\ seen'[q] = seen[q] /\ input'[q] = input[q] /\ written'[q] = written[q]
            /\ stored' = stored /\ quiet' = quiet /\ job[q] = "idle"
        BY <1>3, <2>2 DEF Begin, TypeOK
      <3>2. seen[q] = Blank /\ input[q] = Blank /\ written[q] = Blank
        BY <1>1, <3>1 DEF RequestAgrees
      <3>3. \A k \in Keys : seen'[q][k] = Nothing /\ written'[q][k] = Nothing
        BY <3>1, <3>2 DEF Blank
      <3>4. calm'[q] => quiet' = TTL
        BY <3>1
      <3> QED
        BY <3>1, <3>2, <3>3, <3>4 DEF RequestAgrees
    <2> QED
      BY <2>1, <2>2
  <1>4. ASSUME NEW r \in Requests, Abandon(r) PROVE RequestAgrees(q)'
    <2>1. End(r) /\ UNCHANGED <<stored, caches, quiet, hasty>>
      BY <1>4 DEF Abandon
    <2>2. Only(r) /\ Over(r) /\ \A x \in Requests \ {r} : calm'[x] = calm[x]
      BY <1>1, <2>1, Ends
    <2> QED
      BY <1>1, <2>1, <2>2, Frame, Idle DEF Only
  <1>5. ASSUME NEW r \in Requests, Query(r) PROVE RequestAgrees(q)'
    <2>1. CASE q # r
      BY <1>1, <1>5, <2>1, Frame DEF Query, TypeOK, history
    <2>2. CASE q = r
      <3>1. /\ job[q] = "asking" /\ job'[q] = "answered" /\ node'[q] = node[q]
            /\ seen'[q] = seen[q] /\ key' = key /\ answer'[q] = stored[key[q]]
            /\ input'[q] = input[q] /\ written'[q] = written[q] /\ calm'[q] = calm[q]
            /\ stored' = stored /\ quiet' = quiet
        BY <1>5, <2>2 DEF Query, TypeOK, history
      <3>2. key[q] \in Keys /\ stored[key[q]] \in BOOLEAN
        BY <1>1, <3>1 DEF RequestAgrees, TypeOK
      <3> QED
        BY <1>1, <3>1, <3>2 DEF RequestAgrees
    <2> QED
      BY <2>1, <2>2
  (* It is back from getSetting, with the value v. *)
  <1>6. ASSUME NEW r \in Requests, NEW k \in Keys, NEW v \in BOOLEAN, calm[r] => v \in {FALSE, stored[k]},
               job[r] \in {"reading", "asking", "answered"}, node[r] \in Nodes,
               seen' = [seen EXCEPT ![r][k] = v],
               job'[r] = "reading", \A x \in Requests \ {r} : job'[x] = job[x],
               \A x \in Requests \ {r} : key'[x] = key[x],
               \A x \in Requests \ {r} : age'[x] = age[x],
               \A x \in Requests \ {r} : answer'[x] = answer[x],
               UNCHANGED <<stored, node, input, written, history>>
        PROVE  RequestAgrees(q)'
    <2>1. CASE q # r
      BY <1>1, <1>6, <2>1, Frame DEF TypeOK, history
    <2>2. CASE q = r
      <3>1. \A x \in Keys : seen'[q][x] = IF x = k THEN v ELSE seen[q][x]
        BY <1>6, <2>2 DEF TypeOK, Maybe
      <3>2. input[q] = Blank /\ written[q] = Blank
        BY <1>1, <1>6, <2>2 DEF RequestAgrees
      <3>3. \A x \in Keys : written'[q][x] = Nothing
        BY <1>6, <3>2 DEF Blank
      <3>4. /\ job'[q] = "reading" /\ node'[q] \in Nodes /\ input'[q] = Blank /\ written'[q] = Blank
            /\ calm'[q] = calm[q] /\ quiet' = quiet /\ stored' = stored
        BY <1>6, <2>2, <3>2 DEF history
      <3>5. calm[q] => quiet = TTL /\ \A x \in Keys : seen'[q][x] \in {Nothing, FALSE, stored[x]}
        <4>1. SUFFICES ASSUME calm[q], NEW x \in Keys
                       PROVE  quiet = TTL /\ seen'[q][x] \in {Nothing, FALSE, stored[x]}
          BY SettingsAssumption
        <4>2. quiet = TTL /\ seen[q][x] \in {Nothing, FALSE, stored[x]}
          BY <1>1, <4>1 DEF RequestAgrees
        <4>3. v \in {FALSE, stored[k]}
          BY <1>6, <2>2, <4>1
        <4> QED
          BY <3>1, <4>2, <4>3
      <3> QED
        BY <3>3, <3>4, <3>5 DEF RequestAgrees
    <2> QED
      BY <2>1, <2>2
  <1>7. ASSUME NEW r \in Requests, QueryFails(r) PROVE RequestAgrees(q)'
    <2>1. job[r] = "asking" /\ key[r] \in Keys /\ node[r] \in Nodes
      BY <1>7 DEF QueryFails, RequestAgrees
    <2>2. /\ seen' = [seen EXCEPT ![r][key[r]] = FALSE]
          /\ job'[r] = "reading" /\ \A x \in Requests \ {r} : job'[x] = job[x]
          /\ \A x \in Requests \ {r} : key'[x] = key[x]
          /\ \A x \in Requests \ {r} : age'[x] = age[x]
          /\ \A x \in Requests \ {r} : answer'[x] = answer[x]
          /\ UNCHANGED <<stored, node, input, written, history>>
      BY <1>7 DEF QueryFails, Returned, TypeOK
    <2> QED
      BY <1>6, <2>1, <2>2
  <1>8. ASSUME NEW r \in Requests, Fill(r) PROVE RequestAgrees(q)'
    <2>1. /\ job[r] = "answered" /\ key[r] \in Keys /\ node[r] \in Nodes /\ answer[r] \in BOOLEAN
          /\ calm[r] => answer[r] = stored[key[r]]
      BY <1>8 DEF Fill, RequestAgrees
    <2>2. /\ seen' = [seen EXCEPT ![r][key[r]] = answer[r]]
          /\ job'[r] = "reading" /\ \A x \in Requests \ {r} : job'[x] = job[x]
          /\ \A x \in Requests \ {r} : key'[x] = key[x]
          /\ \A x \in Requests \ {r} : age'[x] = age[x]
          /\ \A x \in Requests \ {r} : answer'[x] = answer[x]
          /\ UNCHANGED <<stored, node, input, written, history>>
      BY <1>8 DEF Fill, Returned, TypeOK
    <2> QED
      BY <1>6, <2>1, <2>2
  <1>9. ASSUME NEW r \in Requests, NEW k \in Keys, FindCached(r, k) PROVE RequestAgrees(q)'
    <2>1. /\ job[r] = "reading" /\ node[r] \in Nodes /\ left[node[r]][k] > 0
          /\ seen' = [seen EXCEPT ![r][k] = cached[node[r]][k]]
          /\ UNCHANGED <<stored, job, node, key, age, answer, input, written, history>>
      BY <1>9 DEF FindCached, RequestAgrees
    <2>2. cached[node[r]][k] \in BOOLEAN
      BY <2>1 DEF Entries
    <2>3. ASSUME calm[r] PROVE cached[node[r]][k] = stored[k]
      <3>1. quiet = TTL
        BY <2>3 DEF RequestAgrees
      <3>2. left[node[r]][k] \in 0 .. TTL
        BY <2>1 DEF TypeOK
      <3>3. ~(left[node[r]][k] + quiet <= TTL)
        BY <1>1, <2>1, <3>1, <3>2
      <3> QED
        BY <2>1, <3>3 DEF StalenessBounded
    <2> QED
      BY <1>6, <2>1, <2>2, <2>3
  <1>10. ASSUME NEW r \in Requests, NEW k \in Keys, Miss(r, k) PROVE RequestAgrees(q)'
    <2>1. CASE q # r
      BY <1>1, <1>10, <2>1, Frame DEF Miss, TypeOK, history
    <2>2. CASE q = r
      <3>1. /\ job[q] = "reading" /\ job'[q] = "asking" /\ key'[q] = k
            /\ node' = node /\ seen' = seen /\ input' = input /\ written' = written
            /\ calm' = calm /\ stored' = stored /\ quiet' = quiet
        BY <1>10, <2>2 DEF Miss, TypeOK, history
      <3> QED
        BY <1>1, <3>1 DEF RequestAgrees
    <2> QED
      BY <2>1, <2>2
  <1>11. ASSUME NEW r \in Requests, NEW f \in Maybe, Save(r, f) PROVE RequestAgrees(q)'
    <2>1. CASE q # r
      BY <1>1, <1>11, <2>1, Frame DEF Save, TypeOK, history
    <2>2. CASE q = r
      <3>1. /\ job[q] = "reading" /\ job'[q] = "writing" /\ input'[q] = f /\ seen'[q] = Blank
            /\ Rule(Effective(f, seen[q])) /\ \A k \in Keys : f[k] # Nothing \/ seen[q][k] # Nothing
            /\ node' = node /\ written' = written /\ calm' = calm /\ stored' = stored /\ quiet' = quiet
        BY <1>11, <2>2 DEF Save, TypeOK, history
      <3>2. written[q] = Blank
        BY <1>1, <3>1 DEF RequestAgrees
      <3>3. ASSUME calm[q] PROVE Rule(Effective(f, Effective(written[q], stored)))
        <4>1. PICK k \in Keys : Effective(f, seen[q])[k] = TRUE
          BY <3>1 DEF Rule
        <4>2. Effective(f, Effective(written[q], stored))[k] = IF f[k] # Nothing THEN f[k] ELSE stored[k]
          BY <3>2 DEF Effective, Blank
        <4>3. Effective(f, seen[q])[k] = IF f[k] # Nothing THEN f[k] ELSE seen[q][k]
          BY DEF Effective
        <4>4. seen[q][k] \in {Nothing, FALSE, stored[k]}
          BY <1>1, <3>3 DEF RequestAgrees
        <4>5. Nothing # TRUE
          BY SettingsAssumption
        <4>6. Effective(f, Effective(written[q], stored))[k] = TRUE
          BY <4>1, <4>2, <4>3, <4>4, <4>5
        <4> QED
          BY <4>6 DEF Rule
      <3>4. Rule(Effective(input'[q], Effective(written'[q], stored')))
              <=> Rule(Effective(f, Effective(written[q], stored)))
        BY <3>1
      <3> QED
        BY <1>1, <3>1, <3>2, <3>3, <3>4 DEF RequestAgrees, Blank
    <2> QED
      BY <2>1, <2>2
  <1>12. ASSUME NEW r \in Requests, NEW k \in Keys, Skip(r, k) PROVE RequestAgrees(q)'
    <2>1. CASE q # r
      BY <1>1, <1>12, <2>1, Frame DEF Skip, TypeOK, history
    <2>2. CASE q = r
      <3>1. /\ job[q] = "writing" /\ input[q][k] # Nothing /\ stored[k] = input[q][k]
            /\ \A x \in Keys : input'[q][x] = IF x = k THEN Nothing ELSE input[q][x]
            /\ job' = job /\ node' = node /\ seen' = seen /\ written' = written /\ calm' = calm
            /\ stored' = stored /\ quiet' = quiet
        BY <1>12, <2>2 DEF Skip, IsNext, TypeOK, history, Maybe
      <3>2. written[q][k] = Nothing
        BY <1>1, <3>1 DEF RequestAgrees
      <3>3. \A x \in Keys : Effective(input'[q], Effective(written'[q], stored'))[x]
                           = Effective(input[q], Effective(written[q], stored))[x]
        BY <3>1, <3>2 DEF Effective
      <3> QED
        BY <1>1, <3>1, <3>3 DEF RequestAgrees, Rule
    <2> QED
      BY <2>1, <2>2
  <1>13. ASSUME NEW r \in Requests, NEW k \in Keys, Write(r, k) PROVE RequestAgrees(q)'
    <2>1. CASE q # r
      BY <1>1, <1>13, <2>1, Frame DEF Write, TypeOK, history
    <2>2. CASE q = r
      <3>1. /\ job[q] = "writing" /\ IsNext(q, k)
            /\ \A x \in Keys : input'[q][x] = IF x = k THEN Nothing ELSE input[q][x]
            /\ \A x \in Keys : written'[q][x] = IF x = k THEN input[q][k] ELSE written[q][x]
            /\ job' = job /\ node' = node /\ seen' = seen /\ calm' = calm
            /\ stored' = stored /\ quiet' = quiet
        BY <1>13, <2>2 DEF Write, TypeOK, history, Maybe
      <3>2. \A x \in Keys : Effective(input'[q], Effective(written'[q], stored'))[x]
                           = Effective(input[q], Effective(written[q], stored))[x]
        BY <3>1 DEF Effective, IsNext
      <3> QED
        BY <1>1, <3>1, <3>2 DEF RequestAgrees, Rule, IsNext
    <2> QED
      BY <2>1, <2>2
  <1>14. ASSUME NEW r \in Requests, Commit(r) PROVE RequestAgrees(q)'
    <2>1. /\ job[r] = "writing" /\ job'[r] = "committed" /\ input[r] = Blank /\ written'[r] = Blank
          /\ \A x \in Requests \ {r} : job'[x] = job[x] /\ written'[x] = written[x]
          /\ node' = node /\ seen' = seen /\ key' = key /\ age' = age /\ answer' = answer /\ input' = input
      BY <1>14 DEF Commit, TypeOK
    <2>2. CASE written[r] = Blank
      <3>1. stored' = stored /\ quiet' = quiet /\ calm' = calm
        BY <1>14, <2>2, CommitStores DEF Commit, history
      <3>2. CASE q # r
        BY <1>1, <2>1, <3>1, <3>2, Frame
      <3>3. CASE q = r
        BY <1>1, <2>1, <3>1, <3>3 DEF RequestAgrees, Blank
      <3> QED
        BY <3>2, <3>3
    <2>3. CASE written[r] # Blank
      <3>1. quiet' = 0 /\ calm'[q] = FALSE
        BY <1>14, <2>3 DEF Commit
      <3>2. CASE q # r
        BY <1>1, <2>1, <3>1, <3>2, Ruffled
      <3>3. CASE q = r
        BY <1>1, <2>1, <3>1, <3>3 DEF RequestAgrees, Blank
      <3> QED
        BY <3>2, <3>3
    <2> QED
      BY <2>2, <2>3
  <1>15. ASSUME NEW r \in Requests, Invalidate(r) PROVE RequestAgrees(q)'
    <2>1. End(r) /\ UNCHANGED <<stored, quiet, hasty>>
      BY <1>15 DEF Invalidate
    <2>2. Only(r) /\ Over(r) /\ \A x \in Requests \ {r} : calm'[x] = calm[x]
      BY <1>1, <2>1, Ends
    <2> QED
      BY <1>1, <2>1, <2>2, Frame, Idle DEF Only
  <1>16. CASE Tick
    <2>1. /\ stored' = stored /\ job' = job /\ node' = node /\ seen' = seen /\ key' = key
          /\ answer' = answer /\ input' = input /\ written' = written /\ calm' = calm
          /\ quiet' = Later(quiet)
          /\ age'[q] = IF job[q] \in {"asking", "answered"} THEN Later(age[q]) ELSE 0
      BY <1>16 DEF Tick
    <2>2. age[q] \in 0 .. TTL
      BY DEF TypeOK
    <2>3. quiet <= age[q] => Later(quiet) <= Later(age[q])
      BY <1>1, <2>2 DEF Later
    <2>4. quiet = TTL => quiet' = TTL
      BY <1>1, <2>1 DEF Later
    <2>5. \A k \in Keys : Effective(input[q], Effective(written[q], stored))'[k]
                         = Effective(input[q], Effective(written[q], stored))[k]
      BY <2>1 DEF Effective
    <2> QED
      BY <1>1, <2>1, <2>3, <2>4, <2>5 DEF RequestAgrees, Rule
  <1> QED
    BY <1>2, <1>3, <1>4, <1>5, <1>7, <1>8, <1>9, <1>10, <1>11, <1>12, <1>13, <1>14, <1>15, <1>16
       DEF Next, Maybe

LEMMA InitIInv == Init => IInv
  <1> SUFFICES ASSUME Init PROVE IInv
    OBVIOUS
  <1>1. TypeOK
    <2>1. left \in [Nodes -> [Keys -> 0 .. TTL]]
      <3>1. [k \in Keys |-> 0] \in [Keys -> 0 .. TTL]
        BY SettingsAssumption
      <3> QED
        BY <3>1 DEF Init
    <2>2. stored \in [Keys -> BOOLEAN] /\ cached \in [Nodes -> Maybe]
      BY BlankType DEF Init
    <2>3. /\ seen \in [Requests -> Maybe] /\ input \in [Requests -> Maybe]
          /\ written \in [Requests -> Maybe]
      BY BlankType DEF Init
    <2>4. age \in [Requests -> 0 .. TTL] /\ quiet \in 0 .. TTL
      BY SettingsAssumption DEF Init
    <2> QED
      BY <2>1, <2>2, <2>3, <2>4 DEF Init, TypeOK
  <1>2. StalenessBounded /\ RulesKept
    BY SettingsAssumption DEF Init, StalenessBounded, RulesKept
  <1>3. \A n \in Nodes, k \in Keys : left[n][k] > 0 => cached[n][k] \in BOOLEAN
    BY DEF Init
  <1>4. ASSUME NEW r \in Requests PROVE RequestAgrees(r)
    <2>1. /\ job[r] = "idle" /\ seen[r] = Blank /\ input[r] = Blank /\ written[r] = Blank
          /\ calm[r] = FALSE
      BY DEF Init
    <2>2. \A k \in Keys : written[r][k] = Nothing
      BY <2>1 DEF Blank
    <2> QED
      BY <2>1, <2>2 DEF RequestAgrees
  <1> QED
    BY <1>1, <1>2, <1>3, <1>4 DEF IInv

LEMMA IInvStep == IInv /\ [Next]_vars => IInv'
  <1> SUFFICES ASSUME IInv, [Next]_vars PROVE IInv'
    OBVIOUS
  <1>1. TypeOK /\ StalenessBounded /\ RulesKept /\ Entries /\ \A r \in Requests : RequestAgrees(r)
    BY DEF IInv, Entries
  <1>2. TypeOK'
    BY <1>1, TypingStep
  <1>3. StalenessBounded' /\ Entries'
    BY <1>1, StalenessStep
  <1>4. RulesKept'
    BY <1>1, RuleStep
  <1>5. \A r \in Requests : RequestAgrees(r)'
    BY <1>1, <1>2, RequestsStep
  <1> QED
    BY <1>2, <1>3, <1>4, <1>5 DEF IInv, Entries

(* Who has written the last key waits for nobody, and who waits for the first *)
(* waits for one that can go on.                                             *)
LEMMA NoRing == IInv => SavesProceed
  <1> SUFFICES ASSUME IInv, NEW r \in Requests, job[r] = "writing"
               PROVE  \E q \in Requests : job[q] = "writing" /\ ~Stuck(q)
    BY DEF SavesProceed
  <1>1. \A q \in Requests : RequestAgrees(q)
    BY DEF IInv
  <1>2. ASSUME NEW q \in Requests, NEW k \in Keys, written[q][k] # Nothing
        PROVE  /\ job[q] = "writing" /\ input[q][k] = Nothing
               /\ k = "oidc" => input[q]["local"] = Nothing
    BY <1>1, <1>2 DEF RequestAgrees, Blank
  <1>3. CASE \E q \in Requests : written[q]["oidc"] # Nothing
    <2>1. PICK q \in Requests : written[q]["oidc"] # Nothing
      BY <1>3
    <2>2. job[q] = "writing" /\ \A k \in Keys : input[q][k] = Nothing
      BY <1>2, <2>1
    <2> QED
      BY <2>2 DEF Stuck, IsNext
  <1>4. CASE \A q \in Requests : written[q]["oidc"] = Nothing
    <2>1. \A q \in Requests : Stuck(q) => input[q]["local"] # Nothing /\ ~RowFree(q, "local")
      BY <1>4 DEF Stuck, IsNext, RowFree
    <2>2. CASE ~Stuck(r)
      BY <2>2
    <2>3. CASE Stuck(r)
      <3>1. PICK q \in Requests : written[q]["local"] # Nothing
        BY <2>1, <2>3 DEF RowFree
      <3>2. job[q] = "writing" /\ input[q]["local"] = Nothing
        BY <1>2, <3>1
      <3> QED
        BY <2>1, <3>2
    <2> QED
      BY <2>2, <2>3
  <1> QED
    BY <1>3, <1>4

-----------------------------------------------------------------------------

(* The caches, what is stored and what requests on their way know of it agree. *)
THEOREM Invariance == Spec => []IInv
  BY InitIInv, IInvStep, PTL DEF Spec

(* TTL after the last change no node serves a value that is not stored:       *)
(* getSetting takes the time before it asks.                                 *)
THEOREM Staleness == Spec => []StalenessBounded
  <1>1. IInv => StalenessBounded
    BY DEF IInv
  <1> QED
    BY <1>1, Invariance, PTL

(* updateSettings: changes that are TTL apart and do not overlap keep the     *)
(* rule across settings, whatever is in the caches when they begin.          *)
THEOREM Rules == Spec => []RulesKept
  <1>1. IInv => RulesKept
    BY DEF IInv
  <1> QED
    BY <1>1, Invariance, PTL

(* updateSettings writes keys in one order: of the saves that are writing, one *)
(* can go on.                                                                *)
THEOREM Proceeding == Spec => []SavesProceed
  BY Invariance, NoRing, PTL
=============================================================================
