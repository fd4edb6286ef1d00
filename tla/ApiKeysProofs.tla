---------------------------- MODULE ApiKeysProofs ----------------------------
(* Proofs about ApiKeys, for any number of keys, requests and any limit. *)
EXTENDS ApiKeys, FiniteSetTheorems, TLAPS

(* Every step keeps the types. *)
LEMMA TypingStep ==
  ASSUME TypeOK, \A r \in Requests : RequestAgrees(r), [Next]_vars
  PROVE  TypeOK'
  <1> USE DEF TypeOK, account, rows, request
  <1>1. ASSUME NEW r \in Requests, Abandon(r) PROVE TypeOK'
    BY <1>1 DEF Abandon, End
  <1>2. ASSUME NEW r \in Requests, CountKeys(r) PROVE TypeOK'
    BY <1>2 DEF CountKeys, Proceed
  <1>3. ASSUME NEW r \in Requests, CommitEnd(r) PROVE TypeOK'
    BY <1>3 DEF CommitEnd, End
  <1>4. ASSUME NEW r \in Requests, NEW t \in Sessions, EnterWithSession(r, t) PROVE TypeOK'
    BY <1>4 DEF EnterWithSession, Enter
  <1>5. ASSUME NEW r \in Requests, NEW k \in ApiKeys, EnterWithKey(r, k) PROVE TypeOK'
    BY <1>5 DEF EnterWithKey, Enter
  <1>6. ASSUME NEW r \in Requests, NEW k \in ApiKeys, RevokeKey(r, k) PROVE TypeOK'
    BY <1>6 DEF RevokeKey, End
  <1>7. ASSUME NEW r \in Requests, NEW k \in ApiKeys, NEW j \in {"updating", "rotating"},
               ReadKey(r, k, j)
        PROVE  TypeOK'
    BY <1>7 DEF ReadKey, Proceed
  <1>8. ASSUME NEW r \in Requests, NEW k \in ApiKeys, NEW w \in BOOLEAN, InsertKey(r, k, w)
        PROVE  TypeOK'
    BY <1>8 DEF InsertKey, Inserted, End
  <1>9. ASSUME NEW r \in Requests, NEW k \in ApiKeys, NEW g \in {"grace", "revoked"},
               CommitRotation(r, k, g)
        PROVE  TypeOK'
    BY <1>9, RequestAgrees(r) DEF CommitRotation, Inserted, End, RequestAgrees
  <1>10. ASSUME NEW r \in Requests, NEW w \in BOOLEAN, UpdateKey(r, w) PROVE TypeOK'
    BY <1>10 DEF UpdateKey, End
  <1>11. ASSUME NEW r \in Requests, NEW u \in Users, EndEverything(r, u) PROVE TypeOK'
    BY <1>11 DEF EndEverything, KeysOf
  <1>12. ASSUME NEW u \in Users, NEW t \in Sessions, LogIn(u, t) PROVE TypeOK'
    BY <1>12 DEF LogIn
  <1>13. ASSUME NEW t \in Sessions, EndSession(t) PROVE TypeOK'
    BY <1>13 DEF EndSession
  <1>14. ASSUME NEW u \in Users, SetActive(u) PROVE TypeOK'
    BY <1>14 DEF SetActive
  <1>15. ASSUME NEW k \in ApiKeys, GracePasses(k) \/ Expire(k) PROVE TypeOK'
    BY <1>15 DEF GracePasses, Expire
  <1>16. CASE UNCHANGED vars
    BY <1>16 DEF vars
  <1> HIDE DEF TypeOK
  <1> QED
    BY <1>1, <1>2, <1>3, <1>4, <1>5, <1>6, <1>7, <1>8, <1>9, <1>10, <1>11, <1>12,
       <1>13, <1>14, <1>15, <1>16 DEF Next

-----------------------------------------------------------------------------
(* What a step does to rows, and to who is about to change them. *)

(* No row is made, and those that change serve no longer. *)
Lose ==
  /\ owner' = owner /\ from' = from
  /\ \A k \in ApiKeys :
       \/ state'[k] = state[k]
       \/ state[k] \in {"active", "grace"} /\ state'[k] \in {"revoked", "expired"}

(* Nobody has begun to insert or to rotate. *)
Fewer ==
  \A q \in Requests : job'[q] \in {"creating", "rotating"} =>
    job'[q] = job[q] /\ for'[q] = for[q] /\ key'[q] = key[q]

Only(r) ==
  \A q \in Requests \ {r} :
    job'[q] = job[q] /\ for'[q] = for[q] /\ key'[q] = key[q] /\ ended'[q] = ended[q]

LEMMA Changes ==
  ASSUME TypeOK, RowsAgree, \A r \in Requests : RequestAgrees(r), [Next]_vars
  PROVE  \/ Lose /\ Fewer
         \/ \E r \in Requests : CountKeys(r)
         \/ \E r \in Requests, k \in ApiKeys :
              \/ ReadKey(r, k, "rotating")
              \/ \E w \in BOOLEAN : InsertKey(r, k, w)
              \/ \E g \in {"grace", "revoked"} : CommitRotation(r, k, g)
  <1> USE DEF TypeOK, account, rows, request, Lose, Fewer
  <1>1. ASSUME NEW r \in Requests, Abandon(r) PROVE Lose /\ Fewer
    BY <1>1 DEF Abandon, End
  <1>2. ASSUME NEW r \in Requests, CommitEnd(r) PROVE Lose /\ Fewer
    BY <1>2 DEF CommitEnd, End
  <1>3. ASSUME NEW r \in Requests, NEW t \in Sessions, EnterWithSession(r, t) PROVE Lose /\ Fewer
    BY <1>3 DEF EnterWithSession, Enter
  <1>4. ASSUME NEW r \in Requests, NEW k \in ApiKeys, EnterWithKey(r, k) PROVE Lose /\ Fewer
    BY <1>4 DEF EnterWithKey, Enter
  <1>5. ASSUME NEW r \in Requests, NEW k \in ApiKeys, RevokeKey(r, k) PROVE Lose /\ Fewer
    BY <1>5 DEF RevokeKey, End
  <1>6. ASSUME NEW r \in Requests, NEW k \in ApiKeys, ReadKey(r, k, "updating") PROVE Lose /\ Fewer
    BY <1>6 DEF ReadKey, Proceed
  <1>7. ASSUME NEW r \in Requests, NEW w \in BOOLEAN, UpdateKey(r, w) PROVE Lose /\ Fewer
    BY <1>7 DEF UpdateKey, End
  <1>8. ASSUME NEW r \in Requests, NEW u \in Users, EndEverything(r, u) PROVE Lose /\ Fewer
    BY <1>8 DEF EndEverything
  <1>9. ASSUME NEW u \in Users, NEW t \in Sessions, LogIn(u, t) PROVE Lose /\ Fewer
    BY <1>9 DEF LogIn
  <1>10. ASSUME NEW t \in Sessions, EndSession(t) PROVE Lose /\ Fewer
    BY <1>10 DEF EndSession
  <1>11. ASSUME NEW u \in Users, SetActive(u) PROVE Lose /\ Fewer
    BY <1>11 DEF SetActive
  <1>12. ASSUME NEW k \in ApiKeys, GracePasses(k) \/ Expire(k) PROVE Lose /\ Fewer
    BY <1>12 DEF GracePasses, Expire
  <1>13. CASE UNCHANGED vars
    BY <1>13 DEF vars
  <1> HIDE DEF TypeOK, Lose, Fewer
  <1> QED
    BY <1>1, <1>2, <1>3, <1>4, <1>5, <1>6, <1>7, <1>8, <1>9, <1>10, <1>11, <1>12, <1>13
    DEF Next

(* Rows keep their owner and stay; a rotation makes one and revokes another. *)
Kept == \A k \in ApiKeys : state[k] # "absent" => owner'[k] = owner[k] /\ state'[k] # "absent"

LEMMA Rotated ==
  ASSUME TypeOK, NEW r \in Requests, RequestAgrees(r), NEW k \in ApiKeys,
         NEW g \in {"grace", "revoked"}, CommitRotation(r, k, g)
  PROVE  \E old \in ApiKeys :
           /\ job[r] = "rotating" /\ key[r] = old /\ old # k /\ job'[r] = "idle" /\ Only(r)
           /\ state[k] = "absent" /\ state'[k] = "active" /\ from' = [from EXCEPT ![k] = old]
           /\ owner' = [owner EXCEPT ![k] = for[r]] /\ for[r] \in Users
           /\ state[old] # "absent" /\ state'[old] \in {"grace", "revoked", "expired"}
           /\ \A x \in ApiKeys \ {k, old} : state'[x] = state[x]
           /\ ended'[r] = {}
  BY DEF TypeOK, RequestAgrees, CommitRotation, Inserted, End, Only

LEMMA RowsStep ==
  ASSUME TypeOK, RowsAgree, \A r \in Requests : RequestAgrees(r), [Next]_vars
  PROVE  RowsAgree' /\ Kept
  <1>1. CASE Lose
    <2>1. \A k \in ApiKeys : state'[k] = "absent" <=> state[k] = "absent"
      BY <1>1 DEF Lose
    <2>2. \A k \in ApiKeys : state[k] \in {"grace", "revoked", "expired"} =>
            state'[k] \in {"grace", "revoked", "expired"}
      BY <1>1 DEF Lose
    <2>3. \A k \in ApiKeys : from[k] \in ApiKeys \cup {Nothing}
      BY DEF TypeOK
    <2> QED
      BY <1>1, <2>1, <2>2, <2>3 DEF RowsAgree, Kept, Lose
  <1>2. ASSUME NEW r \in Requests, CountKeys(r) PROVE RowsAgree' /\ Kept
    BY <1>2 DEF CountKeys, rows, RowsAgree, Kept
  <1>3. ASSUME NEW r \in Requests, NEW k \in ApiKeys, ReadKey(r, k, "rotating")
        PROVE  RowsAgree' /\ Kept
    BY <1>3 DEF ReadKey, rows, RowsAgree, Kept
  <1>4. ASSUME NEW r \in Requests, NEW k \in ApiKeys, NEW w \in BOOLEAN, InsertKey(r, k, w)
        PROVE  RowsAgree' /\ Kept
    <2>1. /\ state[k] = "absent" /\ state' = [state EXCEPT ![k] = "active"]
          /\ owner' = [owner EXCEPT ![k] = for[r]] /\ for[r] \in Users
          /\ from' = [from EXCEPT ![k] = Nothing]
      BY <1>4, RequestAgrees(r) DEF InsertKey, Inserted, RequestAgrees
    <2>2. Nothing \notin Users \cup ApiKeys
      BY KeysAssumption
    <2>3. /\ state'[k] = "active" /\ owner'[k] = for[r] /\ from'[k] = Nothing
          /\ \A x \in ApiKeys \ {k} :
               state'[x] = state[x] /\ owner'[x] = owner[x] /\ from'[x] = from[x]
      BY <2>1 DEF TypeOK
    <2>4. \A x \in ApiKeys : from[x] # k
      BY <2>1, <2>2 DEF RowsAgree
    <2>5. Kept
      BY <2>1, <2>3 DEF Kept
    <2>6. \A x \in ApiKeys :
            /\ (state'[x] = "absent") <=> (owner'[x] = Nothing)
            /\ state'[x] = "absent" => from'[x] = Nothing
      BY <2>1, <2>2, <2>3 DEF RowsAgree
    <2>7. \A x \in ApiKeys : from'[x] # Nothing => state'[from'[x]] \in {"grace", "revoked", "expired"}
      <3> TAKE x \in ApiKeys
      <3>1. from[x] # Nothing => state[from[x]] \in {"grace", "revoked", "expired"}
        BY DEF RowsAgree
      <3>2. from[x] \in ApiKeys \cup {Nothing}
        BY DEF TypeOK
      <3> QED
        BY <2>3, <2>4, <3>1, <3>2
    <2> QED
      BY <2>5, <2>6, <2>7 DEF RowsAgree
  <1>5. ASSUME NEW r \in Requests, NEW k \in ApiKeys, NEW g \in {"grace", "revoked"},
               CommitRotation(r, k, g)
        PROVE  RowsAgree' /\ Kept
    <2>1. Nothing \notin Users \cup ApiKeys
      BY KeysAssumption
    <2>2. PICK old \in ApiKeys :
            /\ old # k /\ state[k] = "absent" /\ state'[k] = "active"
            /\ from' = [from EXCEPT ![k] = old]
            /\ owner' = [owner EXCEPT ![k] = for[r]] /\ for[r] \in Users
            /\ state[old] # "absent" /\ state'[old] \in {"grace", "revoked", "expired"}
            /\ \A x \in ApiKeys \ {k, old} : state'[x] = state[x]
      BY <1>5, Rotated
    <2>3. /\ owner'[k] = for[r] /\ from'[k] = old
          /\ \A x \in ApiKeys \ {k} : owner'[x] = owner[x] /\ from'[x] = from[x]
      BY <2>2 DEF TypeOK
    <2>7. \A x \in ApiKeys : from[x] # k
      BY <2>1, <2>2 DEF RowsAgree
    <2>4. Kept
      BY <2>2, <2>3 DEF Kept
    <2>5. \A x \in ApiKeys :
            /\ (state'[x] = "absent") <=> (owner'[x] = Nothing)
            /\ state'[x] = "absent" => from'[x] = Nothing
      <3> TAKE x \in ApiKeys
      <3>1. /\ (state[x] = "absent") <=> (owner[x] = Nothing)
            /\ state[x] = "absent" => from[x] = Nothing
        BY DEF RowsAgree
      <3> QED
        BY <2>1, <2>2, <2>3, <3>1
    <2>6. \A x \in ApiKeys : from'[x] # Nothing => state'[from'[x]] \in {"grace", "revoked", "expired"}
      <3> TAKE x \in ApiKeys
      <3>1. from[x] # Nothing => state[from[x]] \in {"grace", "revoked", "expired"}
        BY DEF RowsAgree
      <3>2. from[x] \in ApiKeys \cup {Nothing}
        BY DEF TypeOK
      <3> QED
        BY <2>2, <2>3, <2>7, <3>1, <3>2
    <2> QED
      BY <2>4, <2>5, <2>6 DEF RowsAgree
  <1> QED
    BY <1>1, <1>2, <1>3, <1>4, <1>5, Changes

Moved(r) == Only(r) /\ RequestAgrees(r)'

LEMMA Moves ==
  ASSUME TypeOK, RowsAgree, \A r \in Requests : RequestAgrees(r), [Next]_vars
  PROVE  UNCHANGED request \/ \E r \in Requests : Moved(r)
  <1> USE DEF TypeOK, account, rows, request, Moved, Only, RequestAgrees
  <1>1. ASSUME NEW r \in Requests, Abandon(r) PROVE Moved(r)
    BY <1>1 DEF Abandon, End
  <1>2. ASSUME NEW r \in Requests, CountKeys(r) PROVE Moved(r)
    BY <1>2, RequestAgrees(r) DEF CountKeys, Proceed
  <1>3. ASSUME NEW r \in Requests, CommitEnd(r) PROVE Moved(r)
    BY <1>3 DEF CommitEnd, End
  <1>4. ASSUME NEW r \in Requests, NEW t \in Sessions, EnterWithSession(r, t) PROVE Moved(r)
    BY <1>4, RequestAgrees(r) DEF EnterWithSession, Enter
  <1>5. ASSUME NEW r \in Requests, NEW k \in ApiKeys, EnterWithKey(r, k) PROVE Moved(r)
    <2>1. state[k] # "absent" => owner[k] # Nothing
      BY DEF RowsAgree
    <2>2. owner[k] \in Users
      BY <1>5, <2>1 DEF EnterWithKey, Serves
    <2> QED
      BY <1>5, <2>2, RequestAgrees(r) DEF EnterWithKey, Enter
  <1>6. ASSUME NEW r \in Requests, NEW k \in ApiKeys, RevokeKey(r, k) PROVE Moved(r)
    BY <1>6 DEF RevokeKey, End
  <1>7. ASSUME NEW r \in Requests, NEW k \in ApiKeys, NEW j \in {"updating", "rotating"},
               ReadKey(r, k, j)
        PROVE  Moved(r)
    BY <1>7, RequestAgrees(r) DEF ReadKey, Proceed
  <1>8. ASSUME NEW r \in Requests, NEW k \in ApiKeys, NEW w \in BOOLEAN, InsertKey(r, k, w)
        PROVE  Moved(r)
    BY <1>8 DEF InsertKey, End
  <1>9. ASSUME NEW r \in Requests, NEW k \in ApiKeys, NEW g \in {"grace", "revoked"},
               CommitRotation(r, k, g)
        PROVE  Moved(r)
    BY <1>9 DEF CommitRotation, End
  <1>10. ASSUME NEW r \in Requests, NEW w \in BOOLEAN, UpdateKey(r, w) PROVE Moved(r)
    BY <1>10 DEF UpdateKey, End
  <1>11. ASSUME NEW r \in Requests, NEW u \in Users, EndEverything(r, u) PROVE Moved(r)
    BY <1>11 DEF EndEverything
  <1>12. ASSUME NEW u \in Users, NEW t \in Sessions, LogIn(u, t) PROVE UNCHANGED request
    BY <1>12 DEF LogIn
  <1>13. ASSUME NEW t \in Sessions, EndSession(t) PROVE UNCHANGED request
    BY <1>13 DEF EndSession
  <1>14. ASSUME NEW u \in Users, SetActive(u) PROVE UNCHANGED request
    BY <1>14 DEF SetActive
  <1>15. ASSUME NEW k \in ApiKeys, GracePasses(k) \/ Expire(k) PROVE UNCHANGED request
    BY <1>15 DEF GracePasses, Expire
  <1>16. CASE UNCHANGED vars
    BY <1>16 DEF vars
  <1> HIDE DEF TypeOK, Moved, request
  <1> QED
    BY <1>1, <1>2, <1>3, <1>4, <1>5, <1>6, <1>7, <1>8, <1>9, <1>10, <1>11, <1>12,
       <1>13, <1>14, <1>15, <1>16 DEF Next

LEMMA RequestsStep ==
  ASSUME TypeOK, RowsAgree, \A r \in Requests : RequestAgrees(r), [Next]_vars
  PROVE  \A r \in Requests : RequestAgrees(r)'
  <1> TAKE q \in Requests
  <1>1. Kept
    BY RowsStep
  <1>2. CASE UNCHANGED request
    BY <1>1, <1>2, RequestAgrees(q) DEF request, RequestAgrees, Kept
  <1>3. ASSUME NEW r \in Requests, Moved(r) PROVE RequestAgrees(q)'
    BY <1>1, <1>3, RequestAgrees(q) DEF Moved, Only, RequestAgrees, Kept
  <1> QED
    BY <1>2, <1>3, Moves

-----------------------------------------------------------------------------
(* How many. *)

Issued(u) == {k \in KeysOf(u) : from[k] = Nothing /\ (Serves(k) \/ Rotating(k) # {})}

Sizes ==
  /\ IsFiniteSet(Requests) /\ Cardinality(Requests) \in Nat
  /\ \A k : IsFiniteSet(Heirs(k)) /\ Cardinality(Heirs(k)) \in Nat
  /\ \A k : /\ IsFiniteSet(Rotating(k)) /\ Cardinality(Rotating(k)) \in Nat
            /\ Cardinality(Rotating(k)) <= Cardinality(Requests)
  /\ \A u : IsFiniteSet(Issued(u)) /\ Cardinality(Issued(u)) \in Nat
  /\ \A u : IsFiniteSet(Creating(u)) /\ Cardinality(Creating(u)) \in Nat

LEMMA Finite == Sizes /\ Sizes'
  <1>1. /\ IsFiniteSet(Requests) /\ IsFiniteSet(ApiKeys)
        /\ Cardinality(Requests) \in Nat
    BY KeysAssumption, FS_CardinalityType
  <1>2. ASSUME NEW k
        PROVE  /\ IsFiniteSet(Heirs(k)) /\ Cardinality(Heirs(k)) \in Nat
               /\ IsFiniteSet(Rotating(k)) /\ Cardinality(Rotating(k)) \in Nat
               /\ Cardinality(Rotating(k)) <= Cardinality(Requests)
               /\ IsFiniteSet(Issued(k)) /\ Cardinality(Issued(k)) \in Nat
               /\ IsFiniteSet(Creating(k)) /\ Cardinality(Creating(k)) \in Nat
    <2>1. /\ Heirs(k) \subseteq ApiKeys /\ Rotating(k) \subseteq Requests
          /\ Issued(k) \subseteq ApiKeys /\ Creating(k) \subseteq Requests
      BY DEF Heirs, Rotating, Issued, Creating, KeysOf
    <2> HIDE DEF Heirs, Rotating, Issued, Creating
    <2> QED
      BY <1>1, <2>1, FS_Subset, FS_CardinalityType
  <1>3. ASSUME NEW k
        PROVE  /\ IsFiniteSet(Heirs(k)') /\ Cardinality(Heirs(k)') \in Nat
               /\ IsFiniteSet(Rotating(k)') /\ Cardinality(Rotating(k)') \in Nat
               /\ Cardinality(Rotating(k)') <= Cardinality(Requests)
               /\ IsFiniteSet(Issued(k)') /\ Cardinality(Issued(k)') \in Nat
               /\ IsFiniteSet(Creating(k)') /\ Cardinality(Creating(k)') \in Nat
    <2>1. /\ Heirs(k)' \subseteq ApiKeys /\ Rotating(k)' \subseteq Requests
          /\ Issued(k)' \subseteq ApiKeys /\ Creating(k)' \subseteq Requests
      BY DEF Heirs, Rotating, Issued, Creating, KeysOf
    <2> QED
      BY <1>1, <2>1, FS_Subset, FS_CardinalityType
  <1>4. Sizes
    BY <1>1, <1>2 DEF Sizes
  <1>5. Sizes'
    BY <1>1, <1>3 DEF Sizes
  <1> QED
    BY <1>4, <1>5

(* Fewer elements, fewer to count. *)
LEMMA Smaller ==
  ASSUME NEW S, NEW T, IsFiniteSet(S), T \subseteq S
  PROVE  Cardinality(T) \in Nat /\ Cardinality(S) \in Nat /\ Cardinality(T) <= Cardinality(S)
  BY FS_Subset, FS_CardinalityType

LEMMA HeirsStep ==
  ASSUME TypeOK, RowsAgree, HeirsBounded, \A r \in Requests : RequestAgrees(r), [Next]_vars
  PROVE  HeirsBounded'
  <1> SUFFICES ASSUME NEW k \in ApiKeys
               PROVE  Cardinality(Heirs(k)') + Cardinality(Rotating(k)') <= Cardinality(Requests)
    BY DEF HeirsBounded
  <1>1. /\ Cardinality(Heirs(k)) + Cardinality(Rotating(k)) <= Cardinality(Requests)
        /\ IsFiniteSet(Heirs(k)) /\ IsFiniteSet(Rotating(k))
        /\ Cardinality(Heirs(k)) \in Nat /\ Cardinality(Rotating(k)) \in Nat
        /\ Cardinality(Requests) \in Nat
    BY Finite DEF HeirsBounded, Sizes
  <1>2. ASSUME Heirs(k)' = Heirs(k), Rotating(k)' \subseteq Rotating(k)
        PROVE  Cardinality(Heirs(k)') + Cardinality(Rotating(k)') <= Cardinality(Requests)
    <2>1. /\ Cardinality(Rotating(k)') \in Nat
          /\ Cardinality(Rotating(k)') <= Cardinality(Rotating(k))
      BY <1>1, <1>2, Smaller
    <2> HIDE DEF Heirs, Rotating
    <2> QED
      BY <1>1, <1>2, <2>1
  <1>3. CASE Lose /\ Fewer
    <2>1. Heirs(k)' = Heirs(k) /\ Rotating(k)' \subseteq Rotating(k)
      BY <1>3 DEF Lose, Fewer, Heirs, Rotating
    <2> QED
      BY <1>2, <2>1
  <1>4. ASSUME NEW r \in Requests, CountKeys(r)
        PROVE  Heirs(k)' = Heirs(k) /\ Rotating(k)' \subseteq Rotating(k)
    BY <1>4 DEF CountKeys, Proceed, Heirs, Rotating, rows, TypeOK
  <1>5. ASSUME NEW r \in Requests, NEW x \in ApiKeys, NEW w \in BOOLEAN, InsertKey(r, x, w)
        PROVE  Heirs(k)' = Heirs(k) /\ Rotating(k)' \subseteq Rotating(k)
    <2>1. from[x] = Nothing /\ from' = [from EXCEPT ![x] = Nothing] /\ k # Nothing
      BY <1>5, KeysAssumption DEF InsertKey, Inserted, RowsAgree
    <2>2. Rotating(k)' \subseteq Rotating(k)
      BY <1>5 DEF InsertKey, End, Rotating, TypeOK
    <2> QED
      BY <2>1, <2>2 DEF Heirs, TypeOK
  <1>6. ASSUME NEW r \in Requests, NEW x \in ApiKeys, ReadKey(r, x, "rotating")
        PROVE  Cardinality(Heirs(k)') + Cardinality(Rotating(k)') <= Cardinality(Requests)
    <2>1. Heirs(k)' = Heirs(k)
      BY <1>6 DEF ReadKey, rows, Heirs
    <2>2. CASE x = k
      <3>1. Heirs(k)' = {}
        <4>1. state[k] = "active" /\ k # Nothing
          BY <1>6, <2>2, KeysAssumption DEF ReadKey
        <4>2. \A h \in ApiKeys : from[h] # k
          BY <4>1 DEF RowsAgree
        <4> QED
          BY <2>1, <4>2 DEF Heirs
      <3>2. Cardinality({}) = 0
        BY FS_EmptySet
      <3>3. /\ Cardinality(Rotating(k)') \in Nat
            /\ Cardinality(Rotating(k)') <= Cardinality(Requests)
        BY Finite DEF Sizes
      <3> QED
        BY <1>1, <3>1, <3>2, <3>3
    <2>3. CASE x # k
      <3>1. Rotating(k)' \subseteq Rotating(k)
        BY <1>6, <2>3 DEF ReadKey, Proceed, Rotating, TypeOK
      <3> QED
        BY <1>2, <2>1, <3>1
    <2> QED
      BY <2>2, <2>3
  <1>7. ASSUME NEW r \in Requests, NEW x \in ApiKeys, NEW g \in {"grace", "revoked"},
               CommitRotation(r, x, g)
        PROVE  Cardinality(Heirs(k)') + Cardinality(Rotating(k)') <= Cardinality(Requests)
    <2>1. PICK old \in ApiKeys :
            /\ job[r] = "rotating" /\ key[r] = old /\ job'[r] = "idle" /\ Only(r)
            /\ state[x] = "absent" /\ from' = [from EXCEPT ![x] = old]
      BY <1>7, Rotated
    <2>2. from[x] = Nothing /\ k # Nothing
      BY <2>1, KeysAssumption DEF RowsAgree
    <2>3. CASE k = old
      <3>1. Heirs(k)' = Heirs(k) \cup {x} /\ x \notin Heirs(k)
        BY <2>1, <2>2, <2>3 DEF Heirs, TypeOK
      <3>2. Rotating(k)' = Rotating(k) \ {r} /\ r \in Rotating(k)
        BY <2>1, <2>3 DEF Rotating, Only
      <3>3. /\ Cardinality(Heirs(k) \cup {x}) = Cardinality(Heirs(k)) + 1
            /\ Cardinality(Rotating(k) \ {r}) = Cardinality(Rotating(k)) - 1
        BY <1>1, <3>1, <3>2, FS_AddElement, FS_RemoveElement
      <3> HIDE DEF Heirs, Rotating
      <3> QED
        BY <1>1, <3>1, <3>2, <3>3
    <2>4. CASE k # old
      <3>1. Heirs(k)' = Heirs(k)
        BY <2>1, <2>2, <2>4 DEF Heirs, TypeOK
      <3>2. Rotating(k)' \subseteq Rotating(k)
        BY <2>1 DEF Rotating, Only
      <3> QED
        BY <1>2, <3>1, <3>2
    <2> QED
      BY <2>3, <2>4
  <1> QED
    BY <1>2, <1>3, <1>4, <1>5, <1>6, <1>7, Changes

(* Of the keys of u that serve no more, no more are about to be given grace  *)
(* than there are rotations on their way, and none of these inserts a key.   *)
LEMMA Overlap ==
  ASSUME TypeOK, NEW u, NEW C, C \subseteq {r \in Requests : job[r] # "rotating"}
  PROVE  Cardinality(Issued(u)) + Cardinality(C)
           <= Cardinality({k \in KeysOf(u) : Serves(k)}) + Cardinality(Requests)
  <1> DEFINE S == {k \in KeysOf(u) : Serves(k)}
             D == {k \in Issued(u) : ~Serves(k)}
             R == {r \in Requests : job[r] = "rotating"}
             f == [k \in D |-> CHOOSE r \in R : key[r] = k]
  <1>1. /\ IsFiniteSet(S) /\ IsFiniteSet(D) /\ IsFiniteSet(R) /\ IsFiniteSet(C)
        /\ Cardinality(S) \in Nat /\ Cardinality(D) \in Nat /\ Cardinality(R) \in Nat
        /\ Cardinality(C) \in Nat /\ Cardinality(Requests) \in Nat /\ IsFiniteSet(Requests)
    <2>1. S \subseteq ApiKeys /\ D \subseteq ApiKeys /\ R \subseteq Requests /\ C \subseteq Requests
      BY DEF KeysOf, Issued
    <2>2. IsFiniteSet(ApiKeys) /\ IsFiniteSet(Requests)
      BY KeysAssumption
    <2> HIDE DEF S, D, R
    <2> QED
      BY <2>1, <2>2, FS_Subset, FS_CardinalityType
  <1>2. Cardinality(D) <= Cardinality(R)
    <2>1. ASSUME NEW k \in D PROVE f[k] \in R /\ key[f[k]] = k
      BY DEF Issued, Rotating
    <2>2. f \in [D -> R]
      BY <2>1
    <2> HIDE DEF f, D, R
    <2>3. f \in Injection(D, R)
      BY <2>1, <2>2 DEF Injection, IsInjective
    <2> QED
      BY <1>1, <2>3, FS_Injection
  <1>3. Cardinality(R) + Cardinality(C) <= Cardinality(Requests)
    <2>1. R \cap C = {} /\ R \cup C \subseteq Requests
      OBVIOUS
    <2> HIDE DEF R
    <2>4. Cardinality(R \cup C) = Cardinality(R) + Cardinality(C) - Cardinality(R \cap C)
      BY <1>1, FS_Union
    <2>5. Cardinality(R \cap C) = 0
      <3>1. Cardinality({}) = 0
        BY FS_EmptySet
      <3> QED
        BY <2>1, <3>1
    <2>2. Cardinality(R \cup C) = Cardinality(R) + Cardinality(C)
      BY <1>1, <2>4, <2>5
    <2>3. Cardinality(R \cup C) <= Cardinality(Requests)
      BY <1>1, <2>1, FS_Subset
    <2> QED
      BY <2>2, <2>3
  <1>4. Cardinality(Issued(u)) <= Cardinality(S) + Cardinality(D)
    <2>1. Issued(u) \subseteq S \cup D
      BY DEF Issued
    <2> HIDE DEF S, D
    <2>2. /\ IsFiniteSet(S \cup D)
          /\ Cardinality(S \cup D) = Cardinality(S) + Cardinality(D) - Cardinality(S \cap D)
      BY <1>1, FS_Union
    <2>3. Cardinality(S \cap D) \in Nat
      BY <1>1, FS_Intersection, FS_CardinalityType
    <2>4. /\ Cardinality(Issued(u)) \in Nat
          /\ Cardinality(Issued(u)) <= Cardinality(S \cup D)
      BY <2>1, <2>2, Smaller
    <2> QED
      BY <1>1, <2>2, <2>3, <2>4
  <1>5. Cardinality(Issued(u)) \in Nat
    BY Finite DEF Sizes
  <1> HIDE DEF S, D, R
  <1>6. Cardinality(Issued(u)) + Cardinality(C) <= Cardinality(S) + Cardinality(Requests)
    BY <1>1, <1>2, <1>3, <1>4, <1>5
  <1> QED
    BY <1>6 DEF S

LEMMA IssueStep ==
  ASSUME TypeOK, RowsAgree, IssueBounded, \A r \in Requests : RequestAgrees(r), [Next]_vars
  PROVE  IssueBounded'
  <1> SUFFICES ASSUME NEW u \in Users
               PROVE  Cardinality(Issued(u)') + Cardinality(Creating(u)')
                        < MaxActive + Cardinality(Requests)
    BY DEF IssueBounded, Issued
  <1>1. /\ Cardinality(Issued(u)) + Cardinality(Creating(u)) < MaxActive + Cardinality(Requests)
        /\ IsFiniteSet(Issued(u)) /\ IsFiniteSet(Creating(u))
        /\ Cardinality(Issued(u)) \in Nat /\ Cardinality(Creating(u)) \in Nat
        /\ Cardinality(Requests) \in Nat /\ MaxActive \in Nat
    BY Finite, KeysAssumption DEF IssueBounded, Issued, Sizes
  <1>2. ASSUME Issued(u)' \subseteq Issued(u), Creating(u)' \subseteq Creating(u)
        PROVE  Cardinality(Issued(u)') + Cardinality(Creating(u)')
                 < MaxActive + Cardinality(Requests)
    <2>1. /\ Cardinality(Issued(u)') \in Nat /\ Cardinality(Creating(u)') \in Nat
          /\ Cardinality(Issued(u)') <= Cardinality(Issued(u))
          /\ Cardinality(Creating(u)') <= Cardinality(Creating(u))
      BY <1>1, <1>2, Smaller
    <2> QED
      BY <1>1, <2>1
  <1>3. CASE Lose /\ Fewer
    <2>1. ASSUME NEW k \in ApiKeys
          PROVE  Rotating(k)' \subseteq Rotating(k) /\ (Serves(k)' => Serves(k))
      BY <1>3 DEF Lose, Fewer, Rotating, Serves
    <2>2. Issued(u)' \subseteq Issued(u)
      BY <1>3, <2>1 DEF Lose, Issued, KeysOf
    <2>3. Creating(u)' \subseteq Creating(u)
      BY <1>3 DEF Fewer, Creating
    <2> QED
      BY <1>2, <2>2, <2>3
  <1>4. ASSUME NEW r \in Requests, CountKeys(r)
        PROVE  Cardinality(Issued(u)') + Cardinality(Creating(u)')
                 < MaxActive + Cardinality(Requests)
    <2>1. /\ job[r] = "let in" /\ job' = [job EXCEPT ![r] = "creating"]
          /\ UNCHANGED <<for, key, owner, state, from>>
          /\ Cardinality({k \in KeysOf(for[r]) : Serves(k)}) < MaxActive
      BY <1>4 DEF CountKeys, Proceed, rows
    <2>2. Issued(u)' = Issued(u)
      BY <2>1 DEF Issued, KeysOf, Serves, Rotating, TypeOK
    <2>3. CASE for[r] = u
      <3>1. Creating(u)' \subseteq {q \in Requests : job[q] # "rotating"}
        BY <2>1 DEF Creating, TypeOK
      <3>2. Cardinality(Issued(u)) + Cardinality(Creating(u)')
              <= Cardinality({k \in KeysOf(u) : Serves(k)}) + Cardinality(Requests)
        BY <3>1, Overlap
      <3>3. Cardinality(Creating(u)') \in Nat
        BY Finite DEF Sizes
      <3>4. Cardinality({k \in KeysOf(u) : Serves(k)}) \in Nat
        <4>1. {k \in KeysOf(u) : Serves(k)} \subseteq ApiKeys /\ IsFiniteSet(ApiKeys)
          BY KeysAssumption DEF KeysOf
        <4> QED
          BY <4>1, Smaller
      <3>5. Cardinality({k \in KeysOf(u) : Serves(k)}) < MaxActive
        BY <2>1, <2>3
      <3> QED
        BY <1>1, <2>2, <3>2, <3>3, <3>4, <3>5
    <2>4. CASE for[r] # u
      <3>1. Creating(u)' \subseteq Creating(u)
        BY <2>1, <2>4 DEF Creating, TypeOK
      <3> QED
        BY <1>2, <2>2, <3>1
    <2> QED
      BY <2>3, <2>4
  <1>5. ASSUME NEW r \in Requests, NEW x \in ApiKeys, NEW w \in BOOLEAN, InsertKey(r, x, w)
        PROVE  Cardinality(Issued(u)') + Cardinality(Creating(u)')
                 < MaxActive + Cardinality(Requests)
    <2>1. /\ job[r] = "creating" /\ job' = [job EXCEPT ![r] = "idle"] /\ Only(r)
          /\ state[x] = "absent" /\ state' = [state EXCEPT ![x] = "active"]
          /\ owner' = [owner EXCEPT ![x] = for[r]] /\ from' = [from EXCEPT ![x] = Nothing]
      BY <1>5 DEF InsertKey, Inserted, End, Only, TypeOK
    <2>2. \A k \in ApiKeys : Rotating(k)' = Rotating(k)
      BY <2>1 DEF Rotating, Only, TypeOK
    <2>3. \A k \in ApiKeys \ {x} : k \in Issued(u)' <=> k \in Issued(u)
      BY <2>1, <2>2 DEF Issued, KeysOf, Serves, TypeOK
    <2>4. CASE for[r] = u
      <3>1. Issued(u)' \subseteq Issued(u) \cup {x}
        BY <2>3 DEF Issued, KeysOf
      <3>2. Creating(u)' = Creating(u) \ {r} /\ r \in Creating(u)
        BY <2>1, <2>4 DEF Creating, Only, TypeOK
      <3> HIDE DEF Issued, Creating
      <3>3. /\ IsFiniteSet(Issued(u) \cup {x})
            /\ Cardinality(Issued(u) \cup {x}) <= Cardinality(Issued(u)) + 1
        <4>1. /\ IsFiniteSet(Issued(u) \cup {x})
              /\ Cardinality(Issued(u) \cup {x}) =
                   IF x \in Issued(u) THEN Cardinality(Issued(u)) ELSE Cardinality(Issued(u)) + 1
          BY <1>1, FS_AddElement
        <4> QED
          BY <1>1, <4>1
      <3>4. Cardinality(Creating(u) \ {r}) = Cardinality(Creating(u)) - 1
        BY <1>1, <3>2, FS_RemoveElement
      <3>5. /\ Cardinality(Issued(u)') \in Nat
            /\ Cardinality(Issued(u)') <= Cardinality(Issued(u) \cup {x})
        BY <3>1, <3>3, Smaller
      <3>6. Cardinality(Issued(u) \cup {x}) \in Nat
        BY <3>3, FS_CardinalityType
      <3> QED
        BY <1>1, <3>2, <3>3, <3>4, <3>5, <3>6
    <2>5. CASE for[r] # u
      <3>1. x \notin Issued(u)'
        BY <2>1, <2>5 DEF Issued, KeysOf, TypeOK
      <3>2. Issued(u)' \subseteq Issued(u)
        BY <2>3, <3>1 DEF Issued, KeysOf
      <3>3. Creating(u)' \subseteq Creating(u)
        BY <2>1 DEF Creating, Only, TypeOK
      <3> QED
        BY <1>2, <3>2, <3>3
    <2> QED
      BY <2>4, <2>5
  <1>6. ASSUME NEW r \in Requests, NEW x \in ApiKeys, ReadKey(r, x, "rotating")
        PROVE  Issued(u)' \subseteq Issued(u) /\ Creating(u)' \subseteq Creating(u)
    <2>1. /\ job' = [job EXCEPT ![r] = "rotating"] /\ key' = [key EXCEPT ![r] = x]
          /\ UNCHANGED <<owner, state, from, for>> /\ state[x] = "active"
      BY <1>6 DEF ReadKey, Proceed, rows
    <2>2. \A k \in ApiKeys \ {x} : Rotating(k)' \subseteq Rotating(k)
      BY <2>1 DEF Rotating, TypeOK
    <2>3. Serves(x)
      BY <2>1 DEF Serves
    <2>4. Issued(u)' \subseteq Issued(u)
      BY <2>1, <2>2, <2>3 DEF Issued, KeysOf, Serves
    <2> QED
      BY <2>1, <2>4 DEF Creating, TypeOK
  <1>7. ASSUME NEW r \in Requests, NEW x \in ApiKeys, NEW g \in {"grace", "revoked"},
               CommitRotation(r, x, g)
        PROVE  Issued(u)' \subseteq Issued(u) /\ Creating(u)' \subseteq Creating(u)
    <2>1. PICK old \in ApiKeys :
            /\ job[r] = "rotating" /\ key[r] = old /\ job'[r] = "idle" /\ Only(r) /\ old # x
            /\ state[x] = "absent" /\ from' = [from EXCEPT ![x] = old]
            /\ owner' = [owner EXCEPT ![x] = for[r]]
            /\ \A k \in ApiKeys \ {x, old} : state'[k] = state[k]
      BY <1>7, Rotated
    <2>2. from'[x] # Nothing /\ old # Nothing
      BY <2>1, KeysAssumption DEF TypeOK
    <2>3. \A k \in ApiKeys : Rotating(k)' \subseteq Rotating(k)
      BY <2>1 DEF Rotating, Only
    <2>4. r \in Rotating(old)
      BY <2>1 DEF Rotating
    <2>5. \A k \in ApiKeys \ {x} : owner'[k] = owner[k] /\ from'[k] = from[k]
      BY <2>1 DEF TypeOK
    <2>6. Issued(u)' \subseteq Issued(u)
      <3> SUFFICES ASSUME NEW k \in Issued(u)' PROVE k \in Issued(u)
        OBVIOUS
      <3>1. k \in ApiKeys /\ k # x /\ owner'[k] = u /\ from'[k] = Nothing
        BY <2>2 DEF Issued, KeysOf
      <3>2. CASE k = old
        BY <2>4, <2>5, <3>1, <3>2 DEF Issued, KeysOf
      <3>3. CASE k # old
        BY <2>1, <2>3, <2>5, <3>1, <3>3 DEF Issued, KeysOf, Serves
      <3> QED
        BY <3>2, <3>3
    <2>7. Creating(u)' \subseteq Creating(u)
      BY <2>1 DEF Creating, Only
    <2> QED
      BY <2>6, <2>7
  <1> QED
    BY <1>2, <1>3, <1>4, <1>5, <1>6, <1>7, Changes

-----------------------------------------------------------------------------
(* The theorems. *)

LEMMA InitIInv == Init => IInv
  <1> SUFFICES ASSUME Init PROVE IInv
    OBVIOUS
  <1>1. TypeOK
    BY DEF Init, TypeOK
  <1>2. RowsAgree
    BY DEF Init, RowsAgree
  <1>3. \A r \in Requests : RequestAgrees(r)
    BY DEF Init, RequestAgrees
  <1>4. Cardinality(Requests) \in Nat /\ Cardinality({}) = 0 /\ MaxActive \in Nat \ {0}
    BY Finite, KeysAssumption, FS_EmptySet DEF Sizes
  <1>5. HeirsBounded
    <2> SUFFICES ASSUME NEW k \in ApiKeys
                 PROVE  Cardinality(Heirs(k)) + Cardinality(Rotating(k)) <= Cardinality(Requests)
      BY DEF HeirsBounded
    <2>1. Heirs(k) = {} /\ Rotating(k) = {}
      BY KeysAssumption DEF Init, Heirs, Rotating
    <2> QED
      BY <1>4, <2>1
  <1>6. IssueBounded
    <2> SUFFICES ASSUME NEW u \in Users
                 PROVE  Cardinality(Issued(u)) + Cardinality(Creating(u)) < MaxActive + Cardinality(Requests)
      BY DEF IssueBounded, Issued
    <2>1. Issued(u) = {} /\ Creating(u) = {}
      BY KeysAssumption DEF Init, Issued, KeysOf, Creating
    <2> QED
      BY <1>4, <2>1
  <1> QED
    BY <1>1, <1>2, <1>3, <1>5, <1>6 DEF IInv

LEMMA IInvStep == IInv /\ [Next]_vars => IInv'
  <1> SUFFICES ASSUME IInv, [Next]_vars PROVE IInv'
    OBVIOUS
  <1>1. /\ TypeOK /\ RowsAgree /\ HeirsBounded /\ IssueBounded
        /\ \A r \in Requests : RequestAgrees(r)
    BY DEF IInv
  <1>2. TypeOK' /\ RowsAgree' /\ \A r \in Requests : RequestAgrees(r)'
    BY <1>1, TypingStep, RowsStep, RequestsStep
  <1>3. HeirsBounded' /\ IssueBounded'
    BY <1>1, HeirsStep, IssueStep
  <1> QED
    BY <1>2, <1>3 DEF IInv

(* Types, rows that refer to rows, what requests on their way have read, and *)
(* the two bounds.                                                           *)
THEOREM Invariance == Spec => []IInv
  BY InitIInv, IInvStep, PTL DEF Spec

(* No sequence of rotations, revocations and changes, in whatever order,     *)
(* gives one key more heirs than there were requests at the same time.       *)
THEOREM Inheritance == Spec => []HeirsBounded
  <1>1. IInv => HeirsBounded
    BY DEF IInv
  <1> QED
    BY <1>1, Invariance, PTL

(* Nor does any exceed the limit of issued keys by more than the overlap.    *)
THEOREM Issue == Spec => []IssueBounded
  <1>1. IInv => IssueBounded
    BY DEF IInv
  <1> QED
    BY <1>1, Invariance, PTL
=============================================================================
