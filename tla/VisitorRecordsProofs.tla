------------------------ MODULE VisitorRecordsProofs ------------------------
(* Proofs about VisitorRecords, for all records, participants, links,      *)
(* sessions and nodes.                                                     *)
EXTENDS VisitorRecords, TLAPS

RowsType ==
  /\ record \in [Records -> {"absent", "live", "erased"}]
  /\ known \in [Records -> BOOLEAN] /\ masked \in [Records -> BOOLEAN]
  /\ guest \in [Guests -> GuestState]
  /\ of \in [Guests -> Records \cup {NoRecord}]
  /\ age \in [Guests -> 0 .. 2]
  /\ link \in [Links -> LinkState]
  /\ invited \in [Links -> Guests \cup {NoGuest}]

SessionType ==
  /\ job \in [Sessions -> Job] /\ for \in [Sessions -> Subjects]
  /\ found \in [Sessions -> Records \cup {NoRecord}]
  /\ held \in [Sessions -> SUBSET (Records \cup Guests \cup Links)]

NodeType ==
  /\ sweep \in [Nodes -> {"idle", "masking", "masked", "destroying"}]
  /\ seen \in [Nodes -> SUBSET Records]

RowsInv == RowsType /\ RowsAgree /\ OneOpenLink
SessionsInv ==
  SessionType /\ LocksExclude /\ \A t \in Sessions : SessionAgrees(t)

LEMMA InvParts == IInv <=> RowsInv /\ SessionsInv /\ NodeType
  BY DEF IInv, TypeOK, RowsInv, SessionsInv, RowsType, SessionType, NodeType

LEMMA InvPartsNext == IInv' <=> RowsInv' /\ SessionsInv' /\ NodeType'
  BY DEF IInv, TypeOK, RowsInv, SessionsInv, RowsType, SessionType, NodeType

-----------------------------------------------------------------------------
(* What a step may do to the rows while session u is in the middle of its  *)
(* handler: nothing disappears, and what u has locked stays as it is.      *)

Keeps(u) ==
  /\ \A r \in Records : record[r] # "absent" => record'[r] # "absent"
  /\ \A g \in Guests : guest[g] # "absent" => guest'[g] # "absent"
  /\ \A k \in Links : k \in held[u] /\ link[k] = "open" => link'[k] = "open"
  /\ \A g \in Guests : g \in held[u] /\ guest[g] = "open" => guest'[g] = "open"
  /\ \A r \in Records : r \in held[u] /\ record[r] = "live" => record'[r] = "live"

LEMMA OthersAgree ==
  ASSUME NEW u \in Sessions, SessionAgrees(u), Keeps(u),
         job'[u] = job[u], for'[u] = for[u], found'[u] = found[u], held'[u] = held[u]
  PROVE  SessionAgrees(u)'
  BY DEF SessionAgrees, Keeps

LEMMA SameRowsKeep == ASSUME UNCHANGED rows, NEW u PROVE Keeps(u)
  BY DEF rows, Keeps

LEMMA SameRows == ASSUME RowsInv, UNCHANGED rows PROVE RowsInv'
  BY DEF rows, RowsInv, RowsType, RowsAgree, OneOpenLink, PendingLinks

LEMMA SameNode == ASSUME NodeType, UNCHANGED node PROVE NodeType'
  BY DEF node, NodeType

(* No new link opens. *)
LEMMA NoNewLink ==
  ASSUME OneOpenLink,
         \A l \in Links : link'[l] = "open" => link[l] = "open" /\ invited'[l] = invited[l]
  PROVE  OneOpenLink'
  BY DEF OneOpenLink, PendingLinks

-----------------------------------------------------------------------------
(* The shapes of steps. *)

LEMMA RowsOnly ==
  ASSUME IInv, RowsInv', UNCHANGED session, NodeType',
         \A u \in Sessions : Keeps(u)
  PROVE  IInv'
  <1>1. RowsInv /\ SessionsInv
    BY InvParts
  <1>2. SessionType' /\ LocksExclude'
    BY <1>1 DEF SessionsInv, SessionType, LocksExclude, session
  <1>3. ASSUME NEW u \in Sessions PROVE SessionAgrees(u)'
    BY <1>1, OthersAgree DEF SessionsInv, session
  <1> QED
    BY <1>2, <1>3, InvPartsNext DEF SessionsInv

LEMMA Finishing ==
  ASSUME IInv, NEW t \in Sessions, End(t), RowsInv',
         \A u \in Sessions \ {t} : Keeps(u)
  PROVE  IInv'
  <1>1. SessionsInv /\ NodeType
    BY InvParts
  <1>2. NodeType'
    BY <1>1, SameNode DEF End
  <1>3. SessionType'
    BY <1>1 DEF SessionsInv, SessionType, End, Job, Subjects
  <1>4. LocksExclude'
    BY <1>1 DEF SessionsInv, SessionType, LocksExclude, End
  <1>5. ASSUME NEW u \in Sessions PROVE SessionAgrees(u)'
    <2>1. CASE u = t
      BY <1>1, <2>1 DEF SessionsInv, SessionType, SessionAgrees, End
    <2>2. CASE u # t
      BY <1>1, <2>2, OthersAgree DEF SessionsInv, SessionType, End
    <2> QED
      BY <2>1, <2>2
  <1> QED
    BY <1>2, <1>3, <1>4, <1>5, InvPartsNext DEF SessionsInv

LEMMA Beginning ==
  ASSUME IInv, NEW t \in Sessions, NEW j \in Job, NEW s \in Subjects,
         NEW v \in Records \cup {NoRecord}, NEW L \in SUBSET (Records \cup Guests \cup Links),
         Begin(t, j, s, v, L), Free(t, L), SessionAgrees(t)'
  PROVE  IInv'
  <1>1. RowsInv /\ SessionsInv /\ NodeType
    BY InvParts
  <1>2. RowsInv' /\ NodeType'
    BY <1>1, SameRows, SameNode DEF Begin
  <1>3. SessionType'
    BY <1>1 DEF SessionsInv, SessionType, Begin
  <1>4. LocksExclude'
    BY <1>1 DEF SessionsInv, SessionType, LocksExclude, Begin, Free
  <1>5. ASSUME NEW u \in Sessions PROVE SessionAgrees(u)'
    <2>1. CASE u # t
      <3>1. Keeps(u)
        BY SameRowsKeep DEF Begin
      <3> QED
        BY <1>1, <2>1, <3>1, OthersAgree DEF SessionsInv, SessionType, Begin
    <2> QED
      BY <2>1
  <1> QED
    BY <1>2, <1>3, <1>4, <1>5, InvPartsNext DEF SessionsInv

LEMMA Proceeding ==
  ASSUME IInv, NEW t \in Sessions, NEW i, NEW j \in Job, NEW v \in Records,
         Proceed(t, i, j, v), SessionAgrees(t)'
  PROVE  IInv'
  <1>1. RowsInv /\ SessionsInv /\ NodeType
    BY InvParts
  <1>2. RowsInv' /\ NodeType'
    BY <1>1, SameRows, SameNode DEF Proceed
  <1>3. SessionType'
    BY <1>1 DEF SessionsInv, SessionType, Proceed
  <1>4. LocksExclude'
    BY <1>1 DEF SessionsInv, SessionType, LocksExclude, Proceed, Free
  <1>5. ASSUME NEW u \in Sessions PROVE SessionAgrees(u)'
    <2>1. CASE u # t
      <3>1. Keeps(u)
        BY SameRowsKeep DEF Proceed
      <3> QED
        BY <1>1, <2>1, <3>1, OthersAgree DEF SessionsInv, SessionType, Proceed
    <2> QED
      BY <2>1
  <1> QED
    BY <1>2, <1>3, <1>4, <1>5, InvPartsNext DEF SessionsInv

(* A step of a sweep that leaves the rows alone, or changes them. *)
LEMMA Sweeping ==
  ASSUME IInv, NEW n \in Nodes, NEW i,
         NEW j \in {"idle", "masking", "masked", "destroying"}, NEW R \in SUBSET Records,
         Step(n, i, j, R), RowsInv', \A u \in Sessions : Keeps(u)
  PROVE  IInv'
  <1>1. NodeType'
    BY InvParts DEF NodeType, Step
  <1> QED
    BY <1>1, RowsOnly DEF Step

-----------------------------------------------------------------------------
(* Bookings. *)

LEMMA InitInv == Init => IInv
  BY DEF Init, IInv, TypeOK, RowsAgree, LocksExclude, OneOpenLink, PendingLinks,
         SessionAgrees, GuestState, LinkState, Job, Subjects

LEMMA StepFindVisitor ==
  ASSUME IInv, NEW t \in Sessions, NEW g \in Guests, FindVisitor(t, g) PROVE IInv'
  <1>1. PICK r \in Live : Begin(t, "book", g, r, {})
    BY DEF FindVisitor
  <1>2. SessionAgrees(t)'
    BY <1>1 DEF IInv, TypeOK, Live, Begin, SessionAgrees, rows
  <1> QED
    BY <1>1, <1>2, Beginning DEF Job, Subjects, Free, Live

LEMMA StepFindNobody ==
  ASSUME IInv, NEW t \in Sessions, NEW g \in Guests, FindNobody(t, g) PROVE IInv'
  <1>1. Begin(t, "book", g, NoRecord, {})
    BY DEF FindNobody
  <1>2. SessionAgrees(t)'
    BY <1>1 DEF IInv, TypeOK, Begin, SessionAgrees
  <1> QED
    BY <1>1, <1>2, Beginning DEF Job, Subjects, Free

LEMMA StepInsertVisitor ==
  ASSUME IInv, NEW t \in Sessions, InsertVisitor(t) PROVE IInv'
  <1>1. PICK r \in Records : Proceed(t, "book", "booking", r)
    BY DEF InsertVisitor
  <1>2. SessionAgrees(t)'
    BY <1>1 DEF IInv, TypeOK, Proceed, SessionAgrees
  <1> QED
    BY <1>1, <1>2, Proceeding DEF Job

LEMMA StepUpdateVisitor ==
  ASSUME IInv, NEW t \in Sessions, UpdateVisitor(t) PROVE IInv'
  <1>1. Proceed(t, "book", "booking", found[t]) /\ found[t] \in Records
    BY DEF UpdateVisitor, IInv, TypeOK
  <1>2. SessionAgrees(t)'
    BY <1>1 DEF IInv, TypeOK, Proceed, SessionAgrees
  <1> QED
    BY <1>1, <1>2, Proceeding DEF Job

LEMMA StepCommitBooking ==
  ASSUME IInv, NEW t \in Sessions, CommitBooking(t) PROVE IInv'
  <1> DEFINE r == found[t]
             g == for[t]
  <1>1. r \in Records /\ g \in Guests
    BY DEF IInv, SessionAgrees, CommitBooking
  <1>2. RowsType'
    BY <1>1 DEF IInv, TypeOK, RowsType, CommitBooking, GuestState
  <1>3. RowsAgree'
    BY <1>1 DEF IInv, TypeOK, RowsAgree, CommitBooking
  <1>4. OneOpenLink'
    BY NoNewLink DEF IInv, CommitBooking
  <1>5. ASSUME NEW u \in Sessions PROVE Keeps(u)
    BY <1>1 DEF IInv, TypeOK, Keeps, CommitBooking
  <1>6. End(t)
    BY DEF CommitBooking
  <1> QED
    BY <1>2, <1>3, <1>4, <1>5, <1>6, Finishing DEF RowsInv

-----------------------------------------------------------------------------
(* Links. *)

LEMMA StepRevokeForInvitation ==
  ASSUME IInv, NEW t \in Sessions, NEW g \in Guests, RevokeForInvitation(t, g) PROVE IInv'
  <1>1. Begin(t, "invite", g, NoRecord, PendingLinks(g)) /\ Free(t, PendingLinks(g))
    BY DEF RevokeForInvitation
  <1>2. PendingLinks(g) \subseteq {k \in Links : link[k] = "open"}
    BY DEF PendingLinks
  <1>3. SessionAgrees(t)'
    BY <1>1, <1>2 DEF IInv, TypeOK, Begin, SessionAgrees, RevokeForInvitation, rows
  <1> QED
    BY <1>1, <1>2, <1>3, Beginning DEF Job, Subjects

LEMMA StepCommitInvitation ==
  ASSUME IInv, NEW t \in Sessions, CommitInvitation(t) PROVE IInv'
  <1>1. PICK l \in Links :
          /\ job[t] = "invite" /\ link[l] = "absent" /\ Free(t, {for[t]})
          /\ PendingLinks(for[t]) \subseteq held[t]
          /\ link' = [k \in Links |-> IF k = l THEN "open"
                                      ELSE IF k \in held[t] THEN "revoked" ELSE link[k]]
          /\ invited' = [invited EXCEPT ![l] = for[t]]
          /\ End(t)
          /\ UNCHANGED <<record, known, masked, guest, of, age>>
    BY DEF CommitInvitation
  <1>2. for[t] \in Guests /\ guest[for[t]] # "absent"
    BY <1>1 DEF IInv, SessionAgrees
  <1>3. RowsType'
    BY <1>1, <1>2 DEF IInv, TypeOK, RowsType, LinkState
  <1>4. RowsAgree'
    BY <1>1, <1>2 DEF IInv, TypeOK, RowsAgree
  <1>5. OneOpenLink'
    <2>1. ASSUME NEW g \in Guests, NEW k \in Links, k # l,
                 link'[k] = "open", invited'[k] = g
          PROVE  g # for[t] /\ k \in PendingLinks(g)
      BY <1>1, <2>1 DEF IInv, TypeOK, PendingLinks
    <2>2. invited'[l] = for[t]
      BY <1>1 DEF IInv, TypeOK
    <2>3. ASSUME NEW g \in Guests, NEW k \in Links, NEW m \in Links,
                 link'[k] = "open", invited'[k] = g, link'[m] = "open", invited'[m] = g
          PROVE  k = m
      BY <2>1, <2>2, <2>3 DEF IInv, OneOpenLink
    <2> QED
      BY <2>3 DEF OneOpenLink, PendingLinks
  <1>6. ASSUME NEW u \in Sessions \ {t} PROVE Keeps(u)
    BY <1>1 DEF IInv, TypeOK, Keeps, LocksExclude
  <1> QED
    BY <1>1, <1>3, <1>4, <1>5, <1>6, Finishing DEF RowsInv

LEMMA StepFindLink ==
  ASSUME IInv, NEW t \in Sessions, NEW l \in Links, FindLink(t, l) PROVE IInv'
  <1>1. Begin(t, "submit", l, of[invited[l]], {})
    BY DEF FindLink
  <1>2. of[invited[l]] \in Records /\ record[of[invited[l]]] # "absent"
    BY DEF IInv, RowsAgree, FindLink
  <1>3. SessionAgrees(t)'
    BY <1>1, <1>2 DEF IInv, TypeOK, Begin, SessionAgrees, rows
  <1> QED
    BY <1>1, <1>2, <1>3, Beginning DEF Job, Subjects, Free

LEMMA StepEnterData ==
  ASSUME IInv, NEW t \in Sessions, EnterData(t) PROVE IInv'
  <1>1. Proceed(t, "submit", "submitting", found[t]) /\ found[t] \in Records
    BY DEF EnterData, IInv, TypeOK, Proceed, SessionAgrees
  <1>2. SessionAgrees(t)'
    BY <1>1 DEF IInv, TypeOK, Proceed, SessionAgrees, rows
  <1> QED
    BY <1>1, <1>2, Proceeding DEF Job

LEMMA StepCommitSubmission ==
  ASSUME IInv, NEW t \in Sessions, CommitSubmission(t) PROVE IInv'
  <1> DEFINE l == for[t]
  <1>1. l \in Links /\ found[t] \in Records
    BY DEF IInv, SessionAgrees, CommitSubmission
  <1>2. RowsType'
    BY <1>1 DEF IInv, TypeOK, RowsType, CommitSubmission, LinkState
  <1>3. RowsAgree' /\ OneOpenLink'
    BY <1>1, NoNewLink DEF IInv, TypeOK, RowsAgree, CommitSubmission
  <1>4. ASSUME NEW u \in Sessions \ {t} PROVE Keeps(u)
    BY <1>1 DEF IInv, TypeOK, Keeps, CommitSubmission, Free
  <1>5. End(t)
    BY DEF CommitSubmission
  <1> QED
    BY <1>2, <1>3, <1>4, <1>5, Finishing DEF RowsInv

LEMMA StepRefused ==
  ASSUME IInv, NEW t \in Sessions, End(t), UNCHANGED rows PROVE IInv'
  <1>1. RowsInv'
    BY InvParts, SameRows
  <1>2. \A u \in Sessions : Keeps(u)
    BY SameRowsKeep
  <1> QED
    BY <1>1, <1>2, Finishing

(* Links that nobody has locked are revoked, the rows are otherwise as they *)
(* were or have grown.                                                      *)
LEMMA RevokeKeeps ==
  ASSUME IInv, NEW L, Unlocked(L), link' = Revoked(L),
         UNCHANGED <<record, known, masked, guest, of, age, invited>>
  PROVE  RowsInv' /\ \A u \in Sessions : Keeps(u)
  <1>1. RowsType'
    BY DEF IInv, TypeOK, RowsType, Revoked, LinkState
  <1>2. RowsAgree'
    BY DEF IInv, TypeOK, RowsAgree, Revoked
  <1>3. OneOpenLink'
    BY NoNewLink DEF IInv, TypeOK, Revoked
  <1>4. ASSUME NEW u \in Sessions PROVE Keeps(u)
    BY DEF IInv, TypeOK, Keeps, Revoked, Unlocked
  <1> QED
    BY <1>1, <1>2, <1>3, <1>4 DEF RowsInv

LEMMA StepRevokeLink ==
  ASSUME IInv, NEW g \in Guests, RevokeLink(g) PROVE IInv'
  <1>1. RowsInv' /\ \A u \in Sessions : Keeps(u)
    BY RevokeKeeps DEF RevokeLink, IInv, TypeOK
  <1> QED
    BY <1>1, RowsOnly, InvParts, SameNode DEF RevokeLink

LEMMA StepRevokeExpired ==
  ASSUME IInv, NEW L \in SUBSET Links, RevokeExpired(L) PROVE IInv'
  <1>1. RowsInv' /\ \A u \in Sessions : Keeps(u)
    BY RevokeKeeps DEF RevokeExpired, IInv, TypeOK
  <1> QED
    BY <1>1, RowsOnly, InvParts, SameNode DEF RevokeExpired

-----------------------------------------------------------------------------
(* Visits and time. *)

LEMMA StepLockParticipant ==
  ASSUME IInv, NEW t \in Sessions, NEW g \in Guests, LockParticipant(t, g) PROVE IInv'
  <1>1. Begin(t, "removing", g, NoRecord, {g}) /\ Unlocked({g})
    BY DEF LockParticipant
  <1>2. SessionAgrees(t)'
    BY <1>1 DEF IInv, TypeOK, Begin, SessionAgrees, LockParticipant, rows
  <1>3. Free(t, {g})
    BY <1>1 DEF Free, Unlocked
  <1> QED
    BY <1>1, <1>2, <1>3, Beginning DEF Job, Subjects

LEMMA StepCommitRemoval ==
  ASSUME IInv, NEW t \in Sessions, CommitRemoval(t) PROVE IInv'
  <1> DEFINE g == for[t]
  <1>1. g \in Guests /\ guest[g] = "open" /\ g \in held[t]
    BY DEF IInv, SessionAgrees, CommitRemoval
  <1>2. RowsType'
    BY DEF IInv, TypeOK, RowsType, CommitRemoval, Revoked, LinkState, GuestState
  <1>3. RowsAgree'
    BY <1>1 DEF IInv, TypeOK, RowsAgree, CommitRemoval, Revoked
  <1>4. OneOpenLink'
    BY NoNewLink DEF IInv, TypeOK, CommitRemoval, Revoked
  <1>5. ASSUME NEW u \in Sessions \ {t} PROVE Keeps(u)
    <2>1. g \notin held[u]
      BY <1>1 DEF IInv, LocksExclude
    <2> QED
      BY <1>1, <2>1 DEF IInv, TypeOK, Keeps, CommitRemoval, Revoked, Free
  <1>6. End(t)
    BY DEF CommitRemoval
  <1> QED
    BY <1>2, <1>3, <1>4, <1>5, <1>6, Finishing DEF RowsInv

LEMMA StepTime ==
  ASSUME IInv, NEW g \in Guests,
         GuestCloses(g) \/ GuestReturns(g) \/ Postpone(g) \/ Age(g)
  PROVE  IInv'
  <1>1. RowsType'
    BY DEF IInv, TypeOK, RowsType, GuestCloses, GuestReturns, Postpone, Age, GuestState
  <1>2. RowsAgree'
    BY DEF IInv, TypeOK, RowsAgree, GuestCloses, GuestReturns, Postpone, Age
  <1>3. OneOpenLink'
    BY NoNewLink DEF IInv, GuestCloses, GuestReturns, Postpone, Age
  <1>4. ASSUME NEW u \in Sessions PROVE Keeps(u)
    BY DEF IInv, TypeOK, Keeps, GuestCloses, GuestReturns, Postpone, Age, Unlocked
  <1>5. UNCHANGED session /\ UNCHANGED node
    BY DEF GuestCloses, GuestReturns, Postpone, Age
  <1> QED
    BY <1>1, <1>2, <1>3, <1>4, <1>5, RowsOnly, InvParts, SameNode DEF RowsInv

-----------------------------------------------------------------------------
(* Erasure and the sweep. *)

LEMMA StepCountOpen ==
  ASSUME IInv, NEW t \in Sessions, NEW r \in Records, CountOpen(t, r) PROVE IInv'
  <1>1. Begin(t, "erase", r, r, {}) /\ record[r] # "absent"
    BY DEF CountOpen
  <1>2. SessionAgrees(t)'
    BY <1>1 DEF IInv, TypeOK, Begin, SessionAgrees, rows
  <1> QED
    BY <1>1, <1>2, Beginning DEF Job, Subjects, Free

LEMMA StepLockVisitor ==
  ASSUME IInv, NEW t \in Sessions, LockVisitor(t) PROVE IInv'
  <1>1. Proceed(t, "erase", "erasing", found[t]) /\ found[t] \in Records
    BY DEF LockVisitor, IInv, SessionAgrees
  <1>2. SessionAgrees(t)'
    BY <1>1 DEF IInv, TypeOK, Proceed, SessionAgrees, LockVisitor, rows
  <1> QED
    BY <1>1, <1>2, Proceeding DEF Job

(* Records that are not locked are erased, links that are not are revoked. *)
LEMMA ErasedKeeps ==
  ASSUME IInv, NEW R \in SUBSET Records, Erased(R),
         UNCHANGED <<guest, of, age, invited>>,
         link' \in [Links -> LinkState],
         \A l \in Links : link'[l] = "open" => link[l] = "open"
  PROVE  RowsInv'
  <1>1. RowsType'
    BY DEF IInv, TypeOK, RowsType, Erased
  <1>2. RowsAgree'
    BY DEF IInv, TypeOK, RowsAgree, Erased
  <1>3. OneOpenLink'
    BY NoNewLink DEF IInv
  <1> QED
    BY <1>1, <1>2, <1>3 DEF RowsInv

LEMMA StepCommitErase ==
  ASSUME IInv, NEW t \in Sessions, CommitErase(t) PROVE IInv'
  <1>1. found[t] \in Records /\ record[found[t]] # "absent"
    BY DEF IInv, SessionAgrees, CommitErase
  <1>2. link' \in [Links -> LinkState]
        /\ \A l \in Links : link'[l] = "open" => link[l] = "open"
    BY DEF IInv, TypeOK, CommitErase, Revoked, LinkState
  <1>3. RowsInv'
    BY <1>1, <1>2, ErasedKeeps DEF CommitErase
  <1>4. ASSUME NEW u \in Sessions \ {t} PROVE Keeps(u)
    BY <1>1 DEF IInv, TypeOK, Keeps, CommitErase, Erased, Revoked, Free
  <1>5. End(t)
    BY DEF CommitErase
  <1> QED
    BY <1>3, <1>4, <1>5, Finishing

LEMMA StepDestroyOne ==
  ASSUME IInv, NEW n \in Nodes, DestroyOne(n) PROVE IInv'
  <1>1. PICK r \in seen[n] :
          /\ Unlocked({r})
          /\ Step(n, "destroying", "destroying", seen[n] \ {r})
          /\ Erased({r})
          /\ UNCHANGED <<guest, of, age, link, invited>>
    BY DEF DestroyOne
  <1>2. r \in Records /\ seen[n] \ {r} \in SUBSET Records
    BY DEF IInv, TypeOK
  <1>3. RowsInv'
    BY <1>1, <1>2, ErasedKeeps DEF IInv, TypeOK
  <1>4. ASSUME NEW u \in Sessions PROVE Keeps(u)
    BY <1>1, <1>2 DEF IInv, TypeOK, Keeps, Erased, Unlocked
  <1> QED
    BY <1>1, <1>2, <1>3, <1>4, Sweeping

LEMMA StepMaskVisitors ==
  ASSUME IInv, NEW n \in Nodes, MaskVisitors(n) PROVE IInv'
  <1>1. RowsInv'
    BY DEF IInv, TypeOK, RowsInv, RowsType, RowsAgree, OneOpenLink, PendingLinks, MaskVisitors
  <1>2. ASSUME NEW u \in Sessions PROVE Keeps(u)
    BY DEF Keeps, MaskVisitors
  <1>3. Step(n, "masking", "masked", {})
    BY DEF MaskVisitors
  <1> QED
    BY <1>1, <1>2, <1>3, Sweeping

(* The other steps of a sweep read. *)
LEMMA StepReading ==
  ASSUME IInv, NEW n \in Nodes, UNCHANGED rows, NEW i,
         NEW j \in {"idle", "masking", "masked", "destroying"}, NEW R \in SUBSET Records,
         Step(n, i, j, R)
  PROVE  IInv'
  <1>1. RowsInv' /\ \A u \in Sessions : Keeps(u)
    BY InvParts, SameRows, SameRowsKeep
  <1> QED
    BY <1>1, Sweeping

LEMMA StepSweep ==
  ASSUME IInv, NEW n \in Nodes,
         Sweep(n) \/ MaskingFails(n) \/ DestroyFails(n) \/ NodeStops(n)
  PROVE  IInv'
  <1>1. CASE LookForMask(n)
    BY <1>1, StepReading DEF LookForMask, ToMask, Live
  <1>2. CASE MaskVisitors(n)
    BY <1>2, StepMaskVisitors
  <1>3. CASE SelectToDestroy(n)
    BY <1>3, StepReading DEF SelectToDestroy, ToDestroy, Live
  <1>4. CASE DestroyOne(n)
    BY <1>4, StepDestroyOne
  <1>5. CASE FinishSweep(n)
    BY <1>5, StepReading DEF FinishSweep
  <1>6. CASE MaskingFails(n)
    BY <1>6, StepReading DEF MaskingFails
  <1>7. CASE DestroyFails(n)
    <2>1. PICK r \in seen[n] : Step(n, "destroying", "destroying", seen[n] \ {r})
      BY <1>7 DEF DestroyFails
    <2>2. seen[n] \ {r} \in SUBSET Records
      BY DEF IInv, TypeOK
    <2> QED
      BY <1>7, <2>1, <2>2, StepReading DEF DestroyFails
  <1>8. CASE NodeStops(n)
    BY <1>8, StepReading DEF NodeStops
  <1> QED
    BY <1>1, <1>2, <1>3, <1>4, <1>5, <1>6, <1>7, <1>8 DEF Sweep

-----------------------------------------------------------------------------
(* Every step. *)

LEMMA StepHandler ==
  ASSUME IInv, NEW t \in Sessions, Handler(t) \/ RollBack(t) PROVE IInv'
  <1>1. CASE Booking(t)
    BY <1>1, StepInsertVisitor, StepUpdateVisitor, StepCommitBooking DEF Booking
  <1>2. CASE Inviting(t)
    BY <1>2, StepCommitInvitation, StepRefused DEF Inviting, InvitationRefused
  <1>3. CASE Submitting(t)
    BY <1>3, StepEnterData, StepCommitSubmission DEF Submitting
  <1>4. CASE Erasing(t)
    BY <1>4, StepLockVisitor, StepCommitErase, StepRefused DEF Erasing, VisitorGone
  <1>5. CASE CommitRemoval(t)
    BY <1>5, StepCommitRemoval
  <1>6. CASE RollBack(t)
    BY <1>6, StepRefused DEF RollBack
  <1> QED
    BY <1>1, <1>2, <1>3, <1>4, <1>5, <1>6 DEF Handler

LEMMA StepInv == IInv /\ [Next]_vars => IInv'
  <1> SUFFICES ASSUME IInv, [Next]_vars PROVE IInv'
    OBVIOUS
  <1>1. ASSUME NEW t \in Sessions, NEW g \in Guests,
               \/ FindVisitor(t, g) \/ FindNobody(t, g)
               \/ RevokeForInvitation(t, g) \/ LockParticipant(t, g)
        PROVE  IInv'
    BY <1>1, StepFindVisitor, StepFindNobody, StepRevokeForInvitation, StepLockParticipant
  <1>2. ASSUME NEW t \in Sessions, NEW l \in Links, FindLink(t, l) PROVE IInv'
    BY <1>2, StepFindLink
  <1>3. ASSUME NEW t \in Sessions, NEW r \in Records, CountOpen(t, r) PROVE IInv'
    BY <1>3, StepCountOpen
  <1>4. ASSUME NEW t \in Sessions, Handler(t) \/ RollBack(t) PROVE IInv'
    BY <1>4, StepHandler
  <1>5. ASSUME NEW g \in Guests, Visit(g) PROVE IInv'
    BY <1>5, StepTime, StepRevokeLink DEF Visit
  <1>6. ASSUME NEW n \in Nodes,
               Sweep(n) \/ MaskingFails(n) \/ DestroyFails(n) \/ NodeStops(n)
        PROVE  IInv'
    BY <1>6, StepSweep
  <1>7. ASSUME NEW L \in SUBSET Links, RevokeExpired(L) PROVE IInv'
    BY <1>7, StepRevokeExpired
  <1>8. CASE UNCHANGED vars
    <2>1. RowsInv' /\ NodeType'
      BY <1>8, InvParts, SameRows, SameNode DEF vars
    <2>2. UNCHANGED session /\ \A u \in Sessions : Keeps(u)
      BY <1>8, SameRowsKeep DEF vars
    <2> QED
      BY <2>1, <2>2, RowsOnly
  <1> QED
    BY <1>1, <1>2, <1>3, <1>4, <1>5, <1>6, <1>7, <1>8 DEF Next

(* IInv holds always. *)
THEOREM Invariance == Spec => []IInv
  BY InitInv, StepInv, PTL DEF Spec

(* Every variable keeps its type: nothing is booked for, entered for or     *)
(* erased from nobody.                                                       *)
THEOREM Typing == Spec => []TypeOK
  <1>1. IInv => TypeOK
    BY DEF IInv
  <1> QED
    BY <1>1, Invariance, PTL

(* However many requests for links overlap, a participant has one usable    *)
(* link at most.                                                             *)
THEOREM SingleLink == Spec => []OneOpenLink
  <1>1. IInv => OneOpenLink
    BY DEF IInv
  <1> QED
    BY <1>1, Invariance, PTL

-----------------------------------------------------------------------------
(* Completed links. *)

LEMMA SameLinks ==
  ASSUME UNCHANGED link, NEW l \in Links, link[l] = "completed"
  PROVE  link'[l] = "completed"
  OBVIOUS

(* Who revokes has found, and locked, open links only. *)
LEMMA CompletedStep ==
  ASSUME IInv, [Next]_vars, NEW l \in Links, link[l] = "completed"
  PROVE  link'[l] = "completed"
  <1>1. ASSUME NEW t \in Sessions, CommitInvitation(t) PROVE link'[l] = "completed"
    <2>1. held[t] \subseteq {k \in Links : link[k] = "open"}
      BY <1>1 DEF IInv, SessionAgrees, CommitInvitation
    <2> QED
      BY <1>1, <2>1 DEF CommitInvitation
  <1>2. ASSUME NEW t \in Sessions, Handler(t) \/ RollBack(t) PROVE link'[l] = "completed"
    <2>1. CASE Booking(t) \/ RollBack(t)
      BY <2>1 DEF Booking, InsertVisitor, UpdateVisitor, CommitBooking, RollBack, Proceed, rows
    <2>2. CASE Inviting(t)
      BY <1>1, <2>2 DEF Inviting, InvitationRefused, rows
    <2>3. CASE Submitting(t)
      BY <2>3 DEF Submitting, EnterData, CommitSubmission, Proceed, rows, IInv, TypeOK
    <2>4. CASE Erasing(t)
      BY <2>4 DEF Erasing, LockVisitor, VisitorGone, CommitErase, Revoked, LinksTo,
                  PendingLinks, Proceed, rows
    <2>5. CASE CommitRemoval(t)
      BY <2>5 DEF CommitRemoval, Revoked, PendingLinks
    <2> QED
      BY <1>2, <2>1, <2>2, <2>3, <2>4, <2>5 DEF Handler
  <1>3. ASSUME NEW t \in Sessions, NEW g \in Guests,
               \/ FindVisitor(t, g) \/ FindNobody(t, g)
               \/ RevokeForInvitation(t, g) \/ LockParticipant(t, g)
        PROVE  UNCHANGED link
    BY <1>3 DEF FindVisitor, FindNobody, RevokeForInvitation, LockParticipant, Begin, rows
  <1>4. ASSUME NEW t \in Sessions, NEW k \in Links, FindLink(t, k) PROVE UNCHANGED link
    BY <1>4 DEF FindLink, Begin, rows
  <1>5. ASSUME NEW t \in Sessions, NEW r \in Records, CountOpen(t, r) PROVE UNCHANGED link
    BY <1>5 DEF CountOpen, Begin, rows
  <1>6. ASSUME NEW g \in Guests, Visit(g) PROVE link'[l] = "completed"
    BY <1>6 DEF Visit, GuestCloses, GuestReturns, Postpone, Age, RevokeLink, Revoked, PendingLinks
  <1>7. ASSUME NEW L \in SUBSET Links, RevokeExpired(L) PROVE link'[l] = "completed"
    BY <1>7 DEF RevokeExpired, Revoked
  <1>8. ASSUME NEW n \in Nodes,
               Sweep(n) \/ MaskingFails(n) \/ DestroyFails(n) \/ NodeStops(n)
        PROVE  UNCHANGED link
    BY <1>8 DEF Sweep, LookForMask, MaskVisitors, SelectToDestroy, DestroyOne, FinishSweep,
                MaskingFails, DestroyFails, NodeStops, rows
  <1>9. CASE UNCHANGED vars
    BY <1>9 DEF vars, rows
  <1> QED
    BY <1>2, <1>3, <1>4, <1>5, <1>6, <1>7, <1>8, <1>9, SameLinks DEF Next

(* What a visitor has completed through a link stays completed, although    *)
(* revocations are decided on older states: their rows are locked.          *)
THEOREM Completion == Spec => CompletedStays
  <1>1. IInv /\ [Next]_vars =>
          [\A l \in Links : link[l] = "completed" => link'[l] = "completed"]_vars
    BY CompletedStep
  <1> QED
    BY <1>1, Invariance, PTL DEF Spec, CompletedStays
=============================================================================
