--------------------------- MODULE VisitorRecords ---------------------------
(***************************************************************************)
(* What is kept about a visitor, and how it goes: bookings that find or    *)
(* make the record of a telephone number, links by which visitors enter    *)
(* their data themselves, erasure on request, and the masking and          *)
(* destruction of what has not been used for a number of days              *)
(* (internal/app/visits.go, registration.go, admin_visitors.go,            *)
(* visits_ops.go, background.go).                                          *)
(*                                                                         *)
(* The model follows one telephone number.  Handlers look something up     *)
(* first and act on what they found in later statements, so a handler is   *)
(* several steps; what it writes appears with its commit, and until then   *)
(* it holds the locks of the rows it has written.  A refused request is no *)
(* step.  The contents of a record are reduced to whether it has any.      *)
(* What happens to a participant at the door, or with the whole visit, is  *)
(* one step here; which rows those handlers hold while they wait, and who  *)
(* waits for whom, is not a question of this module.                       *)
(***************************************************************************)
EXTENDS Integers, FiniteSets

CONSTANTS
  Records,    \* rows of visitors that carry the number or have carried it
  Guests,     \* rows of visitor_visits
  Links,      \* rows of registration_invitations
  Sessions,   \* database sessions of request handlers
  Nodes,      \* server processes, each running RunBackground
  NoRecord, NoGuest

(* Rows of different tables are different rows. *)
ASSUME RecordsAssumption ==
  /\ NoRecord \notin Records
  /\ NoGuest \notin Guests \cup Records
  /\ Records \cap Guests = {} /\ Records \cap Links = {} /\ Guests \cap Links = {}

VARIABLES
  record,   \* the row is absent, live, or erased_at is set and phone_hash is NULL
  known,    \* it holds a name, a number, an address
  masked,   \* masked_at is set
  guest,    \* visitor_visits.status: absent, open (not terminal) or closed
  of,       \* visitor_visits.visitor_id
  age,      \* of the visit's end: 0, 1 past mask_after_days, 2 past destroy_after_days
  link,     \* the row is absent, open, revoked or completed
  invited,  \* registration_invitations.visitor_visit_id
  job,      \* handler a session runs
  for,      \* the participant, link or record it is about
  found,    \* the visitor it has looked up
  held,     \* rows it has written and not committed
  sweep,    \* how far each node is in runPrivacyMaintenance
  seen      \* ids its last statement has selected

rows == <<record, known, masked, guest, of, age, link, invited>>
session == <<job, for, found, held>>
node == <<sweep, seen>>
vars == <<rows, session, node>>

-----------------------------------------------------------------------------

Job ==
  {"idle", "book", "booking", "submit", "submitting", "invite", "removing",
   "erase", "erasing"}
LinkState == {"absent", "open", "revoked", "completed"}
Subjects == Guests \cup Links \cup Records \cup {NoGuest}

GuestState == {"absent", "open", "closed"}

(* Mutant: completed_at IS NULL is left out. *)
UnrevokedLinks(g) ==
  {l \in Links : link[l] \in {"open", "completed"} /\ invited[l] = g}

(* completed_at IS NULL AND revoked_at IS NULL *)
PendingLinks(g) == {l \in Links : link[l] = "open" /\ invited[l] = g}

VisitsOf(r) == {g \in Guests : guest[g] # "absent" /\ of[g] = r}
LinksTo(r) == UNION {PendingLinks(g) : g \in VisitsOf(r)}

OpenVisits(r) == {g \in VisitsOf(r) : guest[g] = "open"}

(* NOT EXISTS of a visit that has ended less than so many days ago. *)
Unused(r, days) == \A g \in VisitsOf(r) : age[g] >= days

Free(t, rowset) == \A u \in Sessions \ {t} : held[u] \cap rowset = {}
Unlocked(rowset) == \A u \in Sessions : held[u] \cap rowset = {}

(* The number may have a record already: of visits so long ago that they are *)
(* past every threshold, which are not among Guests.                         *)
Init ==
  /\ record \in [Records -> {"absent", "live"}]
  /\ known = [r \in Records |-> record[r] = "live"]
  /\ masked \in [Records -> BOOLEAN]
  /\ \A r \in Records : masked[r] => record[r] = "live"
  /\ guest = [g \in Guests |-> "absent"]
  /\ of = [g \in Guests |-> NoRecord]
  /\ age = [g \in Guests |-> 0]
  /\ link = [l \in Links |-> "absent"]
  /\ invited = [l \in Links |-> NoGuest]
  /\ job = [t \in Sessions |-> "idle"]
  /\ for = [t \in Sessions |-> NoGuest]
  /\ found = [t \in Sessions |-> NoRecord]
  /\ held = [t \in Sessions |-> {}]
  /\ sweep = [n \in Nodes |-> "idle"]
  /\ seen = [n \in Nodes |-> {}]

Begin(t, j, subject, visitor, locked) ==
  /\ job[t] = "idle"
  /\ job' = [job EXCEPT ![t] = j]
  /\ for' = [for EXCEPT ![t] = subject]
  /\ found' = [found EXCEPT ![t] = visitor]
  /\ held' = [held EXCEPT ![t] = locked]
  /\ UNCHANGED <<rows, node>>

Proceed(t, from, to, visitor) ==
  /\ job[t] = from
  /\ Free(t, {visitor} \cup held[t])
  /\ job' = [job EXCEPT ![t] = to]
  /\ found' = [found EXCEPT ![t] = visitor]
  /\ held' = [held EXCEPT ![t] = {visitor}]
  /\ UNCHANGED <<rows, for, node>>

End(t) ==
  /\ job' = [job EXCEPT ![t] = "idle"]
  /\ for' = [for EXCEPT ![t] = NoGuest]
  /\ found' = [found EXCEPT ![t] = NoRecord]
  /\ held' = [held EXCEPT ![t] = {}]
  /\ UNCHANGED node

-----------------------------------------------------------------------------
(* Booking: createVisitRecord and upsertVisitor, for one visitor. *)

Live == {r \in Records : record[r] = "live"}

(* Nobody is locked by this SELECT.  Of several records of the number, the    *)
(* one updated last is taken.                                                 *)
FindVisitor(t, g) ==
  /\ guest[g] = "absent" /\ \A u \in Sessions : for[u] # g
  /\ \E r \in Live : Begin(t, "book", g, r, {})

(* The SELECT finds nobody.  Records bounds how many numbers are new at once. *)
FindNobody(t, g) ==
  /\ guest[g] = "absent" /\ \A u \in Sessions : for[u] # g
  /\ Live = {}
  /\ Cardinality({u \in Sessions : job[u] \in {"book", "booking"}})
       < Cardinality({r \in Records : record[r] = "absent"})
  /\ Begin(t, "book", g, NoRecord, {})

(* INSERT, when nobody has been found: the row gets an id nobody else has. *)
InsertVisitor(t) ==
  /\ found[t] = NoRecord
  /\ \E r \in Records :
       record[r] = "absent" /\ Unlocked({r}) /\ Proceed(t, "book", "booking", r)

(* UPDATE ... WHERE id: also of a record that has been erased since. *)
UpdateVisitor(t) ==
  found[t] # NoRecord /\ Proceed(t, "book", "booking", found[t])

(* The visitor's data and the new visitor_visits row appear. *)
CommitBooking(t) ==
  LET r == found[t]
      g == for[t]
  IN  /\ job[t] = "booking"
      /\ record' = [record EXCEPT ![r] = IF @ = "absent" THEN "live" ELSE @]
      /\ known' = [known EXCEPT ![r] = TRUE]
      /\ masked' = [masked EXCEPT ![r] = FALSE]
      /\ guest' = [guest EXCEPT ![g] = "open"]
      /\ of' = [of EXCEPT ![g] = r]
      /\ End(t)
      /\ UNCHANGED <<age, link, invited>>

-----------------------------------------------------------------------------
(* Registration links. *)

(* createRegistrationInvitation reads the statuses before its transaction,  *)
(* whose first statement revokes the pending link.  Links bounds how many.  *)
RevokeForInvitation(t, g) ==
  /\ guest[g] = "open" /\ Free(t, PendingLinks(g))
  /\ Cardinality({u \in Sessions : job[u] = "invite"})
       < Cardinality({l \in Links : link[l] = "absent"})
  /\ Begin(t, "invite", g, NoRecord, PendingLinks(g))

(* Mutant: no unique index stands in the way of a second pending link. *)
CommitInvitationUnchecked(t) ==
  \E l \in Links :
    /\ job[t] = "invite" /\ link[l] = "absent" /\ Free(t, {for[t]})
    /\ link' = [k \in Links |-> IF k = l THEN "open"
                                ELSE IF k \in held[t] THEN "revoked" ELSE link[k]]
    /\ invited' = [invited EXCEPT ![l] = for[t]]
    /\ End(t)
    /\ UNCHANGED <<record, known, masked, guest, of, age>>

(* The new link is inserted, unless somebody else's has been meanwhile:     *)
(* registration_invitations_open_idx allows one pending link per guest.     *)
(* Its foreign key waits for who has locked the participant.                *)
CommitInvitation(t) ==
  \E l \in Links :
    /\ job[t] = "invite" /\ link[l] = "absent" /\ Free(t, {for[t]})
    /\ PendingLinks(for[t]) \subseteq held[t]
    /\ link' = [k \in Links |-> IF k = l THEN "open"
                                ELSE IF k \in held[t] THEN "revoked" ELSE link[k]]
    /\ invited' = [invited EXCEPT ![l] = for[t]]
    /\ End(t)
    /\ UNCHANGED <<record, known, masked, guest, of, age>>

InvitationRefused(t) ==
  /\ job[t] = "invite" /\ ~(PendingLinks(for[t]) \subseteq held[t])
  /\ End(t) /\ UNCHANGED rows

(* loadRegistrationTarget of a link that has not expired, and the statuses   *)
(* submitPublicRegistration wants.                                           *)
FindLink(t, l) ==
  /\ link[l] = "open" /\ guest[invited[l]] = "open"
  /\ Begin(t, "submit", l, of[invited[l]], {})

(* The form is complete and its company not on the watch list, which is asked *)
(* again: what the visitor entered is written over the record.               *)
EnterData(t) == Proceed(t, "submit", "submitting", found[t])

(* The participant's equipment is written; completed_at is set by id,         *)
(* whatever has become of the link.                                           *)
CommitSubmission(t) ==
  LET l == for[t]
  IN  /\ job[t] = "submitting" /\ Free(t, {l, invited[l]})
      /\ known' = [known EXCEPT ![found[t]] = TRUE]
      /\ masked' = [masked EXCEPT ![found[t]] = FALSE]
      /\ link' = [link EXCEPT ![l] = "completed"]
      /\ End(t)
      /\ UNCHANGED <<record, guest, of, age, invited>>

Revoked(L) == [l \in Links |-> IF l \in L THEN "revoked" ELSE link[l]]

RevokeLink(g) ==
  /\ PendingLinks(g) # {} /\ Unlocked(PendingLinks(g))
  /\ link' = Revoked(PendingLinks(g))
  /\ UNCHANGED <<record, known, masked, guest, of, age, invited, session, node>>

(* runVisitMaintenance clears away the links whose expires_at has come. *)
RevokeExpired(L) ==
  /\ L # {} /\ Unlocked(L) /\ \A l \in L : link[l] = "open"
  /\ link' = Revoked(L)
  /\ UNCHANGED <<record, known, masked, guest, of, age, invited, session, node>>

-----------------------------------------------------------------------------
(* The visit goes on and time passes. *)

(* The visitor leaves or is missed, or the whole visit is called off: the     *)
(* commits of transactions whose other locks no link and no sweep depends on. *)
GuestCloses(g) ==
  /\ guest[g] = "open" /\ Unlocked({g})
  /\ guest' = [guest EXCEPT ![g] = "closed"]
  /\ UNCHANGED <<record, known, masked, of, age, link, invited, session, node>>

(* An approval is written to all participants, removed ones included. *)
GuestReturns(g) ==
  /\ guest[g] = "closed" /\ Unlocked({g})
  /\ guest' = [guest EXCEPT ![g] = "open"]
  /\ UNCHANGED <<record, known, masked, of, age, link, invited, session, node>>

(* cancelParticipant locks the participant, and revokes the link at last. *)
LockParticipant(t, g) ==
  /\ guest[g] = "open" /\ Unlocked({g})
  /\ Begin(t, "removing", g, NoRecord, {g})

CommitRemoval(t) ==
  LET g == for[t]
  IN  /\ job[t] = "removing" /\ Free(t, PendingLinks(g))
      /\ guest' = [guest EXCEPT ![g] = "closed"]
      /\ link' = Revoked(PendingLinks(g))
      /\ End(t)
      /\ UNCHANGED <<record, known, masked, of, age, invited>>

(* updateVisit: a visit still open in the records may be moved ahead. *)
Postpone(g) ==
  /\ guest[g] # "absent" /\ age[g] # 0
  /\ age' = [age EXCEPT ![g] = 0]
  /\ UNCHANGED <<record, known, masked, guest, of, link, invited, session, node>>

(* The next threshold is passed.  Days pass between requests, not within one, *)
(* and no handler reads how old a visit is.                                   *)
Age(g) ==
  /\ guest[g] # "absent" /\ age[g] < 2
  /\ \A t \in Sessions : job[t] = "idle"
  /\ age' = [age EXCEPT ![g] = @ + 1]
  /\ UNCHANGED <<record, known, masked, guest, of, link, invited, session, node>>

-----------------------------------------------------------------------------
(* Erasure on request: eraseVisitor. *)

(* R becomes unrecognisable, erased_at is set. *)
Erased(R) ==
  /\ record' = [r \in Records |-> IF r \in R THEN "erased" ELSE record[r]]
  /\ known' = [r \in Records |-> known[r] /\ r \notin R]
  /\ masked' = [r \in Records |-> masked[r] \/ r \in R]

(* The count of open visits comes before the transaction. *)
CountOpen(t, r) ==
  /\ record[r] # "absent" /\ OpenVisits(r) = {}
  /\ Begin(t, "erase", r, r, {})

(* SELECT ... WHERE erased_at IS NULL FOR UPDATE *)
LockVisitor(t) ==
  /\ job[t] = "erase" /\ record[found[t]] = "live"
  /\ Proceed(t, "erase", "erasing", found[t])

VisitorGone(t) ==
  /\ job[t] = "erase" /\ record[found[t]] = "erased" /\ Free(t, {found[t]})
  /\ End(t) /\ UNCHANGED rows

CommitErase(t) ==
  LET L == LinksTo(found[t])
  IN  /\ job[t] = "erasing" /\ Free(t, L \cup {found[t]})
      /\ Erased({found[t]})
      /\ link' = Revoked(L)
      /\ End(t)
      /\ UNCHANGED <<guest, of, age, invited>>

(* A statement fails, or the client has gone. *)
RollBack(t) ==
  job[t] # "idle" /\ End(t) /\ UNCHANGED rows

-----------------------------------------------------------------------------
(* The sweep every six hours: runPrivacyMaintenance. *)

ToMask == {r \in Live : ~masked[r] /\ Unused(r, 1)}

(* Mutant: what is masked counts as destroyed. *)
ToDestroyUnmasked == {r \in Live : ~masked[r] /\ Unused(r, 2)}

ToDestroy == {r \in Live : Unused(r, 2)}

Step(n, from, to, ids) ==
  /\ sweep[n] = from
  /\ sweep' = [sweep EXCEPT ![n] = to]
  /\ seen' = [seen EXCEPT ![n] = ids]
  /\ UNCHANGED session

(* The statement that masks takes its snapshot, ... *)
LookForMask(n) ==
  Step(n, "idle", "masking", ToMask) /\ UNCHANGED rows

(* ... and masks the rows found that still satisfy its condition on visitors; *)
(* what it asked of their visits is not asked again.                          *)
MaskVisitors(n) ==
  LET still(r) == record[r] = "live" /\ ~masked[r]
  IN  /\ Unlocked(seen[n])
      /\ Step(n, "masking", "masked", {})
      /\ masked' = [r \in Records |-> masked[r] \/ (r \in seen[n] /\ still(r))]
      /\ UNCHANGED <<record, known, guest, of, age, link, invited>>

SelectToDestroy(n) ==
  Step(n, "masked", "destroying", ToDestroy) /\ UNCHANGED rows

(* One UPDATE for each id, without a condition. *)
DestroyOne(n) ==
  \E r \in seen[n] :
    /\ Unlocked({r})
    /\ Step(n, "destroying", "destroying", seen[n] \ {r})
    /\ Erased({r})
    /\ UNCHANGED <<guest, of, age, link, invited>>

FinishSweep(n) ==
  seen[n] = {} /\ Step(n, "destroying", "idle", {}) /\ UNCHANGED rows

(* The masking fails: the destruction is tried all the same. *)
MaskingFails(n) ==
  Step(n, "masking", "masked", {}) /\ UNCHANGED rows

(* An UPDATE for one id fails, and the next id is tried. *)
DestroyFails(n) ==
  \E r \in seen[n] :
    Step(n, "destroying", "destroying", seen[n] \ {r}) /\ UNCHANGED rows

(* The process stops and is started again, or the selection fails. *)
NodeStops(n) ==
  /\ sweep[n] # "idle"
  /\ Step(n, sweep[n], "idle", {})
  /\ UNCHANGED rows

-----------------------------------------------------------------------------

Booking(t) == InsertVisitor(t) \/ UpdateVisitor(t) \/ CommitBooking(t)
Inviting(t) == CommitInvitation(t) \/ InvitationRefused(t)
Submitting(t) == EnterData(t) \/ CommitSubmission(t)
Erasing(t) == LockVisitor(t) \/ VisitorGone(t) \/ CommitErase(t)

Handler(t) ==
  Booking(t) \/ Inviting(t) \/ Submitting(t) \/ Erasing(t) \/ CommitRemoval(t)

Visit(g) ==
  GuestCloses(g) \/ GuestReturns(g) \/ Postpone(g) \/ Age(g) \/ RevokeLink(g)

Sweep(n) ==
  LookForMask(n) \/ MaskVisitors(n) \/ SelectToDestroy(n) \/ DestroyOne(n) \/ FinishSweep(n)

Next ==
  \/ \E t \in Sessions, g \in Guests :
       \/ FindVisitor(t, g) \/ FindNobody(t, g)
       \/ RevokeForInvitation(t, g) \/ LockParticipant(t, g)
  \/ \E t \in Sessions, l \in Links : FindLink(t, l)
  \/ \E t \in Sessions, r \in Records : CountOpen(t, r)
  \/ \E t \in Sessions : Handler(t) \/ RollBack(t)
  \/ \E g \in Guests : Visit(g)
  \/ \E L \in SUBSET Links : RevokeExpired(L)
  \/ \E n \in Nodes : Sweep(n) \/ MaskingFails(n) \/ DestroyFails(n) \/ NodeStops(n)

Spec == Init /\ [][Next]_vars

(* The sweep goes on, whatever fails or stops on the way, and is started      *)
(* again.  Its UPDATE of a row has no deadline, so a transaction that has the *)
(* row locked does not end only after the sweep has given up, every time.     *)
(* What users do, and that visits grow old, is not assumed.                   *)
AwaitedBySweep(r) == \E n \in Nodes : sweep[n] = "destroying" /\ r \in seen[n]

Fairness ==
  /\ \A t \in Sessions, r \in Records :
       SF_vars((Handler(t) \/ RollBack(t)) /\ AwaitedBySweep(r) /\ r \in held[t] \ held'[t])
  /\ \A n \in Nodes :
       /\ WF_vars(LookForMask(n) \/ FinishSweep(n))
       /\ SF_vars(MaskVisitors(n) \/ MaskingFails(n)) /\ SF_vars(SelectToDestroy(n))
       /\ \A r \in Records : SF_vars(DestroyOne(n) /\ r \in seen[n] \ seen'[n])

FairSpec == Spec /\ Fairness

-----------------------------------------------------------------------------
(* Properties. *)

(* Every variable has its type, and a session in the middle of a handler     *)
(* knows whom the handler is about.                                          *)
TypeOK ==
  /\ record \in [Records -> {"absent", "live", "erased"}]
  /\ known \in [Records -> BOOLEAN] /\ masked \in [Records -> BOOLEAN]
  /\ guest \in [Guests -> GuestState]
  /\ of \in [Guests -> Records \cup {NoRecord}]
  /\ age \in [Guests -> 0 .. 2]
  /\ link \in [Links -> LinkState]
  /\ invited \in [Links -> Guests \cup {NoGuest}]
  /\ job \in [Sessions -> Job] /\ for \in [Sessions -> Subjects]
  /\ found \in [Sessions -> Records \cup {NoRecord}]
  /\ held \in [Sessions -> SUBSET (Records \cup Guests \cup Links)]
  /\ sweep \in [Nodes -> {"idle", "masking", "masked", "destroying"}]
  /\ seen \in [Nodes -> SUBSET Records]

(* Participants belong to visitors, open links to participants. *)
RowsAgree ==
  /\ \A g \in Guests :
       guest[g] # "absent" => of[g] \in Records /\ record[of[g]] # "absent"
  /\ \A l \in Links :
       link[l] = "open" => invited[l] \in Guests /\ guest[invited[l]] # "absent"

(* What a handler has found is still there, and what it has locked is as it  *)
(* was: an invitation's old links are open, who is being removed has not     *)
(* been, who is being erased is live.                                        *)
SessionAgrees(t) ==
  /\ job[t] \in {"idle", "book", "submit", "erase"} => held[t] = {}
  /\ job[t] \in {"booking", "submitting", "erasing"} =>
       found[t] \in Records /\ held[t] = {found[t]}
  /\ job[t] \in {"book", "booking", "invite", "removing"} => for[t] \in Guests
  /\ job[t] \in {"submit", "submitting"} => for[t] \in Links
  /\ job[t] \in {"submit", "erase"} => found[t] \in Records
  /\ job[t] \in {"submit", "submitting", "erase"} => record[found[t]] # "absent"
  /\ job[t] = "invite" => guest[for[t]] # "absent"
  /\ job[t] = "invite" => held[t] \subseteq {k \in Links : link[k] = "open"}
  /\ job[t] = "removing" => held[t] = {for[t]} /\ guest[for[t]] = "open"
  /\ job[t] = "erasing" => record[found[t]] = "live"

LocksExclude ==
  \A t, u \in Sessions : t # u => held[t] \cap held[u] = {}

(* A participant has at most one link a form can be sent through, however    *)
(* many requests for one overlap: with two, revoking the link the host knows *)
(* would leave the other.  The handler's own UPDATE does not see what is not *)
(* committed; the partial unique index decides.                              *)
OneOpenLink == \A g \in Guests : \A k, l \in PendingLinks(g) : k = l

(* Inductive: what the theorems about links rest on. *)
IInv ==
  /\ TypeOK /\ RowsAgree /\ LocksExclude /\ OneOpenLink
  /\ \A t \in Sessions : SessionAgrees(t)

(* A consent given through a link is not taken back by what happens to the   *)
(* link afterwards: revocation, a new link, removal and erasure, all decided *)
(* on an older state, leave completed links alone.                           *)
CompletedStays ==
  [][\A l \in Links : link[l] = "completed" => link'[l] = "completed"]_vars

(* A live record whose visits are all past destroy_after_days loses what it   *)
(* knows, or a visit of theirs comes up again, although sweeps are cut off,   *)
(* fail for single visitors, act on what they selected earlier, and meet      *)
(* bookings, forms and erasures half-way.  RetentionHolds says the same of    *)
(* every record that knows somebody.                                          *)
DueAreDestroyed ==
  \A r \in Records :
    (record[r] = "live" /\ Unused(r, 2)) ~> (~known[r] \/ ~Unused(r, 2))

-----------------------------------------------------------------------------
(* What the documents say and the code does not do. *)

(* docs/ADMIN_GUIDE.md: personal data is replaced once the retention period  *)
(* is over.  A booking or a form that found the visitor before the sweep came *)
(* writes name and number into the destroyed record, which no sweep selects.  *)
RetentionHolds ==
  \A r \in Records : (known[r] /\ Unused(r, 2)) ~> (~known[r] \/ ~Unused(r, 2))
=============================================================================
