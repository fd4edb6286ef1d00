---------------------------- MODULE SignInProofs ----------------------------
(* Proofs about SignIn, for all accounts, links, requests and thresholds. *)
EXTENDS SignIn, FiniteSetTheorems, TLAPS

(* Every step keeps the types. *)
LEMMA TypingStep ==
  ASSUME TypeOK, \A r \in Requests : RequestAgrees(r), [Next]_vars
  PROVE  TypeOK'
  <1> USE DEF TypeOK, accounts, links, tickets, request, Keys, Job, LocalAccounts
  <1>1. ASSUME NEW r \in Requests, Step(r) PROVE TypeOK'
    <2>1. CASE Abandon(r)
      BY <2>1 DEF Abandon, End
    <2>2. CASE Right(r)
      BY <2>2 DEF Right, Proceed
    <2>3. CASE Wrong(r)
      BY <2>3 DEF Wrong, Proceed
    <2>4. CASE CountForAddress(r)
      BY <2>4, RequestAgrees(r) DEF RequestAgrees, CountForAddress, Proceed, Count
    <2>5. CASE CountForAccount(r)
      BY <2>5, RequestAgrees(r) DEF RequestAgrees, CountForAccount, Count, End
    <2>6. CASE ClearFailures(r)
      BY <2>6 DEF ClearFailures, Forgotten, End
    <2>7. CASE SetOwnPassword(r)
      BY <2>7 DEF SetOwnPassword, Proceed
    <2>8. CASE EndOtherSessions(r)
      BY <2>8 DEF EndOtherSessions, End, Without, SessionsOf
    <2>9. CASE EndSessions(r)
      BY <2>9 DEF EndSessions, End, Without, SessionsOf
    <2>10. CASE MarkLink(r)
      BY <2>10 DEF MarkLink, Proceed
    <2>11. CASE SetPassword(r)
      BY <2>11, RequestAgrees(r) DEF RequestAgrees, SetPassword, Deleted, SessionsOf
    <2>12. CASE CloseOthers(r)
      BY <2>12 DEF CloseOthers, UnusedLinks
    <2>13. CASE CommitReset(r)
      BY <2>13, RequestAgrees(r) DEF RequestAgrees, CommitReset, End, Without, Forgotten
    <2>14. CASE CommitTemporary(r)
      BY <2>14 DEF CommitTemporary, End, Without, Forgotten
    <2> QED
      BY <1>1, <2>1, <2>2, <2>3, <2>4, <2>5, <2>6, <2>7, <2>8, <2>9, <2>10, <2>11, <2>12, <2>13, <2>14 DEF Step
  <1>2. ASSUME NEW r \in Requests, NEW u \in Accounts, NEW a \in Addresses, Attempt(r, u, a) PROVE TypeOK'
    BY <1>2 DEF Attempt, Begin
  <1>3. ASSUME NEW r \in Requests, NEW t \in Tokens, OpenSession(r, t) PROVE TypeOK'
    BY <1>3 DEF OpenSession, Proceed
  <1>4. ASSUME NEW r \in Requests, NEW t \in Tokens, VerifyChange(r, t) PROVE TypeOK'
    BY <1>4 DEF VerifyChange, Begin
  <1>5. ASSUME NEW r \in Requests, NEW t \in Tokens, OpenSsoSession(r, t) PROVE TypeOK'
    BY <1>5, RequestAgrees(r) DEF RequestAgrees, OpenSsoSession, End
  <1>6. ASSUME NEW r \in Requests, NEW l \in Links, FindLink(r, l) PROVE TypeOK'
    BY <1>6 DEF FindLink, Begin
  <1>7. ASSUME NEW r \in Requests, NEW l \in Links, NEW u \in Accounts, MailLink(r, l, u) PROVE TypeOK'
    BY <1>7 DEF MailLink, Issued, Begin
  <1>8. ASSUME NEW r \in Requests, NEW u \in Accounts, IssueTemporary(r, u) PROVE TypeOK'
    BY <1>8 DEF IssueTemporary, Deleted, SessionsOf
  <1>9. ASSUME NEW r \in Requests, NEW u \in Accounts, Provision(r, u) PROVE TypeOK'
    BY <1>9 DEF Provision
  <1>10. ASSUME NEW r \in Requests, NEW s \in Tickets, TakeTicket(r, s) PROVE TypeOK'
    BY <1>10 DEF TakeTicket, Begin
  <1>11. ASSUME NEW k \in Keys, Lapse(k) PROVE TypeOK'
    BY <1>11 DEF Lapse
  <1>12. ASSUME NEW t \in Tokens, EndSession(t) PROVE TypeOK'
    BY <1>12 DEF EndSession
  <1>13. ASSUME NEW l \in Links, NEW u \in Accounts, RequestLink(l, u) PROVE TypeOK'
    BY <1>13 DEF RequestLink, Issued
  <1>14. ASSUME NEW u \in Accounts, CreateUser(u) PROVE TypeOK'
    BY <1>14 DEF CreateUser
  <1>15. ASSUME NEW u \in Accounts, EnsureBootstrapAdmin(u) PROVE TypeOK'
    BY <1>15 DEF EnsureBootstrapAdmin
  <1>16. ASSUME NEW u \in Accounts, SetActive(u) PROVE TypeOK'
    BY <1>16 DEF SetActive
  <1>17. ASSUME NEW u \in Accounts, RevokeUserSessions(u) PROVE TypeOK'
    BY <1>17 DEF RevokeUserSessions, Without, SessionsOf
  <1>18. ASSUME NEW s \in Tickets, OidcStart(s) PROVE TypeOK'
    BY <1>18 DEF OidcStart
  <1>19. ASSUME NEW s \in Tickets, DropTicket(s) PROVE TypeOK'
    BY <1>19 DEF DropTicket
  <1>20. CASE UNCHANGED vars
    BY <1>20 DEF vars
  <1> QED
    BY <1>1, <1>2, <1>3, <1>4, <1>5, <1>6, <1>7, <1>8, <1>9, <1>10, <1>11, <1>12, <1>13, <1>14, <1>15, <1>16, <1>17, <1>18, <1>19, <1>20 DEF Next

-----------------------------------------------------------------------------
(* What a step does to a request, to the links and to the passwords. *)

Only(r) ==
  \A q \in Requests \ {r} :
    /\ job'[q] = job[q] /\ for'[q] = for[q] /\ with'[q] = with[q]
    /\ gone'[q] = gone[q] /\ others'[q] = others[q]

(* What a request has locked and had not before was nobody's. *)
Gains(r) ==
  /\ \A u \in Accounts : HoldsAccount(r, u)' => HoldsAccount(r, u) \/ AccountFree(u)
  /\ \A l \in Links : HoldsLink(r, l)' => HoldsLink(r, l) \/ LinkFree(l)

(* It is back from the provider. *)
Back(r) == job[r] \in {"returned", "provisioned"}

Moved(r) ==
  /\ Only(r) /\ RequestAgrees(r)' /\ Gains(r)
  /\ job'[r] = "closing" => CloseOthers(r)
  /\ Back(r)' => (Back(r) /\ with'[r] = with[r]) \/ \E s \in Tickets : TakeTicket(r, s)
  /\ \/ \A k \in Keys : r \in Pending(k)' => r \in Pending(k)
     \/ \E u \in Accounts, a \in Addresses : Attempt(r, u, a)

(* A step moves one request, and where it has come to it knows what it is    *)
(* about, or it moves none.                                                  *)
LEMMA Moves ==
  ASSUME TypeOK, LinksAgree, \A r \in Requests : RequestAgrees(r), [Next]_vars
  PROVE  \/ UNCHANGED request
         \/ \E r \in Requests : Moved(r)
  <1> USE DEF TypeOK, Moved, Only, RequestAgrees, Gains, HoldsAccount, HoldsLink, Pending, Back,
      accounts, links, tickets, request, Job
  <1>1. ASSUME NEW r \in Requests, Step(r) PROVE Moved(r)
    <2>1. CASE Abandon(r)
      BY <2>1, RequestAgrees(r) DEF Abandon, End
    <2>2. CASE Right(r)
      BY <2>2, RequestAgrees(r) DEF Right, Proceed
    <2>3. CASE Wrong(r)
      BY <2>3, RequestAgrees(r) DEF Wrong, Proceed
    <2>4. CASE CountForAddress(r)
      BY <2>4, RequestAgrees(r) DEF CountForAddress, Proceed, Count
    <2>5. CASE CountForAccount(r)
      BY <2>5, RequestAgrees(r) DEF CountForAccount, Count, End
    <2>6. CASE ClearFailures(r)
      BY <2>6, RequestAgrees(r) DEF ClearFailures, Forgotten, End
    <2>7. CASE SetOwnPassword(r)
      BY <2>7, RequestAgrees(r) DEF SetOwnPassword, Proceed
    <2>8. CASE EndOtherSessions(r)
      BY <2>8, RequestAgrees(r) DEF EndOtherSessions, End, Without, SessionsOf
    <2>9. CASE EndSessions(r)
      BY <2>9, RequestAgrees(r) DEF EndSessions, End, Without, SessionsOf
    <2>10. CASE MarkLink(r)
      BY <2>10, RequestAgrees(r) DEF MarkLink, Proceed
    <2>11. CASE SetPassword(r)
      BY <2>11, RequestAgrees(r) DEF SetPassword, Deleted, SessionsOf
    <2>12. CASE CloseOthers(r)
      BY <2>12, RequestAgrees(r) DEF CloseOthers, UnusedLinks
    <2>13. CASE CommitReset(r)
      BY <2>13, RequestAgrees(r) DEF CommitReset, End, Without, Forgotten
    <2>14. CASE CommitTemporary(r)
      BY <2>14, RequestAgrees(r) DEF CommitTemporary, End, Without, Forgotten
    <2> QED
      BY <1>1, <2>1, <2>2, <2>3, <2>4, <2>5, <2>6, <2>7, <2>8, <2>9, <2>10, <2>11, <2>12, <2>13, <2>14 DEF Step
  <1>2. ASSUME NEW r \in Requests, NEW u \in Accounts, NEW a \in Addresses, Attempt(r, u, a)
       PROVE  Moved(r)
    <2>1. Only(r) /\ RequestAgrees(r)' /\ Gains(r) /\ job'[r] # "closing" /\ ~Back(r)'
      BY <1>2, RequestAgrees(r), SignInAssumption DEF LocalAccounts, Attempt, Begin
    <2> HIDE DEF Only, RequestAgrees, Gains, Pending, Back
    <2> QED
      BY <1>2, <2>1
  <1>3. ASSUME NEW r \in Requests, NEW t \in Tokens, OpenSession(r, t)
       PROVE  Moved(r)
    BY <1>3, RequestAgrees(r) DEF OpenSession, Proceed
  <1>4. ASSUME NEW r \in Requests, NEW t \in Tokens, VerifyChange(r, t)
       PROVE  Moved(r)
    BY <1>4, RequestAgrees(r) DEF VerifyChange, Begin
  <1>5. ASSUME NEW r \in Requests, NEW t \in Tokens, OpenSsoSession(r, t)
       PROVE  Moved(r)
    BY <1>5, RequestAgrees(r) DEF OpenSsoSession, End
  <1>6. ASSUME NEW r \in Requests, NEW l \in Links, FindLink(r, l)
       PROVE  Moved(r)
    BY <1>6, RequestAgrees(r), SignInAssumption DEF LinksAgree, LocalAccounts, FindLink, Begin
  <1>7. ASSUME NEW r \in Requests, NEW l \in Links, NEW u \in Accounts, MailLink(r, l, u)
       PROVE  Moved(r)
    BY <1>7, RequestAgrees(r), SignInAssumption DEF LocalAccounts, MailLink, Issued, Begin
  <1>8. ASSUME NEW r \in Requests, NEW u \in Accounts, IssueTemporary(r, u)
       PROVE  Moved(r)
    BY <1>8, RequestAgrees(r), SignInAssumption DEF LocalAccounts, IssueTemporary, Deleted, SessionsOf
  <1>9. ASSUME NEW r \in Requests, NEW u \in Accounts, Provision(r, u)
       PROVE  Moved(r)
    BY <1>9, RequestAgrees(r), SignInAssumption DEF LocalAccounts, Provision
  <1>10. ASSUME NEW r \in Requests, NEW s \in Tickets, TakeTicket(r, s)
       PROVE  Moved(r)
    <2>1. /\ Only(r) /\ RequestAgrees(r)' /\ Gains(r) /\ job'[r] # "closing"
          /\ \A k \in Keys : r \notin Pending(k)'
      BY <1>10, RequestAgrees(r) DEF TakeTicket, Begin
    <2> HIDE DEF Only, RequestAgrees, Gains, Pending, Back
    <2> QED
      BY <1>10, <2>1
  <1>11. ASSUME NEW k \in Keys, Lapse(k) PROVE UNCHANGED request
    BY <1>11 DEF Lapse
  <1>12. ASSUME NEW t \in Tokens, EndSession(t) PROVE UNCHANGED request
    BY <1>12 DEF EndSession
  <1>13. ASSUME NEW l \in Links, NEW u \in Accounts, RequestLink(l, u)
       PROVE  UNCHANGED request
    BY <1>13 DEF RequestLink
  <1>14. ASSUME NEW u \in Accounts,
              CreateUser(u) \/ EnsureBootstrapAdmin(u) \/ SetActive(u) \/ RevokeUserSessions(u)
       PROVE  UNCHANGED request
    BY <1>14 DEF CreateUser, EnsureBootstrapAdmin, SetActive, RevokeUserSessions
  <1>15. ASSUME NEW s \in Tickets, OidcStart(s) \/ DropTicket(s) PROVE UNCHANGED request
    BY <1>15 DEF OidcStart, DropTicket
  <1>16. CASE UNCHANGED vars
    BY <1>16 DEF vars
  <1> HIDE DEF Moved, Only, RequestAgrees, Gains, request
  <1> QED
    BY <1>1, <1>2, <1>3, <1>4, <1>5, <1>6, <1>7, <1>8, <1>9, <1>10, <1>11, <1>12, <1>13, <1>14, <1>15, <1>16 DEF Next

LEMMA LinksFrame ==
  ASSUME [Next]_vars
  PROVE  \/ UNCHANGED links
         \/ \E l \in Links, u \in Accounts : Issued(l, u)
         \/ \E r \in Requests : CommitReset(r)
  <1>1. ASSUME NEW r \in Requests, Step(r) PROVE UNCHANGED links \/ CommitReset(r)
    BY <1>1 DEF Step, Abandon, Right, Wrong, CountForAddress, CountForAccount,
       ClearFailures, SetOwnPassword, EndOtherSessions, EndSessions, MarkLink,
       SetPassword, CloseOthers, CommitTemporary
  <1>2. ASSUME NEW r, NEW u, NEW a, NEW t, NEW l, NEW s,
              \/ Attempt(r, u, a) \/ OpenSession(r, t) \/ VerifyChange(r, t)
              \/ OpenSsoSession(r, t) \/ FindLink(r, l) \/ IssueTemporary(r, u)
              \/ Provision(r, u) \/ TakeTicket(r, s)
       PROVE  UNCHANGED links
    BY <1>2 DEF Attempt, OpenSession, VerifyChange, OpenSsoSession, FindLink,
       IssueTemporary, Provision, TakeTicket
  <1>3. ASSUME NEW l \in Links, NEW u \in Accounts, NEW r,
              MailLink(r, l, u) \/ RequestLink(l, u)
       PROVE  Issued(l, u)
    BY <1>3 DEF MailLink, RequestLink
  <1>4. ASSUME NEW k, NEW t, NEW u, NEW s,
              \/ Lapse(k) \/ EndSession(t) \/ CreateUser(u) \/ EnsureBootstrapAdmin(u)
              \/ SetActive(u) \/ RevokeUserSessions(u) \/ OidcStart(s) \/ DropTicket(s)
       PROVE  UNCHANGED links
    BY <1>4 DEF Lapse, EndSession, CreateUser, EnsureBootstrapAdmin, SetActive,
       RevokeUserSessions, OidcStart, DropTicket
  <1>5. CASE UNCHANGED vars
    BY <1>5 DEF vars, links
  <1> QED
    BY <1>1, <1>2, <1>3, <1>4, <1>5 DEF Next

(* As long as a link is locked by a request, nobody else uses it up. *)
Kept(q) ==
  \A k \in Links : link[k] # "absent" =>
    /\ to'[k] = to[k] /\ link'[k] # "absent"
    /\ HoldsLink(q, k) => link'[k] = link[k]

LEMMA LinksKept ==
  ASSUME TypeOK, LocksExclude, \A r \in Requests : RequestAgrees(r), [Next]_vars,
         NEW q \in Requests, ~CommitReset(q)
  PROVE  Kept(q)
  <1>1. CASE UNCHANGED links
    BY <1>1 DEF links, Kept
  <1>2. ASSUME NEW l \in Links, NEW u \in Accounts, Issued(l, u) PROVE Kept(q)
    BY <1>2 DEF Issued, Kept, TypeOK
  <1>3. ASSUME NEW r \in Requests, CommitReset(r) PROVE Kept(q)
    <2>1. \A k \in others[r] \cup {with[r]} : k \in Links => ~HoldsLink(q, k)
      BY <1>3 DEF LocksExclude, HoldsLink, CommitReset
    <2> QED
      BY <1>3, <2>1 DEF CommitReset, Kept, TypeOK
  <1> QED
    BY <1>1, <1>2, <1>3, LinksFrame

LEMMA OtherAgrees ==
  ASSUME TypeOK, NEW q \in Requests, RequestAgrees(q), Kept(q),
         job'[q] = job[q], for'[q] = for[q], with'[q] = with[q],
         gone'[q] = gone[q], others'[q] = others[q]
  PROVE  RequestAgrees(q)'
  BY DEF RequestAgrees, Kept, HoldsLink, UnusedLinks, TypeOK

LEMMA RequestsStep ==
  ASSUME TypeOK, LinksAgree, LocksExclude, \A r \in Requests : RequestAgrees(r),
         [Next]_vars
  PROVE  \A r \in Requests : RequestAgrees(r)'
  <1> TAKE q \in Requests
  <1>1. CASE CommitReset(q)
    BY <1>1 DEF CommitReset, End, RequestAgrees, TypeOK
  <1>2. CASE ~CommitReset(q)
    <2>1. Kept(q)
      BY <1>2, LinksKept
    <2>2. CASE UNCHANGED request
      BY <2>1, <2>2, OtherAgrees DEF request
    <2>3. ASSUME NEW r \in Requests, Moved(r) PROVE RequestAgrees(q)'
      BY <2>1, <2>3, OtherAgrees DEF Moved, Only
    <2> QED
      BY <2>2, <2>3, Moves
  <1> QED
    BY <1>1, <1>2

-----------------------------------------------------------------------------
(* Locks. *)

LEMMA LocksStep ==
  ASSUME TypeOK, LinksAgree, LocksExclude, \A r \in Requests : RequestAgrees(r),
         [Next]_vars
  PROVE  LocksExclude'
  <1>1. CASE UNCHANGED request
    BY <1>1 DEF request, LocksExclude, HoldsAccount, HoldsLink
  <1>2. ASSUME NEW r \in Requests, Moved(r) PROVE LocksExclude'
    <2> SUFFICES ASSUME NEW p \in Requests, NEW q \in Requests, p # q
                 PROVE  /\ \A u \in Accounts : ~(HoldsAccount(p, u)' /\ HoldsAccount(q, u)')
                        /\ \A l \in Links : ~(HoldsLink(p, l)' /\ HoldsLink(q, l)')
      BY DEF LocksExclude
    <2>1. ASSUME NEW x \in Requests \ {r}
          PROVE  /\ \A u \in Accounts : HoldsAccount(x, u)' <=> HoldsAccount(x, u)
                 /\ \A l \in Links : HoldsLink(x, l)' <=> HoldsLink(x, l)
      BY <1>2 DEF Moved, Only, HoldsAccount, HoldsLink
    <2>2. /\ \A u \in Accounts : HoldsAccount(r, u)' => HoldsAccount(r, u) \/ AccountFree(u)
          /\ \A l \in Links : HoldsLink(r, l)' => HoldsLink(r, l) \/ LinkFree(l)
      BY <1>2 DEF Moved, Gains
    <2>3. CASE p = r
      BY <2>1, <2>2, <2>3 DEF LocksExclude, AccountFree, LinkFree
    <2>4. CASE q = r
      BY <2>1, <2>2, <2>4 DEF LocksExclude, AccountFree, LinkFree
    <2>5. CASE p # r /\ q # r
      BY <2>1, <2>5 DEF LocksExclude
    <2> QED
      BY <2>3, <2>4, <2>5
  <1> QED
    BY <1>1, <1>2, Moves

-----------------------------------------------------------------------------
(* Links. *)

LinksInv == LinksAgree /\ LaterLinksOnly /\ OneResetPerRound

(* Who has closed the other links goes on to the commit, or begins to here.  *)
LEMMA Closings ==
  ASSUME TypeOK, LinksAgree, \A r \in Requests : RequestAgrees(r), [Next]_vars,
         NEW q \in Requests, job'[q] = "closing"
  PROVE  \/ CloseOthers(q)
         \/ /\ job[q] = "closing" /\ for'[q] = for[q] /\ with'[q] = with[q]
            /\ others'[q] = others[q]
  <1>1. CASE UNCHANGED request
    BY <1>1 DEF request
  <1>2. ASSUME NEW r \in Requests, Moved(r)
        PROVE  \/ CloseOthers(q)
               \/ /\ job[q] = "closing" /\ for'[q] = for[q] /\ with'[q] = with[q]
                  /\ others'[q] = others[q]
    BY <1>2 DEF Moved, Only
  <1> QED
    BY <1>1, <1>2, Moves

LEMMA LinksStep ==
  ASSUME TypeOK, LinksInv, \A r \in Requests : RequestAgrees(r), [Next]_vars
  PROVE  LinksInv'
  <1> USE DEF LinksInv
  <1>1. CASE UNCHANGED links
    <2>1. LinksAgree' /\ OneResetPerRound'
      BY <1>1 DEF links, LinksAgree, OneResetPerRound
    <2>2. ASSUME NEW l \in Links, sets'[l] > 0, NEW k \in UnusedLinks(to[l])'
          PROVE  l \in since'[k]
      BY <1>1, <2>2 DEF links, LaterLinksOnly, UnusedLinks
    <2>3. ASSUME NEW q \in Requests, job'[q] = "closing", NEW k \in UnusedLinks(for[q])'
          PROVE  k = with'[q] \/ k \in others'[q] \/ with'[q] \in since'[k]
      <3>1. CASE CloseOthers(q)
        BY <1>1, <2>3, <3>1 DEF CloseOthers, links, UnusedLinks, TypeOK
      <3>2. CASE /\ job[q] = "closing" /\ for'[q] = for[q] /\ with'[q] = with[q]
                 /\ others'[q] = others[q]
        BY <1>1, <2>3, <3>2 DEF LaterLinksOnly, links, UnusedLinks
      <3> QED
        BY <2>3, <3>1, <3>2, Closings
    <2> QED
      BY <2>1, <2>2, <2>3 DEF LaterLinksOnly
  <1>2. ASSUME NEW l \in Links, NEW u \in Accounts, Issued(l, u) PROVE LinksInv'
    <2>1. LinksAgree'
      BY <1>2 DEF Issued, LinksAgree, TypeOK, LocalAccounts
    <2>2. sets[l] = 0
      BY <1>2 DEF Issued, LinksAgree, TypeOK
    <2>3. OneResetPerRound'
      BY <1>2, <2>2 DEF Issued, OneResetPerRound, TypeOK
    <2>4. ASSUME NEW j \in Links, sets'[j] > 0, NEW k \in UnusedLinks(to[j])'
          PROVE  j \in since'[k]
      BY <1>2, <2>2, <2>4 DEF Issued, LaterLinksOnly, UnusedLinks, TypeOK
    <2>5. ASSUME NEW q \in Requests, job'[q] = "closing", NEW k \in UnusedLinks(for[q])'
          PROVE  k = with'[q] \/ k \in others'[q] \/ with'[q] \in since'[k]
      <3>1. ~CloseOthers(q)
        BY <1>2 DEF Issued, CloseOthers, links, TypeOK
      <3>2. /\ job[q] = "closing" /\ for'[q] = for[q] /\ with'[q] = with[q]
            /\ others'[q] = others[q] /\ with[q] \in Links
        BY <2>5, <3>1, Closings DEF RequestAgrees
      <3>3. CASE k = l
        BY <1>2, <3>2, <3>3 DEF Issued, TypeOK
      <3>4. CASE k # l
        BY <1>2, <2>5, <3>2, <3>4 DEF Issued, LaterLinksOnly, UnusedLinks, TypeOK
      <3> QED
        BY <3>3, <3>4
    <2> QED
      BY <2>1, <2>3, <2>4, <2>5 DEF LaterLinksOnly
  <1>3. ASSUME NEW r \in Requests, CommitReset(r) PROVE LinksInv'
    <2> DEFINE l == with[r]
    <2>1. /\ l \in Links /\ link[l] = "open" /\ for[r] = to[l] /\ sets[l] = 0
          /\ job[r] = "closing" /\ others[r] \subseteq UnusedLinks(for[r])
      BY <1>3 DEF CommitReset, RequestAgrees, LinksAgree, TypeOK
    <2>2. LinksAgree'
      BY <1>3, <2>1 DEF CommitReset, LinksAgree, UnusedLinks, TypeOK
    <2>3. ASSUME NEW x PROVE UnusedLinks(x)' \subseteq UnusedLinks(x) \ (others[r] \cup {l})
      BY <1>3, <2>1 DEF CommitReset, UnusedLinks, TypeOK
    <2>4. ASSUME NEW j \in Links, sets'[j] > 0, NEW k \in UnusedLinks(to[j])'
          PROVE  j \in since'[k]
      BY <1>3, <2>1, <2>3, <2>4 DEF CommitReset, LaterLinksOnly, TypeOK
    <2>5. ASSUME NEW q \in Requests, job'[q] = "closing", NEW k \in UnusedLinks(for[q])'
          PROVE  k = with'[q] \/ k \in others'[q] \/ with'[q] \in since'[k]
      BY <1>3, <2>1, <2>3, <2>5 DEF CommitReset, End, LaterLinksOnly, TypeOK
    <2>6. OneResetPerRound'
      <3>1. \A k \in Links : k # l /\ to[k] = to[l] /\ sets[k] > 0 => k \in since[l]
        BY <2>1 DEF LaterLinksOnly, UnusedLinks
      <3> QED
        BY <1>3, <2>1, <3>1 DEF CommitReset, OneResetPerRound, TypeOK
    <2> QED
      BY <2>2, <2>4, <2>5, <2>6 DEF LaterLinksOnly
  <1> QED
    BY <1>1, <1>2, <1>3, LinksFrame

-----------------------------------------------------------------------------
(* Passwords. *)

LEMMA PasswordsFrame ==
  ASSUME [Next]_vars
  PROVE  \/ UNCHANGED <<password, mustChange>>
         \/ \E r \in Requests : SetOwnPassword(r) \/ CommitReset(r) \/ CommitTemporary(r)
         \/ \E u \in Accounts : CreateUser(u) \/ EnsureBootstrapAdmin(u)
  <1>1. ASSUME NEW r \in Requests, Step(r)
        PROVE  \/ UNCHANGED <<password, mustChange>>
               \/ SetOwnPassword(r) \/ CommitReset(r) \/ CommitTemporary(r)
    BY <1>1 DEF Step, Abandon, Right, Wrong, CountForAddress, CountForAccount,
       ClearFailures, EndOtherSessions, EndSessions, MarkLink, SetPassword,
       CloseOthers, accounts
  <1>2. ASSUME NEW r, NEW u, NEW a, NEW t, NEW l, NEW s,
              \/ Attempt(r, u, a) \/ OpenSession(r, t) \/ VerifyChange(r, t)
              \/ OpenSsoSession(r, t) \/ FindLink(r, l) \/ IssueTemporary(r, u)
              \/ Provision(r, u) \/ TakeTicket(r, s)
              \/ MailLink(r, l, u) \/ RequestLink(l, u)
        PROVE  UNCHANGED <<password, mustChange>>
    BY <1>2 DEF Attempt, OpenSession, VerifyChange, OpenSsoSession, FindLink,
       IssueTemporary, Provision, TakeTicket, MailLink, RequestLink, accounts
  <1>3. ASSUME NEW k, NEW t, NEW u, NEW s,
              \/ Lapse(k) \/ EndSession(t) \/ SetActive(u) \/ RevokeUserSessions(u)
              \/ OidcStart(s) \/ DropTicket(s)
        PROVE  UNCHANGED <<password, mustChange>>
    BY <1>3 DEF Lapse, EndSession, SetActive, RevokeUserSessions, OidcStart,
       DropTicket, accounts
  <1>4. CASE UNCHANGED vars
    BY <1>4 DEF vars, accounts
  <1> QED
    BY <1>1, <1>2, <1>3, <1>4 DEF Next

LEMMA PasswordsStep ==
  ASSUME TypeOK, PasswordsAgree, \A r \in Requests : RequestAgrees(r), [Next]_vars
  PROVE  PasswordsAgree'
  <1> USE DEF PasswordsAgree, TypeOK, LocalAccounts
  <1>1. CASE UNCHANGED <<password, mustChange>>
    BY <1>1
  <1>2. ASSUME NEW r \in Requests, SetOwnPassword(r) PROVE PasswordsAgree'
    BY <1>2 DEF SetOwnPassword, Proceed, RequestAgrees
  <1>3. ASSUME NEW r \in Requests, CommitReset(r) PROVE PasswordsAgree'
    BY <1>3 DEF CommitReset, RequestAgrees
  <1>4. ASSUME NEW r \in Requests, CommitTemporary(r) PROVE PasswordsAgree'
    BY <1>4 DEF CommitTemporary, RequestAgrees
  <1>5. ASSUME NEW u \in Accounts, CreateUser(u) PROVE PasswordsAgree'
    BY <1>5 DEF CreateUser
  <1>6. ASSUME NEW u \in Accounts, EnsureBootstrapAdmin(u) PROVE PasswordsAgree'
    BY <1>6 DEF EnsureBootstrapAdmin
  <1> QED
    BY <1>1, <1>2, <1>3, <1>4, <1>5, <1>6, PasswordsFrame

-----------------------------------------------------------------------------
(* The throttle. *)

LEMMA FailuresFrame ==
  ASSUME TypeOK, [Next]_vars
  PROVE  \/ \A k \in Keys : failures'[k] \in Nat /\ failures'[k] <= failures[k]
         \/ \E r \in Requests : CountForAddress(r) \/ CountForAccount(r)
  <1> DEFINE Falls == \A k \in Keys : failures'[k] \in Nat /\ failures'[k] <= failures[k]
  <1> USE DEF TypeOK
  <1>1. ASSUME UNCHANGED failures PROVE Falls
    BY <1>1
  <1>2. ASSUME NEW K, Forgotten(K) PROVE Falls
    BY <1>2 DEF Forgotten
  <1>3. ASSUME NEW r \in Requests, Step(r)
        PROVE  \/ UNCHANGED failures \/ \E K : Forgotten(K)
               \/ CountForAddress(r) \/ CountForAccount(r)
    BY <1>3 DEF Step, Abandon, Right, Wrong, ClearFailures, SetOwnPassword,
       EndOtherSessions, EndSessions, MarkLink, SetPassword, CloseOthers,
       CommitReset, CommitTemporary
  <1>4. ASSUME NEW r, NEW u, NEW a, NEW t, NEW l, NEW s,
              \/ Attempt(r, u, a) \/ OpenSession(r, t) \/ VerifyChange(r, t)
              \/ OpenSsoSession(r, t) \/ FindLink(r, l) \/ IssueTemporary(r, u)
              \/ Provision(r, u) \/ TakeTicket(r, s)
              \/ MailLink(r, l, u) \/ RequestLink(l, u)
        PROVE  UNCHANGED failures
    BY <1>4 DEF Attempt, OpenSession, VerifyChange, OpenSsoSession, FindLink,
       IssueTemporary, Provision, TakeTicket, MailLink, RequestLink
  <1>5. ASSUME NEW t, NEW u, NEW s,
              \/ EndSession(t) \/ CreateUser(u) \/ EnsureBootstrapAdmin(u)
              \/ SetActive(u) \/ RevokeUserSessions(u) \/ OidcStart(s) \/ DropTicket(s)
        PROVE  UNCHANGED failures
    BY <1>5 DEF EndSession, CreateUser, EnsureBootstrapAdmin, SetActive,
       RevokeUserSessions, OidcStart, DropTicket
  <1>6. ASSUME NEW k \in Keys, Lapse(k) PROVE Falls
    BY <1>6 DEF Lapse
  <1>7. CASE UNCHANGED vars
    BY <1>1, <1>7 DEF vars
  <1> HIDE DEF Falls
  <1> QED
    BY <1>1, <1>2, <1>3, <1>4, <1>5, <1>6, <1>7 DEF Next, Falls

LEMMA PendingFinite ==
  /\ IsFiniteSet(Requests) /\ Cardinality(Requests) \in Nat
  /\ \A k : /\ IsFiniteSet(Pending(k)) /\ Cardinality(Pending(k)) \in Nat
            /\ Cardinality(Pending(k)) <= Cardinality(Requests)
  <1>1. IsFiniteSet(Requests)
    BY SignInAssumption
  <1>2. ASSUME NEW k PROVE Pending(k) \subseteq Requests
    BY DEF Pending
  <1> QED
    BY <1>1, <1>2, FS_Subset, FS_CardinalityType

LEMMA ThresholdType == ASSUME NEW k PROVE Threshold(k) \in Nat
  BY SignInAssumption DEF Threshold

(* Whoever counts a failure is pending no more, for the key it counts for. *)
LEMMA Counting ==
  ASSUME TypeOK, AttemptsBounded, NEW r \in Requests, NEW k \in Keys, r \in Pending(k),
         \A j \in Keys \ {k} : Pending(j)' \subseteq Pending(j),
         Pending(k)' = Pending(k) \ {r},
         failures' = [failures EXCEPT ![k] = @ + 1]
  PROVE  AttemptsBounded'
  <1> SUFFICES ASSUME NEW j \in Keys
               PROVE  failures'[j] + Cardinality(Pending(j)')
                        < Threshold(j) + Cardinality(Requests)
    BY DEF AttemptsBounded, Threshold
  <1>1. failures[j] + Cardinality(Pending(j)) < Threshold(j) + Cardinality(Requests)
    BY DEF AttemptsBounded
  <1>2. /\ Cardinality(Pending(j)) \in Nat /\ Cardinality(Requests) \in Nat
        /\ Threshold(j) \in Nat /\ failures[j] \in Nat
    BY PendingFinite, ThresholdType DEF TypeOK
  <1>3. CASE j = k
    <2>1. /\ IsFiniteSet(Pending(k) \ {r})
          /\ Cardinality(Pending(k) \ {r}) = Cardinality(Pending(k)) - 1
      BY PendingFinite, FS_RemoveElement
    <2>2. failures'[j] = failures[j] + 1
      BY <1>3 DEF TypeOK
    <2>3. Cardinality(Pending(j)') = Cardinality(Pending(j)) - 1
      BY <1>3, <2>1
    <2> HIDE DEF Pending
    <2> QED
      BY <1>1, <1>2, <2>2, <2>3
  <1>4. CASE j # k
    <2>1. Cardinality(Pending(j)') \in Nat /\ Cardinality(Pending(j)') <= Cardinality(Pending(j))
      BY <1>4, PendingFinite, FS_Subset, FS_CardinalityType
    <2>2. failures'[j] = failures[j]
      BY <1>4 DEF TypeOK
    <2> QED
      BY <1>1, <1>2, <2>1, <2>2
  <1> QED
    BY <1>3, <1>4

LEMMA AttemptsStep ==
  ASSUME TypeOK, LinksAgree, AttemptsBounded, \A r \in Requests : RequestAgrees(r),
         [Next]_vars
  PROVE  AttemptsBounded'
  <1>1. ASSUME NEW r \in Requests, CountForAddress(r) PROVE AttemptsBounded'
    <2>1. PICK k \in Keys : k = with[r] /\ k \notin Accounts
      BY <1>1, SignInAssumption DEF CountForAddress, Proceed, RequestAgrees, Keys
    <2>2. /\ job[r] = "failed" /\ job'[r] = "counted"
          /\ for'[r] = for[r] /\ for[r] \in Accounts /\ Only(r)
      BY <1>1, SignInAssumption DEF CountForAddress, Proceed, TypeOK, Only, RequestAgrees
    <2>3. r \in Pending(k) /\ r \notin Pending(k)'
      BY <2>1, <2>2 DEF Pending
    <2>4. \A q \in Requests \ {r}, j \in Keys : q \in Pending(j)' <=> q \in Pending(j)
      BY <2>2 DEF Pending, Only
    <2>5. \A j \in Keys \ {k} : r \in Pending(j)' => r \in Pending(j)
      BY <2>2 DEF Pending
    <2>6. \A j \in Keys : Pending(j) \subseteq Requests /\ Pending(j)' \subseteq Requests
      BY DEF Pending
    <2>7. failures' = [failures EXCEPT ![k] = @ + 1]
      BY <1>1, <2>1 DEF CountForAddress, Count
    <2> HIDE DEF Pending
    <2>8. /\ \A j \in Keys \ {k} : Pending(j)' \subseteq Pending(j)
          /\ Pending(k)' = Pending(k) \ {r}
      BY <2>3, <2>4, <2>5, <2>6
    <2> QED
      BY <2>3, <2>7, <2>8, Counting
  <1>2. ASSUME NEW r \in Requests, CountForAccount(r) PROVE AttemptsBounded'
    <2>1. PICK k \in Keys : k = for[r]
      BY <1>2 DEF CountForAccount, RequestAgrees, Keys, TypeOK
    <2>2. job[r] = "counted" /\ job'[r] = "idle" /\ Only(r)
      BY <1>2 DEF CountForAccount, End, TypeOK, Only
    <2>3. r \in Pending(k) /\ \A j \in Keys : r \notin Pending(j)'
      BY <2>1, <2>2 DEF Pending
    <2>4. \A q \in Requests \ {r}, j \in Keys : q \in Pending(j)' <=> q \in Pending(j)
      BY <2>2 DEF Pending, Only
    <2>5. \A j \in Keys : Pending(j) \subseteq Requests /\ Pending(j)' \subseteq Requests
      BY DEF Pending
    <2>6. failures' = [failures EXCEPT ![k] = @ + 1]
      BY <1>2, <2>1 DEF CountForAccount, Count
    <2>7. /\ \A j \in Keys \ {k} : Pending(j)' \subseteq Pending(j)
          /\ Pending(k)' = Pending(k) \ {r}
      BY <2>3, <2>4, <2>5
    <2> QED
      BY <2>3, <2>6, <2>7, Counting
  <1>3. ASSUME NEW k \in Keys,
              failures'[k] \in Nat, failures'[k] <= failures[k],
              \/ Pending(k)' \subseteq Pending(k)
              \/ failures[k] < Threshold(k) /\ Pending(k)' \subseteq Requests
        PROVE  failures'[k] + Cardinality(Pending(k)') < Threshold(k) + Cardinality(Requests)
    <2>1. /\ failures[k] + Cardinality(Pending(k)) < Threshold(k) + Cardinality(Requests)
          /\ Cardinality(Pending(k)) \in Nat /\ Cardinality(Requests) \in Nat
          /\ Threshold(k) \in Nat /\ failures[k] \in Nat
      BY PendingFinite, ThresholdType DEF AttemptsBounded, TypeOK
    <2>2. CASE Pending(k)' \subseteq Pending(k)
      <3>1. /\ Cardinality(Pending(k)') \in Nat
            /\ Cardinality(Pending(k)') <= Cardinality(Pending(k))
        BY <2>2, PendingFinite, FS_Subset, FS_CardinalityType
      <3> QED
        BY <1>3, <2>1, <3>1
    <2>3. CASE failures[k] < Threshold(k) /\ Pending(k)' \subseteq Requests
      <3>1. /\ Cardinality(Pending(k)') \in Nat
            /\ Cardinality(Pending(k)') <= Cardinality(Requests)
        BY <2>3, PendingFinite, FS_Subset, FS_CardinalityType
      <3> QED
        BY <1>3, <2>1, <2>3, <3>1
    <2> QED
      BY <1>3, <2>2, <2>3
  <1>4. CASE \A k \in Keys : failures'[k] \in Nat /\ failures'[k] <= failures[k]
    <2>1. ASSUME NEW k \in Keys
          PROVE  \/ Pending(k)' \subseteq Pending(k)
                 \/ failures[k] < Threshold(k) /\ Pending(k)' \subseteq Requests
      <3>1. CASE UNCHANGED request
        BY <3>1 DEF request, Pending
      <3>2. ASSUME NEW r \in Requests, Moved(r), r \in Pending(k)' => r \in Pending(k)
            PROVE  Pending(k)' \subseteq Pending(k)
        BY <3>2 DEF Moved, Only, Pending
      <3>3. ASSUME NEW r \in Requests, NEW u \in Accounts, NEW a \in Addresses,
                   Attempt(r, u, a)
            PROVE  \/ Pending(k)' \subseteq Pending(k)
                   \/ failures[k] < Threshold(k) /\ Pending(k)' \subseteq Requests
        <4>1. CASE k \in {u, a}
          <5>1. failures[k] \in Nat /\ Threshold(k) \in Nat /\ ~(failures[k] >= Threshold(k))
            BY <3>3, <4>1, ThresholdType DEF Attempt, Locked, TypeOK
          <5>2. Pending(k)' \subseteq Requests
            BY DEF Pending
          <5> QED
            BY <5>1, <5>2
        <4>2. CASE k \notin {u, a}
          BY <3>3, <4>2 DEF Attempt, Begin, Pending, TypeOK
        <4> QED
          BY <4>1, <4>2
      <3>4. ASSUME NEW r \in Requests, Moved(r)
            PROVE  \/ r \in Pending(k)' => r \in Pending(k)
                   \/ \E u \in Accounts, a \in Addresses : Attempt(r, u, a)
        BY <3>4 DEF Moved
      <3> QED
        BY <3>1, <3>2, <3>3, <3>4, Moves
    <2> QED
      BY <1>3, <1>4, <2>1 DEF AttemptsBounded, Threshold
  <1> QED
    BY <1>1, <1>2, <1>4, FailuresFrame

-----------------------------------------------------------------------------
(* Tickets. *)

LEMMA TicketsFrame ==
  ASSUME [Next]_vars
  PROVE  \/ UNCHANGED tickets
         \/ \E s \in Tickets : OidcStart(s) \/ DropTicket(s)
         \/ \E r \in Requests, s \in Tickets : TakeTicket(r, s)
         \/ \E r \in Requests, t \in Tokens : OpenSsoSession(r, t)
  <1>1. ASSUME NEW r \in Requests, Step(r) PROVE UNCHANGED tickets
    BY <1>1 DEF Step, Abandon, Right, Wrong, CountForAddress, CountForAccount,
       ClearFailures, SetOwnPassword, EndOtherSessions, EndSessions, MarkLink,
       SetPassword, CloseOthers, CommitReset, CommitTemporary
  <1>2. ASSUME NEW r, NEW u, NEW a, NEW t, NEW l,
              \/ Attempt(r, u, a) \/ OpenSession(r, t) \/ VerifyChange(r, t)
              \/ FindLink(r, l) \/ IssueTemporary(r, u) \/ Provision(r, u)
              \/ MailLink(r, l, u) \/ RequestLink(l, u)
        PROVE  UNCHANGED tickets
    BY <1>2 DEF Attempt, OpenSession, VerifyChange, FindLink, IssueTemporary,
       Provision, MailLink, RequestLink
  <1>3. ASSUME NEW k, NEW t, NEW u,
              \/ Lapse(k) \/ EndSession(t) \/ CreateUser(u) \/ EnsureBootstrapAdmin(u)
              \/ SetActive(u) \/ RevokeUserSessions(u)
        PROVE  UNCHANGED tickets
    BY <1>3 DEF Lapse, EndSession, CreateUser, EnsureBootstrapAdmin, SetActive,
       RevokeUserSessions
  <1>4. CASE UNCHANGED vars
    BY <1>4 DEF vars
  <1> QED
    BY <1>1, <1>2, <1>3, <1>4 DEF Next

(* One request at most is back with a ticket, and nobody holds it any more. *)
LEMMA TicketsStep ==
  ASSUME TypeOK, LinksAgree, \A r \in Requests : RequestAgrees(r),
         TicketServesOnce, TicketsAgree, [Next]_vars
  PROVE  TicketServesOnce' /\ TicketsAgree'
  <1>1. ASSUME NEW q \in Requests, Back(q)'
        PROVE  \/ Back(q) /\ with'[q] = with[q]
               \/ \E s \in Tickets : TakeTicket(q, s)
    <2>1. CASE UNCHANGED request
      BY <1>1, <2>1 DEF request, Back
    <2>2. ASSUME NEW r \in Requests, Moved(r)
          PROVE  \/ Back(q) /\ with'[q] = with[q]
                 \/ \E s \in Tickets : TakeTicket(q, s)
      BY <1>1, <2>2 DEF Moved, Only, Back
    <2> QED
      BY <2>1, <2>2, Moves
  <1>2. CASE ~\E r \in Requests, s \in Tickets : TakeTicket(r, s)
    <2>1. \A q \in Requests : Back(q)' => Back(q) /\ with'[q] = with[q]
      BY <1>1, <1>2
    <2>2. CASE UNCHANGED tickets
      BY <2>1, <2>2 DEF tickets, TicketServesOnce, TicketsAgree, Back
    <2>3. ASSUME NEW s \in Tickets, OidcStart(s) \/ DropTicket(s)
          PROVE  TicketServesOnce' /\ TicketsAgree'
      BY <2>1, <2>3 DEF OidcStart, DropTicket, TicketServesOnce, TicketsAgree, Back, TypeOK
    <2>4. ASSUME NEW r \in Requests, NEW t \in Tokens, OpenSsoSession(r, t)
          PROVE  TicketServesOnce' /\ TicketsAgree'
      <3>1. PICK s \in Tickets : s = with[r]
        BY <2>4 DEF OpenSsoSession, RequestAgrees
      <3>2. /\ served' = [served EXCEPT ![s] = 1] /\ served[s] = 0
            /\ ticket' = ticket /\ ticket[s] = "gone" /\ ~Back(r)'
            /\ \A q \in Requests : Back(q) /\ with[q] = s => q = r
        <4>1. Back(r) /\ ~Back(r)'
          BY <2>4 DEF OpenSsoSession, End, Back, TypeOK
        <4>2. /\ ticket[s] = "gone" /\ served[s] = 0
              /\ \A q \in Requests : Back(q) /\ with[q] = s => q = r
          BY <3>1, <4>1 DEF TicketsAgree, Back
        <4>3. served' = [served EXCEPT ![s] = 1] /\ ticket' = ticket
          BY <2>4, <3>1, <4>2 DEF OpenSsoSession, TypeOK
        <4> QED
          BY <4>1, <4>2, <4>3
      <3> QED
        BY <2>1, <3>1, <3>2 DEF TicketServesOnce, TicketsAgree, Back, TypeOK
    <2> QED
      BY <1>2, <2>2, <2>3, <2>4, TicketsFrame
  <1>3. ASSUME NEW r \in Requests, NEW s \in Tickets, TakeTicket(r, s)
        PROVE  TicketServesOnce' /\ TicketsAgree'
    <2>1. /\ ticket[s] = "open" /\ ticket' = [ticket EXCEPT ![s] = "gone"]
          /\ served' = served /\ with'[r] = s /\ Only(r)
      BY <1>3 DEF TakeTicket, Begin, Only, TypeOK
    <2>2. served[s] = 0 /\ \A q \in Requests : Back(q) => with[q] # s
      BY <2>1 DEF TicketsAgree, Back, TypeOK
    <2>3. \A q \in Requests \ {r} :
            /\ Back(q)' <=> Back(q)
            /\ with'[q] = with[q]
      BY <2>1 DEF Only, Back
    <2> QED
      BY <2>1, <2>2, <2>3 DEF TicketServesOnce, TicketsAgree, Back, TypeOK
  <1> QED
    BY <1>2, <1>3

-----------------------------------------------------------------------------
(* The theorems. *)

LEMMA InitIInv == Init => IInv
  <1> SUFFICES ASSUME Init PROVE IInv
    OBVIOUS
  <1> USE DEF Init
  <1>1. TypeOK
    BY SignInAssumption DEF TypeOK, Job
  <1>2. LocksExclude /\ LinksAgree /\ OneResetPerRound /\ TicketServesOnce
    BY DEF LocksExclude, HoldsAccount, HoldsLink, LinksAgree, OneResetPerRound,
       TicketServesOnce
  <1>4. PasswordsAgree
    BY SignInAssumption DEF PasswordsAgree
  <1>5. LaterLinksOnly
    BY DEF LaterLinksOnly
  <1>6. TicketsAgree
    BY DEF TicketsAgree
  <1>7. \A r \in Requests : RequestAgrees(r)
    BY DEF RequestAgrees
  <1>3. AttemptsBounded
    <2> SUFFICES ASSUME NEW k \in Keys
                 PROVE  failures[k] + Cardinality(Pending(k)) < Threshold(k) + Cardinality(Requests)
      BY DEF AttemptsBounded
    <2>1. Pending(k) = {}
      BY DEF Pending
    <2>2. Cardinality(Pending(k)) = 0 /\ Cardinality(Requests) \in Nat /\ failures[k] = 0
      BY <2>1, FS_EmptySet, PendingFinite
    <2>3. Threshold(k) \in Nat \ {0}
      BY SignInAssumption DEF Threshold
    <2> QED
      BY <2>2, <2>3
  <1> QED
    BY <1>1, <1>2, <1>3, <1>4, <1>5, <1>6, <1>7 DEF IInv

LEMMA IInvStep == IInv /\ [Next]_vars => IInv'
  <1> SUFFICES ASSUME IInv, [Next]_vars PROVE IInv'
    OBVIOUS
  <1>1. /\ TypeOK /\ LocksExclude /\ LinksAgree /\ PasswordsAgree /\ LaterLinksOnly
        /\ OneResetPerRound /\ AttemptsBounded /\ TicketServesOnce /\ TicketsAgree
        /\ \A r \in Requests : RequestAgrees(r)
    BY DEF IInv
  <1>2. TypeOK'
    BY <1>1, TypingStep
  <1>3. LocksExclude' /\ \A r \in Requests : RequestAgrees(r)'
    BY <1>1, LocksStep, RequestsStep
  <1>4. LinksInv'
    BY <1>1, LinksStep DEF LinksInv
  <1>5. PasswordsAgree' /\ AttemptsBounded' /\ TicketServesOnce' /\ TicketsAgree'
    BY <1>1, PasswordsStep, AttemptsStep, TicketsStep
  <1> QED
    BY <1>2, <1>3, <1>4, <1>5 DEF IInv, LinksInv

(* The inductive invariant holds in every reachable state: types, locks, what *)
(* requests in flight have read, and the four properties below.              *)
THEOREM Invariance == Spec => []IInv
  BY InitIInv, IInvStep, PTL DEF Spec

(* Of links that were open together one sets a password, and once, whatever  *)
(* the number of links and of requests that complete them at the same time.  *)
THEOREM ResetOnce == Spec => []OneResetPerRound
  <1>1. IInv => OneResetPerRound
    BY DEF IInv
  <1> QED
    BY <1>1, Invariance, PTL

(* Overlapping log-ins get at most one try per request past a threshold. *)
THEOREM Throttled == Spec => []AttemptsBounded
  <1>1. IInv => AttemptsBounded
    BY DEF IInv
  <1> QED
    BY <1>1, Invariance, PTL

(* A ticket of single sign-on opens one session. *)
THEOREM TicketOnce == Spec => []TicketServesOnce
  <1>1. IInv => TicketServesOnce
    BY DEF IInv
  <1> QED
    BY <1>1, Invariance, PTL

(* Who is waited for holds something; of those only a request that has marked *)
(* its link, or has set a password, can wait itself.                          *)
LEMMA Awaited ==
  ASSUME IInv, NEW r \in Requests, NEW q \in Requests, NEW p, WaitsFor(r, q), WaitsFor(q, p)
  PROVE  job[q] \in {"marked", "set"}
  <1>1. RequestAgrees(q)
    BY DEF IInv
  <1>2. job[q] \in {"marked", "set", "closing", "issuing"}
    BY <1>1 DEF WaitsFor, HoldsLink, HoldsAccount, RequestAgrees
  <1>3. job[q] \notin {"closing", "issuing"}
    BY DEF WaitsFor
  <1> QED
    BY <1>2, <1>3

(* The same for every number of requests, links and accounts: a deadlock of  *)
(* any length contains two completions with two links of one account.        *)
THEOREM Blocking == Spec => []OnlyTwoLinksBlock
  <1>1. ASSUME IInv PROVE OnlyTwoLinksBlock
    <2> SUFFICES ASSUME NEW S \in SUBSET Requests, S # {},
                        \A r \in S : \E q \in S : q # r /\ WaitsFor(r, q)
                 PROVE  \E r, q \in S :
                          /\ job[r] = "marked" /\ job[q] = "set" /\ for[r] = for[q]
                          /\ with[r] # with[q]
      BY DEF OnlyTwoLinksBlock
    <2>1. PICK q \in S, p \in S : /\ job[q] \in {"marked", "set"}
                                  /\ p # q /\ WaitsFor(q, p) /\ job[p] \in {"marked", "set"}
      <3>1. PICK r \in S : TRUE
        OBVIOUS
      <3>2. PICK q \in S : WaitsFor(r, q)
        OBVIOUS
      <3>3. PICK p \in S : p # q /\ WaitsFor(q, p)
        OBVIOUS
      <3>4. PICK o \in S : WaitsFor(p, o)
        OBVIOUS
      <3> QED
        BY <1>1, <3>2, <3>3, <3>4, Awaited
    <2>2. /\ RequestAgrees(p) /\ RequestAgrees(q) /\ others[p] = {} /\ others[q] = {}
          /\ for[q] \in Accounts /\ with[q] \in Links
      BY <1>1, <2>1 DEF IInv, RequestAgrees, LocalAccounts
    <2>3. /\ \A u \in Accounts : ~(HoldsAccount(p, u) /\ HoldsAccount(q, u))
          /\ \A l \in Links : ~(HoldsLink(p, l) /\ HoldsLink(q, l))
      BY <1>1, <2>1 DEF IInv, LocksExclude
    <2>4. CASE job[q] = "marked"
      <3>1. HoldsAccount(p, for[q])
        BY <2>1, <2>4 DEF WaitsFor
      <3>2. job[p] = "set" /\ for[p] = for[q]
        BY <2>1, <3>1 DEF HoldsAccount
      <3>3. with[p] # with[q]
        BY <2>2, <2>3, <2>4, <3>2 DEF HoldsLink
      <3> QED
        BY <2>4, <3>2, <3>3
    <2>5. CASE job[q] = "set"
      <3>1. PICK l \in UnusedLinks(for[q]) \ {with[q]} : HoldsLink(p, l)
        BY <2>1, <2>5 DEF WaitsFor
      <3>2. with[p] = l /\ to[l] = for[q] /\ l # with[q]
        BY <2>2, <3>1 DEF HoldsLink, UnusedLinks
      <3>3. for[p] = for[q]
        BY <2>1, <2>2, <3>2 DEF RequestAgrees
      <3>4. job[p] # "set"
        BY <2>2, <2>3, <2>5, <3>3 DEF HoldsAccount
      <3> QED
        BY <2>1, <2>5, <3>2, <3>3, <3>4
    <2> QED
      BY <2>1, <2>4, <2>5
  <1> QED
    BY <1>1, Invariance, PTL
=============================================================================
