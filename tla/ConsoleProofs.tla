--------------------------- MODULE ConsoleProofs ---------------------------
(***************************************************************************)
(* Theorems about the parts behind the console's pages (Users, Mailboxes,  *)
(* Signatures, ImportScreen, QueueScreen, Tabs), for any number of users,  *)
(* mailboxes, signatures, sheets, rows and tabs.  Each is proved of the    *)
(* part's own specification; RunsArePartRuns carries them, and those of    *)
(* MessageProofs, over to the instance TLC checks, which runs one part at  *)
(* a time.                                                                 *)
(***************************************************************************)
EXTENDS MCConsole, MessageProofs, FiniteSetTheorems, SequenceTheorems, TLAPS

-----------------------------------------------------------------------------
(* Users *)

UserCall == [by : People, kind : UserRequests, on : People \cup {NoUser},
             body : UserBody, step : {"read", "write"}, seen : Nat]

(* A request would not have its sender lock out themselves.                *)
SparesSender(q) ==
  q.on = q.by => q.kind # "remove" /\ q.body.active # FALSE /\ q.body.role # "operator"

(* A request that has been read is not one its sender would lock out       *)
(* themselves with; and as long as nothing was written since, there is     *)
(* another administrator than the one it deletes.                          *)
ReadRequestsWereAllowed ==
  \A q \in userCalls :
    /\ q.seen <= changes
    /\ q.step = "write" => SparesSender(q)
    /\ q.step = "write" /\ q.kind = "remove" /\ q.seen = changes
         => RemainingAdmins(q.on) # {}

UsersInv ==
  /\ UsersTypeOK
  /\ signed \in Seq(Session) /\ userCalls \subseteq UserCall
  /\ ReadRequestsWereAllowed

LEMMA UsersInitial == UsersInit => UsersInv
  <1> SUFFICES ASSUME UsersInit PROVE UsersInv
    OBVIOUS
  <1>1. signed \in Seq(Session) /\ DOMAIN signed = {}
    BY EmptySeq DEF UsersInit
  <1>2. UsersTypeOK
    BY <1>1 DEF UsersInit, UsersTypeOK, UserExists
  <1> QED BY <1>1, <1>2 DEF UsersInit, UsersInv, ReadRequestsWereAllowed

(* A write to the table makes every request that was read before it stale. *)
LEMMA WritesMakeStale ==
  ASSUME UsersInv, changes' = changes + 1, userCalls' \subseteq userCalls
  PROVE  ReadRequestsWereAllowed'
  <1>1. changes \in Nat /\ \A q \in userCalls : q.seen \in Nat /\ q.seen <= changes
    BY DEF UsersInv, UsersTypeOK, ReadRequestsWereAllowed
  <1>2. \A q \in userCalls' : q.seen <= changes' /\ q.seen # changes'
    BY <1>1
  <1>3. \A q \in userCalls' :
          q.step = "write" => SparesSender(q)
    BY DEF UsersInv, ReadRequestsWereAllowed
  <1> QED BY <1>2, <1>3 DEF ReadRequestsWereAllowed

LEMMA RequestsStayAllowed ==
  ASSUME UsersInv, UNCHANGED <<users, changes>>, userCalls' \subseteq userCalls
  PROVE  ReadRequestsWereAllowed'
  BY DEF UsersInv, ReadRequestsWereAllowed, RemainingAdmins, Admins, ActiveAdmin, UserExists

(* As long as there are ids left, a new one is one of them.                *)
LEMMA NewIdsAreNew ==
  ASSUME born \subseteq People, born # People
  PROVE  NewId \in People \ born
  <1>1. \E p \in People : p \notin born
    OBVIOUS
  <1> QED BY <1>1 DEF NewId

(* A user is added under a new id, or not at all.                          *)
LEMMA AddingKeepsUsers ==
  ASSUME UsersInv, NEW row \in User, AddsUser(row),
         userCalls' \subseteq userCalls, UNCHANGED <<asked, signed, logins>>,
         boot' \in [Instances -> {"down", "empty", "up"}]
  PROVE  UsersInv'
  <1>1. ReadRequestsWereAllowed'
    BY WritesMakeStale, RequestsStayAllowed DEF AddsUser
  <1>2. CASE UNCHANGED <<users, born, changes>>
    BY <1>1, <1>2 DEF UsersInv, UsersTypeOK, UserExists
  <1>3. CASE ~UNCHANGED <<users, born, changes>>
    <2>1. /\ users' = [users EXCEPT ![NewId] = row] /\ born' = born \cup {NewId}
          /\ changes' = changes + 1 /\ NewId \in People
      BY <1>3, NewIdsAreNew DEF AddsUser, UsersInv, UsersTypeOK
    <2> QED BY <1>1, <2>1 DEF UsersInv, UsersTypeOK, UserExists
  <1> QED BY <1>2, <1>3

LEMMA UsersInvKept ==
  ASSUME UsersInv, [UsersNext]_userVars
  PROVE  UsersInv'
  <1>1. ASSUME NEW i \in Instances, CountUsers(i) PROVE UsersInv'
    <2>1. ReadRequestsWereAllowed'
      BY <1>1, RequestsStayAllowed DEF CountUsers
    <2> QED BY <1>1, <2>1 DEF CountUsers, UsersInv, UsersTypeOK, UserExists
  <1>2. ASSUME NEW i \in Instances, SeedCreate(i) PROVE UsersInv'
    <2>1. [email |-> SeedOf[i], role |-> "admin", active |-> TRUE] \in User
      BY UsersAssumption DEF User, Roles
    <2>2. boot' \in [Instances -> {"down", "empty", "up"}]
      BY <1>2 DEF SeedCreate, UsersInv, UsersTypeOK
    <2> QED BY <1>2, <2>1, <2>2, AddingKeepsUsers DEF SeedCreate
  <1>3. ASSUME NEW t \in DOMAIN signed, NEW kind \in UserRequests,
               NEW p \in People \cup {NoUser}, AsksFor(t, kind, p)
        PROVE  UsersInv'
    <2>0. PICK body \in Bodies(kind) :
            userCalls' = userCalls \cup {[by |-> signed[t].sub, kind |-> kind, on |-> p,
                                         body |-> body, step |-> "read", seen |-> 0]}
      BY <1>3 DEF AsksFor
    <2> DEFINE q == [by |-> signed[t].sub, kind |-> kind, on |-> p,
                     body |-> body, step |-> "read", seen |-> 0]
    <2>1. signed[t].sub \in People /\ q \in UserCall /\ q.body \in Bodies(q.kind)
      BY DEF UsersInv, UsersTypeOK, Session, UserCall, Bodies
    <2>2. userCalls' = userCalls \cup {q} /\ UNCHANGED <<users, changes>>
      BY <1>3, <2>0 DEF AsksFor
    <2>3. userCalls' \subseteq UserCall
      BY <2>1, <2>2 DEF UsersInv
    <2>4. ReadRequestsWereAllowed'
      BY <2>2 DEF UsersInv, UsersTypeOK, ReadRequestsWereAllowed, RemainingAdmins,
                  Admins, ActiveAdmin, UserExists
    <2>5. UsersTypeOK'
      <3> HIDE DEF q
      <3> QED BY <1>3, <2>1, <2>2 DEF AsksFor, UsersInv, UsersTypeOK, UserExists, UserCall
    <2> QED BY <1>3, <2>3, <2>4, <2>5 DEF AsksFor, UsersInv
  <1>4. ASSUME NEW q \in userCalls, RequestReads(q) PROVE UsersInv'
    <2> DEFINE r == [q EXCEPT !.step = "write", !.seen = changes]
    <2>1. q \in UserCall /\ changes \in Nat
      BY DEF UsersInv, UsersTypeOK
    <2>2. /\ r \in UserCall /\ r.seen = changes /\ r.step = "write"
          /\ r.kind = q.kind /\ r.on = q.on /\ r.by = q.by /\ r.body = q.body
      BY <2>1 DEF UserCall
    <2>3. /\ userCalls' = userCalls \ {q} \/ (userCalls' = (userCalls \ {q}) \cup {r} /\ ~Refused(q))
          /\ UNCHANGED <<users, born, boot, changes, asked, signed, logins>>
      BY <1>4 DEF RequestReads
    <2>4. userCalls' \subseteq UserCall
      BY <2>2, <2>3 DEF UsersInv
    <2>5. ReadRequestsWereAllowed'
      <3>1. CASE userCalls' = userCalls \ {q}
        BY <2>3, <3>1, RequestsStayAllowed
      <3>2. CASE userCalls' = (userCalls \ {q}) \cup {r} /\ ~Refused(q)
        <4>1. SparesSender(r)
          BY <2>2, <3>2 DEF Refused, RefusesSelf, SparesSender
        <4>2. r.kind = "remove" => RemainingAdmins(r.on) # {}
          BY <2>2, <3>2 DEF Refused
        <4>3. RemainingAdmins(r.on)' = RemainingAdmins(r.on)
          BY <2>3 DEF RemainingAdmins, Admins, ActiveAdmin, UserExists
        <4>4. \A c \in userCalls : RemainingAdmins(c.on)' = RemainingAdmins(c.on)
          BY <2>3 DEF RemainingAdmins, Admins, ActiveAdmin, UserExists
        <4> HIDE DEF r
        <4> QED BY <2>1, <2>2, <2>3, <3>2, <4>1, <4>2, <4>3, <4>4 DEF UsersInv, ReadRequestsWereAllowed
      <3> QED BY <2>3, <3>1, <3>2
    <2>6. UsersTypeOK'
      <3>1. q.body \in Bodies(q.kind)
        BY DEF UsersInv, UsersTypeOK
      <3> HIDE DEF r
      <3> QED BY <2>2, <2>3, <2>4, <3>1 DEF UsersInv, UsersTypeOK, UserExists, UserCall
    <2> QED BY <2>3, <2>4, <2>5, <2>6 DEF UsersInv
  <1>5. ASSUME NEW q \in userCalls, RequestWrites(q) PROVE UsersInv'
    <2>1. q \in UserCall /\ q.kind \in UserRequests /\ q.body \in Bodies(q.kind)
      BY DEF UsersInv, UserCall, UsersTypeOK
    <2>2. /\ userCalls' = userCalls \ {q}
          /\ UNCHANGED <<boot, asked, signed, logins>>
      BY <1>5 DEF RequestWrites
    <2>3. CASE q.kind = "create"
      <3>1. q.body \in User
        BY <2>1, <2>3 DEF Bodies, UserBody, User
      <3>2. boot' \in [Instances -> {"down", "empty", "up"}]
        BY <2>2 DEF UsersInv, UsersTypeOK
      <3> QED BY <1>5, <2>2, <2>3, <3>1, <3>2, AddingKeepsUsers DEF RequestWrites
    <2>4. CASE UNCHANGED <<users, born, changes>>
      <3>1. ReadRequestsWereAllowed'
        BY <2>2, <2>4, RequestsStayAllowed
      <3> QED BY <2>2, <2>4, <3>1 DEF UsersInv, UsersTypeOK, UserExists
    <2>5. CASE /\ users' = [users EXCEPT ![q.on] = IF q.kind = "remove" THEN NoUser
                                                 ELSE Changed(@, q.body)]
               /\ changes' = changes + 1 /\ UserExists(q.on) /\ q.kind # "create"
               /\ UNCHANGED born
      <3>1. ASSUME NEW p \in People, p = q.on PROVE Changed(users[p], q.body) \in User
        <4>1. users[p] \in User
          BY <2>5, <3>1 DEF UserExists, UsersInv, UsersTypeOK
        <4>2. q.body \in UserBody
          BY <2>1 DEF UserCall
        <4> QED BY <4>1, <4>2 DEF Changed, Named, User, UserBody
      <3>2. users' \in [People -> User \cup {NoUser}]
        BY <2>5, <3>1 DEF UsersInv, UsersTypeOK
      <3>3. \A p \in People : users'[p] # NoUser => p \in born
        BY <2>5 DEF UserExists, UsersInv, UsersTypeOK
      <3>4. ReadRequestsWereAllowed'
        BY <2>2, <2>5, WritesMakeStale
      <3> QED BY <2>2, <2>5, <3>2, <3>3, <3>4 DEF UsersInv, UsersTypeOK, UserExists
    <2> QED BY <1>5, <2>3, <2>4, <2>5 DEF RequestWrites
  <1>6. ASSUME NEW p \in People, ComparePassword(p) PROVE UsersInv'
    <2>1. ReadRequestsWereAllowed'
      BY <1>6, RequestsStayAllowed DEF ComparePassword
    <2>2. [sub |-> p, role |-> users[p].role] \in Session
      BY <1>6 DEF ComparePassword, UserExists, UsersInv, UsersTypeOK, User, Session
    <2> QED BY <1>6, <2>1, <2>2 DEF ComparePassword, UsersInv, UsersTypeOK, UserExists
  <1>7. ASSUME NEW l \in logins, IssueToken(l) PROVE UsersInv'
    <2>1. ReadRequestsWereAllowed'
      BY <1>7, RequestsStayAllowed DEF IssueToken
    <2>2. l \in Session /\ logins' \subseteq Session
      BY <1>7 DEF UsersInv, UsersTypeOK, IssueToken
    <2>3. signed' \in Seq(Session)
      BY <1>7, <2>2, AppendProperties DEF IssueToken, UsersInv
    <2>4. \A t \in DOMAIN signed' : signed'[t] \in Session
      BY <2>3, ElementOfSeq, LenProperties
    <2> QED BY <1>7, <2>1, <2>2, <2>3, <2>4 DEF IssueToken, UsersInv, UsersTypeOK, UserExists
  <1>8. CASE UNCHANGED userVars
    BY <1>8 DEF userVars, UsersInv, UsersTypeOK, UserExists, ReadRequestsWereAllowed,
                RemainingAdmins, Admins, ActiveAdmin
  <1> QED BY <1>1, <1>2, <1>3, <1>4, <1>5, <1>6, <1>7, <1>8 DEF UsersNext

LEMMA UsersInvariant == UsersSpec => []UsersInv
  BY UsersInitial, UsersInvKept, PTL DEF UsersSpec

(* The console is locked out by a stale view only: an administrator who    *)
(* still is one cannot leave it without any, alone or racing another.      *)
THEOREM NobodyLocksTheConsole == UsersSpec => LockoutsNeedAStaleView
  <1> DEFINE Step == Admins # {} /\ Admins' = {} =>
       \E q \in userCalls \ userCalls' :
         \/ q.kind = "update" /\ ~ActiveAdmin(q.by)
         \/ q.kind = "remove" /\ q.seen # changes
  <1>1. ASSUME UsersInv, [UsersNext]_userVars PROVE Step
    <2> SUFFICES ASSUME Admins # {}, Admins' = {}
                 PROVE  \E q \in userCalls \ userCalls' :
                          \/ q.kind = "update" /\ ~ActiveAdmin(q.by)
                          \/ q.kind = "remove" /\ q.seen # changes
      OBVIOUS
    <2>1. users' # users
      BY DEF Admins, ActiveAdmin, UserExists
    <2>2. ASSUME NEW p \in People, NEW row, users' = [users EXCEPT ![p] = row]
          PROVE  ActiveAdmin(p) /\ Admins = {p}
      BY <1>1, <2>2 DEF Admins, ActiveAdmin, UserExists, UsersInv, UsersTypeOK
    <2>3. ASSUME NEW row, AddsUser(row) PROVE FALSE
      <3>1. users' = [users EXCEPT ![NewId] = row] /\ NewId \in People \ born
        BY <1>1, <2>1, <2>3, NewIdsAreNew DEF AddsUser, UsersInv, UsersTypeOK
      <3>2. ~UserExists(NewId)
        BY <1>1, <3>1 DEF UsersInv, UsersTypeOK
      <3> QED BY <2>2, <3>1, <3>2 DEF ActiveAdmin
    <2>4. PICK q \in userCalls : RequestWrites(q)
      BY <1>1, <2>1, <2>3 DEF UsersNext, userVars, CountUsers, SeedCreate, AsksFor,
                              RequestReads, ComparePassword, IssueToken
    <2>5. /\ users' = [users EXCEPT ![q.on] = IF q.kind = "remove" THEN NoUser
                                            ELSE Changed(@, q.body)]
          /\ q.kind # "create" /\ UserExists(q.on)
          /\ q \in userCalls \ userCalls' /\ q.step = "write"
      BY <2>1, <2>3, <2>4 DEF RequestWrites
    <2>6. q \in UserCall /\ q.by \in People /\ q.kind \in UserRequests
      BY <1>1 DEF UsersInv, UserCall
    <2>7. q.on \in People /\ ActiveAdmin(q.on) /\ Admins = {q.on}
      <3>1. q.on \in People
        BY <1>1, <2>1, <2>5 DEF UsersInv, UsersTypeOK
      <3> QED BY <2>2, <2>5, <3>1
    <2>8. q.step = "write" /\ SparesSender(q) /\ (q.seen = changes /\ q.kind = "remove"
                                                  => RemainingAdmins(q.on) # {})
      BY <1>1, <2>5 DEF UsersInv, ReadRequestsWereAllowed
    <2>9. CASE q.kind = "remove"
      <3>1. RemainingAdmins(q.on) = {}
        BY <2>7 DEF RemainingAdmins
      <3> QED BY <2>5, <2>8, <2>9, <3>1
    <2>10. CASE q.kind = "update"
      <3>1. q.by # q.on
        <4>1. SUFFICES ASSUME q.by = q.on PROVE FALSE
          OBVIOUS
        <4>2. q.body \in UserBody /\ q.body.active # FALSE /\ q.body.role # "operator"
          BY <2>6, <2>8, <4>1 DEF SparesSender, UserCall
        <4>3. users[q.on] \in User /\ users[q.on].role = "admin" /\ users[q.on].active
          BY <1>1, <2>7 DEF ActiveAdmin, UserExists, UsersInv, UsersTypeOK
        <4>4. Named(q.body.role, users[q.on].role) = "admin"
          BY <4>2, <4>3 DEF Named, UserBody, Roles
        <4>5. Named(q.body.active, users[q.on].active) = TRUE
          BY <4>2, <4>3 DEF Named, UserBody, User
        <4>6. Changed(users[q.on], q.body) = users[q.on]
          BY <4>3, <4>4, <4>5 DEF Changed, User
        <4> QED BY <1>1, <2>1, <2>5, <2>7, <2>10, <4>6 DEF UsersInv, UsersTypeOK
      <3> QED BY <2>5, <2>6, <2>7, <2>10, <3>1 DEF Admins
    <2> QED BY <2>5, <2>6, <2>9, <2>10 DEF UserRequests
  <1>2. UsersInv /\ [UsersNext]_userVars => [Step]_userVars
    BY <1>1
  <1> QED BY <1>2, UsersInvariant, PTL DEF UsersSpec, LockoutsNeedAStaleView

(* A login that was comparing the password while the user was deleted ends *)
(* without a token.                                                        *)
THEOREM DeletedUsersGetNoToken == UsersSpec => NoTokenAfterDeletion
  <1> DEFINE Step == \A t \in DOMAIN signed' \ DOMAIN signed : UserExists(signed'[t].sub)
  <1>1. ASSUME UsersInv, [UsersNext]_userVars PROVE Step
    <2>1. ASSUME NEW l \in logins, IssueToken(l) PROVE Step
      <3>1. CASE signed' = signed
        BY <3>1
      <3>2. CASE signed' = Append(signed, l) /\ UserExists(l.sub)
        <4>1. /\ signed \in Seq(Session) /\ l \in Session
              /\ DOMAIN signed = 1..Len(signed) /\ Len(signed) \in Nat
          BY <1>1, LenProperties DEF UsersInv, UsersTypeOK
        <4>2. /\ DOMAIN signed' = 1..(Len(signed) + 1)
              /\ signed'[Len(signed) + 1] = l
          BY <3>2, <4>1, AppendProperties, LenProperties
        <4>3. \A t \in DOMAIN signed' \ DOMAIN signed : t = Len(signed) + 1
          BY <4>1, <4>2
        <4> QED BY <3>2, <4>2, <4>3
      <3> QED BY <2>1, <3>1, <3>2 DEF IssueToken, StampsLogin
    <2>2. CASE UNCHANGED signed
      BY <2>2
    <2> QED BY <1>1, <2>1, <2>2 DEF UsersNext, userVars, CountUsers, SeedCreate, AsksFor,
                                    RequestReads, RequestWrites, ComparePassword
  <1>2. UsersInv /\ [UsersNext]_userVars => [Step]_userVars
    BY <1>1
  <1> QED BY <1>2, UsersInvariant, PTL DEF UsersSpec, NoTokenAfterDeletion

-----------------------------------------------------------------------------
(* Mailboxes *)

MailboxCall == [kind : CallKinds, id : Keys, row : Row \cup {Missing}, body : Body,
                step : Steps, cached : Nat, pool : Nat, token : Nat]
SmtpPool == [cred : Cred, token : Nat, open : BOOLEAN]

(* What a call holds is there, and it has a row between its read and its   *)
(* end; only `create` is about no stored mailbox.                          *)
CallsHoldWhatThereIs ==
  /\ pools \in Seq(SmtpPool) /\ issued \in Seq(Cred) /\ calls \in Seq(MailboxCall)
  /\ form = Missing \/ form \in [id : Ids, row : Row]
  /\ \A c \in Numbers(calls) :
       /\ calls[c].token \in {None} \cup Numbers(issued)
       /\ calls[c].cached \in {None} \cup Numbers(pools)
       /\ calls[c].step \notin {"read", "over"} => calls[c].row \in Row
       /\ calls[c].kind \in {"create", "send"} => calls[c].step # "read"
       /\ calls[c].kind # "create" => calls[c].id \in Ids

(* A request logs in with a pool and a token made for its own row, so what *)
(* it is about to write is what the provider accepted.                     *)
TestsItsOwnRow(c) ==
  /\ calls[c].kind = "send" => calls[c].row \in Row /\ calls[c].row.cred \in Accepted
  /\ calls[c].kind # "send" /\ calls[c].step = "auth" => calls[c].token = None
  /\ calls[c].kind # "send" /\ calls[c].step = "login" =>
       /\ calls[c].pool # None
       /\ pools[calls[c].pool].cred = calls[c].row.cred
       /\ \/ pools[calls[c].pool].token = None
          \/ issued[pools[calls[c].pool].token] = calls[c].row.cred
  /\ calls[c].kind \in {"create", "update"} /\ calls[c].step = "write" =>
       calls[c].row.cred \in Accepted

RequestsTestTheirOwnRow == \A c \in Numbers(calls) : TestsItsOwnRow(c)

(* A pool is in the cache under one id; who found another one in the cache *)
(* than it can use has closed it.                                          *)
CachedOnce ==
  \A j, k \in Keys : j # k /\ transports[j] = transports[k] => transports[j] = None

ClosedWhatItFound(c) ==
  calls[c].step = "auth" /\ calls[c].cached # None => ~pools[calls[c].cached].open

CachesAreKept ==
  /\ CachedOnce
  /\ \A c \in Numbers(calls) : ClosedWhatItFound(c)

MailboxesInv ==
  /\ MailboxesTypeOK /\ CallsHoldWhatThereIs
  /\ StoredCredentialsWereAccepted /\ RequestsTestTheirOwnRow
  /\ CachesAreKept

LEMMA MailboxesInitial == MailboxesInit => MailboxesInv
  <1> SUFFICES ASSUME MailboxesInit PROVE MailboxesInv
    OBVIOUS
  <1>1. /\ pools \in Seq(SmtpPool) /\ issued \in Seq(Cred) /\ calls \in Seq(MailboxCall)
        /\ Numbers(pools) = {} /\ Numbers(issued) = {} /\ Numbers(calls) = {}
    BY EmptySeq DEF MailboxesInit, Numbers
  <1>2. MailboxesTypeOK /\ CallsHoldWhatThereIs
    BY <1>1 DEF MailboxesInit, MailboxesTypeOK, CallsHoldWhatThereIs
  <1>3. StoredCredentialsWereAccepted
    BY MailboxesAssumption DEF MailboxesInit, StoredCredentialsWereAccepted
  <1>4. RequestsTestTheirOwnRow /\ CachesAreKept
    BY <1>1 DEF MailboxesInit, RequestsTestTheirOwnRow, CachesAreKept,
                CachedOnce
  <1> QED BY <1>2, <1>3, <1>4 DEF MailboxesInv

(* One call moves on.                                                      *)
LEMMA CallMoves ==
  ASSUME CallsHoldWhatThereIs, NEW c \in Numbers(calls), NEW new \in MailboxCall,
         calls' = [calls EXCEPT ![c] = new]
  PROVE  /\ calls' \in Seq(MailboxCall) /\ Numbers(calls') = Numbers(calls)
         /\ calls'[c] = new
         /\ \A d \in Numbers(calls) \ {c} : calls'[d] = calls[d]
  <1>1. Len(calls) \in Nat /\ calls \in [1..Len(calls) -> MailboxCall]
    BY LenProperties DEF CallsHoldWhatThereIs
  <1>2. calls' \in [1..Len(calls) -> MailboxCall]
    BY <1>1
  <1>3. calls' \in Seq(MailboxCall)
    BY <1>1, <1>2, IsASeq
  <1>4. Len(calls') = Len(calls)
    BY <1>1, <1>2, <1>3, LenProperties
  <1> QED BY <1>1, <1>3, <1>4 DEF Numbers

(* One more call.                                                          *)
LEMMA CallComes ==
  ASSUME CallsHoldWhatThereIs, NEW new \in MailboxCall, calls' = Append(calls, new)
  PROVE  /\ calls' \in Seq(MailboxCall) /\ Len(calls) + 1 \in Numbers(calls')
         /\ Numbers(calls') = Numbers(calls) \cup {Len(calls) + 1}
         /\ calls'[Len(calls) + 1] = new
         /\ \A d \in Numbers(calls) : calls'[d] = calls[d]
  <1>1. Len(calls) \in Nat
    BY LenProperties DEF CallsHoldWhatThereIs
  <1>2. /\ calls' \in Seq(MailboxCall) /\ Len(calls') = Len(calls) + 1
        /\ calls'[Len(calls) + 1] = new
        /\ \A d \in 1..Len(calls) : calls'[d] = calls[d]
    BY AppendProperties DEF CallsHoldWhatThereIs
  <1> QED BY <1>1, <1>2 DEF Numbers

(* Calls as the invariants see them.                                       *)
LEMMA CallShape ==
  ASSUME MailboxesInv, NEW c \in Numbers(calls)
  PROVE  /\ calls[c] \in MailboxCall
         /\ calls[c].pool \in {None} \cup Numbers(pools)
         /\ calls[c].token \in {None} \cup Numbers(issued)
         /\ calls[c].cached \in {None} \cup Numbers(pools)
  BY ElementOfSeq DEF MailboxesInv, CallsHoldWhatThereIs, MailboxesTypeOK, Numbers

(* A row with some of its fields given anew is a row; with none of the     *)
(* connection's, it logs in as before.                                     *)
LEMMA EditedRow ==
  ASSUME NEW row \in Row, NEW body \in Body
  PROVE  /\ Edited(row, body) \in Row
         /\ ~touchesConnection(body) => Edited(row, body).cred = row.cred
  BY MailboxesAssumption DEF Row, Body, Cred, Edited, Or, touchesConnection

(* Steps that leave the rows and the caches alone and let no call get to a *)
(* login or a write of something new.                                      *)
CallIsFine(c) ==
  /\ c.token = None /\ c.cached = None /\ c.pool = None
  /\ c.step \in {"read", "get"} /\ (c.step = "get" => c.row \in Row)
  /\ c.kind \in {"create", "send"} => c.step # "read"
  /\ c.kind # "create" => c.id \in Ids
  /\ c.kind = "send" => c.row \in Row /\ c.row.cred \in Accepted

LEMMA NewCallKeepsInv ==
  ASSUME MailboxesInv, UNCHANGED <<stored, taken, pools, transports, issued, tokens, old>>,
         NEW new \in MailboxCall, CallIsFine(new), calls' = Append(calls, new),
         copies' \in [Ids -> Row \cup {Missing}],
         form' = Missing \/ form' \in [id : Ids, row : Row]
  PROVE  MailboxesInv'
  <1>1. /\ calls' \in Seq(MailboxCall)
        /\ Numbers(calls') = Numbers(calls) \cup {Len(calls) + 1}
        /\ calls'[Len(calls) + 1] = new
        /\ \A d \in Numbers(calls) : calls'[d] = calls[d]
    BY CallComes DEF MailboxesInv
  <1>2. \A d \in Numbers(calls') : calls'[d] = new \/ (d \in Numbers(calls) /\ calls'[d] = calls[d])
    BY <1>1
  <1>3. Numbers(pools)' = Numbers(pools) /\ Numbers(issued)' = Numbers(issued)
    BY DEF Numbers
  <1>4. CallsHoldWhatThereIs'
    BY <1>1, <1>2, <1>3 DEF MailboxesInv, CallsHoldWhatThereIs, CallIsFine
  <1>5. MailboxesTypeOK'
    <2>1. \A d \in Numbers(calls') :
            /\ calls'[d].kind \in CallKinds /\ calls'[d].step \in Steps
            /\ calls'[d].row \in Row \cup {Missing} /\ calls'[d].body \in Body
            /\ calls'[d].pool \in {None} \cup Numbers(pools)
      BY <1>2 DEF MailboxesInv, MailboxesTypeOK, CallIsFine, MailboxCall
    <2> QED BY <1>3, <2>1 DEF MailboxesInv, MailboxesTypeOK
  <1>6. StoredCredentialsWereAccepted'
    BY DEF MailboxesInv, StoredCredentialsWereAccepted
  <1>7. RequestsTestTheirOwnRow'
    <2>1. ASSUME NEW d \in Numbers(calls') PROVE TestsItsOwnRow(d)'
      <3>1. CASE calls'[d] = new
        BY <3>1 DEF CallIsFine, TestsItsOwnRow
      <3>2. CASE d \in Numbers(calls) /\ calls'[d] = calls[d]
        BY <3>2 DEF TestsItsOwnRow, MailboxesInv, RequestsTestTheirOwnRow
      <3> QED BY <1>2, <3>1, <3>2
    <2> QED BY <2>1 DEF RequestsTestTheirOwnRow
  <1>8. CachesAreKept'
    <2>1. ASSUME NEW d \in Numbers(calls') PROVE ClosedWhatItFound(d)'
      BY <1>2 DEF CallIsFine, ClosedWhatItFound, MailboxesInv, CachesAreKept
    <2>2. CachedOnce'
      BY DEF MailboxesInv, CachesAreKept, CachedOnce
    <2> QED BY <2>1, <2>2 DEF CachesAreKept
  <1> QED BY <1>4, <1>5, <1>6, <1>7, <1>8 DEF MailboxesInv

Comes(new) ==
  /\ CallIsFine(new) /\ calls' = Append(calls, new)
  /\ UNCHANGED <<stored, taken, pools, transports, issued, tokens, old>>
  /\ copies' \in [Ids -> Row \cup {Missing}]
  /\ form' = Missing \/ form' \in [id : Ids, row : Row]

(* A request, or a send, is one more call.                                 *)
LEMMA RequestsAsk ==
  ASSUME MailboxesInv,
         \/ Create \/ SubmitForm
         \/ \E id \in Ids : Send(id) \/ togglePaused(id) \/ TestLogin(id) \/ Remove(id)
  PROVE  \E new \in MailboxCall : Comes(new)
  <1>1. Nothing \in Body /\ \A v \in BOOLEAN : [Nothing EXCEPT !.active = v] \in Body
    BY DEF Nothing, Body
  <1>2. copies \in [Ids -> Row \cup {Missing}] /\ (form = Missing \/ form \in [id : Ids, row : Row])
    BY DEF MailboxesInv, MailboxesTypeOK, CallsHoldWhatThereIs
  <1>3. ASSUME NEW kind \in CallKinds, NEW id \in Keys, NEW row \in Row \cup {Missing},
               NEW body \in Body, NEW step \in Steps
        PROVE  [kind |-> kind, id |-> id, row |-> row, body |-> body, step |-> step,
                cached |-> None, pool |-> None, token |-> None] \in MailboxCall
    BY DEF MailboxCall, None
  <1>4. CASE Create
    <2>1. PICK cred \in Cred :
            calls' = Append(calls, [kind |-> "create", id |-> Draft,
                       row |-> [cred |-> cred, active |-> TRUE], body |-> Nothing,
                       step |-> "get", cached |-> None, pool |-> None, token |-> None])
      BY <1>4 DEF Create, NewCall
    <2>2. [cred |-> cred, active |-> TRUE] \in Row /\ Draft \in Keys
      BY DEF Row, Keys
    <2>3. UNCHANGED <<stored, taken, pools, transports, issued, tokens, old, copies, form>>
      BY <1>4 DEF Create, table, memory, browser
    <2> QED BY <1>1, <1>2, <1>3, <2>1, <2>2, <2>3 DEF Comes, CallIsFine, CallKinds, Steps
  <1>5. CASE SubmitForm
    <2>1. PICK conn \in Conns, rest \in Rests \cup {Keep} :
            calls' = Append(calls, [kind |-> "update", id |-> form.id, row |-> Missing,
                       body |-> [conn |-> conn, rest |-> rest, active |-> form.row.active],
                       step |-> "read", cached |-> None, pool |-> None, token |-> None])
      BY <1>5 DEF SubmitForm, NewCall
    <2>2. form.id \in Ids /\ form.row.active \in BOOLEAN
      BY <1>2, <1>5 DEF SubmitForm, Row
    <2>3. [conn |-> conn, rest |-> rest, active |-> form.row.active] \in Body
      BY <2>2 DEF Body
    <2>4. UNCHANGED <<stored, taken, pools, transports, issued, tokens, old, copies>> /\ form' = Missing
      BY <1>5 DEF SubmitForm, table, memory
    <2> QED BY <1>2, <1>3, <2>1, <2>2, <2>3, <2>4 DEF Comes, CallIsFine, CallKinds, Steps, Keys
  <1>6. ASSUME NEW id \in Ids, Send(id) PROVE \E new \in MailboxCall : Comes(new)
    <2>1. stored[id] \in Row /\ stored[id].cred \in Accepted
      BY <1>6 DEF Send, MailboxesInv, MailboxesTypeOK, StoredCredentialsWereAccepted
    <2>2. calls' = Append(calls, [kind |-> "send", id |-> id, row |-> stored[id], body |-> Nothing,
                       step |-> "get", cached |-> None, pool |-> None, token |-> None])
      BY <1>6 DEF Send, NewCall
    <2>3. UNCHANGED <<stored, taken, pools, transports, issued, tokens, old, copies, form>>
      BY <1>6 DEF Send, table, memory, browser
    <2> QED BY <1>1, <1>2, <1>3, <2>1, <2>2, <2>3 DEF Comes, CallIsFine, CallKinds, Steps, Keys
  <1>7. ASSUME NEW id \in Ids, togglePaused(id) \/ TestLogin(id) \/ Remove(id) PROVE \E new \in MailboxCall : Comes(new)
    <2>1. PICK kind \in {"update", "verify", "remove"}, body \in Body :
            calls' = Append(calls, [kind |-> kind, id |-> id, row |-> Missing, body |-> body,
                       step |-> "read", cached |-> None, pool |-> None, token |-> None])
      BY <1>1, <1>7 DEF togglePaused, TestLogin, Remove, NewCall
    <2>2. UNCHANGED <<stored, taken, pools, transports, issued, tokens, old, copies, form>>
      BY <1>7 DEF togglePaused, TestLogin, Remove, table, memory, browser
    <2> QED BY <1>2, <1>3, <2>1, <2>2 DEF Comes, CallIsFine, CallKinds, Steps, Keys
  <1> QED BY <1>4, <1>5, <1>6, <1>7

(* The caches as the invariants see them.                                  *)
LEMMA CacheShape ==
  ASSUME MailboxesInv
  PROVE  /\ Len(pools) \in Nat /\ Numbers(pools) = DOMAIN pools
         /\ \A n \in Numbers(pools) : pools[n] \in SmtpPool /\ pools[n].cred \in Cred
                                      /\ pools[n].token \in {None} \cup Numbers(issued)
         /\ None \notin Numbers(pools) /\ None \notin Numbers(issued)
  <1>1. Len(pools) \in Nat /\ Numbers(pools) = DOMAIN pools
    BY LenProperties DEF MailboxesInv, CallsHoldWhatThereIs, Numbers
  <1>2. \A n \in Numbers(pools) : pools[n] \in SmtpPool
    BY ElementOfSeq DEF MailboxesInv, CallsHoldWhatThereIs, Numbers
  <1>3. \A n \in Numbers(pools) : pools[n].cred \in Cred /\ pools[n].token \in {None} \cup Numbers(issued)
    BY DEF MailboxesInv, MailboxesTypeOK
  <1>4. None \notin Numbers(pools) /\ None \notin Numbers(issued)
    BY DEF None, Numbers
  <1> QED BY <1>1, <1>2, <1>3, <1>4

(* Pools may close, nothing else.                                          *)
OnlyClosed ==
  /\ pools' \in Seq(SmtpPool) /\ Numbers(pools') = Numbers(pools)
  /\ \A n \in Numbers(pools) :
       /\ pools'[n].cred = pools[n].cred /\ pools'[n].token = pools[n].token
       /\ pools'[n] \in SmtpPool /\ (pools'[n].open => pools[n].open)

LEMMA Closing ==
  ASSUME MailboxesInv, NEW S, pools' = Close(S)
  PROVE  /\ OnlyClosed
         /\ \A n \in Numbers(pools) : IF n \in S THEN ~pools'[n].open ELSE pools'[n] = pools[n]
  <1>1. /\ Len(pools) \in Nat /\ Numbers(pools) = 1..Len(pools)
        /\ \A n \in Numbers(pools) : pools[n] \in SmtpPool
    BY CacheShape DEF Numbers
  <1>2. \A p \in SmtpPool : LET q == [p EXCEPT !.open = FALSE] IN
                            q \in SmtpPool /\ q.cred = p.cred /\ q.token = p.token /\ ~q.open
    BY DEF SmtpPool
  <1>3. pools' \in [1..Len(pools) -> SmtpPool]
    BY <1>1, <1>2 DEF Close
  <1>4. pools' \in Seq(SmtpPool) /\ Numbers(pools') = Numbers(pools)
    BY <1>1, <1>3, IsASeq, LenProperties DEF Numbers
  <1>5. \A n \in Numbers(pools) :
          pools'[n] = IF n \in S THEN [pools[n] EXCEPT !.open = FALSE] ELSE pools[n]
    BY DEF Close
  <1> QED BY <1>1, <1>2, <1>4, <1>5 DEF OnlyClosed

LEMMA NotClosing ==
  ASSUME MailboxesInv, pools' = pools
  PROVE  OnlyClosed
  BY CacheShape DEF OnlyClosed, MailboxesInv, CallsHoldWhatThereIs, Numbers

(* A call moves on to a step other than the login of a pool; pools may     *)
(* close or leave the cache.                                               *)
LEMMA CallSettles ==
  ASSUME MailboxesInv, NEW c \in Numbers(calls), NEW new \in MailboxCall,
         calls' = [calls EXCEPT ![c] = new],
         new.kind = calls[c].kind, new.id = calls[c].id, new.pool = calls[c].pool,
         new.token = calls[c].token, new.cached = calls[c].cached,
         new.step \in {"get", "write", "over"}, new.step # "over" => new.row \in Row,
         new.kind = "send" => new.row = calls[c].row,
         new.kind \in {"create", "update"} /\ new.step = "write" => new.row.cred \in Accepted,
         OnlyClosed, UNCHANGED <<issued, old, form, copies>>,
         transports' \in [Keys -> {None} \cup Numbers(pools)],
         tokens' \in [Keys -> {None} \cup Numbers(issued)],
         \A k \in Keys : transports'[k] \in {None, transports[k]},
         stored' \in [Ids -> Row \cup {Missing}], taken' \subseteq Ids,
         StoredCredentialsWereAccepted'
  PROVE  MailboxesInv'
  <1>1. /\ calls' \in Seq(MailboxCall) /\ Numbers(calls') = Numbers(calls)
        /\ calls'[c] = new
        /\ \A d \in Numbers(calls) \ {c} : calls'[d] = calls[d]
    BY CallMoves DEF MailboxesInv
  <1>2. Numbers(pools)' = Numbers(pools) /\ Numbers(issued)' = Numbers(issued)
    BY DEF OnlyClosed, Numbers
  <1>3. CallsHoldWhatThereIs'
    <2>1. \A d \in Numbers(calls') :
            /\ calls'[d].token \in {None} \cup Numbers(issued)
            /\ calls'[d].cached \in {None} \cup Numbers(pools)
            /\ calls'[d].step \notin {"read", "over"} => calls'[d].row \in Row
            /\ calls'[d].kind \in {"create", "send"} => calls'[d].step # "read"
            /\ calls'[d].kind # "create" => calls'[d].id \in Ids
      BY <1>1 DEF MailboxesInv, CallsHoldWhatThereIs
    <2> QED BY <1>1, <1>2, <2>1 DEF MailboxesInv, CallsHoldWhatThereIs, OnlyClosed
  <1>4. MailboxesTypeOK'
    <2>1. \A d \in Numbers(calls') :
            /\ calls'[d].kind \in CallKinds /\ calls'[d].step \in Steps
            /\ calls'[d].row \in Row \cup {Missing} /\ calls'[d].body \in Body
            /\ calls'[d].pool \in {None} \cup Numbers(pools)
      BY <1>1 DEF MailboxesInv, MailboxesTypeOK, MailboxCall
    <2>2. \A n \in Numbers(pools) :
            pools'[n] \in [cred : Cred, token : {None} \cup Numbers(issued), open : BOOLEAN]
      BY CacheShape DEF OnlyClosed, SmtpPool
    <2> QED BY <1>2, <2>1, <2>2 DEF MailboxesInv, MailboxesTypeOK
  <1>5. RequestsTestTheirOwnRow'
    <2>1. ASSUME NEW d \in Numbers(calls) PROVE TestsItsOwnRow(d)'
      <3>1. CASE d = c
        <4>1. calls[c].kind = "send" => calls[c].row \in Row /\ calls[c].row.cred \in Accepted
          BY DEF MailboxesInv, RequestsTestTheirOwnRow, TestsItsOwnRow
        <4> QED BY <1>1, <3>1, <4>1 DEF TestsItsOwnRow
      <3>2. CASE d # c
        <4>1. TestsItsOwnRow(d) /\ calls'[d] = calls[d] /\ calls[d].pool \in {None} \cup Numbers(pools)
          BY <1>1, <3>2, CallShape DEF MailboxesInv, RequestsTestTheirOwnRow
        <4> QED BY <4>1 DEF TestsItsOwnRow, OnlyClosed
      <3> QED BY <3>1, <3>2
    <2> QED BY <1>1, <2>1 DEF RequestsTestTheirOwnRow
  <1>6. CachesAreKept'
    <2>1. CachedOnce'
      BY DEF MailboxesInv, CachesAreKept, CachedOnce
    <2>2. ASSUME NEW d \in Numbers(calls) PROVE ClosedWhatItFound(d)'
      <3>1. CASE d = c
        BY <1>1, <3>1 DEF ClosedWhatItFound
      <3>2. CASE d # c
        <4>1. ClosedWhatItFound(d) /\ calls'[d] = calls[d] /\ calls[d].cached \in {None} \cup Numbers(pools)
          BY <1>1, <3>2, CallShape DEF MailboxesInv, CachesAreKept
        <4> QED BY <4>1 DEF ClosedWhatItFound, OnlyClosed
      <3> QED BY <3>1, <3>2
    <2> QED BY <1>1, <2>1, <2>2 DEF CachesAreKept
  <1> QED BY <1>3, <1>4, <1>5, <1>6 DEF MailboxesInv

(* Steps of a call that leave the cache alone.                             *)
LEMMA CallStepKeepsInv ==
  ASSUME MailboxesInv, NEW c \in Numbers(calls),
         \/ Reads(c) \/ Unauthorised(c) \/ Sent(c) \/ StatementFails(c)
         \/ WritesNew(c) \/ WritesEdit(c) \/ Deletes(c)
  PROVE  MailboxesInv'
  <1> DEFINE at(step) == [calls[c] EXCEPT !.step = step]
  <1>1. calls[c] \in MailboxCall
    BY CallShape
  <1>2. ASSUME NEW step \in Steps
        PROVE  /\ at(step) \in MailboxCall /\ at(step).step = step
               /\ at(step).kind = calls[c].kind /\ at(step).id = calls[c].id
               /\ at(step).pool = calls[c].pool /\ at(step).token = calls[c].token
               /\ at(step).cached = calls[c].cached /\ at(step).row = calls[c].row
    BY <1>1 DEF MailboxCall
  <1>3. UNCHANGED <<pools, transports, issued, tokens, old, form, copies>> /\ OnlyClosed
    BY NotClosing DEF Reads, Unauthorised, Sent, StatementFails, WritesNew, WritesEdit, Deletes,
                      memory, browser
  <1>4. /\ transports \in [Keys -> {None} \cup Numbers(pools)]
        /\ tokens \in [Keys -> {None} \cup Numbers(issued)]
        /\ stored \in [Ids -> Row \cup {Missing}] /\ taken \subseteq Ids
        /\ StoredCredentialsWereAccepted
    BY DEF MailboxesInv, MailboxesTypeOK
  <1>5. CASE Unauthorised(c) \/ Sent(c) \/ StatementFails(c)
    <2>1. calls' = [calls EXCEPT ![c] = at("over")] /\ UNCHANGED <<stored, taken>>
      BY <1>5 DEF Unauthorised, Sent, StatementFails, Goes, table
    <2>2. StoredCredentialsWereAccepted'
      BY <1>4, <2>1 DEF StoredCredentialsWereAccepted
    <2> HIDE DEF at
    <2> QED BY <1>2, <1>3, <1>4, <2>1, <2>2, CallSettles DEF Steps
  <1>6. CASE WritesNew(c) \/ WritesEdit(c) \/ Deletes(c)
    <2>1. calls' = [calls EXCEPT ![c] = at("over")] /\ calls[c].step = "write"
      BY <1>6 DEF WritesNew, WritesEdit, Deletes, Goes
    <2>2. Deletes(c) \/ (calls[c].row \in Row /\ calls[c].row.cred \in Accepted)
      BY <1>6 DEF WritesNew, WritesEdit, MailboxesInv, CallsHoldWhatThereIs,
                  RequestsTestTheirOwnRow, TestsItsOwnRow
    <2>3. \/ UNCHANGED stored
          \/ ~Deletes(c) /\ \E id \in Ids : stored' = [stored EXCEPT ![id] = calls[c].row]
          \/ \E id \in Ids : stored' = [stored EXCEPT ![id] = Missing]
      <3>1. CASE WritesNew(c)
        BY <3>1 DEF WritesNew, Deletes, table
      <3>2. CASE WritesEdit(c) \/ Deletes(c)
        <4>1. calls[c].id \in Ids
          BY <3>2 DEF WritesEdit, Deletes, MailboxesInv, CallsHoldWhatThereIs
        <4>2. WritesEdit(c) => ~Deletes(c)
          BY DEF WritesEdit, Deletes
        <4> QED BY <3>2, <4>1, <4>2 DEF WritesEdit, Deletes
      <3> QED BY <1>6, <3>1, <3>2
    <2>4. taken' \subseteq Ids
      BY <1>4, <1>6 DEF WritesNew, WritesEdit, Deletes, table
    <2>5. stored' \in [Ids -> Row \cup {Missing}] /\ StoredCredentialsWereAccepted'
      BY <1>4, <2>2, <2>3 DEF StoredCredentialsWereAccepted
    <2> HIDE DEF at
    <2> QED BY <1>2, <1>3, <1>4, <2>1, <2>4, <2>5, CallSettles DEF Steps
  <1>7. CASE Reads(c)
    <2> DEFINE id == calls[c].id
               row == IF stored[id] = Missing THEN Missing ELSE Edited(stored[id], calls[c].body)
               to(step) == [calls[c] EXCEPT !.row = row, !.step = step]
    <2>1. calls[c].step = "read" /\ id \in Ids /\ calls[c].kind \notin {"create", "send"}
          /\ calls[c].body \in Body
      <3>1. calls[c].step = "read" /\ calls[c].kind \notin {"create", "send"} /\ id \in Ids
        BY <1>7 DEF Reads, MailboxesInv, CallsHoldWhatThereIs
      <3> QED BY <1>1, <3>1 DEF MailboxCall
    <2>2. row = Missing \/ (row \in Row /\ stored[id] \in Row
                            /\ row = Edited(stored[id], calls[c].body))
      BY <1>4, <2>1, EditedRow
    <2>3. PICK step \in {"over", "write", "get"} :
            /\ calls' = [calls EXCEPT ![c] = to(step)]
            /\ row = Missing => step = "over"
            /\ calls[c].kind = "update" /\ step = "write" => ~touchesConnection(calls[c].body)
      <3> DEFINE next == IF row = Missing THEN "over"
                 ELSE IF calls[c].kind = "verify" THEN "get"
                 ELSE IF ~touchesConnection(calls[c].body) THEN "write"
                 ELSE IF Complete(row.cred) THEN "get" ELSE "over"
      <3>1. calls' = [calls EXCEPT ![c].row = row, ![c].step = next]
        BY <1>7 DEF Reads
      <3>2. calls' = [calls EXCEPT ![c] = to(next)]
        <4> HIDE DEF row, next
        <4> QED BY <3>1
      <3>3. /\ next \in {"over", "write", "get"} /\ (row = Missing => next = "over")
            /\ calls[c].kind = "update" /\ next = "write" => ~touchesConnection(calls[c].body)
        <4> HIDE DEF row
        <4> QED OBVIOUS
      <3> HIDE DEF next
      <3> QED BY <3>2, <3>3
    <2>4. row \in Row \cup {Missing}
      BY <2>2
    <2>5. /\ to(step) \in MailboxCall /\ to(step).step = step /\ to(step).row = row
          /\ to(step).kind = calls[c].kind /\ to(step).id = calls[c].id
          /\ to(step).pool = calls[c].pool /\ to(step).token = calls[c].token
          /\ to(step).cached = calls[c].cached
      <3> HIDE DEF row
      <3> QED BY <1>1, <2>4 DEF MailboxCall, Steps
    <2>6. calls[c].kind = "update" /\ step = "write" => row.cred \in Accepted
      <3>1. CASE row = Missing
        BY <2>3, <3>1
      <3>2. CASE row # Missing
        <4>1. stored[id] # Missing /\ stored[id] \in Row
          BY <2>2, <3>2
        <4>2. stored[id].cred \in Accepted
          BY <1>4, <2>1, <4>1 DEF StoredCredentialsWereAccepted
        <4> QED BY <2>1, <2>2, <2>3, <3>2, <4>1, <4>2, EditedRow
      <3> QED BY <3>1, <3>2
    <2>7. UNCHANGED <<stored, taken>> /\ StoredCredentialsWereAccepted'
      BY <1>4, <1>7 DEF Reads, table, StoredCredentialsWereAccepted
    <2>8. step # "over" => row \in Row
      BY <2>2, <2>3
    <2> HIDE DEF to, row
    <2> QED BY <1>3, <1>4, <2>1, <2>3, <2>5, <2>6, <2>7, <2>8, CallSettles
  <1> QED BY <1>5, <1>6, <1>7

(* A call that looks at the cache: it waits for the settings of a pool of  *)
(* its own, having closed what it cannot use, or has found one to send by. *)
LEMMA CallLooks ==
  ASSUME MailboxesInv, NEW c \in Numbers(calls), NEW new \in MailboxCall,
         calls' = [calls EXCEPT ![c] = new], calls[c].step = "get",
         new.kind = calls[c].kind, new.id = calls[c].id, new.row = calls[c].row,
         new.step \in {"auth", "login"}, new.step = "login" => new.kind = "send",
         new.pool \in {None} \cup Numbers(pools), new.cached \in {None} \cup Numbers(pools),
         new.token \in {None} \cup Numbers(issued), new.kind # "send" => new.token = None,
         new.step = "auth" /\ new.cached # None => ~pools'[new.cached].open,
         OnlyClosed, UNCHANGED <<stored, taken, issued, old, form, copies>>,
         transports' \in [Keys -> {None} \cup Numbers(pools)],
         tokens' \in [Keys -> {None} \cup Numbers(issued)],
         \A k \in Keys : transports'[k] \in {None, transports[k]}
  PROVE  MailboxesInv'
  <1>1. /\ calls' \in Seq(MailboxCall) /\ Numbers(calls') = Numbers(calls)
        /\ calls'[c] = new
        /\ \A d \in Numbers(calls) \ {c} : calls'[d] = calls[d]
    BY CallMoves DEF MailboxesInv
  <1>2. Numbers(pools)' = Numbers(pools) /\ Numbers(issued)' = Numbers(issued)
    BY DEF OnlyClosed, Numbers
  <1>3. CallsHoldWhatThereIs'
    <2>1. \A d \in Numbers(calls') :
            /\ calls'[d].token \in {None} \cup Numbers(issued)
            /\ calls'[d].cached \in {None} \cup Numbers(pools)
            /\ calls'[d].step \notin {"read", "over"} => calls'[d].row \in Row
            /\ calls'[d].kind \in {"create", "send"} => calls'[d].step # "read"
            /\ calls'[d].kind # "create" => calls'[d].id \in Ids
      BY <1>1 DEF MailboxesInv, CallsHoldWhatThereIs
    <2> QED BY <1>1, <1>2, <2>1 DEF MailboxesInv, CallsHoldWhatThereIs, OnlyClosed
  <1>4. MailboxesTypeOK'
    <2>1. \A d \in Numbers(calls') :
            /\ calls'[d].kind \in CallKinds /\ calls'[d].step \in Steps
            /\ calls'[d].row \in Row \cup {Missing} /\ calls'[d].body \in Body
            /\ calls'[d].pool \in {None} \cup Numbers(pools)
      BY <1>1 DEF MailboxesInv, MailboxesTypeOK, MailboxCall
    <2>2. \A n \in Numbers(pools) :
            pools'[n] \in [cred : Cred, token : {None} \cup Numbers(issued), open : BOOLEAN]
      BY CacheShape DEF OnlyClosed, SmtpPool
    <2> QED BY <1>2, <2>1, <2>2 DEF MailboxesInv, MailboxesTypeOK
  <1>5. StoredCredentialsWereAccepted'
    BY DEF MailboxesInv, StoredCredentialsWereAccepted
  <1>6. RequestsTestTheirOwnRow'
    <2>1. ASSUME NEW d \in Numbers(calls) PROVE TestsItsOwnRow(d)'
      <3>1. CASE d = c
        <4>1. calls[c].kind = "send" => calls[c].row \in Row /\ calls[c].row.cred \in Accepted
          BY DEF MailboxesInv, RequestsTestTheirOwnRow, TestsItsOwnRow
        <4> QED BY <1>1, <3>1, <4>1 DEF TestsItsOwnRow
      <3>2. CASE d # c
        <4>1. TestsItsOwnRow(d) /\ calls'[d] = calls[d] /\ calls[d].pool \in {None} \cup Numbers(pools)
          BY <1>1, <3>2, CallShape DEF MailboxesInv, RequestsTestTheirOwnRow
        <4> QED BY <4>1 DEF TestsItsOwnRow, OnlyClosed
      <3> QED BY <3>1, <3>2
    <2> QED BY <1>1, <2>1 DEF RequestsTestTheirOwnRow
  <1>7. CachesAreKept'
    <2>1. CachedOnce'
      BY DEF MailboxesInv, CachesAreKept, CachedOnce
    <2>2. ASSUME NEW d \in Numbers(calls) PROVE ClosedWhatItFound(d)'
      <3>1. CASE d = c
        BY <1>1, <3>1 DEF ClosedWhatItFound
      <3>2. CASE d # c
        <4>1. ClosedWhatItFound(d) /\ calls'[d] = calls[d] /\ calls[d].cached \in {None} \cup Numbers(pools)
          BY <1>1, <3>2, CallShape DEF MailboxesInv, CachesAreKept
        <4> QED BY <4>1 DEF ClosedWhatItFound, OnlyClosed
      <3> QED BY <3>1, <3>2
    <2> QED BY <1>1, <2>1, <2>2 DEF CachesAreKept
  <1> QED BY <1>3, <1>4, <1>5, <1>6, <1>7 DEF MailboxesInv

(* What is closed under one id was in the cache under no other.            *)
LEMMA ClosingOne ==
  ASSUME MailboxesInv, NEW k \in Keys, pools' = ClosesCached(transports[k])
  PROVE  /\ OnlyClosed
         /\ \A j \in Keys \ {k} : transports[j] # None =>
              pools'[transports[j]].open = pools[transports[j]].open
         /\ transports[k] # None => ~pools'[transports[k]].open
  <1>1. /\ OnlyClosed
        /\ \A n \in Numbers(pools) : IF n \in {transports[k]} THEN ~pools'[n].open
                                     ELSE pools'[n] = pools[n]
    BY Closing DEF ClosesCached
  <1>2. /\ \A j \in Keys : transports[j] \in {None} \cup Numbers(pools)
        /\ \A j \in Keys \ {k} : transports[j] # None => transports[j] # transports[k]
    BY DEF MailboxesInv, MailboxesTypeOK, CachesAreKept, CachedOnce
  <1> QED BY <1>1, <1>2

Looked(q, step, pool, cached, token) ==
  [q EXCEPT !.step = step, !.pool = pool, !.cached = cached, !.token = token]

LEMMA GetsKeepsInv ==
  ASSUME MailboxesInv, NEW c \in Numbers(calls), Gets(c)
  PROVE  MailboxesInv'
  <1> DEFINE k == calls[c].id
             cred == calls[c].row.cred
             to(step, pool, cached, token) == Looked(calls[c], step, pool, cached, token)
  <1>1. calls[c] \in MailboxCall /\ k \in Keys /\ calls[c].step = "get"
    BY CallShape DEF MailboxCall, Gets
  <1>2. /\ transports \in [Keys -> {None} \cup Numbers(pools)]
        /\ tokens \in [Keys -> {None} \cup Numbers(issued)]
        /\ Numbers(pools) \subseteq Nat /\ Numbers(issued) \subseteq Nat
    BY DEF MailboxesInv, MailboxesTypeOK, Numbers
  <1>3. UNCHANGED <<stored, taken, issued, old, form, copies>>
    BY DEF Gets, table, browser
  <1>4. CASE Invalidates(c)
    <2> DEFINE new == to("auth", None, None, None)
    <2>1. ~Hit(None, cred)
      BY DEF Hit
    <2>2. /\ pools' = ClosesCached(transports[k])
          /\ transports' = [transports EXCEPT ![k] = None]
          /\ tokens' = [tokens EXCEPT ![k] = None]
      BY <1>4 DEF Gets
    <2>3. calls' = [calls EXCEPT ![c] = new]
      BY <1>4, <2>1 DEF Gets, Looked
    <2>4. OnlyClosed
      BY <1>1, <2>2, ClosingOne
    <2>5. transports' \in [Keys -> {None} \cup Numbers(pools)] /\ tokens' \in [Keys -> {None} \cup Numbers(issued)]
      BY <1>1, <1>2, <2>2
    <2>6. \A j \in Keys : transports'[j] \in {None, transports[j]}
      BY <1>1, <1>2, <2>2
    <2>7. /\ new \in MailboxCall /\ new.step = "auth" /\ new.pool = None
          /\ new.cached = None /\ new.token = None
          /\ new.kind = calls[c].kind /\ new.id = k /\ new.row = calls[c].row
      <3>1. "auth" \in Steps /\ None \in Nat
        BY DEF Steps, None
      <3> QED BY <1>1, <3>1 DEF MailboxCall, Looked
    <2> HIDE DEF new
    <2> QED BY <1>1, <1>2, <1>3, <2>3, <2>4, <2>5, <2>6, <2>7, CallLooks
  <1>5. CASE ~Invalidates(c)
    <2> DEFINE cached == transports[k]
               token == IF cred \in Cred /\ cred.conn \in OAuthConns /\ tokens[k] \notin old
                        THEN tokens[k] ELSE None
               hits == Hit(cached, cred)
               new == to(IF hits THEN "login" ELSE "auth", IF hits THEN cached ELSE None, cached, token)
    <2>1. calls[c].kind = "send" /\ cred \in Cred
      BY <1>5 DEF Invalidates, MailboxesInv, RequestsTestTheirOwnRow, TestsItsOwnRow, Row
    <2>2. /\ pools' = IF hits THEN pools ELSE Close({cached})
          /\ transports' = transports /\ tokens' = tokens
      BY <1>1, <1>2, <1>5 DEF Gets
    <2>3. calls' = [calls EXCEPT ![c] = new]
      BY <1>5, <2>1 DEF Gets, Looked
    <2>4. cached \in {None} \cup Numbers(pools) /\ token \in {None} \cup Numbers(issued)
      BY <1>1, <1>2
    <2>5. /\ OnlyClosed
          /\ ~hits /\ cached # None => ~pools'[cached].open
      <3>1. CASE hits
        BY <2>2, <3>1, NotClosing
      <3>2. CASE ~hits
        BY <1>1, <2>2, <3>2, ClosingOne DEF ClosesCached
      <3> QED BY <3>1, <3>2
    <2>6. /\ new \in MailboxCall /\ new.step = (IF hits THEN "login" ELSE "auth")
          /\ new.pool = (IF hits THEN cached ELSE None)
          /\ new.cached = cached /\ new.token = token
          /\ new.kind = calls[c].kind /\ new.id = k /\ new.row = calls[c].row
      <3>1. cached \in Nat /\ token \in Nat
        BY <1>2, <2>4 DEF None
      <3> DEFINE step == IF hits THEN "login" ELSE "auth"
                 pool == IF hits THEN cached ELSE None
      <3>2. step \in Steps /\ pool \in Nat
        BY <3>1 DEF Steps, None
      <3>3. new = Looked(calls[c], step, pool, cached, token)
        OBVIOUS
      <3> SUFFICES /\ new \in MailboxCall /\ new.step = step /\ new.pool = pool
                   /\ new.cached = cached /\ new.token = token
                   /\ new.kind = calls[c].kind /\ new.id = calls[c].id /\ new.row = calls[c].row
        OBVIOUS
      <3> HIDE DEF new, step, pool, token, cached
      <3> QED BY <1>1, <3>1, <3>2, <3>3 DEF MailboxCall, Looked
    <2> HIDE DEF new, hits, token
    <2>7. transports' \in [Keys -> {None} \cup Numbers(pools)] /\ tokens' \in [Keys -> {None} \cup Numbers(issued)]
      BY <1>2, <2>2
    <2> QED BY <1>1, <1>2, <1>3, <2>1, <2>2, <2>3, <2>4, <2>5, <2>6, <2>7, CallLooks
  <1> QED BY <1>4, <1>5

(* The new pool comes after the others, and so does a new token; one that  *)
(* was asked for by a request is issued for the request's own row.         *)
LEMMA PoolComes ==
  ASSUME MailboxesInv, NEW c \in Numbers(calls), Authorised(c)
  PROVE  \E token \in {None} \cup Numbers(issued') :
           /\ issued' \in Seq(Cred) /\ Numbers(issued) \subseteq Numbers(issued')
           /\ \A t \in Numbers(issued) : issued'[t] = issued[t]
           /\ \A t \in Numbers(issued') : issued'[t] \in Cred
           /\ calls[c].kind # "send" /\ token # None => issued'[token] = calls[c].row.cred
           /\ tokens' \in [Keys -> {None} \cup Numbers(issued')]
           /\ pools' \in Seq(SmtpPool) /\ Len(pools) + 1 \in Numbers(pools')
           /\ Numbers(pools') = Numbers(pools) \cup {Len(pools) + 1}
           /\ Len(pools) + 1 \notin {None} \cup Numbers(pools)
           /\ \A n \in Numbers(pools) : pools'[n] = pools[n]
           /\ pools'[Len(pools) + 1] = [cred |-> calls[c].row.cred, token |-> token, open |-> TRUE]
  <1> DEFINE k == calls[c].id
             cred == calls[c].row.cred
             fetches == cred.conn \in OAuthConns /\ calls[c].token = None
             token == IF fetches THEN Len(issued) + 1 ELSE calls[c].token
             pool == [cred |-> cred, token |-> token, open |-> TRUE]
  <1>1. /\ calls[c] \in MailboxCall /\ calls[c].token \in {None} \cup Numbers(issued)
        /\ k \in Keys /\ calls[c].row \in Row /\ cred \in Cred
    BY CallShape DEF MailboxCall, Authorised, MailboxesInv, CallsHoldWhatThereIs, Row
  <1>2. /\ Len(issued) \in Nat /\ issued \in Seq(Cred)
        /\ tokens \in [Keys -> {None} \cup Numbers(issued)]
        /\ \A t \in Numbers(issued) : issued[t] \in Cred
    BY LenProperties DEF MailboxesInv, CallsHoldWhatThereIs, MailboxesTypeOK
  <1>3. /\ issued' = IF fetches THEN Append(issued, cred) ELSE issued
        /\ tokens' = IF fetches THEN [tokens EXCEPT ![k] = token] ELSE tokens
        /\ pools' = Append(pools, pool)
    BY DEF Authorised
  <1>4. /\ issued' \in Seq(Cred) /\ Numbers(issued) \subseteq Numbers(issued')
        /\ \A t \in Numbers(issued) : issued'[t] = issued[t]
        /\ \A t \in Numbers(issued') : issued'[t] \in Cred
        /\ fetches => token \in Numbers(issued') /\ issued'[token] = cred
    <2>1. CASE fetches
      <3>1. issued' = Append(issued, cred)
        BY <1>3, <2>1
      <3>2. /\ issued' \in Seq(Cred) /\ Len(issued') = Len(issued) + 1
            /\ issued'[Len(issued) + 1] = cred
            /\ \A t \in 1..Len(issued) : issued'[t] = issued[t]
        BY <1>1, <1>2, <3>1, AppendProperties
      <3> HIDE DEF cred
      <3> QED BY <1>1, <1>2, <2>1, <3>2 DEF Numbers
    <2>2. CASE ~fetches
      BY <1>2, <1>3, <2>2
    <2> QED BY <2>1, <2>2
  <1>5. token \in {None} \cup Numbers(issued')
    BY <1>1, <1>4
  <1>6. tokens' \in [Keys -> {None} \cup Numbers(issued')]
    <2>1. \A j \in Keys : tokens[j] \in {None} \cup Numbers(issued')
      BY <1>2, <1>4
    <2> HIDE DEF token, fetches
    <2> QED BY <1>1, <1>2, <1>3, <1>5, <2>1
  <1>7. calls[c].kind # "send" /\ token # None => issued'[token] = cred
    <2>1. calls[c].kind # "send" => calls[c].token = None
      BY DEF Authorised, MailboxesInv, RequestsTestTheirOwnRow, TestsItsOwnRow
    <2> QED BY <1>4, <2>1
  <1>8. pool \in SmtpPool
    BY <1>1, <1>5 DEF SmtpPool, Numbers, None
  <1>9. /\ Len(pools) \in Nat /\ pools' \in Seq(SmtpPool) /\ Len(pools') = Len(pools) + 1
        /\ pools'[Len(pools) + 1] = pool
        /\ \A n \in 1..Len(pools) : pools'[n] = pools[n]
    BY <1>3, <1>8, AppendProperties, LenProperties DEF MailboxesInv, CallsHoldWhatThereIs
  <1>10. /\ Len(pools) + 1 \in Numbers(pools')
         /\ Numbers(pools') = Numbers(pools) \cup {Len(pools) + 1}
         /\ Len(pools) + 1 \notin {None} \cup Numbers(pools)
         /\ \A n \in Numbers(pools) : pools'[n] = pools[n]
    BY <1>9 DEF Numbers, None
  <1> HIDE DEF token
  <1> QED BY <1>4, <1>5, <1>6, <1>7, <1>9, <1>10

LEMMA AuthorisedKeepsInv ==
  ASSUME MailboxesInv, NEW c \in Numbers(calls), Authorised(c)
  PROVE  MailboxesInv'
  <1> DEFINE k == calls[c].id
             n == Len(pools) + 1
             new == [calls[c] EXCEPT !.step = "login", !.pool = n]
  <1>1. PICK token \in {None} \cup Numbers(issued') :
           /\ issued' \in Seq(Cred) /\ Numbers(issued) \subseteq Numbers(issued')
           /\ \A t \in Numbers(issued) : issued'[t] = issued[t]
           /\ \A t \in Numbers(issued') : issued'[t] \in Cred
           /\ calls[c].kind # "send" /\ token # None => issued'[token] = calls[c].row.cred
           /\ tokens' \in [Keys -> {None} \cup Numbers(issued')]
           /\ pools' \in Seq(SmtpPool) /\ n \in Numbers(pools')
           /\ Numbers(pools') = Numbers(pools) \cup {n}
           /\ n \notin {None} \cup Numbers(pools)
           /\ \A m \in Numbers(pools) : pools'[m] = pools[m]
           /\ pools'[n] = [cred |-> calls[c].row.cred, token |-> token, open |-> TRUE]
    BY PoolComes
  <1>2. /\ calls[c] \in MailboxCall /\ k \in Keys /\ calls[c].step = "auth"
        /\ calls[c].row \in Row /\ calls[c].row.cred \in Cred
    BY CallShape DEF MailboxCall, Authorised, MailboxesInv, CallsHoldWhatThereIs, Row
  <1>3. /\ new \in MailboxCall /\ new.step = "login" /\ new.pool = n
        /\ new.cached = calls[c].cached /\ new.token = calls[c].token
        /\ new.kind = calls[c].kind /\ new.id = k /\ new.row = calls[c].row /\ new.body = calls[c].body
    <2>1. n \in Nat
      BY CacheShape
    <2> HIDE DEF n
    <2> QED BY <1>2, <2>1 DEF MailboxCall, Steps
  <1>4. /\ calls' = [calls EXCEPT ![c] = new]
        /\ transports' = [transports EXCEPT ![k] = n]
        /\ UNCHANGED <<stored, taken, old, form, copies>>
    BY DEF Authorised, Puts, table, browser
  <1> HIDE DEF new
  <1>5. /\ calls' \in Seq(MailboxCall) /\ Numbers(calls') = Numbers(calls)
        /\ calls'[c] = new
        /\ \A d \in Numbers(calls) \ {c} : calls'[d] = calls[d]
    BY <1>3, <1>4, CallMoves DEF MailboxesInv
  <1> HIDE DEF n
  <1>6. /\ transports \in [Keys -> {None} \cup Numbers(pools)]
        /\ \A j \in Keys \ {k} : transports'[j] = transports[j]
        /\ transports'[k] = n
        /\ transports' \in [Keys -> {None} \cup Numbers(pools')]
    BY <1>1, <1>2, <1>4 DEF MailboxesInv, MailboxesTypeOK
  <1>7. CallsHoldWhatThereIs'
    <2>1. ASSUME NEW d \in Numbers(calls)
          PROVE  /\ calls'[d].token \in {None} \cup Numbers(issued')
                 /\ calls'[d].cached \in {None} \cup Numbers(pools')
                 /\ calls'[d].step \notin {"read", "over"} => calls'[d].row \in Row
                 /\ calls'[d].kind \in {"create", "send"} => calls'[d].step # "read"
                 /\ calls'[d].kind # "create" => calls'[d].id \in Ids
      <3>1. /\ calls[d].token \in {None} \cup Numbers(issued')
            /\ calls[d].cached \in {None} \cup Numbers(pools')
        BY <1>1, CallShape
      <3> QED BY <1>2, <1>3, <1>5, <3>1 DEF MailboxesInv, CallsHoldWhatThereIs
    <2> QED BY <1>1, <1>4, <1>5, <2>1 DEF MailboxesInv, CallsHoldWhatThereIs
  <1>8. MailboxesTypeOK'
    <2>1. ASSUME NEW d \in Numbers(calls)
          PROVE  /\ calls'[d].kind \in CallKinds /\ calls'[d].step \in Steps
                 /\ calls'[d].row \in Row \cup {Missing} /\ calls'[d].body \in Body
                 /\ calls'[d].pool \in {None} \cup Numbers(pools')
      <3>1. /\ calls[d] \in MailboxCall
            /\ calls[d].pool \in {None} \cup Numbers(pools')
        BY <1>1, CallShape
      <3>2. CASE d = c
        BY <1>1, <1>3, <1>5, <3>2 DEF MailboxCall
      <3>3. CASE d # c
        BY <1>5, <3>1, <3>3 DEF MailboxCall
      <3> QED BY <3>2, <3>3
    <2>2. ASSUME NEW m \in Numbers(pools')
          PROVE  pools'[m] \in [cred : Cred, token : {None} \cup Numbers(issued'), open : BOOLEAN]
      <3>1. CASE m = n
        <4> DEFINE cred == calls[c].row.cred
        <4>1. /\ pools'[m] = [cred |-> cred, token |-> token, open |-> TRUE]
              /\ cred \in Cred /\ token \in {None} \cup Numbers(issued')
          BY <1>1, <1>2, <3>1
        <4> HIDE DEF cred
        <4> QED BY <4>1
      <3>2. CASE m \in Numbers(pools)
        <4>1. pools[m] \in SmtpPool /\ pools[m].cred \in Cred
              /\ pools[m].token \in {None} \cup Numbers(issued')
          BY <1>1, <3>2, CacheShape
        <4>2. pools'[m] = pools[m]
          BY <1>1, <3>2
        <4> QED BY <4>1, <4>2 DEF SmtpPool
      <3> QED BY <1>1, <3>1, <3>2
    <2>3. old' \subseteq Numbers(issued')
      BY <1>1, <1>4 DEF MailboxesInv, MailboxesTypeOK
    <2> QED BY <1>1, <1>4, <1>5, <1>6, <2>1, <2>2, <2>3 DEF MailboxesInv, MailboxesTypeOK
  <1>9. StoredCredentialsWereAccepted'
    BY <1>4 DEF MailboxesInv, StoredCredentialsWereAccepted
  <1>10. RequestsTestTheirOwnRow'
    <2>1. ASSUME NEW d \in Numbers(calls) PROVE TestsItsOwnRow(d)'
      <3>1. CASE d = c
        <4>1. calls[c].kind = "send" => calls[c].row \in Row /\ calls[c].row.cred \in Accepted
          BY DEF MailboxesInv, RequestsTestTheirOwnRow, TestsItsOwnRow
        <4>2. n # None /\ pools'[n].cred = calls[c].row.cred /\ pools'[n].token = token
          BY <1>1
        <4>3. calls[c].kind # "send" => token = None \/ issued'[token] = calls[c].row.cred
          BY <1>1
        <4> QED BY <1>3, <1>5, <3>1, <4>1, <4>2, <4>3 DEF TestsItsOwnRow
      <3>2. CASE d # c
        <4>1. /\ TestsItsOwnRow(d) /\ calls'[d] = calls[d]
              /\ calls[d].pool \in {None} \cup Numbers(pools)
          BY <1>5, <3>2, CallShape DEF MailboxesInv, RequestsTestTheirOwnRow
        <4>2. calls[d].pool # None =>
                /\ pools'[calls[d].pool] = pools[calls[d].pool]
                /\ pools[calls[d].pool].token # None =>
                     issued'[pools[calls[d].pool].token] = issued[pools[calls[d].pool].token]
          BY <1>1, <4>1, CacheShape
        <4> QED BY <4>1, <4>2 DEF TestsItsOwnRow
      <3> QED BY <3>1, <3>2
    <2> QED BY <1>5, <2>1 DEF RequestsTestTheirOwnRow
  <1>11. CachesAreKept'
    <2>1. CachedOnce'
      BY <1>1, <1>6 DEF MailboxesInv, CachesAreKept, CachedOnce
    <2>2. ASSUME NEW d \in Numbers(calls) PROVE ClosedWhatItFound(d)'
      <3>1. CASE d = c
        BY <1>3, <1>5, <3>1 DEF ClosedWhatItFound
      <3>2. CASE d # c
        <4>1. ClosedWhatItFound(d) /\ calls'[d] = calls[d] /\ calls[d].cached \in {None} \cup Numbers(pools)
          BY <1>5, <3>2, CallShape DEF MailboxesInv, CachesAreKept
        <4> QED BY <1>1, <4>1 DEF ClosedWhatItFound
      <3> QED BY <3>1, <3>2
    <2> QED BY <1>5, <2>1, <2>2 DEF CachesAreKept
  <1> QED BY <1>7, <1>8, <1>9, <1>10, <1>11 DEF MailboxesInv

(* The end of a login test, and the start of a deletion.                   *)
LEMMA VerdictKeepsInv ==
  ASSUME MailboxesInv, NEW c \in Numbers(calls), Verified(c) \/ ReadsToRemove(c)
  PROVE  MailboxesInv'
  <1> DEFINE k == calls[c].id
             at(step) == [calls[c] EXCEPT !.step = step]
  <1>1. calls[c] \in MailboxCall /\ k \in Keys
    BY CallShape DEF MailboxCall
  <1>2. ASSUME NEW step \in Steps
        PROVE  /\ at(step) \in MailboxCall /\ at(step).step = step
               /\ at(step).kind = calls[c].kind /\ at(step).id = calls[c].id
               /\ at(step).pool = calls[c].pool /\ at(step).token = calls[c].token
               /\ at(step).cached = calls[c].cached /\ at(step).row = calls[c].row
    BY <1>1 DEF MailboxCall
  <1>3. /\ transports \in [Keys -> {None} \cup Numbers(pools)]
        /\ tokens \in [Keys -> {None} \cup Numbers(issued)]
        /\ stored \in [Ids -> Row \cup {Missing}] /\ taken \subseteq Ids
        /\ StoredCredentialsWereAccepted
    BY DEF MailboxesInv, MailboxesTypeOK
  <1>4. UNCHANGED <<issued, old, form, copies, taken, stored>> /\ StoredCredentialsWereAccepted'
    BY <1>3 DEF Verified, ReadsToRemove, Forgets, table, memory, browser, StoredCredentialsWereAccepted
  <1>5. CASE Verified(c) /\ UNCHANGED memory /\ LogsIn(calls[c].pool)
             /\ Goes(c, IF calls[c].kind = "verify" THEN "over" ELSE "write")
    <2> DEFINE step == IF calls[c].kind = "verify" THEN "over" ELSE "write"
    <2>1. /\ calls' = [calls EXCEPT ![c] = at(step)]
          /\ UNCHANGED <<pools, transports, tokens>>
      BY <1>5 DEF Goes, memory
    <2>2. calls[c].row \in Row /\ calls[c].row.cred \in Accepted
      <3>1. /\ calls[c].kind # "send" /\ calls[c].step = "login"
            /\ calls[c].pool # None /\ calls[c].pool \in Numbers(pools)
            /\ pools[calls[c].pool].cred = calls[c].row.cred
            /\ \/ pools[calls[c].pool].token = None
               \/ issued[pools[calls[c].pool].token] = calls[c].row.cred
        BY <1>5, CallShape DEF Verified, MailboxesInv, RequestsTestTheirOwnRow, TestsItsOwnRow
      <3> QED BY <1>5, <3>1 DEF LogsIn, MailboxesInv, CallsHoldWhatThereIs
    <2>3. OnlyClosed
      BY <2>1, NotClosing
    <2>4. step \in {"over", "write"} /\ step \in Steps
      BY DEF Steps
    <2> HIDE DEF at, step
    <2> QED BY <1>2, <1>3, <1>4, <2>1, <2>2, <2>3, <2>4, CallSettles
  <1>6. ASSUME Forgets(k)
        PROVE  /\ OnlyClosed /\ \A j \in Keys : transports'[j] \in {None, transports[j]}
               /\ transports' \in [Keys -> {None} \cup Numbers(pools)]
               /\ tokens' \in [Keys -> {None} \cup Numbers(issued)]
    BY <1>1, <1>3, <1>6, ClosingOne DEF Forgets
  <1>7. calls[c].kind = "send" => calls[c].row \in Row /\ calls[c].row.cred \in Accepted
    BY DEF MailboxesInv, RequestsTestTheirOwnRow, TestsItsOwnRow
  <1>8. CASE Goes(c, "over") /\ (Forgets(k) \/ UNCHANGED memory)
    <2>1. calls' = [calls EXCEPT ![c] = at("over")]
      BY <1>8 DEF Goes
    <2>2. /\ OnlyClosed /\ \A j \in Keys : transports'[j] \in {None, transports[j]}
          /\ transports' \in [Keys -> {None} \cup Numbers(pools)]
          /\ tokens' \in [Keys -> {None} \cup Numbers(issued)]
      BY <1>3, <1>6, <1>8, NotClosing DEF memory
    <2> HIDE DEF at
    <2> QED BY <1>2, <1>3, <1>4, <1>7, <2>1, <2>2, CallSettles DEF Steps
  <1>9. CASE ReadsToRemove(c) /\ stored[k] # Missing
    <2> DEFINE new == [calls[c] EXCEPT !.row = stored[k], !.step = "write"]
    <2>1. calls' = [calls EXCEPT ![c] = new] /\ Forgets(k) /\ calls[c].kind = "remove"
      BY <1>9 DEF ReadsToRemove
    <2>2. stored[k] \in Row
      <3>1. k \in Ids
        BY <2>1 DEF MailboxesInv, CallsHoldWhatThereIs
      <3> QED BY <1>3, <1>9, <3>1
    <2>3. /\ new \in MailboxCall /\ new.step = "write" /\ new.row = stored[k]
          /\ new.kind = calls[c].kind /\ new.id = calls[c].id
          /\ new.pool = calls[c].pool /\ new.token = calls[c].token
          /\ new.cached = calls[c].cached
      BY <1>1, <2>2 DEF MailboxCall, Steps
    <2> HIDE DEF new
    <2> QED BY <1>3, <1>4, <1>6, <2>1, <2>2, <2>3, CallSettles
  <1> QED BY <1>5, <1>8, <1>9 DEF Verified, ReadsToRemove

LEMMA MailboxesInvKept ==
  ASSUME MailboxesInv, [MailboxesNext]_mailboxVars
  PROVE  MailboxesInv'
  <1>1. ASSUME UNCHANGED <<stored, taken, pools, transports, issued, tokens, calls>>,
               old' \subseteq Numbers(issued), copies' \in [Ids -> Row \cup {Missing}],
               form' = Missing \/ form' \in [id : Ids, row : Row]
        PROVE  MailboxesInv'
    <2>1. \A d \in Numbers(calls) : (TestsItsOwnRow(d) => TestsItsOwnRow(d)')
                                    /\ (ClosedWhatItFound(d) => ClosedWhatItFound(d)')
      BY <1>1 DEF TestsItsOwnRow, ClosedWhatItFound
    <2>2. Numbers(calls)' = Numbers(calls) /\ Numbers(pools)' = Numbers(pools)
          /\ Numbers(issued)' = Numbers(issued)
      BY <1>1 DEF Numbers
    <2>3. MailboxesTypeOK' /\ CallsHoldWhatThereIs'
      BY <1>1, <2>2 DEF MailboxesInv, MailboxesTypeOK, CallsHoldWhatThereIs
    <2> QED BY <1>1, <2>1, <2>2, <2>3 DEF MailboxesInv, StoredCredentialsWereAccepted,
              RequestsTestTheirOwnRow, CachesAreKept, CachedOnce
  <1>2. /\ old \subseteq Numbers(issued) /\ copies \in [Ids -> Row \cup {Missing}]
        /\ stored \in [Ids -> Row \cup {Missing}]
        /\ form = Missing \/ form \in [id : Ids, row : Row]
    BY DEF MailboxesInv, MailboxesTypeOK, CallsHoldWhatThereIs
  <1>3. CASE UNCHANGED mailboxVars
    BY <1>1, <1>2, <1>3 DEF mailboxVars, table, memory, browser
  <1>4. CASE TokensAge
    BY <1>1, <1>2, <1>4 DEF TokensAge, table, browser
  <1>5. ASSUME NEW id \in Ids, OpenForm(id) PROVE MailboxesInv'
    BY <1>1, <1>2, <1>5 DEF OpenForm, table, memory
  <1>6. CASE Create \/ SubmitForm \/ \E id \in Ids : Send(id) \/ togglePaused(id) \/ TestLogin(id) \/ Remove(id)
    BY <1>6, RequestsAsk, NewCallKeepsInv DEF Comes
  <1>7. ASSUME NEW c \in Numbers(calls), Proceeds(c) PROVE MailboxesInv'
    BY <1>7, CallStepKeepsInv, GetsKeepsInv, AuthorisedKeepsInv, VerdictKeepsInv DEF Proceeds
  <1> QED BY <1>3, <1>4, <1>5, <1>6, <1>7 DEF MailboxesNext

LEMMA MailboxesInvariant == MailboxesSpec => []MailboxesInv
  BY MailboxesInitial, MailboxesInvKept, PTL DEF MailboxesSpec

(* The settings of a stored mailbox are ones the provider accepted.        *)
THEOREM MailboxesHaveLoggedIn == MailboxesSpec => []StoredCredentialsWereAccepted
  <1>1. MailboxesInv => StoredCredentialsWereAccepted
    BY DEF MailboxesInv
  <1> QED BY <1>1, MailboxesInvariant, PTL

(* Whatever a call does, it moves on alone.                                *)
LEMMA OneCallMoves ==
  ASSUME MailboxesInv, MailboxesInv', NEW c \in Numbers(calls), Proceeds(c)
  PROVE  /\ Numbers(calls') = Numbers(calls)
         /\ \A d \in Numbers(calls) \ {c} : calls'[d] = calls[d]
  <1>1. DOMAIN calls = Numbers(calls) /\ DOMAIN calls' = Numbers(calls')
    BY LenProperties DEF MailboxesInv, CallsHoldWhatThereIs, Numbers
  <1>2. \E new : calls' = [calls EXCEPT ![c] = new]
    <2>1. CASE Unauthorised(c) \/ Sent(c) \/ Verified(c) \/ WritesNew(c) \/ WritesEdit(c)
               \/ Deletes(c) \/ StatementFails(c)
      BY <2>1 DEF Unauthorised, Sent, Verified, WritesNew, WritesEdit, Deletes, StatementFails, Goes
    <2>2. CASE Reads(c)
      BY <2>2 DEF Reads
    <2>3. CASE Gets(c)
      BY <2>3 DEF Gets
    <2>4. CASE Authorised(c)
      BY <2>4 DEF Authorised
    <2>5. CASE ReadsToRemove(c)
      BY <2>5 DEF ReadsToRemove, Goes
    <2> QED BY <2>1, <2>2, <2>3, <2>4, <2>5 DEF Proceeds
  <1>3. PICK new : calls' = [calls EXCEPT ![c] = new]
    BY <1>2
  <1>4. calls \in Seq(MailboxCall)
    BY DEF MailboxesInv, CallsHoldWhatThereIs
  <1> QED BY <1>1, <1>3, <1>4

(* An id is not wedged by a step that leaves its pool, or drops it, and    *)
(* leaves who is about to replace it.                                      *)
LEMMA StaysUnwedged ==
  ASSUME NEW k \in Keys, ~Wedged(k), transports'[k] \in {None, transports[k]},
         transports'[k] # None => pools'[transports[k]].open = pools[transports[k]].open,
         Numbers(calls) \subseteq Numbers(calls'),
         \A d \in Numbers(calls) :
           calls[d].id = k /\ calls[d].step = "auth" => calls'[d] = calls[d]
  PROVE  ~Wedged(k)'
  BY DEF Wedged

(* A closed pool stays in the cache with nobody to replace it only where a *)
(* token request fails.                                                    *)
THEOREM OnlyFailedTokensLeaveClosedPools == MailboxesSpec => OnlyFailedTokensWedge
  <1> DEFINE Failed(c, k) == /\ calls[c].id = k /\ calls[c].token = None
                             /\ calls[c].step = "auth" /\ calls'[c].step = "over"
             Step == \A k \in Keys :
               Wedged(k)' /\ ~Wedged(k) => \E c \in Numbers(calls) : Failed(c, k)
  <1>1. ASSUME MailboxesInv, [MailboxesNext]_mailboxVars PROVE Step
    <2> SUFFICES ASSUME NEW k \in Keys, Wedged(k)', ~Wedged(k)
                 PROVE  \E c \in Numbers(calls) : Failed(c, k)
      OBVIOUS
    <2>1. transports \in [Keys -> {None} \cup Numbers(pools)]
      BY <1>1 DEF MailboxesInv, MailboxesTypeOK
    <2>2. CASE UNCHANGED <<pools, transports, calls>>
      BY <2>2, StaysUnwedged
    <2>3. ~(Create \/ SubmitForm \/ \E id \in Ids : Send(id) \/ togglePaused(id) \/ TestLogin(id) \/ Remove(id))
      <3> SUFFICES ASSUME NEW new \in MailboxCall, Comes(new) PROVE FALSE
        BY <1>1, RequestsAsk
      <3>1. /\ Numbers(calls) \subseteq Numbers(calls')
            /\ \A d \in Numbers(calls) : calls'[d] = calls[d]
        BY <1>1, CallComes DEF Comes, MailboxesInv
      <3> QED BY <3>1, StaysUnwedged DEF Comes
    <2>4. ASSUME NEW c \in Numbers(calls), Proceeds(c) PROVE \E d \in Numbers(calls) : Failed(d, k)
      <3> DEFINE id == calls[c].id
      <3>1. calls[c] \in MailboxCall /\ id \in Keys
        BY <1>1, CallShape DEF MailboxCall
      <3>2. /\ Numbers(calls') = Numbers(calls)
            /\ \A d \in Numbers(calls) \ {c} : calls'[d] = calls[d]
        BY <1>1, <2>4, MailboxesInvKept, OneCallMoves
      <3>3. ASSUME id # k \/ calls[c].step # "auth",
                   transports'[k] \in {None, transports[k]},
                   transports'[k] # None => pools'[transports[k]].open = pools[transports[k]].open
            PROVE  FALSE
        BY <3>2, <3>3, StaysUnwedged
      <3>4. ASSUME pools' = ClosesCached(transports[id]), calls[c].step # "auth",
                   transports' = [transports EXCEPT ![id] = None]
            PROVE  FALSE
        <4>1. transports'[k] # None => k # id /\ transports'[k] = transports[k]
          BY <2>1, <3>1, <3>4
        <4>2. transports'[k] # None => pools'[transports[k]].open = pools[transports[k]].open
          BY <1>1, <3>1, <3>4, <4>1, ClosingOne
        <4> QED BY <2>1, <3>1, <3>3, <3>4, <4>2
      <3>5. CASE UNCHANGED <<pools, transports>>
        <4>1. id = k /\ calls[c].step = "auth"
          BY <3>3, <3>5
        <4>2. Unauthorised(c)
          <5>1. ~Authorised(c)
            BY <1>1, <3>5, PoolComes
          <5> QED BY <2>4, <4>1, <5>1 DEF Proceeds, Reads, Gets, Sent, Verified, WritesNew,
                     WritesEdit, ReadsToRemove, Deletes, StatementFails
        <4>3. calls'[c].step = "over"
          <5>1. calls \in [Numbers(calls) -> MailboxCall]
            BY <1>1, LenProperties DEF MailboxesInv, CallsHoldWhatThereIs, Numbers
          <5> QED BY <3>1, <4>2, <5>1 DEF Unauthorised, Goes, MailboxCall
        <4> QED BY <4>1, <4>2, <4>3 DEF Unauthorised
      <3>6. ~Gets(c)
        <4>1. CASE Gets(c) /\ Invalidates(c)
          BY <3>4, <4>1 DEF Gets
        <4>2. CASE Gets(c) /\ ~Invalidates(c) /\ Hit(transports[id], calls[c].row.cred)
          <5>1. UNCHANGED <<pools, transports>> /\ calls[c].step = "get"
            BY <2>1, <3>1, <4>2 DEF Gets
          <5> QED BY <3>3, <5>1
        <4>3. CASE Gets(c) /\ ~Invalidates(c) /\ ~Hit(transports[id], calls[c].row.cred)
          <5>1. /\ transports' = transports /\ calls[c].step = "get"
                /\ pools' = ClosesCached(transports[id])
            BY <2>1, <3>1, <4>3 DEF Gets, ClosesCached
          <5>2. id = k
            BY <1>1, <3>1, <3>3, <5>1, ClosingOne
          <5>3. calls'[c].step = "auth" /\ calls'[c].id = k /\ calls'[c].cached = transports[k]
            <6>1. calls \in [Numbers(calls) -> MailboxCall]
              BY <1>1, LenProperties DEF MailboxesInv, CallsHoldWhatThereIs, Numbers
            <6> QED BY <3>1, <4>3, <5>2, <6>1 DEF Gets, MailboxCall
          <5> QED BY <3>2, <5>1, <5>3 DEF Wedged
        <4> QED BY <4>1, <4>2, <4>3
      <3>7. ~Authorised(c)
        <4> SUFFICES ASSUME Authorised(c) PROVE FALSE
          OBVIOUS
        <4>1. transports' = [transports EXCEPT ![id] = Len(pools) + 1]
          BY DEF Authorised, Puts
        <4>2. /\ \A n \in Numbers(pools) : pools'[n] = pools[n]
              /\ pools'[Len(pools) + 1].open
          <5>1. PICK token : /\ \A n \in Numbers(pools) : pools'[n] = pools[n]
                             /\ pools'[Len(pools) + 1] =
                                  [cred |-> calls[c].row.cred, token |-> token, open |-> TRUE]
            BY <1>1, PoolComes
          <5> QED BY <5>1
        <4>3. CASE id = k
          <5>1. transports'[k] = Len(pools) + 1
            BY <2>1, <4>1, <4>3
          <5> QED BY <4>2, <5>1 DEF Wedged
        <4>4. CASE id # k
          <5>1. transports'[k] = transports[k] /\ transports[k] \in {None} \cup Numbers(pools)
            BY <2>1, <3>1, <4>1, <4>4
          <5> QED BY <3>3, <4>2, <4>4, <5>1
        <4> QED BY <4>3, <4>4
      <3>8. CASE Verified(c) \/ ReadsToRemove(c)
        <4>1. Forgets(id) => pools' = ClosesCached(transports[id])
                             /\ transports' = [transports EXCEPT ![id] = None]
          BY DEF Forgets
        <4> QED BY <3>4, <3>5, <3>8, <4>1 DEF Verified, ReadsToRemove, memory
      <3> QED BY <2>4, <3>5, <3>6, <3>7, <3>8 DEF Proceeds, Reads, Unauthorised, Sent, WritesNew,
                 WritesEdit, Deletes, StatementFails, memory
    <2> QED BY <1>1, <2>2, <2>3, <2>4 DEF MailboxesNext, TokensAge, OpenForm, mailboxVars, memory
  <1>2. MailboxesInv /\ [MailboxesNext]_mailboxVars => [Step]_mailboxVars
    BY <1>1
  <1> QED BY <1>2, MailboxesInvariant, PTL DEF MailboxesSpec, OnlyFailedTokensWedge

(* An open pool drops out of the cache only for the one of a call that     *)
(* looked at the cache before it was there.                                *)
THEOREM OnlyRacesLosePools == MailboxesSpec => PoolsAreLostInRacesOnly
  <1> DEFINE Lost(k) == LET n == transports[k] IN
               n # None /\ pools[n].open /\ transports'[k] # n /\ pools'[n].open
             Step == \A k \in Keys : Lost(k) =>
               \E c \in Numbers(calls) :
                 /\ calls[c].step = "auth" /\ calls'[c].step = "login"
                 /\ calls[c].id = k /\ calls[c].cached # transports[k]
  <1>1. ASSUME MailboxesInv, [MailboxesNext]_mailboxVars PROVE Step
    <2> SUFFICES ASSUME NEW k \in Keys, Lost(k)
                 PROVE  \E c \in Numbers(calls) :
                          /\ calls[c].step = "auth" /\ calls'[c].step = "login"
                          /\ calls[c].id = k /\ calls[c].cached # transports[k]
      OBVIOUS
    <2>1. transports \in [Keys -> {None} \cup Numbers(pools)] /\ transports' # transports
      BY <1>1 DEF MailboxesInv, MailboxesTypeOK
    <2>2. PICK c \in Numbers(calls) : Gets(c) \/ Authorised(c) \/ Verified(c) \/ ReadsToRemove(c)
      BY <1>1, <2>1 DEF MailboxesNext, Proceeds, mailboxVars, memory, Create, SubmitForm, TokensAge,
           Send, OpenForm, togglePaused, TestLogin, Remove, Reads, Unauthorised, Sent,
           WritesNew, WritesEdit, Deletes, StatementFails
    <2> DEFINE id == calls[c].id
    <2>3. calls[c] \in MailboxCall /\ id \in Keys
      BY <1>1, CallShape DEF MailboxCall
    <2>4. ASSUME transports' = [transports EXCEPT ![id] = None], pools' = ClosesCached(transports[id])
          PROVE  FALSE
      <3>1. id = k
        BY <2>1, <2>3, <2>4
      <3>2. ~pools'[transports[id]].open
        BY <1>1, <2>3, <2>4, <3>1, ClosingOne
      <3> QED BY <3>1, <3>2
    <2>5. ~Gets(c)
      <3>1. Gets(c) /\ ~Invalidates(c) => transports' = transports
        BY <2>1, <2>3 DEF Gets
      <3>2. Gets(c) /\ Invalidates(c) => transports' = [transports EXCEPT ![id] = None]
                                         /\ pools' = ClosesCached(transports[id])
        BY DEF Gets
      <3> QED BY <2>1, <2>4, <3>1, <3>2
    <2>6. ~Verified(c) /\ ~ReadsToRemove(c)
      BY <2>1, <2>4 DEF Verified, ReadsToRemove, Forgets, memory
    <2>7. Authorised(c)
      BY <2>2, <2>5, <2>6
    <2>8. id = k /\ calls[c].step = "auth"
      BY <2>1, <2>3, <2>7 DEF Authorised
    <2>9. calls'[c].step = "login"
      <3>1. calls \in [Numbers(calls) -> MailboxCall]
        BY <1>1, LenProperties DEF MailboxesInv, CallsHoldWhatThereIs, Numbers
      <3> QED BY <2>3, <2>7, <3>1 DEF Authorised, MailboxCall
    <2>10. calls[c].cached # transports[k]
      BY <1>1, <2>8 DEF MailboxesInv, CachesAreKept, ClosedWhatItFound
    <2> QED BY <2>8, <2>9, <2>10
  <1>2. MailboxesInv /\ [MailboxesNext]_mailboxVars => [Step]_mailboxVars
    BY <1>1
  <1> QED BY <1>2, MailboxesInvariant, PTL DEF MailboxesSpec, PoolsAreLostInRacesOnly

-----------------------------------------------------------------------------
(* Signatures *)

Editor == [on : Signs \cup {NoSign}, form : Form, value : SignValue, mode : {"template", "html"}]
Ask == [kind : {"save", "remove", "pick", "edit"}, sign : Signs \cup {NoSign},
        box : Boxes \cup {NoSign}, names : SUBSET {"html", "text"},
        body : SignValue \cup {NoSign}, step : {"read", "write"}]

(* The form stamped on what the builder made is the one that made it.      *)
Stamp(v) ==
  v.html.built =>
    /\ v.html.state \in Form
    /\ v.html = withSignatureState(renderSignatureHtml(v.html.state), v.html.state)

(* What is sent may lack the text half; what is stored does not.           *)
SameLines(v) == v.text = {"typed"} \/ v.text = v.html.shows \ Images
Sendable(v)  == Stamp(v) /\ (v.text = {} \/ SameLines(v))
Storable(v)  == Stamp(v) /\ SameLines(v)

SignaturesTyped ==
  /\ library \in [Signs -> SignValue \cup {NoSign}] /\ used \in SUBSET Signs
  /\ \A s \in Signs : Is(s) => s \in used
  /\ fetched \in [Signs -> SignValue \cup {NoSign}]
  /\ link \in [Boxes -> Signs \cup {NoSign}]
  /\ editor \in Editor \cup {NoSign} /\ asks \in SUBSET Ask
  /\ visits \in Nat /\ keys \in Nat /\ posted \in Nat

(* A value goes from the editor into a request and from there, completed,  *)
(* into the library, from where the browser gets its copy.                 *)
ValuesFit ==
  /\ \A s \in Signs : /\ library[s] # NoSign => Storable(library[s])
                      /\ fetched[s] # NoSign => Storable(fetched[s])
  /\ editor # NoSign => Sendable(editor.value)

RequestFits(q) ==
  /\ q.step = "read" /\ q.kind = "save" =>
       /\ q.body \in SignValue
       /\ "html" \in q.names => Sendable(q.body)
       /\ "html" \notin q.names => q.sign # NoSign /\ q.body.text \in {{}, {"typed"}}
  /\ q.step = "write" /\ q.kind = "save" => q.body \in SignValue /\ Storable(q.body)
  /\ q.kind = "remove" => q.sign \in Signs
  /\ q.kind \in {"pick", "edit"} => q.box \in Boxes

LinksLeadSomewhere ==
  \A box \in Boxes : link[box] # NoSign => library[link[box]] # NoSign

SignaturesInv ==
  /\ SignaturesTyped /\ ValuesFit
  /\ \A q \in asks : RequestFits(q)
  /\ LinksLeadSomewhere

LEMMA LinesShow ==
  ASSUME NEW filled \in SUBSET Fields
  PROVE  Lines(filled) \subseteq Shown /\ Lines(filled) \cap Images = {}
  BY DEF Lines, Shown, Fields, Images

(* What the builder makes can be stored as it is.                          *)
LEMMA EmitFits ==
  ASSUME NEW before, NEW new \in Form
  PROVE  emit(before, new) \in SignValue /\ Storable(emit(before, new))
  <1> DEFINE value == emit(before, new)
             shows == Lines(new.filled) \cup (new.filled \cap ImagesOf(new.template))
  <1>1. /\ new.filled \in SUBSET Fields /\ Fields \subseteq Shown
        /\ Lines(new.filled) \subseteq Shown /\ Lines(new.filled) \cap Images = {}
    BY LinesShow DEF Form, Shown
  <1>2. ImagesOf(new.template) \subseteq Images
    BY DEF ImagesOf, Images, Form, Templates
  <1>3. value.text = Lines(new.filled)
    BY DEF emit, renderSignatureText
  <1>4. CASE Lines(new.filled) = {} /\ new.filled \cap Images = {}
    <2>1. value.html = NoHtml
      BY <1>4 DEF emit, renderSignatureHtml, withSignatureState
    <2>2. NoHtml \in Markup /\ ~NoHtml.built /\ NoHtml.shows = {}
      BY DEF NoHtml, Markup
    <2>3. value = [html |-> NoHtml, text |-> {}]
      BY <1>3, <1>4, <2>1 DEF emit
    <2> SUFFICES value \in SignValue /\ Storable(value)
      OBVIOUS
    <2> HIDE DEF value
    <2>4. value.html = NoHtml /\ value.text = {}
      BY <2>3
    <2> QED BY <2>2, <2>3, <2>4 DEF SignValue, Storable, Stamp, SameLines
  <1>5. CASE ~(Lines(new.filled) = {} /\ new.filled \cap Images = {})
    <2>1. renderSignatureHtml(new) = [built |-> TRUE, state |-> NoSign, shows |-> shows]
      BY <1>5 DEF renderSignatureHtml
    <2>2. value.html = withSignatureState(renderSignatureHtml(new), new)
      BY DEF emit, Stamped
    <2> DEFINE made == [built |-> TRUE, state |-> NoSign, shows |-> shows]
    <2>3. value.html = [made EXCEPT !.state = new]
      <3>1. made.built /\ ~NoHtml.built
        BY DEF NoHtml
      <3>2. value.html = withSignatureState(made, new)
        BY <2>1, <2>2
      <3> HIDE DEF made, value
      <3> QED BY <3>1, <3>2 DEF withSignatureState
    <2>4. shows \subseteq Shown /\ shows \ Images = Lines(new.filled)
      BY <1>1, <1>2
    <2>5. value = [html |-> value.html, text |-> value.text]
      BY DEF emit
    <2>6. made \in Markup /\ made.shows = shows
      <3> HIDE DEF shows
      <3> QED BY <2>4 DEF Markup
    <2> HIDE DEF value, shows, made
    <2>7. value.html \in Markup /\ value.html.state = new /\ value.html.shows = shows
      BY <2>3, <2>6 DEF Markup
    <2>8. value \in SignValue
      BY <1>1, <1>3, <2>5, <2>7 DEF SignValue
    <2>9. Stamp(value)
      BY <2>2, <2>7 DEF Stamp
    <2>10. SameLines(value)
      BY <1>3, <2>4, <2>7 DEF SameLines
    <2> QED BY <2>8, <2>9, <2>10 DEF Storable, value
  <1> QED BY <1>4, <1>5

(* A text half that was not sent is made up for.                           *)
LEMMA ContentFits ==
  ASSUME NEW v \in SignValue, Sendable(v)
  PROVE  /\ content(v.html, v.text) \in SignValue
         /\ Storable(content(v.html, v.text))
  <1> DEFINE text == IF v.text = {} THEN htmlToText(v.html) ELSE v.text
  <1>1. content(v.html, v.text) = [html |-> v.html, text |-> text]
    BY DEF content
  <1>2. v.html \in Markup /\ v.text \in SUBSET Shown /\ v.html.shows \in SUBSET Shown
    BY DEF SignValue, Markup
  <1>3. text \in SUBSET Shown /\ (text = {"typed"} \/ text = v.html.shows \ Images)
    BY <1>2 DEF htmlToText, Sendable, SameLines
  <1> HIDE DEF text
  <1> QED BY <1>1, <1>2, <1>3 DEF SignValue, Storable, SameLines, Sendable, Stamp

LEMMA SignaturesInitial == SignaturesInit => SignaturesInv
  <1> SUFFICES ASSUME SignaturesInit PROVE SignaturesInv
    OBVIOUS
  <1>1. NewForm \in Form
    BY DEF NewForm, Form, Templates, Fields
  <1>2. \A s \in Signs : library[s] = NoSign \/ (library[s] \in SignValue /\ Storable(library[s]))
    BY <1>1, EmitFits DEF SignaturesInit
  <1>3. SignaturesTyped
    BY <1>2 DEF SignaturesInit, SignaturesTyped
  <1> QED BY <1>2, <1>3 DEF SignaturesInit, SignaturesInv, ValuesFit, LinksLeadSomewhere, Is

(* Steps of the browser alone.                                             *)
LEMMA EditorStepsKeepInv ==
  ASSUME SignaturesInv, UNCHANGED <<library, used, link, asks, posted>>,
         editor' \in Editor \cup {NoSign}, editor' # NoSign => Sendable(editor'.value),
         visits' \in Nat, keys' \in Nat,
         \A s \in Signs : fetched'[s] \in {fetched[s], library[s]},
         fetched' \in [Signs -> SignValue \cup {NoSign}]
  PROVE  SignaturesInv'
  <1>1. SignaturesTyped'
    BY DEF SignaturesInv, SignaturesTyped, Is
  <1>2. ValuesFit'
    BY DEF SignaturesInv, ValuesFit
  <1> QED BY <1>1, <1>2 DEF SignaturesInv, RequestFits, LinksLeadSomewhere, Is

LEMMA EditorKeepsInv ==
  ASSUME SignaturesInv,
         \/ OpensNew \/ Leaves \/ setMode \/ PasteHtml
         \/ \E f \in FillIn : setField(f)
         \/ \E t \in Layouts : pickTemplate(t)
         \/ \E s \in Signs : Opens(s)
  PROVE  SignaturesInv'
  <1>1. /\ editor = NoSign \/ (editor \in Editor /\ Sendable(editor.value))
        /\ visits \in Nat /\ keys \in Nat /\ fetched \in [Signs -> SignValue \cup {NoSign}]
    BY DEF SignaturesInv, SignaturesTyped, ValuesFit
  <1>2. NewForm \in Form
    BY DEF NewForm, Form, Templates, Fields
  <1>3. ASSUME NEW s \in Signs \cup {NoSign}, NEW v \in SignValue
        PROVE  Editing(s, v) \in Editor /\ Editing(s, v).value = v
    <2>1. FormOf(v.html) \in Form
      BY <1>2 DEF FormOf, SignValue, Markup
    <2> QED BY <2>1 DEF Editing, Editor
  <1>4. ASSUME NEW s \in Signs, Opens(s) PROVE SignaturesInv'
    <2>1. Loaded(s) \in SignValue /\ Storable(Loaded(s))
      BY <1>4 DEF Opens, Loaded, SignaturesInv, SignaturesTyped, ValuesFit
    <2>2. editor' \in Editor /\ Sendable(editor'.value)
      BY <1>3, <1>4, <2>1 DEF Opens, Storable, Sendable
    <2>3. /\ \A t \in Signs : fetched'[t] \in {fetched[t], library[t]}
          /\ fetched' \in [Signs -> SignValue \cup {NoSign}]
      BY <1>1, <1>4 DEF Opens, SignaturesInv, SignaturesTyped
    <2> QED BY <1>1, <1>4, <2>2, <2>3, EditorStepsKeepInv DEF Opens
  <1>5. CASE OpensNew
    <2> DEFINE blank == [html |-> NoHtml, text |-> {}]
    <2>1. blank \in SignValue /\ Sendable(blank)
      BY DEF SignValue, Markup, NoHtml, Sendable, Stamp
    <2> HIDE DEF blank
    <2>2. editor' = Editing(NoSign, blank)
      BY <1>5 DEF OpensNew, blank
    <2>3. editor' \in Editor /\ editor'.value = blank
      BY <1>3, <2>1, <2>2
    <2> QED BY <1>1, <1>5, <2>1, <2>3, EditorStepsKeepInv DEF OpensNew
  <1>6. CASE Leaves
    BY <1>1, <1>6, EditorStepsKeepInv DEF Leaves
  <1>7. CASE setMode
    <2>1. /\ editor' = [editor EXCEPT !.mode = IF @ = "html" THEN "template" ELSE "html"]
          /\ editor \in Editor /\ keys' \in Nat
      BY <1>1, <1>7 DEF setMode, Key
    <2>2. editor' \in Editor /\ editor'.value = editor.value
      BY <2>1 DEF Editor
    <2> QED BY <1>1, <1>7, <2>1, <2>2, EditorStepsKeepInv DEF setMode, Key
  <1>8. CASE PasteHtml
    <2>1. editor \in Editor /\ editor.value.html \in Markup /\ keys' \in Nat
      BY <1>1, <1>8 DEF PasteHtml, Key, Editor, SignValue
    <2>2. PICK html \in {[NoHtml EXCEPT !.shows = {"own"}],
                         [editor.value.html EXCEPT !.shows = @ \cup {"own"}, !.built = FALSE]} :
            editor' = [editor EXCEPT !.value = [html |-> html, text |-> {}]]
      BY <1>8 DEF PasteHtml
    <2>3. html \in Markup /\ ~html.built
      <3>1. NoHtml \in Markup /\ ~NoHtml.built
        BY DEF NoHtml, Markup
      <3>2. \A h \in Markup : [h EXCEPT !.shows = @ \cup {"own"}, !.built = FALSE] \in Markup
        BY DEF Markup, Shown
      <3>3. [NoHtml EXCEPT !.shows = {"own"}] \in Markup /\ ~[NoHtml EXCEPT !.shows = {"own"}].built
        BY DEF Markup, Shown, NoHtml
      <3> QED BY <2>1, <2>2, <3>2, <3>3 DEF Markup
    <2>4. [html |-> html, text |-> {}] \in SignValue
      BY <2>3 DEF SignValue
    <2>5. editor' \in Editor /\ editor'.value = [html |-> html, text |-> {}]
      BY <2>1, <2>2, <2>4 DEF Editor
    <2>6. Sendable(editor'.value)
      BY <2>3, <2>5 DEF Sendable, Stamp
    <2> QED BY <1>1, <1>8, <2>1, <2>5, <2>6, EditorStepsKeepInv DEF PasteHtml, Key
  <1>9. ASSUME NEW new \in Form, Key, Emits(new) PROVE editor' \in Editor /\ Sendable(editor'.value) /\ keys' \in Nat
    <2>1. /\ editor \in Editor /\ keys' \in Nat
          /\ editor' = [editor EXCEPT !.form = new, !.value = emit(editor.form, new)]
      BY <1>1, <1>9 DEF Key, Emits
    <2>2. emit(editor.form, new) \in SignValue /\ Storable(emit(editor.form, new))
      BY EmitFits
    <2>3. editor' \in Editor /\ editor'.value = emit(editor.form, new)
      BY <2>1, <2>2 DEF Editor
    <2> QED BY <2>1, <2>2, <2>3 DEF Storable, Sendable
  <1>10. ASSUME NEW f \in FillIn, setField(f) PROVE SignaturesInv'
    <2> DEFINE new == [editor.form EXCEPT !.filled = IF f \in @ THEN @ \ {f} ELSE @ \cup {f}]
    <2>1. editor.form \in Form /\ f \in Fields
      BY <1>1, <1>10, SignaturesAssumption DEF setField, Key, Editor
    <2>2. new \in Form
      BY <2>1 DEF Form
    <2>3. Key /\ Emits(new)
      BY <1>10 DEF setField
    <2> HIDE DEF new
    <2> QED BY <1>1, <1>9, <1>10, <2>2, <2>3, EditorStepsKeepInv DEF setField
  <1>11. ASSUME NEW t \in Layouts, pickTemplate(t) PROVE SignaturesInv'
    <2> DEFINE new == [editor.form EXCEPT !.template = t]
    <2>1. editor.form \in Form /\ t \in Templates
      BY <1>1, <1>11, SignaturesAssumption DEF pickTemplate, Key, Editor
    <2>2. new \in Form
      BY <2>1 DEF Form
    <2>3. Key /\ Emits(new)
      BY <1>11 DEF pickTemplate
    <2> HIDE DEF new
    <2> QED BY <1>1, <1>9, <1>11, <2>2, <2>3, EditorStepsKeepInv DEF pickTemplate
  <1> QED BY <1>4, <1>5, <1>6, <1>7, <1>8, <1>10, <1>11

LEMMA AskingKeepsInv ==
  ASSUME SignaturesInv, UNCHANGED <<library, used, link, fetched, visits, keys>>,
         NEW q \in Ask, RequestFits(q), asks' = asks \cup {q}, posted' = posted + 1,
         editor' \in {editor, NoSign}
  PROVE  SignaturesInv'
  <1>1. SignaturesTyped'
    BY DEF SignaturesInv, SignaturesTyped, Is
  <1>2. \A p \in asks' : RequestFits(p)'
    BY DEF SignaturesInv, RequestFits
  <1> QED BY <1>1, <1>2 DEF SignaturesInv, ValuesFit, LinksLeadSomewhere, Is

LEMMA AskersKeepInv ==
  ASSUME SignaturesInv,
         \/ save \/ \E s \in Signs : remove(s)
         \/ \E s \in Signs \cup {NoSign} : PostOrPatch(s) \/ \E box \in Boxes : Picks(box, s)
         \/ \E box \in Boxes : Edits(box)
  PROVE  SignaturesInv'
  <1> DEFINE request(kind, s, box, names, body) ==
               [kind |-> kind, sign |-> s, box |-> box, names |-> names, body |-> body,
                step |-> "read"]
  <1>1. CASE save
    <2>1. editor \in Editor /\ Sendable(editor.value)
      BY <1>1 DEF save, SignaturesInv, SignaturesTyped, ValuesFit
    <2>2. editor.on \in Signs \cup {NoSign} /\ editor.value \in SignValue
      BY <2>1 DEF Editor
    <2>3. request("save", editor.on, NoSign, {"html", "text"}, editor.value) \in Ask
      BY <2>2 DEF Ask
    <2>4. RequestFits(request("save", editor.on, NoSign, {"html", "text"}, editor.value))
      BY <2>1, <2>2 DEF RequestFits
    <2> QED BY <1>1, <2>3, <2>4, AskingKeepsInv DEF save, Requests
  <1>2. ASSUME NEW s \in Signs, remove(s) PROVE SignaturesInv'
    <2> DEFINE q == request("remove", s, NoSign, {}, NoSign)
    <2>1. q \in Ask /\ RequestFits(q)
      BY DEF Ask, RequestFits
    <2> QED BY <1>2, <2>1, AskingKeepsInv DEF remove, Requests, NoBody
  <1>3. ASSUME NEW s \in Signs \cup {NoSign}, PostOrPatch(s) PROVE SignaturesInv'
    <2>1. PICK names \in SUBSET {"html", "text"}, text \in {{}, {"typed"}} :
            /\ s = NoSign => "html" \in names
            /\ Requests("save", s, NoSign, names,
                        [html |-> [NoHtml EXCEPT !.shows = {"own"}], text |-> text])
      BY <1>3 DEF PostOrPatch
    <2> DEFINE body == [html |-> [NoHtml EXCEPT !.shows = {"own"}], text |-> text]
               q == request("save", s, NoSign, names, body)
    <2>2. [NoHtml EXCEPT !.shows = {"own"}] \in Markup /\ ~[NoHtml EXCEPT !.shows = {"own"}].built
      BY DEF Markup, NoHtml, Shown
    <2>3. body \in SignValue /\ Sendable(body) /\ body.text \in {{}, {"typed"}}
      BY <2>2 DEF SignValue, Shown, Sendable, Stamp, SameLines
    <2> HIDE DEF body
    <2>4. q \in Ask
      BY <2>3 DEF Ask
    <2>5. RequestFits(q)
      BY <2>1, <2>3 DEF RequestFits
    <2> QED BY <1>3, <2>1, <2>4, <2>5, AskingKeepsInv DEF PostOrPatch, Requests, body
  <1>4. ASSUME NEW box \in Boxes, NEW s \in Signs \cup {NoSign}, Picks(box, s) PROVE SignaturesInv'
    <2> DEFINE q == request("pick", s, box, {}, NoSign)
    <2>1. q \in Ask /\ RequestFits(q)
      BY DEF Ask, RequestFits
    <2> QED BY <1>4, <2>1, AskingKeepsInv DEF Picks, Requests, NoBody
  <1>5. ASSUME NEW box \in Boxes, Edits(box) PROVE SignaturesInv'
    <2> DEFINE q == request("edit", NoSign, box, {}, NoSign)
    <2>1. q \in Ask /\ RequestFits(q)
      BY DEF Ask, RequestFits
    <2> QED BY <1>5, <2>1, AskingKeepsInv DEF Edits, Requests, NoBody
  <1> QED BY <1>1, <1>2, <1>3, <1>4, <1>5

LEMMA ServerKeepsInv ==
  ASSUME SignaturesInv, NEW q \in asks,
         ReadsRequest(q) \/ WritesSignature(q) \/ DeletesSignature(q) \/ WritesLink(q)
  PROVE  SignaturesInv'
  <1>1. q \in Ask /\ RequestFits(q) /\ asks \in SUBSET Ask
    BY DEF SignaturesInv, SignaturesTyped
  <1>2. /\ library \in [Signs -> SignValue \cup {NoSign}] /\ used \in SUBSET Signs
        /\ link \in [Boxes -> Signs \cup {NoSign}]
        /\ \A s \in Signs : library[s] # NoSign => s \in used /\ Storable(library[s])
        /\ \A box \in Boxes : link[box] # NoSign => library[link[box]] # NoSign
        /\ NoSign \notin SignValue /\ NoSign \notin Signs
    BY SignaturesAssumption DEF SignaturesInv, SignaturesTyped, ValuesFit, LinksLeadSomewhere, Is
  <1>3. ASSUME UNCHANGED <<fetched, editor, visits, keys, posted>>,
               asks' \in SUBSET Ask, \A p \in asks' : RequestFits(p),
               library' \in [Signs -> SignValue \cup {NoSign}], used' \in SUBSET Signs,
               \A s \in Signs : library'[s] # NoSign => s \in used' /\ Storable(library'[s]),
               link' \in [Boxes -> Signs \cup {NoSign}],
               \A box \in Boxes : link'[box] # NoSign => library'[link'[box]] # NoSign
        PROVE  SignaturesInv'
    <2>1. SignaturesTyped'
      BY <1>3 DEF SignaturesInv, SignaturesTyped, Is
    <2>2. ValuesFit'
      BY <1>3 DEF SignaturesInv, ValuesFit
    <2>3. \A p \in asks' : RequestFits(p)'
      BY <1>3 DEF RequestFits
    <2> QED BY <1>3, <2>1, <2>2, <2>3 DEF SignaturesInv, LinksLeadSomewhere, Is
  <1>4. /\ UNCHANGED <<fetched, editor, visits, keys, posted>>
        /\ \A p \in asks : RequestFits(p)
    BY DEF ReadsRequest, WritesSignature, DeletesSignature, WritesLink, SignaturesInv
  <1>5. ASSUME asks' = asks \ {q} PROVE asks' \in SUBSET Ask /\ \A p \in asks' : RequestFits(p)
    BY <1>1, <1>4, <1>5
  <1>6. CASE ReadsRequest(q)
    <2> DEFINE r == ToWrite(q)
    <2>1. /\ asks' = asks \ {q} \/ (asks' = (asks \ {q}) \cup {r}
                                    /\ (q.sign \in Signs => library[q.sign] # NoSign))
          /\ q.step = "read" /\ UNCHANGED <<library, used, link>>
      BY <1>6 DEF ReadsRequest, Is
    <2>2. ASSUME q.sign \in Signs => library[q.sign] # NoSign, q.kind = "save"
          PROVE  Saved(q) \in SignValue /\ Storable(Saved(q))
      <3> DEFINE row == library[q.sign]
      <3>1. /\ q.body \in SignValue /\ q.sign \in Signs \cup {NoSign}
            /\ "html" \in q.names => Sendable(q.body)
            /\ "html" \notin q.names => q.sign # NoSign /\ q.body.text \in {{}, {"typed"}}
        BY <1>1, <2>1, <2>2 DEF RequestFits, Ask
      <3>2. q.sign # NoSign => row \in SignValue /\ Storable(row)
        BY <1>2, <2>2, <3>1
      <3>3. CASE "html" \in q.names
        <4> DEFINE v == [html |-> q.body.html, text |-> IF "text" \in q.names THEN q.body.text ELSE {}]
        <4>1. Saved(q) = content(v.html, v.text)
          BY <3>3 DEF Saved, TextNotSent
        <4>2. v \in SignValue /\ Sendable(v)
          BY <3>1, <3>3 DEF SignValue, Sendable, Stamp, SameLines
        <4> HIDE DEF v
        <4> QED BY <4>1, <4>2, ContentFits
      <3>4. CASE "html" \notin q.names
        <4> DEFINE v == [html |-> row.html, text |-> IF "text" \in q.names THEN q.body.text ELSE row.text]
        <4>1. Saved(q) = content(v.html, v.text)
          BY <3>4 DEF Saved, TextNotSent
        <4>2. v \in SignValue /\ Sendable(v)
          <5>1. row \in SignValue /\ Stamp(row) /\ SameLines(row)
            BY <3>1, <3>2, <3>4 DEF Storable
          <5> HIDE DEF row
          <5>2. v \in SignValue /\ Stamp(v)
            BY <3>1, <5>1 DEF SignValue, Stamp
          <5>3. v.text = {} \/ SameLines(v)
            BY <3>1, <3>4, <5>1 DEF SameLines
          <5> QED BY <5>2, <5>3 DEF Sendable
        <4> HIDE DEF v
        <4> QED BY <4>1, <4>2, ContentFits
      <3> QED BY <3>3, <3>4
    <2>3. ASSUME q.sign \in Signs => library[q.sign] # NoSign PROVE r \in Ask /\ RequestFits(r)
      <3>1. CASE q.kind = "save"
        <4>1. /\ r \in Ask /\ r.kind = "save" /\ r.step = "write" /\ r.body = Saved(q)
          BY <1>1, <2>2, <2>3, <3>1 DEF ToWrite, Ask
        <4> HIDE DEF r
        <4> QED BY <2>2, <2>3, <3>1, <4>1 DEF RequestFits
      <3>2. CASE q.kind = "edit"
        <4>1. q.box \in Boxes /\ link[q.box] \in Signs \cup {NoSign}
          BY <1>1, <1>2, <3>2 DEF RequestFits
        <4>2. /\ r \in Ask /\ r.kind = "edit" /\ r.box = q.box
          BY <1>1, <3>2, <4>1 DEF ToWrite, Ask
        <4> HIDE DEF r
        <4> QED BY <4>1, <4>2 DEF RequestFits
      <3>3. CASE q.kind \in {"remove", "pick"}
        <4>1. /\ r \in Ask /\ r.kind = q.kind /\ r.box = q.box /\ r.sign = q.sign
          BY <1>1, <3>3 DEF ToWrite, Ask
        <4> HIDE DEF r
        <4> QED BY <1>1, <3>3, <4>1 DEF RequestFits
      <3> QED BY <1>1, <3>1, <3>2, <3>3 DEF Ask
    <2> HIDE DEF r
    <2> QED BY <1>1, <1>2, <1>3, <1>4, <2>1, <2>3
  <1>7. CASE WritesSignature(q)
    <2>1. q.body \in SignValue /\ Storable(q.body) /\ q.body # NoSign
      BY <1>1, <1>2, <1>7 DEF WritesSignature, RequestFits
    <2>2. /\ asks' = asks \ {q} /\ link' = link
          /\ \/ UNCHANGED <<library, used>>
             \/ \E s \in Signs : library' = [library EXCEPT ![s] = q.body]
                                 /\ (used' = used \cup {s} \/ (library[s] # NoSign /\ used' = used))
      <3>1. q.sign \in Signs \cup {NoSign}
        BY <1>1 DEF Ask
      <3> QED BY <1>7, <3>1 DEF WritesSignature, Done, Is
    <2> QED BY <1>2, <1>3, <1>4, <1>5, <2>1, <2>2
  <1>8. CASE DeletesSignature(q)
    <2>1. /\ asks' = asks \ {q} /\ UNCHANGED <<link, used>> /\ q.sign \in Signs
          /\ library' = library \/ (library' = [library EXCEPT ![q.sign] = NoSign]
                                    /\ \A box \in Boxes : link[box] # q.sign)
      BY <1>1, <1>8 DEF DeletesSignature, Done, Deleted, Without, Linked, RequestFits
    <2> QED BY <1>2, <1>3, <1>4, <1>5, <2>1
  <1>9. CASE WritesLink(q)
    <2>1. /\ asks' = asks \ {q} /\ UNCHANGED <<library, used>> /\ q.box \in Boxes
          /\ q.sign \in Signs \cup {NoSign}
          /\ link' = link \/ (link' = [link EXCEPT ![q.box] = q.sign]
                              /\ (q.sign = NoSign \/ library[q.sign] # NoSign))
      BY <1>1, <1>9 DEF WritesLink, Done, Is, RequestFits, Ask
    <2> QED BY <1>2, <1>3, <1>4, <1>5, <2>1
  <1> QED BY <1>6, <1>7, <1>8, <1>9

LEMMA SignaturesInvKept ==
  ASSUME SignaturesInv, [SignaturesNext]_signVars
  PROVE  SignaturesInv'
  <1>1. CASE UNCHANGED signVars
    BY <1>1 DEF signVars, SignaturesInv, SignaturesTyped, ValuesFit, RequestFits,
                LinksLeadSomewhere, Is
  <1> QED BY <1>1, EditorKeepsInv, AskersKeepInv, ServerKeepsInv DEF SignaturesNext

LEMMA SignaturesInvariant == SignaturesSpec => []SignaturesInv
  BY SignaturesInitial, SignaturesInvKept, PTL DEF SignaturesSpec

(* A text half nobody typed shows the lines of the markup beside it.       *)
THEOREM HalvesFollowTheMarkup == SignaturesSpec => []HalvesDifferOnlyAsTyped
  <1>1. SignaturesInv => HalvesDifferOnlyAsTyped
    BY DEF SignaturesInv, ValuesFit, HalvesDifferOnlyAsTyped, Storable, SameLines, Is
  <1> QED BY <1>1, SignaturesInvariant, PTL

(* A stored signature the builder made re-opens as the form that made it.  *)
THEOREM SignaturesReopen == SignaturesSpec => []StampsMatchMarkup
  <1>1. SignaturesInv => StampsMatchMarkup
    BY DEF SignaturesInv, ValuesFit, StampsMatchMarkup, Storable, Stamp, Is
  <1> QED BY <1>1, SignaturesInvariant, PTL

(* What a mailbox signs with is neither detached nor deleted under it.     *)
THEOREM PickedSignaturesStay == SignaturesSpec => MailboxesKeepTheirSignature
  <1> DEFINE Written(box, q) == /\ q.kind \in {"pick", "edit"} /\ q.step = "write"
                                /\ q.box = box /\ q.sign = link'[box]
             Step == \A box \in Boxes :
               /\ link'[box] # link[box] => \E q \in asks \ asks' : Written(box, q)
               /\ link'[box] # NoSign => library'[link'[box]] # NoSign
  <1>1. ASSUME SignaturesInv, [SignaturesNext]_signVars PROVE Step
    <2>1. LinksLeadSomewhere'
      BY <1>1, SignaturesInvKept DEF SignaturesInv
    <2>2. ASSUME NEW box \in Boxes, link'[box] # link[box]
          PROVE  \E q \in asks \ asks' : Written(box, q)
      <3>1. PICK q \in asks : WritesLink(q)
        <4>1. \A q \in asks : DeletesSignature(q) => link' = link
          BY DEF DeletesSignature, Deleted
        <4> QED BY <1>1, <2>2, <4>1 DEF SignaturesNext, signVars, OpensNew, Leaves, setMode, PasteHtml,
               save, setField, pickTemplate, Opens, remove, PostOrPatch, Picks, Edits,
               ReadsRequest, WritesSignature
      <3>2. /\ asks' = asks \ {q} /\ q.step = "write" /\ q.kind \in {"pick", "edit"}
            /\ link' = [link EXCEPT ![q.box] = q.sign]
        BY <2>2, <3>1 DEF WritesLink, Done
      <3>3. link \in [Boxes -> Signs \cup {NoSign}]
        BY <1>1 DEF SignaturesInv, SignaturesTyped
      <3> QED BY <2>2, <3>2, <3>3
    <2> QED BY <2>1, <2>2 DEF LinksLeadSomewhere
  <1>2. SignaturesInv /\ [SignaturesNext]_signVars => [Step]_signVars
    BY <1>1
  <1> QED BY <1>2, SignaturesInvariant, PTL DEF SignaturesSpec, MailboxesKeepTheirSignature

-----------------------------------------------------------------------------
(* ImportScreen *)

SheetPost == [n : Nat, dryRun : BOOLEAN, file : Sheets, zone : Zones,
              step : {"sent", "done"}, inserted : SUBSET SheetRows]

ImportScreenInv ==
  /\ ImportScreenTypeOK /\ sheetPosts \in SUBSET SheetPost
  /\ CommitsFollowTheirCheck /\ SheetsHaveACall

LEMMA ImportScreenInitial == ImportScreenInit => ImportScreenInv
  <1> SUFFICES ASSUME ImportScreenInit PROVE ImportScreenInv
    OBVIOUS
  <1>1. 0 \in 0..MaxPosts /\ 0 \in 0..MaxChoices
    BY ImportScreenAssumption
  <1>2. ImportScreenTypeOK
    BY <1>1 DEF ImportScreenInit, ImportScreenTypeOK
  <1> QED BY <1>2 DEF ImportScreenInit, ImportScreenInv, CommitsFollowTheirCheck,
                      canQueue, SheetsHaveACall

LEMMA ImportScreenInvKept ==
  ASSUME ImportScreenInv, [ImportScreenNext]_importVars
  PROVE  ImportScreenInv'
  <1> USE ImportScreenAssumption
  <1>1. ASSUME NEW f \in Sheets \cup {NoSheet}, chooseFile(f) PROVE ImportScreenInv'
    <2>1. preview' = NoSheet /\ committed' = NoSheet
      BY <1>1 DEF chooseFile, PreviewOf
    <2> QED BY <1>1, <2>1 DEF chooseFile, Choice, ImportScreenInv, ImportScreenTypeOK,
              CommitsFollowTheirCheck, canQueue, SheetsHaveACall
  <1>2. ASSUME NEW z \in Zones, setDefaultTimezone(z) PROVE ImportScreenInv'
    BY <1>2 DEF setDefaultTimezone, Choice, ImportScreenInv, ImportScreenTypeOK,
                CommitsFollowTheirCheck, canQueue, SheetsHaveACall, Shows
  <1>3. ASSUME NEW dryRun \in BOOLEAN, run(dryRun) PROVE ImportScreenInv'
    <2> DEFINE q == [n |-> sheetPosted', dryRun |-> dryRun, file |-> file, zone |-> zone,
                     step |-> "sent", inserted |-> {}]
    <2>1. q \in SheetPost /\ q.zone = zone /\ q.inserted = {}
      BY <1>3 DEF run, ImportScreenInv, ImportScreenTypeOK, SheetPost
    <2>2. sheetPosts' = sheetPosts \cup {q}
      BY <1>3 DEF run
    <2> HIDE DEF q
    <2>3. \A p \in sheetPosts' : p.inserted \subseteq RowsOf[p.file] /\ p.zone \in Zones
      BY <2>1, <2>2 DEF ImportScreenInv, ImportScreenTypeOK
    <2> QED BY <1>3, <2>1, <2>2, <2>3 DEF run, ImportScreenInv, ImportScreenTypeOK,
              CommitsFollowTheirCheck, canQueue, SheetsHaveACall, Shows
  <1>4. ASSUME NEW q \in sheetPosts, Imports(q) PROVE ImportScreenInv'
    <2> DEFINE new == {r \in RowsOf[q.file] : scheduledIn[r] = NoSheet}
               done == [q EXCEPT !.step = "done", !.inserted = new]
    <2>1. q \in SheetPost /\ new \subseteq RowsOf[q.file] /\ q.file \in Sheets /\ q.zone \in Zones
      BY DEF ImportScreenInv, ImportScreenTypeOK, SheetPost
    <2>2. new \subseteq SheetRows
      BY <2>1 DEF SheetRows
    <2> HIDE DEF new
    <2>3. done \in SheetPost /\ done.inserted = new /\ done.file = q.file /\ done.zone = q.zone
      BY <2>1, <2>2 DEF SheetPost
    <2>4. /\ sheetPosts' = (sheetPosts \ {q}) \cup {done}
          /\ scheduledIn' = [r \in SheetRows |-> IF ~q.dryRun /\ r \in new THEN q.zone ELSE scheduledIn[r]]
          /\ UNCHANGED <<file, zone, preview, committed, busySheet, sheetPosted, choices>>
      BY <1>4 DEF Imports, new
    <2> HIDE DEF done
    <2>5. \A p \in sheetPosts' : p.inserted \subseteq RowsOf[p.file] /\ p.zone \in Zones
      BY <2>1, <2>3, <2>4 DEF ImportScreenInv, ImportScreenTypeOK
    <2>6. scheduledIn' \in [SheetRows -> Zones \cup {NoSheet}]
      BY <2>1, <2>4 DEF ImportScreenInv, ImportScreenTypeOK
    <2>7. sheetPosts' \in SUBSET SheetPost /\ sheetPosts' # {}
      BY <2>3, <2>4 DEF ImportScreenInv
    <2> QED BY <2>4, <2>5, <2>6, <2>7 DEF ImportScreenInv, ImportScreenTypeOK,
              CommitsFollowTheirCheck, canQueue, SheetsHaveACall, Shows
  <1>5. ASSUME NEW q \in sheetPosts, ShowsAnswer(q) PROVE ImportScreenInv'
    <2>1. q \in SheetPost /\ q.file \in Sheets /\ q.inserted \subseteq RowsOf[q.file]
      BY DEF ImportScreenInv, ImportScreenTypeOK, SheetPost
    <2>2. Shows(Answer(q)) /\ (~Answer(q).late => Answer(q).file = file)
      BY <2>1 DEF Shows, Answer
    <2>3. /\ sheetPosts' = sheetPosts \ {q} /\ busySheet' = FALSE
          /\ preview' = (IF q.dryRun THEN Answer(q) ELSE NoSheet)
          /\ committed' = (IF q.dryRun THEN NoSheet ELSE Answer(q))
          /\ UNCHANGED <<file, zone, scheduledIn, sheetPosted, choices>>
      BY <1>5 DEF ShowsAnswer, PreviewAfter, BusyAfter
    <2> QED BY <2>2, <2>3 DEF ImportScreenInv, ImportScreenTypeOK,
              CommitsFollowTheirCheck, canQueue, SheetsHaveACall, Shows
  <1>6. ASSUME NEW q \in sheetPosts, ShowsError(q) PROVE ImportScreenInv'
    BY <1>6 DEF ShowsError, BusyAfter, ImportScreenInv, ImportScreenTypeOK,
                CommitsFollowTheirCheck, canQueue, SheetsHaveACall, Shows
  <1>7. CASE UNCHANGED importVars
    BY <1>7 DEF importVars, ImportScreenInv, ImportScreenTypeOK,
                CommitsFollowTheirCheck, canQueue, SheetsHaveACall, Shows
  <1> QED BY <1>1, <1>2, <1>3, <1>4, <1>5, <1>6, <1>7 DEF ImportScreenNext

LEMMA ImportScreenInvariant == ImportScreenSpec => []ImportScreenInv
  BY ImportScreenInitial, ImportScreenInvKept, PTL DEF ImportScreenSpec

(* A sheet can be queued on the strength of its own check only, but for a  *)
(* check that was under way when the file was chosen.                      *)
THEOREM OnlyCheckedSheetsAreQueued == ImportScreenSpec => []CommitsFollowTheirCheck
  <1>1. ImportScreenInv => CommitsFollowTheirCheck
    BY DEF ImportScreenInv
  <1> QED BY <1>1, ImportScreenInvariant, PTL

-----------------------------------------------------------------------------
(* QueueScreen *)

ScreenPost == [kind : ClickKinds, on : Messages \cup Filter,
               step : {"read", "write", "done", "refused"}]

ScreenInv ==
  /\ ScreenTypeOK /\ posts \in SUBSET ScreenPost /\ SpinnersHaveACall

LEMMA FiltersStayTyped ==
  /\ NoFilter \in Filter
  /\ \A f \in Filter : \A s \in SUBSET EmailStatuses : [f EXCEPT !.status = s] \in Filter
  /\ \A f \in Filter : \A x \in QueueFields : \A v \in {AnyValue} \cup ValuesOf(x) :
       [f EXCEPT !.on[x] = v] \in Filter
  <1>1. NoFilter \in Filter
    BY DEF NoFilter, Filter
  <1>2. ASSUME NEW f \in Filter, NEW s \in SUBSET EmailStatuses
        PROVE  [f EXCEPT !.status = s] \in Filter
    BY DEF Filter
  <1>3. ASSUME NEW f \in Filter, NEW x \in QueueFields, NEW v \in {AnyValue} \cup ValuesOf(x)
        PROVE  [f EXCEPT !.on[x] = v] \in Filter
    <2> DEFINE On == {g \in [QueueFields -> {AnyValue} \cup UNION {ValuesOf(y) : y \in QueueFields}] :
                        \A y \in QueueFields : g[y] \in {AnyValue} \cup ValuesOf(y)}
    <2>1. f.on \in On /\ f.status \in SUBSET EmailStatuses /\ Filter = [status : SUBSET EmailStatuses, on : On]
      BY DEF Filter
    <2>2. [f.on EXCEPT ![x] = v] \in On
      BY <2>1
    <2>3. [f EXCEPT !.on[x] = v] = [f EXCEPT !.on = [f.on EXCEPT ![x] = v]]
      BY <2>1
    <2> HIDE DEF On
    <2> QED BY <2>1, <2>2, <2>3
  <1> QED BY <1>1, <1>2, <1>3

(* An answer of GET /emails is a page of the rows there are.               *)
LEMMA ListsAreAnswers ==
  ASSUME ScreenTypeOK, NEW f \in Filter, NEW p \in Nat \ {0}, NEW a \in list(f, p)
  PROVE  IsAnswer(a)
  <1>1. Cardinality(Selected(f)) \in Nat
    BY QueueScreenAssumption, FS_Subset, FS_CardinalityType DEF Selected
  <1>2. PICK S \in kSubset(OnPage(p, Cardinality(Selected(f))), Selected(f)) :
          a = [filters |-> f, pageNo |-> p, total |-> Cardinality(Selected(f)),
               items |-> [m \in S |-> queued[m]]]
    BY DEF list
  <1>3. S \subseteq Messages
    BY <1>2 DEF kSubset, Selected
  <1>4. \A m \in S : queued[m] \in EmailStatuses
    BY <1>3 DEF ScreenTypeOK
  <1> HIDE DEF Selected
  <1> QED BY <1>1, <1>2, <1>3, <1>4 DEF IsAnswer

LEMMA ScreenInitial == ScreenInit => ScreenInv
  BY QueueScreenAssumption, FiltersStayTyped
  DEF ScreenInit, ScreenInv, ScreenTypeOK, SpinnersHaveACall, EmailStatuses

(* Steps of the page that ask nothing of the server but a list.            *)
LEMMA LooksKeepScreenInv ==
  ASSUME ScreenInv, UNCHANGED <<posts, busyId>>,
         queued' \in [Messages -> EmailStatuses],
         filters' \in Filter, pageNo' \in Nat \ {0},
         shown' # Unread => IsAnswer(shown'), asking' # Unread => IsAnswer(asking'),
         rescheduling' \in Messages \cup {NoRow}
  PROVE  ScreenInv'
  BY DEF ScreenInv, ScreenTypeOK, SpinnersHaveACall, IsAnswer

(* One POST more, from the row that is busy or from the filter bar.        *)
LEMMA PostsKeepScreenInv ==
  ASSUME ScreenInv, UNCHANGED <<queued, filters, pageNo, shown, asking>>,
         NEW c \in ScreenPost, posts' = posts \cup {c},
         busyId' \in Messages \cup {NoRow}, busyId' = busyId \/ busyId' = c.on,
         rescheduling' \in Messages \cup {NoRow}
  PROVE  ScreenInv'
  <1>1. posts' \in SUBSET ScreenPost
    BY DEF ScreenInv
  <1>2. \A d \in posts' : /\ d.kind \in ClickKinds /\ (d.on \in Messages \/ d.on \in Filter)
                          /\ d.step \in {"read", "write", "done", "refused"}
    BY <1>1 DEF ScreenPost
  <1>3. SpinnersHaveACall'
    BY DEF ScreenInv, SpinnersHaveACall
  <1> QED BY <1>1, <1>2, <1>3 DEF ScreenInv, ScreenTypeOK, IsAnswer

(* A POST moves on at the server.                                          *)
LEMMA ServingKeepsScreenInv ==
  ASSUME ScreenInv, UNCHANGED <<filters, pageNo, shown, asking, busyId, rescheduling>>,
         queued' \in [Messages -> EmailStatuses],
         NEW c \in posts, NEW step \in {"write", "done", "refused"},
         posts' = (posts \ {c}) \cup {[c EXCEPT !.step = step]}
  PROVE  ScreenInv'
  <1> DEFINE d == [c EXCEPT !.step = step]
  <1>1. d \in ScreenPost /\ d.on = c.on
    BY DEF ScreenInv, ScreenPost
  <1> HIDE DEF d
  <1>2. posts' = (posts \ {c}) \cup {d}
    BY DEF d
  <1>3. posts' \in SUBSET ScreenPost
    BY <1>1, <1>2 DEF ScreenInv
  <1>4. \A e \in posts' : /\ e.kind \in ClickKinds /\ (e.on \in Messages \/ e.on \in Filter)
                          /\ e.step \in {"read", "write", "done", "refused"}
    BY <1>3 DEF ScreenPost
  <1>5. SpinnersHaveACall'
    BY <1>1, <1>2 DEF ScreenInv, SpinnersHaveACall
  <1> QED BY <1>3, <1>4, <1>5 DEF ScreenInv, ScreenTypeOK, IsAnswer

LEMMA ScreenInvKept ==
  ASSUME ScreenInv, [ScreenNext]_screenVars
  PROVE  ScreenInv'
  <1>1. /\ queued \in [Messages -> EmailStatuses] /\ filters \in Filter /\ pageNo \in Nat \ {0}
        /\ shown # Unread => IsAnswer(shown)
        /\ asking # Unread => IsAnswer(asking)
        /\ busyId \in Messages \cup {NoRow} /\ rescheduling \in Messages \cup {NoRow}
        /\ posts \in SUBSET ScreenPost /\ NoRow \notin Messages
    BY QueueScreenAssumption DEF ScreenInv, ScreenTypeOK
  <1>2. ASSUME NEW f \in Filter, NEW p \in Nat \ {0}, Asks(f, p) PROVE IsAnswer(asking')
    BY <1>2, ListsAreAnswers DEF Asks, ScreenInv
  <1>3. CASE UNCHANGED screenVars
    BY <1>1, <1>3, LooksKeepScreenInv DEF screenVars
  <1>4. CASE Poll
    BY <1>1, <1>2, <1>4, LooksKeepScreenInv DEF Poll, refreshAll
  <1>5. CASE Land
    BY <1>1, <1>5, LooksKeepScreenInv DEF Land
  <1>6. CASE QueueMoves
    <2>1. PICK m \in Messages, s \in {"sending", "sent", "failed", "pending"} :
            queued' = [queued EXCEPT ![m] = s]
      BY <1>6 DEF QueueMoves
    <2>2. queued' \in [Messages -> EmailStatuses]
      BY <1>1, <2>1 DEF EmailStatuses
    <2> QED BY <1>1, <1>6, <2>2, LooksKeepScreenInv DEF QueueMoves
  <1>7. ASSUME NEW f \in Filter, UseFilter(f) PROVE ScreenInv'
    BY <1>1, <1>2, <1>7, LooksKeepScreenInv DEF UseFilter
  <1>8. CASE setFilter
    BY <1>1, <1>7, <1>8, FiltersStayTyped DEF setFilter
  <1>9. CASE toggleStatus
    <2>1. PICK s \in EmailStatuses :
            UseFilter([filters EXCEPT !.status = IF s \in @ THEN @ \ {s} ELSE @ \cup {s}])
      BY <1>9 DEF toggleStatus
    <2> DEFINE status == IF s \in filters.status THEN filters.status \ {s} ELSE filters.status \cup {s}
    <2>2. status \in SUBSET EmailStatuses
      BY <1>1 DEF Filter
    <2>3. UseFilter([filters EXCEPT !.status = status])
      BY <2>1
    <2> HIDE DEF status
    <2> QED BY <1>1, <1>7, <2>2, <2>3, FiltersStayTyped
  <1>10. CASE setPage
    <2>1. pageNo' \in Nat \ {0} /\ Asks(filters, pageNo')
      BY <1>10 DEF setPage, NextPages
    <2> QED BY <1>1, <1>2, <1>10, <2>1, LooksKeepScreenInv DEF setPage
  <1>11. ASSUME NEW m \in Messages, NEW kind \in {"cancel", "retry"}, act(m, kind) PROVE ScreenInv'
    <2> DEFINE c == [kind |-> kind, on |-> m, step |-> "read"]
    <2>1. c \in ScreenPost /\ c.on = m
      BY DEF ScreenPost, ClickKinds
    <2>2. posts' = posts \cup {c}
      BY <1>11 DEF act, Post
    <2> HIDE DEF c
    <2> QED BY <1>1, <1>11, <2>1, <2>2, PostsKeepScreenInv DEF act
  <1>12. CASE closeReschedule \/ \E m \in Messages : openReschedule(m)
    BY <1>1, <1>12, LooksKeepScreenInv DEF openReschedule, closeReschedule
  <1>13. CASE confirmReschedule
    <2> DEFINE c == [kind |-> "reschedule", on |-> rescheduling, step |-> "read"]
    <2>1. c \in ScreenPost /\ c.on = rescheduling /\ rescheduling \in Messages
      BY <1>1, <1>13 DEF confirmReschedule, ScreenPost, ClickKinds
    <2>2. posts' = posts \cup {c}
      BY <1>13 DEF confirmReschedule, Post
    <2> HIDE DEF c
    <2> QED BY <1>1, <1>13, <2>1, <2>2, PostsKeepScreenInv DEF confirmReschedule
  <1>14. ASSUME NEW kind \in {"bulkCancel", "bulkRetry"}, bulk(kind) PROVE ScreenInv'
    <2> DEFINE c == [kind |-> kind, on |-> filters, step |-> "read"]
    <2>1. c \in ScreenPost
      BY <1>1 DEF ScreenPost, ClickKinds
    <2>2. posts' = posts \cup {c}
      BY <1>14 DEF bulk, Post
    <2> HIDE DEF c
    <2> QED BY <1>1, <1>14, <2>1, <2>2, PostsKeepScreenInv DEF bulk
  <1>15. ASSUME NEW c \in posts, ServerReads(c) PROVE ScreenInv'
    BY <1>1, <1>15, ServingKeepsScreenInv DEF ServerReads
  <1>16. ASSUME NEW c \in posts, ServerWrites(c) PROVE ScreenInv'
    <2>1. queued' \in [Messages -> EmailStatuses]
      BY <1>1, <1>16 DEF ServerWrites, EmailStatuses
    <2> QED BY <1>16, <2>1, ServingKeepsScreenInv DEF ServerWrites
  <1>17. ASSUME NEW c \in posts, ServerBulk(c) PROVE ScreenInv'
    <2> DEFINE body == BulkBody(c.on)
               hit == IF c.kind = "bulkCancel" THEN CancelsMany(body) ELSE RetriesMany(body)
               step == IF assertNarrowed(body) THEN "done" ELSE "refused"
    <2>1. /\ queued' = [m \in Messages |->
                IF ~assertNarrowed(body) \/ m \notin hit THEN queued[m]
                ELSE IF c.kind = "bulkCancel" THEN "cancelled" ELSE "pending"]
          /\ posts' = (posts \ {c}) \cup {[c EXCEPT !.step = step]}
          /\ UNCHANGED <<filters, pageNo, shown, asking, busyId, rescheduling>>
          /\ step \in {"write", "done", "refused"}
      BY <1>17 DEF ServerBulk
    <2> HIDE DEF body, hit, step
    <2>2. queued' \in [Messages -> EmailStatuses]
      BY <1>1, <2>1 DEF EmailStatuses
    <2> QED BY <2>1, <2>2, ServingKeepsScreenInv
  <1>18. ASSUME NEW c \in posts, Answered(c) PROVE ScreenInv'
    <2>1. posts' = posts \ {c} /\ busyId' = (IF c.on \in Messages THEN NoRow ELSE busyId)
      BY <1>18 DEF Answered, ClearBusy
    <2>2. SpinnersHaveACall'
      BY <1>1, <2>1 DEF ScreenInv, SpinnersHaveACall
    <2>3. asking' # Unread => IsAnswer(asking')
      BY <1>1, <1>2, <1>18 DEF Answered, refreshAll
    <2> QED BY <1>1, <1>18, <2>1, <2>2, <2>3 DEF Answered, ScreenInv, ScreenTypeOK, IsAnswer
  <1> QED BY <1>3, <1>4, <1>5, <1>6, <1>8, <1>9, <1>10, <1>11, <1>12, <1>13, <1>14, <1>15,
            <1>16, <1>17, <1>18 DEF ScreenNext, Serve

LEMMA ScreenInvariant == ScreenSpec => []ScreenInv
  BY ScreenInitial, ScreenInvKept, PTL DEF ScreenSpec

-----------------------------------------------------------------------------
(* Tabs *)

(* A tab that comes to a page, or stays, with tokens there are.            *)
LEMMA ArrivalsStayTyped ==
  ASSUME TabsTypeOK, NEW b \in OpenTabs, NEW p \in Pages, NEW held \in 0..given,
         NEW newUser \in 0..given, NEW isLoading \in BOOLEAN, NEW waits \in SUBSET (0..given),
         Arrive(b, p, held, newUser, isLoading, waits)
  PROVE  /\ path' \in [OpenTabs -> Pages] /\ going' \in [OpenTabs -> Pages \cup {Nowhere}]
         /\ user' \in [OpenTabs -> 0..given] /\ me' \in [OpenTabs -> 0..given]
         /\ polls' \in [OpenTabs -> SUBSET (0..given)] /\ loading' \in [OpenTabs -> BOOLEAN]
         /\ ~BlankPage(b)' /\ \A a \in OpenTabs \ {b} : BlankPage(a)' => BlankPage(a)
  <1>1. RedirectFrom(p) \in Pages \cup {Nowhere} /\ (p = "app" => RedirectFrom(p) # Nowhere)
    BY TabsAssumption DEF RedirectFrom, Pages
  <1>2. /\ path' = [path EXCEPT ![b] = p] /\ me' = [me EXCEPT ![b] = held]
        /\ polls' = [polls EXCEPT ![b] = waits] /\ user' = [user EXCEPT ![b] = newUser]
        /\ loading' = [loading EXCEPT ![b] = held # NoToken /\ isLoading]
        /\ going' = [going EXCEPT ![b] = IF held = NoToken THEN RedirectFrom(p) ELSE Nowhere]
    BY DEF Arrive
  <1>3. /\ path \in [OpenTabs -> Pages] /\ going \in [OpenTabs -> Pages \cup {Nowhere}]
        /\ user \in [OpenTabs -> 0..given] /\ me \in [OpenTabs -> 0..given]
        /\ polls \in [OpenTabs -> SUBSET (0..given)] /\ loading \in [OpenTabs -> BOOLEAN]
    BY DEF TabsTypeOK
  <1>4. (held # NoToken /\ isLoading) \in BOOLEAN
    OBVIOUS
  <1>5. loading' \in [OpenTabs -> BOOLEAN]
    BY <1>2, <1>3, <1>4
  <1>6. \A a \in OpenTabs \ {b} : BlankPage(a)' => BlankPage(a)
    BY <1>2, <1>3 DEF BlankPage
  <1>7. ~BlankPage(b)'
    BY <1>1, <1>2, <1>3 DEF BlankPage
  <1> QED BY <1>1, <1>2, <1>3, <1>5, <1>6, <1>7

LEMMA TabsInitial == TabsInit => TabsTypeOK
  BY TabsAssumption DEF TabsInit, TabsTypeOK, NoToken, Pages

(* Types are kept and no page is left blank but by a failure.              *)
TabStep == TabsTypeOK' /\ \A b \in OpenTabs : ~BlankPage(b) /\ BlankPage(b)' => outages' = outages + 1

(* A 401 leaves every tab typed and none blank.                            *)
LEMMA SignedOutIsATabStep ==
  ASSUME TabsTypeOK, NEW b \in OpenTabs, NEW meThen \in 0..given,
         NEW pollsThen \in SUBSET (0..given), NEW loadingThen \in BOOLEAN,
         SignedOut(b, meThen, pollsThen, loadingThen)
  PROVE  TabStep
  <1>1. store' = NoToken /\ NoToken \in 0..given /\ UNCHANGED <<given, expired, trips, outages>>
    BY DEF SignedOut, TabsTypeOK, NoToken, server
  <1>2. CASE IsThere(b)
    <2>1. /\ me' = [me EXCEPT ![b] = meThen] /\ polls' = [polls EXCEPT ![b] = pollsThen]
          /\ loading' = [loading EXCEPT ![b] = loadingThen]
          /\ UNCHANGED <<path, user, going, signIn>> /\ path[b] = "login"
      BY <1>2 DEF SignedOut, IsThere
    <2>2. TabsTypeOK'
      BY <1>1, <2>1 DEF TabsTypeOK
    <2>3. \A a \in OpenTabs : BlankPage(a)' => BlankPage(a)
      BY <2>1 DEF BlankPage, TabsTypeOK
    <2> QED BY <2>2, <2>3 DEF TabStep
  <1>3. CASE ~IsThere(b)
    <2>1. Arrive(b, "login", NoToken, NoToken, FALSE, {}) /\ signIn' = [signIn EXCEPT ![b] = "idle"]
      BY <1>3 DEF SignedOut
    <2>2. "login" \in Pages /\ FALSE \in BOOLEAN /\ {} \in SUBSET (0..given)
      BY DEF Pages
    <2>3. /\ path' \in [OpenTabs -> Pages] /\ going' \in [OpenTabs -> Pages \cup {Nowhere}]
          /\ user' \in [OpenTabs -> 0..given] /\ me' \in [OpenTabs -> 0..given]
          /\ polls' \in [OpenTabs -> SUBSET (0..given)] /\ loading' \in [OpenTabs -> BOOLEAN]
          /\ ~BlankPage(b)' /\ \A a \in OpenTabs \ {b} : BlankPage(a)' => BlankPage(a)
      BY <1>1, <2>1, <2>2, ArrivalsStayTyped
    <2>4. TabsTypeOK'
      BY <1>1, <2>1, <2>3 DEF TabsTypeOK
    <2> QED BY <2>3, <2>4 DEF TabStep
  <1> QED BY <1>2, <1>3

LEMMA TabsMove ==
  ASSUME TabsTypeOK, [TabsNext]_tabVars
  PROVE  TabStep
  <1>1. /\ given \in Nat /\ store \in 0..given /\ NoToken \in 0..given
        /\ user \in [OpenTabs -> 0..given] /\ me \in [OpenTabs -> 0..given]
        /\ polls \in [OpenTabs -> SUBSET (0..given)] /\ loading \in [OpenTabs -> BOOLEAN]
        /\ path \in [OpenTabs -> Pages] /\ going \in [OpenTabs -> Pages \cup {Nowhere}]
        /\ signIn \in [OpenTabs -> {"idle", "sent"}]
    BY DEF TabsTypeOK, NoToken
  <1>2. ASSUME NEW b \in OpenTabs, NEW p \in Pages, NEW newUser \in 0..given,
               NEW isLoading \in BOOLEAN, NEW waits \in SUBSET (0..given),
               Arrive(b, p, store, newUser, isLoading, waits),
               UNCHANGED <<given, expired, store, outages>>,
               trips' \in 0..MaxTrips, signIn' \in [OpenTabs -> {"idle", "sent"}]
        PROVE  TabStep
    <2>1. /\ path' \in [OpenTabs -> Pages] /\ going' \in [OpenTabs -> Pages \cup {Nowhere}]
          /\ user' \in [OpenTabs -> 0..given] /\ me' \in [OpenTabs -> 0..given]
          /\ polls' \in [OpenTabs -> SUBSET (0..given)] /\ loading' \in [OpenTabs -> BOOLEAN]
          /\ ~BlankPage(b)' /\ \A a \in OpenTabs \ {b} : BlankPage(a)' => BlankPage(a)
      BY <1>1, <1>2, ArrivalsStayTyped
    <2>2. TabsTypeOK'
      BY <1>2, <2>1 DEF TabsTypeOK
    <2> QED BY <2>1, <2>2 DEF TabStep
  <1>3. ASSUME NEW b \in OpenTabs
        PROVE  Waits(b) \in SUBSET (0..given) /\ user[b] \in 0..given
               /\ me[b] \in 0..given /\ polls[b] \in SUBSET (0..given) /\ loading[b] \in BOOLEAN
    BY <1>1 DEF Waits
  <1>4. Trip => trips' \in 0..MaxTrips
    BY TabsAssumption DEF Trip, TabsTypeOK
  <1>5. ASSUME NEW b \in OpenTabs, Navigated(b) PROVE TabStep
    <2>1. going[b] \in Pages /\ trips' \in 0..MaxTrips
      BY <1>1, <1>5 DEF Navigated, TabsTypeOK
    <2>2. signIn' \in [OpenTabs -> {"idle", "sent"}]
      BY <1>1, <1>5 DEF Navigated
    <2>3. Arrive(b, going[b], store, user[b], loading[b], Waits(b))
          /\ UNCHANGED <<given, expired, store, outages>>
      BY <1>5 DEF Navigated, server
    <2> QED BY <1>2, <1>3, <2>1, <2>2, <2>3
  <1>6. ASSUME NEW b \in OpenTabs, FollowLink(b) PROVE TabStep
    <2>1. /\ Arrive(b, "app", store, user[b], FALSE, Waits(b))
          /\ UNCHANGED <<given, expired, store, outages, signIn>>
          /\ "app" \in Pages /\ FALSE \in BOOLEAN /\ trips' \in 0..MaxTrips
      BY <1>4, <1>6 DEF FollowLink, server, Pages
    <2>2. signIn' \in [OpenTabs -> {"idle", "sent"}]
      BY <1>1, <2>1
    <2> QED BY <1>2, <1>3, <2>1, <2>2
  <1>7. ASSUME NEW b \in OpenTabs, NEW p \in Pages, LoadPage(b, p) PROVE TabStep
    <2>1. /\ Arrive(b, p, store, NoToken, TRUE, {})
          /\ UNCHANGED <<given, expired, store, outages>>
          /\ TRUE \in BOOLEAN /\ {} \in SUBSET (0..given) /\ trips' \in 0..MaxTrips
      BY <1>4, <1>7 DEF LoadPage, server
    <2>2. signIn' \in [OpenTabs -> {"idle", "sent"}]
      BY <1>1, <1>7 DEF LoadPage
    <2> QED BY <1>1, <1>2, <2>1, <2>2
  <1>8. ASSUME NEW b \in OpenTabs, MeAccepted(b) PROVE TabStep
    <2>1. /\ me' = [me EXCEPT ![b] = NoToken] /\ user' = [user EXCEPT ![b] = me[b]]
          /\ loading' = [loading EXCEPT ![b] = FALSE] /\ me[b] # NoToken
          /\ UNCHANGED <<given, expired, store, path, going, polls, signIn, trips, outages>>
      BY <1>8 DEF MeAccepted, server
    <2>2. TabsTypeOK'
      BY <1>1, <2>1 DEF TabsTypeOK
    <2>3. \A a \in OpenTabs : BlankPage(a)' => BlankPage(a)
      BY <1>1, <2>1 DEF BlankPage
    <2> QED BY <2>2, <2>3 DEF TabStep
  <1>9. ASSUME NEW b \in OpenTabs, MeRejected(b) PROVE TabStep
    <2>1. SignedOut(b, NoToken, polls[b], FALSE) /\ FALSE \in BOOLEAN
      BY <1>9 DEF MeRejected, StillLoading
    <2> QED BY <1>1, <1>3, <2>1, SignedOutIsATabStep
  <1>10. ASSUME NEW b \in OpenTabs, MeFails(b) PROVE TabStep
    <2>1. /\ me' = [me EXCEPT ![b] = NoToken] /\ loading' = [loading EXCEPT ![b] = FALSE]
          /\ store' = NoToken /\ outages' = outages + 1 /\ outages < MaxOutages
          /\ UNCHANGED <<given, expired, path, going, user, polls, signIn, trips>>
      BY <1>10 DEF MeFails, StillLoading, server
    <2>2. outages' \in 0..MaxOutages
      BY <2>1, TabsAssumption DEF TabsTypeOK
    <2>3. TabsTypeOK'
      BY <1>1, <2>1, <2>2 DEF TabsTypeOK
    <2> QED BY <2>1, <2>3 DEF TabStep
  <1>11. ASSUME NEW b \in OpenTabs, logout(b) PROVE TabStep
    <2>1. /\ store' = NoToken /\ user' = [user EXCEPT ![b] = NoToken]
          /\ going' = [going EXCEPT ![b] = "login"]
          /\ UNCHANGED <<given, expired, path, loading, me, polls, signIn, trips, outages>>
      BY <1>11 DEF logout, server
    <2>2. TabsTypeOK'
      BY <1>1, <2>1 DEF TabsTypeOK, Pages
    <2>3. \A a \in OpenTabs : BlankPage(a)' => BlankPage(a)
      BY <1>1, <2>1, TabsAssumption DEF BlankPage
    <2> QED BY <2>2, <2>3 DEF TabStep
  <1>12. ASSUME NEW b \in OpenTabs, Polls(b) PROVE TabStep
    <2>1. /\ polls' = [polls EXCEPT ![b] = {store}]
          /\ UNCHANGED <<given, expired, store, path, going, user, loading, me, signIn, trips, outages>>
      BY <1>12 DEF Polls, server
    <2>2. TabsTypeOK'
      BY <1>1, <2>1 DEF TabsTypeOK
    <2>3. \A a \in OpenTabs : BlankPage(a)' => BlankPage(a)
      BY <2>1 DEF BlankPage
    <2> QED BY <2>2, <2>3 DEF TabStep
  <1>13. ASSUME NEW b \in OpenTabs, NEW t \in 0..given, PollAnswered(b, t) PROVE TabStep
    <2>1. CASE Valid(t)
      <3>1. /\ polls' = [polls EXCEPT ![b] = @ \ {t}]
            /\ UNCHANGED <<given, expired, store, path, going, user, loading, me, signIn, trips, outages>>
        BY <1>13, <2>1 DEF PollAnswered, server
      <3>2. TabsTypeOK'
        BY <1>1, <3>1 DEF TabsTypeOK
      <3>3. \A a \in OpenTabs : BlankPage(a)' => BlankPage(a)
        BY <3>1 DEF BlankPage
      <3> QED BY <3>2, <3>3 DEF TabStep
    <2>2. CASE ~Valid(t)
      <3>1. SignedOut(b, me[b], polls[b] \ {t}, loading[b])
        BY <1>13, <2>2 DEF PollAnswered
      <3>2. polls[b] \ {t} \in SUBSET (0..given)
        BY <1>3
      <3> QED BY <1>3, <3>1, <3>2, SignedOutIsATabStep
    <2> QED BY <2>1, <2>2
  <1>14. ASSUME NEW b \in OpenTabs, SubmitLogin(b) \/ LoginRejected(b) PROVE TabStep
    <2>1. /\ store' \in {store, NoToken} /\ signIn' \in [OpenTabs -> {"idle", "sent"}]
          /\ UNCHANGED <<given, expired, path, going, user, loading, me, polls, trips, outages>>
      BY <1>1, <1>14 DEF SubmitLogin, LoginRejected, server
    <2>2. TabsTypeOK'
      BY <1>1, <2>1 DEF TabsTypeOK
    <2>3. \A a \in OpenTabs : BlankPage(a)' => BlankPage(a)
      BY <2>1 DEF BlankPage
    <2> QED BY <2>2, <2>3 DEF TabStep
  <1>15. ASSUME NEW b \in OpenTabs, LoginAccepted(b) PROVE TabStep
    <2>1. /\ given' = given + 1 /\ store' = given' /\ user' = [user EXCEPT ![b] = given']
          /\ going' = [going EXCEPT ![b] = "app"] /\ signIn' = [signIn EXCEPT ![b] = "idle"]
          /\ UNCHANGED <<expired, path, loading, me, polls, trips, outages>> /\ given < MaxLogins
      BY <1>15 DEF LoginAccepted
    <2>2. /\ given' \in 0..MaxLogins /\ given' \in 0..given' /\ given' # NoToken
          /\ 0..given \subseteq 0..given' /\ 1..given \subseteq 1..given'
      BY <1>1, <2>1, TabsAssumption DEF NoToken
    <2>3. /\ user' \in [OpenTabs -> 0..given'] /\ me' \in [OpenTabs -> 0..given']
          /\ polls' \in [OpenTabs -> SUBSET (0..given')]
      BY <1>1, <2>1, <2>2
    <2>4. TabsTypeOK'
      BY <1>1, <2>1, <2>2, <2>3 DEF TabsTypeOK, Pages
    <2>5. \A a \in OpenTabs : BlankPage(a)' => BlankPage(a)
      BY <1>1, <2>1, <2>2 DEF BlankPage
    <2> QED BY <2>4, <2>5 DEF TabStep
  <1>16. ASSUME NEW t \in 1..given, Expire(t) PROVE TabStep
    <2>1. /\ expired' = expired \cup {t}
          /\ UNCHANGED <<given, store, path, going, user, loading, me, polls, signIn, trips, outages>>
      BY <1>16 DEF Expire
    <2>2. TabsTypeOK'
      BY <2>1 DEF TabsTypeOK
    <2>3. \A a \in OpenTabs : BlankPage(a)' => BlankPage(a)
      BY <2>1 DEF BlankPage
    <2> QED BY <2>2, <2>3 DEF TabStep
  <1>17. CASE UNCHANGED tabVars
    BY <1>17 DEF tabVars, server, TabsTypeOK, TabStep, BlankPage
  <1> QED BY <1>5, <1>6, <1>7, <1>8, <1>9, <1>10, <1>11, <1>12, <1>13, <1>14, <1>15, <1>16,
            <1>17 DEF TabsNext, MeAnswers, Pages

LEMMA TabsInvariant == TabsSpec => []TabsTypeOK
  <1>1. TabsTypeOK /\ [TabsNext]_tabVars => TabsTypeOK'
    BY TabsMove DEF TabStep
  <1> QED BY <1>1, TabsInitial, PTL DEF TabsSpec

(* A tab is left with nothing on it by a failed request only, whatever the *)
(* tabs do to the token they share.                                        *)
THEOREM OnlyFailuresLeaveBlankPages == TabsSpec => BlankPagesAreFailures
  <1> DEFINE Step == \A b \in OpenTabs : ~BlankPage(b) /\ BlankPage(b)' => outages' = outages + 1
  <1>1. TabsTypeOK /\ [TabsNext]_tabVars => [Step]_tabVars
    BY TabsMove DEF TabStep
  <1> QED BY <1>1, TabsInvariant, PTL DEF TabsSpec, BlankPagesAreFailures

-----------------------------------------------------------------------------
(* The parts together *)

(* A run of the instance is a run of the part it chose, and of each of the *)
(* others one in which nothing happens.                                    *)
LEMMA RunsArePartRuns ==
  ConsoleSpec => /\ ScreenSpec /\ UsersSpec /\ TabsSpec /\ MailboxesSpec
                 /\ SignaturesSpec /\ ImportScreenSpec /\ MessageSpec
  <1>1. ConsoleInit => /\ ScreenInit /\ UsersInit /\ TabsInit /\ MailboxesInit
                       /\ SignaturesInit /\ ImportScreenInit /\ MessageInit
    BY DEF ConsoleInit
  <1>2. ASSUME [ConsoleNext]_allVars
        PROVE  /\ [ScreenNext]_screenVars /\ [UsersNext]_userVars /\ [TabsNext]_tabVars
               /\ [MailboxesNext]_mailboxVars /\ [SignaturesNext]_signVars
               /\ [ImportScreenNext]_importVars /\ [MessageNext]_mailVars
    BY <1>2, Zenon DEF ConsoleNext, allVars
  <1> QED BY <1>1, <1>2, PTL DEF ConsoleSpec, ScreenSpec, UsersSpec, TabsSpec, MailboxesSpec,
                               SignaturesSpec, ImportScreenSpec, MessageSpec

LEMMA SignaturesTypes == SignaturesInv => SignaturesTypeOK
  <1> SUFFICES ASSUME SignaturesInv PROVE SignaturesTypeOK
    OBVIOUS
  <1>1. SignaturesTyped
    BY DEF SignaturesInv
  <1>2. \A s \in Signs : /\ Is(s) => library[s] \in SignValue /\ s \in used
                         /\ fetched[s] # NoSign => fetched[s] \in SignValue
    BY <1>1 DEF SignaturesTyped, Is
  <1>3. editor # NoSign => /\ editor.on \in Signs \cup {NoSign}
                           /\ editor.form \in Form /\ editor.value \in SignValue
                           /\ editor.mode \in {"template", "html"}
    BY <1>1 DEF SignaturesTyped, Editor
  <1>4. \A q \in asks : q.body # NoBody => q.body \in SignValue
    BY <1>1 DEF SignaturesTyped, Ask, NoBody
  <1> QED BY <1>1, <1>2, <1>3, <1>4 DEF SignaturesTyped, SignaturesTypeOK

(* Every variable of every part keeps its type.                            *)
THEOREM ConsoleTypesHold == ConsoleSpec => []ConsoleTypeOK
  <1>1. ConsoleInit => part \in Parts
    BY DEF ConsoleInit
  <1>2. part \in Parts /\ [ConsoleNext]_allVars => (part \in Parts)'
    BY DEF ConsoleNext, allVars
  <1>3. ConsoleSpec => [](part \in Parts)
    BY <1>1, <1>2, PTL DEF ConsoleSpec
  <1>4. /\ ScreenInv => ScreenTypeOK
        /\ UsersInv => UsersTypeOK
        /\ MailboxesInv => MailboxesTypeOK
        /\ SignaturesInv => SignaturesTypeOK
        /\ ImportScreenInv => ImportScreenTypeOK
    BY SignaturesTypes DEF ScreenInv, UsersInv, MailboxesInv, ImportScreenInv
  <1>5. /\ part \in Parts /\ ScreenTypeOK /\ UsersTypeOK /\ TabsTypeOK /\ MailboxesTypeOK
        /\ SignaturesTypeOK /\ ImportScreenTypeOK /\ MessageTypeOK
        => ConsoleTypeOK
    BY DEF ConsoleTypeOK
  <1> QED BY <1>3, <1>4, <1>5, RunsArePartRuns, ScreenInvariant, UsersInvariant, TabsInvariant,
             MailboxesInvariant, SignaturesInvariant, ImportScreenInvariant, MessageTypes, PTL

(* No row of the queue and no button of the import page stays locked after *)
(* the call it waits for is gone, however many clicks, refusals and lost   *)
(* answers came before (queue/page.tsx, busyId and the finally of act;     *)
(* import/page.tsx, busy and the finally of run).                          *)
THEOREM BusyMeansACall == ConsoleSpec => []NothingStaysBusy
  <1>1. ScreenInv /\ ImportScreenInv => NothingStaysBusy
    BY DEF ScreenInv, ImportScreenInv, NothingStaysBusy
  <1> QED BY <1>1, RunsArePartRuns, ScreenInvariant, ImportScreenInvariant, PTL
=============================================================================
