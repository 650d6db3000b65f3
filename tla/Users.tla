------------------------------- MODULE Users -------------------------------
(***************************************************************************)
(* Who may use the console: the users table, the first administrator that  *)
(* is seeded at boot, and the signed /auth/login signs.                    *)
(*                                                                         *)
(* A token is never looked up: the guard checks its signature and its age  *)
(* and takes the role from it, so it stays good for as long as it was      *)
(* signed for, whatever becomes of the user.  Requests on the table are    *)
(* its reads and its writes as separate steps.  Passwords are right or     *)
(* wrong; how they are hashed and the audit entry each request leaves are  *)
(* left out.  That signed run out is left to Tabs: here the longest-lived  *)
(* ones are the ones that matter.                                          *)
(***************************************************************************)
EXTENDS Naturals, FiniteSets, Sequences

CONSTANTS
  People,       (* Ids of users.                                            *)
  Addresses,
  Instances,    (* App processes, each seeding at boot.                     *)
  SeedOf,       (* SEED_ADMIN_EMAIL of each.                                *)
  NoUser,       (* No such row.                                             *)
  Unnamed,      (* A field a request does not name.                         *)
  MaxTokens,    (* Bound: logins.                                           *)
  MaxChanges    (* Bound: requests on the users table.                      *)

Roles == {"admin", "operator"}
User  == [email : Addresses, role : Roles, active : BOOLEAN]

ASSUME UsersAssumption ==
  /\ NoUser \notin People \cup User
  /\ Unnamed \notin Addresses \cup Roles /\ Unnamed \notin BOOLEAN
  /\ SeedOf \in [Instances -> Addresses]
  /\ MaxTokens \in Nat /\ MaxChanges \in Nat

VARIABLES
  users,      (* the row of each id, or NoUser                              *)
  born,       (* ids that were given out: who is added again gets another   *)
  boot,       (* where onApplicationBootstrap of each instance is           *)
  signed,     (* what is signed into each token issued                      *)
  logins,     (* logins whose password was found right                      *)
  userCalls,   (* POST, PATCH and DELETE /auth/users under way               *)
  changes,    (* writes to the users table so far                           *)
  asked       (* requests made so far                                       *)

userVars == <<users, born, boot, signed, logins, userCalls, changes, asked>>

UserExists(p) == users[p] # NoUser
ActiveAdmin(p) == UserExists(p) /\ users[p].role = "admin" /\ users[p].active
Admins == {p \in People : ActiveAdmin(p)}
AddressTaken(a) == \E p \in People : UserExists(p) /\ users[p].email = a

(* Ids are random: which of those not given out it is makes no difference. *)
NewId == CHOOSE p \in People : p \notin born

(* The unique index on the address refuses a second row.                   *)
AddsUser(row) ==
  IF AddressTaken(row.email)
  THEN UNCHANGED <<users, born, changes>>
  ELSE /\ born # People
       /\ users' = [users EXCEPT ![NewId] = row]
       /\ born' = born \cup {NewId}
       /\ changes' = changes + 1

-----------------------------------------------------------------------------
(* seedAdmin *)

CountUsers(i) ==
  /\ boot[i] = "down"
  /\ boot' = [boot EXCEPT ![i] = IF \E p \in People : UserExists(p) THEN "up" ELSE "empty"]
  /\ UNCHANGED <<users, born, userCalls, changes, asked, signed, logins>>

(* Another instance may have seeded the same address by now.               *)
SeedCreate(i) ==
  /\ boot[i] = "empty"
  /\ boot' = [boot EXCEPT ![i] = "up"]
  /\ AddsUser([email |-> SeedOf[i], role |-> "admin", active |-> TRUE])
  /\ UNCHANGED <<userCalls, asked, signed, logins>>

-----------------------------------------------------------------------------
(* User management.  Whoever holds a token may send any request, from the  *)
(* settings page or not; the guard wants the role in the token.            *)

UserBody == [email : Addresses \cup {Unnamed}, role : Roles \cup {Unnamed},
             active : BOOLEAN \cup {Unnamed}]
UserRequests == {"create", "update", "remove"}

(* The body of each: a new user, the fields to change, nothing.            *)
Bodies(kind) ==
  {body \in UserBody :
     CASE kind = "create" -> Unnamed \notin {body.email, body.role} /\ body.active = TRUE
       [] kind = "update" -> body.email = Unnamed
       [] kind = "remove" -> \A f \in DOMAIN body : body[f] = Unnamed}

AsksFor(t, kind, p) ==
  /\ asked < MaxChanges /\ asked' = asked + 1
  /\ signed[t].role = "admin"
  /\ kind = "create" <=> p = NoUser
  /\ \E body \in Bodies(kind) :
       userCalls' = userCalls \cup {[by |-> signed[t].sub, kind |-> kind, on |-> p,
                                    body |-> body, step |-> "read", seen |-> 0]}
  /\ UNCHANGED <<users, born, boot, changes, signed, logins>>

(* Mutant: only deleting oneself is refused, not stepping down.            *)
RefusesOnlyDeletion(q) == q.kind = "remove" /\ q.on = q.by

(* The paths on which somebody would lock themselves out are refused.      *)
RefusesSelf(q) ==
  /\ q.on = q.by
  /\ q.kind = "remove" \/ q.body.active = FALSE \/ q.body.role = "operator"

(* Mutant: the user about to be deleted is counted too. *)
CountsEverybody(p) == Admins

RemainingAdmins(p) == Admins \ {p}

Refused(q) ==
  \/ RefusesSelf(q)
  \/ q.kind = "create" /\ AddressTaken(q.body.email)
  \/ q.kind = "update" /\ ~UserExists(q.on)
  \/ q.kind = "remove" /\ RemainingAdmins(q.on) = {}

(* The first await: findUnique, or the count of the other administrators.  *)
RequestReads(q) ==
  /\ q.step = "read"
  /\ userCalls' = (userCalls \ {q}) \cup
       (IF Refused(q) THEN {} ELSE {[q EXCEPT !.step = "write", !.seen = changes]})
  /\ UNCHANGED <<users, born, boot, changes, asked, signed, logins>>

(* undefined leaves what there is. *)
Named(new, was) == IF new = Unnamed THEN was ELSE new

Changed(user, body) ==
  [user EXCEPT !.role = Named(body.role, @), !.active = Named(body.active, @)]

(* A row that was created or is gone in the meantime makes the write fail, *)
(* or leaves it nothing to delete.                                         *)
RequestWrites(q) ==
  /\ q.step = "write"
  /\ userCalls' = userCalls \ {q}
  /\ IF q.kind = "create" THEN AddsUser(q.body)
     ELSE IF ~UserExists(q.on) THEN UNCHANGED <<users, born, changes>>
     ELSE /\ users' = [users EXCEPT ![q.on] = IF q.kind = "remove" THEN NoUser
                                             ELSE Changed(@, q.body)]
          /\ changes' = changes + 1
          /\ UNCHANGED born
  /\ UNCHANGED <<boot, asked, signed, logins>>

-----------------------------------------------------------------------------
(* AuthService.login *)

(* The row is read and the password compared ...                           *)
ComparePassword(p) ==
  /\ Len(signed) + Cardinality(logins) < MaxTokens
  /\ UserExists(p) /\ users[p].active
  /\ logins' = logins \cup {[sub |-> p, role |-> users[p].role]}
  /\ UNCHANGED <<users, born, boot, userCalls, changes, asked, signed>>

(* Mutant: the last login is noted without asking for the row. *)
StampsAnything(p) == TRUE

(* prisma.user.update throws when there is no such row. *)
StampsLogin(p) == UserExists(p)

(* ... then lastLoginAt is written and the token signed, with the role as  *)
(* it was read.                                                            *)
IssueToken(l) ==
  /\ logins' = logins \ {l}
  /\ signed' = IF StampsLogin(l.sub) THEN Append(signed, l) ELSE signed
  /\ UNCHANGED <<users, born, boot, userCalls, changes, asked>>

-----------------------------------------------------------------------------
UsersInit ==
  /\ users = [p \in People |-> NoUser] /\ born = {}
  /\ boot = [i \in Instances |-> "down"]
  /\ signed = <<>> /\ logins = {}
  /\ userCalls = {} /\ changes = 0 /\ asked = 0

UsersNext ==
  \/ \E i \in Instances : CountUsers(i) \/ SeedCreate(i)
  \/ \E t \in DOMAIN signed, kind \in UserRequests, p \in People \cup {NoUser} :
       AsksFor(t, kind, p)
  \/ \E q \in userCalls : RequestReads(q) \/ RequestWrites(q)
  \/ \E p \in People : ComparePassword(p)
  \/ \E l \in logins : IssueToken(l)

UsersSpec == UsersInit /\ [][UsersNext]_userVars

-----------------------------------------------------------------------------
(* Properties *)

Session == [sub : People, role : Roles]

(* Every variable keeps its type.                                          *)
UsersTypeOK ==
  /\ users \in [People -> User \cup {NoUser}] /\ born \subseteq People
  /\ \A p \in People : UserExists(p) => p \in born
  /\ boot \in [Instances -> {"down", "empty", "up"}]
  /\ \A t \in DOMAIN signed : signed[t] \in Session
  /\ logins \subseteq Session
  /\ \A q \in userCalls :
       /\ q.by \in People /\ q.on \in People \cup {NoUser}
       /\ q.kind \in UserRequests /\ q.body \in Bodies(q.kind)
       /\ q.step \in {"read", "write"} /\ q.seen \in Nat
  /\ changes \in Nat /\ asked \in Nat

(* The console loses its last administrator in two ways only: a demotion   *)
(* or deactivation asked for by someone who is no administrator any more   *)
(* but still has the token, or a deletion that counted the others before   *)
(* they changed.  No request of a sitting administrator does it alone      *)
(* (auth.service.ts, update and remove).                                   *)
LockoutsNeedAStaleView ==
  [][Admins # {} /\ Admins' = {} =>
       \E q \in userCalls \ userCalls' :
         \/ q.kind = "update" /\ ~ActiveAdmin(q.by)
         \/ q.kind = "remove" /\ q.seen # changes]_userVars

(* Whoever is deleted gets no token after that, not even for a login that  *)
(* had already found the user and was comparing the password.              *)
NoTokenAfterDeletion ==
  [][\A t \in DOMAIN signed' \ DOMAIN signed : UserExists(signed'[t].sub)]_userVars
=============================================================================
