----------------------------- MODULE Mailboxes -----------------------------
(***************************************************************************)
(* The mailboxes of the console: the accounts table, the requests that     *)
(* create, edit, test and delete a row of it, the form an operator edits   *)
(* it with, and TransportService, which keeps one SMTP pool and one OAuth  *)
(* access token per mailbox in the memory of the app process.              *)
(*                                                                         *)
(* A call holds the row it read; whatever it awaits (a token, a login, the *)
(* database) is where others get in, and may fail.  Of the settings `conn` *)
(* stands for those signatureOf looks at and `rest` for the two it leaves  *)
(* out, the client secret and the tenant.  The daily counter of the same   *)
(* table is in SendSlot, the signature of a mailbox in Signatures.         *)
(***************************************************************************)
EXTENDS Naturals, Sequences

CONSTANTS
  Ids,          (* Ids the mailbox of the one address may get.              *)
  Draft,        (* The empty id it has before it is stored.                 *)
  Missing,      (* No such row; no form open.                               *)
  Conns, Rests,
  Blank,        (* A secret that is not stored.                             *)
  Keep,         (* A field a request does not name.                         *)
  OAuthConns,   (* The connections that log in with an access token.        *)
  Accepted,     (* The settings the provider accepts.                       *)
  MaxCalls      (* Bound: requests and sends.                               *)

Cred == [conn : Conns, rest : Rests \cup {Blank}]
Row  == [cred : Cred, active : BOOLEAN]
Body == [conn : Conns \cup {Keep}, rest : Rests \cup {Blank, Keep},
         active : BOOLEAN \cup {Keep}]

ASSUME MailboxesAssumption ==
  /\ Draft \notin Ids /\ Missing \notin Row
  /\ Blank \notin Rests /\ Keep \notin Conns \cup Rests \cup {Blank}
  /\ OAuthConns \subseteq Conns
  /\ Accepted \subseteq Cred
  /\ MaxCalls \in Nat

Keys == Ids \cup {Draft}
None == 0

VARIABLES
  stored,       (* the row of each id, or Missing                           *)
  taken,        (* ids that were given out                                  *)
  pools,        (* every pool opened: its settings, its token, whether open *)
  transports,   (* the pool in the cache under each id                      *)
  issued,       (* the settings each access token was issued for            *)
  tokens,       (* the token in the cache under each id                     *)
  old,          (* tokens past their lifetime                               *)
  calls,        (* requests and sends, in the order they came in            *)
  copies,       (* the row of each id as the browser last got it            *)
  form          (* the row the edit form was filled from                    *)

table       == <<stored, taken>>
memory      == <<pools, transports, issued, tokens, old>>
browser     == <<copies, form>>
mailboxVars == <<table, memory, calls, browser>>

Numbers(s) == 1..Len(s)

(* Where a call is: it waits for the row, for the settings of a pool, for  *)
(* the login of a pool, for its write; or it is over.                      *)
Steps == {"read", "get", "auth", "login", "write", "send", "over"}
CallKinds == {"send", "create", "update", "verify", "remove"}

Goes(c, step) == calls' = [calls EXCEPT ![c].step = step]

NewCall(kind, id, row, body, step) ==
  /\ Len(calls) < MaxCalls
  /\ calls' = Append(calls, [kind |-> kind, id |-> id, row |-> row,
                             body |-> body, step |-> step,
                             cached |-> None, pool |-> None, token |-> None])

Nothing == [conn |-> Keep, rest |-> Keep, active |-> Keep]

-----------------------------------------------------------------------------
(* Requests *)

(* claimSendSlot, or the test button: the row goes with the message.       *)
Send(id) ==
  /\ stored[id] # Missing
  /\ NewCall("send", id, stored[id], Nothing, "get")
  /\ UNCHANGED <<table, memory, browser>>

Complete(cred) == cred.conn \in OAuthConns => cred.rest # Blank

(* create: nothing is awaited before the login but findUnique, so the      *)
(* conflict and the missing credentials are found at once.                 *)
Create ==
  /\ \A id \in Ids : stored[id] = Missing
  /\ \E cred \in Cred :
       /\ Complete(cred)
       /\ NewCall("create", Draft, [cred |-> cred, active |-> TRUE], Nothing, "get")
  /\ UNCHANGED <<table, memory, browser>>

(* SWR hands out the row of an earlier visit and asks again; the form is   *)
(* keyed on the id and keeps what it was filled with.                      *)
OpenForm(id) ==
  /\ form = Missing
  /\ \E row \in {IF copies[id] = Missing THEN stored[id] ELSE copies[id]} \ {Missing} :
       form' = [id |-> id, row |-> row]
  /\ copies' = [copies EXCEPT ![id] = IF stored[id] = Missing THEN @ ELSE stored[id]]
  /\ UNCHANGED <<table, memory, calls>>

(* The form sends every field it shows, as they were or changed, whether   *)
(* sending was paused included, and the secrets that were typed.           *)
SubmitForm ==
  /\ form # Missing
  /\ \E conn \in Conns, rest \in Rests \cup {Keep} :
       NewCall("update", form.id, Missing,
               [conn |-> conn, rest |-> rest, active |-> form.row.active], "read")
  /\ form' = Missing
  /\ UNCHANGED <<table, memory, copies>>

(* What the list on the screen says may be old. *)
togglePaused(id) ==
  /\ id \in taken
  /\ \E v \in BOOLEAN : NewCall("update", id, Missing, [Nothing EXCEPT !.active = v], "read")
  /\ UNCHANGED <<table, memory, browser>>

TestLogin(id) ==
  /\ id \in taken
  /\ NewCall("verify", id, Missing, Nothing, "read")
  /\ UNCHANGED <<table, memory, browser>>

Remove(id) ==
  /\ id \in taken
  /\ NewCall("remove", id, Missing, Nothing, "read")
  /\ UNCHANGED <<table, memory, browser>>

(* Mutant: a field that is not named is written as it came. *)
TakesTheField(new, was) == new

(* undefined leaves what there is. *)
Or(new, was) == IF new = Keep THEN was ELSE new

(* The row a request means to write: the fields it names over those read.  *)
Edited(row, body) ==
  [cred |-> [conn |-> Or(body.conn, row.cred.conn),
             rest |-> Or(body.rest, row.cred.rest)],
   active |-> Or(body.active, row.active)]

touchesConnection(body) == body.conn # Keep \/ body.rest # Keep

(* findOrThrow, and what follows up to the next await.                     *)
Reads(c) ==
  /\ calls[c].step = "read" /\ calls[c].kind # "remove"
  /\ LET q == calls[c]
         row == IF stored[q.id] = Missing THEN Missing
                ELSE Edited(stored[q.id], q.body)
         next == IF row = Missing THEN "over"
                 ELSE IF q.kind = "verify" THEN "get"
                 ELSE IF ~touchesConnection(q.body) THEN "write"
                 ELSE IF Complete(row.cred) THEN "get" ELSE "over"
     IN  calls' = [calls EXCEPT ![c].row = row, ![c].step = next]
  /\ UNCHANGED <<table, memory, browser>>

-----------------------------------------------------------------------------
(* TransportService *)

Close(set) == [n \in Numbers(pools) |->
                 IF n \in set THEN [pools[n] EXCEPT !.open = FALSE] ELSE pools[n]]

(* Mutant: the map forgets the pool, which stays connected. *)
ForgetsOnly(n) == pools

(* transporter.close() in invalidate.                                      *)
ClosesCached(n) == Close({n})

(* Mutant: a login test starts from what is cached. *)
TestsTheCache(c) == FALSE

(* invalidate *)
Forgets(k) ==
  /\ pools' = ClosesCached(transports[k])
  /\ transports' = [transports EXCEPT ![k] = None]
  /\ tokens' = [tokens EXCEPT ![k] = None]
  /\ UNCHANGED <<issued, old>>

(* verify begins with invalidate. *)
Invalidates(c) == calls[c].kind # "send"

(* The fingerprints are compared, not the settings. *)
Hit(n, cred) == n # None /\ pools[n].cred.conn = cred.conn

(* get, up to the await of buildAuth: the pool in the cache is used, or    *)
(* closed; a token in the cache is used unless it is old.                  *)
Gets(c) ==
  /\ calls[c].step = "get"
  /\ LET k == calls[c].id
         cred == calls[c].row.cred
         cached == IF Invalidates(c) THEN None ELSE transports[k]
         token == IF Invalidates(c) THEN None ELSE tokens[k]
     IN  /\ pools' = IF Invalidates(c) THEN ClosesCached(transports[k])
                     ELSE IF Hit(cached, cred) THEN pools ELSE Close({cached})
         /\ transports' = [transports EXCEPT ![k] = cached]
         /\ tokens' = [tokens EXCEPT ![k] = token]
         /\ calls' = [calls EXCEPT
              ![c].step = IF Hit(cached, cred) THEN "login" ELSE "auth",
              ![c].pool = IF Hit(cached, cred) THEN cached ELSE None,
              ![c].cached = cached,
              ![c].token = IF cred.conn \in OAuthConns /\ token \notin old
                           THEN token ELSE None]
  /\ UNCHANGED <<table, issued, old, browser>>

(* Mutant: a pool that is in the cache by then is left there. *)
KeepsTheFirst(k, n) == IF transports[k] = None THEN n ELSE transports[k]

(* transports.set: over whatever another get has put there meanwhile.      *)
Puts(k, n) == n

(* The token arrives, is cached, and the pool is made and cached.          *)
Authorised(c) ==
  /\ calls[c].step = "auth"
  /\ LET k == calls[c].id
         cred == calls[c].row.cred
         fetches == cred.conn \in OAuthConns /\ calls[c].token = None
         token == IF fetches THEN Len(issued) + 1 ELSE calls[c].token
     IN  /\ fetches => cred \in Accepted
         /\ issued' = IF fetches THEN Append(issued, cred) ELSE issued
         /\ tokens' = IF fetches THEN [tokens EXCEPT ![k] = token] ELSE tokens
         /\ pools' = Append(pools, [cred |-> cred, token |-> token, open |-> TRUE])
         /\ transports' = [transports EXCEPT ![k] = Puts(k, Len(pools) + 1)]
         /\ calls' = [calls EXCEPT ![c].step = "login", ![c].pool = Len(pools) + 1]
  /\ UNCHANGED <<table, old, browser>>

(* The token endpoint refuses the settings or cannot be reached: get       *)
(* throws, and what it has done to the cache stays done.                   *)
Unauthorised(c) ==
  /\ calls[c].step = "auth"
  /\ calls[c].row.cred.conn \in OAuthConns /\ calls[c].token = None
  /\ Goes(c, "over")
  /\ UNCHANGED <<table, memory, browser>>

(* What the server makes of the pool: it judges the token, if there is one.*)
LogsIn(n) ==
  IF pools[n].token # None THEN issued[pools[n].token] \in Accepted
                                /\ pools[n].token \notin old
                           ELSE pools[n].cred \in Accepted

(* sendMail; what comes of it is the pipeline's business.                  *)
Sent(c) ==
  /\ calls[c].step = "login" /\ calls[c].kind = "send"
  /\ Goes(c, "over")
  /\ UNCHANGED <<table, memory, browser>>

(* transporter.verify(): a refusal, or a server that cannot be reached,    *)
(* drops what is cached by now.                                            *)
Verified(c) ==
  /\ calls[c].step = "login" /\ calls[c].kind # "send"
  /\ \/ /\ LogsIn(calls[c].pool)
        /\ Goes(c, IF calls[c].kind = "verify" THEN "over" ELSE "write")
        /\ UNCHANGED memory
     \/ Goes(c, "over") /\ Forgets(calls[c].id)
  /\ UNCHANGED <<table, browser>>

-----------------------------------------------------------------------------
(* Writes *)

(* The unique index on the address refuses a second row.                   *)
WritesNew(c) ==
  /\ calls[c].step = "write" /\ calls[c].kind = "create"
  /\ IF \E id \in Ids : stored[id] # Missing
     THEN UNCHANGED table
     ELSE \E id \in Ids \ taken :
            /\ stored' = [stored EXCEPT ![id] = calls[c].row]
            /\ taken' = taken \cup {id}
  /\ Goes(c, "over")
  /\ UNCHANGED <<memory, browser>>

(* Every column is written, those that were only read too; a row that is   *)
(* gone by now makes the statement fail.                                   *)
WritesEdit(c) ==
  /\ calls[c].step = "write" /\ calls[c].kind = "update"
  /\ stored' = [stored EXCEPT ![calls[c].id] =
                  IF @ = Missing THEN Missing ELSE calls[c].row]
  /\ Goes(c, "over")
  /\ UNCHANGED <<taken, memory, browser>>

(* remove: the cache is cleared first, ...                                 *)
ReadsToRemove(c) ==
  /\ calls[c].step = "read" /\ calls[c].kind = "remove"
  /\ IF stored[calls[c].id] = Missing
     THEN Goes(c, "over") /\ UNCHANGED memory
     ELSE /\ calls' = [calls EXCEPT ![c].row = stored[calls[c].id], ![c].step = "write"]
          /\ Forgets(calls[c].id)
  /\ UNCHANGED <<table, browser>>

(* ... then the row is deleted.                                            *)
Deletes(c) ==
  /\ calls[c].step = "write" /\ calls[c].kind = "remove"
  /\ stored' = [stored EXCEPT ![calls[c].id] = Missing]
  /\ Goes(c, "over")
  /\ UNCHANGED <<taken, memory, browser>>

(* A statement fails.                                                      *)
StatementFails(c) ==
  /\ calls[c].step \in {"read", "write"}
  /\ Goes(c, "over")
  /\ UNCHANGED <<table, memory, browser>>

(* An access token is good for about an hour.                              *)
TokensAge ==
  /\ old # Numbers(issued)
  /\ old' = Numbers(issued)
  /\ UNCHANGED <<table, pools, transports, issued, tokens, calls, browser>>

-----------------------------------------------------------------------------
MailboxesInit ==
  /\ taken \in {S \in SUBSET Ids : \A s, t \in S : s = t}
  /\ stored \in [Ids -> {Missing} \cup
                   {r \in Row : r.cred \in Accepted /\ Complete(r.cred) /\ r.active}]
  /\ \A id \in Ids : stored[id] = Missing <=> id \notin taken
  /\ pools = <<>> /\ issued = <<>> /\ old = {} /\ calls = <<>>
  /\ transports = [k \in Keys |-> None] /\ tokens = [k \in Keys |-> None]
  /\ form = Missing /\ copies = [id \in Ids |-> Missing]

Proceeds(c) ==
  \/ Reads(c) \/ Gets(c) \/ Authorised(c) \/ Unauthorised(c)
  \/ Sent(c) \/ Verified(c) \/ WritesNew(c) \/ WritesEdit(c)
  \/ ReadsToRemove(c) \/ Deletes(c) \/ StatementFails(c)

MailboxesNext ==
  \/ Create \/ SubmitForm \/ TokensAge
  \/ \E id \in Ids : \/ Send(id) \/ OpenForm(id) \/ togglePaused(id)
                     \/ TestLogin(id) \/ Remove(id)
  \/ \E c \in Numbers(calls) : Proceeds(c)

MailboxesSpec == MailboxesInit /\ [][MailboxesNext]_mailboxVars

-----------------------------------------------------------------------------
(* Properties *)

(* Every variable keeps its type.                                          *)
MailboxesTypeOK ==
  /\ stored \in [Ids -> Row \cup {Missing}] /\ taken \subseteq Ids
  /\ \A n \in Numbers(pools) :
       pools[n] \in [cred : Cred, token : {None} \cup Numbers(issued), open : BOOLEAN]
  /\ transports \in [Keys -> {None} \cup Numbers(pools)]
  /\ tokens \in [Keys -> {None} \cup Numbers(issued)]
  /\ \A n \in Numbers(issued) : issued[n] \in Cred
  /\ old \subseteq Numbers(issued)
  /\ \A c \in Numbers(calls) :
       /\ calls[c].kind \in CallKinds /\ calls[c].step \in Steps
       /\ calls[c].row \in Row \cup {Missing} /\ calls[c].body \in Body
       /\ calls[c].pool \in {None} \cup Numbers(pools)
  /\ form = Missing \/ form.row \in Row
  /\ copies \in [Ids -> Row \cup {Missing}]

(* What is stored has logged in: whatever forms, login tests and sends     *)
(* overlap, and however old a row a save writes back, the settings of a    *)
(* stored mailbox are ones the provider accepted (AccountForm.tsx:432-433, *)
(* accounts.service.ts:143-145).                                           *)
StoredCredentialsWereAccepted ==
  \A id \in Ids : stored[id] # Missing => stored[id].cred \in Accepted

(* A pool drops out of the cache without being closed only when a get that *)
(* had looked at the cache before it was there puts its own in its place   *)
(* (transport.service.ts, get: the await between the look and the set).    *)
PoolsAreLostInRacesOnly ==
  [][\A k \in Keys :
       LET n == transports[k] IN
       n # None /\ pools[n].open /\ transports'[k] # n /\ pools'[n].open
         => \E c \in Numbers(calls) :
              /\ calls[c].step = "auth" /\ calls'[c].step = "login"
              /\ calls[c].id = k /\ calls[c].cached # n]_mailboxVars

(* The cache keeps a closed pool under an id and no get is about to put    *)
(* another in its place: every send that finds its own settings gets it.   *)
Wedged(k) ==
  /\ transports[k] # None /\ ~pools[transports[k]].open
  /\ \A c \in Numbers(calls) :
       calls[c].id = k /\ calls[c].step = "auth" => calls[c].cached # transports[k]

(* get closes the pool it will replace before it has what it needs for the *)
(* new one.  That ends with a closed pool in the cache in one way only: the*)
(* token request it awaits in between fails.  No overlap of gets, no login *)
(* test that fails, no deletion does it (transport.service.ts:58 and 71).  *)
OnlyFailedTokensWedge ==
  [][\A k \in Keys :
       Wedged(k)' /\ ~Wedged(k)
         => \E c \in Numbers(calls) :
              /\ calls[c].id = k /\ calls[c].token = None
              /\ calls[c].step = "auth" /\ calls'[c].step = "over"]_mailboxVars
=============================================================================
