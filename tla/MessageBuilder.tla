--------------------------- MODULE MessageBuilder ---------------------------
(***************************************************************************)
(* From a row of a sheet to the message a recipient gets: what the import  *)
(* reads out of the row and foretells about it, and what MessageBuilder    *)
(* makes of it later, with the signature the mailbox has by then.          *)
(*                                                                         *)
(* A text is the set of the things in it that are, or may become, a link;  *)
(* all other words are left out.  Of a URL it matters where it leads and   *)
(* how often the markup characters in it have been escaped: every URL here *)
(* has some (`?a=1&b=2`).                                                  *)
(***************************************************************************)
EXTENDS ScheduleCell, SignOff, FiniteSets

CONSTANTS
  CampaignRows,    (* Rows that may be imported.                               *)
  SignOffs,     (* Signatures the mailbox may have, [html, text].           *)
  MailboxZone,  (* accounts.timezone                                        *)
  Hours,        (* Instants at which something is done.                     *)
  MaxChecks,    (* Bound: imports of the row, dry runs included.            *)
  MaxLetters    (* Bound: messages built.                                   *)

(* In a text body: words, a whole URL, "https://...", the company column   *)
(* as a placeholder, and "https://" with that placeholder behind it.  In   *)
(* an HTML body: an anchor, a mailto: link, and one to the placeholder.    *)
TextSpots == {"url", "ellipsis", "company", "host"}
HtmlSpots == {"anchor", "mailto", "companyLink"}

(* What the company column holds: nothing, a name, or itself a URL.        *)
Companies == {"empty", "name", "url"}

Cell == [reading : Int \cup {Unknown}, token : DOMAIN ZoneNames \cup {Bare, Unknown}]
CampaignRow == [text : SUBSET TextSpots, html : SUBSET HtmlSpots, company : Companies,
                cell : Cell, default : Timezone \cup {Bare}]

ASSUME MessageAssumption ==
  /\ CampaignRows \subseteq CampaignRow
  /\ \A name \in DOMAIN ZoneNames : ZoneNames[name] \in Timezone
  /\ MailboxZone \in Timezone /\ Bare # Unknown
  /\ {Bare, Unknown} \cap Timezone = {} /\ Hours \subseteq Int
  /\ MaxChecks \in Nat /\ MaxLetters \in Nat

VARIABLES
  sheetRow,   (* the row, and where the P.s. of the signatures leads        *)
  psLeads,
  clock,
  checks,     (* what each import of the row said                           *)
  signOff,    (* the signature of its mailbox                               *)
  resigned,   (* the signature was changed since the first import; once, at *)
              (* most, is the bound                                         *)
  letters     (* messages handed to the mail server                         *)

mailVars == <<sheetRow, psLeads, clock, checks, signOff, resigned, letters>>

-----------------------------------------------------------------------------
(* URLs *)

(* A URL in some place: where it leads, how often it is escaped there, and,*)
(* if it goes through the tracker, for which message and with which URL.   *)
Straight == "straight"
NoUrl == [leads |-> "nowhere", escaped |-> 0, via |-> Straight, carries |-> 0]
Url(place, n) == [NoUrl EXCEPT !.leads = place, !.escaped = n]

escapeHtml(u) == [u EXCEPT !.escaped = @ + 1]

decodeAttribute(u) == [u EXCEPT !.escaped = IF @ = 0 THEN 0 ELSE @ - 1]

IsWeb(u) == u.leads \notin {"nowhere", "mailto", "tel"}

(* The destination travels inside the link, as it was handed in.           *)
clickUrl(id, u) == [u EXCEPT !.via = id, !.carries = u.escaped, !.escaped = 0]

(* Where a link takes the reader: the mail client decodes the attribute,   *)
(* and the tracker redirects to what the link carries if its signature,    *)
(* which covers message and destination, is found intact.                  *)
Follow(u) ==
  LET asked == [u EXCEPT !.escaped = @ - 1] IN
  IF asked.via = Straight THEN <<asked.leads, asked.escaped>>
  ELSE IF asked.escaped = 0 THEN <<asked.leads, asked.carries>>
  ELSE <<"nowhere", 0>>

(* Every http(s) link whose destination has a tracking URL gets it.        *)
rewriteLinks(urls, trackingUrls) ==
  {LET u == decodeAttribute(a) IN
   IF IsWeb(u) /\ u \in DOMAIN trackingUrls THEN escapeHtml(trackingUrls[u]) ELSE a
   : a \in urls}

-----------------------------------------------------------------------------
(* The body *)

(* personalise, of one spot of a text: the URL that stands there then.     *)
Filled(spot, company) ==
  CASE spot = "url"                              -> Url("page", 0)
    [] spot = "company" /\ company = "url"       -> Url("company", 0)
    [] spot = "host" /\ company # "empty"        -> Url("host", 0)
    [] OTHER                                     -> NoUrl

(* textToHtml: what is left of "https://..." without its full stops is no  *)
(* address, and neither is "https://" with nothing behind it.              *)
textToHtml(row) ==
  {escapeHtml(u) : u \in {Filled(s, row.company) : s \in row.text} \ {NoUrl}}

(* An HTML body has been through the sanitiser, which escapes attributes;  *)
(* a value put in afterwards is escaped as it goes in.                     *)
FilledHtml(spot, company) ==
  CASE spot = "anchor"                           -> Url("page", 1)
    [] spot = "mailto"                           -> Url("mailto", 1)
    [] spot = "companyLink" /\ company = "url"   -> escapeHtml(Url("company", 0))
    [] OTHER                                     -> NoUrl

BodyLinks(row) ==
  IF row.html # {} THEN {FilledHtml(s, row.company) : s \in row.html} \ {NoUrl}
  ELSE textToHtml(row)

-----------------------------------------------------------------------------
(* The signature *)

(* Where the lines of a signature lead.                                    *)
LeadsTo(line) == CASE line = "cta" -> psLeads
                   [] line = "website" -> "site"
                   [] line = "own" -> "page"
                   [] line = "email" -> "mailto"
                   [] line = "phone" -> "tel"
                   [] OTHER -> "nowhere"

SignLinks(html) == {Url(LeadsTo(l), 1) : l \in html.shows} \ {Url("nowhere", 1)}

(* The P.s. the form stamped on the markup names.                          *)
signatureCallToAction(html) ==
  IF html.state = NoSign \/ "ctaUrl" \notin html.state.filled THEN NoUrl
  ELSE IF IsWeb(Url(psLeads, 0)) THEN Url(psLeads, 0) ELSE NoUrl

trackCallToAction(html, id) ==
  LET destination == signatureCallToAction(html) IN
  IF destination = NoUrl THEN SignLinks(html)
  ELSE rewriteLinks(SignLinks(html),
                    [u \in {destination} |-> clickUrl(id, u)])

-----------------------------------------------------------------------------
(* The message *)

Nobody == "nobody"

unsubscribeUrl(includeUnsubscribe) ==
  IF includeUnsubscribe THEN {Url("unsubscribe", 0)} ELSE {}

(* Mutant: the footer goes through the rewriting with the body. *)
RewritesTheFooter(row, sign, id, footer) ==
  rewriteLinks(BodyLinks(row) \cup {escapeHtml(u) : u \in footer},
               [u \in {decodeAttribute(a) : a \in BodyLinks(row)} \cup footer
                  |-> clickUrl(id, u)])
    \cup trackCallToAction(sign.html, id)

(* buildHtml of campaign mail: its body is rewritten whole, its signature  *)
(* but for the P.s. left alone, its footer left alone.                     *)
TrackedHtml(row, sign, id, footer) ==
  rewriteLinks(BodyLinks(row),
               [u \in {decodeAttribute(a) : a \in BodyLinks(row)} |-> clickUrl(id, u)])
    \cup trackCallToAction(sign.html, id)
    \cup {escapeHtml(u) : u \in footer}

PlainHtml(row, sign, footer) ==
  BodyLinks(row) \cup SignLinks(sign.html) \cup {escapeHtml(u) : u \in footer}

buildText(row, sign, footer) ==
  ({Filled(s, row.company) : s \in row.text} \cup
   {Url(LeadsTo(l), 0) : l \in sign.text \cap {"cta", "website", "own"}} \cup footer)
    \ {NoUrl, Url("nowhere", 0)}

build(row, sign, includeUnsubscribe, id) ==
  LET footer == unsubscribeUrl(includeUnsubscribe) IN
  [ row |-> row, sign |-> sign, id |-> id,
    text |-> buildText(row, sign, footer),
    html |-> IF id = Nobody THEN PlainHtml(row, sign, footer)
             ELSE TrackedHtml(row, sign, id, footer),
    pixel |-> id,
    header |-> footer ]

-----------------------------------------------------------------------------
(* The import *)

(* Mutant: the text is looked at whether or not it is what becomes HTML. *)
LooksAtBoth(row, html) ==
  \/ "anchor" \in row.html \/ row.text \cap {"url", "ellipsis", "host"} # {}
  \/ signatureCallToAction(html) # NoUrl

(* HTML_LINK, TEXT_LINK and the stamp, on the row as it stands.            *)
hasTrackableLink(row, html) ==
  \/ row.html # {} /\ "anchor" \in row.html
  \/ row.html = {} /\ row.text \cap {"url", "ellipsis", "host"} # {}
  \/ signatureCallToAction(html) # NoUrl

(* options.defaultTimezone ?? account.timezone *)
FallbackZone(row) == IF row.default = Bare THEN MailboxZone ELSE row.default

(* A dry run and a commit read a row alike.                                *)
ReadRow ==
  /\ Cardinality(checks) < MaxChecks
  /\ checks' = checks \cup
       {[at |-> clock,
         utc |-> parseSchedule(sheetRow.cell, FallbackZone(sheetRow), clock),
         tracked |-> hasTrackableLink(sheetRow, signOff.html)]}
  /\ UNCHANGED <<sheetRow, psLeads, clock, signOff, resigned, letters>>

ImportedRow == \E c \in checks : c.utc # Unknown

-----------------------------------------------------------------------------
(* The hours pass between the dry run, the import and the send.            *)
TimePasses ==
  /\ \E t \in Hours : t > clock /\ clock' = t
  /\ UNCHANGED <<sheetRow, psLeads, checks, signOff, resigned, letters>>

(* The mailbox gets another signature, or its signature another form.      *)
Resign ==
  /\ ~resigned /\ \E s \in SignOffs \ {signOff} : signOff' = s
  /\ resigned' = (resigned \/ checks # {})
  /\ UNCHANGED <<sheetRow, psLeads, clock, checks, letters>>

(* SendProcessor: every queued row goes out tracked and with a footer.     *)
SendLetter ==
  /\ ImportedRow /\ Cardinality(letters) < MaxLetters
  /\ letters' = letters \cup {build(sheetRow, signOff, TRUE, "row")}
  /\ UNCHANGED <<sheetRow, psLeads, clock, checks, signOff, resigned>>

(* AccountsController.sendTest: a text of the operator's, and neither.     *)
SendTest ==
  /\ Cardinality(letters) < MaxLetters
  /\ letters' = letters \cup
       {build([sheetRow EXCEPT !.html = {}, !.company = "empty"], signOff, FALSE, Nobody)}
  /\ UNCHANGED <<sheetRow, psLeads, clock, checks, signOff, resigned>>

MessageInit ==
  /\ sheetRow \in CampaignRows /\ signOff \in SignOffs
  /\ psLeads \in {"demo", "site", "mailto"}
  /\ clock \in {t \in Hours : \A u \in Hours : t <= u}
  /\ checks = {} /\ resigned = FALSE /\ letters = {}

MessageNext == ReadRow \/ TimePasses \/ Resign \/ SendLetter \/ SendTest

MessageSpec == MessageInit /\ [][MessageNext]_mailVars

-----------------------------------------------------------------------------
(* Properties *)

IsUrl(u) == /\ u.escaped \in 0..1 /\ u.carries \in 0..1
            /\ u.via \in {Straight, "row"}

(* Every variable keeps its type.                                          *)
MessageTypeOK ==
  /\ sheetRow \in CampaignRows /\ signOff \in SignOffs /\ clock \in Hours
  /\ \A c \in checks : c.at \in Hours /\ c.utc \in Int \cup {Unknown}
  /\ resigned \in BOOLEAN
  /\ \A m \in letters : \A u \in m.html \cup m.text \cup m.header : IsUrl(u)

(* The zone the author of the sheet meant.                                 *)
ZoneMeant(row) == IF row.cell.token # Bare THEN splitZone(row.cell)
                  ELSE FallbackZone(row)

(* The instants at which a clock of the zone shows the reading: none if it *)
(* was skipped, two if it came twice.                                      *)
InstantsAt(zone, reading) ==
  {t \in {reading - zone.ahead, reading - zone.ahead - zone.by} :
     Reading(zone, t) = reading}

(* A row is scheduled for the hour its author wrote, in the zone the       *)
(* author meant, and a mistyped zone is never replaced by another; an hour *)
(* that was skipped becomes the next one.  Only an hour that came twice    *)
(* may be read one way by the dry run and the other way by the import      *)
(* (schedule-parse.ts:66-83).                                              *)
SchedulesAreReadInTheirZone ==
  LET zone    == ZoneMeant(sheetRow)
      reading == sheetRow.cell.reading
      Read    == {c.utc : c \in checks} \ {Unknown} IN
  Read # {} =>
    /\ zone # Unknown
    /\ IF InstantsAt(zone, reading) = {}
       THEN \A t \in Read : Reading(zone, t) = reading + 1
       ELSE Read \subseteq InstantsAt(zone, reading)

Tracked(m) == \E u \in m.html : u.via # Straight

(* The import says of a row that no click will ever be seen on it exactly  *)
(* if its message carries no link the tracker follows (trackable.ts:7-16), *)
(* as long as its mailbox keeps the signature.  It errs where a value of   *)
(* the sheet is the link, where what looks like an address in the text is  *)
(* none, and where the stamp on a signature names a P.s. it does not show. *)
ReportsForeseeTracking ==
  \A c \in checks, m \in letters :
    m.id # Nobody /\ ~resigned /\ c.tracked # Tracked(m) =>
      \/ Tracked(m) /\ sheetRow.company = "url"
      \/ ~Tracked(m) /\ sheetRow.html = {}
                     /\ \/ "ellipsis" \in sheetRow.text
                        \/ "host" \in sheetRow.text /\ sheetRow.company = "empty"
      \/ ~Tracked(m) /\ signatureCallToAction(m.sign.html) # NoUrl
                     /\ "cta" \notin m.sign.html.shows

(* Every link of a message takes the reader where it would without the     *)
(* tracker, whatever was escaped on the way; the body and the P.s. are all *)
(* the tracker gets to see, of a test send nothing; and the unsubscribe    *)
(* link of both halves is the one of the one-click header                  *)
(* (message-builder.ts:122-137, 169-171; link-rewrite.ts:31-36).           *)
LinksLeadHome ==
  \A m \in letters :
    /\ {Follow(u) : u \in m.html} = {<<u.leads, 0>> : u \in PlainHtml(m.row, m.sign, m.header)}
    /\ m.header \subseteq m.text /\ {escapeHtml(u) : u \in m.header} \subseteq m.html
    /\ \A u \in m.html : u.via # Straight =>
         /\ u.via = m.id /\ m.id # Nobody
         /\ u.leads \in {b.leads : b \in BodyLinks(m.row)} \cup {psLeads}
=============================================================================
