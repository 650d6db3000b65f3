---------------------------- MODULE MessageProofs ----------------------------
(***************************************************************************)
(* Theorems about MessageBuilder, for any rows, signatures, zones and      *)
(* hours: where the links of a message lead, what the import may say of    *)
(* them beforehand, and when a row goes out.                               *)
(***************************************************************************)
EXTENDS MessageBuilder, TLAPS

-----------------------------------------------------------------------------
(* URLs *)

(* Places a URL may lead to, and a URL as it stands in a half of a         *)
(* message before the tracker sees it.                                     *)
Places == {"nowhere", "page", "company", "host", "mailto", "tel", "demo", "site",
           "unsubscribe"}
UrlRec == [leads : Places, escaped : Int, via : {Straight, "row", Nobody}, carries : Int]
PlainLinks == {Url(p, 1) : p \in Places \ {"nowhere"}}

LEMMA UrlFields ==
  ASSUME NEW p \in Places, NEW n \in Int
  PROVE  /\ Url(p, n) \in UrlRec
         /\ Url(p, n).leads = p /\ Url(p, n).escaped = n
         /\ Url(p, n).via = Straight /\ Url(p, n).carries = 0
  <1>1. NoUrl \in UrlRec
    BY DEF NoUrl, UrlRec, Places, Straight
  <1>2. NoUrl.via = Straight /\ NoUrl.carries = 0
    BY DEF NoUrl
  <1> QED BY <1>1, <1>2 DEF Url, UrlRec

LEMMA NoUrlFields ==
  /\ NoUrl \in UrlRec /\ NoUrl = Url("nowhere", 0) /\ NoUrl.leads = "nowhere"
  <1>1. NoUrl \in UrlRec /\ NoUrl.leads = "nowhere" /\ NoUrl.escaped = 0
        /\ NoUrl.via = Straight /\ NoUrl.carries = 0
    BY DEF NoUrl, UrlRec, Places, Straight
  <1>2. Url("nowhere", 0) \in UrlRec /\ Url("nowhere", 0).leads = "nowhere"
        /\ Url("nowhere", 0).escaped = 0
        /\ Url("nowhere", 0).via = Straight /\ Url("nowhere", 0).carries = 0
    BY UrlFields DEF Places
  <1> QED BY <1>1, <1>2 DEF UrlRec

(* A URL is what it says of itself.                                        *)
LEMMA SameUrl ==
  ASSUME NEW u \in UrlRec, NEW v \in UrlRec, u.leads = v.leads, u.escaped = v.escaped,
         u.via = v.via, u.carries = v.carries
  PROVE  u = v
  BY DEF UrlRec

(* Escaping and decoding an attribute are inverses where mail is built.    *)
LEMMA EscapedOnce ==
  ASSUME NEW p \in Places
  PROVE  escapeHtml(Url(p, 0)) = Url(p, 1) /\ decodeAttribute(Url(p, 1)) = Url(p, 0)
  <1>1. /\ Url(p, 0) \in UrlRec /\ Url(p, 1) \in UrlRec
        /\ Url(p, 0).leads = p /\ Url(p, 0).escaped = 0 /\ Url(p, 0).via = Straight
        /\ Url(p, 0).carries = 0
        /\ Url(p, 1).leads = p /\ Url(p, 1).escaped = 1 /\ Url(p, 1).via = Straight
        /\ Url(p, 1).carries = 0
    BY UrlFields
  <1>2. escapeHtml(Url(p, 0)) \in UrlRec
        /\ escapeHtml(Url(p, 0)).leads = p /\ escapeHtml(Url(p, 0)).escaped = 1
        /\ escapeHtml(Url(p, 0)).via = Straight /\ escapeHtml(Url(p, 0)).carries = 0
    BY <1>1 DEF escapeHtml, UrlRec
  <1>3. decodeAttribute(Url(p, 1)) \in UrlRec
        /\ decodeAttribute(Url(p, 1)).leads = p /\ decodeAttribute(Url(p, 1)).escaped = 0
        /\ decodeAttribute(Url(p, 1)).via = Straight /\ decodeAttribute(Url(p, 1)).carries = 0
    BY <1>1 DEF decodeAttribute, UrlRec
  <1> QED BY <1>1, <1>2, <1>3, SameUrl

(* A link the tracker has rewritten leads where it led.                    *)
LEMMA ClickedLinks ==
  ASSUME NEW p \in Places
  PROVE  LET v == escapeHtml(clickUrl("row", Url(p, 0))) IN
         v.leads = p /\ v.via = "row" /\ IsUrl(v) /\ Follow(v) = <<p, 0>>
  <1>1. /\ Url(p, 0) \in UrlRec
        /\ Url(p, 0).leads = p /\ Url(p, 0).escaped = 0 /\ Url(p, 0).via = Straight
        /\ Url(p, 0).carries = 0
    BY UrlFields
  <1> DEFINE c == clickUrl("row", Url(p, 0))
             v == escapeHtml(c)
             asked == [v EXCEPT !.escaped = @ - 1]
  <1>2. c \in UrlRec /\ c.leads = p /\ c.escaped = 0 /\ c.via = "row" /\ c.carries = 0
    BY <1>1 DEF clickUrl, UrlRec
  <1>3. v \in UrlRec /\ v.leads = p /\ v.escaped = 1 /\ v.via = "row" /\ v.carries = 0
    <2> HIDE DEF c
    <2> QED BY <1>2 DEF escapeHtml, UrlRec
  <1>4. asked.leads = p /\ asked.escaped = 0 /\ asked.via = "row" /\ asked.carries = 0
    <2> HIDE DEF v
    <2> QED BY <1>3 DEF UrlRec
  <1>5. Follow(v) = <<p, 0>>
    <2> HIDE DEF v
    <2> QED BY <1>4 DEF Follow, Straight
  <1> QED BY <1>3, <1>5 DEF IsUrl

LEMMA PlainLink ==
  ASSUME NEW p \in Places
  PROVE  /\ Url(p, 1).leads = p /\ Url(p, 1).via = Straight /\ IsUrl(Url(p, 1))
         /\ Follow(Url(p, 1)) = <<p, 0>>
         /\ Url(p, 0).leads = p /\ Url(p, 0).via = Straight /\ IsUrl(Url(p, 0))
  <1> DEFINE asked == [Url(p, 1) EXCEPT !.escaped = @ - 1]
  <1>1. asked.leads = p /\ asked.escaped = 0 /\ asked.via = Straight
    BY UrlFields DEF UrlRec
  <1>2. Follow(Url(p, 1)) = <<p, 0>>
    BY <1>1 DEF Follow
  <1> QED BY <1>2, UrlFields DEF IsUrl

(* Rewriting a set of links leaves each leading where it led.              *)
LEMMA RewritingLeadsHome ==
  ASSUME NEW urls \in SUBSET PlainLinks, NEW asked, NEW new,
         new = rewriteLinks(urls, [u \in asked |-> clickUrl("row", u)])
  PROVE  /\ {Follow(u) : u \in new} = {<<u.leads, 0>> : u \in urls}
         /\ \A u \in new :
              /\ IsUrl(u)
              /\ u.via # Straight =>
                   /\ u.via = "row"
                   /\ \E p \in Places : /\ Url(p, 1) \in urls /\ u.leads = p
                                        /\ IsWeb(Url(p, 0)) /\ Url(p, 0) \in asked
         /\ \A p \in Places :
              Url(p, 1) \in urls /\ IsWeb(Url(p, 0)) /\ Url(p, 0) \in asked
                => \E u \in new : u.via # Straight
  <1> DEFINE f == [u \in asked |-> clickUrl("row", u)]
             Of(a) == LET u == decodeAttribute(a) IN
                      IF IsWeb(u) /\ u \in DOMAIN f THEN escapeHtml(f[u]) ELSE a
  <1>1. new = {Of(a) : a \in urls}
    BY DEF rewriteLinks
  <1>2. ASSUME NEW a \in urls
        PROVE  \E p \in Places :
                 /\ a = Url(p, 1) /\ a.leads = p /\ Follow(Of(a)) = <<p, 0>>
                 /\ IsUrl(Of(a)) /\ Of(a).leads = p
                 /\ IF IsWeb(Url(p, 0)) /\ Url(p, 0) \in asked THEN Of(a).via = "row"
                    ELSE Of(a).via = Straight
    <2>1. PICK p \in Places : a = Url(p, 1)
      BY <1>2 DEF PlainLinks
    <2>2. decodeAttribute(a) = Url(p, 0)
      BY <2>1, EscapedOnce
    <2>3. CASE IsWeb(Url(p, 0)) /\ Url(p, 0) \in asked
      <3>1. Of(a) = escapeHtml(clickUrl("row", Url(p, 0)))
        BY <2>2, <2>3
      <3> QED BY <2>1, <2>3, <3>1, ClickedLinks, PlainLink
    <2>4. CASE ~(IsWeb(Url(p, 0)) /\ Url(p, 0) \in asked)
      <3>1. Of(a) = a
        BY <2>2, <2>4
      <3> QED BY <2>1, <2>4, <3>1, PlainLink
    <2> QED BY <2>3, <2>4
  <1> HIDE DEF Of, f
  <1>3. {Follow(u) : u \in new} = {<<u.leads, 0>> : u \in urls}
    <2>1. {Follow(u) : u \in new} = {Follow(Of(a)) : a \in urls}
      BY <1>1
    <2>2. \A a \in urls : Follow(Of(a)) = <<a.leads, 0>>
      BY <1>2
    <2> QED BY <2>1, <2>2
  <1>4. "row" # Straight
    BY DEF Straight
  <1>5. \A u \in new :
              /\ IsUrl(u)
              /\ u.via # Straight =>
                   /\ u.via = "row"
                   /\ \E p \in Places : /\ Url(p, 1) \in urls /\ u.leads = p
                                        /\ IsWeb(Url(p, 0)) /\ Url(p, 0) \in asked
    BY <1>1, <1>2, <1>4
  <1>6. \A p \in Places :
              Url(p, 1) \in urls /\ IsWeb(Url(p, 0)) /\ Url(p, 0) \in asked
                => \E u \in new : u.via # Straight
    <2> SUFFICES ASSUME NEW p \in Places, Url(p, 1) \in urls, IsWeb(Url(p, 0)), Url(p, 0) \in asked
                 PROVE  \E u \in new : u.via # Straight
      OBVIOUS
    <2>1. Of(Url(p, 1)) \in new
      BY <1>1
    <2>2. \A q \in Places : Url(p, 1) = Url(q, 1) => q = p
      BY UrlFields
    <2>3. Of(Url(p, 1)).via = "row"
      BY <1>2, <2>2
    <2> QED BY <2>1, <2>3, <1>4
  <1> QED BY <1>3, <1>5, <1>6

-----------------------------------------------------------------------------
(* What is in the halves of a message *)

(* Where the links of a body lead.                                         *)
BodyPlaces(row) ==
  IF row.html # {}
  THEN (IF "anchor" \in row.html THEN {"page"} ELSE {})
         \cup (IF "mailto" \in row.html THEN {"mailto"} ELSE {})
         \cup (IF "companyLink" \in row.html /\ row.company = "url" THEN {"company"} ELSE {})
  ELSE (IF "url" \in row.text THEN {"page"} ELSE {})
         \cup (IF "company" \in row.text /\ row.company = "url" THEN {"company"} ELSE {})
         \cup (IF "host" \in row.text /\ row.company # "empty" THEN {"host"} ELSE {})

LEMMA FilledSpots ==
  ASSUME NEW company \in Companies
  PROVE  /\ Filled("url", company) = Url("page", 0)
         /\ Filled("ellipsis", company) = NoUrl
         /\ Filled("company", company) = IF company = "url" THEN Url("company", 0) ELSE NoUrl
         /\ Filled("host", company) = IF company # "empty" THEN Url("host", 0) ELSE NoUrl
         /\ FilledHtml("anchor", company) = Url("page", 1)
         /\ FilledHtml("mailto", company) = Url("mailto", 1)
         /\ FilledHtml("companyLink", company)
              = IF company = "url" THEN Url("company", 1) ELSE NoUrl
  <1>1. escapeHtml(Url("company", 0)) = Url("company", 1)
    BY EscapedOnce DEF Places
  <1> QED BY <1>1 DEF Filled, FilledHtml, Companies

LEMMA SomeUrl ==
  ASSUME NEW p \in Places \ {"nowhere"}, NEW n \in Int
  PROVE  Url(p, n) # NoUrl
  BY UrlFields, NoUrlFields

LEMMA BodyLinksAre ==
  ASSUME NEW row \in CampaignRow
  PROVE  BodyLinks(row) = {Url(p, 1) : p \in BodyPlaces(row)}
  <1>1. row.text \subseteq TextSpots /\ row.html \subseteq HtmlSpots /\ row.company \in Companies
    BY DEF CampaignRow
  <1>2. /\ Url("page", 1) # NoUrl /\ Url("mailto", 1) # NoUrl /\ Url("company", 1) # NoUrl
        /\ Url("page", 0) # NoUrl /\ Url("host", 0) # NoUrl /\ Url("company", 0) # NoUrl
    BY SomeUrl DEF Places
  <1>3. CASE row.html # {}
    BY <1>1, <1>2, <1>3, FilledSpots DEF BodyLinks, BodyPlaces, HtmlSpots
  <1>4. CASE row.html = {}
    <2>1. /\ escapeHtml(Url("page", 0)) = Url("page", 1)
          /\ escapeHtml(Url("host", 0)) = Url("host", 1)
          /\ escapeHtml(Url("company", 0)) = Url("company", 1)
      BY EscapedOnce DEF Places
    <2>2. {Filled(s, row.company) : s \in row.text} \ {NoUrl} = {Url(p, 0) : p \in BodyPlaces(row)}
      BY <1>1, <1>2, <1>4, FilledSpots DEF BodyPlaces, TextSpots
    <2>3. BodyPlaces(row) \subseteq {"page", "company", "host"}
      BY <1>4 DEF BodyPlaces
    <2>4. BodyLinks(row) = {escapeHtml(u) : u \in {Url(p, 0) : p \in BodyPlaces(row)}}
      BY <1>4, <2>2 DEF BodyLinks, textToHtml
    <2> QED BY <2>1, <2>3, <2>4
  <1> QED BY <1>3, <1>4

CallsToAction == {"demo", "site", "mailto"}

LEMMA LeadsToAPlace ==
  ASSUME psLeads \in CallsToAction, NEW line
  PROVE  LeadsTo(line) \in {"nowhere", "page", "mailto", "tel", "demo", "site"}
  <1>1. LeadsTo(line) \in {psLeads, "site", "page", "mailto", "tel", "nowhere"}
    BY DEF LeadsTo
  <1> QED BY <1>1 DEF CallsToAction

LEMMA SignLinksAre ==
  ASSUME psLeads \in CallsToAction, NEW html
  PROVE  SignLinks(html) = {Url(p, 1) : p \in {LeadsTo(l) : l \in html.shows} \ {"nowhere"}}
  <1>1. \A l \in html.shows : LeadsTo(l) \in Places
    BY LeadsToAPlace DEF Places
  <1>2. \A p \in Places : Url(p, 1) = Url("nowhere", 1) => p = "nowhere"
    BY UrlFields DEF Places
  <1> QED BY <1>1, <1>2 DEF SignLinks

LEMMA HalvesArePlain ==
  /\ \A row \in CampaignRow : BodyLinks(row) \subseteq PlainLinks
  /\ psLeads \in CallsToAction => \A html : SignLinks(html) \subseteq PlainLinks
  <1>1. ASSUME NEW row \in CampaignRow PROVE BodyLinks(row) \subseteq PlainLinks
    <2>1. BodyPlaces(row) \subseteq Places \ {"nowhere"}
      BY DEF BodyPlaces, Places
    <2> QED BY <2>1, BodyLinksAre DEF PlainLinks
  <1>2. ASSUME psLeads \in CallsToAction, NEW html PROVE SignLinks(html) \subseteq PlainLinks
    <2>1. {LeadsTo(l) : l \in html.shows} \ {"nowhere"} \subseteq Places \ {"nowhere"}
      BY <1>2, LeadsToAPlace DEF Places
    <2> QED BY <1>2, <2>1, SignLinksAre DEF PlainLinks
  <1> QED BY <1>1, <1>2

LEMMA PlainLeadsHome ==
  ASSUME NEW urls \in SUBSET PlainLinks
  PROVE  /\ {Follow(u) : u \in urls} = {<<u.leads, 0>> : u \in urls}
         /\ \A u \in urls : IsUrl(u) /\ u.via = Straight
  <1>1. \A u \in urls : Follow(u) = <<u.leads, 0>> /\ IsUrl(u) /\ u.via = Straight
    BY PlainLink DEF PlainLinks
  <1> QED BY <1>1

(* The P.s. that is tracked, if any.                                       *)
LEMMA CallToAction ==
  ASSUME psLeads \in CallsToAction, NEW html
  PROVE  /\ signatureCallToAction(html) \in {NoUrl, Url(psLeads, 0)}
         /\ signatureCallToAction(html) # NoUrl => IsWeb(Url(psLeads, 0))
  BY DEF signatureCallToAction

(* Of a signature, the P.s. alone is rewritten, and leads where it led.    *)
LEMMA SignatureLeadsHome ==
  ASSUME psLeads \in CallsToAction, NEW html, NEW new, new = trackCallToAction(html, "row")
  PROVE  /\ {Follow(u) : u \in new} = {<<u.leads, 0>> : u \in SignLinks(html)}
         /\ \A u \in new :
              /\ IsUrl(u)
              /\ u.via # Straight => /\ u.via = "row" /\ u.leads = psLeads
                                     /\ signatureCallToAction(html) # NoUrl
         /\ signatureCallToAction(html) # NoUrl /\ "cta" \in html.shows
              => \E u \in new : u.via # Straight
  <1> DEFINE destination == signatureCallToAction(html)
             urls == SignLinks(html)
  <1>0. urls \in SUBSET PlainLinks /\ psLeads \in Places
    BY HalvesArePlain DEF CallsToAction, Places
  <1>1. CASE destination = NoUrl
    <2>1. new = urls
      BY <1>1 DEF trackCallToAction
    <2>2. /\ {Follow(u) : u \in new} = {<<u.leads, 0>> : u \in urls}
          /\ \A u \in new : IsUrl(u) /\ u.via = Straight
      BY <1>0, <2>1, PlainLeadsHome
    <2> QED BY <1>1, <2>2
  <1>2. CASE destination # NoUrl
    <2>1. destination = Url(psLeads, 0) /\ IsWeb(Url(psLeads, 0))
      BY <1>2, CallToAction
    <2>2. new = rewriteLinks(urls, [u \in {destination} |-> clickUrl("row", u)])
      BY <1>2 DEF trackCallToAction
    <2>3. \A p \in Places : Url(p, 0) \in {destination} => p = psLeads
      BY <1>0, <2>1, UrlFields
    <2>4. "cta" \in html.shows => Url(psLeads, 1) \in urls
      <3>1. LeadsTo("cta") = psLeads /\ psLeads # "nowhere"
        BY DEF LeadsTo, CallsToAction
      <3> QED BY <3>1, SignLinksAre
    <2> HIDE DEF urls, destination
    <2>5.
         /\ {Follow(u) : u \in new} = {<<u.leads, 0>> : u \in urls}
         /\ \A u \in new :
              /\ IsUrl(u)
              /\ u.via # Straight =>
                   /\ u.via = "row"
                   /\ \E p \in Places : /\ Url(p, 1) \in urls /\ u.leads = p
                                        /\ IsWeb(Url(p, 0)) /\ Url(p, 0) \in {destination}
         /\ \A p \in Places :
              Url(p, 1) \in urls /\ IsWeb(Url(p, 0)) /\ Url(p, 0) \in {destination}
                => \E u \in new : u.via # Straight
      BY <1>0, <2>2, RewritingLeadsHome
    <2>6. \A u \in new : u.via # Straight => u.via = "row" /\ u.leads = psLeads
      BY <2>3, <2>5
    <2>7. "cta" \in html.shows => \E u \in new : u.via # Straight
      BY <1>0, <2>1, <2>4, <2>5
    <2> QED BY <1>2, <2>5, <2>6, <2>7 DEF urls, destination
  <1> QED BY <1>1, <1>2

LEMMA FootersArePlain ==
  ASSUME NEW asked, NEW footer, footer = unsubscribeUrl(asked)
  PROVE  /\ footer \subseteq {Url("unsubscribe", 0)}
         /\ {escapeHtml(u) : u \in footer} \in SUBSET PlainLinks
  <1>1. footer \subseteq {Url("unsubscribe", 0)}
    BY DEF unsubscribeUrl
  <1>2. escapeHtml(Url("unsubscribe", 0)) = Url("unsubscribe", 1)
    BY EscapedOnce DEF Places
  <1>3. Url("unsubscribe", 1) \in PlainLinks
    BY DEF PlainLinks, Places
  <1> QED BY <1>1, <1>2, <1>3

(* A letter leads its reader home, whatever row, signature and footer it   *)
(* is built from.                                                          *)
LEMMA LetterLeadsHome ==
  ASSUME psLeads \in CallsToAction, NEW row \in CampaignRow, NEW sign, NEW asked,
         NEW id \in {"row", Nobody}, NEW m, m = build(row, sign, asked, id)
  PROVE  /\ {Follow(u) : u \in m.html} = {<<u.leads, 0>> : u \in PlainHtml(m.row, m.sign, m.header)}
         /\ m.header \subseteq m.text /\ {escapeHtml(u) : u \in m.header} \subseteq m.html
         /\ \A u \in m.html : u.via # Straight =>
              /\ u.via = m.id /\ m.id # Nobody
              /\ u.leads \in {b.leads : b \in BodyLinks(m.row)} \cup {psLeads}
         /\ \A u \in m.html \cup m.text \cup m.header : IsUrl(u)
  <1> DEFINE footer == unsubscribeUrl(asked)
             body == BodyLinks(row)
             signature == SignLinks(sign.html)
             foot == {escapeHtml(u) : u \in footer}
  <1>1. /\ m.row = row /\ m.sign = sign /\ m.id = id /\ m.header = footer
        /\ m.text = buildText(row, sign, footer)
        /\ m.html = IF id = Nobody THEN PlainHtml(row, sign, footer)
                    ELSE TrackedHtml(row, sign, id, footer)
    BY DEF build
  <1>2. body \in SUBSET PlainLinks /\ signature \in SUBSET PlainLinks
    BY HalvesArePlain
  <1>3. footer \subseteq {Url("unsubscribe", 0)} /\ foot \in SUBSET PlainLinks
    BY FootersArePlain
  <1>4. PlainHtml(row, sign, footer) = body \cup signature \cup foot
    BY DEF PlainHtml
  <1>5. IsUrl(Url("unsubscribe", 0)) /\ Url("unsubscribe", 0) # NoUrl
        /\ Url("unsubscribe", 0) # Url("nowhere", 0)
    BY PlainLink, SomeUrl, NoUrlFields DEF Places
  <1>6. footer \subseteq m.text
    BY <1>1, <1>3, <1>5 DEF buildText
  <1>7. \A u \in m.text : IsUrl(u)
    <2>1. \A l : IsUrl(Url(LeadsTo(l), 0))
      <3>1. \A l : LeadsTo(l) \in Places
        BY LeadsToAPlace DEF Places
      <3> QED BY <3>1, PlainLink
    <2>2. \A s \in TextSpots : Filled(s, row.company) # NoUrl => IsUrl(Filled(s, row.company))
      <3>1. row.company \in Companies
        BY DEF CampaignRow
      <3>2. IsUrl(Url("page", 0)) /\ IsUrl(Url("company", 0)) /\ IsUrl(Url("host", 0))
        BY PlainLink DEF Places
      <3> QED BY <3>1, <3>2, FilledSpots DEF TextSpots
    <2>3. row.text \subseteq TextSpots
      BY DEF CampaignRow
    <2> QED BY <1>1, <1>3, <1>5, <2>1, <2>2, <2>3 DEF buildText
  <1>8. /\ {Follow(u) : u \in foot} = {<<u.leads, 0>> : u \in foot}
        /\ \A u \in foot : IsUrl(u) /\ u.via = Straight
    BY <1>3, PlainLeadsHome
  <1>9. CASE id = Nobody
    <2>1. m.html = body \cup signature \cup foot
      BY <1>1, <1>4, <1>9
    <2>2. m.html \in SUBSET PlainLinks
      BY <1>2, <1>3, <2>1
    <2> HIDE DEF body, signature, foot, footer
    <2>3. /\ {Follow(u) : u \in m.html} = {<<u.leads, 0>> : u \in m.html}
          /\ \A u \in m.html : IsUrl(u) /\ u.via = Straight
      BY <2>2, PlainLeadsHome
    <2>4. foot = {escapeHtml(u) : u \in footer}
      BY DEF foot
    <2>5. \A u \in m.header : IsUrl(u)
      BY <1>1, <1>3, <1>5
    <2> QED BY <1>1, <1>4, <1>6, <1>7, <2>1, <2>3, <2>4, <2>5
  <1>10. CASE id = "row"
    <2> DEFINE new == rewriteLinks(body, [u \in {decodeAttribute(a) : a \in body}
                                            |-> clickUrl("row", u)])
               ps == trackCallToAction(sign.html, "row")
    <2>0. id # Nobody
      BY <1>10 DEF Nobody
    <2>1. m.html = new \cup ps \cup foot
      BY <1>1, <1>10, <2>0 DEF TrackedHtml
    <2>2. /\ {Follow(u) : u \in new} = {<<u.leads, 0>> : u \in body}
          /\ \A u \in new : /\ IsUrl(u)
                            /\ u.via # Straight =>
                                 /\ u.via = "row"
                                 /\ \E p \in Places : Url(p, 1) \in body /\ u.leads = p
      <3> DEFINE asks == {decodeAttribute(a) : a \in body}
      <3>1. new = rewriteLinks(body, [u \in asks |-> clickUrl("row", u)])
        OBVIOUS
      <3> HIDE DEF new, asks, body
      <3>2.
             /\ {Follow(u) : u \in new} = {<<u.leads, 0>> : u \in body}
             /\ \A u \in new :
                  /\ IsUrl(u)
                  /\ u.via # Straight =>
                       /\ u.via = "row"
                       /\ \E p \in Places : /\ Url(p, 1) \in body /\ u.leads = p
                                            /\ IsWeb(Url(p, 0)) /\ Url(p, 0) \in asks
             /\ \A p \in Places :
                  Url(p, 1) \in body /\ IsWeb(Url(p, 0)) /\ Url(p, 0) \in asks
                    => \E u \in new : u.via # Straight
        BY <1>2, <3>1, RewritingLeadsHome
      <3> QED BY <3>2
    <2>3. /\ {Follow(u) : u \in ps} = {<<u.leads, 0>> : u \in signature}
          /\ \A u \in ps : IsUrl(u) /\ (u.via # Straight => u.via = "row" /\ u.leads = psLeads)
      BY SignatureLeadsHome
    <2>4. \A p \in Places : Url(p, 1).leads = p
      BY PlainLink
    <2>5. foot = {escapeHtml(u) : u \in footer}
      OBVIOUS
    <2>6. \A u \in m.header : IsUrl(u)
      BY <1>1, <1>3, <1>5
    <2> HIDE DEF new, ps, body, signature, foot, footer
    <2>7. {Follow(u) : u \in m.html} = {<<u.leads, 0>> : u \in body \cup signature \cup foot}
      <3>1. {Follow(u) : u \in m.html} = {Follow(u) : u \in new} \cup {Follow(u) : u \in ps}
                                           \cup {Follow(u) : u \in foot}
        BY <2>1
      <3>2. {<<u.leads, 0>> : u \in body \cup signature \cup foot}
              = {<<u.leads, 0>> : u \in body} \cup {<<u.leads, 0>> : u \in signature}
                  \cup {<<u.leads, 0>> : u \in foot}
        OBVIOUS
      <3> QED BY <1>8, <2>2, <2>3, <3>1, <3>2
    <2>8. \A u \in m.html :
            /\ IsUrl(u)
            /\ u.via # Straight => /\ u.via = "row"
                                   /\ u.leads \in {b.leads : b \in body} \cup {psLeads}
      BY <1>8, <2>1, <2>2, <2>3, <2>4
    <2>9. body = BodyLinks(m.row)
      BY <1>1 DEF body
    <2>11. {escapeHtml(u) : u \in m.header} \subseteq m.html
      BY <1>1, <2>1, <2>5
    <2>12. \A u \in m.html \cup m.text \cup m.header : IsUrl(u)
      BY <1>7, <2>6, <2>8
    <2> QED BY <1>1, <1>4, <1>6, <1>10, <2>0, <2>7, <2>8, <2>9, <2>11, <2>12
  <1> QED BY <1>9, <1>10

(* What the import foretells of a row, it foretells of the letter built    *)
(* from the same row and signature, but for the three cases named.         *)
LEMMA RowsForeseeLetters ==
  ASSUME psLeads \in CallsToAction, NEW row \in CampaignRow, NEW sign, NEW m,
         m = build(row, sign, TRUE, "row"),
         hasTrackableLink(row, sign.html) # Tracked(m)
  PROVE  \/ Tracked(m) /\ row.company = "url"
         \/ ~Tracked(m) /\ row.html = {}
                        /\ \/ "ellipsis" \in row.text
                           \/ "host" \in row.text /\ row.company = "empty"
         \/ ~Tracked(m) /\ signatureCallToAction(m.sign.html) # NoUrl
                        /\ "cta" \notin m.sign.html.shows
  <1> DEFINE body == BodyLinks(row)
             asked == {decodeAttribute(a) : a \in body}
             new == rewriteLinks(body, [u \in asked |-> clickUrl("row", u)])
             ps == trackCallToAction(sign.html, "row")
             foot == {escapeHtml(u) : u \in unsubscribeUrl(TRUE)}
  <1>0. "row" # Nobody
    BY DEF Nobody
  <1>1. m.sign = sign /\ m.html = new \cup ps \cup foot
    BY <1>0 DEF build, TrackedHtml
  <1>2. body \in SUBSET PlainLinks
    BY HalvesArePlain
  <1>3. \A u \in foot : u.via = Straight
    <2>1. foot \in SUBSET PlainLinks
      BY FootersArePlain
    <2> HIDE DEF foot
    <2> QED BY <2>1, PlainLeadsHome
  <1>4. \A p \in Places : Url(p, 1) \in body <=> p \in BodyPlaces(row)
    <2>1. \A p, q \in Places : Url(p, 1) = Url(q, 1) => p = q
      BY UrlFields
    <2>2. BodyPlaces(row) \subseteq Places
      BY DEF BodyPlaces, Places
    <2>3. body = {Url(p, 1) : p \in BodyPlaces(row)}
      BY BodyLinksAre
    <2> HIDE DEF body
    <2> QED BY <2>1, <2>2, <2>3
  <1>5. \A p \in Places : p \in BodyPlaces(row) => Url(p, 0) \in asked
    <2> HIDE DEF body
    <2> QED BY <1>4, EscapedOnce
  <1>6. /\ \A u \in new : u.via # Straight =>
             \E p \in Places : Url(p, 1) \in body /\ IsWeb(Url(p, 0))
        /\ \A p \in Places :
             Url(p, 1) \in body /\ IsWeb(Url(p, 0)) /\ Url(p, 0) \in asked
               => \E u \in new : u.via # Straight
    <2>1. new = rewriteLinks(body, [u \in asked |-> clickUrl("row", u)])
      OBVIOUS
    <2> HIDE DEF new, asked, body
    <2>2.
             /\ {Follow(u) : u \in new} = {<<u.leads, 0>> : u \in body}
             /\ \A u \in new :
                  /\ IsUrl(u)
                  /\ u.via # Straight =>
                       /\ u.via = "row"
                       /\ \E p \in Places : /\ Url(p, 1) \in body /\ u.leads = p
                                            /\ IsWeb(Url(p, 0)) /\ Url(p, 0) \in asked
             /\ \A p \in Places :
                  Url(p, 1) \in body /\ IsWeb(Url(p, 0)) /\ Url(p, 0) \in asked
                    => \E u \in new : u.via # Straight
      BY <1>2, <2>1, RewritingLeadsHome
    <2> QED BY <2>2
  <1>7. (\E u \in new : u.via # Straight) <=> \E p \in BodyPlaces(row) : IsWeb(Url(p, 0))
    <2>1. BodyPlaces(row) \subseteq Places
      BY DEF BodyPlaces, Places
    <2> HIDE DEF new, asked, body
    <2> QED BY <1>4, <1>5, <1>6, <2>1
  <1>8. /\ \A u \in ps : u.via # Straight => signatureCallToAction(sign.html) # NoUrl
        /\ signatureCallToAction(sign.html) # NoUrl /\ "cta" \in sign.html.shows
             => \E u \in ps : u.via # Straight
    BY SignatureLeadsHome
  <1> DEFINE web == \E p \in BodyPlaces(row) : IsWeb(Url(p, 0))
             call == signatureCallToAction(sign.html) # NoUrl
  <1>9. Tracked(m) <=> web \/ \E u \in ps : u.via # Straight
    <2> HIDE DEF new, ps, foot
    <2> QED BY <1>1, <1>3, <1>7 DEF Tracked
  <1>10. /\ IsWeb(Url("page", 0)) /\ IsWeb(Url("company", 0)) /\ IsWeb(Url("host", 0))
         /\ ~IsWeb(Url("mailto", 0))
    BY PlainLink DEF IsWeb, Places
  <1>11. row.text \subseteq TextSpots /\ row.html \subseteq HtmlSpots
    BY DEF CampaignRow
  <1>12. web /\ ~(row.html # {} /\ "anchor" \in row.html)
             /\ ~(row.html = {} /\ row.text \cap {"url", "ellipsis", "host"} # {})
           => row.company = "url"
    BY <1>10, <1>11 DEF BodyPlaces
  <1>13. ~web => /\ ~(row.html # {} /\ "anchor" \in row.html)
                 /\ row.html = {} /\ row.text \cap {"url", "ellipsis", "host"} # {}
                      => \/ "ellipsis" \in row.text
                         \/ "host" \in row.text /\ row.company = "empty"
    BY <1>10, <1>11 DEF BodyPlaces
  <1>14. hasTrackableLink(row, sign.html) <=>
           \/ row.html # {} /\ "anchor" \in row.html
           \/ row.html = {} /\ row.text \cap {"url", "ellipsis", "host"} # {}
           \/ call
    BY DEF hasTrackableLink
  <1> HIDE DEF web, ps
  <1>15. CASE hasTrackableLink(row, sign.html) /\ ~Tracked(m)
    BY <1>1, <1>8, <1>9, <1>13, <1>14, <1>15 DEF call
  <1>16. CASE ~hasTrackableLink(row, sign.html) /\ Tracked(m)
    BY <1>1, <1>8, <1>9, <1>12, <1>14, <1>16 DEF call
  <1>17. hasTrackableLink(row, sign.html) \in BOOLEAN /\ Tracked(m) \in BOOLEAN
    BY DEF hasTrackableLink, Tracked
  <1> QED BY <1>15, <1>16, <1>17

-----------------------------------------------------------------------------
(* The schedule *)

(* The instant a row is scheduled for, from either offset of its zone:     *)
(* one that shows the reading, or the next hour when none does.            *)
LEMMA ReadInTheZone ==
  ASSUME NEW z \in Timezone, NEW r \in Int, NEW at \in Int, NEW t,
         t = InstantOf(z, r, OffsetAt(z, at))
  PROVE  /\ t \in Int
         /\ IF InstantsAt(z, r) = {} THEN Reading(z, t) = r + 1 ELSE t \in InstantsAt(z, r)
  <1> DEFINE a == z.ahead
             b == z.by
             c == z.change
             g == OffsetAt(z, at)
             early == r - a
             late == r - a - b
  <1>1. a \in Int /\ c \in Int /\ b \in {-1, 0, 1}
    BY DEF Timezone
  <1>2. \A x \in Int : OffsetAt(z, x) = IF x < c THEN a ELSE a + b
    BY <1>1 DEF OffsetAt
  <1>3. g \in {a, a + b}
    BY <1>1, <1>2
  <1>4. /\ early \in Int /\ late \in Int
        /\ Reading(z, early) = r <=> early < c \/ b = 0
        /\ Reading(z, late) = r <=> ~(late < c) \/ b = 0
    BY <1>1, <1>2 DEF Reading
  <1>5. InstantsAt(z, r) = {x \in {early, late} : Reading(z, x) = r}
    BY DEF InstantsAt
  <1>6. t = LET first == r - g
                offset == OffsetAt(z, first)
                second == r - offset
                again == OffsetAt(z, second)
            IN  IF offset = g THEN first
                ELSE IF again = offset THEN second
                ELSE r - Least(offset, again)
    BY DEF InstantOf
  <1> HIDE DEF g
  <1>7. /\ t \in {early, late}
        /\ \/ Reading(z, t) = r
           \/ /\ ~(early < c) /\ late < c /\ Reading(z, t) = r + 1
    BY <1>1, <1>2, <1>3, <1>6 DEF Least, Reading
  <1>8. CASE Reading(z, t) = r
    BY <1>4, <1>5, <1>7, <1>8
  <1>9. CASE Reading(z, t) # r
    <2>1. InstantsAt(z, r) = {}
      BY <1>1, <1>4, <1>5, <1>7, <1>9
    <2> QED BY <1>4, <1>7, <1>9, <2>1
  <1> QED BY <1>8, <1>9

(* The zone a cell is read in is a zone, and the one its author meant.     *)
LEMMA ZonesAreMeant ==
  ASSUME NEW row \in CampaignRows
  PROVE  /\ EffectiveZone(row.cell, FallbackZone(row)) = ZoneMeant(row)
         /\ ZoneMeant(row) # Unknown => ZoneMeant(row) \in Timezone
         /\ row.cell.reading \in Int \cup {Unknown}
  <1>1. row \in CampaignRow
    BY MessageAssumption
  <1>2. row.cell \in Cell /\ row.default \in Timezone \cup {Bare}
    BY <1>1 DEF CampaignRow
  <1>3. /\ row.cell.token \in DOMAIN ZoneNames \cup {Bare, Unknown}
        /\ row.cell.reading \in Int \cup {Unknown}
    BY <1>2 DEF Cell
  <1>4. FallbackZone(row) \in Timezone
    BY <1>2, MessageAssumption DEF FallbackZone
  <1>5. row.cell.token # Bare => splitZone(row.cell) \in Timezone \cup {Unknown}
    BY <1>3, MessageAssumption DEF splitZone, ZoneNamed
  <1>6. Bare \notin Timezone /\ Unknown \notin Timezone /\ Bare # Unknown
    BY MessageAssumption
  <1>7. row.cell.token = Bare => splitZone(row.cell) = Bare
    BY DEF splitZone
  <1> QED BY <1>3, <1>4, <1>5, <1>6, <1>7 DEF EffectiveZone, ZoneMeant

LEMMA SchedulesOf ==
  ASSUME NEW row \in CampaignRows, NEW at \in Int, NEW utc,
         utc = parseSchedule(row.cell, FallbackZone(row), at)
  PROVE  /\ utc \in Int \cup {Unknown}
         /\ utc # Unknown =>
              /\ ZoneMeant(row) # Unknown
              /\ IF InstantsAt(ZoneMeant(row), row.cell.reading) = {}
                 THEN Reading(ZoneMeant(row), utc) = row.cell.reading + 1
                 ELSE utc \in InstantsAt(ZoneMeant(row), row.cell.reading)
  <1> DEFINE zone == ZoneMeant(row)
             reading == row.cell.reading
  <1>1. EffectiveZone(row.cell, FallbackZone(row)) = zone
        /\ (zone # Unknown => zone \in Timezone) /\ reading \in Int \cup {Unknown}
    BY ZonesAreMeant
  <1>2. utc = IF zone = Unknown \/ reading = Unknown THEN Unknown
              ELSE InstantOf(zone, reading, OffsetAt(zone, at))
    BY <1>1 DEF parseSchedule
  <1> HIDE DEF zone, reading
  <1>3. CASE zone = Unknown \/ reading = Unknown
    BY <1>2, <1>3
  <1>4. CASE zone # Unknown /\ reading # Unknown
    <2>1. utc = InstantOf(zone, reading, OffsetAt(zone, at))
      BY <1>2, <1>4
    <2>2. zone \in Timezone /\ reading \in Int
      BY <1>1, <1>4
    <2>3. /\ utc \in Int
          /\ IF InstantsAt(zone, reading) = {} THEN Reading(zone, utc) = reading + 1
             ELSE utc \in InstantsAt(zone, reading)
      BY <2>1, <2>2, ReadInTheZone
    <2> QED BY <1>4, <2>3 DEF zone, reading
  <1> QED BY <1>3, <1>4

-----------------------------------------------------------------------------
(* The way of a row to its message *)

TestRow == [sheetRow EXCEPT !.html = {}, !.company = "empty"]

(* What an import said is what it says of the row at that hour; and what   *)
(* it foretold it still foretells, as long as the signature is the same.   *)
ChecksReadTheRow ==
  \A c \in checks :
    /\ c.at \in Hours
    /\ c.utc = parseSchedule(sheetRow.cell, FallbackZone(sheetRow), c.at)
    /\ ~resigned => c.tracked = hasTrackableLink(sheetRow, signOff.html)

(* A letter is built from the row, or the operator's text, and from the    *)
(* signature the mailbox still has unless it changed after an import.      *)
LettersCarryTheRow ==
  \A m \in letters : \E sign \in SignOffs :
    \/ m = build(TestRow, sign, FALSE, Nobody)
    \/ /\ m = build(sheetRow, sign, TRUE, "row")
       /\ checks # {} /\ (resigned \/ sign = signOff)

MessageInv ==
  /\ sheetRow \in CampaignRows /\ signOff \in SignOffs /\ clock \in Hours
  /\ psLeads \in CallsToAction /\ resigned \in BOOLEAN
  /\ ChecksReadTheRow /\ LettersCarryTheRow

(* What is built, and foretold, of a row depends on where the P.s. leads   *)
(* and on nothing else that may change.                                    *)
LEMMA BuildsAreStable ==
  ASSUME psLeads' = psLeads
  PROVE  /\ \A row, sign, asked, id : build(row, sign, asked, id)' = build(row, sign, asked, id)
         /\ \A row, html : hasTrackableLink(row, html)' = hasTrackableLink(row, html)
  <1>1. \A l : LeadsTo(l)' = LeadsTo(l)
    BY DEF LeadsTo
  <1>2. \A html : SignLinks(html)' = SignLinks(html)
    BY <1>1 DEF SignLinks
  <1>3. \A html : signatureCallToAction(html)' = signatureCallToAction(html)
    BY DEF signatureCallToAction
  <1>4. \A html, id : trackCallToAction(html, id)' = trackCallToAction(html, id)
    BY <1>2, <1>3 DEF trackCallToAction
  <1>5. \A row, sign, id, footer : TrackedHtml(row, sign, id, footer)' = TrackedHtml(row, sign, id, footer)
    BY <1>4 DEF TrackedHtml
  <1>6. \A row, sign, footer : PlainHtml(row, sign, footer)' = PlainHtml(row, sign, footer)
    BY <1>2 DEF PlainHtml
  <1>7. \A row, sign, footer : buildText(row, sign, footer)' = buildText(row, sign, footer)
    BY <1>1 DEF buildText
  <1>8. \A row, sign, asked, id : build(row, sign, asked, id)' = build(row, sign, asked, id)
    BY <1>5, <1>6, <1>7 DEF build
  <1>9. \A row, html : hasTrackableLink(row, html)' = hasTrackableLink(row, html)
    BY <1>3 DEF hasTrackableLink
  <1> QED BY <1>8, <1>9

LEMMA MessageInitial == MessageInit => MessageInv
  <1> SUFFICES ASSUME MessageInit PROVE MessageInv
    OBVIOUS
  <1>1. checks = {} /\ letters = {}
    BY DEF MessageInit
  <1>2. ChecksReadTheRow /\ LettersCarryTheRow
    BY <1>1 DEF ChecksReadTheRow, LettersCarryTheRow
  <1> QED BY <1>2 DEF MessageInit, MessageInv, CallsToAction

LEMMA ChecksStay ==
  ASSUME ChecksReadTheRow, UNCHANGED <<sheetRow, psLeads, checks>>,
         checks = {} \/ resigned' \/ UNCHANGED <<signOff, resigned>>
  PROVE  ChecksReadTheRow'
  <1>1. \A row, html : hasTrackableLink(row, html)' = hasTrackableLink(row, html)
    BY BuildsAreStable
  <1>2. hasTrackableLink(sheetRow, signOff.html)' = hasTrackableLink(sheetRow', signOff'.html)
    BY <1>1
  <1> QED BY <1>2 DEF ChecksReadTheRow

LEMMA LettersStay ==
  ASSUME LettersCarryTheRow, UNCHANGED <<sheetRow, psLeads, letters>>, checks \subseteq checks',
         checks = {} \/ resigned' \/ UNCHANGED <<signOff, resigned>>
  PROVE  LettersCarryTheRow'
  <1>1. \A row, sign, asked, id : build(row, sign, asked, id)' = build(row, sign, asked, id)
    BY BuildsAreStable
  <1>2. TestRow' = TestRow
    BY DEF TestRow
  <1>3. ASSUME NEW sign
        PROVE  /\ build(TestRow, sign, FALSE, Nobody)' = build(TestRow, sign, FALSE, Nobody)
               /\ build(sheetRow, sign, TRUE, "row")' = build(sheetRow, sign, TRUE, "row")
    BY <1>1, <1>2
  <1> SUFFICES ASSUME NEW n \in letters'
               PROVE  \E sign \in SignOffs :
                        \/ n = build(TestRow, sign, FALSE, Nobody)'
                        \/ /\ n = build(sheetRow, sign, TRUE, "row")'
                           /\ checks' # {} /\ (resigned' \/ sign = signOff')
    BY DEF LettersCarryTheRow
  <1>5. PICK sign \in SignOffs : \/ n = build(TestRow, sign, FALSE, Nobody)
                                 \/ /\ n = build(sheetRow, sign, TRUE, "row")
                                    /\ checks # {} /\ (resigned \/ sign = signOff)
    BY DEF LettersCarryTheRow
  <1>6. checks # {} => checks' # {} /\ (resigned' \/ UNCHANGED <<signOff, resigned>>)
    OBVIOUS
  <1>7. CASE n = build(TestRow, sign, FALSE, Nobody)
    BY <1>3, <1>7
  <1>8. CASE n = build(sheetRow, sign, TRUE, "row") /\ checks # {} /\ (resigned \/ sign = signOff)
    <2>1. checks' # {} /\ (resigned' \/ sign = signOff')
      BY <1>6, <1>8, Zenon
    <2>2. n = build(sheetRow, sign, TRUE, "row")'
      BY <1>3, <1>8
    <2> QED BY <2>1, <2>2
  <1> QED BY <1>5, <1>7, <1>8

LEMMA NewLetter ==
  ASSUME LettersCarryTheRow, signOff \in SignOffs, NEW m, letters' = letters \cup {m},
         UNCHANGED <<sheetRow, psLeads, checks, signOff, resigned>>,
         \/ m = build(TestRow, signOff, FALSE, Nobody)
         \/ m = build(sheetRow, signOff, TRUE, "row") /\ checks # {}
  PROVE  LettersCarryTheRow'
  <1>1. \A row, sign, asked, id : build(row, sign, asked, id)' = build(row, sign, asked, id)
    BY BuildsAreStable
  <1>2. TestRow' = TestRow
    BY DEF TestRow
  <1>3. ASSUME NEW sign
        PROVE  /\ build(TestRow, sign, FALSE, Nobody)' = build(TestRow, sign, FALSE, Nobody)
               /\ build(sheetRow, sign, TRUE, "row")' = build(sheetRow, sign, TRUE, "row")
    BY <1>1, <1>2
  <1>4. \A n \in letters' : \E sign \in SignOffs :
          \/ n = build(TestRow, sign, FALSE, Nobody)
          \/ /\ n = build(sheetRow, sign, TRUE, "row")
             /\ checks # {} /\ (resigned \/ sign = signOff)
    <2>1. \E sign \in SignOffs :
            \/ m = build(TestRow, sign, FALSE, Nobody)
            \/ /\ m = build(sheetRow, sign, TRUE, "row")
               /\ checks # {} /\ (resigned \/ sign = signOff)
      OBVIOUS
    <2> QED BY <2>1 DEF LettersCarryTheRow
  <1> SUFFICES ASSUME NEW n \in letters'
               PROVE  \E sign \in SignOffs :
                        \/ n = build(TestRow, sign, FALSE, Nobody)'
                        \/ /\ n = build(sheetRow, sign, TRUE, "row")'
                           /\ checks' # {} /\ (resigned' \/ sign = signOff')
    BY DEF LettersCarryTheRow
  <1>5. PICK sign \in SignOffs : \/ n = build(TestRow, sign, FALSE, Nobody)
                                 \/ /\ n = build(sheetRow, sign, TRUE, "row")
                                    /\ checks # {} /\ (resigned \/ sign = signOff)
    BY <1>4
  <1> QED BY <1>3, <1>5

LEMMA MessageInvKept ==
  ASSUME MessageInv, [MessageNext]_mailVars
  PROVE  MessageInv'
  <1>1. /\ sheetRow \in CampaignRows /\ signOff \in SignOffs /\ clock \in Hours
        /\ psLeads \in CallsToAction /\ resigned \in BOOLEAN
        /\ ChecksReadTheRow /\ LettersCarryTheRow
    BY DEF MessageInv
  <1>2. sheetRow' = sheetRow /\ psLeads' = psLeads
    BY DEF MessageNext, ReadRow, TimePasses, Resign, SendLetter, SendTest, mailVars
  <1>3. CASE ReadRow
    <2>1. /\ UNCHANGED <<sheetRow, psLeads, clock, signOff, resigned, letters>>
          /\ checks' = checks \cup
               {[at |-> clock,
                 utc |-> parseSchedule(sheetRow.cell, FallbackZone(sheetRow), clock),
                 tracked |-> hasTrackableLink(sheetRow, signOff.html)]}
      BY <1>3 DEF ReadRow
    <2>2. \A row, html : hasTrackableLink(row, html)' = hasTrackableLink(row, html)
      BY <1>2, BuildsAreStable
    <2>3. hasTrackableLink(sheetRow, signOff.html)' = hasTrackableLink(sheetRow, signOff.html)
      BY <2>1, <2>2
    <2>4. ChecksReadTheRow'
      BY <1>1, <2>1, <2>3 DEF ChecksReadTheRow
    <2>5. LettersCarryTheRow'
      BY <1>1, <2>1, LettersStay
    <2> QED BY <1>1, <2>1, <2>4, <2>5 DEF MessageInv
  <1>4. CASE TimePasses
    <2>1. clock' \in Hours /\ UNCHANGED <<sheetRow, psLeads, checks, signOff, resigned, letters>>
      BY <1>4 DEF TimePasses
    <2> QED BY <1>1, <2>1, ChecksStay, LettersStay DEF MessageInv
  <1>5. CASE Resign
    <2>1. /\ signOff' \in SignOffs /\ resigned' = (resigned \/ checks # {})
          /\ UNCHANGED <<sheetRow, psLeads, clock, checks, letters>>
      BY <1>5 DEF Resign
    <2>2. (checks = {} \/ resigned') /\ resigned' \in BOOLEAN
      BY <1>1, <2>1
    <2> QED BY <1>1, <2>1, <2>2, ChecksStay, LettersStay DEF MessageInv
  <1>6. CASE SendLetter
    <2>1. /\ letters' = letters \cup {build(sheetRow, signOff, TRUE, "row")} /\ checks # {}
          /\ UNCHANGED <<sheetRow, psLeads, clock, checks, signOff, resigned>>
      BY <1>6 DEF SendLetter, ImportedRow
    <2>2. ChecksReadTheRow'
      BY <1>1, <2>1, ChecksStay
    <2>3. LettersCarryTheRow'
      BY <1>1, <2>1, NewLetter
    <2> QED BY <1>1, <2>1, <2>2, <2>3 DEF MessageInv
  <1>7. CASE SendTest
    <2>1. /\ letters' = letters \cup {build(TestRow, signOff, FALSE, Nobody)}
          /\ UNCHANGED <<sheetRow, psLeads, clock, checks, signOff, resigned>>
      BY <1>7 DEF SendTest, TestRow
    <2>2. ChecksReadTheRow'
      BY <1>1, <2>1, ChecksStay
    <2>3. LettersCarryTheRow'
      BY <1>1, <2>1, NewLetter
    <2> QED BY <1>1, <2>1, <2>2, <2>3 DEF MessageInv
  <1>8. CASE UNCHANGED mailVars
    <2>1. UNCHANGED <<sheetRow, psLeads, clock, checks, signOff, resigned, letters>>
      BY <1>8 DEF mailVars
    <2> QED BY <1>1, <2>1, ChecksStay, LettersStay DEF MessageInv
  <1> QED BY <1>3, <1>4, <1>5, <1>6, <1>7, <1>8 DEF MessageNext

LEMMA MessageInvariant == MessageSpec => []MessageInv
  <1> QED BY MessageInitial, MessageInvKept, PTL DEF MessageSpec

-----------------------------------------------------------------------------

LEMMA LettersAreWhole ==
  ASSUME MessageInv, NEW m \in letters
  PROVE  /\ {Follow(u) : u \in m.html} = {<<u.leads, 0>> : u \in PlainHtml(m.row, m.sign, m.header)}
         /\ m.header \subseteq m.text /\ {escapeHtml(u) : u \in m.header} \subseteq m.html
         /\ \A u \in m.html : u.via # Straight =>
              /\ u.via = m.id /\ m.id # Nobody
              /\ u.leads \in {b.leads : b \in BodyLinks(m.row)} \cup {psLeads}
         /\ \A u \in m.html \cup m.text \cup m.header : IsUrl(u)
  <1>1. psLeads \in CallsToAction /\ sheetRow \in CampaignRow
    BY MessageAssumption DEF MessageInv
  <1>2. TestRow \in CampaignRow
    BY <1>1 DEF TestRow, CampaignRow, Companies
  <1>3. PICK sign \in SignOffs : \/ m = build(TestRow, sign, FALSE, Nobody)
                                 \/ m = build(sheetRow, sign, TRUE, "row")
    BY DEF MessageInv, LettersCarryTheRow
  <1>4. CASE m = build(TestRow, sign, FALSE, Nobody)
    BY <1>1, <1>2, <1>4, LetterLeadsHome
  <1>5. CASE m = build(sheetRow, sign, TRUE, "row")
    BY <1>1, <1>5, LetterLeadsHome
  <1> QED BY <1>3, <1>4, <1>5

(* Wherever the tracker, the placeholders and the escaping meet, a link of *)
(* a message takes its reader to where it led without them                 *)
(* (message-builder.ts:122-137, 169-171; link-rewrite.ts:31-36).           *)
THEOREM LinksAreKept == MessageSpec => []LinksLeadHome
  <1>1. MessageInv => LinksLeadHome
    <2> SUFFICES ASSUME MessageInv, NEW m \in letters
                 PROVE  /\ {Follow(u) : u \in m.html}
                             = {<<u.leads, 0>> : u \in PlainHtml(m.row, m.sign, m.header)}
                        /\ m.header \subseteq m.text
                        /\ {escapeHtml(u) : u \in m.header} \subseteq m.html
                        /\ \A u \in m.html : u.via # Straight =>
                             /\ u.via = m.id /\ m.id # Nobody
                             /\ u.leads \in {b.leads : b \in BodyLinks(m.row)} \cup {psLeads}
      BY DEF LinksLeadHome
    <2> QED BY LettersAreWhole
  <1> QED BY <1>1, MessageInvariant, PTL

(* The dry run's word on whether a row's clicks can be seen is kept by the *)
(* message sent for it, but in the three cases named                       *)
(* (trackable.ts:7-16; link-rewrite.ts:31-36).                             *)
THEOREM ReportsComeTrue == MessageSpec => []ReportsForeseeTracking
  <1>1. ASSUME MessageInv PROVE ReportsForeseeTracking
    <2> SUFFICES ASSUME NEW c \in checks, NEW m \in letters,
                        m.id # Nobody, ~resigned, c.tracked # Tracked(m)
                 PROVE  \/ Tracked(m) /\ sheetRow.company = "url"
                        \/ ~Tracked(m) /\ sheetRow.html = {}
                           /\ \/ "ellipsis" \in sheetRow.text
                              \/ "host" \in sheetRow.text /\ sheetRow.company = "empty"
                        \/ ~Tracked(m) /\ signatureCallToAction(m.sign.html) # NoUrl
                           /\ "cta" \notin m.sign.html.shows
      BY DEF ReportsForeseeTracking
    <2>1. psLeads \in CallsToAction /\ sheetRow \in CampaignRow
      BY <1>1, MessageAssumption DEF MessageInv
    <2>2. c.tracked = hasTrackableLink(sheetRow, signOff.html)
      BY <1>1 DEF MessageInv, ChecksReadTheRow
    <2>3. \A sign : build(TestRow, sign, FALSE, Nobody).id = Nobody
      BY DEF build
    <2>4. m = build(sheetRow, signOff, TRUE, "row")
      BY <1>1, <2>3 DEF MessageInv, LettersCarryTheRow
    <2> QED BY <2>1, <2>2, <2>4, RowsForeseeLetters
  <1> QED BY <1>1, MessageInvariant, PTL

(* Whatever zone a sheet names, or leaves to the import, and whenever it   *)
(* is read, a row goes out at the hour its author wrote                    *)
(* (schedule-parse.ts:66-83).                                              *)
THEOREM SchedulesAreMeant == MessageSpec => []SchedulesAreReadInTheirZone
  <1>1. ASSUME MessageInv PROVE SchedulesAreReadInTheirZone
    <2> DEFINE zone == ZoneMeant(sheetRow)
               reading == sheetRow.cell.reading
               Read == {c.utc : c \in checks} \ {Unknown}
    <2>1. ASSUME NEW t \in Read
          PROVE  /\ zone # Unknown
                 /\ IF InstantsAt(zone, reading) = {} THEN Reading(zone, t) = reading + 1
                    ELSE t \in InstantsAt(zone, reading)
      <3>1. PICK c \in checks : t = c.utc /\ c.utc # Unknown
        OBVIOUS
      <3>2. /\ c.at \in Int /\ sheetRow \in CampaignRows
            /\ c.utc = parseSchedule(sheetRow.cell, FallbackZone(sheetRow), c.at)
        BY <1>1, MessageAssumption DEF MessageInv, ChecksReadTheRow
      <3> QED BY <3>1, <3>2, SchedulesOf
    <2> HIDE DEF zone, reading, Read
    <2>2. Read # {} =>
            /\ zone # Unknown
            /\ IF InstantsAt(zone, reading) = {} THEN \A t \in Read : Reading(zone, t) = reading + 1
               ELSE Read \subseteq InstantsAt(zone, reading)
      BY <2>1
    <2> QED BY <2>2 DEF SchedulesAreReadInTheirZone, zone, reading, Read
  <1> QED BY <1>1, MessageInvariant, PTL

LEMMA MessageTypes == MessageSpec => []MessageTypeOK
  <1>1. ASSUME MessageInv PROVE MessageTypeOK
    <2>1. \A m \in letters : \A u \in m.html \cup m.text \cup m.header : IsUrl(u)
      BY <1>1, LettersAreWhole
    <2>2. ASSUME NEW c \in checks
          PROVE  c.at \in Hours /\ c.utc \in Int \cup {Unknown}
      <3>1. /\ c.at \in Hours /\ c.at \in Int /\ sheetRow \in CampaignRows
            /\ c.utc = parseSchedule(sheetRow.cell, FallbackZone(sheetRow), c.at)
        BY <1>1, MessageAssumption DEF MessageInv, ChecksReadTheRow
      <3> QED BY <3>1, SchedulesOf
    <2> QED BY <1>1, <2>1, <2>2 DEF MessageTypeOK, MessageInv
  <1> QED BY <1>1, MessageInvariant, PTL
=============================================================================
