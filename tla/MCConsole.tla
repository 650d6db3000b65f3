----------------------------- MODULE MCConsole -----------------------------
(***************************************************************************)
(* Instances, for TLC, of the parts behind the console's pages and of the  *)
(* way of a sheet's row to its message.  The parts share no state, so      *)
(* their interleavings would show nothing: a behaviour chooses one of them *)
(* at the start and the others stay as they are.                           *)
(***************************************************************************)
EXTENDS QueueScreen, Users, Tabs, Mailboxes, Signatures, ImportScreen, MessageBuilder, TLC

CONSTANTS
  Parts,                            (* The parts a run explores.            *)
  m1, m2, a1, a2, b1, b2,           (* rows, mailboxes and batches          *)
  p1, p2, p3, u1, u2, i1, i2,       (* users, addresses, app processes      *)
  t1, t2,                           (* tabs                                 *)
  g1, pw, s1, s2,                   (* connections, secrets                 *)
  x1, y1,                           (* a signature, a mailbox that picks it *)
  f1, f2, z1, z2, r1, r2            (* sheets, timezones, rows of a sheet   *)

MCRowValue == (m1 :> [accountId |-> a1, batchId |-> b1]) @@
              (m2 :> [accountId |-> a2, batchId |-> b2])

(* The two processes were deployed with different seed addresses. *)
MCSeedOf == (i1 :> u1) @@ (i2 :> u2)

(* One connection with OAuth, one with a password; each secret fits one.   *)
MCAccepted == {[conn |-> g1, rest |-> s1], [conn |-> pw, rest |-> s2]}

(* One sheet is the beginning of the other. *)
MCRowsOf == (f1 :> {r1}) @@ (f2 :> {r1, r2})

(* A zone whose clocks go forward on the second night, from 2:00 to 3:00,  *)
(* one whose clocks go back that night, from 3:00 to 2:00, and one whose   *)
(* clocks are never moved.                                                 *)
ForwardZone == [ahead |-> -5, change |-> 31, by |-> 1]
BackZone    == [ahead |-> 2, change |-> 25, by |-> -1]
SteadyZone  == [ahead |-> 8, change |-> 0, by |-> 0]
MCZoneNames == ("forward" :> ForwardZone) @@ ("back" :> BackZone)

(* Rows that differ in what is in them, and rows that differ in when they  *)
(* are to go out: at 2:00 of that night, at 10:00 after it, or never.      *)
PlainCell == [reading |-> 34, token |-> Bare]
MCCampaignRows ==
  {[text |-> t, html |-> h, company |-> c, cell |-> PlainCell, default |-> Bare] :
     t \in {{}} \cup {{x} : x \in TextSpots}, h \in {{}} \cup {{x} : x \in HtmlSpots},
     c \in Companies}
  \cup
  {[text |-> {}, html |-> {}, company |-> "name", default |-> d,
    cell |-> [reading |-> r, token |-> n]] :
     r \in {26, 34, Unknown}, n \in {Bare, Unknown, "forward", "back"},
     d \in {Bare, ForwardZone, BackZone}}

(* None, two the builder made, one that names a P.s. without a text for it,*)
(* one pasted, and one written into by hand.                               *)
Minimal(filled) == [template |-> "minimal", filled |-> filled]
Built(filled) == emit(Minimal(filled), Minimal(filled))
Pasted(html)  == content([html EXCEPT !.shows = {"own"}, !.built = FALSE], {})
MCSignOffs ==
  {[html |-> NoHtml, text |-> {}], Built({"email", "websiteUrl"}),
   Built({"websiteUrl", "ctaText", "ctaUrl"}), Built({"email", "ctaUrl"}),
   Pasted(NoHtml), Pasted(Built({"ctaText", "ctaUrl"}).html)}

(* Rows with one thing in them, and a company only where it shows.         *)
ContentMatters(r) ==
  /\ r.text \subseteq {"url"} \/ r.html = {}
  /\ r.company = "name" \/ (r.text \cup r.html) \cap {"company", "host", "companyLink"} # {}
NoSignature == signOff.html = NoHtml /\ psLeads = "demo"
PlainRow == [text |-> {}, html |-> {}, company |-> "name", cell |-> PlainCell, default |-> Bare]

VARIABLE part

allVars == <<part, screenVars, userVars, tabVars, mailboxVars, signVars, importVars, mailVars>>

In(p) == part = p

ConsoleInit ==
  /\ part \in Parts
  /\ ScreenInit /\ (In("queue") \/ queued = [m \in Messages |-> "pending"])
  /\ UsersInit
  /\ TabsInit
  /\ MailboxesInit /\ (In("mailboxes") \/ taken = {})
  /\ SignaturesInit /\ (In("signatures") \/ used = {})
  /\ ImportScreenInit /\ (In("import") \/ zone = z1)
  /\ MessageInit
  /\ \/ In("mail") /\ sheetRow.cell = PlainCell /\ ContentMatters(sheetRow)
     \/ In("mail") /\ sheetRow.text \cup sheetRow.html = {} /\ NoSignature
     \/ sheetRow = PlainRow /\ NoSignature

ConsoleNext ==
  /\ UNCHANGED part
  /\ \/ /\ In("queue") /\ ScreenNext
        /\ UNCHANGED <<userVars, tabVars, mailboxVars, signVars, importVars, mailVars>>
     \/ /\ In("users") /\ UsersNext
        /\ UNCHANGED <<screenVars, tabVars, mailboxVars, signVars, importVars, mailVars>>
     \/ /\ In("tabs") /\ TabsNext
        /\ UNCHANGED <<screenVars, userVars, mailboxVars, signVars, importVars, mailVars>>
     \/ /\ In("mailboxes") /\ MailboxesNext
        /\ UNCHANGED <<screenVars, userVars, tabVars, signVars, importVars, mailVars>>
     \/ /\ In("signatures") /\ SignaturesNext
        /\ UNCHANGED <<screenVars, userVars, tabVars, mailboxVars, importVars, mailVars>>
     \/ /\ In("import") /\ ImportScreenNext
        /\ UNCHANGED <<screenVars, userVars, tabVars, mailboxVars, signVars, mailVars>>
     \/ /\ In("mail") /\ MessageNext
        /\ UNCHANGED <<screenVars, userVars, tabVars, mailboxVars, signVars, importVars>>

ConsoleSpec == ConsoleInit /\ [][ConsoleNext]_allVars

(* Of the queue page: SWR's timer keeps firing and every request is        *)
(* answered in the end; what the operator does and where the queue moves   *)
(* is left open.                                                           *)
ScreenFairness ==
  /\ WF_screenVars(In("queue") /\ Poll)
  /\ WF_screenVars(In("queue") /\ Land)
  /\ WF_screenVars(In("queue") /\ \E c \in posts : Serve(c))

(* Of the tabs: the router arrives, the page polls, answers come.          *)
TabsFairness ==
  \A b \in OpenTabs :
    /\ WF_tabVars(In("tabs") /\ Navigated(b))
    /\ WF_tabVars(In("tabs") /\ MeAnswers(b))
    /\ WF_tabVars(In("tabs") /\ Polls(b))
    /\ WF_tabVars(In("tabs") /\ \E t \in polls[b] : PollAnswered(b, t))

ConsoleFairSpec == ConsoleSpec /\ ScreenFairness /\ TabsFairness

(* The queue page, once it and the queue rest, shows what is in front of   *)
(* the operator (CatchesUp); there is nothing to catch up with elsewhere.  *)
ScreenCatchesUp == In("queue") => CatchesUp

(* Every variable keeps its type.                                          *)
ConsoleTypeOK ==
  /\ part \in Parts
  /\ ScreenTypeOK /\ UsersTypeOK /\ TabsTypeOK
  /\ MailboxesTypeOK /\ SignaturesTypeOK /\ ImportScreenTypeOK
  /\ MessageTypeOK

(* No row of the queue and no button of the import page stays locked: what *)
(* is busy has a call under way, whatever mix of refusals, lost answers    *)
(* and overlapping clicks came before (queue/page.tsx, busyId and the      *)
(* finally of act; import/page.tsx, busy and the finally of run).          *)
NothingStaysBusy == SpinnersHaveACall /\ SheetsHaveACall
=============================================================================
