----------------------------- MODULE Signatures -----------------------------
(***************************************************************************)
(* The signature library: the builder that renders a form into the HTML    *)
(* and the text half of a sign-off, the editor around it, the requests     *)
(* that store and delete signatures, and the link by which a mailbox picks *)
(* one.                                                                    *)
(*                                                                         *)
(* Of a field it matters whether it is filled with something that shows;   *)
(* of a half, which lines it shows.  Markup, colours and names are left    *)
(* out.  The console sends both halves on every save; over the API either  *)
(* may be left out, or both, and a text may be one of its own.             *)
(***************************************************************************)
EXTENDS Naturals, FiniteSets, SignOff

CONSTANTS
  Signs,        (* Ids of signatures.                                       *)
  Boxes,        (* Mailboxes that pick one.                                 *)
  Layouts,      (* The templates offered.                                   *)
  FillIn,       (* The fields the operator fills in or clears.              *)
  MaxVisits,    (* Bound: editors opened.                                   *)
  MaxKeys,      (* Bound: changes typed or picked.                          *)
  MaxRequests   (* Bound: requests.                                         *)

Form == [template : Templates, filled : SUBSET Fields]
Shown == {"own", "typed", "role", "website", "cta"} \cup Fields

Markup == [built : BOOLEAN, shows : SUBSET Shown, state : Form \cup {NoSign}]
SignValue == [html : Markup, text : SUBSET Shown]

ASSUME SignaturesAssumption ==
  /\ Layouts \subseteq Templates /\ "photo-card" \in Layouts
  /\ FillIn \subseteq Fields
  /\ NoSign \notin Signs \cup Form \cup SignValue
  /\ MaxVisits \in Nat /\ MaxKeys \in Nat /\ MaxRequests \in Nat

-----------------------------------------------------------------------------
VARIABLES
  library,    (* what is stored of each signature, or NoSign                *)
  used,       (* ids that were given out                                    *)
  link,       (* accounts.signatureId of each mailbox                       *)
  fetched,    (* the browser's copy of each signature, kept by SWR          *)
  editor,     (* the signature, the form and the value being edited         *)
  asks,       (* requests under way                                         *)
  visits, keys, posted

signVars == <<library, used, link, fetched, editor, asks, visits, keys, posted>>

Is(s) == library[s] # NoSign

-----------------------------------------------------------------------------
(* The editor *)

NewForm == [template |-> "photo-card", filled |-> {"email"}]

(* Mutant: there is no form for markup that carries none. *)
FormOrNothing(html) == html.state

(* decodeSignatureState, once, from what the editor mounted with.          *)
FormOf(html) == IF html.state = NoSign THEN NewForm ELSE html.state

Editing(s, value) ==
  [on |-> s, form |-> FormOf(value.html), value |-> value,
   mode |-> IF value.html.state # NoSign \/ value.html = NoHtml THEN "template" ELSE "html"]

(* SWR hands out the copy of an earlier visit and asks again; the editor   *)
(* is keyed on the id and keeps what it was mounted with.                  *)
Loaded(s) == IF fetched[s] = NoSign THEN library[s] ELSE fetched[s]

Opens(s) ==
  /\ editor = NoSign /\ visits < MaxVisits /\ visits' = visits + 1
  /\ Loaded(s) # NoSign
  /\ editor' = Editing(s, Loaded(s))
  /\ fetched' = [fetched EXCEPT ![s] = IF Is(s) THEN library[s] ELSE @]
  /\ UNCHANGED <<library, used, link, asks, keys, posted>>

OpensNew ==
  /\ editor = NoSign /\ visits < MaxVisits /\ visits' = visits + 1
  /\ editor' = Editing(NoSign, [html |-> NoHtml, text |-> {}])
  /\ UNCHANGED <<library, used, link, fetched, asks, keys, posted>>

(* Cancel, or the browser's back button.                                   *)
Leaves ==
  /\ editor # NoSign
  /\ editor' = NoSign
  /\ UNCHANGED <<library, used, link, fetched, asks, visits, keys, posted>>

Key == editor # NoSign /\ keys < MaxKeys /\ keys' = keys + 1

Emits(form) ==
  editor' = [editor EXCEPT !.form = form, !.value = emit(editor.form, form)]

(* setField, in either direction.                                          *)
setField(f) ==
  /\ Key /\ editor.mode = "template"
  /\ f \in Images => f \in ImagesOf(editor.form.template)
  /\ Emits([editor.form EXCEPT !.filled = IF f \in @ THEN @ \ {f} ELSE @ \cup {f}])
  /\ UNCHANGED <<library, used, link, fetched, asks, visits, posted>>

pickTemplate(t) ==
  /\ Key /\ editor.mode = "template"
  /\ Emits([editor.form EXCEPT !.template = t])
  /\ UNCHANGED <<library, used, link, fetched, asks, visits, posted>>

setMode ==
  /\ Key
  /\ editor' = [editor EXCEPT !.mode = IF @ = "html" THEN "template" ELSE "html"]
  /\ UNCHANGED <<library, used, link, fetched, asks, visits, posted>>

(* Somebody's own markup replaces what there is, or what there is gets a   *)
(* line of one's own and keeps the wrapper; the text is left to the server.*)
PasteHtml ==
  /\ Key /\ editor.mode = "html"
  /\ \E html \in {[NoHtml EXCEPT !.shows = {"own"}],
                  [editor.value.html EXCEPT !.shows = @ \cup {"own"}, !.built = FALSE]} :
       editor' = [editor EXCEPT !.value = [html |-> html, text |-> {}]]
  /\ UNCHANGED <<library, used, link, fetched, asks, visits, posted>>

-----------------------------------------------------------------------------
(* Requests *)

(* `names` is what the request says of the two halves.                     *)
Requests(kind, s, box, names, body) ==
  /\ posted < MaxRequests /\ posted' = posted + 1
  /\ asks' = asks \cup {[kind |-> kind, sign |-> s, box |-> box, names |-> names,
                        body |-> body, step |-> "read"]}

NoBody == NoSign

(* save: an empty signature is not sent; the page is left.                 *)
save ==
  /\ editor # NoSign /\ editor.value.html # NoHtml
  /\ Requests("save", editor.on, NoSign, {"html", "text"}, editor.value)
  /\ editor' = NoSign
  /\ UNCHANGED <<library, used, link, fetched, visits, keys>>

(* The button is there while the page shows no mailbox using it.           *)
remove(s) ==
  /\ Is(s)
  /\ Requests("remove", s, NoSign, {}, NoBody)
  /\ UNCHANGED <<library, used, link, fetched, editor, visits, keys>>

(* A POST, while there are ids left, or a PATCH of any of the name, the    *)
(* markup and the text.                                                    *)
PostOrPatch(s) ==
  /\ IF s = NoSign THEN used # Signs ELSE Is(s)
  /\ \E names \in SUBSET {"html", "text"}, text \in {{}, {"typed"}} :
       /\ s = NoSign => "html" \in names
       /\ text # {} => "text" \in names
       /\ Requests("save", s, NoSign, names,
                   [html |-> [NoHtml EXCEPT !.shows = {"own"}], text |-> text])
  /\ UNCHANGED <<library, used, link, fetched, editor, visits, keys>>

(* The form of a mailbox: `signatureId`, or null.                          *)
Picks(box, s) ==
  /\ s \in used \cup {NoSign}
  /\ Requests("pick", s, box, {}, NoBody)
  /\ UNCHANGED <<library, used, link, fetched, editor, visits, keys>>

(* Any other edit of a mailbox. *)
Edits(box) ==
  /\ Requests("edit", NoSign, box, {}, NoBody)
  /\ UNCHANGED <<library, used, link, fetched, editor, visits, keys>>

(* Mutant: a text that is not sent stays as it was. *)
KeepsTheText(q) == IF q.sign = NoSign THEN {} ELSE library[q.sign].text

(* dto.text ?? (dto.html !== undefined ? '' : current.text) *)
TextNotSent(q) == IF "html" \in q.names THEN {} ELSE library[q.sign].text

Saved(q) ==
  content(IF "html" \in q.names THEN q.body.html ELSE library[q.sign].html,
          IF "text" \in q.names THEN q.body.text ELSE TextNotSent(q))

(* What is to be written: the signature, or of a mailbox's row the link,   *)
(* which an edit that does not name it writes back as it was read.         *)
ToWrite(q) ==
  CASE q.kind = "save" -> [q EXCEPT !.step = "write", !.body = Saved(q)]
    [] q.kind = "edit" -> [q EXCEPT !.step = "write", !.sign = link[q.box]]
    [] OTHER           -> [q EXCEPT !.step = "write"]

Linked(s) == {box \in Boxes : link[box] = s}

(* findOrThrow, the check for use, or applySignatureLink: the row to be    *)
(* written is put together from what was read.                             *)
ReadsRequest(q) ==
  /\ q \in asks /\ q.step = "read"
  /\ asks' = (asks \ {q}) \cup
       IF \/ q.sign \in Signs /\ ~Is(q.sign)
          \/ q.kind = "remove" /\ Linked(q.sign) # {}
       THEN {} ELSE {ToWrite(q)}
  /\ UNCHANGED <<library, used, link, fetched, editor, visits, keys, posted>>

Done(q) == asks' = asks \ {q}

(* create, or update by the id; there may be no such row any more.         *)
WritesSignature(q) ==
  /\ q \in asks /\ q.step = "write" /\ q.kind = "save"
  /\ Done(q)
  /\ IF q.sign = NoSign
     THEN \E s \in Signs \ used :
            /\ library' = [library EXCEPT ![s] = q.body]
            /\ used' = used \cup {s}
     ELSE /\ library' = IF Is(q.sign) THEN [library EXCEPT ![q.sign] = q.body] ELSE library
          /\ UNCHANGED used
  /\ UNCHANGED <<link, fetched, editor, visits, keys, posted>>

Without(s) == [library EXCEPT ![s] = NoSign]

(* Mutant: onDelete: SetNull *)
DetachesUsers(s) ==
  [library |-> Without(s), link |-> [b \in Boxes |-> IF link[b] = s THEN NoSign ELSE link[b]]]

(* onDelete: Restrict.  A mailbox attached since the check makes the       *)
(* statement fail (P2003).                                                 *)
Deleted(s) == [library |-> IF Linked(s) = {} THEN Without(s) ELSE library, link |-> link]

DeletesSignature(q) ==
  /\ q \in asks /\ q.step = "write" /\ q.kind = "remove"
  /\ Done(q)
  /\ library' = Deleted(q.sign).library /\ link' = Deleted(q.sign).link
  /\ UNCHANGED <<used, fetched, editor, visits, keys, posted>>

(* The foreign key: a signature deleted since the check is refused.        *)
WritesLink(q) ==
  /\ q \in asks /\ q.step = "write" /\ q.kind \in {"pick", "edit"}
  /\ Done(q)
  /\ link' = IF q.sign = NoSign \/ Is(q.sign)
             THEN [link EXCEPT ![q.box] = q.sign] ELSE link
  /\ UNCHANGED <<library, used, fetched, editor, visits, keys, posted>>

-----------------------------------------------------------------------------
SignaturesInit ==
  /\ library \in [Signs -> {NoSign, emit(NewForm, NewForm)}]
  /\ used = {s \in Signs : Is(s)}
  /\ link \in [Boxes -> used \cup {NoSign}]
  /\ fetched = [s \in Signs |-> NoSign]
  /\ editor = NoSign /\ asks = {}
  /\ visits = 0 /\ keys = 0 /\ posted = 0

SignaturesNext ==
  \/ OpensNew \/ Leaves \/ setMode \/ PasteHtml \/ save
  \/ \E f \in FillIn : setField(f)
  \/ \E t \in Layouts : pickTemplate(t)
  \/ \E s \in Signs : Opens(s) \/ remove(s)
  \/ \E s \in Signs \cup {NoSign} : PostOrPatch(s) \/ \E box \in Boxes : Picks(box, s)
  \/ \E box \in Boxes : Edits(box)
  \/ \E q \in asks : \/ ReadsRequest(q) \/ WritesSignature(q)
                     \/ DeletesSignature(q) \/ WritesLink(q)

SignaturesSpec == SignaturesInit /\ [][SignaturesNext]_signVars

-----------------------------------------------------------------------------
(* Properties *)

(* Every variable keeps its type.                                          *)
SignaturesTypeOK ==
  /\ \A s \in Signs : /\ Is(s) => library[s] \in SignValue /\ s \in used
                      /\ fetched[s] # NoSign => fetched[s] \in SignValue
  /\ used \subseteq Signs /\ link \in [Boxes -> Signs \cup {NoSign}]
  /\ editor # NoSign => /\ editor.on \in Signs \cup {NoSign}
                        /\ editor.form \in Form /\ editor.value \in SignValue
                        /\ editor.mode \in {"template", "html"}
  /\ \A q \in asks : q.body # NoBody => q.body \in SignValue
  /\ visits \in Nat /\ keys \in Nat /\ posted \in Nat

(* "A body that does not match its own alternative" (signature.ts:456-457) *)
(* is stored where somebody typed it as such and nowhere else: a text half *)
(* nobody typed shows the lines of the markup beside it, whichever halves  *)
(* requests named and however they overlapped; new markup never stands     *)
(* next to a text derived from the old (signatures.service.ts:58-60).      *)
HalvesDifferOnlyAsTyped ==
  \A s \in Signs : Is(s) => \/ library[s].text = {"typed"}
                            \/ library[s].text = library[s].html.shows \ Images

(* A stored signature the builder made re-opens as the form that made it,  *)
(* as long as nobody wrote into its markup by hand: the fields stamped on  *)
(* it render to what is stored (signature.ts:472-482).                     *)
StampsMatchMarkup ==
  \A s \in Signs : Is(s) /\ library[s].html.built =>
    LET form == library[s].html.state IN
    library[s].html = withSignatureState(renderSignatureHtml(form), form)

(* "A signature cannot be deleted out from under a mailbox mid-campaign"   *)
(* (schema.prisma:88-89): what a mailbox signs with changes by a write of  *)
(* the mailbox's own row and no other way, whatever a deletion has checked *)
(* before, and it is a signature there is, however long ago the row that   *)
(* is written back was read.                                               *)
MailboxesKeepTheirSignature ==
  [][\A box \in Boxes :
       /\ link'[box] # link[box] =>
            \E q \in asks \ asks' : /\ q.kind \in {"pick", "edit"} /\ q.step = "write"
                                    /\ q.box = box /\ q.sign = link'[box]
       /\ link'[box] # NoSign => library'[link'[box]] # NoSign]_signVars
=============================================================================
