------------------------------ MODULE SignOff ------------------------------
(***************************************************************************)
(* What a signature is: the renderer the console and the API share         *)
(* (packages/shared/src/signature.ts), which turns a form into the HTML    *)
(* and the text half of a sign-off and stamps the form on the markup, and  *)
(* the fallback the API derives a missing text half with.                  *)
(*                                                                         *)
(* Of a field it matters whether it is filled with something that shows;   *)
(* of a half, which lines it shows.                                        *)
(***************************************************************************)
CONSTANT NoSign  (* No such signature; no form on the markup.              *)

Fields == {"fullName", "jobTitle", "company", "websiteUrl", "websiteLabel",
           "email", "phone", "address", "ctaText", "ctaUrl", "photoUrl", "logoUrl"}
Templates == {"photo-card", "logo-left", "stacked", "minimal"}

Images == {"photoUrl", "logoUrl"}

(* The images a layout has room for; the form hides the others' fields.    *)
ImagesOf(template) == CASE template = "photo-card" -> Images
                        [] template = "minimal" -> {}
                        [] OTHER -> {"logoUrl"}

(* resolve: job title and company share a line, a label shows only with    *)
(* its link, and the P.S. needs its text and its link.                     *)
Lines(filled) ==
  (filled \cap {"fullName", "email", "phone", "address"})
  \cup (IF filled \cap {"jobTitle", "company"} # {} THEN {"role"} ELSE {})
  \cup (IF "websiteUrl" \in filled THEN {"website"} ELSE {})
  \cup (IF {"ctaText", "ctaUrl"} \subseteq filled THEN {"cta"} ELSE {})

NoHtml == [built |-> FALSE, shows |-> {}, state |-> NoSign]

(* renderSignatureHtml.  Whether the form is blank is asked of every       *)
(* field, of images the layout does not show too.                          *)
renderSignatureHtml(form) ==
  IF Lines(form.filled) = {} /\ form.filled \cap Images = {} THEN NoHtml
  ELSE [built |-> TRUE, state |-> NoSign,
        shows |-> Lines(form.filled)
                    \cup (form.filled \cap ImagesOf(form.template))]

renderSignatureText(form) == Lines(form.filled)

(* withSignatureState: there must be markup to put it on.                  *)
withSignatureState(html, form) ==
  IF html = NoHtml THEN NoHtml ELSE [html EXCEPT !.state = form]

(* Mutant: setFields has not happened yet when the markup is stamped. *)
StampsTheOldForm(old, new) == old

(* What emit stamps: the form it has rendered, not the state it replaces.  *)
Stamped(old, new) == new

emit(old, new) ==
  [html |-> withSignatureState(renderSignatureHtml(new), Stamped(old, new)),
   text |-> renderSignatureText(new)]

(* htmlToText: tags go, and images with them.                              *)
htmlToText(html) == html.shows \ Images

(* content: the sanitiser lets all of this pass; a blank text is derived.  *)
content(html, text) ==
  [html |-> html, text |-> IF text = {} THEN htmlToText(html) ELSE text]
=============================================================================
