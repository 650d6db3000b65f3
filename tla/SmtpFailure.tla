---------------------------- MODULE SmtpFailure ----------------------------
(***************************************************************************)
(* How backend/src/mail/smtp-error.ts sorts the error a send ended with.   *)
(*                                                                         *)
(* An error is a record of what the classifier looks at:                   *)
(*   errno        nodemailer's err.code is one of TRANSIENT_ERROR_CODES    *)
(*   code         the SMTP reply code, NoCode when the server never replied*)
(*   senderState  the reply's text matches one of SENDER_STATE_PATTERNS    *)
(***************************************************************************)
EXTENDS Naturals

NoCode == 0

SmtpErrors == [errno : BOOLEAN, code : Nat, senderState : BOOLEAN]

BadRecipientCodes == {550, 551, 553}

(* The one way out of the classifier that is not "transient". *)
IsPermanent(err) ==
  /\ ~err.errno
  /\ err.code >= 500
  /\ ~err.senderState

classifySmtpFailure(err) ==
  [ kind                 |-> IF IsPermanent(err) THEN "permanent" ELSE "transient",
    code                 |-> err.code,
    isRecipientRejection |-> IsPermanent(err) /\ err.code \in BadRecipientCodes ]

(* Errors the sender meets that carry no SMTP reply: a socket error, and an *)
(* exception of the database client thrown inside the same try block.      *)
NetworkError  == [errno |-> TRUE,  code |-> NoCode, senderState |-> FALSE]
DatabaseError == [errno |-> FALSE, code |-> NoCode, senderState |-> FALSE]
=============================================================================
