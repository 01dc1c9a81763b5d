--------------------------- MODULE UploadReceipt ---------------------------
(***************************************************************************)
(* The receipt of one uploaded file: InboundGuard (app/dev_extraction/     *)
(* middleware.py) counts the body, LimitedUploadParser (uploads.py) the    *)
(* bytes of the file, upload (api.py) looks at what arrived.               *)
(*                                                                         *)
(* offer is what the client wants to send: size is the bytes of the file,  *)
(* extra those of the form around it, declared its Content-Length, -1 when *)
(* there is none and -2 when it is not a length; form is the shape of the  *)
(* form.  The body arrives in pieces, and the client may go away.          *)
(*                                                                         *)
(* Operators named Slip... are not part of the model, see MailboxRuns.     *)
(***************************************************************************)
EXTENDS Integers

CONSTANTS
  Offers,
  RequestLimit, UploadLimit   \* dev_request_limit, dev_upload_limit

VARIABLE upload

Forms == {"file", "no_multipart", "no_file", "bad_role", "other_fields", "broken"}
Offer == [size : Nat, extra : Nat \ {0}, declared : Int, form : Forms]

ASSUME UploadAssumption == {RequestLimit, UploadLimit} \subseteq Nat /\ Offers \subseteq Offer

\* received counts the body, spooled the bytes of the file that were written.
Refusals == {"INVALID_LENGTH", "REQUEST_TOO_LARGE", "MULTIPART_REQUIRED", "FILE_TOO_LARGE",
             "INVALID_MULTIPART", "FILE_REQUIRED", "INVALID_ROLE", "INVALID_FORM"}
Upload == [offer : Offers, state : {"open", "refused", "accepted"}, code : Refusals \cup {""},
           received : Nat, spooled : Nat]
NoUpload == [state |-> "none"]

Refused(u, code) == [u EXCEPT !.state = "refused", !.code = code]

\* InboundGuard on the headers, then the content type.
OpenUpload ==
  /\ upload = NoUpload
  /\ \E offer \in Offers :
       LET opened == [offer |-> offer, state |-> "open", code |-> "", received |-> 0,
                      spooled |-> 0]
       IN upload' = IF offer.declared < -1 THEN Refused(opened, "INVALID_LENGTH")
                    ELSE IF offer.declared > RequestLimit
                    THEN Refused(opened, "REQUEST_TOO_LARGE")
                    ELSE IF offer.form = "no_multipart"
                    THEN Refused(opened, "MULTIPART_REQUIRED") ELSE opened

Total(offer) == offer.size + offer.extra

\* bounded_receive, then on_part_data: the limit comes before the writing.  One byte
\* of the form, its end, follows the file, the others come before.
Received(u, bytes) ==
  LET body == u.received + bytes
      past == body + 1 - u.offer.extra
      file == IF past <= 0 THEN 0 ELSE IF past > u.offer.size THEN u.offer.size ELSE past
  IN IF body > RequestLimit THEN Refused([u EXCEPT !.received = body], "REQUEST_TOO_LARGE")
     ELSE IF file > UploadLimit THEN Refused([u EXCEPT !.received = body], "FILE_TOO_LARGE")
     ELSE [u EXCEPT !.received = body, !.spooled = file]

ReceivePiece ==
  /\ upload.state = "open"
  /\ \E bytes \in 1..2 :
       /\ upload.received + bytes <= Total(upload.offer)
       /\ upload' = Received(upload, bytes)

SlipFormProblem(u) ==
  CASE u.offer.form = "broken" -> "INVALID_MULTIPART"
    [] u.offer.form = "no_file" -> "FILE_REQUIRED"
    [] u.offer.form = "bad_role" -> "INVALID_ROLE"
    [] u.offer.form = "other_fields" -> "INVALID_FORM"
    [] OTHER -> ""

\* parse and upload: a body that was cut off never reached the end of the form.
FormProblem(u) ==
  CASE u.offer.form = "broken" \/ u.received < Total(u.offer) -> "INVALID_MULTIPART"
    [] u.offer.form = "no_file" -> "FILE_REQUIRED"
    [] u.offer.form = "bad_role" -> "INVALID_ROLE"
    [] u.offer.form = "other_fields" -> "INVALID_FORM"
    [] OTHER -> ""

\* The stream ends, at the end of the body or because the client went away.
EndOfBody ==
  /\ upload.state = "open"
  /\ upload' = IF FormProblem(upload) # "" THEN Refused(upload, FormProblem(upload))
               ELSE [upload EXCEPT !.state = "accepted"]

\* An accepted file is the whole file of the client, and neither it nor what was
\* ever written of one is over the limits.
UploadWhole ==
  upload.state # "none" =>
    /\ upload.spooled <= UploadLimit
    /\ upload.state = "accepted" =>
         upload.spooled = upload.offer.size /\ upload.received = Total(upload.offer)
=============================================================================
