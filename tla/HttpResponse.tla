----------------------------- MODULE HttpResponse ----------------------------
(***************************************************************************)
(* Reading an HTTP response from a stream: operator>> for http_response    *)
(* (http_response.cpp), and for upnp_response (upnp_response.cpp), which   *)
(* reads an http_response first.                                           *)
(*                                                                         *)
(* The bytes of a response are abstracted to what operator>> tests:        *)
(*   line   - the first line: "none" when there is none, "other" when it   *)
(*            is not a status line, "overflow" when its status does not    *)
(*            fit in an int, "ok" for status 200, "zero" for status 0,     *)
(*            "error" for another                                          *)
(*   ended  - the header fields end with an empty line                     *)
(*   length - Content-Length: "absent", "number" or "bad" (not a number)   *)
(***************************************************************************)

StatusLines == {"none", "other", "overflow", "ok", "zero", "error"}
Lengths     == {"absent", "number", "bad"}

(* What "stream >> response" comes to: "throw" (bad_lexical_cast leaves    *)
(* the operator), "fail" (the stream is left failed) or "good".  The       *)
(* Content-Length is converted even when the header was cut short.         *)
Read(m) ==
  IF m.line \in {"none", "other"} THEN "fail"
  ELSE IF m.line = "overflow" \/ m.length = "bad" THEN "throw"
  ELSE IF m.ended THEN "good" ELSE "fail"

(* Reading may stop before the end of the message: at the status line, at  *)
(* the Content-Length, or after as many bytes of body as it announces.     *)
(* Without a Content-Length the body is everything up to the end.          *)
MayLeaveBytes(m) == m.line \notin {"ok", "zero", "error"} \/ m.length # "absent"

(* http_response's conversion to a truth value. *)
IsOk(m) == m.line = "ok"

------------------------------------------------------------------------------
(* What a call of a gateway's service makes of the answer, abstracted to   *)
(*   head - the response it arrives in, as above                           *)
(*   xml  - its body: "empty", "malformed" or "document"                   *)
(*   code - the errorCode in the document: "absent", "number", "zero" or   *)
(*          "text" (not a number)                                          *)

Bodies == {"empty", "malformed", "document"}
Codes  == {"absent", "number", "zero", "text"}

(* The error_code is 0.  With status 200 a body without a document counts  *)
(* as success when it is empty; with another status it is the errorCode    *)
(* that decides and, without a document, the status itself.                *)
NoError(a) == \/ IsOk(a.head) /\ a.xml # "malformed"
              \/ ~IsOk(a.head) /\ a.xml = "document" /\ a.code = "zero"
              \/ a.head.line = "zero" /\ a.xml # "document"

CodeThrows(a) == ~IsOk(a.head) /\ a.xml = "document" /\ a.code = "text"

(* Fault: the conversion of res is forgotten. *)
VerdictOfStream(a) == CASE Read(a.head) = "good" -> "true"
                        [] Read(a.head) = "throw" -> "throw"
                        [] Read(a.head) = "fail" -> "false"

(* What "execute_request(request, res) && res" comes to. *)
Verdict(a) ==
  CASE Read(a.head) = "throw" \/ (Read(a.head) = "good" /\ CodeThrows(a)) -> "throw"
    [] Read(a.head) = "good" /\ ~CodeThrows(a) /\ NoError(a)              -> "true"
    [] OTHER                                                              -> "false"
==============================================================================
