--------------------------------- MODULE Url ---------------------------------
(***************************************************************************)
(* net::url (url.hpp, url.cpp) and the endpoint execute_request            *)
(* (execute_request.hpp) connects to for it.                               *)
(*                                                                         *)
(* The text of a URL is abstracted to what parse() finds in it:            *)
(*   valid    - the whole text matches the grammar of parse()              *)
(*   protocol - "" when the text names none                                *)
(*   host     - "" when the text names none                                *)
(*   port     - 0 when the text names none                                 *)
(*   query    - "none", "pairs" (name=value&...) or "bare" (no '=' in it)  *)
(***************************************************************************)
EXTENDS Integers

Localhost == "localhost"

MaxPort == 65535

(* Construction from text ends in an exception: invalid_url for a text the *)
(* grammar rejects, bad_lexical_cast for a port that does not fit in an    *)
(* unsigned short and for a query in which parameter_map finds no pair.    *)
UrlThrows(text) == \/ ~text.valid
                   \/ text.port > MaxPort
                   \/ text.query = "bare"

(* The fields of the url object built from a text that does not throw; a   *)
(* missing host becomes "localhost", a missing port 0 and a missing        *)
(* protocol the empty string.                                              *)
ParseUrl(text) ==
  [protocol |-> text.protocol,
   host     |-> IF text.host # "" THEN text.host ELSE Localhost,
   port     |-> text.port]

(* The port a service name stands for in the resolver's services table; 0, *)
(* on which nothing can be reached, for the empty name.                    *)
ServicePort(protocol) == IF protocol = "http" THEN 80 ELSE 0

(* Where execute_request opens its TCP stream for a url. *)
Endpoint(url) ==
  [host |-> url.host,
   port |-> IF url.port # 0 THEN url.port ELSE ServicePort(url.protocol)]
==============================================================================
