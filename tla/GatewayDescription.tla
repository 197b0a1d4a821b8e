-------------------------- MODULE GatewayDescription -------------------------
(***************************************************************************)
(* inet_gateway::parse_info and get_internal_ip (inet_gateway.cpp): what   *)
(* the finder makes of the description document of a device, and where it  *)
(* leads.  A document is abstracted to                                     *)
(*   service - it has a WANIPConnection or WANPPPConnection service        *)
(*   control - the text of that service's controlURL (see Url)             *)
(***************************************************************************)
EXTENDS Url

(* parse_info returns false: the device forwards no ports. *)
NotAGateway(doc) == ~doc.service

(* Converting the controlURL to a url throws out of parse_info. *)
ParseInfoThrows(doc) == doc.service /\ UrlThrows(doc.control)

(* The control_url parse_info stores: the parsed controlURL, completed     *)
(* from the URL of the document when it has no host.                       *)
ControlUrl(base, doc) ==
  LET control == ParseUrl(doc.control)
  IN  IF control.host = ""
      THEN [control EXCEPT !.host = base.host,
                           !.port = base.port,
                           !.protocol = base.protocol]
      ELSE control

(* Where get_internal_ip connects, to learn the address it connects from:  *)
(* the port is taken as it is, 0 when the control URL names none.          *)
InternalIpEndpoint(url) == [host |-> url.host, port |-> url.port]
==============================================================================
