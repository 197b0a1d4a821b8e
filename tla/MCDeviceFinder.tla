--------------------------- MODULE MCDeviceFinder ----------------------------
(***************************************************************************)
(* Networks for checking DeviceFinder: a gateway and other devices on a    *)
(* LAN, what they may answer to the search, and what the servers at the    *)
(* locations they name may answer to the request for the description.      *)
(***************************************************************************)
EXTENDS DeviceFinder, TLC

Text(host, port) == [valid |-> TRUE, protocol |-> "http", host |-> host,
                     port |-> port, query |-> "none"]

NotAUrl  == [Text("gateway", 80) EXCEPT !.valid = FALSE]
Relative == [Text("", 0) EXCEPT !.protocol = ""]

At(host) == [host |-> host, port |-> 80]

Head200   == [line |-> "ok", ended |-> TRUE, length |-> "absent"]
Sized200  == [Head200 EXCEPT !.length = "number"]
Unsized   == [Head200 EXCEPT !.length = "bad"]
CutShort  == [Head200 EXCEPT !.ended = FALSE]
NotFound  == [Head200 EXCEPT !.line = "error"]
Garbage   == [Head200 EXCEPT !.line = "other"]

(* A datagram fills the room of a receive (two bytes here), or does not. *)
Reply(head, location) ==
  [size |-> 2, head |-> head, located |-> TRUE, location |-> location]
NoLocation == [size |-> 1, head |-> Head200, located |-> FALSE]
Empty      == [size |-> 0, head |-> Garbage, located |-> FALSE]

(* A device answers for its description at its own host, without a port. *)
From(host) == [Reply(Head200, Text(host, 0)) EXCEPT !.size = 1]

Page(head, doc) ==
  [connected |-> TRUE, head |-> head, wellFormed |-> TRUE, doc |-> doc]

Printer          == [service |-> FALSE]
Gateway(control) == [service |-> TRUE, control |-> control]

GatewayPage  == Page(Sized200, Gateway(Text("gateway", 80)))
RelativePage == Page(Head200, Gateway(Relative))
PrinterPage  == Page(Head200, Printer)

(* A network in which everything that can go wrong does at some time: the  *)
(* gateway and the printer answer badly, a third device never answers, and *)
(* a second gateway is faultless.                                          *)
FaultyReplies ==
  {From("gateway"), From("printer"), From("router"), From("hung"), From("nowhere"),
   Reply(Sized200, NotAUrl), Reply(Garbage, NotAUrl), Reply(Unsized, NotAUrl),
   NoLocation, Empty, Reply(Sized200, Text("gateway", 80))}
FaultyDocuments ==
  At("gateway") :> {GatewayPage, Refused, Page(CutShort, Printer),
                    Page(NotFound, Printer), Page(Unsized, Printer),
                    Page(Head200, Gateway(NotAUrl))}
  @@ At("printer") :> {PrinterPage, [PrinterPage EXCEPT !.wellFormed = FALSE]}
  @@ At("router") :> {GatewayPage}
  @@ At("hung") :> {}

(* Devices that answer correctly. *)
FriendlyReplies   == {From("gateway"), From("printer")}
FriendlyDocuments == At("gateway") :> {GatewayPage} @@ At("printer") :> {PrinterPage}

(* The printer's server is down. *)
PrinterDownDocuments == [FriendlyDocuments EXCEPT ![At("printer")] = {Refused}]

(* The gateway gives its controlURL as a path, as most devices do. *)
RelativeDocuments == [FriendlyDocuments EXCEPT ![At("gateway")] = {RelativePage}]
==============================================================================
