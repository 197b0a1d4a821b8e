---------------------------- MODULE DeviceFinder -----------------------------
(***************************************************************************)
(* net::upnp_device_finder<inet_gateway> (upnp_device_finder.hpp) with the *)
(* application that drives it, the io_service that runs its handlers and   *)
(* the local network.                                                      *)
(*                                                                         *)
(* The finder, its callbacks and the io_service run on one thread, as in   *)
(* tests/tests.cpp; the network acts between any two steps of it.  A call  *)
(* of async_find with its callback is a "find".  recv_handler blocks while *)
(* it fetches a description, so it is two steps: up to the request, and    *)
(* from the answer on; the user's callback, in which start, stop and       *)
(* async_find may be called, is a third, and the consume() after it, or    *)
(* after asking for the next datagram, a fourth: the receive that has been *)
(* asked for may complete before it.                                       *)
(*                                                                         *)
(* A caller has at most one find in progress: all receives of a finder     *)
(* share the write position of one streambuf, and a second one would write *)
(* where the first one does.                                               *)
(***************************************************************************)
EXTENDS Naturals, Sequences, HttpResponse, GatewayDescription

CONSTANTS Finds,      \* identities of the calls of async_find
          Replies,    \* the datagrams the network may send to the socket
          Documents,  \* Documents[e]: the answers the server at endpoint e gives
          MaxReplies, \* bound on the number of datagrams in a behaviour
          Room,       \* buffer_size: the bytes a receive has room for
          NoDevice    \* the default-constructed device

(* A reply: how many bytes of it are received, its parts as an HTTP        *)
(* response, and its location field, if it has one.                        *)
IsReply(r) == /\ {"size", "head", "located"} \subseteq DOMAIN r
              /\ r.size \in 0 .. Room
              /\ r.located => "location" \in DOMAIN r

ASSUME RepliesAssumption    == \A r \in Replies : IsReply(r)
ASSUME MaxRepliesAssumption == MaxReplies \in Nat
ASSUME RoomAssumption       == Room \in Nat \ {0}

VARIABLES
  socket,    \* _socket: "closed", "open" (no local port yet) or "bound"
  ec,        \* the error_code of the caller's last start or stop is set
  searched,  \* a search has gone out on this socket
  inbox,     \* datagrams queued in the socket
  sent,      \* number of datagrams sent to the socket so far
  ops,       \* receive operations started and not yet handed to recv_handler
  step,      \* where recv_handler is: "none", "fetching", "callback" or
             \* "consuming" (the next datagram has been asked for)
  current,   \* the receive operation recv_handler runs for, if it runs
  device,    \* the device in the hands of the callback
  buffer,    \* _streambuf: its get and put positions and the end of its memory
  find,      \* find[f]: what has become of find f
  escaped    \* an exception has left a handler (and io_service::run)

vars == <<socket, ec, searched, inbox, sent, ops, step, current, device,
          buffer, find, escaped>>

network == <<searched, inbox, sent>>
handler == <<step, current, device>>

(* "active": its callback is still to be called; "reported" and "failed":  *)
(* the callback was called, with a device or with an error; "dropped": the *)
(* handler returned without calling it or receiving again; "thrown": the   *)
(* handler was left by an exception.                                       *)
FindStates == {"new", "active", "reported", "failed", "dropped", "thrown"}

(* The result of a receive operation: none yet, an error, or a datagram. *)
NoReply == [size |-> 0]
Waiting == [st |-> "pending", reply |-> NoReply]
Errored == [st |-> "error", reply |-> NoReply]
Received(r) == [st |-> "received", reply |-> r]

Results == {Waiting, Errored} \cup {Received(r) : r \in Replies}

(* An operation writes into the memory of _streambuf that prepare() gave   *)
(* it: from the put position that was, in the memory that ended there.     *)
Operations == [find : Finds, result : Results, from : Nat, end : Nat]

NoOperation == [find |-> "none", result |-> Errored, from |-> 0, end |-> 0]

IsBuffer(b) == /\ b \in [get : Nat, put : Nat, end : Nat]
               /\ b.get <= b.put /\ b.put <= b.end

TypeOK == /\ socket \in {"closed", "open", "bound"}
          /\ ec \in BOOLEAN
          /\ searched \in BOOLEAN
          /\ inbox \in Seq(Replies)
          /\ sent \in 0 .. MaxReplies
          /\ ops \in SUBSET Operations
          /\ step \in {"none", "fetching", "callback", "consuming"}
          /\ current \in Operations \cup {NoOperation}
          /\ (step # "none") => current \in Operations
          /\ IsBuffer(buffer)
          /\ find \in [Finds -> FindStates]
          /\ escaped \in BOOLEAN

------------------------------------------------------------------------------
Init == /\ socket = "closed"
        /\ ec = FALSE
        /\ searched = FALSE
        /\ inbox = <<>>
        /\ sent = 0
        /\ ops = {}
        /\ step = "none"
        /\ current = NoOperation
        /\ device = NoDevice
        /\ buffer = [get |-> 0, put |-> 0, end |-> 0]
        /\ find = [f \in Finds |-> "new"]
        /\ escaped = FALSE

------------------------------------------------------------------------------
(* The streambuf.  Its memory only grows, so that two allocations never    *)
(* have the same end.                                                      *)

Unread(b) == b.put - b.get

(* prepare(): when there is not enough room behind the put position, what  *)
(* is unread moves to the start of the memory, which grows if it must.     *)
Prepared(b) ==
  IF b.put + Room <= b.end THEN b
  ELSE [get |-> 0,
        put |-> Unread(b),
        end |-> IF Unread(b) + Room <= b.end THEN b.end ELSE Unread(b) + Room]

(* commit() makes n bytes behind the put position readable; consume()      *)
(* drops n readable ones.  Neither goes further than there are bytes.      *)
Committed(b, n) == [b EXCEPT !.put = IF b.put + n <= b.end THEN b.put + n ELSE b.end]
Consumed(b, n)  == [b EXCEPT !.get = IF b.get + n <= b.put THEN b.get + n ELSE b.put]

------------------------------------------------------------------------------
(* The application runs between handlers and inside the callback. *)
AppMayRun == step \in {"none", "callback"}

(* async_receive: it waits for a datagram, or completes with an error at   *)
(* once when the socket is closed or has no local port.                    *)
Receive(f) == [find   |-> f,
               result |-> IF socket = "bound" THEN Waiting ELSE Errored,
               from   |-> Prepared(buffer).put,
               end    |-> Prepared(buffer).end]

AsyncReceive(f) == /\ ops' = ops \cup {Receive(f)}
                   /\ buffer' = Prepared(buffer)

(* A call of async_find by the application. *)
AsyncFind(f) == /\ AppMayRun
                /\ ops = {}
                /\ find[f] = "new"
                /\ AsyncReceive(f)
                /\ find' = [find EXCEPT ![f] = "active"]
                /\ UNCHANGED <<socket, ec, network, handler, escaped>>

------------------------------------------------------------------------------
(* start(ec), with the error_code of the last call or a fresh one, or      *)
(* start(), which makes a fresh one and throws it: "set" is whether the    *)
(* error_code is set on entry.                                             *)

(* Opening the socket fails, or binding it, which leaves it open. *)
InitSocketFails ==
  /\ socket = "closed"
  /\ ec' = TRUE
  /\ socket' \in {"closed", "open"}
  /\ UNCHANGED searched

(* The socket is open and the error_code was set before the call. *)
ReturnEarly(set) ==
  /\ socket # "closed" /\ set
  /\ ec' = TRUE
  /\ UNCHANGED <<socket, searched>>

(* The search is sent; sending gives an unbound socket its local port. *)
SendSearch(set) ==
  /\ socket = "closed" \/ ~set
  /\ ec' = FALSE
  /\ socket' = "bound"
  /\ searched' = TRUE

(* send_to fails; an unbound socket may have got its local port by then. *)
SendFails(set) ==
  /\ socket = "closed" \/ ~set
  /\ ec' = TRUE
  /\ socket' \in IF socket = "closed" THEN {"bound"} ELSE {socket, "bound"}
  /\ UNCHANGED searched

Start == /\ AppMayRun
         /\ \/ InitSocketFails
            \/ \E set \in {ec, FALSE} :
                 ReturnEarly(set) \/ SendSearch(set) \/ SendFails(set)
         /\ UNCHANGED <<inbox, sent, ops, handler, buffer, find, escaped>>

(* The receives that wait for a datagram end with operation_aborted; one   *)
(* that already has its datagram keeps it.                                 *)
Aborted == {[o EXCEPT !.result = IF @ = Waiting THEN Errored ELSE @] : o \in ops}

(* stop(ec) of an open socket.  On a closed one it does nothing. *)
Stop == /\ AppMayRun
        /\ socket # "closed"
        /\ socket' = "closed"
        /\ ec' = FALSE
        /\ searched' = FALSE
        /\ inbox' = <<>>
        /\ ops' = Aborted
        /\ UNCHANGED <<sent, handler, buffer, find, escaped>>

------------------------------------------------------------------------------
(* The network and the kernel.                                             *)

(* A datagram arrives: an answer to the search, a duplicate of one, or     *)
(* anything else somebody sends to the port.  Lost ones do not arrive.     *)
Arrive(r) == /\ socket = "bound" /\ searched
             /\ sent < MaxReplies
             /\ sent' = sent + 1
             /\ inbox' = Append(inbox, r)
             /\ UNCHANGED <<socket, ec, searched, ops, handler, buffer, find,
                            escaped>>

Complete(o, result) == ops' = (ops \ {o}) \cup {[o EXCEPT !.result = result]}

(* The datagram at the head of the queue goes to a receive that waits. *)
Deliver == /\ inbox # <<>>
           /\ \E o \in ops : /\ o.result = Waiting
                             /\ Complete(o, Received(Head(inbox)))
           /\ inbox' = Tail(inbox)
           /\ UNCHANGED <<socket, ec, searched, sent, handler, buffer, find,
                          escaped>>

(* A receive fails, as after an ICMP message about the search. *)
ReceiveFails == /\ \E o \in ops : o.result = Waiting /\ Complete(o, Errored)
                /\ UNCHANGED <<socket, ec, network, handler, buffer, find,
                               escaped>>

------------------------------------------------------------------------------
(* recv_handler, up to the request for the description.                    *)

(* The handler starts for operation o. *)
Dispatch(o) == /\ step = "none"
               /\ o.result # Waiting
               /\ ops' = ops \ {o}

Becomes(f, state) == find' = [find EXCEPT ![f] = state]

(* The handler ends without calling the callback. *)
Return == /\ step' = "none"
          /\ current' = NoOperation
          /\ device' = NoDevice

(* Faults: an error is taken for that of an operation long gone; an error  *)
(* is answered by receiving again.                                         *)
HandleErrorForgets(o) == /\ Dispatch(o)
                         /\ o.result = Errored
                         /\ Becomes(o.find, "failed")
                         /\ step' = "callback"
                         /\ device' = NoDevice
                         /\ UNCHANGED <<current, buffer, escaped>>
HandleErrorRetries(o) == /\ step = "none"
                         /\ o.result = Errored
                         /\ ops' = (ops \ {o}) \cup {Receive(o.find)}
                         /\ buffer' = Prepared(buffer)
                         /\ Return
                         /\ UNCHANGED <<find, escaped>>

(* An error: the callback is called with a default device and the error. *)
HandleError(o) == /\ Dispatch(o)
                  /\ o.result = Errored
                  /\ Becomes(o.find, "failed")
                  /\ step' = "callback"
                  /\ current' = o
                  /\ device' = NoDevice
                  /\ UNCHANGED <<buffer, escaped>>

(* A datagram without bytes. *)
HandleEmpty(o) == /\ Dispatch(o)
                  /\ o.result # Errored
                  /\ o.result.reply.size = 0
                  /\ Becomes(o.find, "dropped")
                  /\ Return
                  /\ UNCHANGED <<buffer, escaped>>

HasBytes(o) == o.result # Errored /\ o.result.reply.size > 0

(* What reading the response out of _streambuf comes to.  Bytes left there *)
(* by an earlier handler come first and are no status line.                *)
Parsed(r) == IF Unread(buffer) > 0 THEN "fail" ELSE Read(r.head)

(* _streambuf once r has been committed to b and the response read: up to  *)
(* the end, or not so far.                                                 *)
AfterReading(b, r) ==
  LET c == Committed(b, r.size)
  IN  {[c EXCEPT !.get = g] :
         g \in IF Unread(b) > 0 \/ MayLeaveBytes(r.head)
               THEN c.get + 1 .. c.put ELSE {c.put}}

(* Fault: the handler returns without consuming what it cannot use. *)
HandleUnusableKeeps(o) ==
  LET r == o.result.reply
  IN  /\ Dispatch(o)
      /\ HasBytes(o)
      /\ \/ Parsed(r) = "fail"
         \/ Parsed(r) = "good" /\ ~r.located
      /\ Becomes(o.find, "dropped")
      /\ buffer' \in AfterReading(buffer, r)
      /\ Return
      /\ UNCHANGED escaped

(* Neither a response nor a location: as many bytes as the datagram has    *)
(* are consumed.  When it came after older bytes, some may remain.         *)
HandleUnusable(o) ==
  LET r == o.result.reply
  IN  /\ Dispatch(o)
      /\ HasBytes(o)
      /\ \/ Parsed(r) = "fail"
         \/ Parsed(r) = "good" /\ ~r.located
      /\ Becomes(o.find, "dropped")
      /\ buffer' \in {Consumed(b, r.size) : b \in AfterReading(buffer, r)}
      /\ Return
      /\ UNCHANGED escaped

(* An exception leaves the handler: consume() is not reached. *)
Escape(o) == /\ Becomes(o.find, "thrown")
             /\ escaped' = TRUE
             /\ Return

(* A Content-Length that is not a number, or a location that is not a URL. *)
HandleThrows(o) ==
  LET r == o.result.reply
  IN  /\ Dispatch(o)
      /\ HasBytes(o)
      /\ \/ Parsed(r) = "throw"
         \/ Parsed(r) = "good" /\ r.located /\ UrlThrows(r.location)
      /\ buffer' \in AfterReading(buffer, r)
      /\ Escape(o)

(* Fault: the next datagram is asked for before this one is committed. *)
HandleLocatedReceives(o) ==
  LET r == o.result.reply
  IN  /\ step = "none"
      /\ HasBytes(o) /\ o.result # Waiting
      /\ Parsed(r) = "good" /\ r.located /\ ~UrlThrows(r.location)
      /\ ops' = (ops \ {o}) \cup {Receive(o.find)}
      /\ buffer' \in AfterReading(Prepared(buffer), r)
      /\ step' = "fetching"
      /\ current' = o
      /\ device' = NoDevice
      /\ UNCHANGED <<find, escaped>>

(* The description is requested from the location. *)
HandleLocated(o) ==
  LET r == o.result.reply
  IN  /\ Dispatch(o)
      /\ HasBytes(o)
      /\ Parsed(r) = "good" /\ r.located /\ ~UrlThrows(r.location)
      /\ buffer' \in AfterReading(buffer, r)
      /\ step' = "fetching"
      /\ current' = o
      /\ device' = NoDevice
      /\ UNCHANGED <<find, escaped>>

Handle == /\ \E o \in ops : \/ HandleError(o)
                            \/ HandleEmpty(o)
                            \/ HandleUnusable(o)
                            \/ HandleThrows(o)
                            \/ HandleLocated(o)
          /\ UNCHANGED <<socket, ec, network>>

------------------------------------------------------------------------------
(* recv_handler, from the answer to the request on.                        *)

(* An answer: whether the request reached a server, and then the response, *)
(* whether its body is well-formed XML, and the document it holds.         *)
Refused == [connected |-> FALSE]

(* The url of the description, and what may come back from it.  A server   *)
(* without answers keeps execute_request waiting: there is no time-out.    *)
BaseUrl == ParseUrl(current.result.reply.location)
Answers == IF Endpoint(BaseUrl) \in DOMAIN Documents
           THEN Documents[Endpoint(BaseUrl)]
           ELSE {Refused}

ReadAnswer(a) == IF a.connected THEN Read(a.head) ELSE "fail"
Described(a)  == ReadAnswer(a) = "good" /\ IsOk(a.head)

(* The response or the document makes a conversion throw. *)
FetchThrows(a) ==
  /\ \/ ReadAnswer(a) = "throw"
     \/ Described(a) /\ a.wellFormed /\ ParseInfoThrows(a.doc)
  /\ Escape(current)
  /\ UNCHANGED <<ops, buffer>>

(* What is left of the datagram is consumed: as many bytes as it has. *)
ConsumeDatagram == buffer' = Consumed(buffer, current.result.reply.size)

(* No description: the handler ends as after an unusable datagram. *)
FetchFails(a) ==
  /\ ReadAnswer(a) # "throw" /\ ~Described(a)
  /\ Becomes(current.find, "dropped")
  /\ ConsumeDatagram
  /\ Return
  /\ UNCHANGED <<ops, escaped>>

(* Faults: the find is forgotten, or ends, at what another device answers. *)
NextDeviceForgets(a) == /\ Described(a)
                        /\ ~a.wellFormed \/ NotAGateway(a.doc)
                        /\ step' = "consuming"
                        /\ UNCHANGED <<ops, current, device, buffer, find,
                                       escaped>>
NextDeviceDrops(a) == /\ Described(a)
                      /\ ~a.wellFormed \/ NotAGateway(a.doc)
                      /\ Becomes(current.find, "dropped")
                      /\ step' = "consuming"
                      /\ UNCHANGED <<ops, current, device, buffer, escaped>>

(* A description, but not a gateway's: the find goes on with the next      *)
(* datagram, which is asked for before this one is consumed.               *)
NextDevice(a) ==
  /\ Described(a)
  /\ ~a.wellFormed \/ NotAGateway(a.doc)
  /\ AsyncReceive(current.find)
  /\ step' = "consuming"
  /\ UNCHANGED <<current, device, find, escaped>>

(* Fault: the search goes on after the callback has been called. *)
GatewayFoundContinues(a) ==
  /\ Described(a) /\ a.wellFormed
  /\ ~NotAGateway(a.doc) /\ ~ParseInfoThrows(a.doc)
  /\ Becomes(current.find, "reported")
  /\ AsyncReceive(current.find)
  /\ step' = "callback"
  /\ device' = ControlUrl(BaseUrl, a.doc)
  /\ UNCHANGED <<current, escaped>>

(* A gateway: the callback is called with it. *)
GatewayFound(a) ==
  /\ Described(a) /\ a.wellFormed
  /\ ~NotAGateway(a.doc) /\ ~ParseInfoThrows(a.doc)
  /\ Becomes(current.find, "reported")
  /\ step' = "callback"
  /\ device' = ControlUrl(BaseUrl, a.doc)
  /\ UNCHANGED <<ops, current, buffer, escaped>>

Fetch == /\ step = "fetching"
         /\ \E a \in Answers : \/ FetchThrows(a)
                                 \/ FetchFails(a)
                                 \/ NextDevice(a)
                                 \/ GatewayFound(a)
         /\ UNCHANGED <<socket, ec, network>>

(* The rest of the handler, after asking for the next datagram. *)
Consume == /\ step = "consuming"
           /\ ConsumeDatagram
           /\ Return
           /\ UNCHANGED <<socket, ec, network, ops, find, escaped>>

(* The callback returns; after a device, what is left of the datagram is   *)
(* consumed.                                                               *)
CallbackReturns == /\ step = "callback"
                   /\ IF find[current.find] = "reported"
                      THEN ConsumeDatagram ELSE UNCHANGED buffer
                   /\ Return
                   /\ UNCHANGED <<socket, ec, network, ops, find, escaped>>

(* The callback throws, as a failed BOOST_REQUIRE does: consume() is not   *)
(* reached.                                                                *)
CallbackThrows == /\ step = "callback"
                  /\ escaped' = TRUE
                  /\ Return
                  /\ UNCHANGED <<socket, ec, network, ops, buffer, find>>

------------------------------------------------------------------------------
App == Start \/ Stop \/ \E f \in Finds : AsyncFind(f)

Network == Deliver \/ ReceiveFails \/ \E r \in Replies : Arrive(r)

Next == \/ App \/ Network
        \/ Handle \/ Fetch \/ Consume \/ CallbackReturns \/ CallbackThrows

(* The io_service runs every handler whose operation has completed, a      *)
(* handler runs on, the callback ends (or throws), a server that has an    *)
(* answer gives it, and what the kernel has queued completes a receive, as *)
(* long as io_service::run goes on.  An exception out of a handler ends    *)
(* run, and nothing has to call it again: handlers may run after that      *)
(* (another call of run), but need not.                                    *)
Fairness == /\ WF_vars(~escaped /\ Deliver)
            /\ WF_vars(~escaped /\ Handle)
            /\ WF_vars(~escaped /\ Fetch)
            /\ WF_vars(~escaped /\ Consume)
            /\ WF_vars(~escaped /\ (CallbackReturns \/ CallbackThrows))

Safety == Init /\ [][Next]_vars

Spec == Safety /\ Fairness

------------------------------------------------------------------------------
(* Every find whose callback is still to be called has an operation that   *)
(* will run recv_handler for it, or has the handler that is fetching, and  *)
(* no other find has: none is forgotten by a retry, a stop, an exception   *)
(* or a nested async_find, and none is still worked for after its end.     *)
EveryFindAccounted ==
  \A f \in Finds : (find[f] = "active") <=> \/ \E o \in ops : o.find = f
                                           \/ /\ step = "fetching"
                                              /\ current.find = f

(* A datagram is received behind everything that is still unread, and      *)
(* commit() finds it there: whatever has been committed, consumed or moved *)
(* since the receive was asked for, the memory it writes to is that of     *)
(* _streambuf as it is now, from the present put position on.  Both        *)
(* recv_handler and the callback may ask for the next datagram before the  *)
(* one in hand is consumed.                                                *)
ReceivesBehindUnread ==
  \A o \in ops : o.from = buffer.put /\ o.end = buffer.end

(* A datagram is read from the first byte that is unread: whatever the     *)
(* handlers before it did, none of their bytes are left when they have     *)
(* returned, unless an exception has come out of one of them and skipped   *)
(* consume().                                                              *)
CleanBuffer == step = "none" /\ Unread(buffer) > 0 => escaped

(* The callback of a find is called at most once, and a find that has      *)
(* ended, in whichever way, is not taken up again.                         *)
CalledOnce ==
  [][\A f \in Finds :
       find[f] \notin {"new", "active"} => find'[f] = find[f]]_vars

(* stop ends the find in progress: with the socket closed, its callback is *)
(* called (or its handler ends) unless the caller opens the socket again.  *)
(* Only a server that never answers can keep a handler from its end, and   *)
(* only an exception out of a handler can keep the find from its handler.  *)
Hung == step = "fetching" /\ Answers = {}

StopEndsFinds ==
  \A f \in Finds :
    (find[f] = "active" /\ socket = "closed")
      ~> (find[f] # "active" \/ socket # "closed" \/ Hung \/ escaped)

(* A reply whose description recv_handler asks for. *)
Usable(r) == /\ r.size > 0 /\ Read(r.head) = "good"
             /\ r.located /\ ~UrlThrows(r.location)

(* A find is answered, whichever devices are heard first: once a gateway's *)
(* reply is queued in the socket, the callback is called, unless the       *)
(* caller stops the finder.                                                *)
LeadsToGateway(r) ==
  /\ Usable(r)
  /\ LET base == Endpoint(ParseUrl(r.location))
     IN  /\ base \in DOMAIN Documents /\ Documents[base] # {}
         /\ \A a \in Documents[base] : /\ Described(a) /\ a.wellFormed
                                       /\ ~NotAGateway(a.doc)
                                       /\ ~ParseInfoThrows(a.doc)

GatewayQueued == \E i \in 1 .. Len(inbox) : LeadsToGateway(inbox[i])

SearchAnswered ==
  \A f \in Finds :
    (find[f] = "active" /\ GatewayQueued)
      ~> (find[f] \in {"reported", "failed"} \/ socket = "closed")

(* What the code does keep of this: devices that are not gateways but give *)
(* their descriptions do not end a search.  A find that is not working for *)
(* a bad reply, and has none in front of the gateway's, is answered, as    *)
(* long as the finder is not stopped and no exception out of a callback    *)
(* (in which the find was started) ends io_service::run.                   *)
LeadsOn(r) ==
  /\ Usable(r)
  /\ LET base == Endpoint(ParseUrl(r.location))
     IN  /\ base \in DOMAIN Documents /\ Documents[base] # {}
         /\ \A a \in Documents[base] : /\ Described(a)
                                       /\ ~a.wellFormed \/ NotAGateway(a.doc)

InHand == {o.result.reply : o \in {p \in ops : p.result \notin {Waiting, Errored}}}
          \cup (IF step = "fetching" THEN {current.result.reply} ELSE {})

GatewayIsNext == \E i \in 1 .. Len(inbox) : /\ LeadsToGateway(inbox[i])
                                           /\ \A j \in 1 .. i - 1 : LeadsOn(inbox[j])

SearchGoesOn ==
  \A f \in Finds :
    (/\ find[f] = "active" /\ GatewayIsNext
     /\ \A r \in InHand : LeadsOn(r) \/ LeadsToGateway(r))
      ~> (find[f] \in {"reported", "failed"} \/ socket = "closed" \/ escaped)

(* The methods of a device given to the callback reach a server of the     *)
(* network: those that send requests to its control URL, and               *)
(* get_internal_ip, which connects to its host and port by itself.         *)
MethodsReachDevice ==
  (step = "callback" /\ find[current.find] = "reported")
    => /\ Endpoint(device) \in DOMAIN Documents
       /\ InternalIpEndpoint(device) \in DOMAIN Documents
------------------------------------------------------------------------------
(* The promise to the caller (AbstractFinder).  A datagram has been heard  *)
(* from its arrival until recv_handler is done with it: one in the hands   *)
(* of a receive or of the handler comes before those in the socket.        *)
Heard == IF InHand = {} THEN inbox
                        ELSE <<CHOOSE r \in InHand : TRUE>> \o inbox

(* The devices that a reply leads to: the control URLs in the answers of   *)
(* the server it names that describe a gateway.                            *)
DevicesAt(base) ==
  {ControlUrl(base, a.doc) :
     a \in {b \in Documents[Endpoint(base)] :
             /\ Described(b) /\ b.wellFormed
             /\ ~NotAGateway(b.doc) /\ ~ParseInfoThrows(b.doc)}}

DevicesOf ==
  [r \in Replies |->
     IF Usable(r) /\ Endpoint(ParseUrl(r.location)) \in DOMAIN Documents
     THEN DevicesAt(ParseUrl(r.location)) ELSE {}]

(* The callback that runs. *)
Calling == IF step = "callback" THEN {[find |-> current.find, device |-> device]}
                                ELSE {}

Promise == INSTANCE AbstractFinder
             WITH Devices <- DevicesOf, searching <- searched,
                  heard <- Heard, calling <- Calling

(* The finder keeps its promise: every datagram is taken by one find, in   *)
(* the order of arrival; a find ends once, and the device its callback is  *)
(* given, once, is one that the datagram taken last leads to.              *)
PromiseKept == Promise!Spec
==============================================================================
