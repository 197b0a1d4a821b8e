------------------------- MODULE DeviceFinderProofs --------------------------
(***************************************************************************)
(* Safety of DeviceFinder for every set of finds, every network and every  *)
(* number of datagrams.                                                    *)
(*                                                                         *)
(* EveryFindAccounted is inductive only with OneReceive: that a re-armed   *)
(* find is the only one with an operation needs that there was no          *)
(* operation while the handler fetched, and that the callback may start a  *)
(* find needs that the find it was called for is over (CallbackIsLast).    *)
(* ReceivesBehindUnread needs it too: a commit() would move the put        *)
(* position under a second receive.  CleanBuffer speaks of the moments     *)
(* between handlers; OwnBytes says what is unread while one runs.          *)
(* From them follows that the finder implements AbstractFinder, step by    *)
(* step; HeardIsKnown says what the abstract queue is in every state.      *)
(***************************************************************************)
EXTENDS DeviceFinder, TLAPS

(* While the callback runs, the find it was called for has ended. *)
CallbackIsLast ==
  step = "callback" => find[current.find] \in {"reported", "failed"}

(* At most one receive is outstanding, and none while recv_handler waits   *)
(* for a description.                                                      *)
OneReceive == /\ \A o, p \in ops : o = p
              /\ step = "fetching" => ops = {}

(* The bytes the handler that runs is still going to consume. *)
ToConsume == IF \/ step \in {"fetching", "consuming"}
                \/ step = "callback" /\ find[current.find] = "reported"
             THEN current.result.reply.size ELSE 0

(* Unless an exception has come out of a handler, no more than the datagram *)
(* in hand is unread.                                                      *)
OwnBytes == ~escaped => Unread(buffer) <= ToConsume

FinderInv == /\ TypeOK
             /\ EveryFindAccounted
             /\ OneReceive
             /\ ReceivesBehindUnread
             /\ OwnBytes
             /\ CallbackIsLast

------------------------------------------------------------------------------
(* The streambuf.                                                          *)

(* prepare() keeps what is unread. *)
LEMMA PreparedBuffer ==
  ASSUME NEW b, IsBuffer(b)
  PROVE  /\ IsBuffer(Prepared(b))
         /\ Unread(Prepared(b)) = Unread(b)
  BY RoomAssumption DEF IsBuffer, Prepared, Unread

(* After a commit() and reading, no more is unread than was or has come. *)
LEMMA ReadBuffer ==
  ASSUME NEW b, IsBuffer(b), NEW r, r.size \in Nat, NEW c \in AfterReading(b, r)
  PROVE  /\ IsBuffer(c)
         /\ Unread(c) <= Unread(b) + r.size
  <1> DEFINE d == Committed(b, r.size)
  <1>1. IsBuffer(d) /\ d.get = b.get /\ d.put <= b.put + r.size
    BY DEF IsBuffer, Committed
  <1>2. PICK g \in d.get + 1 .. d.put \cup {d.put} : c = [d EXCEPT !.get = g]
    BY DEF AfterReading
  <1> HIDE DEF d
  <1>3. g \in Nat /\ d.get <= g /\ g <= d.put
    BY <1>1, <1>2 DEF IsBuffer
  <1>4. QED
    BY <1>1, <1>2, <1>3 DEF IsBuffer, Unread

(* consume() drops what is unread, or as much as it is told to. *)
LEMMA ConsumedBuffer ==
  ASSUME NEW b, IsBuffer(b), NEW n \in Nat
  PROVE  /\ IsBuffer(Consumed(b, n))
         /\ Consumed(b, n).put = b.put /\ Consumed(b, n).end = b.end
         /\ Unread(b) <= n => Unread(Consumed(b, n)) = 0
  BY DEF IsBuffer, Consumed, Unread

LEMMA ReplySize ==
  ASSUME NEW o \in Operations
  PROVE  o.result.reply.size \in Nat
  BY RepliesAssumption DEF Operations, Results, Waiting, Errored, Received,
     NoReply, IsReply

------------------------------------------------------------------------------
LEMMA ReceiveType ==
  ASSUME NEW f \in Finds
  PROVE  /\ IsBuffer(buffer) => Receive(f) \in Operations
         /\ Receive(f).find = f
         /\ Receive(f).from = Prepared(buffer).put
         /\ Receive(f).end = Prepared(buffer).end
  <1>1. IsBuffer(buffer) => Prepared(buffer).put \in Nat /\ Prepared(buffer).end \in Nat
    BY PreparedBuffer DEF IsBuffer
  <1>2. QED
    BY <1>1 DEF Receive, Operations, Results

LEMMA CompleteType ==
  ASSUME NEW o \in Operations, NEW r \in Results
  PROVE  /\ [o EXCEPT !.result = r] \in Operations
         /\ [o EXCEPT !.result = r].find = o.find
         /\ [o EXCEPT !.result = r].from = o.from
         /\ [o EXCEPT !.result = r].end = o.end
  BY DEF Operations

LEMMA AbortedType ==
  ASSUME ops \in SUBSET Operations
  PROVE  /\ Aborted \in SUBSET Operations
         /\ \A f \in Finds : (\E o \in ops : o.find = f)
                               <=> (\E o \in Aborted : o.find = f)
         /\ (\A o, p \in ops : o = p) => (\A o, p \in Aborted : o = p)
         /\ \A p \in Aborted : \E o \in ops : p.from = o.from /\ p.end = o.end
  <1> DEFINE A(o) == [o EXCEPT !.result = IF @ = Waiting THEN Errored ELSE @]
  <1>1. \A o \in ops : /\ A(o) \in Operations
                       /\ A(o).find = o.find
                       /\ A(o).from = o.from /\ A(o).end = o.end
    BY DEF Operations, Results
  <1>2. Aborted = {A(o) : o \in ops}
    BY DEF Aborted
  <1> HIDE DEF A
  <1>3. QED
    BY <1>1, <1>2

------------------------------------------------------------------------------
(* Type correctness.                                                       *)

LEMMA InitTypeOK == Init => TypeOK
  <1>1. <<>> \in Seq(Replies)
    OBVIOUS
  <1>2. 0 \in 0 .. MaxReplies
    BY MaxRepliesAssumption
  <1>3. Init => IsBuffer(buffer)
    BY DEF Init, IsBuffer
  <1>4. QED
    BY <1>1, <1>2, <1>3 DEF Init, TypeOK, FindStates

LEMMA StepTypeOK == TypeOK /\ [Next]_vars => TypeOK'
  <1> SUFFICES ASSUME TypeOK, [Next]_vars
               PROVE  TypeOK'
    OBVIOUS
  <1> USE DEF TypeOK, FindStates, network, handler, AppMayRun
  <1>1. CASE Start
    BY <1>1 DEF Start, InitSocketFails, ReturnEarly, SendSearch, SendFails
  <1>2. CASE Stop
    <2>1. <<>> \in Seq(Replies)
      OBVIOUS
    <2>2. ops' \in SUBSET Operations
      BY <1>2, AbortedType DEF Stop
    <2>3. QED
      BY <1>2, <2>1, <2>2 DEF Stop
  <1>3. ASSUME NEW f \in Finds, AsyncFind(f)
        PROVE  TypeOK'
    BY <1>3, ReceiveType, PreparedBuffer DEF AsyncFind, AsyncReceive
  <1>4. CASE Deliver
    <2>1. PICK o \in ops : Complete(o, Received(Head(inbox)))
      BY <1>4 DEF Deliver
    <2>2. /\ Head(inbox) \in Replies
          /\ inbox' \in Seq(Replies)
      BY <1>4 DEF Deliver
    <2>3. Received(Head(inbox)) \in Results
      BY <2>2 DEF Results
    <2>4. ops' \in SUBSET Operations
      BY <2>1, <2>3, CompleteType DEF Complete
    <2>5. QED
      BY <1>4, <2>2, <2>4 DEF Deliver
  <1>5. CASE ReceiveFails
    <2>1. Errored \in Results
      BY DEF Results
    <2>2. ops' \in SUBSET Operations
      BY <1>5, <2>1, CompleteType DEF ReceiveFails, Complete
    <2>3. QED
      BY <1>5, <2>2 DEF ReceiveFails
  <1>6. ASSUME NEW r \in Replies, Arrive(r)
        PROVE  TypeOK'
    BY <1>6, MaxRepliesAssumption DEF Arrive
  <1>7. CASE Handle
    <2>1. PICK o \in ops : \/ HandleError(o)
                           \/ HandleEmpty(o)
                           \/ HandleUnusable(o)
                           \/ HandleThrows(o)
                           \/ HandleLocated(o)
      BY <1>7 DEF Handle
    <2>2. o.find \in Finds /\ o.result.reply.size \in Nat
      BY ReplySize DEF Operations
    <2> DEFINE r == o.result.reply
    <2>3. /\ \A b \in AfterReading(buffer, r) : IsBuffer(b)
          /\ \A b \in AfterReading(buffer, r) : IsBuffer(Consumed(b, r.size))
      BY <2>2, ReadBuffer, ConsumedBuffer
    <2> HIDE DEF r
    <2>4. IsBuffer(buffer')
      BY <2>1, <2>3 DEF HandleError, HandleEmpty, HandleUnusable, HandleThrows,
           HandleLocated, r
    <2>5. QED
      BY <1>7, <2>1, <2>2, <2>4 DEF Handle, Dispatch, Becomes, Return, Escape,
           HandleError, HandleEmpty, HandleUnusable, HandleThrows, HandleLocated
  <1>8. CASE Fetch
    <2>1. PICK a \in Answers : \/ FetchThrows(a)
                               \/ FetchFails(a)
                               \/ NextDevice(a)
                               \/ GatewayFound(a)
      BY <1>8 DEF Fetch
    <2>2. current \in Operations /\ current.find \in Finds
      BY <1>8 DEF Fetch, Operations
    <2>3. IsBuffer(buffer')
      BY <2>1, <2>2, PreparedBuffer, ConsumedBuffer, ReplySize DEF FetchThrows,
           FetchFails, NextDevice, GatewayFound, AsyncReceive, ConsumeDatagram
    <2>4. QED
      BY <1>8, <2>1, <2>2, <2>3, ReceiveType DEF Fetch, Becomes, Return, Escape,
           FetchThrows, FetchFails, NextDevice, GatewayFound, AsyncReceive
  <1>9. CASE Consume \/ CallbackReturns \/ CallbackThrows
    <2>1. IsBuffer(buffer')
      BY <1>9, ConsumedBuffer, ReplySize DEF Consume, CallbackReturns,
         CallbackThrows, ConsumeDatagram
    <2>2. QED
      BY <1>9, <2>1 DEF Consume, CallbackReturns, CallbackThrows, Return
  <1>10. CASE UNCHANGED vars
    BY <1>10 DEF vars
  <1>11. QED
    BY <1>1, <1>2, <1>3, <1>4, <1>5, <1>6, <1>7, <1>8, <1>9, <1>10
       DEF Next, App, Network

(* The variables of the finder, its socket and its handlers keep their     *)
(* types in every network.                                                 *)
THEOREM FinderTypeCorrect == Safety => []TypeOK
  BY InitTypeOK, StepTypeOK, PTL DEF Safety

------------------------------------------------------------------------------
(* The invariant.                                                          *)

LEMMA FinderInvInit == Init => FinderInv
  BY InitTypeOK DEF Init, FinderInv, EveryFindAccounted, OneReceive,
     ReceivesBehindUnread, OwnBytes, ToConsume, Unread, CallbackIsLast

(* What recv_handler does before the request. *)
LEMMA HandleKeepsInv == FinderInv /\ TypeOK' /\ Handle => FinderInv'
  <1> SUFFICES ASSUME FinderInv, TypeOK', Handle
               PROVE  FinderInv'
    OBVIOUS
  <1>1. PICK o \in ops : \/ HandleError(o)
                         \/ HandleEmpty(o)
                         \/ HandleUnusable(o)
                         \/ HandleThrows(o)
                         \/ HandleLocated(o)
    BY DEF Handle
  <1>2. /\ o.find \in Finds
        /\ find \in [Finds -> FindStates]
        /\ step = "none" /\ ops = {o} /\ ops' = {}
        /\ \A f \in Finds : find[f] = "active" <=> f = o.find
    <2>1. Dispatch(o)
      BY <1>1 DEF HandleError, HandleEmpty, HandleUnusable, HandleThrows,
           HandleLocated
    <2>2. o.find \in Finds /\ find \in [Finds -> FindStates]
      BY DEF FinderInv, TypeOK, Operations
    <2>3. step = "none" /\ ops = {o} /\ ops' = {}
      BY <2>1 DEF FinderInv, OneReceive, Dispatch
    <2>4. \A f \in Finds : find[f] = "active" <=> f = o.find
      BY <2>3 DEF FinderInv, EveryFindAccounted
    <2>5. QED
      BY <2>2, <2>3, <2>4
  <1>3. EveryFindAccounted'
    BY <1>1, <1>2 DEF EveryFindAccounted, Becomes, Return, Escape, HandleError,
         HandleEmpty, HandleUnusable, HandleThrows, HandleLocated
  <1>4. OneReceive'
    BY <1>2 DEF OneReceive
  <1>5. ReceivesBehindUnread' /\ OwnBytes'
    <2>1. ReceivesBehindUnread'
      BY <1>2 DEF ReceivesBehindUnread
    <2> DEFINE r == o.result.reply
    <2>2. IsBuffer(buffer) /\ r.size \in Nat
      BY ReplySize DEF FinderInv, TypeOK
    <2>3. ~escaped => Unread(buffer) <= 0
      BY <1>2 DEF FinderInv, OwnBytes, ToConsume
    <2>4. ASSUME NEW b \in AfterReading(buffer, r)
          PROVE  /\ IsBuffer(b) /\ (~escaped => Unread(b) <= r.size)
                 /\ ~escaped => Unread(Consumed(b, r.size)) = 0
      <3>1. IsBuffer(b) /\ Unread(b) <= Unread(buffer) + r.size
        BY <2>2, ReadBuffer
      <3>2. Unread(b) \in Int /\ Unread(buffer) \in Int
        BY <2>2, <3>1 DEF IsBuffer, Unread
      <3>3. ~escaped => Unread(b) <= r.size
        BY <2>2, <2>3, <3>1, <3>2
      <3>4. QED
        BY <2>2, <3>1, <3>3, ConsumedBuffer
    <2>5. CASE HandleError(o) \/ HandleEmpty(o)
      <3>1. ~escaped' => Unread(buffer') <= 0
        BY <2>3, <2>5 DEF HandleError, HandleEmpty
      <3>2. ToConsume' = 0
        BY <1>2, <2>5 DEF ToConsume, HandleError, HandleEmpty, Becomes, Return
      <3>3. QED
        BY <2>1, <3>1, <3>2 DEF OwnBytes
    <2>6. CASE HandleUnusable(o)
      <3>1. ToConsume' = 0
        BY <2>6 DEF HandleUnusable, Return, ToConsume
      <3>2. ~escaped' => Unread(buffer') = 0
        BY <2>4, <2>6 DEF HandleUnusable
      <3>3. QED
        BY <2>1, <3>1, <3>2 DEF OwnBytes
    <2>7. CASE HandleThrows(o)
      BY <2>1, <2>7 DEF HandleThrows, Escape, OwnBytes
    <2>8. CASE HandleLocated(o)
      <3>1. ToConsume' = r.size
        BY <2>8 DEF HandleLocated, ToConsume
      <3>2. ~escaped' => Unread(buffer') <= r.size
        BY <2>4, <2>8 DEF HandleLocated
      <3>3. QED
        BY <2>1, <3>1, <3>2 DEF OwnBytes
    <2>9. QED
      BY <1>1, <2>5, <2>6, <2>7, <2>8
  <1>6. CallbackIsLast'
    BY <1>1, <1>2 DEF CallbackIsLast, Becomes, Return, Escape, HandleError,
         HandleEmpty, HandleUnusable, HandleThrows, HandleLocated
  <1>7. QED
    BY <1>3, <1>4, <1>5, <1>6 DEF FinderInv

(* What it does after the request. *)
LEMMA FetchKeepsInv == FinderInv /\ TypeOK' /\ Fetch => FinderInv'
  <1> SUFFICES ASSUME FinderInv, TypeOK', Fetch
               PROVE  FinderInv'
    OBVIOUS
  <1>1. PICK a \in Answers : \/ FetchThrows(a)
                             \/ FetchFails(a)
                             \/ NextDevice(a)
                             \/ GatewayFound(a)
    BY DEF Fetch
  <1>2. /\ current.find \in Finds
        /\ find \in [Finds -> FindStates]
        /\ step = "fetching" /\ ops = {}
        /\ \A f \in Finds : find[f] = "active" <=> f = current.find
    BY DEF FinderInv, TypeOK, Operations, OneReceive, Fetch, EveryFindAccounted
  <1>3. EveryFindAccounted'
    BY <1>1, <1>2, ReceiveType DEF EveryFindAccounted, Becomes, Return, Escape,
         FetchThrows, FetchFails, NextDevice, GatewayFound, AsyncReceive
  <1>4. OneReceive'
    BY <1>1, <1>2 DEF OneReceive, Return, Escape, FetchThrows, FetchFails,
         NextDevice, GatewayFound, AsyncReceive
  <1>5. ReceivesBehindUnread'
    BY <1>1, <1>2, ReceiveType DEF ReceivesBehindUnread, FetchThrows, FetchFails,
         NextDevice, GatewayFound, AsyncReceive
  <1>6. OwnBytes'
    <2>1. /\ IsBuffer(buffer) /\ current.result.reply.size \in Nat
          /\ ~escaped => Unread(buffer) <= current.result.reply.size
      BY <1>2, ReplySize DEF FinderInv, TypeOK, OwnBytes, ToConsume
    <2>2. CASE FetchThrows(a)
      BY <2>2 DEF FetchThrows, Escape, OwnBytes
    <2>3. CASE FetchFails(a)
      <3>1. ToConsume' = 0
        BY <2>3 DEF FetchFails, Return, ToConsume
      <3>2. ~escaped' => Unread(buffer') = 0
        BY <2>1, <2>3, ConsumedBuffer DEF FetchFails, ConsumeDatagram
      <3>3. QED
        BY <3>1, <3>2 DEF OwnBytes
    <2>4. CASE NextDevice(a)
      <3>1. ToConsume' = current.result.reply.size
        BY <2>4 DEF NextDevice, ToConsume
      <3>2. Unread(buffer') = Unread(buffer)
        BY <2>1, <2>4, PreparedBuffer DEF NextDevice, AsyncReceive
      <3>3. QED
        BY <2>1, <2>4, <3>1, <3>2 DEF NextDevice, OwnBytes
    <2>5. CASE GatewayFound(a)
      <3>1. ToConsume' = current.result.reply.size
        BY <1>2, <2>5 DEF GatewayFound, Becomes, ToConsume
      <3>2. QED
        BY <2>1, <2>5, <3>1 DEF GatewayFound, OwnBytes
    <2>6. QED
      BY <1>1, <2>2, <2>3, <2>4, <2>5
  <1>7. CallbackIsLast'
    BY <1>1, <1>2 DEF CallbackIsLast, Becomes, Return, Escape, FetchThrows,
         FetchFails, NextDevice, GatewayFound
  <1>8. QED
    BY <1>3, <1>4, <1>5, <1>6, <1>7 DEF FinderInv

(* A call of the application, between handlers or inside the callback. *)
LEMMA AppKeepsInv == FinderInv /\ TypeOK' /\ App => FinderInv'
  <1> SUFFICES ASSUME FinderInv, TypeOK', App
               PROVE  FinderInv'
    OBVIOUS
  <1> USE DEF FinderInv, network, handler
  <1>1. CASE Start
    BY <1>1 DEF Start, EveryFindAccounted, OneReceive, ReceivesBehindUnread,
         OwnBytes, ToConsume, CallbackIsLast
  <1>2. CASE Stop
    <2>1. EveryFindAccounted'
      BY <1>2, AbortedType DEF Stop, EveryFindAccounted, TypeOK
    <2>2. OneReceive'
      BY <1>2, AbortedType DEF Stop, AppMayRun, OneReceive, TypeOK
    <2>3. ReceivesBehindUnread'
      BY <1>2, AbortedType DEF Stop, ReceivesBehindUnread, TypeOK
    <2>4. OwnBytes' /\ CallbackIsLast'
      BY <1>2 DEF Stop, OwnBytes, ToConsume, CallbackIsLast
    <2>5. QED
      BY <2>1, <2>2, <2>3, <2>4
  <1>3. ASSUME NEW f \in Finds, AsyncFind(f)
        PROVE  FinderInv'
    <2>1. find \in [Finds -> FindStates] /\ find[f] = "new"
      BY <1>3 DEF TypeOK, AsyncFind
    <2>2. EveryFindAccounted'
      BY <1>3, <2>1, ReceiveType DEF AsyncFind, AsyncReceive, AppMayRun,
           EveryFindAccounted
    <2>3. OneReceive' /\ ReceivesBehindUnread'
      BY <1>3, ReceiveType DEF AsyncFind, AsyncReceive, AppMayRun, OneReceive,
           ReceivesBehindUnread
    <2>4. CallbackIsLast' /\ ToConsume' = ToConsume
      BY <1>3, <2>1 DEF AsyncFind, CallbackIsLast, ToConsume
    <2>5. OwnBytes'
      BY <1>3, <2>4, PreparedBuffer DEF AsyncFind, AsyncReceive, TypeOK, OwnBytes
    <2>6. QED
      BY <2>2, <2>3, <2>4, <2>5
  <1>4. QED
    BY <1>1, <1>2, <1>3 DEF App

(* A datagram that arrives or is delivered, and a receive that fails. *)
LEMMA NetworkKeepsInv == FinderInv /\ TypeOK' /\ Network => FinderInv'
  <1> SUFFICES ASSUME FinderInv, TypeOK', Network
               PROVE  FinderInv'
    OBVIOUS
  <1> USE DEF FinderInv, network, handler
  <1>1. ASSUME NEW o \in ops, NEW result \in Results, Complete(o, result),
               UNCHANGED <<step, current, buffer, find, escaped>>
        PROVE  FinderInv'
    <2>1. /\ o \in Operations
          /\ ops = {o}
          /\ step # "fetching"
      BY DEF TypeOK, OneReceive
    <2>2. PICK p \in Operations : /\ ops' = {p} /\ p.find = o.find
                                  /\ p.from = o.from /\ p.end = o.end
      <3> DEFINE p == [o EXCEPT !.result = result]
      <3>1. p \in Operations /\ p.find = o.find /\ p.from = o.from /\ p.end = o.end
        BY <2>1, CompleteType
      <3>2. ops' = {p}
        BY <1>1, <2>1 DEF Complete
      <3> HIDE DEF p
      <3>3. QED
        BY <3>1, <3>2
    <2>3. EveryFindAccounted'
      BY <1>1, <2>1, <2>2 DEF EveryFindAccounted
    <2>4. OneReceive' /\ ReceivesBehindUnread'
      BY <1>1, <2>1, <2>2 DEF OneReceive, ReceivesBehindUnread
    <2>5. OwnBytes' /\ CallbackIsLast'
      BY <1>1 DEF OwnBytes, ToConsume, CallbackIsLast
    <2>6. QED
      BY <2>3, <2>4, <2>5
  <1>2. CASE Deliver
    <2>1. Received(Head(inbox)) \in Results
      BY <1>2 DEF Deliver, TypeOK, Results
    <2>2. QED
      BY <1>1, <1>2, <2>1 DEF Deliver
  <1>3. CASE ReceiveFails
    <2>1. Errored \in Results
      BY DEF Results
    <2>2. QED
      BY <1>1, <1>3, <2>1 DEF ReceiveFails
  <1>4. ASSUME NEW r \in Replies, Arrive(r)
        PROVE  FinderInv'
    BY <1>4 DEF Arrive, EveryFindAccounted, OneReceive, ReceivesBehindUnread,
         OwnBytes, ToConsume, CallbackIsLast
  <1>5. QED
    BY <1>2, <1>3, <1>4 DEF Network

(* The end of a handler that has called the callback or received again. *)
LEMMA ReturnKeepsInv ==
  FinderInv /\ TypeOK' /\ (Consume \/ CallbackReturns \/ CallbackThrows)
    => FinderInv'
  <1> SUFFICES ASSUME FinderInv, TypeOK',
                      Consume \/ CallbackReturns \/ CallbackThrows
               PROVE  FinderInv'
    OBVIOUS
  <1>1. /\ step \in {"callback", "consuming"} /\ step' = "none"
        /\ UNCHANGED <<ops, find>>
    BY DEF Consume, CallbackReturns, CallbackThrows, Return
  <1>2. /\ IsBuffer(buffer) /\ current.result.reply.size \in Nat
        /\ ~escaped => Unread(buffer) <= ToConsume
    BY <1>1, ReplySize DEF FinderInv, TypeOK, OwnBytes
  <1>3. buffer' = buffer \/ buffer' = Consumed(buffer, current.result.reply.size)
    BY DEF Consume, CallbackReturns, CallbackThrows, ConsumeDatagram
  <1>4. EveryFindAccounted' /\ OneReceive' /\ CallbackIsLast'
    BY <1>1 DEF FinderInv, EveryFindAccounted, OneReceive, CallbackIsLast
  <1>5. ReceivesBehindUnread'
    BY <1>1, <1>2, <1>3, ConsumedBuffer DEF FinderInv, ReceivesBehindUnread
  <1>6. OwnBytes'
    <2>1. CASE CallbackThrows
      BY <2>1 DEF CallbackThrows, OwnBytes
    <2>2. CASE Consume \/ (CallbackReturns /\ find[current.find] = "reported")
      <3>1. /\ buffer' = Consumed(buffer, current.result.reply.size)
            /\ ToConsume = current.result.reply.size /\ escaped' = escaped
        BY <2>2 DEF Consume, CallbackReturns, ConsumeDatagram, ToConsume
      <3>2. ~escaped' => Unread(buffer') = 0
        BY <1>2, <3>1, ConsumedBuffer
      <3>3. QED
        BY <1>1, <3>2 DEF OwnBytes, ToConsume
    <2>3. CASE CallbackReturns /\ find[current.find] # "reported"
      BY <1>1, <1>2, <2>3 DEF CallbackReturns, OwnBytes, ToConsume
    <2>4. QED
      BY <2>1, <2>2, <2>3
  <1>7. QED
    BY <1>4, <1>5, <1>6 DEF FinderInv

LEMMA FinderInvStep == FinderInv /\ [Next]_vars => FinderInv'
  <1> SUFFICES ASSUME FinderInv, [Next]_vars
               PROVE  FinderInv'
    OBVIOUS
  <1>1. TypeOK'
    BY StepTypeOK DEF FinderInv
  <1>2. CASE Consume \/ CallbackReturns \/ CallbackThrows
    BY <1>1, <1>2, ReturnKeepsInv
  <1>3. CASE UNCHANGED vars
    BY <1>3, <1>1 DEF vars, FinderInv, EveryFindAccounted, OneReceive,
         ReceivesBehindUnread, OwnBytes, ToConsume, CallbackIsLast
  <1>4. QED
    BY <1>1, <1>2, <1>3, HandleKeepsInv, FetchKeepsInv, AppKeepsInv,
       NetworkKeepsInv DEF Next

LEMMA FinderInvariant == Safety => []FinderInv
  BY FinderInvInit, FinderInvStep, PTL DEF Safety

------------------------------------------------------------------------------
(* No find is forgotten, and none outlives its end, in any network: the    *)
(* finds still to be called back are those recv_handler will run for or is *)
(* running for.                                                            *)
THEOREM FindsAreAccounted == Safety => []EveryFindAccounted
  BY FinderInvariant, PTL DEF FinderInv

(* What a receive writes into _streambuf is what the next commit() makes   *)
(* readable, and no unread byte lies there, for datagrams of all sizes, as *)
(* long as the application has one find in progress.                       *)
THEOREM ReceiveHasItsPlace == Safety => []ReceivesBehindUnread
  BY FinderInvariant, PTL DEF FinderInv

(* Only an exception leaves bytes of one datagram before those of the      *)
(* next.                                                                   *)
THEOREM BufferIsLeftClean == Safety => []CleanBuffer
  <1>1. FinderInv => CleanBuffer
    <2> SUFFICES ASSUME FinderInv, step = "none", ~escaped
                 PROVE  ~(Unread(buffer) > 0)
      BY DEF CleanBuffer
    <2>1. Unread(buffer) <= 0 /\ Unread(buffer) \in Int
      BY DEF FinderInv, OwnBytes, ToConsume, TypeOK, IsBuffer, Unread
    <2>2. QED
      BY <2>1
  <1>2. QED
    BY <1>1, FinderInvariant, PTL

(* No callback is called twice: what ends a find ends it for good. *)
THEOREM FindsEndOnce == Safety => CalledOnce
  <1> DEFINE Kept == \A f \in Finds :
                       find[f] \notin {"new", "active"} => find'[f] = find[f]
  <1>1. FinderInv /\ [Next]_vars => [Kept]_vars
    <2> SUFFICES ASSUME FinderInv, Next
                 PROVE  Kept
      OBVIOUS
    <2> USE DEF FinderInv, TypeOK
    <2>1. CASE Handle
      <3>1. PICK o \in ops : UNCHANGED find \/ \E s : Becomes(o.find, s)
        BY <2>1 DEF Handle, HandleError, HandleEmpty, HandleUnusable,
             HandleThrows, HandleLocated, Escape
      <3>2. o.find \in Finds /\ find[o.find] = "active"
        BY DEF Operations, EveryFindAccounted
      <3>3. QED
        BY <3>1, <3>2 DEF Becomes
    <2>2. CASE Fetch
      <3>1. UNCHANGED find \/ \E s : Becomes(current.find, s)
        BY <2>2 DEF Fetch, FetchThrows, FetchFails, NextDevice, GatewayFound,
             Escape
      <3>2. current.find \in Finds /\ find[current.find] = "active"
        BY <2>2 DEF Fetch, Operations, EveryFindAccounted
      <3>3. QED
        BY <3>1, <3>2 DEF Becomes
    <2>3. CASE App
      BY <2>3 DEF App, Start, Stop, AsyncFind
    <2>4. CASE Network \/ Consume \/ CallbackReturns \/ CallbackThrows
      BY <2>4 DEF Network, Deliver, ReceiveFails, Arrive, Consume, CallbackReturns,
           CallbackThrows
    <2>5. QED
      BY <2>1, <2>2, <2>3, <2>4 DEF Next
  <1>2. QED
    BY <1>1, FinderInvariant, PTL DEF Safety, CalledOnce
------------------------------------------------------------------------------
(* The refinement of AbstractFinder.                                       *)

(* recv_handler fetches only for a datagram it could read. *)
FetchIsForReply ==
  step = "fetching" => \E r \in Replies : current.result = Received(r) /\ Usable(r)

(* What stays in the buffer and in the hands of the finder, in terms of    *)
(* the receive or the handler there is.                                    *)
HeardIsKnown ==
  /\ ops = {} /\ step # "fetching" => Heard = inbox
  /\ \A o \in ops :
       ops = {o} /\ step # "fetching" /\ o.result \in {Waiting, Errored}
         => Heard = inbox
  /\ \A o \in ops, r \in Replies :
       ops = {o} /\ step # "fetching" /\ o.result = Received(r)
         => Heard = <<r>> \o inbox
  /\ \A r \in Replies :
       ops = {} /\ step = "fetching" /\ current.result = Received(r)
         => Heard = <<r>> \o inbox

LEMMA ResultsDiffer ==
  ASSUME NEW r
  PROVE  /\ Received(r) # Waiting
         /\ Received(r) # Errored
         /\ Received(r).reply = r
  BY DEF Received, Waiting, Errored

LEMMA HeardAlwaysKnown == HeardIsKnown
  <1>1. ops = {} /\ step # "fetching" => Heard = inbox
    BY DEF Heard, InHand
  <1>2. ASSUME NEW o \in ops, ops = {o}, step # "fetching",
               o.result \in {Waiting, Errored}
        PROVE  Heard = inbox
    BY <1>2 DEF Heard, InHand
  <1>3. ASSUME NEW o \in ops, NEW r \in Replies, ops = {o}, step # "fetching",
               o.result = Received(r)
        PROVE  Heard = <<r>> \o inbox
    <2>1. {p \in ops : p.result \notin {Waiting, Errored}} = {o}
      BY <1>3, ResultsDiffer
    <2>2. InHand = {r}
      BY <1>3, <2>1, ResultsDiffer DEF InHand
    <2>3. QED
      BY <2>2 DEF Heard
  <1>4. ASSUME NEW r \in Replies, ops = {}, step = "fetching",
               current.result = Received(r)
        PROVE  Heard = <<r>> \o inbox
    <2>1. InHand = {r}
      BY <1>4, ResultsDiffer DEF InHand
    <2>2. QED
      BY <2>1 DEF Heard
  <1>5. QED
    BY <1>1, <1>2, <1>3, <1>4 DEF HeardIsKnown

LEMMA FirstIsTaken ==
  ASSUME NEW S, NEW r \in S, NEW s \in Seq(S)
  PROVE  /\ <<r>> \o s # <<>>
         /\ Head(<<r>> \o s) = r
         /\ Tail(<<r>> \o s) = s
         /\ \A x \in S : Append(<<r>> \o s, x) = <<r>> \o Append(s, x)
  OBVIOUS

LEMMA HeadAndTail ==
  ASSUME NEW S, NEW s \in Seq(S), s # <<>>
  PROVE  /\ Head(s) \in S
         /\ Tail(s) \in Seq(S)
         /\ <<Head(s)>> \o Tail(s) = s
  OBVIOUS

LEMMA FetchIsForReplyInit == Init => FetchIsForReply
  BY DEF Init, FetchIsForReply

LEMMA FetchIsForReplyStep ==
  FinderInv /\ FetchIsForReply /\ [Next]_vars => FetchIsForReply'
  <1> SUFFICES ASSUME FinderInv, FetchIsForReply, [Next]_vars, step' = "fetching"
               PROVE  FetchIsForReply'
    BY DEF FetchIsForReply
  <1>1. CASE Handle
    <2>1. PICK o \in ops : HandleLocated(o)
      BY <1>1 DEF Handle, HandleError, HandleEmpty, HandleUnusable, HandleThrows,
           Escape, Return
    <2>2. o.result \in Results /\ o.result # Waiting /\ o.result # Errored
      BY <2>1 DEF HandleLocated, Dispatch, HasBytes, FinderInv, TypeOK, Operations
    <2>3. PICK r \in Replies : o.result = Received(r)
      BY <2>2 DEF Results
    <2>4. Usable(r)
      <3>1. Parsed(r) = "good" => Read(r.head) = "good"
        BY DEF Parsed
      <3>2. QED
        BY <2>1, <2>3, <3>1, ResultsDiffer DEF HandleLocated, HasBytes, Usable
    <2>5. current' = o
      BY <2>1 DEF HandleLocated
    <2>6. QED
      BY <2>3, <2>4, <2>5 DEF FetchIsForReply
  <1>2. CASE step = "fetching" /\ UNCHANGED <<step, current>>
    BY <1>2 DEF FetchIsForReply
  <1>3. QED
    BY <1>1, <1>2 DEF Next, App, Start, Stop, AsyncFind, AppMayRun, Network,
       Deliver, ReceiveFails, Arrive, Fetch, FetchThrows, FetchFails,
       NextDevice, GatewayFound, Escape, Return, Consume, CallbackReturns,
       CallbackThrows, vars, handler

(* The initial state is one of the abstract finder. *)
LEMMA PromiseInit == Init => Promise!Init
  BY HeardAlwaysKnown DEF Init, Promise!Init, HeardIsKnown, Calling

(* Handling a completed receive: the find fails or is given up, or the     *)
(* datagram stays in hand while its description is fetched.                *)
LEMMA HandleKeepsPromise ==
  FinderInv /\ HeardIsKnown' /\ Handle => [Promise!Next]_Promise!vars
  <1> SUFFICES ASSUME FinderInv, HeardIsKnown', Handle
               PROVE  [Promise!Next]_Promise!vars
    OBVIOUS
  <1>1. PICK o \in ops : \/ HandleError(o)
                         \/ HandleEmpty(o)
                         \/ HandleUnusable(o)
                         \/ HandleThrows(o)
                         \/ HandleLocated(o)
    BY DEF Handle
  <1>2. Dispatch(o)
    BY <1>1 DEF HandleError, HandleEmpty, HandleUnusable, HandleThrows,
         HandleLocated
  <1>3. /\ o.find \in Finds /\ o.result \in Results /\ inbox \in Seq(Replies)
        /\ step = "none" /\ ops = {o} /\ ops' = {} /\ o.result # Waiting
        /\ find[o.find] = "active"
        /\ Calling = {}
        /\ inbox' = inbox /\ searched' = searched
    BY <1>2 DEF Handle, network, Dispatch, FinderInv, TypeOK, Operations,
         OneReceive, EveryFindAccounted, Calling
  <1>4. CASE HandleError(o)
    <2>1. Heard = inbox /\ Heard' = inbox
      BY <1>3, <1>4, HeardAlwaysKnown DEF HandleError, HeardIsKnown
    <2>2. Calling' = {[find |-> o.find, device |-> NoDevice]}
      BY <1>4 DEF HandleError, Calling
    <2>3. Promise!Fail(o.find)
      BY <1>3, <1>4, <2>1, <2>2 DEF HandleError, Becomes, Promise!Fail, Promise!End
    <2>4. QED
      BY <1>3, <2>3 DEF Promise!Next
  <1>5. ASSUME ~HandleError(o)
        PROVE  \E r \in Replies : o.result = Received(r) /\ Heard = <<r>> \o inbox
    <2>1. o.result # Errored
      BY <1>1, <1>5 DEF HandleEmpty, HandleUnusable, HandleThrows, HandleLocated,
           HasBytes
    <2>2. PICK r \in Replies : o.result = Received(r)
      BY <1>3, <2>1 DEF Results
    <2>3. Heard = <<r>> \o inbox
      BY <1>3, <2>2, HeardAlwaysKnown DEF HeardIsKnown
    <2>4. QED
      BY <2>2, <2>3
  <1>6. CASE HandleEmpty(o) \/ HandleUnusable(o) \/ HandleThrows(o)
    <2>1. /\ Becomes(o.find, "dropped") \/ Becomes(o.find, "thrown")
          /\ step' = "none"
      BY <1>6 DEF HandleEmpty, HandleUnusable, HandleThrows, Escape, Return
    <2>2. Heard' = inbox /\ Calling' = {}
      BY <1>3, <2>1 DEF HeardIsKnown, Calling
    <2>3. PICK r \in Replies : Heard = <<r>> \o inbox
      BY <1>5, <1>6 DEF HandleError, HandleEmpty, HandleUnusable, HandleThrows,
           HasBytes
    <2>4. Heard # <<>> /\ Heard' = Tail(Heard)
      BY <1>3, <2>2, <2>3, FirstIsTaken
    <2>5. Promise!GiveUp(o.find)
      BY <1>3, <2>1, <2>2, <2>4 DEF Becomes, Promise!GiveUp, Promise!End,
           Promise!Take
    <2>6. QED
      BY <1>3, <2>5 DEF Promise!Next
  <1>7. CASE HandleLocated(o)
    <2>1. PICK r \in Replies : o.result = Received(r) /\ Heard = <<r>> \o inbox
      BY <1>5, <1>7 DEF HandleError, HandleLocated, HasBytes
    <2>2. /\ step' = "fetching" /\ current' = o /\ Calling' = {}
          /\ find' = find
      BY <1>7 DEF HandleLocated, Calling
    <2>3. Heard' = <<r>> \o inbox
      BY <1>3, <2>1, <2>2 DEF HeardIsKnown
    <2>4. QED
      BY <1>3, <2>1, <2>2, <2>3 DEF Promise!vars
  <1>8. QED
    BY <1>1, <1>4, <1>6, <1>7

(* The answer of a server: the datagram in hand is done with. *)
LEMMA FetchKeepsPromise ==
  FinderInv /\ FetchIsForReply /\ HeardIsKnown' /\ Fetch
    => [Promise!Next]_Promise!vars
  <1> SUFFICES ASSUME FinderInv, FetchIsForReply, HeardIsKnown', Fetch
               PROVE  Promise!Next
    OBVIOUS
  <1>1. PICK a \in Answers : \/ FetchThrows(a)
                             \/ FetchFails(a)
                             \/ NextDevice(a)
                             \/ GatewayFound(a)
    BY DEF Fetch
  <1>2. PICK r \in Replies : current.result = Received(r) /\ Usable(r)
    BY DEF Fetch, FetchIsForReply
  <1> DEFINE f == current.find
  <1>3. /\ f \in Finds /\ inbox \in Seq(Replies)
        /\ step = "fetching" /\ ops = {}
        /\ find \in [Finds -> FindStates] /\ find[f] = "active"
        /\ Calling = {}
        /\ inbox' = inbox /\ searched' = searched
    BY DEF Fetch, network, FinderInv, TypeOK, Operations, OneReceive,
         EveryFindAccounted, Calling
  <1>4. Heard = <<r>> \o inbox
    BY <1>2, <1>3, HeardAlwaysKnown DEF HeardIsKnown
  <1>5. Heard' = inbox
    <2>1. step' # "fetching"
      BY <1>1 DEF FetchThrows, FetchFails, NextDevice, GatewayFound, Escape, Return
    <2>2. CASE ops' = {}
      BY <1>3, <2>1, <2>2 DEF HeardIsKnown
    <2>3. CASE NextDevice(a)
      <3>1. ops' = {Receive(f)} /\ step' = "consuming"
        BY <1>3, <2>3 DEF NextDevice, AsyncReceive
      <3>2. Receive(f).result \in {Waiting, Errored}
        BY DEF Receive
      <3>3. QED
        BY <1>3, <3>1, <3>2 DEF HeardIsKnown, Waiting, Errored
    <2>4. QED
      BY <1>1, <1>3, <2>2, <2>3 DEF FetchThrows, FetchFails, GatewayFound
  <1>6. Promise!Take
    BY <1>3, <1>4, <1>5, FirstIsTaken DEF Promise!Take
  <1> HIDE DEF f
  <1>7. CASE FetchThrows(a) \/ FetchFails(a)
    <2>1. /\ Becomes(f, "dropped") \/ Becomes(f, "thrown")
          /\ Calling' = {}
      BY <1>7 DEF FetchThrows, FetchFails, Escape, Return, Calling, f
    <2>2. Promise!GiveUp(f)
      BY <1>3, <1>6, <2>1 DEF Becomes, Promise!GiveUp, Promise!End
    <2>3. QED
      BY <1>3, <2>2 DEF Promise!Next
  <1>8. CASE NextDevice(a)
    <2>1. find' = find /\ Calling' = {}
      BY <1>8 DEF NextDevice, Calling
    <2>2. Promise!Pass
      BY <1>3, <1>6, <2>1 DEF Promise!Pass
    <2>3. QED
      BY <2>2 DEF Promise!Next
  <1>9. CASE GatewayFound(a)
    <2> DEFINE base == ParseUrl(r.location)
    <2>1. BaseUrl = base
      BY <1>2, ResultsDiffer DEF BaseUrl
    <2>2. Endpoint(base) \in DOMAIN Documents /\ a \in Documents[Endpoint(base)]
      BY <1>9, <2>1 DEF GatewayFound, Described, ReadAnswer, Refused, Answers
    <2>3. ControlUrl(base, a.doc) \in DevicesOf[r]
      <3>1. ControlUrl(base, a.doc) \in DevicesAt(base)
        BY <1>9, <2>2 DEF GatewayFound, DevicesAt
      <3>2. QED
        BY <1>2, <2>2, <3>1 DEF DevicesOf
    <2>4. Calling' = {[find |-> f, device |-> ControlUrl(base, a.doc)]}
      BY <1>9, <2>1 DEF GatewayFound, Calling, f
    <2> HIDE DEF base
    <2>5. Head(Heard) = r
      BY <1>3, <1>4, FirstIsTaken
    <2>6. Promise!Report(f)
      BY <1>3, <1>6, <1>9, <2>3, <2>4, <2>5
         DEF GatewayFound, Becomes, Promise!Report, Promise!End, f
    <2>7. QED
      BY <1>3, <2>6 DEF Promise!Next
  <1>10. QED
    BY <1>1, <1>7, <1>8, <1>9

(* Calls of the application: stop forgets what is queued and keeps the     *)
(* datagram that a receive already has.                                    *)
LEMMA AppKeepsPromise ==
  FinderInv /\ HeardIsKnown' /\ App => [Promise!Next]_Promise!vars
  <1> SUFFICES ASSUME FinderInv, HeardIsKnown', App
               PROVE  [Promise!Next]_Promise!vars
    OBVIOUS
  <1>1. /\ ops \in SUBSET Operations /\ inbox \in Seq(Replies)
        /\ find \in [Finds -> FindStates]
        /\ \A o, p \in ops : o = p
    BY DEF FinderInv, TypeOK, OneReceive
  <1>2. CASE Start
    <2>1. /\ Heard' = Heard /\ Calling' = Calling /\ find' = find
          /\ searched' = searched \/ searched' = TRUE
      BY <1>2 DEF Start, InitSocketFails, ReturnEarly, SendSearch, SendFails,
           handler, Heard, InHand, Calling
    <2>2. QED
      BY <2>1 DEF Promise!Next, Promise!Search, Promise!vars
  <1>3. CASE Stop
    <2>1. /\ searched' = FALSE /\ find' = find /\ Calling' = Calling
          /\ inbox' = <<>> /\ step # "fetching" /\ step' = step
          /\ ops' = Aborted
      BY <1>3 DEF Stop, AppMayRun, handler, Calling
    <2>2. Heard' = <<>> \/ (Heard # <<>> /\ Heard' = <<Head(Heard)>>)
      <3>1. CASE ops = {}
        BY <2>1, <3>1 DEF Aborted, HeardIsKnown
      <3>2. ASSUME NEW o \in ops, o.result \in {Waiting, Errored}
            PROVE  Heard' = <<>>
        <4> DEFINE p == [o EXCEPT !.result = IF @ = Waiting THEN Errored ELSE @]
        <4>1. ops = {o} /\ Aborted = {p}
          BY <1>1 DEF Aborted
        <4>2. p.result = Errored
          BY <1>1, <3>2 DEF Operations
        <4> HIDE DEF p
        <4>3. QED
          BY <2>1, <4>1, <4>2 DEF HeardIsKnown, Errored
      <3>3. ASSUME NEW o \in ops, NEW r \in Replies, o.result = Received(r)
            PROVE  Heard # <<>> /\ Heard' = <<Head(Heard)>>
        <4> DEFINE p == [o EXCEPT !.result = IF @ = Waiting THEN Errored ELSE @]
        <4>1. ops = {o} /\ Aborted = {p}
          BY <1>1 DEF Aborted
        <4>2. p.result = Received(r)
          BY <1>1, <3>3, ResultsDiffer DEF Operations
        <4> HIDE DEF p
        <4>3. Heard = <<r>> \o inbox
          BY <2>1, <3>3, <4>1, HeardAlwaysKnown DEF HeardIsKnown
        <4>4. Heard' = <<r>> \o <<>>
          BY <2>1, <4>1, <4>2 DEF HeardIsKnown, Received
        <4>5. <<r>> \o <<>> = <<r>>
          OBVIOUS
        <4>6. QED
          BY <1>1, <4>3, <4>4, <4>5, FirstIsTaken
      <3>4. \A o \in ops : \/ o.result \in {Waiting, Errored}
                           \/ \E r \in Replies : o.result = Received(r)
        BY <1>1 DEF Operations, Results
      <3>5. QED
        BY <3>1, <3>2, <3>3, <3>4
    <2>3. Promise!Stop
      BY <2>1, <2>2 DEF Promise!Stop
    <2>4. QED
      BY <2>3 DEF Promise!Next
  <1>4. ASSUME NEW f \in Finds, AsyncFind(f)
        PROVE  Promise!Next
    <2>1. /\ step # "fetching" /\ step' = step /\ Calling' = Calling
          /\ inbox' = inbox /\ searched' = searched
          /\ ops = {} /\ ops' = {Receive(f)}
          /\ find[f] = "new" /\ find' = [find EXCEPT ![f] = "active"]
      BY <1>4 DEF AsyncFind, AsyncReceive, AppMayRun, network, handler, Calling
    <2>2. Receive(f).result \in {Waiting, Errored}
      BY DEF Receive
    <2>3. Heard' = Heard
      <3>1. Heard' = inbox
        BY <2>1, <2>2 DEF HeardIsKnown, Waiting, Errored
      <3>2. Heard = inbox
        BY <2>1, HeardAlwaysKnown DEF HeardIsKnown
      <3>3. QED
        BY <3>1, <3>2
    <2>4. \A g \in Finds : find[g] # "active"
      BY <2>1 DEF FinderInv, EveryFindAccounted
    <2>5. Promise!Find(f)
      BY <2>1, <2>3, <2>4 DEF Promise!Find
    <2>6. QED
      BY <2>5 DEF Promise!Next
  <1>5. QED
    BY <1>2, <1>3, <1>4 DEF App

(* A datagram that arrives is heard; one that is delivered was.            *)
LEMMA NetworkKeepsPromise ==
  FinderInv /\ FetchIsForReply /\ HeardIsKnown' /\ Network
    => [Promise!Next]_Promise!vars
  <1> SUFFICES ASSUME FinderInv, FetchIsForReply, HeardIsKnown', Network
               PROVE  [Promise!Next]_Promise!vars
    OBVIOUS
  <1>1. /\ ops \in SUBSET Operations /\ inbox \in Seq(Replies)
        /\ \A o, p \in ops : o = p
        /\ step = "fetching" => ops = {}
        /\ step' = step /\ Calling' = Calling /\ find' = find
        /\ current' = current
    BY DEF FinderInv, TypeOK, OneReceive, Network, Deliver, ReceiveFails,
       Arrive, handler, Calling
  <1>2. ASSUME NEW o \in ops, o.result = Waiting, NEW result \in Results,
               Complete(o, result)
        PROVE  /\ step # "fetching" /\ step' # "fetching"
               /\ Heard = inbox
               /\ \E p \in Operations : ops' = {p} /\ p.result = result
    <2>1. step # "fetching" /\ ops = {o}
      BY <1>1
    <2>2. Heard = inbox
      BY <1>2, <2>1, HeardAlwaysKnown DEF HeardIsKnown
    <2> DEFINE p == [o EXCEPT !.result = result]
    <2>3. p \in Operations /\ p.result = result
      BY <1>1 DEF Operations
    <2>4. ops' = {p}
      BY <1>2, <2>1 DEF Complete
    <2> HIDE DEF p
    <2>5. QED
      BY <1>1, <2>1, <2>2, <2>3, <2>4
  <1>3. CASE Deliver
    <2> DEFINE r == Head(inbox)
    <2>1. /\ r \in Replies /\ Received(r) \in Results
          /\ inbox' = Tail(inbox) /\ inbox = <<r>> \o Tail(inbox)
          /\ searched' = searched
      BY <1>1, <1>3, HeadAndTail DEF Deliver, Results
    <2>2. PICK o \in ops : o.result = Waiting /\ Complete(o, Received(r))
      BY <1>3 DEF Deliver
    <2> HIDE DEF r
    <2>3. PICK p \in Operations : ops' = {p} /\ p.result = Received(r)
      BY <1>2, <2>1, <2>2
    <2>4. Heard = inbox /\ step' # "fetching"
      BY <1>2, <2>1, <2>2
    <2>5. Heard' = <<r>> \o inbox'
      BY <2>1, <2>3, <2>4 DEF HeardIsKnown, Received
    <2>6. QED
      BY <1>1, <2>1, <2>4, <2>5 DEF Promise!vars
  <1>4. CASE ReceiveFails
    <2>1. PICK o \in ops : o.result = Waiting /\ Complete(o, Errored)
      BY <1>4 DEF ReceiveFails
    <2>2. Errored \in Results /\ inbox' = inbox /\ searched' = searched
      BY <1>4 DEF ReceiveFails, Results, network
    <2>3. PICK p \in Operations : ops' = {p} /\ p.result = Errored
      BY <1>2, <2>1, <2>2
    <2>4. Heard = inbox /\ step' # "fetching"
      BY <1>2, <2>1, <2>2
    <2>5. Heard' = inbox
      BY <2>2, <2>3, <2>4 DEF HeardIsKnown, Errored
    <2>6. QED
      BY <1>1, <2>2, <2>4, <2>5 DEF Promise!vars
  <1>5. ASSUME NEW r \in Replies, Arrive(r)
        PROVE  Promise!Next
    <2>1. /\ searched /\ searched' = searched
          /\ inbox' = Append(inbox, r) /\ InHand' = InHand
      BY <1>1, <1>5 DEF Arrive, InHand
    <2>2. Heard' = Append(Heard, r)
      <3>1. CASE InHand = {}
        BY <2>1, <3>1 DEF Heard
      <3>2. CASE InHand # {}
        <4> DEFINE h == CHOOSE h \in InHand : TRUE
        <4>1. Heard = <<h>> \o inbox /\ Heard' = <<h>> \o Append(inbox, r)
          BY <2>1, <3>2 DEF Heard
        <4>2. InHand \subseteq Replies
          <5>1. \A o \in ops : o.result \notin {Waiting, Errored}
                                 => o.result.reply \in Replies
            BY <1>1, ResultsDiffer DEF Operations, Results
          <5>2. step = "fetching" => current.result.reply \in Replies
            BY ResultsDiffer DEF FetchIsForReply
          <5>3. QED
            BY <5>1, <5>2 DEF InHand
        <4>3. h \in Replies
          BY <3>2, <4>2
        <4> HIDE DEF h
        <4>4. QED
          BY <1>1, <4>1, <4>3, FirstIsTaken
      <3>3. QED
        BY <3>1, <3>2
    <2>3. Promise!Hear(r)
      BY <1>1, <2>1, <2>2 DEF Promise!Hear
    <2>4. QED
      BY <2>3 DEF Promise!Next
  <1>6. QED
    BY <1>3, <1>4, <1>5 DEF Network

(* Every step of the finder is one of the abstract finder, or none. *)
LEMMA StepKeepsPromise ==
  FinderInv /\ FetchIsForReply /\ HeardIsKnown' /\ [Next]_vars
    => [Promise!Next]_Promise!vars
  <1> SUFFICES ASSUME FinderInv, FetchIsForReply, HeardIsKnown', [Next]_vars
               PROVE  [Promise!Next]_Promise!vars
    OBVIOUS
  <1>1. CASE CallbackReturns \/ CallbackThrows
    <2>1. /\ step = "callback" /\ step' = "none"
          /\ UNCHANGED <<ops, inbox, searched, find>>
      BY <1>1 DEF CallbackReturns, CallbackThrows, Return, network
    <2>2. Heard' = Heard /\ Calling # {} /\ Calling' = {}
      BY <2>1 DEF Heard, InHand, Calling
    <2>3. Promise!Return
      BY <2>1, <2>2 DEF Promise!Return
    <2>4. QED
      BY <2>3 DEF Promise!Next
  <1>2. CASE Consume
    <2>1. /\ step = "consuming" /\ step' = "none"
          /\ UNCHANGED <<ops, inbox, searched, find>>
      BY <1>2 DEF Consume, Return, network
    <2>2. Heard' = Heard /\ Calling' = Calling
      BY <2>1 DEF Heard, InHand, Calling
    <2>3. QED
      BY <2>1, <2>2 DEF Promise!vars
  <1>3. CASE UNCHANGED vars
    BY <1>3 DEF vars, Promise!vars, Heard, InHand, Calling
  <1>4. QED
    BY <1>1, <1>2, <1>3, HandleKeepsPromise, FetchKeepsPromise, AppKeepsPromise,
       NetworkKeepsPromise DEF Next

(* The finder implements the abstract one, for every set of finds, every   *)
(* network and every number of datagrams: each datagram is taken by one    *)
(* find, in the order of arrival, each find ends once, and the callback of *)
(* a find is called with a device only if the datagram taken then leads to *)
(* it.                                                                     *)
THEOREM FinderKeepsItsPromise == Safety => PromiseKept
  <1>1. Safety => []FetchIsForReply
    BY FetchIsForReplyInit, FetchIsForReplyStep, FinderInvariant, PTL DEF Safety
  <1>2. QED
    BY <1>1, PromiseInit, StepKeepsPromise, HeardAlwaysKnown, FinderInvariant, PTL
       DEF Safety, PromiseKept, Promise!Spec

==============================================================================
