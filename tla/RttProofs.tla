------------------------------ MODULE RttProofs ------------------------------
(***************************************************************************)
(* RttStatistics for every width of the timestamps, every skew, and every  *)
(* content of the uninitialised ones.                                      *)
(***************************************************************************)
EXTENDS RttStatistics, TLAPS

(* A header was not sent in the future; the history needs it for its type. *)
SentInPast == \A m \in net : m.sent <= now

RttInv == TypeOK /\ SentInPast /\ FirstSampleKnown

------------------------------------------------------------------------------
(* The arithmetic of uint64_t.                                             *)

LEMMA ModIsStamp ==
  ASSUME NEW x \in Int
  PROVE  x % W \in Stamps
  BY WidthAssumption DEF Stamps

LEMMA ClockIsStamp ==
  ASSUME TypeOK, NEW p \in Peers
  PROVE  Clock(p) \in Stamps
  <1>1. now + skew[p] \in Int
    BY BoundAssumption DEF TypeOK
  <1>2. QED
    BY <1>1, ModIsStamp DEF Clock

LEMMA TenthIsStamp ==
  ASSUME NEW x \in Stamps
  PROVE  x \div 10 \in Stamps
  BY WidthAssumption DEF Stamps

LEMMA AverageIsStamp ==
  ASSUME NEW s \in Stat, NEW value \in Stamps
  PROVE  Average(s, value) \in Stamps
  <1>1. s.avg \in Stamps
    BY DEF Stat
  <1>2. 3 * value + 7 * s.avg \in Int
    BY <1>1, WidthAssumption DEF Stamps
  <1>3. ((3 * value + 7 * s.avg) % W) \div 10 \in Stamps
    BY <1>2, ModIsStamp, TenthIsStamp
  <1>4. QED
    BY <1>3 DEF Average

(* A sample leaves the members timestamps, and the extremes in order.      *)
LEMMA SampledOrders ==
  ASSUME NEW s \in Stat, NEW value \in Stamps
  PROVE  /\ Sampled(s, value) \in Stat
         /\ Sampled(s, value).min <= Sampled(s, value).max
  <1>1. Average(s, value) \in Stamps
    BY AverageIsStamp
  <1>2. s.min \in Int /\ s.max \in Int /\ value \in Int
    BY WidthAssumption DEF Stat, Stamps
  <1>3. Sampled(s, value) \in Stat
    BY <1>1 DEF Sampled, Stat
  <1>4. Sampled(s, value).min <= Sampled(s, value).max
    BY <1>2 DEF Sampled, Stat
  <1>5. QED
    BY <1>3, <1>4

LEMMA ParsedOrders ==
  ASSUME TypeOK, NEW p \in Peers, NEW local \in Stamps, NEW rtt \in Stamps
  PROVE  /\ Parsed(p, local, rtt) \in Stat
         /\ Parsed(p, local, rtt).min <= Parsed(p, local, rtt).max
  <1>1. Clock(p) \in Stamps
    BY ClockIsStamp
  <1>2. Clock(p) - rtt \in Int
    BY <1>1, WidthAssumption DEF Stamps
  <1>3. (Clock(p) - rtt) % W \in Stamps
    BY <1>2, ModIsStamp
  <1>4. [stat[p] EXCEPT !.recv_ts = Clock(p), !.remote_ts = local] \in Stat
    BY <1>1 DEF TypeOK, Stat
  <1>5. QED
    BY <1>3, <1>4, SampledOrders DEF Parsed

LEMMA RttStampIsStamp ==
  ASSUME TypeOK, NEW p \in Peers
  PROVE  RttStamp(p) \in Stamps
  <1>1. Clock(p) \in Stamps
    BY ClockIsStamp
  <1>2. stat[p].remote_ts \in Stamps /\ stat[p].recv_ts \in Stamps
    BY DEF TypeOK, Stat
  <1>3. stat[p].remote_ts + (Clock(p) - stat[p].recv_ts) \in Int
    BY <1>1, <1>2, WidthAssumption DEF Stamps
  <1>4. QED
    BY <1>3, ModIsStamp DEF RttStamp

------------------------------------------------------------------------------
LEMMA RttInvInit == Init => RttInv
  <1> SUFFICES ASSUME Init PROVE RttInv
    OBVIOUS
  <1>1. stat \in [Peers -> Stat]
    <2>1. Garbage \subseteq Stamps /\ 0 \in Stamps /\ W - 1 \in Stamps
      BY GarbageAssumption, WidthAssumption DEF Stamps
    <2>2. [remote_ts : Garbage, recv_ts : Garbage, avg : {0}, min : {W - 1}, max : {0}]
            \subseteq Stat
      BY <2>1 DEF Stat
    <2>3. QED
      BY <2>2 DEF Init
  <1>2. skew \in [Peers -> Int]
    BY SkewAssumption DEF Init
  <1>3. TypeOK
    BY <1>1, <1>2, BoundAssumption DEF Init, TypeOK
  <1>4. FirstSampleKnown
    BY WidthAssumption DEF Init, FirstSampleKnown
  <1>5. QED
    BY <1>3, <1>4 DEF Init, RttInv, SentInPast

(* A receipt, whole or cut: p parses a header of m with the timestamp rtt. *)
LEMMA ReceiptKeepsInv ==
  ASSUME RttInv, NEW m \in net, NEW rtt \in Stamps,
         stat' = [stat EXCEPT ![m.to] = Parsed(m.to, m.local_timestamp, rtt)],
         echo' = [echo EXCEPT ![m.to] = now - m.sent],
         truths' \in [Peers -> SUBSET (0 .. 2 * MaxTime)],
         tainted' \in [Peers -> BOOLEAN],
         Received
  PROVE  RttInv'
  <1>1. /\ m.to \in Peers /\ m.local_timestamp \in Stamps
        /\ m.sent \in 0 .. MaxTime /\ m.sent <= now /\ now \in 0 .. MaxTime
    BY DEF RttInv, TypeOK, Headers, SentInPast
  <1>2. now - m.sent \in 0 .. MaxTime
    BY <1>1, BoundAssumption
  <1>3. /\ Parsed(m.to, m.local_timestamp, rtt) \in Stat
        /\ Parsed(m.to, m.local_timestamp, rtt).min
             <= Parsed(m.to, m.local_timestamp, rtt).max
    BY <1>1, ParsedOrders DEF RttInv
  <1>4. stat' \in [Peers -> Stat]
    BY <1>3 DEF RttInv, TypeOK
  <1>5. echo' \in [Peers -> -1 .. MaxTime]
    <2>1. now - m.sent \in -1 .. MaxTime
      BY <1>2, BoundAssumption
    <2>2. QED
      BY <2>1 DEF RttInv, TypeOK
  <1>6. TypeOK'
    <2>1. receipts' \in 0 .. MaxReceipts
      BY BoundAssumption DEF RttInv, TypeOK, Received
    <2>2. QED
      BY <1>4, <1>5, <2>1 DEF RttInv, TypeOK, Received
  <1>7. ASSUME NEW p \in Peers
        PROVE  (stat'[p].min > stat'[p].max) <=> (echo'[p] = -1)
    <2>1. CASE p = m.to
      <3>1. /\ stat'[p] = Parsed(m.to, m.local_timestamp, rtt)
            /\ echo'[p] = now - m.sent
        BY <1>1, <2>1 DEF RttInv, TypeOK
      <3>2. stat'[p].min \in Int /\ stat'[p].max \in Int
        BY <1>4, <1>7, WidthAssumption DEF Stat, Stamps
      <3>3. QED
        BY <1>2, <1>3, <3>1, <3>2
    <2>2. CASE p # m.to
      BY <2>2 DEF RttInv, TypeOK, FirstSampleKnown
    <2>3. QED
      BY <2>1, <2>2
  <1>8. SentInPast'
    BY DEF RttInv, SentInPast, Received
  <1>9. QED
    BY <1>6, <1>7, <1>8 DEF RttInv, FirstSampleKnown

LEMMA RttInvStep == RttInv /\ [Next]_vars => RttInv'
  <1> SUFFICES ASSUME RttInv, [Next]_vars
               PROVE  RttInv'
    OBVIOUS
  <1>1. CASE Tick
    <2>1. now' \in 0 .. MaxTime /\ now < now'
      BY <1>1, BoundAssumption DEF Tick, RttInv, TypeOK
    <2>2. TypeOK'
      BY <1>1, <2>1 DEF Tick, RttInv, TypeOK
    <2>3. SentInPast'
      <3>1. \A m \in net : m.sent \in Int
        BY DEF RttInv, TypeOK, Headers
      <3>2. now \in Int /\ now' \in Int
        BY <2>1 DEF RttInv, TypeOK
      <3>3. QED
        BY <1>1, <2>1, <3>1, <3>2 DEF Tick, RttInv, SentInPast
    <2>4. QED
      BY <1>1, <2>2, <2>3 DEF Tick, RttInv, FirstSampleKnown
  <1>2. ASSUME NEW p \in Peers, NEW q \in Peers, Send(p, q)
        PROVE  RttInv'
    <2> DEFINE h == [to |-> q, local_timestamp |-> Clock(p), rtt_timestamp |-> RttStamp(p),
                     sent |-> now, echo |-> echo[p]]
    <2>1. Clock(p) \in Stamps /\ RttStamp(p) \in Stamps
      BY ClockIsStamp, RttStampIsStamp DEF RttInv
    <2>2. h \in Headers /\ h.sent = now
      BY <2>1 DEF RttInv, TypeOK, Headers
    <2>3. net' = net \cup {h}
      BY <1>2 DEF Send
    <2> HIDE DEF h
    <2>4. TypeOK'
      BY <1>2, <2>2, <2>3 DEF Send, RttInv, TypeOK
    <2>5. SentInPast'
      <3>1. now \in Int
        BY DEF RttInv, TypeOK
      <3>2. QED
        BY <1>2, <2>2, <2>3, <3>1 DEF Send, RttInv, SentInPast
    <2>6. QED
      BY <1>2, <2>4, <2>5 DEF Send, RttInv, FirstSampleKnown
  <1>3. ASSUME NEW m \in net, Receive(m)
        PROVE  RttInv'
    <2>1. /\ m.to \in Peers /\ m.rtt_timestamp \in Stamps
          /\ m.echo \in -1 .. MaxTime
          /\ m.sent \in 0 .. MaxTime /\ m.sent <= now /\ now \in 0 .. MaxTime
      BY DEF RttInv, TypeOK, Headers, SentInPast
    <2>2. m.echo # -1 => m.echo + now - m.sent \in 0 .. 2 * MaxTime
      BY <2>1, BoundAssumption
    <2>3. truths' \in [Peers -> SUBSET (0 .. 2 * MaxTime)]
      BY <1>3, <2>1, <2>2 DEF Receive, RttInv, TypeOK
    <2>4. tainted' \in [Peers -> BOOLEAN]
      BY <1>3 DEF Receive, RttInv, TypeOK
    <2>5. QED
      BY <1>3, <2>1, <2>3, <2>4, ReceiptKeepsInv DEF Receive
  <1>4. ASSUME NEW m \in net, ReceiveCut(m)
        PROVE  RttInv'
    <2>1. PICK rtt \in Garbage :
            stat' = [stat EXCEPT ![m.to] = Parsed(m.to, m.local_timestamp, rtt)]
      BY <1>4 DEF ReceiveCut
    <2>2. rtt \in Stamps
      BY GarbageAssumption DEF Stamps
    <2>3. /\ truths' \in [Peers -> SUBSET (0 .. 2 * MaxTime)]
          /\ tainted' \in [Peers -> BOOLEAN]
      BY <1>4 DEF ReceiveCut, RttInv, TypeOK
    <2>4. QED
      BY <1>4, <2>1, <2>2, <2>3, ReceiptKeepsInv DEF ReceiveCut
  <1>5. ASSUME NEW p \in Peers, Adjust(p)
        PROVE  RttInv'
    <2>1. skew' \in [Peers -> Int]
      BY <1>5, SkewAssumption DEF Adjust, RttInv, TypeOK
    <2>2. QED
      BY <1>5, <2>1 DEF Adjust, RttInv, TypeOK, SentInPast, FirstSampleKnown
  <1>6. CASE UNCHANGED vars
    BY <1>6 DEF vars, RttInv, TypeOK, SentInPast, FirstSampleKnown
  <1>7. QED
    BY <1>1, <1>2, <1>3, <1>4, <1>5, <1>6 DEF Next

LEMMA RttInvariant == Safety => []RttInv
  BY RttInvInit, RttInvStep, PTL DEF Safety

(* Every timestamp and every statistic is a value of uint64_t, whatever    *)
(* the memory held, the clocks say and the packets bring.                  *)
THEOREM RttTypeCorrect == Safety => []TypeOK
  <1>1. RttInv => TypeOK
    BY DEF RttInv
  <1>2. QED
    BY <1>1, RttInvariant, PTL

(* parse_header takes exactly the first sample of a peer for the first: no *)
(* value, not even zero or the largest, brings _min and _max back in the   *)
(* order the constructor gave them.                                        *)
THEOREM FirstSampleIsKnown == Safety => []FirstSampleKnown
  <1>1. RttInv => FirstSampleKnown
    BY DEF RttInv
  <1>2. QED
    BY <1>1, RttInvariant, PTL

------------------------------------------------------------------------------
(* Arithmetic modulo W.                                                    *)

LEMMA ModSplit ==
  ASSUME NEW x \in Int
  PROVE  \E k \in Int : x = k * W + (x % W)
  <1>1. x \div W \in Int /\ x = W * (x \div W) + (x % W)
    BY WidthAssumption
  <1>2. W * (x \div W) = (x \div W) * W
    BY <1>1, WidthAssumption
  <1>3. QED
    BY <1>1, <1>2

LEMMA TimesWidth ==
  ASSUME NEW d \in Int, d >= 1
  PROVE  d * W >= W
  BY WidthAssumption

LEMMA RemainderUnique ==
  ASSUME NEW k \in Int, NEW l \in Int, NEW r \in Stamps, NEW s \in Stamps,
         k * W + r = l * W + s
  PROVE  r = s
  <1> USE DEF Stamps
  <1>1. (k - l) * W = s - r /\ (l - k) * W = r - s
    BY WidthAssumption
  <1>2. CASE k - l >= 1
    <2>1. (k - l) * W >= W
      BY <1>2, TimesWidth, k - l \in Int
    <2>2. QED
      BY <1>1, <2>1, WidthAssumption
  <1>3. CASE l - k >= 1
    <2>1. (l - k) * W >= W
      BY <1>3, TimesWidth, l - k \in Int
    <2>2. QED
      BY <1>1, <2>1, WidthAssumption
  <1>4. CASE k = l
    BY <1>4, WidthAssumption
  <1>5. QED
    BY <1>2, <1>3, <1>4

(* Two numbers have one remainder exactly if they are multiples of W apart. *)
LEMMA SameRemainder ==
  ASSUME NEW x \in Int, NEW y \in Int
  PROVE  x % W = y % W <=> \E j \in Int : x = y + j * W
  <1>1. PICK k \in Int : x = k * W + (x % W)
    BY ModSplit
  <1>2. PICK l \in Int : y = l * W + (y % W)
    BY ModSplit
  <1>3. x % W \in Stamps /\ y % W \in Stamps
    BY ModIsStamp
  <1>4. x % W \in Int /\ y % W \in Int
    BY <1>3, WidthAssumption DEF Stamps
  <1>5. ASSUME x % W = y % W
        PROVE  \E j \in Int : x = y + j * W
    <2>1. (k - l) * W = k * W - l * W /\ k * W \in Int /\ l * W \in Int
      BY WidthAssumption
    <2>2. x = y + (k - l) * W
      BY <1>1, <1>2, <1>4, <1>5, <2>1
    <2>3. QED
      BY <2>2
  <1>6. ASSUME NEW j \in Int, x = y + j * W
        PROVE  x % W = y % W
    <2>1. (l + j) * W = l * W + j * W /\ l * W \in Int /\ j * W \in Int
      BY WidthAssumption
    <2>2. (l + j) * W + (y % W) = k * W + (x % W)
      BY <1>1, <1>2, <1>4, <1>6, <2>1
    <2>3. QED
      BY <1>3, <2>2, RemainderUnique, l + j \in Int
  <1>7. QED
    BY <1>5, <1>6

LEMMA ModMod ==
  ASSUME NEW x \in Int
  PROVE  (x % W) \in Int /\ (x % W) % W = x % W
  <1>1. x % W \in Stamps /\ (x % W) \in Int
    BY ModIsStamp, WidthAssumption DEF Stamps
  <1>2. PICK k \in Int : x = k * W + (x % W)
    BY ModSplit
  <1>3. x = (x % W) + k * W
    BY <1>1, <1>2, WidthAssumption
  <1>4. QED
    BY <1>1, <1>3, SameRemainder

LEMMA ModSum ==
  ASSUME NEW a \in Int, NEW b \in Int, NEW c \in Int, NEW d \in Int,
         a % W = c % W, b % W = d % W
  PROVE  (a + b) % W = (c + d) % W /\ (a - b) % W = (c - d) % W
  <1>1. PICK j \in Int : a = c + j * W
    BY SameRemainder
  <1>2. PICK k \in Int : b = d + k * W
    BY SameRemainder
  <1>3. /\ (j + k) * W = j * W + k * W /\ (j - k) * W = j * W - k * W
        /\ j * W \in Int /\ k * W \in Int
    BY WidthAssumption
  <1>4. a + b = (c + d) + (j + k) * W /\ a - b = (c - d) + (j - k) * W
    BY <1>1, <1>2, <1>3
  <1>5. QED
    BY <1>4, SameRemainder, a + b \in Int, c + d \in Int, a - b \in Int, c - d \in Int,
       j + k \in Int, j - k \in Int

LEMMA ModDifference ==
  ASSUME NEW a \in Int, NEW b \in Int
  PROVE  ((a % W) - (b % W)) % W = (a - b) % W
  <1> DEFINE x == a % W
             y == b % W
  <1>1. x \in Int /\ x % W = a % W /\ y \in Int /\ y % W = b % W
    BY ModMod
  <1> HIDE DEF x, y
  <1>2. (x - y) % W = (a - b) % W
    BY <1>1, ModSum
  <1>3. QED
    BY <1>2 DEF x, y

LEMMA SmallMod ==
  ASSUME NEW x \in Stamps
  PROVE  x % W = x
  BY WidthAssumption DEF Stamps

------------------------------------------------------------------------------
(* What headers and timestamps tell.                                       *)

(* As long as no clock is set: a header carries its sender's clock at the  *)
(* time it was sent; one that answers another carries the clock of the     *)
(* peer it goes to, less the delays; and a peer's two timestamps are the   *)
(* two clocks' readings at the ends of the last header's way.              *)
LocalIsClock == \A m \in net : \A p \in Peers \ {m.to} :
                  m.local_timestamp = (m.sent + skew[p]) % W
RttIsEcho    == \A m \in net :
                  m.echo # -1 => m.rtt_timestamp = (m.sent - m.echo + skew[m.to]) % W
StampsApart  == \A p \in Peers : \A q \in Peers \ {p} :
                  echo[p] # -1 => (stat[p].remote_ts - stat[p].recv_ts) % W
                                    = (skew[q] - skew[p] - echo[p]) % W

HeaderInv == RttInv /\ (steady => LocalIsClock /\ RttIsEcho /\ StampsApart)

LEMMA InitHeaderInv == Init => HeaderInv
  BY RttInvInit DEF Init, HeaderInv, LocalIsClock, RttIsEcho, StampsApart

(* A header that answers another. *)
LEMMA AnswerEchoes ==
  ASSUME RttInv, StampsApart, NEW p \in Peers, NEW q \in Peers \ {p}, echo[p] # -1
  PROVE  RttStamp(p) = (now - echo[p] + skew[q]) % W
  <1> DEFINE remote == stat[p].remote_ts
             recv   == stat[p].recv_ts
  <1>1. remote \in Int /\ recv \in Int /\ Clock(p) \in Int
    BY ClockIsStamp, WidthAssumption DEF RttInv, TypeOK, Stat, Stamps
  <1>2. skew[p] \in Int /\ skew[q] \in Int /\ echo[p] \in Int /\ now \in Int
    BY BoundAssumption DEF RttInv, TypeOK
  <1>3. (remote - recv) % W = (skew[q] - skew[p] - echo[p]) % W
    BY DEF StampsApart
  <1>4. Clock(p) % W = (now + skew[p]) % W
    BY <1>2, ModMod DEF Clock
  <1>5. ((remote - recv) + Clock(p)) % W
           = ((skew[q] - skew[p] - echo[p]) + (now + skew[p])) % W
    <2> DEFINE a == remote - recv
               b == Clock(p)
               c == skew[q] - skew[p] - echo[p]
               d == now + skew[p]
    <2>1. a \in Int /\ b \in Int /\ c \in Int /\ d \in Int
      BY <1>1, <1>2
    <2>2. a % W = c % W /\ b % W = d % W
      BY <1>3, <1>4
    <2> HIDE DEF a, b, c, d
    <2>3. (a + b) % W = (c + d) % W
      BY <2>1, <2>2, ModSum
    <2>4. QED
      BY <2>3 DEF a, b, c, d
  <1>6. /\ remote + (Clock(p) - recv) = (remote - recv) + Clock(p)
        /\ (skew[q] - skew[p] - echo[p]) + (now + skew[p]) = now - echo[p] + skew[q]
    BY <1>1, <1>2
  <1>7. QED
    BY <1>5, <1>6 DEF RttStamp

(* The clocks at the two ends of a header's way. *)
LEMMA EndsApart ==
  ASSUME RttInv, NEW p \in Peers, NEW q \in Peers, NEW sent \in Int
  PROVE  (((sent + skew[q]) % W) - Clock(p)) % W = (skew[q] - skew[p] - (now - sent)) % W
  <1>1. skew[p] \in Int /\ skew[q] \in Int /\ now \in Int
    BY BoundAssumption DEF RttInv, TypeOK
  <1> DEFINE a == sent + skew[q]
             b == now + skew[p]
  <1>2. a \in Int /\ b \in Int
    BY <1>1
  <1>3. a - b = skew[q] - skew[p] - (now - sent)
    BY <1>1
  <1> HIDE DEF a, b
  <1>4. ((a % W) - (b % W)) % W = (a - b) % W
    BY <1>2, ModDifference
  <1>5. QED
    BY <1>3, <1>4 DEF Clock, a, b

(* A receipt, whole or cut: the timestamps of the header's receiver. *)
LEMMA ReceiptKeepsHeaders ==
  ASSUME HeaderInv, RttInv', NEW m \in net, NEW rtt,
         stat' = [stat EXCEPT ![m.to] = Parsed(m.to, m.local_timestamp, rtt)],
         echo' = [echo EXCEPT ![m.to] = now - m.sent],
         Received
  PROVE  HeaderInv'
  <1> SUFFICES ASSUME steady
               PROVE  LocalIsClock' /\ RttIsEcho' /\ StampsApart'
    BY DEF HeaderInv, Received
  <1>1. LocalIsClock' /\ RttIsEcho'
    BY DEF HeaderInv, LocalIsClock, RttIsEcho, Received
  <1>2. m.to \in Peers /\ m.sent \in Int
    BY BoundAssumption DEF HeaderInv, RttInv, TypeOK, Headers
  <1>3. ASSUME NEW p \in Peers, NEW q \in Peers \ {p}, echo'[p] # -1
        PROVE  (stat'[p].remote_ts - stat'[p].recv_ts) % W
                 = (skew'[q] - skew'[p] - echo'[p]) % W
    <2>1. skew' = skew
      BY DEF Received
    <2>2. CASE p = m.to
      <3>1. stat'[p].remote_ts = m.local_timestamp /\ stat'[p].recv_ts = Clock(p)
        BY <1>2, <2>2 DEF Parsed, Sampled, HeaderInv, RttInv, TypeOK, Stat
      <3>2. m.local_timestamp = (m.sent + skew[q]) % W
        BY <2>2, <1>3 DEF HeaderInv, LocalIsClock
      <3>3. echo'[p] = now - m.sent
        BY <2>2 DEF HeaderInv, RttInv, TypeOK
      <3>4. QED
        BY <1>2, <2>1, <3>1, <3>2, <3>3, EndsApart DEF HeaderInv
    <2>3. CASE p # m.to
      BY <1>3, <2>1, <2>3 DEF HeaderInv, StampsApart, RttInv, TypeOK
    <2>4. QED
      BY <2>2, <2>3
  <1>4. QED
    BY <1>1, <1>3 DEF StampsApart

LEMMA StepHeaderInv == HeaderInv /\ [Next]_vars => HeaderInv'
  <1> SUFFICES ASSUME HeaderInv, [Next]_vars
               PROVE  HeaderInv'
    OBVIOUS
  <1>1. RttInv /\ RttInv'
    BY RttInvStep DEF HeaderInv
  <1>2. CASE Tick
    BY <1>1, <1>2 DEF Tick, HeaderInv, LocalIsClock, RttIsEcho, StampsApart
  <1>3. ASSUME NEW p \in Peers, NEW q \in Peers, Send(p, q)
        PROVE  HeaderInv'
    <2> SUFFICES ASSUME steady
                 PROVE  LocalIsClock' /\ RttIsEcho' /\ StampsApart'
      BY <1>1, <1>3 DEF HeaderInv, Send
    <2> DEFINE h == [to |-> q, local_timestamp |-> Clock(p), rtt_timestamp |-> RttStamp(p),
                     sent |-> now, echo |-> echo[p]]
    <2>1. net' = net \cup {h} /\ UNCHANGED <<now, skew, stat, echo>> /\ q # p
      BY <1>3 DEF Send
    <2>2. StampsApart'
      BY <2>1 DEF HeaderInv, StampsApart
    <2>3. LocalIsClock'
      <3>1. \A r \in Peers \ {q} : r = p
        BY <2>1, PeersAssumption
      <3>2. h.to = q /\ h.local_timestamp = (h.sent + skew[p]) % W
        BY DEF Clock
      <3> HIDE DEF h
      <3>3. QED
        BY <2>1, <3>1, <3>2 DEF HeaderInv, LocalIsClock
    <2>4. RttIsEcho'
      <3>1. h.echo # -1 => h.rtt_timestamp = (h.sent - h.echo + skew[h.to]) % W
        BY <1>1, <2>1, AnswerEchoes DEF HeaderInv
      <3> HIDE DEF h
      <3>2. QED
        BY <2>1, <3>1 DEF HeaderInv, RttIsEcho
    <2>5. QED
      BY <2>2, <2>3, <2>4
  <1>4. ASSUME NEW m \in net, Receive(m)
        PROVE  HeaderInv'
    BY <1>1, <1>4, ReceiptKeepsHeaders DEF Receive
  <1>5. ASSUME NEW m \in net, ReceiveCut(m)
        PROVE  HeaderInv'
    BY <1>1, <1>5, ReceiptKeepsHeaders DEF ReceiveCut
  <1>6. ASSUME NEW p \in Peers, Adjust(p)
        PROVE  HeaderInv'
    BY <1>1, <1>6 DEF Adjust, HeaderInv
  <1>7. CASE UNCHANGED vars
    BY <1>1, <1>7 DEF vars, HeaderInv, LocalIsClock, RttIsEcho, StampsApart
  <1>8. QED
    BY <1>2, <1>3, <1>4, <1>5, <1>6, <1>7 DEF Next

(* What a header that answers another tells at a receipt, whenever it is. *)
LEMMA HeaderTells ==
  ASSUME HeaderInv, steady, NEW m \in net, m.echo # -1
  PROVE  (Clock(m.to) - m.rtt_timestamp) % W = (m.echo + now - m.sent) % W
  <1>1. /\ m.to \in Peers /\ m.sent \in Int /\ m.echo \in Int
        /\ now \in Int /\ skew[m.to] \in Int
    BY BoundAssumption DEF HeaderInv, RttInv, TypeOK, Headers
  <1> DEFINE a == now + skew[m.to]
             b == m.sent - m.echo + skew[m.to]
  <1>2. a \in Int /\ b \in Int
    BY <1>1
  <1>3. a - b = m.echo + now - m.sent
    BY <1>1
  <1> HIDE DEF a, b
  <1>4. ((a % W) - (b % W)) % W = (a - b) % W
    BY <1>2, ModDifference
  <1>5. m.rtt_timestamp = b % W
    BY DEF HeaderInv, RttIsEcho, b
  <1>6. QED
    BY <1>3, <1>4, <1>5 DEF Clock, a, b

(* For two clocks of one rate, however far apart, and any width of the     *)
(* timestamps: a header that answers another gives its receiver exactly    *)
(* the time both were on their way, even if it is late, repeated, or the   *)
(* timestamps have wrapped around meanwhile.                               *)
THEOREM HeadersTellRoundTrips == Safety => []HeaderTellsRoundTrip
  <1>1. HeaderInv => HeaderTellsRoundTrip
    BY HeaderTells DEF HeaderTellsRoundTrip
  <1>2. QED
    BY <1>1, InitHeaderInv, StepHeaderInv, PTL DEF Safety

------------------------------------------------------------------------------
(* What the statistics tell.                                               *)

(* The greatest round trip, 2 * MaxTime, is so far below W that the        *)
(* average of ten samples does not overflow.                               *)
NoOverflow == 20 * MaxTime < W

(* s holds the extremes of the round trips T, and an average between them. *)
Summarises(s, T) == /\ s.min \in T /\ s.max \in T
                    /\ \A t \in T : s.min <= t /\ t <= s.max
                    /\ s.min <= s.avg /\ s.avg <= s.max

(* Before its first header a peer's statistics are the constructor's; and  *)
(* as long as no clock is set and every header has answered another they   *)
(* summarise what it was told.                                             *)
StatInv == \A p \in Peers :
             /\ echo[p] = -1 => /\ stat[p].min = W - 1 /\ stat[p].max = 0
                                /\ truths[p] = {}
             /\ (steady /\ ~tainted[p] /\ echo[p] # -1) => Summarises(stat[p], truths[p])

LEMMA InitStatInv == Init => StatInv
  <1> SUFFICES ASSUME Init, NEW p \in Peers
               PROVE  stat[p].min = W - 1 /\ stat[p].max = 0
    BY DEF Init, StatInv
  <1>1. stat[p] \in [remote_ts : Garbage, recv_ts : Garbage,
                     avg : {0}, min : {W - 1}, max : {0}]
    BY DEF Init
  <1>2. QED
    BY <1>1

(* The first sample. *)
LEMMA FirstSummarises ==
  ASSUME NEW s \in Stat, s.min = W - 1, s.max = 0, NEW v \in Stamps
  PROVE  Summarises(Sampled(s, v), {v})
  <1>1. W - 1 > 0 /\ v \in 0 .. W - 1
    BY WidthAssumption DEF Stamps
  <1>2. Average(s, v) = v
    BY <1>1, WidthAssumption DEF Average
  <1>3. /\ Sampled(s, v).min = (IF s.min > v THEN v ELSE s.min)
        /\ Sampled(s, v).max = (IF s.max < v THEN v ELSE s.max)
        /\ Sampled(s, v).avg = Average(s, v)
    BY DEF Sampled, Stat
  <1>4. Sampled(s, v).min = v /\ Sampled(s, v).max = v /\ Sampled(s, v).avg = v
    BY <1>1, <1>2, <1>3, WidthAssumption
  <1>5. v <= v
    BY <1>1, WidthAssumption
  <1>6. QED
    BY <1>4, <1>5 DEF Summarises

(* A later one. *)
LEMMA NextSummarises ==
  ASSUME NoOverflow, NEW s \in Stat, NEW T \in SUBSET (0 .. 2 * MaxTime),
         Summarises(s, T), NEW v \in 0 .. 2 * MaxTime
  PROVE  Summarises(Sampled(s, v), T \cup {v})
  <1>1. /\ s.min \in 0 .. 2 * MaxTime /\ s.max \in 0 .. 2 * MaxTime
        /\ s.avg \in Int /\ s.min <= s.avg /\ s.avg <= s.max /\ s.min <= s.max
    BY WidthAssumption, BoundAssumption DEF Summarises, Stat, Stamps
  <1> DEFINE sum == 3 * v + 7 * s.avg
  <1>2. sum \in Stamps
    BY <1>1, WidthAssumption, BoundAssumption DEF NoOverflow, Stamps
  <1>3. Average(s, v) = sum \div 10
    BY <1>1, <1>2, SmallMod, BoundAssumption DEF Average
  <1> DEFINE low  == IF s.min > v THEN v ELSE s.min
             high == IF s.max < v THEN v ELSE s.max
  <1>4. /\ low \in Int /\ high \in Int /\ low <= v /\ v <= high
        /\ low <= s.min /\ s.max <= high
    BY <1>1, BoundAssumption
  <1>5. low <= sum \div 10 /\ sum \div 10 <= high
    BY <1>1, <1>4, BoundAssumption
  <1>6. /\ Sampled(s, v).min = low /\ Sampled(s, v).max = high
        /\ Sampled(s, v).avg = sum \div 10
    BY <1>3 DEF Sampled, Stat
  <1>7. low \in T \cup {v} /\ high \in T \cup {v}
    BY DEF Summarises
  <1>8. ASSUME NEW t \in T \cup {v}
        PROVE  low <= t /\ t <= high
    <2>1. CASE t \in T
      <3>1. s.min <= t /\ t <= s.max /\ t \in Int
        BY <2>1, BoundAssumption DEF Summarises
      <3>2. QED
        BY <1>1, <1>4, <3>1, BoundAssumption
    <2>2. CASE t = v
      BY <1>4, <2>2
    <2>3. QED
      BY <2>1, <2>2
  <1> HIDE DEF sum, low, high
  <1>9. QED
    BY <1>5, <1>6, <1>7, <1>8 DEF Summarises

(* A peer gets a header: only what it knows changes. *)
LEMMA OthersKeepStat ==
  ASSUME StatInv, RttInv, NEW m \in net, Received,
         stat' = [stat EXCEPT ![m.to] = stat'[m.to]],
         echo' = [echo EXCEPT ![m.to] = now - m.sent],
         tainted' = [tainted EXCEPT ![m.to] = tainted'[m.to]],
         truths' = [truths EXCEPT ![m.to] = truths'[m.to]],
         (steady /\ ~tainted'[m.to]) => Summarises(stat'[m.to], truths'[m.to])
  PROVE  StatInv'
  <1>1. /\ m.to \in Peers /\ m.sent \in Int /\ now \in Int /\ m.sent <= now
    BY BoundAssumption DEF RttInv, TypeOK, Headers, SentInPast
  <1>2. echo'[m.to] # -1
    BY <1>1 DEF RttInv, TypeOK
  <1>3. \A p \in Peers \ {m.to} :
          /\ stat'[p] = stat[p] /\ echo'[p] = echo[p]
          /\ tainted'[p] = tainted[p] /\ truths'[p] = truths[p]
    BY DEF RttInv, TypeOK
  <1>4. steady' = steady
    BY DEF Received
  <1>5. QED
    BY <1>2, <1>3, <1>4 DEF StatInv

LEMMA StepStatInv == NoOverflow /\ HeaderInv /\ StatInv /\ [Next]_vars => StatInv'
  <1> SUFFICES ASSUME NoOverflow, HeaderInv, StatInv, [Next]_vars
               PROVE  StatInv'
    OBVIOUS
  <1> USE DEF HeaderInv
  <1>1. CASE Tick
    BY <1>1 DEF Tick, StatInv
  <1>2. ASSUME NEW p \in Peers, NEW q \in Peers, Send(p, q)
        PROVE  StatInv'
    BY <1>2 DEF Send, StatInv
  <1>3. ASSUME NEW m \in net, Receive(m)
        PROVE  StatInv'
    <2> DEFINE p == m.to
               v == m.echo + now - m.sent
    <2>1. /\ p \in Peers /\ m.sent \in 0 .. MaxTime /\ m.sent <= now
          /\ now \in 0 .. MaxTime /\ m.echo \in -1 .. MaxTime
      BY DEF RttInv, TypeOK, Headers, SentInPast
    <2>2. CASE m.echo = -1
      <3>1. tainted' = [tainted EXCEPT ![p] = TRUE] /\ truths' = truths
        BY <1>3, <2>2 DEF Receive
      <3>2. QED
        BY <1>3, <2>1, <3>1, OthersKeepStat DEF Receive, RttInv, TypeOK
    <2>3. CASE m.echo # -1
      <3>1. tainted' = tainted /\ truths' = [truths EXCEPT ![p] = @ \cup {v}]
        BY <1>3, <2>3 DEF Receive
      <3>2. v \in 0 .. 2 * MaxTime /\ v \in Stamps
        BY <2>1, <2>3, BoundAssumption, WidthAssumption DEF NoOverflow, Stamps
      <3>3. ASSUME steady, ~tainted[p]
            PROVE  Summarises(stat'[p], truths'[p])
        <4> DEFINE s == [stat[p] EXCEPT !.recv_ts = Clock(p), !.remote_ts = m.local_timestamp]
        <4>1. stat'[p] = Sampled(s, v)
          <5>1. (Clock(p) - m.rtt_timestamp) % W = v
            BY <2>3, <3>2, <3>3, HeaderTells, SmallMod
          <5>2. stat'[p] = Parsed(p, m.local_timestamp, m.rtt_timestamp)
            BY <1>3, <2>1 DEF Receive, RttInv, TypeOK
          <5>3. QED
            BY <5>1, <5>2 DEF Parsed
        <4>2. /\ s \in Stat /\ s.min = stat[p].min /\ s.max = stat[p].max
              /\ s.avg = stat[p].avg
          BY <2>1, ClockIsStamp DEF RttInv, TypeOK, Stat, Headers
        <4>3. truths'[p] = truths[p] \cup {v} /\ truths[p] \in SUBSET (0 .. 2 * MaxTime)
          BY <2>1, <3>1 DEF RttInv, TypeOK
        <4> HIDE DEF s, v
        <4>4. CASE echo[p] = -1
          BY <2>1, <3>2, <4>1, <4>2, <4>3, <4>4, FirstSummarises DEF StatInv
        <4>5. CASE echo[p] # -1
          <5>1. Summarises(stat[p], truths[p])
            BY <2>1, <3>3, <4>5 DEF StatInv
          <5>2. Summarises(s, truths[p])
            BY <4>2, <5>1 DEF Summarises
          <5>3. QED
            BY <3>2, <4>1, <4>2, <4>3, <5>2, NextSummarises
        <4>6. QED
          BY <4>4, <4>5
      <3>4. QED
        BY <1>3, <2>1, <3>1, <3>3, OthersKeepStat DEF Receive, RttInv, TypeOK
    <2>4. QED
      BY <2>2, <2>3
  <1>4. ASSUME NEW m \in net, ReceiveCut(m)
        PROVE  StatInv'
    <2>1. m.to \in Peers
      BY DEF RttInv, TypeOK, Headers
    <2>2. PICK rtt \in Garbage :
            stat' = [stat EXCEPT ![m.to] = Parsed(m.to, m.local_timestamp, rtt)]
      BY <1>4 DEF ReceiveCut
    <2>3. /\ Received
          /\ echo' = [echo EXCEPT ![m.to] = now - m.sent]
          /\ tainted' = [tainted EXCEPT ![m.to] = TRUE]
          /\ truths' = truths
      BY <1>4 DEF ReceiveCut
    <2>4. stat' = [stat EXCEPT ![m.to] = stat'[m.to]]
      BY <2>1, <2>2 DEF RttInv, TypeOK
    <2>5. /\ tainted'[m.to] = TRUE
          /\ tainted' = [tainted EXCEPT ![m.to] = tainted'[m.to]]
          /\ truths' = [truths EXCEPT ![m.to] = truths'[m.to]]
      BY <2>1, <2>3 DEF RttInv, TypeOK
    <2>6. QED
      BY <2>3, <2>4, <2>5, OthersKeepStat
  <1>5. ASSUME NEW p \in Peers, Adjust(p)
        PROVE  StatInv'
    BY <1>5 DEF Adjust, StatInv
  <1>6. CASE UNCHANGED vars
    BY <1>6 DEF vars, StatInv
  <1>7. QED
    BY <1>1, <1>2, <1>3, <1>4, <1>5, <1>6 DEF Next

LEMMA ExtremesAre ==
  ASSUME NEW T \in SUBSET Int, NEW low \in T, NEW high \in T,
         \A t \in T : low <= t /\ t <= high
  PROVE  Min(T) = low /\ Max(T) = high
  <1>1. Min(T) \in T /\ \A t \in T : Min(T) <= t
    BY DEF Min
  <1>2. Max(T) \in T /\ \A t \in T : Max(T) >= t
    BY DEF Max
  <1>3. Min(T) <= low /\ low <= Min(T) /\ Max(T) >= high /\ Max(T) <= high
    BY <1>1, <1>2
  <1>4. Min(T) \in Int /\ Max(T) \in Int /\ low \in Int /\ high \in Int
    BY <1>1, <1>2
  <1>5. QED
    BY <1>3, <1>4

(* A peer that was only sent answers, while no clock was set, has the true *)
(* minimum and maximum of the round trips its headers made, and an average *)
(* between them, however the packets were delayed, repeated or reordered,  *)
(* as long as round trips are too short for the average to overflow.       *)
THEOREM StatisticsTellRoundTrips ==
  ASSUME NoOverflow
  PROVE  Safety => []StatisticsAreTrue
  <1>1. HeaderInv /\ StatInv => StatisticsAreTrue
    <2> SUFFICES ASSUME HeaderInv, StatInv, NEW p \in Peers,
                        steady, ~tainted[p], truths[p] # {}
                 PROVE  /\ stat[p].min = Min(truths[p])
                        /\ stat[p].max = Max(truths[p])
                        /\ stat[p].avg \in stat[p].min .. stat[p].max
      BY DEF StatisticsAreTrue
    <2>1. Summarises(stat[p], truths[p])
      BY DEF StatInv
    <2>2. truths[p] \in SUBSET Int /\ stat[p].avg \in Int
      BY BoundAssumption, WidthAssumption DEF HeaderInv, RttInv, TypeOK, Stat, Stamps
    <2>3. stat[p].min \in Int /\ stat[p].max \in Int
      BY <2>1, <2>2 DEF Summarises
    <2>4. QED
      BY <2>1, <2>2, <2>3, ExtremesAre DEF Summarises
  <1>2. Init => HeaderInv /\ StatInv
    BY InitHeaderInv, InitStatInv
  <1>3. HeaderInv /\ StatInv /\ [Next]_vars => (HeaderInv /\ StatInv)'
    BY NoOverflow, StepHeaderInv, StepStatInv
  <1>4. QED
    BY <1>1, <1>2, <1>3, PTL DEF Safety
==============================================================================
