---------------------------- MODULE RttStatistics ----------------------------
(***************************************************************************)
(* shoryu::rtt_statistics (rtt_statistics.hpp): peers that put an          *)
(* rtt_header on the packets they exchange and keep the minimum, maximum   *)
(* and moving average of the round trip times the headers tell.            *)
(*                                                                         *)
(* The peers' clocks run at one rate from different origins.  Packets may  *)
(* be lost, delayed, reordered and duplicated: one that has been sent is   *)
(* received any number of times, or never.  Timestamps are unsigned, and   *)
(* count modulo W.  An rtt_statistics serves one connection, so there are  *)
(* two peers.                                                              *)
(*                                                                         *)
(* "echo", "sent", "truths", "tainted" and "steady" are history: what the  *)
(* headers and the statistics ought to tell, and when they cannot.         *)
(***************************************************************************)
EXTENDS Integers, FiniteSets, FiniteSetsExt

CONSTANTS Peers,       \* the two ends of a connection
          W,           \* the number of values of a uint64_t
          Skews,       \* how far a peer's clock may be from the true time
          Garbage,     \* what the uninitialised timestamps may hold
          Cuts,        \* a packet may end within its rtt_timestamp
          Settings,    \* the skews at which a peer's clock may be set
          MaxTime,     \* bound on the time
          MaxHeaders,  \* bound on the packets sent
          MaxReceipts  \* bound on the receipts of packets

ASSUME PeersAssumption   == \E p, q \in Peers : p # q /\ Peers = {p, q}
ASSUME WidthAssumption   == W \in Nat \ {0, 1}
ASSUME GarbageAssumption == Garbage \subseteq 0 .. W - 1
ASSUME SkewAssumption    == Skews \subseteq Int /\ Settings \subseteq Int
ASSUME BoundAssumption   == MaxTime \in Nat /\ MaxReceipts \in Nat

VARIABLES now,     \* the true time
          skew,    \* skew[p]: the clock of p is this far ahead of it
          stat,    \* stat[p]: the members of p's rtt_statistics
          net,     \* the packets sent so far
          receipts, \* number of receipts so far
          echo,    \* echo[p]: the delay of the last header p got, -1 if none
          truths,  \* truths[p]: the round trips p has been told of
          tainted, \* tainted[p]: p has received a header that told of none
          steady   \* no clock has been set

vars == <<now, skew, stat, net, receipts, echo, truths, tainted, steady>>

Stamps == 0 .. W - 1

(* nanosec_clock(), which counts milliseconds of the system clock. *)
Clock(p) == (now + skew[p]) % W

Stat == [remote_ts : Stamps, recv_ts : Stamps, avg : Stamps, min : Stamps, max : Stamps]

Headers == [to : Peers, local_timestamp : Stamps, rtt_timestamp : Stamps,
            sent : 0 .. MaxTime, echo : -1 .. MaxTime]

TypeOK == /\ now \in 0 .. MaxTime
          /\ skew \in [Peers -> Int]
          /\ stat \in [Peers -> Stat]
          /\ net \subseteq Headers
          /\ receipts \in 0 .. MaxReceipts
          /\ echo \in [Peers -> -1 .. MaxTime]
          /\ truths \in [Peers -> SUBSET (0 .. 2 * MaxTime)]
          /\ tainted \in [Peers -> BOOLEAN]
          /\ steady \in BOOLEAN

------------------------------------------------------------------------------
(* The constructor sets the statistics, but not the timestamps. *)
Init == /\ now = 0
        /\ skew \in [Peers -> Skews]
        /\ stat \in [Peers -> [remote_ts : Garbage, recv_ts : Garbage,
                               avg : {0}, min : {W - 1}, max : {0}]]
        /\ net = {}
        /\ receipts = 0
        /\ echo = [p \in Peers |-> -1]
        /\ truths = [p \in Peers |-> {}]
        /\ tainted = [p \in Peers |-> FALSE]
        /\ steady = TRUE

Tick == /\ now < MaxTime
        /\ now' = now + 1
        /\ UNCHANGED <<skew, stat, net, receipts, echo, truths, tainted, steady>>

(* The system clock of a peer is set (once in a behaviour, as a bound). *)
Adjust(p) == /\ steady
             /\ \E s \in Settings : skew' = [skew EXCEPT ![p] = s]
             /\ steady' = FALSE
             /\ UNCHANGED <<now, stat, net, receipts, echo, truths, tainted>>

(* Faults: the header does not account for the time since the last one     *)
(* came; it is computed in signed arithmetic.                              *)
RttStampAtReceipt(p) == stat[p].remote_ts
RttStampSigned(p) == stat[p].remote_ts + (Clock(p) - stat[p].recv_ts)

(* The partner's last timestamp, moved on by the time it has been here. *)
RttStamp(p) == (stat[p].remote_ts + (Clock(p) - stat[p].recv_ts)) % W

(* get_header(), on a packet to q. *)
Send(p, q) ==
  /\ p # q
  /\ Cardinality(net) < MaxHeaders
  /\ net' = net \cup {[to |-> q, local_timestamp |-> Clock(p),
                       rtt_timestamp |-> RttStamp(p),
                       sent |-> now, echo |-> echo[p]]}
  /\ UNCHANGED <<now, skew, stat, receipts, echo, truths, tainted, steady>>

(* Fault: the first sample is averaged with the constructor's zero. *)
AverageFromZero(s, value) == ((3 * value + 7 * s.avg) % W) \div 10

(* _avg after a sample, in the arithmetic of uint64_t. *)
Average(s, value) == IF s.min > s.max THEN value
                     ELSE ((3 * value + 7 * s.avg) % W) \div 10

(* Fault: a sample is either a new minimum or a new maximum, not both. *)
SampledElse(s, value) ==
  IF s.min > value
  THEN [s EXCEPT !.avg = Average(s, value), !.min = value]
  ELSE [s EXCEPT !.avg = Average(s, value), !.max = IF @ < value THEN value ELSE @]

(* _avg, _min and _max after a sample.  ("_min < 0" is never so.) *)
Sampled(s, value) ==
  [s EXCEPT !.avg = Average(s, value),
            !.min = IF @ > value THEN value ELSE @,
            !.max = IF @ < value THEN value ELSE @]

(* parse_header() of a header with timestamps local and rtt. *)
Parsed(p, local, rtt) ==
  Sampled([stat[p] EXCEPT !.recv_ts = Clock(p), !.remote_ts = local],
          (Clock(p) - rtt) % W)

Received == /\ receipts < MaxReceipts
            /\ receipts' = receipts + 1
            /\ UNCHANGED <<now, skew, net, steady>>

(* A packet is received, not necessarily for the first time. *)
Receive(m) ==
  LET p == m.to
  IN  /\ stat' = [stat EXCEPT ![p] = Parsed(p, m.local_timestamp, m.rtt_timestamp)]
      /\ echo' = [echo EXCEPT ![p] = now - m.sent]
      /\ IF m.echo = -1
         THEN /\ tainted' = [tainted EXCEPT ![p] = TRUE]
              /\ UNCHANGED truths
         ELSE /\ truths' = [truths EXCEPT ![p] = @ \cup {m.echo + now - m.sent}]
              /\ UNCHANGED tainted
      /\ Received

(* A packet that ends within the rtt_timestamp: the second read comes up   *)
(* short and throws nothing, and what is in the header is parsed.  (When   *)
(* the first read comes up short the second throws, and nothing happens.)  *)
ReceiveCut(m) ==
  LET p == m.to
  IN  /\ Cuts
      /\ \E rtt \in Garbage :
           stat' = [stat EXCEPT ![p] = Parsed(p, m.local_timestamp, rtt)]
      /\ echo' = [echo EXCEPT ![p] = now - m.sent]
      /\ tainted' = [tainted EXCEPT ![p] = TRUE]
      /\ Received
      /\ UNCHANGED truths

Next == \/ Tick
        \/ \E p, q \in Peers : Send(p, q)
        \/ \E m \in net : Receive(m)
        \/ \E m \in net : ReceiveCut(m)
        \/ \E p \in Peers : Adjust(p)

Safety == Init /\ [][Next]_vars

------------------------------------------------------------------------------
(* As long as no clock is set, a header that answers another tells its     *)
(* receiver, whenever it arrives and however the clocks differ, the time   *)
(* both were on their way.                                                 *)
HeaderTellsRoundTrip ==
  \A m \in net : (steady /\ m.echo # -1) =>
    (Clock(m.to) - m.rtt_timestamp) % W = (m.echo + now - m.sent) % W

(* The constructor's _min and _max, by whose order parse_header knows its  *)
(* first sample, are in that order before it and never after it, whatever  *)
(* the samples are.                                                        *)
FirstSampleKnown ==
  \A p \in Peers : stat[p].min > stat[p].max <=> echo[p] = -1

(* As long as no clock is set, a peer that was only sent answers has the   *)
(* true extremes of the round trips it was told of, and an average between *)
(* them.                                                                   *)
StatisticsAreTrue ==
  \A p \in Peers :
    (steady /\ ~tainted[p] /\ truths[p] # {})
      => /\ stat[p].min = Min(truths[p])
         /\ stat[p].max = Max(truths[p])
         /\ stat[p].avg \in stat[p].min .. stat[p].max

(* No round trip time is longer than the peers have been running. *)
NoRttBeyondUptime ==
  \A p \in Peers : stat[p].min <= stat[p].max => stat[p].max <= now
==============================================================================
