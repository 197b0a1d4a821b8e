----------------------------- MODULE PortMapping -----------------------------
(***************************************************************************)
(* net::inet_gateway (inet_gateway.cpp): add, find, remove and             *)
(* get_external_ip called by several threads or control points, over       *)
(* execute_request and upnp_response, with the connection and the          *)
(* gateway's table of port mappings around them.                           *)
(*                                                                         *)
(* A call blocks its caller.  It opens a connection, sends one request     *)
(* and reads one answer: in the model, Call, then Grant or Refuse when the *)
(* request reaches the gateway, then Answered; or Call and NoAnswer.  The  *)
(* request holds what the port_mapping held at the call, and the caller    *)
(* does not touch it before the call returns.  A connection that breaks    *)
(* ends the call, but the request may be with the gateway already          *)
(* (ServeLate).                                                            *)
(*                                                                         *)
(* internal_client stands for description too: find writes them together.  *)
(***************************************************************************)
EXTENDS Naturals, Sequences, SequencesExt, HttpResponse

CONSTANTS Clients,   \* the calling threads, of any control point
          Mappings,  \* what applications put in a port_mapping
          Uses,      \* Uses[c]: those of them that caller c uses
          Omissions, \* the sets of fields a gateway may leave out of an answer
          Words,     \* a gateway may write booleans as words
          LeftBehind, \* the callers whose broken connections may leave a request with the gateway
          MaxCalls,  \* bound on the calls in a behaviour
          Nothing    \* no entry

(* A port_mapping has these members, and "enabled" is a bool. *)
ASSUME MappingsAssumption ==
  \A m \in Mappings :
    /\ {"protocol", "external_port", "enabled", "internal_client", "internal_port",
        "lease_duration"} \subseteq DOMAIN m
    /\ m.enabled \in BOOLEAN
ASSUME MaxCallsAssumption == MaxCalls \in Nat
ASSUME UsesAssumption     == Uses \in [Clients -> SUBSET Mappings]

VARIABLES table,   \* the gateway's entries; Nothing where it has none
          obj,     \* obj[c]: the port_mapping of caller c
          pc,      \* pc[c]: "idle", "requested" or "answered"
          op,      \* op[c]: the operation caller c called last
          answer,  \* answer[c]: the answer on its way to caller c
          late,    \* late[c]: requests of calls of c that are over, still to be served
          result,  \* result[c]: "true", "false" or "throw"; "none" if void
          calls    \* number of calls so far

vars == <<table, obj, pc, op, answer, late, result, calls>>

Operations == {"add", "find", "remove", "get_external_ip"}
Results    == {"none", "true", "false", "throw"}

(* to_upper_copy of the protocol; the port is sent as it is. *)
Upper(protocol) == IF protocol = "tcp" THEN "TCP" ELSE protocol
Key(m) == <<Upper(m.protocol), m.external_port>>

Fields == {"enabled", "internal_client", "internal_port", "lease_duration"}

(* What the parameters of AddPortMapping say, apart from the key. *)
EntryOf(m) == [f \in Fields |-> m[f]]

Keys == {Key(m) : m \in Mappings}

(* Finds and later adds may mix the values of different mappings. *)
Values(f) == {m[f] : m \in Mappings}
Entries == [enabled : BOOLEAN, internal_client : Values("internal_client") \cup {""},
            internal_port : Values("internal_port"),
            lease_duration : Values("lease_duration")]
Answers == [granted : BOOLEAN, entry : Entries \cup {Nothing}]
NoAnswerYet == [granted |-> FALSE, entry |-> Nothing]

(* A port_mapping in the hands of an application. *)
IsMapping(m) == Key(m) \in Keys /\ EntryOf(m) \in Entries

TypeOK == /\ table \in [Keys -> Entries \cup {Nothing}]
          /\ DOMAIN obj = Clients /\ \A c \in Clients : IsMapping(obj[c])
          /\ pc \in [Clients -> {"idle", "requested", "answered"}]
          /\ op \in [Clients -> Operations \cup {"none"}]
          /\ answer \in [Clients -> Answers]
          /\ DOMAIN late = Clients
          /\ \A c \in Clients : \A i \in DOMAIN late[c] :
               late[c][i].op \in Operations /\ IsMapping(late[c][i].obj)
          /\ result \in [Clients -> Results]
          /\ calls \in 0 .. MaxCalls

------------------------------------------------------------------------------
Init == /\ table \in [Keys -> {EntryOf(m) : m \in Mappings} \cup {Nothing}]
        /\ obj \in {o \in [Clients -> Mappings] : \A c \in Clients : o[c] \in Uses[c]}
        /\ pc = [c \in Clients |-> "idle"]
        /\ op = [c \in Clients |-> "none"]
        /\ answer = [c \in Clients |-> NoAnswerYet]
        /\ late = [c \in Clients |-> <<>>]
        /\ result = [c \in Clients |-> "none"]
        /\ calls = 0

(* The application writes a port_mapping between two calls. *)
Fill(c, m) == /\ pc[c] = "idle"
              /\ m \in Uses[c]
              /\ obj' = [obj EXCEPT ![c] = m]
              /\ result' = [result EXCEPT ![c] = "none"]
              /\ UNCHANGED <<table, pc, op, answer, late, calls>>

(* A call of operation o: the request is made. *)
Call(c, o) == /\ pc[c] = "idle"
              /\ calls < MaxCalls
              /\ calls' = calls + 1
              /\ pc' = [pc EXCEPT ![c] = "requested"]
              /\ op' = [op EXCEPT ![c] = o]
              /\ result' = [result EXCEPT ![c] = "none"]
              /\ UNCHANGED <<table, obj, answer, late>>

(* The call returns r, or leaves by an exception. *)
Return(c, r) == /\ pc' = [pc EXCEPT ![c] = "idle"]
                /\ result' = [result EXCEPT ![c] = r]

(* Fault: the request of an add says that the mapping is enabled. *)
RequestEnabled(c) == [op |-> op[c], obj |-> [obj[c] EXCEPT !.enabled = TRUE]]

(* The connection cannot be made, or breaks before an answer: the request  *)
(* has gone to nobody, or is left with the gateway.                        *)
Request(c) == [op |-> op[c], obj |-> obj[c]]
NoAnswer(c) == /\ pc[c] = "requested"
               /\ Return(c, "false")
               /\ \/ UNCHANGED late
                  \/ c \in LeftBehind /\ late' = [late EXCEPT ![c] = Append(@, Request(c))]
               /\ UNCHANGED <<table, obj, op, answer, calls>>

------------------------------------------------------------------------------
(* The gateway.  It serves one request at a time.                          *)

(* A mapping is added unless another host has the port; one that is found  *)
(* or removed must be there.                                               *)
Grantable(r) ==
  LET e == table[Key(r.obj)]
  IN  /\ (r.op = "add" /\ e # Nothing)
            => e.internal_client = r.obj.internal_client
      /\ r.op \in {"find", "remove"} => e # Nothing

(* The table after a request is granted. *)
After(r) == CASE r.op = "add"    -> [table EXCEPT ![Key(r.obj)] = EntryOf(r.obj)]
              [] r.op = "remove" -> [table EXCEPT ![Key(r.obj)] = Nothing]
              [] OTHER           -> table

Grant(c) ==
  /\ pc[c] = "requested"
  /\ Grantable(Request(c))
  /\ table' = After(Request(c))
  /\ answer' = [answer EXCEPT ![c] =
                  [granted |-> TRUE,
                   entry   |-> IF op[c] = "find" THEN table[Key(obj[c])] ELSE Nothing]]
  /\ pc' = [pc EXCEPT ![c] = "answered"]
  /\ UNCHANGED <<obj, op, late, result, calls>>

(* It may refuse any request, for reasons of its own. *)
Refuse(c) == /\ pc[c] = "requested"
             /\ answer' = [answer EXCEPT ![c] = NoAnswerYet]
             /\ pc' = [pc EXCEPT ![c] = "answered"]
             /\ UNCHANGED <<table, obj, op, late, result, calls>>

(* The gateway comes to a request whose caller has given up on it. *)
ServeLate(c, i) == /\ table' = IF Grantable(late[c][i]) THEN After(late[c][i])
                               ELSE table
                   /\ late' = [late EXCEPT ![c] = RemoveAt(@, i)]
                   /\ UNCHANGED <<obj, pc, op, answer, result, calls>>

(* A mapping with a lease, and not a permanent one, goes when it ends. *)
Expire(k) == /\ table[k] # Nothing
             /\ table[k].lease_duration # 0
             /\ table' = [table EXCEPT ![k] = Nothing]
             /\ UNCHANGED <<obj, pc, op, answer, late, result, calls>>

(* The answers a gateway writes: status 200 for what it has done, and      *)
(* another status with or without a fault document for what it refuses.    *)
WholeHead(status) == [line |-> status, ended |-> TRUE, length |-> "number"]
Written(granted) ==
  IF granted
  THEN [head : {WholeHead("ok")}, xml : {"document", "empty"}, code : {"absent"}]
  ELSE [head : {WholeHead("error")}, xml : Bodies, code : Codes \ {"zero"}]

(* What may reach the caller of an answer: all of it, or as much as came   *)
(* before the connection broke; or its Content-Length is not a number.     *)
Reaching(a) == {a, [a EXCEPT !.head.line = "none"], [a EXCEPT !.head.ended = FALSE],
                [a EXCEPT !.xml = "malformed"], [a EXCEPT !.head.length = "bad"]}
Arriving(granted) == UNION {Reaching(w) : w \in Written(granted)}

------------------------------------------------------------------------------
(* The end of a call.                                                      *)

(* Fault: find takes whatever the answer says for the port. *)
AssignedPort(omitted, word) ==
  IF word \/ "enabled" \in omitted THEN {}
  ELSE IF "lease_duration" \in omitted THEN Fields \ {"lease_duration"}
  ELSE Fields

(* The fields find has written when it returns or throws, from a document  *)
(* without the fields in "omitted".  A boolean that is not one character,  *)
(* and a number that is missing, throw; internal_client is only text.      *)
Assigned(omitted, word) ==
  IF word \/ "enabled" \in omitted THEN {}
  ELSE IF "internal_port" \in omitted THEN {"enabled", "internal_client"}
  ELSE IF "lease_duration" \in omitted THEN Fields \ {"lease_duration"}
  ELSE Fields

(* The value find gives a field.  NewEnabled is read as a character, and   *)
(* "0" is not the character with the code 0.                               *)
Value(f, entry, omitted) ==
  IF f = "enabled" THEN TRUE
  ELSE IF f \in omitted THEN "" ELSE entry[f]

FindReads(c, a) ==
  \E omitted \in IF a.xml = "empty" THEN {Fields} ELSE Omissions,
    word \in {FALSE, Words} :
     LET F == Assigned(omitted, word)
     IN  /\ obj' = [obj EXCEPT ![c] =
                      [f \in DOMAIN @ |-> IF f \in F
                                         THEN Value(f, answer[c].entry, omitted)
                                         ELSE @[f]]]
         /\ Return(c, IF F = Fields THEN "true" ELSE "throw")

Answered(c) ==
  /\ pc[c] = "answered"
  /\ \/ \E verdict \in {Verdict(a) : a \in Arriving(answer[c].granted)} :
          /\ op[c] # "find" \/ verdict # "true"
          /\ Return(c, verdict)
          /\ UNCHANGED obj
     \/ \E a \in Arriving(answer[c].granted) :
          /\ op[c] = "find" /\ Verdict(a) = "true"
          /\ FindReads(c, a)
  /\ UNCHANGED <<table, op, answer, late, calls>>

Next == \/ \E c \in Clients : \/ \E m \in Mappings : Fill(c, m)
                              \/ \E o \in Operations : Call(c, o)
                              \/ NoAnswer(c)
                              \/ Grant(c)
                              \/ Refuse(c)
                              \/ Answered(c)
                              \/ \E i \in DOMAIN late[c] : ServeLate(c, i)
        \/ \E k \in Keys : Expire(k)

Safety == Init /\ [][Next]_vars

------------------------------------------------------------------------------
(* The calls act on the gateway's table as atomic operations that take     *)
(* effect at most once, and a call that returns true has taken effect; see *)
(* AbstractPortMapping.  An answer that holds what was done, or a refusal, *)
(* is the effect; what becomes of the answer is the end of the call.       *)
Stage == [c \in Clients |->
            IF pc[c] # "answered" THEN IF pc[c] = "idle" THEN "idle" ELSE "called"
            ELSE IF answer[c].granted THEN "done" ELSE "refused"]

Seen == [c \in Clients |-> answer[c].entry]

Atomic == INSTANCE AbstractPortMapping WITH stage <- Stage, seen <- Seen

AtomicOperations == Atomic!ASafety

(* No other caller uses port k. *)
Sole(c, k) == \A d \in Clients \ {c} : \A m \in Uses[d] : Key(m) # k

(* A caller that has a port for itself knows what the gateway does with    *)
(* it: as long as its last call is an add of a permanent mapping, or a     *)
(* remove, that returned true, the gateway forwards the port as its        *)
(* port_mapping says, or does not forward it, whatever its calls before    *)
(* came to.  (It cannot know while a request of an earlier call that       *)
(* returned false may still be with the gateway: LeftBehind.)              *)
OwnerIsRight ==
  \A c \in Clients \ LeftBehind :
    (Sole(c, Key(obj[c])) /\ result[c] = "true")
      => LET e == table[Key(obj[c])]
         IN  /\ op[c] = "add" /\ obj[c].lease_duration = 0 => e = EntryOf(obj[c])
             /\ op[c] = "remove" => e = Nothing

(* A find that returns true reports whether the mapping is enabled. *)
FindReportsEnabled ==
  \A c \in Clients :
    (op[c] = "find" /\ result[c] = "true")
      => obj[c].enabled = answer[c].entry.enabled
==============================================================================
