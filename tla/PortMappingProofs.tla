-------------------------- MODULE PortMappingProofs --------------------------
(***************************************************************************)
(* PortMapping implements AbstractPortMapping, for every set of callers,   *)
(* of port mappings and of calls, and every gateway the model allows.      *)
(***************************************************************************)
EXTENDS PortMapping, SequenceTheorems, TLAPS

(* What the refinement needs to know of the state: the variables are       *)
(* functions on the callers, and "enabled" is a bool in every mapping.     *)
ObjInv == /\ DOMAIN obj = Clients
          /\ \A c \in Clients : /\ "enabled" \in DOMAIN obj[c]
                                /\ obj[c].enabled \in BOOLEAN

CallInv == /\ pc \in [Clients -> {"idle", "requested", "answered"}]
           /\ DOMAIN op = Clients
           /\ DOMAIN answer = Clients
           /\ \A c \in Clients : answer[c].granted \in BOOLEAN

MappingInv == ObjInv /\ CallInv

------------------------------------------------------------------------------
(* A verdict of "true" is only for what the gateway has done: no answer to *)
(* a refusal, whole or cut, is read as a success.                          *)
LEMMA TrueMeansDone ==
  ASSUME NEW granted \in BOOLEAN, NEW w \in Written(granted), NEW a \in Reaching(w),
         Verdict(a) = "true"
  PROVE  granted
  <1> SUFFICES ASSUME ~granted PROVE FALSE
    OBVIOUS
  <1>1. /\ w.head.line = "error" /\ w.head.ended = TRUE
        /\ w.code \in Codes \ {"zero"}
        /\ w = [head |-> w.head, xml |-> w.xml, code |-> w.code]
        /\ w.head = [line |-> w.head.line, ended |-> w.head.ended, length |-> w.head.length]
    BY DEF Written, WholeHead
  <1>2. Read(a.head) = "good" /\ NoError(a)
    BY DEF Verdict
  <1>3. a.head.line # "none"
    BY <1>2 DEF Read
  <1>4. a.head.line = "error" /\ a.code # "zero"
    BY <1>1, <1>3 DEF Reaching
  <1>5. ~NoError(a)
    BY <1>4 DEF NoError, IsOk
  <1>6. QED
    BY <1>2, <1>5

(* Verdict is one of the three ways a call ends. *)
LEMMA VerdictIsResult ==
  ASSUME NEW a
  PROVE  Verdict(a) \in {"true", "false", "throw"}
  BY DEF Verdict

(* What a find writes is "enabled" and what AbstractPortMapping lets it    *)
(* tell from one entry, all of it if the find returns true.                *)
LEMMA FieldsFindWrites ==
  ASSUME NEW omitted, NEW word
  PROVE  /\ Assigned(omitted, word) \subseteq Fields
         /\ \A f \in Assigned(omitted, word) \cap omitted : f = "internal_client"
  BY DEF Assigned, Fields

------------------------------------------------------------------------------
LEMMA InitMappingInv == Init => MappingInv
  <1> SUFFICES ASSUME Init PROVE MappingInv
    OBVIOUS
  <1>1. ObjInv
    BY MappingsAssumption DEF Init, ObjInv
  <1>2. NoAnswerYet.granted \in BOOLEAN
    BY DEF NoAnswerYet
  <1>3. CallInv
    BY <1>2 DEF Init, CallInv
  <1>4. QED
    BY <1>1, <1>3 DEF MappingInv

(* A find leaves the port_mapping of its caller with the same fields, and  *)
(* "enabled" a bool.                                                       *)
LEMMA FindKeepsObjInv ==
  ASSUME ObjInv, NEW c \in Clients, NEW a, FindReads(c, a)
  PROVE  ObjInv'
  <1>1. PICK omitted, word :
          obj' = [obj EXCEPT ![c] =
                    [f \in DOMAIN @ |-> IF f \in Assigned(omitted, word)
                                        THEN Value(f, answer[c].entry, omitted)
                                        ELSE @[f]]]
    BY DEF FindReads
  <1>2. Value("enabled", answer[c].entry, omitted) = TRUE
    BY DEF Value
  <1>3. QED
    BY <1>1, <1>2 DEF ObjInv

LEMMA StepMappingInv == MappingInv /\ [Next]_vars => MappingInv'
  <1> SUFFICES ASSUME MappingInv, [Next]_vars
               PROVE  MappingInv'
    OBVIOUS
  <1> USE DEF MappingInv, CallInv
  <1>1. ASSUME NEW c \in Clients, NEW m \in Mappings, Fill(c, m)
        PROVE  MappingInv'
    BY <1>1, MappingsAssumption DEF Fill, ObjInv
  <1>2. ASSUME NEW c \in Clients, NEW o \in Operations, Call(c, o)
        PROVE  MappingInv'
    BY <1>2 DEF Call, ObjInv
  <1>3. ASSUME NEW c \in Clients, NoAnswer(c)
        PROVE  MappingInv'
    BY <1>3 DEF NoAnswer, Return, ObjInv
  <1>4. ASSUME NEW c \in Clients, Grant(c) \/ Refuse(c)
        PROVE  MappingInv'
    <2>1. answer'[c].granted \in BOOLEAN
      <3>1. CASE Refuse(c)
        BY <3>1 DEF Refuse, NoAnswerYet
      <3>2. CASE Grant(c)
        BY <3>2 DEF Grant
      <3>3. QED
        BY <1>4, <3>1, <3>2
    <2>2. CallInv'
      BY <1>4, <2>1 DEF Grant, Refuse
    <2>3. ObjInv'
      BY <1>4 DEF Grant, Refuse, ObjInv
    <2>4. QED
      BY <2>2, <2>3
  <1>5. ASSUME NEW c \in Clients, Answered(c)
        PROVE  MappingInv'
    <2>1. CallInv'
      BY <1>5 DEF Answered, FindReads, Return
    <2>2. ObjInv'
      <3>1. CASE UNCHANGED obj
        BY <3>1 DEF ObjInv
      <3>2. ASSUME NEW a, FindReads(c, a)
            PROVE  ObjInv'
        BY <3>2, FindKeepsObjInv
      <3>3. QED
        BY <1>5, <3>1, <3>2 DEF Answered
    <2>3. QED
      BY <2>1, <2>2
  <1>6. ASSUME NEW c \in Clients, NEW i \in DOMAIN late[c], ServeLate(c, i)
        PROVE  MappingInv'
    BY <1>6 DEF ServeLate, ObjInv
  <1>7. ASSUME NEW k \in Keys, Expire(k)
        PROVE  MappingInv'
    BY <1>7 DEF Expire, ObjInv
  <1>8. CASE UNCHANGED vars
    BY <1>8 DEF vars, ObjInv
  <1>9. QED
    BY <1>1, <1>2, <1>3, <1>4, <1>5, <1>6, <1>7, <1>8 DEF Next

------------------------------------------------------------------------------
(* The stage of a call. *)
LEMMA StageIs ==
  ASSUME NEW c \in Clients
  PROVE  /\ pc[c] = "idle" => Stage[c] = "idle"
         /\ pc[c] = "requested" => Stage[c] = "called"
         /\ (pc[c] = "answered" /\ answer[c].granted) => Stage[c] = "done"
         /\ (pc[c] = "answered" /\ ~answer[c].granted) => Stage[c] = "refused"
  BY DEF Stage

LEMMA NothingMoves ==
  ASSUME UNCHANGED <<pc, answer>>
  PROVE  UNCHANGED <<Stage, Seen>>
  BY DEF Stage, Seen

LEMMA SeenStays ==
  ASSUME UNCHANGED answer
  PROVE  UNCHANGED Seen
  BY DEF Seen

------------------------------------------------------------------------------
(* The steps.                                                              *)

LEMMA GrantIsEffect ==
  ASSUME CallInv, NEW c \in Clients, Grant(c)
  PROVE  Atomic!Effect(c)
  <1>1. Stage' = [Stage EXCEPT ![c] = "done"]
    BY DEF CallInv, Stage, Grant
  <1>2. Seen' = [Seen EXCEPT ![c] = IF op[c] = "find" THEN table[Key(obj[c])] ELSE Nothing]
    BY DEF CallInv, Seen, Grant
  <1>3. Stage[c] = "called"
    BY StageIs DEF Grant
  <1>4. op[c] \in {"find", "remove"} => table[Key(obj[c])] # Nothing
    BY DEF Grant, Grantable, Request
  <1>5. table' = Atomic!After(op[c], obj[c])
    BY DEF Grant, After, Request, Atomic!After
  <1>6. QED
    BY <1>1, <1>2, <1>3, <1>4, <1>5 DEF Grant, Atomic!Effect

LEMMA RefuseIsRefuse ==
  ASSUME CallInv, NEW c \in Clients, Refuse(c)
  PROVE  Atomic!Refuse(c)
  <1>1. Stage' = [Stage EXCEPT ![c] = "refused"]
    BY DEF CallInv, Stage, Refuse, NoAnswerYet
  <1>2. Seen' = [Seen EXCEPT ![c] = Nothing]
    BY DEF CallInv, Seen, Refuse, NoAnswerYet
  <1>3. Stage[c] = "called"
    BY StageIs DEF Refuse
  <1>4. QED
    BY <1>1, <1>2, <1>3 DEF Refuse, Atomic!Refuse

LEMMA NoAnswerEndsCall ==
  ASSUME CallInv, NEW c \in Clients, NoAnswer(c)
  PROVE  Atomic!AReturn(c, "false") \/ Atomic!AAbandon(c)
  <1>1. Stage' = [Stage EXCEPT ![c] = "idle"]
    BY DEF CallInv, Stage, NoAnswer, Return
  <1>2. Stage[c] = "called"
    BY StageIs DEF NoAnswer
  <1>3. UNCHANGED Seen
    BY SeenStays DEF NoAnswer
  <1>4. CASE UNCHANGED late
    BY <1>1, <1>2, <1>3, <1>4 DEF NoAnswer, Return, Atomic!AReturn
  <1>5. CASE late' = [late EXCEPT ![c] = Append(@, Request(c))]
    BY <1>1, <1>2, <1>3, <1>5 DEF NoAnswer, Return, Request, Atomic!AAbandon
  <1>6. QED
    BY <1>4, <1>5 DEF NoAnswer

(* What find leaves in the port_mapping is filled from the entry it saw. *)
LEMMA FindFills ==
  ASSUME ObjInv, NEW c \in Clients, NEW a, FindReads(c, a)
  PROVE  \E F \in SUBSET Atomic!Told, enabled \in BOOLEAN,
            silent \in SUBSET {"internal_client"}, r \in {"true", "throw"} :
            /\ Return(c, r)
            /\ r = "true" => F = Atomic!Told
            /\ obj' = [obj EXCEPT ![c] = Atomic!Filled(@, Seen[c], F, enabled, silent)]
  <1>1. PICK omitted, word :
          /\ obj' = [obj EXCEPT ![c] =
                       [f \in DOMAIN @ |-> IF f \in Assigned(omitted, word)
                                           THEN Value(f, answer[c].entry, omitted)
                                           ELSE @[f]]]
          /\ Return(c, IF Assigned(omitted, word) = Fields THEN "true" ELSE "throw")
    BY DEF FindReads
  <1> DEFINE written == Assigned(omitted, word)
             F       == written \cap Atomic!Told
             silent  == written \cap omitted
             enabled == IF "enabled" \in written THEN TRUE ELSE obj[c].enabled
             r       == IF written = Fields THEN "true" ELSE "throw"
  <1>2. /\ written \subseteq Fields
        /\ \A f \in written \cap omitted : f = "internal_client"
    BY FieldsFindWrites
  <1> HIDE DEF written
  <1>3. \A f \in DOMAIN obj[c] :
          (IF f \in written THEN Value(f, answer[c].entry, omitted) ELSE obj[c][f])
            = (IF f \in silent THEN "" ELSE IF f \in F THEN Seen[c][f]
               ELSE IF f = "enabled" THEN enabled ELSE obj[c][f])
    BY <1>2 DEF Value, Seen, Fields, Atomic!Told
  <1>4. [f \in DOMAIN obj[c] |-> IF f \in written THEN Value(f, answer[c].entry, omitted)
                                 ELSE obj[c][f]]
          = Atomic!Filled(obj[c], Seen[c], F, enabled, silent)
    BY <1>3 DEF Atomic!Filled
  <1>5. obj' = [obj EXCEPT ![c] = Atomic!Filled(@, Seen[c], F, enabled, silent)]
    BY <1>1, <1>4 DEF ObjInv, written
  <1>6. enabled \in BOOLEAN
    BY DEF ObjInv
  <1>7. F \in SUBSET Atomic!Told /\ silent \in SUBSET {"internal_client"}
    BY <1>2
  <1>8. r = "true" => F = Atomic!Told
    BY DEF Fields, Atomic!Told
  <1>9. Return(c, r)
    BY <1>1 DEF written
  <1>10. QED
    BY <1>5, <1>6, <1>7, <1>8, <1>9

LEMMA AnsweredReturns ==
  ASSUME MappingInv, NEW c \in Clients, Answered(c)
  PROVE  \E r \in {"true", "false", "throw"} : Atomic!AReturn(c, r)
  <1> USE DEF MappingInv
  <1>1. PICK a \in Arriving(answer[c].granted) :
          \/ /\ op[c] # "find" \/ Verdict(a) # "true"
             /\ Return(c, Verdict(a))
             /\ UNCHANGED obj
          \/ /\ op[c] = "find" /\ Verdict(a) = "true"
             /\ FindReads(c, a)
    BY DEF Answered
  <1>2. PICK w \in Written(answer[c].granted) : a \in Reaching(w)
    BY DEF Arriving
  <1>3. /\ pc[c] = "answered"
        /\ UNCHANGED <<table, op, answer, late>>
    BY DEF Answered
  <1>4. Stage[c] # "idle" /\ (Verdict(a) = "true" => Stage[c] = "done")
    BY <1>2, <1>3, StageIs, TrueMeansDone DEF CallInv
  <1>5. UNCHANGED Seen
    BY <1>3, SeenStays
  <1>6. ASSUME NEW r, Return(c, r)
        PROVE  /\ Stage' = [Stage EXCEPT ![c] = "idle"]
               /\ result' = [result EXCEPT ![c] = r]
    BY <1>3, <1>6 DEF CallInv, Stage, Return
  <1>7. CASE /\ op[c] # "find" \/ Verdict(a) # "true"
             /\ Return(c, Verdict(a))
             /\ UNCHANGED obj
    BY <1>3, <1>4, <1>5, <1>6, <1>7, VerdictIsResult DEF Atomic!AReturn
  <1>8. CASE op[c] = "find" /\ Verdict(a) = "true" /\ FindReads(c, a)
    <2>1. PICK F \in SUBSET Atomic!Told, enabled \in BOOLEAN,
               silent \in SUBSET {"internal_client"}, r \in {"true", "throw"} :
            /\ Return(c, r)
            /\ r = "true" => F = Atomic!Told
            /\ obj' = [obj EXCEPT ![c] = Atomic!Filled(@, Seen[c], F, enabled, silent)]
      BY <1>8, FindFills
    <2>2. Atomic!AReturn(c, r)
      BY <1>3, <1>4, <1>5, <1>6, <1>8, <2>1 DEF Atomic!AReturn
    <2>3. QED
      BY <2>2
  <1>9. QED
    BY <1>1, <1>7, <1>8

LEMMA StepImplements == MappingInv /\ [Next]_vars => [Atomic!ANext]_(Atomic!avars)
  <1> SUFFICES ASSUME MappingInv, [Next]_vars
               PROVE  [Atomic!ANext]_(Atomic!avars)
    OBVIOUS
  <1> USE DEF MappingInv
  <1>1. ASSUME NEW c \in Clients, NEW m \in Mappings, Fill(c, m)
        PROVE  Atomic!AFill(c, m)
    BY <1>1, NothingMoves, StageIs DEF Fill, Atomic!AFill
  <1>2. ASSUME NEW c \in Clients, NEW o \in Operations, Call(c, o)
        PROVE  Atomic!ACall(c, o)
    <2>1. Stage' = [Stage EXCEPT ![c] = "called"]
      BY <1>2 DEF CallInv, Stage, Call
    <2>2. Stage[c] = "idle" /\ UNCHANGED Seen
      BY <1>2, StageIs, SeenStays DEF Call
    <2>3. QED
      BY <1>2, <2>1, <2>2 DEF Call, Atomic!ACall
  <1>3. ASSUME NEW c \in Clients, NEW i \in DOMAIN late[c], ServeLate(c, i)
        PROVE  Atomic!ALateEffect(c, i)
    <2>1. UNCHANGED <<Stage, Seen>>
      BY <1>3, NothingMoves DEF ServeLate
    <2>2. After(late[c][i]) = Atomic!After(late[c][i].op, late[c][i].obj)
      BY DEF After, Atomic!After
    <2>3. RemoveAt(late[c], i) = Atomic!RemoveAt(late[c], i)
      BY DEF RemoveAt, Atomic!RemoveAt
    <2>4. QED
      BY <1>3, <2>1, <2>2, <2>3 DEF ServeLate, Atomic!ALateEffect
  <1>4. ASSUME NEW k \in Keys, Expire(k)
        PROVE  Atomic!AExpire(k)
    BY <1>4, NothingMoves DEF Expire, Atomic!AExpire
  <1>5. CASE UNCHANGED vars
    BY <1>5, NothingMoves DEF vars, Atomic!avars
  <1>6. Operations = Atomic!Operations /\ Keys = Atomic!Keys
    BY DEF Operations, Keys, Atomic!Operations, Atomic!Keys
  <1>7. CASE Next
    BY <1>1, <1>2, <1>3, <1>4, <1>6, <1>7, GrantIsEffect, RefuseIsRefuse,
       NoAnswerEndsCall, AnsweredReturns
       DEF Next, Atomic!ANext
  <1>8. QED
    BY <1>5, <1>7

(* Whatever the network and the gateway do, the calls of any number of     *)
(* callers act on the gateway's table as atomic operations; add, find,     *)
(* remove and get_external_ip return true only for what has been done, and *)
(* a find that returns true tells what the gateway had in one entry.       *)
THEOREM CallsAreAtomic == Safety => AtomicOperations
  <1>1. Init => Atomic!AInit
    <2> SUFFICES ASSUME Init PROVE Atomic!AInit
      OBVIOUS
    <2>1. Stage = [c \in Clients |-> "idle"]
      BY DEF Init, Stage
    <2>2. Seen = [c \in Clients |-> Nothing]
      BY DEF Init, Seen, NoAnswerYet
    <2>3. Keys = Atomic!Keys
      BY DEF Keys, Atomic!Keys
    <2>4. QED
      BY <2>1, <2>2, <2>3 DEF Init, Atomic!AInit
  <1>2. QED
    BY <1>1, InitMappingInv, StepMappingInv, StepImplements, PTL
       DEF Safety, AtomicOperations, Atomic!ASafety

------------------------------------------------------------------------------
(* Types.                                                                  *)

(* The sequences of late requests: that late[c] is one, and what is in it. *)
IsSeq(s) == s \in Seq({s[i] : i \in DOMAIN s})

LEMMA SeqIsSeq ==
  ASSUME NEW S, NEW s \in Seq(S)
  PROVE  IsSeq(s)
  BY SeqOfRange DEF IsSeq, Range

LEMMA AppendedSeq ==
  ASSUME NEW s, IsSeq(s), NEW e
  PROVE  /\ IsSeq(Append(s, e))
         /\ \A i \in DOMAIN Append(s, e) :
              Append(s, e)[i] = e \/ \E j \in DOMAIN s : Append(s, e)[i] = s[j]
  <1> DEFINE S == {s[i] : i \in DOMAIN s}
  <1>1. s \in Seq(S \cup {e})
    BY DEF IsSeq
  <1>2. Append(s, e) \in Seq(S \cup {e})
    BY <1>1
  <1>3. \A i \in DOMAIN Append(s, e) : Append(s, e)[i] \in S \cup {e}
    BY <1>2
  <1>4. IsSeq(Append(s, e))
    BY <1>2, SeqIsSeq
  <1>5. QED
    BY <1>3, <1>4

LEMMA ShortenedSeq ==
  ASSUME NEW s, IsSeq(s), NEW i \in DOMAIN s
  PROVE  /\ IsSeq(RemoveAt(s, i))
         /\ \A k \in DOMAIN RemoveAt(s, i) : \E j \in DOMAIN s : RemoveAt(s, i)[k] = s[j]
  <1> DEFINE S == {s[j] : j \in DOMAIN s}
             front == SubSeq(s, 1, i - 1)
             rear  == SubSeq(s, i + 1, Len(s))
  <1>1. s \in Seq(S)
    BY DEF IsSeq
  <1>2. i \in 1 .. Len(s) /\ Len(s) \in Nat /\ DOMAIN s = 1 .. Len(s)
    BY <1>1
  <1>3. \A j \in 1 .. Len(s) : s[j] \in S
    BY <1>2
  <1> HIDE DEF S
  <1>4. front \in Seq(S) /\ rear \in Seq(S)
    BY <1>2, <1>3, SubSeqProperties
  <1>5. front \o rear \in Seq(S)
    BY <1>4
  <1>6. RemoveAt(s, i) \in Seq(S)
    BY <1>5 DEF RemoveAt
  <1>7. \A k \in DOMAIN RemoveAt(s, i) : RemoveAt(s, i)[k] \in S
    BY <1>6
  <1>8. IsSeq(RemoveAt(s, i))
    BY <1>6, SeqIsSeq
  <1>9. QED
    BY <1>7, <1>8 DEF S

(* A port_mapping as the code has it: its members, of their types. *)
Members == {"protocol", "external_port"} \cup Fields
Shaped(m) == Members \subseteq DOMAIN m /\ IsMapping(m)

(* TypeOK, and what keeps it: port_mappings keep their members, the late   *)
(* requests are sequences, a call is one of an operation, and a find that  *)
(* was granted has found an entry.                                         *)
TypeInv == /\ TypeOK
           /\ \A c \in Clients : Shaped(obj[c]) /\ IsSeq(late[c])
           /\ \A c \in Clients : pc[c] # "idle" => op[c] \in Operations
           /\ \A c \in Clients :
                (pc[c] = "answered" /\ op[c] = "find" /\ answer[c].granted)
                   => answer[c].entry \in Entries

LEMMA MappingIsShaped ==
  ASSUME NEW m \in Mappings
  PROVE  Shaped(m)
  <1>1. Members \subseteq DOMAIN m /\ m.enabled \in BOOLEAN
    BY MappingsAssumption DEF Members, Fields
  <1>2. Key(m) \in Keys
    BY DEF Keys
  <1>3. EntryOf(m) \in Entries
    BY <1>1 DEF EntryOf, Entries, Fields, Values
  <1>4. QED
    BY <1>1, <1>2, <1>3 DEF Shaped, IsMapping

LEMMA AfterIsTable ==
  ASSUME table \in [Keys -> Entries \cup {Nothing}], NEW r, IsMapping(r.obj)
  PROVE  After(r) \in [Keys -> Entries \cup {Nothing}]
  BY DEF After, IsMapping

(* The port_mapping a find leaves is one for the same port.                *)
LEMMA FindKeepsShape ==
  ASSUME NEW c \in Clients, NEW a, DOMAIN obj = Clients, Shaped(obj[c]),
         answer[c].entry \in Entries, FindReads(c, a)
  PROVE  /\ Shaped(obj'[c]) /\ Key(obj'[c]) = Key(obj[c])
         /\ DOMAIN obj' = Clients
         /\ \A d \in Clients \ {c} : obj'[d] = obj[d]
  <1>1. PICK omitted, word :
          obj' = [obj EXCEPT ![c] =
                    [f \in DOMAIN @ |-> IF f \in Assigned(omitted, word)
                                        THEN Value(f, answer[c].entry, omitted)
                                        ELSE @[f]]]
    BY DEF FindReads
  <1> DEFINE written == Assigned(omitted, word)
             e       == answer[c].entry
  <1>2. /\ written \subseteq Fields
        /\ \A f \in written \cap omitted : f = "internal_client"
    BY FieldsFindWrites
  <1> HIDE DEF written
  <1>3. obj'[c] = [f \in DOMAIN obj[c] |-> IF f \in written THEN Value(f, e, omitted)
                                           ELSE obj[c][f]]
    BY <1>1 DEF written
  <1>4. Members \subseteq DOMAIN obj'[c]
    BY <1>3 DEF Shaped
  <1>5. \A f \in Fields : obj'[c][f] = IF f \in written THEN Value(f, e, omitted)
                                       ELSE obj[c][f]
    BY <1>3 DEF Shaped, Members
  <1>6. obj'[c].protocol = obj[c].protocol /\ obj'[c].external_port = obj[c].external_port
    BY <1>2, <1>3 DEF Shaped, Members, Fields
  <1>7. EntryOf(obj'[c]) \in Entries
    <2>1. EntryOf(obj[c]) \in Entries
      BY DEF Shaped, IsMapping
    <2>2. /\ obj[c].enabled \in BOOLEAN
          /\ obj[c].internal_client \in Values("internal_client") \cup {""}
          /\ obj[c].internal_port \in Values("internal_port")
          /\ obj[c].lease_duration \in Values("lease_duration")
      BY <2>1 DEF EntryOf, Entries, Fields
    <2>3. /\ e.enabled \in BOOLEAN
          /\ e.internal_client \in Values("internal_client") \cup {""}
          /\ e.internal_port \in Values("internal_port")
          /\ e.lease_duration \in Values("lease_duration")
      BY DEF Entries
    <2>4. /\ obj'[c].enabled \in BOOLEAN
          /\ obj'[c].internal_client \in Values("internal_client") \cup {""}
          /\ obj'[c].internal_port \in Values("internal_port")
          /\ obj'[c].lease_duration \in Values("lease_duration")
      BY <1>2, <1>5, <2>2, <2>3 DEF Value, Fields
    <2>5. QED
      BY <2>4 DEF EntryOf, Entries, Fields
  <1>8. Key(obj'[c]) = Key(obj[c])
    BY <1>6 DEF Key
  <1>9. QED
    BY <1>1, <1>4, <1>7, <1>8 DEF Shaped, IsMapping

LEMMA InitTypeInv == Init => TypeInv
  <1> SUFFICES ASSUME Init PROVE TypeInv
    OBVIOUS
  <1>1. \A c \in Clients : Shaped(obj[c])
    BY MappingIsShaped DEF Init
  <1>2. table \in [Keys -> Entries \cup {Nothing}]
    BY MappingIsShaped DEF Init, Shaped, IsMapping
  <1>3. \A c \in Clients : IsSeq(late[c])
    BY DEF Init, IsSeq
  <1>4. NoAnswerYet \in Answers
    BY DEF NoAnswerYet, Answers
  <1>5. TypeOK
    BY <1>1, <1>2, <1>4, MaxCallsAssumption DEF Init, TypeOK, Shaped, Operations, Results
  <1>6. QED
    BY <1>1, <1>3, <1>5 DEF Init, TypeInv

LEMMA StepTypeInv == TypeInv /\ [Next]_vars => TypeInv'
  <1> SUFFICES ASSUME TypeInv, [Next]_vars
               PROVE  TypeInv'
    OBVIOUS
  <1> USE DEF TypeInv, TypeOK
  <1>1. ASSUME NEW c \in Clients, NEW m \in Mappings, Fill(c, m)
        PROVE  TypeInv'
    <2>1. Shaped(m)
      BY MappingIsShaped
    <2>2. QED
      BY <1>1, <2>1 DEF Fill, Results, Shaped
  <1>2. ASSUME NEW c \in Clients, NEW o \in Operations, Call(c, o)
        PROVE  TypeInv'
    <2>1. calls' \in 0 .. MaxCalls
      BY <1>2, MaxCallsAssumption DEF Call
    <2>2. QED
      BY <1>2, <2>1 DEF Call, Results
  <1>3. ASSUME NEW c \in Clients, NoAnswer(c)
        PROVE  TypeInv'
    <2>1. /\ pc' \in [Clients -> {"idle", "requested", "answered"}]
          /\ result' \in [Clients -> Results]
      BY <1>3 DEF NoAnswer, Return, Results
    <2>2. DOMAIN late' = Clients
      BY <1>3 DEF NoAnswer
    <2>3. ASSUME NEW d \in Clients
          PROVE  /\ IsSeq(late'[d])
                 /\ \A i \in DOMAIN late'[d] :
                      late'[d][i].op \in Operations /\ IsMapping(late'[d][i].obj)
      <3>1. CASE late'[d] = late[d]
        BY <3>1
      <3>2. CASE d = c /\ late'[d] = Append(late[d], Request(d))
        <4>1. op[c] \in Operations
          BY <1>3 DEF NoAnswer
        <4>2. Request(d).op \in Operations /\ IsMapping(Request(d).obj)
          BY <3>2, <4>1 DEF Request
        <4>3. QED
          BY <3>2, <4>2, AppendedSeq
      <3>3. QED
        BY <1>3, <3>1, <3>2 DEF NoAnswer
    <2>4. QED
      BY <1>3, <2>1, <2>2, <2>3 DEF NoAnswer, Return
  <1>4. ASSUME NEW c \in Clients, Grant(c)
        PROVE  TypeInv'
    <2>1. IsMapping(Request(c).obj)
      BY DEF Request
    <2>2. table' \in [Keys -> Entries \cup {Nothing}]
      BY <1>4, <2>1, AfterIsTable DEF Grant
    <2> DEFINE entry == IF op[c] = "find" THEN table[Key(obj[c])] ELSE Nothing
    <2>3. op[c] = "find" => table[Key(obj[c])] \in Entries
      BY <1>4 DEF Grant, Grantable, Request, IsMapping
    <2>4. [granted |-> TRUE, entry |-> entry] \in Answers
      BY <2>3 DEF Answers
    <2>5. answer' = [answer EXCEPT ![c] = [granted |-> TRUE, entry |-> entry]]
      BY <1>4 DEF Grant
    <2>6. op[c] = "find" => entry \in Entries
      BY <2>3
    <2> HIDE DEF entry
    <2>7. answer' \in [Clients -> Answers]
      BY <2>4, <2>5
    <2>8. \A d \in Clients :
            (op'[d] = "find" /\ pc'[d] = "answered" /\ answer'[d].granted)
               => answer'[d].entry \in Entries
      BY <1>4, <2>5, <2>6 DEF Grant
    <2>9. QED
      BY <1>4, <2>2, <2>7, <2>8 DEF Grant
  <1>5. ASSUME NEW c \in Clients, Refuse(c)
        PROVE  TypeInv'
    <2>1. NoAnswerYet \in Answers /\ ~NoAnswerYet.granted
      BY DEF NoAnswerYet, Answers
    <2>2. QED
      BY <1>5, <2>1 DEF Refuse
  <1>6. ASSUME NEW c \in Clients, Answered(c)
        PROVE  TypeInv'
    <2>1. PICK r \in {"true", "false", "throw"} : Return(c, r)
      BY <1>6, VerdictIsResult DEF Answered, FindReads
    <2>2. /\ pc' \in [Clients -> {"idle", "requested", "answered"}]
          /\ result' \in [Clients -> Results]
          /\ \A d \in Clients : pc'[d] # "idle" => pc'[d] = pc[d]
      BY <2>1 DEF Return, Results
    <2>3. DOMAIN obj' = Clients /\ \A d \in Clients : Shaped(obj'[d])
      <3>1. CASE UNCHANGED obj
        BY <3>1
      <3>2. ASSUME NEW a \in Arriving(answer[c].granted), op[c] = "find",
                   Verdict(a) = "true", FindReads(c, a)
            PROVE  DOMAIN obj' = Clients /\ \A d \in Clients : Shaped(obj'[d])
        <4>1. answer[c].granted \in BOOLEAN
          BY DEF Answers
        <4>2. answer[c].granted
          BY <3>2, <4>1, TrueMeansDone DEF Arriving
        <4>3. answer[c].entry \in Entries
          BY <1>6, <3>2, <4>2 DEF Answered
        <4>4. QED
          BY <3>2, <4>3, FindKeepsShape
      <3>3. QED
        BY <1>6, <3>1, <3>2 DEF Answered
    <2>4. QED
      BY <1>6, <2>2, <2>3 DEF Answered, Shaped
  <1>7. ASSUME NEW c \in Clients, NEW i \in DOMAIN late[c], ServeLate(c, i)
        PROVE  TypeInv'
    <2>1. table' \in [Keys -> Entries \cup {Nothing}]
      BY <1>7, AfterIsTable DEF ServeLate
    <2>2. ASSUME NEW d \in Clients
          PROVE  /\ IsSeq(late'[d])
                 /\ \A k \in DOMAIN late'[d] : \E j \in DOMAIN late[d] : late'[d][k] = late[d][j]
      BY <1>7, ShortenedSeq DEF ServeLate
    <2>3. QED
      BY <1>7, <2>1, <2>2 DEF ServeLate
  <1>8. ASSUME NEW k \in Keys, Expire(k)
        PROVE  TypeInv'
    BY <1>8 DEF Expire
  <1>9. CASE UNCHANGED vars
    BY <1>9 DEF vars
  <1>10. QED
    BY <1>1, <1>2, <1>3, <1>4, <1>5, <1>6, <1>7, <1>8, <1>9 DEF Next

LEMMA TypeInvariant == Safety => []TypeInv
  BY InitTypeInv, StepTypeInv, PTL DEF Safety

(* The gateway's table holds entries, and callers and late requests hold   *)
(* port_mappings that name one of the keys: a find that reads only some    *)
(* fields, before it throws, never leaves a port_mapping that a later add  *)
(* could not send.                                                         *)
THEOREM MappingsTyped == Safety => []TypeOK
  <1>1. TypeInv => TypeOK
    BY DEF TypeInv
  <1>2. QED
    BY <1>1, TypeInvariant, PTL

------------------------------------------------------------------------------
(* A caller that has a port for itself.                                    *)

(* The ports the caller's mappings are for. *)
KeysOf(c) == {Key(m) : m \in Uses[c]}

(* The gateway does with the port of c what the last call of c says. *)
Right(c) ==
  /\ (op[c] = "add" /\ obj[c].lease_duration = 0) => table[Key(obj[c])] = EntryOf(obj[c])
  /\ op[c] = "remove" => table[Key(obj[c])] = Nothing

(* The last call of c is done, whether or not c has been told. *)
Done(c) == result[c] = "true" \/ (pc[c] = "answered" /\ answer[c].granted)

(* Callers, late requests included, stay with their own ports; who leaves  *)
(* nothing behind has no late requests; and between the effect of a call   *)
(* and the next one nobody else touches the port.                          *)
Keeps == \A c \in Clients : /\ Key(obj[c]) \in KeysOf(c)
                            /\ \A i \in DOMAIN late[c] : Key(late[c][i].obj) \in KeysOf(c)
                            /\ c \notin LeftBehind => DOMAIN late[c] = {}
                            /\ result[c] = "true" => pc[c] = "idle"
Owns  == \A c \in Clients \ LeftBehind : (Sole(c, Key(obj[c])) /\ Done(c)) => Right(c)

OwnInv == TypeInv /\ Keeps /\ Owns

LEMMA InitOwnInv == Init => OwnInv
  <1> SUFFICES ASSUME Init PROVE OwnInv
    OBVIOUS
  <1>1. Keeps
    BY DEF Init, Keeps, KeysOf
  <1>2. Owns
    BY DEF Init, Owns, Done
  <1>3. QED
    BY <1>1, <1>2, InitTypeInv DEF OwnInv

(* A request of another caller leaves the port alone. *)
LEMMA OthersKeepOff ==
  ASSUME NEW c \in Clients, NEW d \in Clients \ {c}, Sole(c, Key(obj[c])),
         NEW r, Key(r.obj) \in KeysOf(d), table \in [Keys -> Entries \cup {Nothing}]
  PROVE  After(r)[Key(obj[c])] = table[Key(obj[c])]
  <1>1. Key(r.obj) # Key(obj[c])
    BY DEF Sole, KeysOf
  <1>2. QED
    BY <1>1 DEF After

(* As long as a caller does nothing it stays right about its port, if the  *)
(* step leaves that port alone.                                            *)
LEMMA IdleStaysRight ==
  ASSUME NEW c \in Clients \ LeftBehind, Owns,
         obj'[c] = obj[c], op'[c] = op[c], result'[c] = result[c],
         pc'[c] = pc[c], answer'[c] = answer[c],
         Right(c) => table'[Key(obj[c])] = table[Key(obj[c])],
         Sole(c, Key(obj'[c])), Done(c)'
  PROVE  Right(c)'
  <1>1. Key(obj'[c]) = Key(obj[c])
    BY DEF Key
  <1>2. Done(c)
    BY DEF Done
  <1>3. Right(c)
    BY <1>1, <1>2 DEF Owns
  <1>4. EntryOf(obj'[c]) = EntryOf(obj[c])
    BY DEF EntryOf
  <1>5. QED
    BY <1>1, <1>3, <1>4 DEF Right

LEMMA StepKeeps == OwnInv /\ [Next]_vars => Keeps'
  <1> SUFFICES ASSUME OwnInv, [Next]_vars
               PROVE  Keeps'
    OBVIOUS
  <1> USE DEF OwnInv, Keeps, TypeInv, TypeOK
  <1>1. ASSUME NEW c \in Clients, NEW m \in Mappings, Fill(c, m)
        PROVE  Keeps'
    BY <1>1 DEF Fill, KeysOf
  <1>2. ASSUME NEW c \in Clients, NEW o \in Operations, Call(c, o)
        PROVE  Keeps'
    BY <1>2 DEF Call, KeysOf
  <1>3. ASSUME NEW c \in Clients, NoAnswer(c)
        PROVE  Keeps'
    <2>1. ASSUME NEW d \in Clients, NEW i \in DOMAIN late'[d]
          PROVE  Key(late'[d][i].obj) \in KeysOf(d) /\ d \in LeftBehind
      <3>1. CASE late'[d] = late[d]
        BY <2>1, <3>1
      <3>2. CASE d = c /\ c \in LeftBehind /\ late'[d] = Append(late[d], Request(d))
        BY <2>1, <3>2, AppendedSeq DEF Request
      <3>3. QED
        BY <1>3, <3>1, <3>2 DEF NoAnswer
    <2>2. QED
      BY <1>3, <2>1 DEF NoAnswer, Return, KeysOf
  <1>4. ASSUME NEW c \in Clients, Grant(c) \/ Refuse(c)
        PROVE  Keeps'
    BY <1>4 DEF Grant, Refuse, KeysOf
  <1>5. ASSUME NEW c \in Clients, Answered(c)
        PROVE  Keeps'
    <2>1. \A d \in Clients : Key(obj'[d]) = Key(obj[d])
      <3>1. CASE UNCHANGED obj
        BY <3>1 DEF Key
      <3>2. ASSUME NEW a \in Arriving(answer[c].granted), op[c] = "find",
                   Verdict(a) = "true", FindReads(c, a)
            PROVE  \A d \in Clients : Key(obj'[d]) = Key(obj[d])
        <4>1. answer[c].granted
          BY <3>2, TrueMeansDone DEF Arriving, Answers
        <4>2. answer[c].entry \in Entries
          BY <1>5, <3>2, <4>1 DEF Answered
        <4>3. QED
          BY <3>2, <4>2, FindKeepsShape DEF Key
      <3>3. QED
        BY <1>5, <3>1, <3>2 DEF Answered
    <2>2. PICK r : Return(c, r)
      BY <1>5 DEF Answered, FindReads
    <2>3. QED
      BY <1>5, <2>1, <2>2 DEF Answered, Return, KeysOf
  <1>6. ASSUME NEW c \in Clients, NEW i \in DOMAIN late[c], ServeLate(c, i)
        PROVE  Keeps'
    <2>1. ASSUME NEW d \in Clients
          PROVE  \A k \in DOMAIN late'[d] : \E j \in DOMAIN late[d] : late'[d][k] = late[d][j]
      BY <1>6, ShortenedSeq DEF ServeLate
    <2>2. QED
      BY <1>6, <2>1 DEF ServeLate, KeysOf
  <1>7. ASSUME NEW k \in Keys, Expire(k)
        PROVE  Keeps'
    BY <1>7 DEF Expire, KeysOf
  <1>8. CASE UNCHANGED vars
    BY <1>8 DEF vars, KeysOf
  <1>9. QED
    BY <1>1, <1>2, <1>3, <1>4, <1>5, <1>6, <1>7, <1>8 DEF Next

(* The step is one of caller d, of its late requests or of a lease. *)
LEMMA StepOwns == OwnInv /\ [Next]_vars => Owns'
  <1> SUFFICES ASSUME OwnInv, [Next]_vars, NEW c \in Clients \ LeftBehind,
                      Sole(c, Key(obj'[c])), Done(c)'
               PROVE  Right(c)'
    BY DEF Owns, Sole
  <1> USE DEF OwnInv, Keeps, TypeInv, TypeOK
  <1>1. ASSUME NEW d \in Clients, NEW m \in Mappings, Fill(d, m)
        PROVE  Right(c)'
    <2>1. c # d
      BY <1>1 DEF Fill, Done
    <2>2. QED
      BY <1>1, <2>1, IdleStaysRight DEF Fill
  <1>2. ASSUME NEW d \in Clients, NEW o \in Operations, Call(d, o)
        PROVE  Right(c)'
    <2>1. c # d
      BY <1>2 DEF Call, Done
    <2>2. QED
      BY <1>2, <2>1, IdleStaysRight DEF Call
  <1>3. ASSUME NEW d \in Clients, NoAnswer(d)
        PROVE  Right(c)'
    <2>1. c # d
      BY <1>3 DEF NoAnswer, Return, Done
    <2>2. QED
      BY <1>3, <2>1, IdleStaysRight DEF NoAnswer, Return
  <1>4. ASSUME NEW d \in Clients, Grant(d)
        PROVE  Right(c)'
    <2>1. CASE c = d
      <3>1. obj' = obj /\ op' = op /\ table' = After(Request(c))
        BY <1>4, <2>1 DEF Grant
      <3>2. Key(obj[c]) \in Keys /\ DOMAIN table = Keys
        BY DEF IsMapping
      <3>3. op[c] = "add" => table'[Key(obj[c])] = EntryOf(obj[c])
        BY <3>1, <3>2 DEF After, Request
      <3>4. op[c] = "remove" => table'[Key(obj[c])] = Nothing
        BY <3>1, <3>2 DEF After, Request
      <3>5. QED
        BY <3>1, <3>3, <3>4 DEF Right
    <2>2. CASE c # d
      <3>1. Key(Request(d).obj) \in KeysOf(d)
        BY DEF Request
      <3>2. Sole(c, Key(obj[c]))
        BY <1>4 DEF Grant
      <3>3. table'[Key(obj[c])] = table[Key(obj[c])]
        BY <1>4, <2>2, <3>1, <3>2, OthersKeepOff DEF Grant
      <3>4. QED
        BY <1>4, <2>2, <3>3, IdleStaysRight DEF Grant
    <2>3. QED
      BY <2>1, <2>2
  <1>5. ASSUME NEW d \in Clients, Refuse(d)
        PROVE  Right(c)'
    <2>1. c # d
      BY <1>5 DEF Refuse, Done, NoAnswerYet
    <2>2. QED
      BY <1>5, <2>1, IdleStaysRight DEF Refuse
  <1>6. ASSUME NEW d \in Clients, Answered(d)
        PROVE  Right(c)'
    <2>1. PICK r : Return(d, r)
      BY <1>6 DEF Answered, FindReads
    <2>2. CASE c = d
      <3>1. CASE UNCHANGED obj
        <4>1. result'[c] = "true"
          BY <2>1, <2>2 DEF Done, Return
        <4>2. PICK a \in Arriving(answer[c].granted) : result'[c] = Verdict(a) \/ op[c] = "find"
          BY <1>6, <2>2 DEF Answered, Return
        <4>3. CASE op[c] = "find"
          BY <1>6, <4>3 DEF Answered, Right
        <4>4. CASE op[c] # "find"
          <5>1. answer[c].granted
            BY <4>1, <4>2, <4>4, TrueMeansDone DEF Arriving, Answers
          <5>2. Done(c)
            BY <1>6, <2>2, <5>1 DEF Done, Answered
          <5>3. Right(c)
            BY <3>1, <5>2 DEF Owns
          <5>4. QED
            BY <1>6, <3>1, <5>3 DEF Answered, Right
        <4>5. QED
          BY <4>3, <4>4
      <3>2. CASE op[c] = "find"
        BY <1>6, <3>2 DEF Answered, Right
      <3>3. QED
        BY <1>6, <2>2, <3>1, <3>2 DEF Answered
    <2>3. CASE c # d
      <3>1. obj'[c] = obj[c]
        BY <1>6, <2>3 DEF Answered, FindReads
      <3>2. QED
        BY <1>6, <2>1, <2>3, <3>1, IdleStaysRight DEF Answered, Return
    <2>4. QED
      BY <2>2, <2>3
  <1>7. ASSUME NEW d \in Clients, NEW i \in DOMAIN late[d], ServeLate(d, i)
        PROVE  Right(c)'
    <2>1. c # d
      OBVIOUS
    <2>2. Sole(c, Key(obj[c])) /\ Key(late[d][i].obj) \in KeysOf(d)
      BY <1>7 DEF ServeLate
    <2>3. table'[Key(obj[c])] = table[Key(obj[c])]
      BY <1>7, <2>1, <2>2, OthersKeepOff DEF ServeLate
    <2>4. QED
      BY <1>7, <2>3, IdleStaysRight DEF ServeLate
  <1>8. ASSUME NEW k \in Keys, Expire(k)
        PROVE  Right(c)'
    <2>1. ASSUME Right(c), (op[c] = "add" /\ obj[c].lease_duration = 0) \/ op[c] = "remove"
          PROVE  table'[Key(obj[c])] = table[Key(obj[c])]
      <3>1. op[c] = "add" => table[Key(obj[c])].lease_duration = 0
        BY <2>1 DEF Right, EntryOf, Fields
      <3>2. k # Key(obj[c])
        BY <1>8, <2>1, <3>1 DEF Expire, Right
      <3>3. QED
        BY <1>8, <3>2 DEF Expire
    <2>2. Done(c) /\ Sole(c, Key(obj[c]))
      BY <1>8 DEF Expire, Done
    <2>3. Right(c)
      BY <2>2 DEF Owns
    <2>4. QED
      BY <1>8, <2>1, <2>3 DEF Expire, Right
  <1>9. CASE UNCHANGED vars
    BY <1>9, IdleStaysRight DEF vars
  <1>10. QED
    BY <1>1, <1>2, <1>3, <1>4, <1>5, <1>6, <1>7, <1>8, <1>9 DEF Next

(* A caller that has a port for itself is never wrong about it, whatever   *)
(* other callers and their late requests do: after an add of a permanent   *)
(* mapping or a remove that returned true the gateway's entry is what the  *)
(* call asked for, however many calls before it failed or threw.           *)
THEOREM OwnersAreRight == Safety => []OwnerIsRight
  <1>1. OwnInv /\ [Next]_vars => OwnInv'
    BY StepTypeInv, StepKeeps, StepOwns DEF OwnInv
  <1>2. OwnInv => OwnerIsRight
    BY DEF OwnInv, Owns, Done, Right, OwnerIsRight
  <1>3. QED
    BY InitOwnInv, <1>1, <1>2, PTL DEF Safety
==============================================================================
