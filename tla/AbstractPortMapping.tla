------------------------ MODULE AbstractPortMapping --------------------------
(***************************************************************************)
(* What inet_gateway promises its callers about add, find, remove and      *)
(* get_external_ip: a call takes effect in the gateway at most once, and   *)
(* not before it is made.  If it returns true it took effect before it     *)
(* returned; false and an exception leave that open, and after false the   *)
(* effect may still come.  A find that returns true has filled the         *)
(* port_mapping from one entry, as that was at one moment during the call, *)
(* except that "enabled" may be anything and internal_client may be empty: *)
(* nobody notices when the gateway leaves it out.  A call that returns     *)
(* false, and any but a find, leaves the port_mapping alone.               *)
(***************************************************************************)
EXTENDS Sequences, SequencesExt

CONSTANTS Clients,     \* the calling threads, of any control point
          Mappings,    \* what applications put in a port_mapping
          Key(_),      \* what the gateway identifies a mapping by
          EntryOf(_),  \* what it stores of a mapping
          Nothing      \* no entry

VARIABLES table,   \* table[k]: the entry the gateway has for key k
          obj,     \* obj[c]: the port_mapping of caller c
          stage,   \* stage[c]: "idle", "called", "done" or "refused"
          op,      \* op[c]: the operation caller c called last
          seen,    \* seen[c]: the entry a find of c has read
          late,    \* late[c]: calls of c that are over and may yet take effect
          result   \* result[c]: how its last call ended

avars == <<table, obj, stage, op, seen, late, result>>

Operations == {"add", "find", "remove", "get_external_ip"}

(* The fields find tells its caller, "enabled" apart. *)
Told == {"internal_client", "internal_port", "lease_duration"}

Keys == {Key(m) : m \in Mappings}

AInit == /\ table \in [Keys -> {EntryOf(m) : m \in Mappings} \cup {Nothing}]
         /\ obj \in [Clients -> Mappings]
         /\ stage = [c \in Clients |-> "idle"]
         /\ op = [c \in Clients |-> "none"]
         /\ seen = [c \in Clients |-> Nothing]
         /\ late = [c \in Clients |-> <<>>]
         /\ result = [c \in Clients |-> "none"]

(* The application writes a port_mapping. *)
AFill(c, m) == /\ stage[c] = "idle"
               /\ obj' = [obj EXCEPT ![c] = m]
               /\ result' = [result EXCEPT ![c] = "none"]
               /\ UNCHANGED <<table, stage, op, seen, late>>

ACall(c, o) == /\ stage[c] = "idle"
               /\ stage' = [stage EXCEPT ![c] = "called"]
               /\ op' = [op EXCEPT ![c] = o]
               /\ result' = [result EXCEPT ![c] = "none"]
               /\ UNCHANGED <<table, obj, seen, late>>

(* The table after operation o for port_mapping m. *)
After(o, m) == CASE o = "add"    -> [table EXCEPT ![Key(m)] = EntryOf(m)]
                 [] o = "remove" -> [table EXCEPT ![Key(m)] = Nothing]
                 [] OTHER        -> table

(* The gateway does what the call asks. *)
Effect(c) ==
  LET k == Key(obj[c])
  IN  /\ stage[c] = "called"
      /\ stage' = [stage EXCEPT ![c] = "done"]
      /\ op[c] \in {"find", "remove"} => table[k] # Nothing
      /\ table' = After(op[c], obj[c])
      /\ seen' = [seen EXCEPT ![c] = IF op[c] = "find" THEN table[k] ELSE Nothing]
      /\ UNCHANGED <<obj, op, late, result>>

Refuse(c) == /\ stage[c] = "called"
             /\ stage' = [stage EXCEPT ![c] = "refused"]
             /\ seen' = [seen EXCEPT ![c] = Nothing]
             /\ UNCHANGED <<table, obj, op, late, result>>

(* m with the fields F taken from entry e, "enabled" from anywhere, and    *)
(* the fields in "silent" emptied.                                         *)
Filled(m, e, F, enabled, silent) ==
  [f \in DOMAIN m |-> IF f \in silent THEN ""
                      ELSE IF f \in F THEN e[f]
                      ELSE IF f = "enabled" THEN enabled ELSE m[f]]

(* A call ends.  A find that throws may have got as far as some fields. *)
AReturn(c, r) ==
  /\ stage[c] # "idle"
  /\ r = "true" => stage[c] = "done"
  /\ stage' = [stage EXCEPT ![c] = "idle"]
  /\ result' = [result EXCEPT ![c] = r]
  /\ \/ ~(op[c] = "find" /\ r = "true") /\ UNCHANGED obj
     \/ /\ op[c] = "find" /\ stage[c] = "done" /\ r # "false"
        /\ \E F \in SUBSET Told, enabled \in BOOLEAN, silent \in SUBSET {"internal_client"} :
             /\ r = "true" => F = Told
             /\ obj' = [obj EXCEPT ![c] = Filled(@, seen[c], F, enabled, silent)]
  /\ UNCHANGED <<table, op, seen, late>>

(* A call ends with false before it has taken effect. *)
AAbandon(c) ==
  /\ stage[c] = "called"
  /\ stage' = [stage EXCEPT ![c] = "idle"]
  /\ result' = [result EXCEPT ![c] = "false"]
  /\ late' = [late EXCEPT ![c] = Append(@, [op |-> op[c], obj |-> obj[c]])]
  /\ UNCHANGED <<table, obj, op, seen>>

ALateEffect(c, i) == /\ table' \in {table, After(late[c][i].op, late[c][i].obj)}
                     /\ late' = [late EXCEPT ![c] = RemoveAt(@, i)]
                     /\ UNCHANGED <<obj, stage, op, seen, result>>

(* A lease ends. *)
AExpire(k) == /\ table[k] # Nothing
              /\ table[k].lease_duration # 0
              /\ table' = [table EXCEPT ![k] = Nothing]
              /\ UNCHANGED <<obj, stage, op, seen, late, result>>

ANext == \/ \E c \in Clients : \/ \E m \in Mappings : AFill(c, m)
                               \/ \E o \in Operations : ACall(c, o)
                               \/ Effect(c)
                               \/ Refuse(c)
                               \/ AAbandon(c)
                               \/ \E i \in DOMAIN late[c] : ALateEffect(c, i)
                               \/ \E r \in {"true", "false", "throw"} : AReturn(c, r)
         \/ \E k \in Keys : AExpire(k)

ASafety == AInit /\ [][ANext]_avars
==============================================================================
