--------------------------- MODULE AbstractFinder ----------------------------
(***************************************************************************)
(* What a device finder promises its caller, without sockets, operations,  *)
(* buffers or handlers: the datagrams it hears after a search are taken    *)
(* one by one, in the order in which they came, each for the find in       *)
(* progress; the callback of that find is called once, either with a       *)
(* device that the datagram just taken leads to, or with an error; or the  *)
(* find is given up at a datagram.                                         *)
(***************************************************************************)
EXTENDS Sequences

CONSTANTS Finds,    \* identities of the finds
          Replies,  \* the datagrams that may be heard
          Devices,  \* Devices[r]: the devices that reply r leads to
          NoDevice  \* what the callback is given with an error

VARIABLES searching, \* a search is out, and may be answered
          heard,     \* the datagrams heard and not yet taken, oldest first
          find,      \* find[f]: what has become of find f
          calling    \* the callback that runs: its find and device, or none

vars == <<searching, heard, find, calling>>

Init == /\ searching = FALSE
        /\ heard = <<>>
        /\ find = [f \in Finds |-> "new"]
        /\ calling = {}

(* A search goes out; its answers may come from now on. *)
Search == /\ searching' = TRUE
          /\ UNCHANGED <<heard, find, calling>>

Hear(r) == /\ searching
           /\ heard' = Append(heard, r)
           /\ UNCHANGED <<searching, find, calling>>

(* The search is over: what has been heard is forgotten, but for a         *)
(* datagram that is already on its way to the find in progress.            *)
Stop == /\ searching' = FALSE
        /\ \/ heard' = <<>>
           \/ heard # <<>> /\ heard' = <<Head(heard)>>
        /\ UNCHANGED <<find, calling>>

(* One find is in progress at a time. *)
Find(f) == /\ find[f] = "new"
           /\ \A g \in Finds : find[g] # "active"
           /\ find' = [find EXCEPT ![f] = "active"]
           /\ UNCHANGED <<searching, heard, calling>>

(* Find f ends, between two callbacks. *)
End(f, state) == /\ calling = {}
                 /\ find[f] = "active"
                 /\ find' = [find EXCEPT ![f] = state]
                 /\ UNCHANGED searching

Take == heard # <<>> /\ heard' = Tail(heard)

(* The first datagram leads to a device. *)
Report(f) == /\ End(f, "reported")
             /\ Take
             /\ \E d \in Devices[Head(heard)] :
                  calling' = {[find |-> f, device |-> d]}

(* The first datagram leads to no device that is looked for. *)
Pass == /\ calling = {}
        /\ \E f \in Finds : find[f] = "active"
        /\ Take
        /\ UNCHANGED <<searching, find, calling>>

(* The first datagram, or what it leads to, makes the find give up. *)
GiveUp(f) == /\ End(f, "dropped") \/ End(f, "thrown")
             /\ Take
             /\ UNCHANGED calling

(* Nothing can be received. *)
Fail(f) == /\ End(f, "failed")
           /\ calling' = {[find |-> f, device |-> NoDevice]}
           /\ UNCHANGED heard

(* The callback is over. *)
Return == /\ calling # {}
          /\ calling' = {}
          /\ UNCHANGED <<searching, heard, find>>

Next == \/ Search \/ Stop \/ Pass \/ Return
        \/ \E r \in Replies : Hear(r)
        \/ \E f \in Finds : Find(f) \/ Report(f) \/ GiveUp(f) \/ Fail(f)

Spec == Init /\ [][Next]_vars
==============================================================================
