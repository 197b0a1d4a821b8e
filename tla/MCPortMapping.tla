---------------------------- MODULE MCPortMapping ----------------------------
(***************************************************************************)
(* Small sets of port mappings for checking PortMapping.                   *)
(***************************************************************************)
EXTENDS PortMapping, TLC

CONSTANTS c1, c2

Mapping(protocol, port, enabled, host, internal, lease) ==
  [protocol |-> protocol, external_port |-> port, enabled |-> enabled,
   internal_client |-> host, internal_port |-> internal, lease_duration |-> lease]

(* One port, named in two ways, wanted for two hosts; and another port     *)
(* that only the first caller uses.                                        *)
ForA == Mapping("TCP", 1, TRUE, "A", "7", 0)
ForB == Mapping("tcp", 1, FALSE, "B", "8", 60)
OffA == Mapping("udp", 1, FALSE, "A", "7", 0)
TwoPorts     == {ForA, ForB, OffA}
TwoPortsUses == (c1 :> {ForA, OffA}) @@ (c2 :> {ForB})
SecondCaller == {c2}

OnePort     == {ForA, ForB}
OnePortUses == (c1 :> OnePort) @@ (c2 :> OnePort)

(* Answers that are complete, and ones that lack a field. *)
Complete == {{}}
Lacking  == {{}, {"enabled"}, {"internal_client"}, {"internal_port"}, {"lease_duration"}}
==============================================================================
