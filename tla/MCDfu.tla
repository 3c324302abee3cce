-------------------------------- MODULE MCDfu --------------------------------
(* The download engine on small instances: the geometry of a sector of a few
   cells, and hosts that send any request in any order. *)
EXTENDS DfuProperties

CONSTANTS p1, p2,    \* data without the RAM boot sentinel
          r          \* a RAM boot image

\* r is loaded at the first RAM address of the instance.
MCLoadAddress == [p \in Payloads |-> IF p = r THEN 100 ELSE 0]

=============================================================================
