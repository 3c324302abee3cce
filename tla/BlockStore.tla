----------------------------- MODULE BlockStore -----------------------------
(***************************************************************************)
(* What a DFU download promises, with no word about how: a memory that is  *)
(* replaced one block at a time.  Accepting a block makes the old content  *)
(* of its cells unknown and touches no other cell; committing it gives     *)
(* every one of its cells the accepted content.  At most one block is on   *)
(* its way, and a block that was accepted is either committed whole or     *)
(* stays pending for ever.                                                 *)
(***************************************************************************)
CONSTANTS
  Addr,        \* the cells of the memory
  Content,     \* what a cell may hold
  Unknown,     \* the content of a cell being replaced
  Extents      \* the sets of cells a block may occupy

VARIABLES
  stored,      \* what each cell holds
  pending      \* the content on its way to the cells of one block

NothingPending == DOMAIN pending = {}

Init ==
  /\ stored \in [Addr -> Content]
  /\ NothingPending

\* A block is accepted: new is the content its cells shall have.
Accept(new) ==
  /\ NothingPending
  /\ DOMAIN new \in Extents
  /\ new \in [DOMAIN new -> Content]
  /\ pending' = new
  /\ stored' = [a \in Addr |-> IF a \in DOMAIN new THEN Unknown ELSE stored[a]]

\* The pending block is in place.
Commit ==
  /\ ~NothingPending
  /\ stored' = [a \in Addr |-> IF a \in DOMAIN pending THEN pending[a] ELSE stored[a]]
  /\ DOMAIN pending' = {}

Next == Accept(pending') \/ Commit

Spec == Init /\ [][Next]_<<stored, pending>>

=============================================================================
