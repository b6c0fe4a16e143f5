--------------------------- MODULE MCBlockIngest ----------------------------
(* A small chain: a block with two messages, an empty block, a block with  *)
(* a contract call, a creation and a message, and one with plain transfers *)
(* before a message to an address already seen.                            *)
EXTENDS BlockIngest

CONSTANTS e1, e2

To(d) == [to |-> d, text |-> TRUE]
Plain(d) == [to |-> d, text |-> FALSE]

MCChain == << <<To(e1), To(e2)>>, <<>>, <<To(NoDest), To(e1)>>, <<Plain(e2), To(e2)>> >>

MCStarts == {Unset, 1}
=============================================================================
