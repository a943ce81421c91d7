----------------------------- MODULE MCGamepads -----------------------------
(* Model-checking instances of Gamepads: controllers are small numbers, with *)
(* a serial number each. A device above the controllers is one that SDL does *)
(* not take for a controller.                                                *)
EXTENDS Gamepads

MCPads == {1, 2}
MCOnePad == {1}
MCIdentity == [p \in MCPads |-> p]
MCOneIdentity == [p \in MCOnePad |-> p]

\* Every device of a model of its own, or two controllers of one model.
MCModels == [d \in MCPads |-> d]
MCTwins == [d \in MCPads |-> 1]

\* Bounds: who changes Auto-Plugin during a stream.
MCOnly == {1}

=============================================================================
