---------------------------- MODULE MCPanelReplay ----------------------------
(* Instances of PanelReplay for TLC: one panel, or two of them.              *)
EXTENDS PanelReplay, TLC

CONSTANTS p1, p2

Panels == Permutations({p1, p2})
=============================================================================
