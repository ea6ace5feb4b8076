--------------------------- MODULE MCPanelCapture ---------------------------
(* Instances of PanelCapture for TLC: one panel on a page with two keys.      *)
EXTENDS PanelCapture

CONSTANTS k1, k2, p1, q1, q2
=============================================================================
