---------------------------- MODULE MCDashboard ----------------------------
EXTENDS Dashboard, TLC
AnyHandler == {"session_start", "session_stop", "control", "replay", "replay_stop",
               "interactive_start", "interactive_stop", "shutdown"}
=============================================================================
