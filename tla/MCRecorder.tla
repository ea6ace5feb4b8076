----------------------------- MODULE MCRecorder -----------------------------
EXTENDS Recorder
CONSTANTS field
OneElement == {field}
UserActs == {"click", "fill", "file"}
=============================================================================
