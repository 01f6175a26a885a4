----------------------------- MODULE MCRecorder -----------------------------
EXTENDS Recorder
=============================================================================
