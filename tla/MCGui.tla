-------------------------------- MODULE MCGui --------------------------------
\* Two profiles, so that a switch has somewhere to go, and one latency.
EXTENDS GuiWorker

MCProfiles == 1..2
MCLatencies == {10}
=============================================================================
