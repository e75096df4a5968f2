---------------------------- MODULE MCConnection ----------------------------
\* Two alternatives to the first profile, a threshold that takes more than one
\* round to reach, and latencies that tie.
EXTENDS ConnectionLifecycle

MCProfiles == 1..3
MCLatencies == {10, 20}
=============================================================================
