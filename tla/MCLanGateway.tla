---------------------------- MODULE MCLanGateway ----------------------------
\* Two TX callers and a pause that doubles twice.
EXTENDS LanGateway
=============================================================================
