------------------------------ MODULE MCUnderlay ------------------------------
EXTENDS Underlay

CONSTANTS s1, s2

\* At home with either dial, in the office with the kill switch off, or on and
\* another server.
MCConfigs ==
  {[server |-> s1, office |-> FALSE, udp |-> FALSE, ks |-> TRUE],
   [server |-> s1, office |-> FALSE, udp |-> TRUE, ks |-> TRUE],
   [server |-> s1, office |-> TRUE, udp |-> FALSE, ks |-> FALSE],
   [server |-> s2, office |-> TRUE, udp |-> FALSE, ks |-> TRUE]}
==============================================================================
