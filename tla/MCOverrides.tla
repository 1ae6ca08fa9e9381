----------------------------- MODULE MCOverrides -----------------------------
(* A user has something in a place or nothing.  Three configurations: home   *)
(* and office with TUN, and neither TUN nor RustDesk.                        *)
EXTENDS Overrides

CONSTANTS nothing, theirs

MCUsers == {nothing, theirs}

MCModes ==
  {[tun |-> TRUE, office |-> o, rustdesk |-> TRUE] : o \in BOOLEAN}
    \cup {[tun |-> FALSE, office |-> FALSE, rustdesk |-> FALSE]}
==============================================================================
