----------------------------- MODULE MCLifecycle -----------------------------
(* One window and two watchdogs: the one at work and, after a disconnect, an *)
(* earlier one whose last tick is still under way.                           *)
EXTENDS Lifecycle

CONSTANTS d1, d2

MCDogs == {d1, d2}

AllActions == {"connect", "disconnect", "reconnect", "tun_on", "tun_off"}

OnOff == {"connect", "disconnect", "reconnect"}

\* The defaults of the program: TUN and the kill switch are on.
Vless == {[tun |-> TRUE, ks |-> TRUE, awg |-> FALSE]}

BothDials == {[tun |-> TRUE, ks |-> TRUE, awg |-> a] : a \in BOOLEAN}
==============================================================================
