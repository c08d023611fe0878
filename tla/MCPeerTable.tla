------------------------------ MODULE MCPeerTable ------------------------------
(***************************************************************************)
(* Three hosts of which two dial the third, and one remembers a peer; two  *)
(* that listen anywhere; two whose connections break while time passes;    *)
(* two that visit and are full; two whose clocks step back; three of which *)
(* one relays what the second sends to the third.                          *)
(***************************************************************************)
EXTENDS PeerTable

CONSTANTS a, b, c

MCPeer == {a, b, c}

Quiet == [ dials |-> {}, anywhere |-> {}, max_peers |-> 8,
           saved |-> [ n \in MCPeer |-> {} ], timed |-> FALSE, stepping |-> {},
           failures |-> 0, visits |-> 0, resets |-> 0 ]

Star == [ Quiet EXCEPT !.dials = {<<a, b>>, <<c, b>>}, !.saved[a] = {c}, !.resets = 1 ]
Anywhere == [ Quiet EXCEPT !.dials = {<<a, b>>}, !.anywhere = {a, b} ]
Breaking == [ Quiet EXCEPT !.dials = {<<a, b>>, <<b, a>>}, !.timed = TRUE, !.failures = 1 ]
Full == [ Quiet EXCEPT !.dials = {<<a, b>>}, !.max_peers = 1, !.timed = TRUE,
                       !.failures = 1, !.visits = 1 ]
Stepping == [ Quiet EXCEPT !.dials = {<<a, b>>}, !.timed = TRUE, !.stepping = {a, b},
                           !.failures = 1, !.resets = 1 ]
Relaying == [ Quiet EXCEPT !.dials = {<<a, b>>, <<b, c>>}, !.max_peers = 1, !.visits = 1 ]
Waiting == [ Quiet EXCEPT !.dials = {<<a, b>>}, !.timed = TRUE, !.visits = 2 ]

MCNetworks == {Star, Anywhere, Breaking, Full, Stepping, Relaying, Waiting}
===============================================================================
