------------------------------- MODULE MCStorage -------------------------------
(***************************************************************************)
(* A window whose threads save at once, over payments that go together,    *)
(* and over payments that conflict, with a reset; a window on its own,     *)
(* with crashes, likewise; a window beside commands; a wallet through      *)
(* several starts.                                                         *)
(***************************************************************************)
EXTENDS Storage

CONSTANTS x, y, k1, k2, k3

MCPayment == {x, y}
MCKey == {k1, k2, k3}

Start == [ helpers |-> {}, payments |-> {x, y}, conflicts |-> {}, passwords |-> {"", "secret"},
           crash_writing |-> FALSE, starts |-> 1, crashes |-> 0, commands |-> 0,
           changes |-> 0 ]

Conflicting == {{x, y}}

Threads == [ Start EXCEPT !.helpers = {"peer"}, !.passwords = {""} ]
Resets == [ Threads EXCEPT !.conflicts = Conflicting, !.changes = 1 ]
Single == [ Start EXCEPT !.starts = 3, !.crashes = 2, !.changes = 1 ]
Evictions == [ Single EXCEPT !.conflicts = Conflicting ]
Beside == [ Start EXCEPT !.payments = {x}, !.passwords = {""}, !.crash_writing = TRUE,
                         !.starts = 2, !.crashes = 1, !.commands = 2 ]
Wallets == [ Start EXCEPT !.payments = {}, !.starts = 3, !.crashes = 1, !.changes = 4 ]

MCScenarios == {Threads, Resets, Single, Evictions, Beside, Wallets}
ProtectedWallet == {[ Wallets EXCEPT !.crashes = 0 ]}
===============================================================================
