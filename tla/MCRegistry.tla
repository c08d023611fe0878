------------------------------ MODULE MCRegistry ------------------------------
(***************************************************************************)
(* A window with a server, another that only fetches, and two endpoints    *)
(* that were published before and answer no more.                          *)
(***************************************************************************)
EXTENDS Registry, TLC

CONSTANTS w1, w2

On(bind, url) == [ bind |-> bind, url |-> url ]

\* The second window has no server of its own, as the website's page.
MCOffers == w1 :> {On("any", "low"), On("local", "near")} @@ w2 :> {}
MCLoopback == {"local"}
MCReaches == [ low |-> "any", high |-> "gone", higher |-> "gone", near |-> "local" ]
MCListed == "high" :> Entry(0, 1) @@ "higher" :> Entry(0, 2)
===============================================================================
