----------------------------- MODULE MCWebServer -----------------------------
(* WebServer for TLC: two descriptors for three clients, so that numbers   *)
(* are reused, and a pool that two requests can overfill.                  *)
EXTENDS WebServer, TLC

MCFds == {5, 6}
MCSymmetry == Permutations(Clients) \union Permutations(Workers)
=============================================================================
