-------------------------- MODULE MCBrowserSession --------------------------
(* BrowserSession for TLC: a page of up to two elements, two requests of    *)
(* which one is served.                                                    *)
EXTENDS BrowserSession, TLC

Alike == Permutations(Element)
=============================================================================
