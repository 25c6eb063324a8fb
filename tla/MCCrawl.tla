------------------------------ MODULE MCCrawl -------------------------------
(* One site with two pages, each of which may be given as a root, and one  *)
(* page elsewhere to be inspired by.                                       *)
EXTENDS Crawl, TLC

CONSTANTS home, work, muse, i1, i2, w1, w2

MCUrls  == {home, work, muse}
MCSiteOf == (home :> "acme") @@ (work :> "acme") @@ (muse :> "muse")
MCScore == (home :> 3) @@ (work :> 2) @@ (muse :> 1)
MCLinks == (home :> {work, muse}) @@ (work :> {home}) @@ (muse :> {work})

MCDesks ==
  {[wrapper |-> wrapper, reseeds |-> 1, failures |-> 1, overlaps |-> 0] : wrapper \in BOOLEAN}
    \cup {[wrapper |-> FALSE, reseeds |-> 0, failures |-> 0, overlaps |-> 1]}
=============================================================================
