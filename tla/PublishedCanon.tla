--------------------------- MODULE PublishedCanon ---------------------------
(***************************************************************************)
(* What publication promises, without saying how: what was published stays *)
(* published unchanged, and its payload is kept in the archive of review   *)
(* snapshots and checkpoints, from which it can be brought back.           *)
(***************************************************************************)
VARIABLES
  archive,   \* the payloads that can be brought back
  canon      \* the publications: what is known of each, with its payload

canonVars == <<archive, canon>>

CanonInit == archive = {} /\ canon = {}

(* Payloads are archived, and none is ever dropped.                        *)
Archive == archive \subseteq archive' /\ canon' = canon

(* One publication is added.  Its payload is in the archive at the latest  *)
(* when the publication exists.                                            *)
Publish ==
  /\ archive \subseteq archive'
  /\ \E c \in canon' : c.payload \in archive' /\ canon' = canon \cup {c}

CanonNext == Archive \/ Publish

CanonSpec == CanonInit /\ [][CanonNext]_canonVars

(* Every publication can be brought back from the archive.                 *)
CanonArchived == \A c \in canon : c.payload \in archive
=============================================================================
