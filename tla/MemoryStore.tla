---------------------------- MODULE MemoryStore ----------------------------
(***************************************************************************)
(* One table of InMemoryRepository: the sequence of the records saved, in  *)
(* the order in which its list or dictionary holds them, and what each     *)
(* read of the Repository protocol answers from it.  TableStore has the    *)
(* same operators for a Postgres table; Repositories compares the two.     *)
(*                                                                         *)
(* A record is [id, owner, at, kind, rev, named, number]: owner is what    *)
(* the reads select by (the run, thread or identity), at its timestamp, no *)
(* two of a table alike, kind its kind or status, rev tells its versions   *)
(* apart, named says that a run's record has the identity; number is the   *)
(* sequence_index that only the Postgres row of an event can have.         *)
(***************************************************************************)
EXTENDS Naturals, Sequences, SequencesExt, FiniteSets

CONSTANTS
  Owners,          \* what records belong to
  IdentityOwners,  \* the threads of the identity that list_graph_runs asks for
  Limit,           \* the limit a reader passes
  None

Keyed == {"identity_profile", "working_staging", "cross_run_memory"}

(* The tables the repository keeps as a list.                              *)
Lists == {"checkpoint", "role_invocation", "graph_run_event", "identity_source",
          "page_visit_log"}

Key(table, r) == IF table \in Keyed THEN r.owner ELSE r.id

(* A list appends; a dictionary assigns its key and keeps the key's place. *)
save(table, log, r) ==
  IF table \notin Lists /\ \E i \in DOMAIN log : Key(table, log[i]) = Key(table, r)
  THEN [i \in DOMAIN log |-> IF Key(table, log[i]) = Key(table, r) THEN r ELSE log[i]]
  ELSE Append(log, r)

update_graph_run_status(log, r) ==
  [i \in DOMAIN log |-> IF log[i].id = r.id
                        THEN [log[i] EXCEPT !.kind = r.kind, !.rev = r.rev] ELSE log[i]]

----------------------------------------------------------------------------
(* Reading.                                                                *)

Of(log, o) == {r \in ToSet(log) : r.owner = o}
OfKind(log, o, kinds) == {r \in Of(log, o) : r.kind \in kinds}

(* rows.sort(key=...), with reverse=True or without.                       *)
sort(found, reverse) ==
  CHOOSE s \in [1 .. Cardinality(found) -> found] :
    \A i, j \in DOMAIN s : i < j => IF reverse THEN s[i].at > s[j].at ELSE s[i].at < s[j].at

(* max(found, key=...).                                                    *)
max(found) ==
  IF found = {} THEN None ELSE CHOOSE r \in found : \A s \in found : s.at <= r.at

LimitTo(rows, n) == SubSeq(rows, 1, IF Len(rows) < n THEN Len(rows) ELSE n)
FirstOf(rows) == IF rows = <<>> THEN None ELSE rows[1]
LastOf(rows)  == IF rows = <<>> THEN None ELSE rows[Len(rows)]
Get(found) == IF found = {} THEN None ELSE CHOOSE r \in found : TRUE

ById(log, id) == Get({r \in ToSet(log) : r.id = id})

get_run_snapshot(log, o) == LastOf(sort(OfKind(log, o, {"post_role"}), FALSE))
get_latest_checkpoint_for_graph_run(log, o) == FirstOf(sort(Of(log, o), TRUE))

(* The newest interrupt, if it says of an error.                           *)
get_latest_interrupt_orchestrator_error(log, o) ==
  LET last == LastOf(sort(OfKind(log, o, {"interrupt", "interrupt_error"}), FALSE))
  IN IF last = None \/ last.kind # "interrupt_error" THEN None ELSE last

graph_run_ids_with_interrupt_orchestrator_error(log) ==
  {o \in Owners : get_latest_interrupt_orchestrator_error(log, o) # None}

(* An invocation saved again is in the list twice: by id it is one.        *)
list_role_invocations_for_graph_run(log, o) ==
  LET rows == sort({[id |-> r.id, at |-> r.at] : r \in Of(log, o)}, FALSE)
  IN [i \in DOMAIN rows |-> rows[i].id]

(* The length of the list, which has an invocation twice.                  *)
aggregate_role_invocation_stats_for_graph_runs(log) ==
  [o \in Owners |-> Cardinality({i \in DOMAIN log : log[i].owner = o})]

get_latest_failed_role_invocation_for_graph_run(log, o) ==
  LET last == max(OfKind(log, o, {"failed"}))
  IN IF last = None THEN None ELSE last.id

(* The newest limit events, oldest first.                                  *)
list_graph_run_events(log, o) ==
  LET rows == sort(Of(log, o), FALSE)
      from == IF Len(rows) > Limit THEN Len(rows) - Limit ELSE 0
  IN [i \in 1 .. (Len(rows) - from) |-> rows[from + i].id]

(* build_spec, build_candidate and evaluation_report.                      *)
latest_of_role(log, o) == max(Of(log, o))
list_evaluation_reports_for_graph_run(log, o) == LimitTo(sort(Of(log, o), FALSE), Limit)

(* staging_snapshot, publication_snapshot and staging_checkpoint.          *)
list_for_owner(log, o) == LimitTo(sort(Of(log, o), TRUE), Limit)
latest_staging_snapshot_ids_for_graph_runs(log) ==
  [o \in Owners |-> LET last == FirstOf(sort(Of(log, o), TRUE))
                    IN IF last = None THEN None ELSE last.id]
list_staging_snapshots(log, status) ==
  LimitTo(sort({r \in ToSet(log) : r.kind = status}, TRUE), Limit)
get_latest_publication_snapshot(log, o) == FirstOf(sort(Of(log, o), TRUE))
publication_counts_for_staging_snapshot_ids(log) ==
  [o \in Owners |-> Cardinality({i \in DOMAIN log : log[i].owner = o})]

list_identity_sources(log, o) == sort(Of(log, o), TRUE)

(* One record per key: what it says, not which record it is.               *)
get_by_key(log, o) ==
  LET own == Get(Of(log, o)) IN IF own = None THEN None ELSE <<own.at, own.rev>>
list_identity_cross_run_memory(log) ==
  LET rows == LimitTo(sort(ToSet(log), TRUE), Limit) IN [i \in DOMAIN rows |-> rows[i].owner]

get_active_graph_run_for_thread(log, o) == max(OfKind(log, o, {"active"}))

list_graph_runs(log, status, o, ofIdentity) ==
  LimitTo(sort({r \in ToSet(log) : /\ r.kind = status
                                   /\ o # None => r.owner = o
                                   /\ ofIdentity => r.owner \in IdentityOwners \/ r.named},
               TRUE), Limit)
=============================================================================
