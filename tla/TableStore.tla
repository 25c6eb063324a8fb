---------------------------- MODULE TableStore -----------------------------
(***************************************************************************)
(* One Postgres table as SupabaseRepository writes and reads it: the set   *)
(* of its rows, what a request does to them, and what each read of the     *)
(* Repository protocol answers.  A row is a record of MemoryStore with the *)
(* sequence_index of an event as number, None where it has none.           *)
(***************************************************************************)
EXTENDS Naturals, Sequences, SequencesExt, FiniteSets, FiniteSetsExt

CONSTANTS Owners, IdentityOwners, Limit, None

----------------------------------------------------------------------------
(* Writing.  What the server answers: "ok", or the constraint of a 23505.  *)

Answer(rows, verdict) == [rows |-> rows, verdict |-> verdict]
WithKey(table, rows, r) ==
  {s \in rows : IF table \in {"identity_profile", "working_staging", "cross_run_memory"}
                THEN s.owner = r.owner ELSE s.id = r.id}

(* upsert(..., ignore_duplicates=True): the first row stays.               *)
ignore_duplicates(table, rows, r) ==
  Answer(IF WithKey(table, rows, r) = {} THEN rows \cup {r} ELSE rows, "ok")
upsert(table, rows, r) == Answer((rows \ WithKey(table, rows, r)) \cup {r}, "ok")
insert(table, rows, r) ==
  IF WithKey(table, rows, r) = {} THEN Answer(rows \cup {r}, "ok") ELSE Answer(rows, "pkey")

(* A mutant: a plain insert.                                               *)
save_checkpoint_by_insert(rows, r) == insert("checkpoint", rows, r)

save_checkpoint(rows, r)           == ignore_duplicates("checkpoint", rows, r)
save_role_invocation(rows, r)      == ignore_duplicates("role_invocation", rows, r)
save_build_spec(rows, r)           == ignore_duplicates("build_spec", rows, r)
save_build_candidate(rows, r)      == ignore_duplicates("build_candidate", rows, r)
save_evaluation_report(rows, r)    == ignore_duplicates("evaluation_report", rows, r)
save_staging_snapshot(rows, r)     == ignore_duplicates("staging_snapshot", rows, r)
save_publication_snapshot(rows, r) == ignore_duplicates("publication_snapshot", rows, r)
save_staging_checkpoint(rows, r)   == ignore_duplicates("staging_checkpoint", rows, r)
create_identity_source(rows, r)    == ignore_duplicates("identity_source", rows, r)
upsert_identity_profile(rows, r)   == upsert("identity_profile", rows, r)
save_working_staging(rows, r)      == upsert("working_staging", rows, r)
save_graph_run(rows, r)            == upsert("graph_run", rows, r)
append_page_visit_log(rows, r)     == insert("page_visit_log", rows, r)

(* The save of each of these tables.                                       *)
save(table, rows, r) ==
  [checkpoint           |-> save_checkpoint(rows, r),
   role_invocation      |-> save_role_invocation(rows, r),
   build_spec           |-> save_build_spec(rows, r),
   build_candidate      |-> save_build_candidate(rows, r),
   evaluation_report    |-> save_evaluation_report(rows, r),
   staging_snapshot     |-> save_staging_snapshot(rows, r),
   publication_snapshot |-> save_publication_snapshot(rows, r),
   staging_checkpoint   |-> save_staging_checkpoint(rows, r),
   identity_source      |-> create_identity_source(rows, r),
   identity_profile     |-> upsert_identity_profile(rows, r),
   working_staging      |-> save_working_staging(rows, r),
   graph_run            |-> save_graph_run(rows, r),
   page_visit_log       |-> append_page_visit_log(rows, r)][table]

(* update(...).eq(graph_run_id): another status.                           *)
update_graph_run_status(rows, r) ==
  Answer({IF s.id = r.id THEN [s EXCEPT !.kind = r.kind, !.rev = r.rev] ELSE s : s \in rows}, "ok")

(* The row read before decides; updating keeps its id.                     *)
upsert_identity_cross_run_memory(rows, r, existing) ==
  IF existing = None THEN insert("cross_run_memory", rows, r)
  ELSE Answer({IF s.id = existing.id THEN [r EXCEPT !.id = s.id] ELSE s : s \in rows}, "ok")

(* The table has its primary key and, with the column, unique numbers in a *)
(* run; of two constraints that fail either may be the one named.          *)
save_graph_run_event(rows, r) ==
  LET broken == (IF \E s \in rows : s.id = r.id THEN {"pkey"} ELSE {})
                \cup (IF r.number # None /\
                         \E s \in rows : s.owner = r.owner /\ s.number = r.number
                      THEN {"sequence"} ELSE {})
  IN IF broken = {} THEN {Answer(rows \cup {r}, "ok")}
     ELSE {Answer(rows, verdict) : verdict \in broken}

(* A mutant: numbering from 1.                                             *)
next_sequence_index_from_one(rows, o) ==
  LET own == {s \in rows : s.owner = o}
  IN IF own = {} THEN 1
     ELSE IF \E s \in own : s.number = None THEN None
     ELSE Max({s.number : s \in own}) + 1

(* order("sequence_index", desc=True) has the rows without a number first. *)
next_graph_run_event_sequence_index(rows, o) ==
  LET own == {s \in rows : s.owner = o}
  IN IF own = {} THEN 0
     ELSE IF \E s \in own : s.number = None THEN None
     ELSE Max({s.number : s \in own}) + 1

----------------------------------------------------------------------------
(* Reading.                                                                *)

Of(rows, o) == {r \in rows : r.owner = o}
OfKind(rows, o, kinds) == {r \in Of(rows, o) : r.kind \in kinds}

(* order(key), with desc=True or without.                                  *)
order(rows, desc) ==
  CHOOSE s \in [1 .. Cardinality(rows) -> rows] :
    \A i, j \in DOMAIN s : i < j => IF desc THEN s[i].at > s[j].at ELSE s[i].at < s[j].at
limit(s, n) == SubSeq(s, 1, IF Len(s) < n THEN Len(s) ELSE n)
first(s) == IF s = <<>> THEN None ELSE s[1]

get_by_id(rows, id) == first(limit(order({r \in rows : r.id = id}, FALSE), 1))

get_run_snapshot(rows, o) == first(limit(order(OfKind(rows, o, {"post_role"}), TRUE), 1))

(* One request for all the runs; the newest of each is found in Python.    *)
get_run_snapshots_for_graph_runs(rows) ==
  [o \in Owners |-> LET own == order(OfKind(rows, o, {"post_role"}), FALSE)
                    IN IF own = <<>> THEN None ELSE Last(own)]

(* A mutant: order without desc.                                           *)
get_oldest_checkpoint_for_graph_run(rows, o) == first(limit(order(Of(rows, o), FALSE), 1))

get_latest_checkpoint_for_graph_run(rows, o) == first(limit(order(Of(rows, o), TRUE), 1))

Interrupts == {"interrupt", "interrupt_error"}

get_latest_interrupt_orchestrator_error(rows, o) ==
  LET last == first(limit(order(OfKind(rows, o, Interrupts), TRUE), 1))
  IN IF last = None \/ last.kind = "interrupt" THEN None ELSE last

(* One request for the interrupt rows of all the runs.                     *)
graph_run_ids_with_interrupt_orchestrator_error(rows) ==
  {o \in Owners : LET own == order(OfKind(rows, o, Interrupts), FALSE)
                  IN own # <<>> /\ Last(own).kind = "interrupt_error"}

Ids(s) == [i \in DOMAIN s |-> s[i].id]

list_role_invocations_for_graph_run(rows, o) == Ids(order(Of(rows, o), FALSE))
aggregate_role_invocation_stats_for_graph_runs(rows) ==
  [o \in Owners |-> Cardinality(Of(rows, o))]
get_latest_failed_role_invocation_for_graph_run(rows, o) ==
  LET last == first(limit(order(OfKind(rows, o, {"failed"}), TRUE), 1))
  IN IF last = None THEN None ELSE last.id

(* The oldest limit events.                                                *)
list_graph_run_events(rows, o) == Ids(limit(order(Of(rows, o), FALSE), Limit))

latest_of_role(rows, o) == first(limit(order(Of(rows, o), TRUE), 1))
list_evaluation_reports_for_graph_run(rows, o) == limit(order(Of(rows, o), FALSE), Limit)

list_for_owner(rows, o) == limit(order(Of(rows, o), TRUE), Limit)
latest_staging_snapshot_ids_for_graph_runs(rows) ==
  [o \in Owners |-> LET own == order(Of(rows, o), TRUE)
                    IN IF own = <<>> THEN None ELSE own[1].id]
list_staging_snapshots(rows, status) ==
  limit(order({r \in rows : r.kind = status}, TRUE), Limit)
list_publication_snapshots(rows, o, n) == limit(order(Of(rows, o), TRUE), n)
get_latest_publication_snapshot(rows, o) == first(list_publication_snapshots(rows, o, 1))
publication_counts_for_staging_snapshot_ids(rows) ==
  [o \in Owners |-> Cardinality(Of(rows, o))]

list_identity_sources(rows, o) == order(Of(rows, o), TRUE)

get_by_key(rows, o) ==
  LET own == first(limit(order(Of(rows, o), FALSE), 1))
  IN IF own = None THEN None ELSE <<own.at, own.rev>>
list_identity_cross_run_memory(rows) ==
  LET found == limit(order(rows, TRUE), Limit) IN [i \in DOMAIN found |-> found[i].owner]

get_active_graph_run_for_thread(rows, o) == first(limit(order(OfKind(rows, o, {"active"}), TRUE), 1))

(* With a thread the identity is not asked for.  For an identity there are *)
(* two requests, by thread and by the record's own identity, each with its *)
(* limit, merged by id and cut again.                                      *)
list_graph_runs(rows, status, o, ofIdentity) ==
  LET By(match) == order({r \in match : r.kind = status}, TRUE)
      merged == ToSet(limit(By({r \in rows : r.owner \in IdentityOwners}), Limit))
                \cup ToSet(limit(By({r \in rows : r.named}), Limit))
  IN limit(IF o # None THEN By(Of(rows, o))
           ELSE IF ofIdentity THEN By(merged) ELSE By(rows), Limit)
=============================================================================
