---------------------------- MODULE Repositories ---------------------------
(***************************************************************************)
(* The two implementations of the Repository protocol, side by side.  The  *)
(* program's tests run on InMemoryRepository and the service on            *)
(* SupabaseRepository: each call is made to both, and what their reads     *)
(* answer is compared.  A call to Supabase is one or two HTTP requests,    *)
(* each tried up to MaxAttempts times when the transport fails: a request  *)
(* may not arrive, or it may be carried out and its answer be lost.        *)
(*                                                                         *)
(* The tables do not depend on each other; a behaviour is about one of     *)
(* them.  memory changes when the server first carries a call's write out. *)
(***************************************************************************)
EXTENDS Integers, Sequences, FiniteSets, FiniteSetsExt, SequencesExt

CONSTANTS
  Tables,          \* the tables looked at
  Clients,         \* threads of the service that save records
  Owners,          \* runs, threads or identities that records belong to
  IdentityOwners,  \* the threads of one identity
  Limit,           \* the limit of a list
  MaxAttempts,     \* attempts of _run, 3 in the code
  MaxBumps,        \* numbers an event is tried with, 32 in the code
  MaxRecords,      \* bound on the records made, of each table
  MaxVersions,     \* bound on the versions of a record
  None

VARIABLES
  table,     \* the table of this behaviour
  indexed,   \* graph_run_event has the column sequence_index
  memory,    \* InMemoryRepository's records
  rows,      \* the rows in Postgres
  made,      \* every version of every record the program made
  call,      \* the call each client is in
  answered,  \* the saves that returned
  refused,   \* the saves that raised for a duplicate key
  alone      \* no two calls were ever open together

vars == <<table, indexed, memory, rows, made, call, answered, refused, alone>>

Memory   == INSTANCE MemoryStore
Postgres == INSTANCE TableStore

MemoryTables == Memory!Keyed \cup Memory!Lists \cup
  {"build_spec", "build_candidate", "evaluation_report", "staging_snapshot",
   "publication_snapshot", "staging_checkpoint", "graph_run"}

Kinds == [t \in MemoryTables |->
            CASE t = "checkpoint" -> {"post_role", "interrupt", "interrupt_error"}
              [] t = "role_invocation" -> {"completed", "failed"}
              [] t = "graph_run" -> {"active", "over"}
              [] t = "staging_snapshot" -> {"review_ready", "approved"}
              [] OTHER -> {"row"}]

(* A record saved again: an invocation with more metadata, a run with      *)
(* another status.                                                         *)
Resaved == {"role_invocation"}
Updated == {"graph_run"}

(* The tables whose writes replace what is there.                          *)
Replacing == Memory!Keyed \cup Updated

RecordOf(t) ==
  [id : 1 .. MaxRecords[t], owner : Owners, at : 1 .. MaxRecords[t],
   kind : UNION {Kinds[k] : k \in MemoryTables}, rev : 1 .. MaxVersions,
   named : BOOLEAN, number : Nat \cup {None}]
Record == RecordOf(table)

NoCall == [step |-> "idle", update |-> FALSE, row |-> None, attempt |-> 0,
           arrived |-> FALSE, existing |-> None, bumps |-> 0]

TypeOK ==
  /\ table \in Tables /\ indexed \in BOOLEAN /\ alone \in BOOLEAN
  /\ ToSet(memory) \subseteq Record /\ rows \subseteq Record
  /\ made \subseteq Record /\ answered \subseteq Record /\ refused \subseteq 1 .. MaxRecords[table]
  /\ \A c \in Clients :
       \/ call[c] = NoCall
       \/ call[c].step \in {"look", "write"} /\ call[c].row \in Record
          /\ call[c].attempt \in 1 .. MaxAttempts

Init ==
  /\ table \in Tables
  /\ indexed \in (IF table = "graph_run_event" THEN BOOLEAN ELSE {FALSE})
  /\ memory = <<>> /\ rows = {} /\ made = {}
  /\ call = [c \in Clients |-> NoCall]
  /\ answered = {} /\ refused = {} /\ alone = TRUE

Idle(c) == call[c] = NoCall

----------------------------------------------------------------------------
(* A call begins.                                                          *)

Begin(c, row, update) ==
  /\ call' = [call EXCEPT ![c] =
       [NoCall EXCEPT !.step = IF table \in {"graph_run_event", "cross_run_memory"}
                               THEN "look" ELSE "write",
                      !.update = update, !.row = row, !.attempt = 1]]
  /\ alone' = (alone /\ \A d \in Clients : Idle(d))
  /\ made' = made \cup {row}
  /\ UNCHANGED <<table, indexed, memory, rows, answered, refused>>

(* The time of a record is the clock of whoever made it: records may be    *)
(* saved in another order than they were made in.                          *)
SaveNew(c, o, at, kind, named) ==
  /\ Idle(c)
  /\ \A r \in made : r.at # at
  /\ named => table = "graph_run"
  /\ LET id == 1 + Cardinality({r.id : r \in made})
     IN /\ id <= MaxRecords[table]
        /\ Begin(c, [id |-> id, owner |-> o, at |-> at, kind |-> kind, rev |-> 1,
                     named |-> named, number |-> None], FALSE)

(* The newest version a client has of a record.                            *)
Version(id) == Max({r.rev : r \in {s \in made : s.id = id}})

SaveAgain(c, r, kind) ==
  /\ Idle(c)
  /\ r.rev = Version(r.id) /\ r.rev < MaxVersions
  /\ \/ table \in Resaved /\ kind = r.kind /\ Begin(c, [r EXCEPT !.rev = @ + 1], FALSE)
     \/ table \in Updated /\ Begin(c, [r EXCEPT !.rev = @ + 1, !.kind = kind], TRUE)

----------------------------------------------------------------------------
(* The read some calls make first.                                         *)

Look(c) ==
  /\ call[c].step = "look"
  /\ LET r == call[c].row
     IN IF table = "graph_run_event"
        THEN LET next == IF indexed
                         THEN Postgres!next_graph_run_event_sequence_index(rows, r.owner)
                         ELSE None
             IN call' = [call EXCEPT ![c].step = "write", ![c].row.number = next]
        ELSE LET own == Postgres!Of(rows, r.owner)
             IN call' = [call EXCEPT ![c].step = "write",
                           ![c].existing = IF own = {} THEN None ELSE CHOOSE s \in own : TRUE]
  /\ UNCHANGED <<table, indexed, memory, rows, made, answered, refused, alone>>

(* Its attempts all failed: an event is saved without a number, the memory *)
(* is not saved.                                                           *)
LookFails(c) ==
  /\ call[c].step = "look"
  /\ call' = [call EXCEPT ![c] = IF table = "graph_run_event"
                                 THEN [@ EXCEPT !.step = "write"] ELSE NoCall]
  /\ UNCHANGED <<table, indexed, memory, rows, made, answered, refused, alone>>

----------------------------------------------------------------------------
(* The write.                                                              *)

Carried(c) ==
  LET r == call[c].row
  IN IF table = "graph_run_event" THEN Postgres!save_graph_run_event(rows, r)
     ELSE IF table = "cross_run_memory"
          THEN {Postgres!upsert_identity_cross_run_memory(rows, r, call[c].existing)}
     ELSE IF call[c].update THEN {Postgres!update_graph_run_status(rows, r)}
     ELSE {Postgres!save(table, rows, r)}

(* The same call on the other repository, when the server first carries it *)
(* out.                                                                    *)
Remember(c, result) ==
  LET r == [call[c].row EXCEPT !.number = None]
  IN memory' = IF call[c].arrived \/ result.verdict # "ok" THEN memory
               ELSE IF call[c].update THEN Memory!update_graph_run_status(memory, r)
               ELSE Memory!save(table, memory, r)

(* A mutant: any duplicate key of an event is its own.                     *)
is_duplicate_graph_run_event_any(verdict) == verdict # "ok"

(* An event whose id is there was stored by an attempt before.             *)
is_duplicate_graph_run_event_pkey(verdict) == verdict = "pkey"

Over(c) == call' = [call EXCEPT ![c] = NoCall]

(* The request is carried out and answered.  An error answer is not tried  *)
(* again by _run; an event whose number is taken is given the next one, as *)
(* long as it may be.                                                      *)
Reach(c) ==
  /\ call[c].step = "write"
  /\ \E result \in Carried(c) :
       /\ rows' = result.rows
       /\ Remember(c, result)
       /\ \/ /\ \/ result.verdict = "ok"
                \/ /\ table = "graph_run_event"
                   /\ is_duplicate_graph_run_event_pkey(result.verdict)
             /\ answered' = answered \cup {call[c].row}
             /\ Over(c)
             /\ UNCHANGED refused
          \/ /\ result.verdict = "sequence" /\ call[c].bumps < MaxBumps - 1
             /\ call' = [call EXCEPT ![c].row.number = @ + 1, ![c].attempt = 1,
                                     ![c].bumps = @ + 1]
             /\ UNCHANGED <<answered, refused>>
          \/ /\ result.verdict = "pkey" /\ table # "graph_run_event"
             /\ refused' = refused \cup {call[c].row.id}
             /\ Over(c)
             /\ UNCHANGED answered
  /\ UNCHANGED <<table, indexed, made, alone>>

(* The last of its numbers is taken as well: the event is not in the table *)
(* and its save returns all the same.  The other repository has it.        *)
GiveUp(c) ==
  /\ call[c].step = "write" /\ call[c].bumps = MaxBumps - 1
  /\ \E result \in Carried(c) : result.verdict = "sequence"
  /\ memory' = IF call[c].arrived THEN memory
               ELSE Memory!save(table, memory, [call[c].row EXCEPT !.number = None])
  /\ answered' = answered \cup {call[c].row}
  /\ Over(c)
  /\ UNCHANGED <<table, indexed, rows, made, refused, alone>>

TryAgain(c, arrived) ==
  LET k == call[c]
      next == [k EXCEPT !.attempt = k.attempt + 1, !.arrived = arrived]
  IN call' = [call EXCEPT ![c] = IF k.attempt < MaxAttempts THEN next ELSE NoCall]

(* It is carried out and the answer is lost.                               *)
LoseAnswer(c) ==
  /\ call[c].step = "write"
  /\ \E result \in Carried(c) :
       /\ rows' = result.rows
       /\ Remember(c, result)
       /\ TryAgain(c, call[c].arrived \/ result.verdict = "ok")
  /\ UNCHANGED <<table, indexed, made, answered, refused, alone>>

(* It does not arrive.                                                     *)
LoseRequest(c) ==
  /\ call[c].step = "write"
  /\ TryAgain(c, call[c].arrived)
  /\ UNCHANGED <<table, indexed, memory, rows, made, answered, refused, alone>>

Next ==
  \E c \in Clients :
    \/ \E o \in Owners, at \in 1 .. MaxRecords[table], kind \in Kinds[table], named \in BOOLEAN :
         SaveNew(c, o, at, kind, named)
    \/ \E r \in ToSet(memory), kind \in Kinds[table] : SaveAgain(c, r, kind)
    \/ Look(c) \/ LookFails(c)
    \/ Reach(c) \/ GiveUp(c) \/ LoseAnswer(c) \/ LoseRequest(c)

Spec == Init /\ [][Next]_vars

----------------------------------------------------------------------------
(* Properties.                                                             *)

Quiet == \A c \in Clients : Idle(c)

(* The save of one of o's events returned without a row.                   *)
GaveUp(o) == \E r \in answered : r.owner = o /\ \A s \in rows : s.id # r.id

SameOf(o) ==
  /\ table = "checkpoint" =>
       /\ Memory!get_run_snapshot(memory, o) = Postgres!get_run_snapshot(rows, o)
       /\ Memory!get_run_snapshot(memory, o) = Postgres!get_run_snapshots_for_graph_runs(rows)[o]
       /\ Memory!get_latest_checkpoint_for_graph_run(memory, o)
            = Postgres!get_latest_checkpoint_for_graph_run(rows, o)
       /\ Memory!get_latest_interrupt_orchestrator_error(memory, o)
            = Postgres!get_latest_interrupt_orchestrator_error(rows, o)
  /\ table = "role_invocation" =>
       /\ Memory!list_role_invocations_for_graph_run(memory, o)
            = Postgres!list_role_invocations_for_graph_run(rows, o)
       /\ Memory!get_latest_failed_role_invocation_for_graph_run(memory, o)
            = Postgres!get_latest_failed_role_invocation_for_graph_run(rows, o)
  /\ table = "graph_run_event" /\ ~GaveUp(o) /\ Cardinality(Postgres!Of(rows, o)) <= Limit =>
       Memory!list_graph_run_events(memory, o) = Postgres!list_graph_run_events(rows, o)
  /\ table \in {"build_spec", "build_candidate", "evaluation_report"} =>
       /\ Memory!latest_of_role(memory, o) = Postgres!latest_of_role(rows, o)
       /\ Memory!list_evaluation_reports_for_graph_run(memory, o)
            = Postgres!list_evaluation_reports_for_graph_run(rows, o)
  /\ table \in {"staging_snapshot", "publication_snapshot", "staging_checkpoint"} =>
       /\ Memory!list_for_owner(memory, o) = Postgres!list_for_owner(rows, o)
       /\ Memory!get_latest_publication_snapshot(memory, o)
            = Postgres!get_latest_publication_snapshot(rows, o)
  /\ table \in {"identity_source", "page_visit_log"} =>
       Memory!list_identity_sources(memory, o) = Postgres!list_identity_sources(rows, o)
  /\ table \in Memory!Keyed => Memory!get_by_key(memory, o) = Postgres!get_by_key(rows, o)
  /\ table = "graph_run" =>
       /\ Memory!get_active_graph_run_for_thread(memory, o)
            = Postgres!get_active_graph_run_for_thread(rows, o)
       /\ \A status \in Kinds[table] :
            Memory!list_graph_runs(memory, status, o, FALSE)
             = Postgres!list_graph_runs(rows, status, o, FALSE)

SavedOnce == \A i, j \in DOMAIN memory : memory[i].id = memory[j].id => i = j

SameOfAll ==
  /\ table = "checkpoint" =>
       Memory!graph_run_ids_with_interrupt_orchestrator_error(memory)
        = Postgres!graph_run_ids_with_interrupt_orchestrator_error(rows)
  /\ table = "role_invocation" /\ SavedOnce =>
       Memory!aggregate_role_invocation_stats_for_graph_runs(memory)
        = Postgres!aggregate_role_invocation_stats_for_graph_runs(rows)
  /\ table = "staging_snapshot" =>
       /\ Memory!latest_staging_snapshot_ids_for_graph_runs(memory)
            = Postgres!latest_staging_snapshot_ids_for_graph_runs(rows)
       /\ \A status \in Kinds[table] : Memory!list_staging_snapshots(memory, status)
                                        = Postgres!list_staging_snapshots(rows, status)
  /\ table = "publication_snapshot" =>
       Memory!publication_counts_for_staging_snapshot_ids(memory)
        = Postgres!publication_counts_for_staging_snapshot_ids(rows)
  /\ table = "cross_run_memory" =>
       Memory!list_identity_cross_run_memory(memory)
        = Postgres!list_identity_cross_run_memory(rows)
  /\ table = "graph_run" =>
       \A status \in Kinds[table], ofIdentity \in BOOLEAN :
         Memory!list_graph_runs(memory, status, None, ofIdentity)
          = Postgres!list_graph_runs(rows, status, None, ofIdentity)
  /\ table \notin Memory!Keyed \cup Memory!Lists =>
       \A id \in 1 .. MaxRecords[table] :
         Memory!ById(memory, id) = Postgres!get_by_id(rows, id)

(* Whenever no call is open, every read answers the same on both           *)
(* repositories: what passes on the in-memory one is what the service      *)
(* does.  Not claimed where a write replaces another and calls overlapped  *)
(* (a retry may put the older back), for the events past a list's limit or *)
(* of a run one of whose events was given up, and for the count of         *)
(* invocations once one was saved again.                                   *)
ReadsAgree ==
  Quiet /\ (table \in Replacing => alone) =>
    SameOfAll /\ \A o \in Owners : SameOf(o)

(* A save that returned is in the table: the row itself, or, for a record  *)
(* with several versions, some version of it.  A duplicate key is taken    *)
(* for success only where the row is really there, and an event is given   *)
(* up only after MaxBumps numbers in a row were taken by other events of   *)
(* its run.                                                                *)
AnsweredIsStored ==
  \A r \in answered :
    \/ \E s \in rows : IF table \in Memory!Keyed THEN s.owner = r.owner
                       ELSE s.id = r.id /\ (s.rev # r.rev \/ [s EXCEPT !.number = r.number] = r)
    \/ table = "graph_run_event" /\ r.number # None
       /\ \A n \in (r.number - MaxBumps + 1) .. r.number :
            \E s \in rows : s.owner = r.owner /\ s.id # r.id /\ s.number = n

(* The numbers of a run's events are 0 .. n-1 with no gap and none twice,  *)
(* whatever races, lost answers and bumps there were on the way.           *)
EventNumbers ==
  \A o \in Owners :
    LET numbered == {r \in Postgres!Of(rows, o) : r.number # None}
    IN {r.number : r \in numbered} = 0 .. (Cardinality(numbered) - 1)

(* A retried save is never refused as a duplicate of itself; only the two  *)
(* tables written by a plain insert may say so.                            *)
RetryIsSafe == table \notin {"page_visit_log", "cross_run_memory"} => refused = {}
=============================================================================
