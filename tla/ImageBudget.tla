---------------------------- MODULE ImageBudget ----------------------------
(***************************************************************************)
(* Which agent a generator call goes to, and the hourly budget of the one  *)
(* that makes images.  The graph runs of a process are threads; they share *)
(* the guard, a window of (time, tokens) pairs that is made on first use.  *)
(* A call takes the time, then the guard's lock: at most Delay later.  A   *)
(* behaviour is the life of one process: its window ends with it.          *)
(***************************************************************************)
EXTENDS Naturals, Sequences, SequencesExt, FiniteSets

CONSTANTS
  Threads,
  Requests,      \* what planner, event and payload may say of images
  ImageKeySet,   \* openclaw_generator_openai_image_config_key is not empty
  Cap,           \* kmb_openai_image_hourly_token_cap
  Estimates,     \* the tokens a call may be estimated to need
  Hour, Delay,   \* in ticks, the wait at the lock shorter than the hour
  MaxTime        \* bound: ticks

VARIABLES
  clock,
  windows,       \* the window of each guard made in this process
  singleton,     \* which of them is the process's, 0 before the first
  call,
  granted        \* history: what each guard granted at each tick

vars == <<clock, windows, singleton, call, granted>>

----------------------------------------------------------------------------
(* A request [static, artifact, scenario, surface, kind, criteria] says    *)
(* whether each of these names images.                                     *)
extract_image_generation_intent(q) ==
  \/ q.artifact
  \/ ~q.static /\ (q.scenario \/ q.surface \/ q.kind \/ q.criteria)

(* A mutant: no entry ever leaves.                                         *)
Prune_nothing(w, now) == w

(* Entries leave at the left while they are older than an hour; one out of *)
(* order waits for those before it.                                        *)
Prune(w, now) ==
  LET first == SelectInSeq(w, LAMBDA e : e.at + Hour >= now)
  IN IF first = 0 THEN <<>> ELSE SubSeq(w, first, Len(w))

Total(s) ==
  LET sum[n \in 0 .. Len(s)] == IF n = 0 THEN 0 ELSE sum[n - 1] + s[n]
  IN sum[Len(s)]

Used(w) == Total([i \in 1 .. Len(w) |-> w[i].tokens])

----------------------------------------------------------------------------
Idle == [step |-> "idle", guard |-> 0, image |-> FALSE, at |-> 0, used |-> 0, tokens |-> 0]
Outcomes == {"default", "image", "configuration_error", "budget_exceeded"}

TypeOK ==
  /\ clock \in 0 .. MaxTime
  /\ singleton \in 0 .. Len(windows)
  /\ \A g \in DOMAIN windows : Used(windows[g]) <= Cap
  /\ \A c \in Threads :
       /\ call[c].step \in {"idle", "making", "made", "reading", "estimating", "consuming"}
                           \cup Outcomes
       /\ call[c].guard \in 0 .. Len(windows) /\ call[c].at \in 0 .. MaxTime

Init ==
  /\ clock = 0
  /\ windows = <<>> /\ singleton = 0
  /\ call = [c \in Threads |-> Idle]
  /\ granted = <<>>

At(c, step) == call[c].step = step
Over(c, outcome) == call' = [call EXCEPT ![c] = [Idle EXCEPT !.step = outcome]]

----------------------------------------------------------------------------
(* get_openai_hourly_budget_guard: the test and the assignment are apart.  *)

BeginRoute(c, q) ==
  /\ call[c].step \in {"idle"} \cup Outcomes
  /\ call' = [call EXCEPT ![c] =
       [Idle EXCEPT !.step = IF singleton = 0 THEN "making" ELSE "made",
                    !.image = extract_image_generation_intent(q)]]
  /\ UNCHANGED <<clock, windows, singleton, granted>>

MakeGuard(c) ==
  /\ At(c, "making")
  /\ windows' = Append(windows, <<>>)
  /\ granted' = Append(granted, [t \in 0 .. MaxTime |-> 0])
  /\ singleton' = Len(windows')
  /\ call' = [call EXCEPT ![c].step = "made"]
  /\ UNCHANGED clock

(* The guard is taken, and the time for its usage.                         *)
TakeGuard(c) ==
  /\ At(c, "made")
  /\ call' = [call EXCEPT ![c].step = "reading", ![c].guard = singleton, ![c].at = clock]
  /\ UNCHANGED <<clock, windows, singleton, granted>>

(* Under the lock, and back in the routing: no image, no key, or a call.   *)
usage_in_window(c) ==
  /\ At(c, "reading")
  /\ LET g == call[c].guard
         kept == Prune(windows[g], call[c].at)
     IN /\ windows' = [windows EXCEPT ![g] = kept]
        /\ IF ~call[c].image THEN Over(c, "default")
           ELSE IF ~ImageKeySet THEN Over(c, "configuration_error")
           ELSE call' = [call EXCEPT ![c].used = Used(kept), ![c].step = "estimating"]
  /\ UNCHANGED <<clock, singleton, granted>>

(* The estimate, and the time of the reservation, before the lock.         *)
Estimate(c, tokens) ==
  /\ At(c, "estimating")
  /\ IF Cap = 0 THEN Over(c, "budget_exceeded")
     ELSE call' = [call EXCEPT ![c].step = "consuming", ![c].tokens = tokens, ![c].at = clock]
  /\ UNCHANGED <<clock, windows, singleton, granted>>

(* A mutant: what was used is what usage_in_window said.                   *)
try_consume_unlocked(c) ==
  /\ At(c, "consuming")
  /\ LET g == call[c].guard
         kept == Prune(windows[g], call[c].at)
         fits == call[c].used + call[c].tokens <= Cap
     IN /\ windows' = [windows EXCEPT ![g] =
             IF fits THEN Append(kept, [at |-> call[c].at, tokens |-> call[c].tokens]) ELSE kept]
        /\ granted' = IF fits THEN [granted EXCEPT ![g][clock] = @ + call[c].tokens] ELSE granted
        /\ Over(c, IF fits THEN "image" ELSE "budget_exceeded")
  /\ UNCHANGED <<clock, singleton>>

try_consume(c) ==
  /\ At(c, "consuming")
  /\ LET g == call[c].guard
         kept == Prune(windows[g], call[c].at)
         fits == Used(kept) + call[c].tokens <= Cap
     IN /\ windows' = [windows EXCEPT ![g] =
             IF fits THEN Append(kept, [at |-> call[c].at, tokens |-> call[c].tokens]) ELSE kept]
        /\ granted' = IF fits THEN [granted EXCEPT ![g][clock] = @ + call[c].tokens] ELSE granted
        /\ Over(c, IF fits THEN "image" ELSE "budget_exceeded")
  /\ UNCHANGED <<clock, singleton>>

----------------------------------------------------------------------------
(* Time passes, but not more than Delay between a time taken and its lock. *)
Tick ==
  /\ clock < MaxTime
  /\ \A c \in Threads : call[c].step \in {"reading", "consuming"} => clock < call[c].at + Delay
  /\ clock' = clock + 1
  /\ UNCHANGED <<windows, singleton, call, granted>>

Next ==
  \/ \E c \in Threads :
       \/ \E q \in Requests : BeginRoute(c, q)
       \/ MakeGuard(c) \/ TakeGuard(c) \/ usage_in_window(c)
       \/ \E tokens \in Estimates : Estimate(c, tokens)
       \/ try_consume(c)
  \/ Tick

Spec == Init /\ [][Next]_vars

----------------------------------------------------------------------------
(* Properties.                                                             *)

Between(g, first, last) ==
  Total([i \in 1 .. (last + 1 - first) |-> granted[g][first + i - 1]])

Minus(a, b) == IF a < b THEN 0 ELSE a - b

(* In no stretch of an hour, less the time a caller may wait for the lock, *)
(* does the guard of a process grant more than the cap: two runs that ask  *)
(* at once cannot both have the last tokens, and a time taken before       *)
(* another caller's is entered after it without making room too early.     *)
WithinCap ==
  singleton # 0 =>
    \A t \in 0 .. MaxTime : Between(singleton, Minus(t, Hour - Delay), t) <= Cap

(* A call is denied only where the hour before it, with the wait, really   *)
(* is full: nothing denied, and nothing left over, counts against the next.*)
DeniedOnlyWhenFull ==
  [][\A c \in Threads :
       At(c, "consuming") /\ call'[c].step = "budget_exceeded" =>
         Between(call[c].guard, Minus(clock, Hour + Delay), clock) + call[c].tokens > Cap]_vars
=============================================================================
