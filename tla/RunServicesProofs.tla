-------------------------- MODULE RunServicesProofs ------------------------
(***************************************************************************)
(* Proofs about RunServices: of the cross-run memory for every set of      *)
(* runs, operators and profiles; of the image agent's hourly budget for    *)
(* every set of callers, every cap, window and delay; and of the           *)
(* repository for every set of clients, every number of attempts and any   *)
(* number of records and versions: that what is saved stays, and that its  *)
(* two implementations answer every read alike.                            *)
(***************************************************************************)
EXTENDS RunServices, WellFoundedInduction, SequenceTheorems, FiniteSetTheorems,
        FunctionTheorems, TLAPS

----------------------------------------------------------------------------
(* The memory: which modes steer a run.                                    *)

RunFields == {"step", "profile", "static", "taste", "heard", "mode", "bias", "was",
              "plans", "status"}

(* The variables are functions, whatever their values.                     *)
Shape ==
  /\ memory = [k \in Keys |-> memory[k]]
  /\ run = [r \in Runs |-> run[r]]
  /\ \A r \in Runs : DOMAIN run[r] = RunFields /\ run[r] = [f \in RunFields |-> run[r][f]]
  /\ desk = [d \in Desks |-> desk[d]]

(* What is remembered as a mode to build in.                               *)
Told(row) == row # None => row.mode \in vouched

MemoryTold == Told(memory["likely_experience_mode"]) /\ Told(memory["preferred_experience_mode"])

(* What a run has loaded was vouched for then, and is still.               *)
RunTold ==
  \A r \in Runs :
    /\ Told(run[r].taste.operator) /\ Told(run[r].taste.favored)
    /\ run[r].bias \in vouched \cup {None}
    /\ run[r].step \in {"approved", "published"} => run[r].mode \in vouched

(* An operator's request is about a run that was approved.                 *)
DeskTold ==
  \A d \in Desks : desk[d].step \in {"approving", "publishing"} =>
    desk[d].of \in Runs /\ run[desk[d].of].step \in {"approved", "published"}

IInv == Shape /\ MemoryTold /\ RunTold /\ DeskTold

LEMMA Start == Init => IInv
<1> SUFFICES ASSUME Init PROVE IInv
  OBVIOUS
<1>1. PICK n \in Earlier, profile \in Profiles, tried \in Authored, known \in BOOLEAN :
        memory = [Left(profile, n, tried) EXCEPT
                     !["likely_experience_mode"] = IF known THEN @ ELSE None,
                     !["visual_style_hints"] = IF known THEN @ ELSE None]
  BY DEF Init
<1>2. memory = [k \in Keys |-> memory[k]] /\ memory["preferred_experience_mode"] = None
  BY <1>1 DEF Left, Keys
<1>3. Shape
  BY <1>2 DEF Init, Shape, RunFields, Idle
<1>4. MemoryTold
  BY <1>2 DEF Init, MemoryTold, Told
<1>5. RunTold
  BY DEF Init, RunTold, Told, NoTaste
<1>6. DeskTold
  BY DEF Init, DeskTold, Idle
<1>7. QED
  BY <1>3, <1>4, <1>5, <1>6 DEF IInv

(* A bias is what one of the two remembered modes says.                    *)
LEMMA BiasIsTold ==
  ASSUME NEW profile, NEW taste, Told(taste.operator), Told(taste.favored)
  PROVE  memory_bias_for_experience_mode(profile, taste) \in vouched \cup {None}
BY DEF memory_bias_for_experience_mode, Told

(* What is loaded is what the rows say.                                    *)
LEMMA ProfileIsTold ==
  ASSUME MemoryTold
  PROVE  LET taste == build_taste_profile(memory)
         IN Told(taste.operator) /\ Told(taste.favored)
BY DEF build_taste_profile, MemoryTold, Told

(* One field of one run changes, or several.                               *)
LEMMA RunKeepsItsFields ==
  ASSUME Shape, NEW r \in Runs, NEW rec,
         DOMAIN rec = RunFields, rec = [f \in RunFields |-> rec[f]],
         run' = [run EXCEPT ![r] = rec]
  PROVE  /\ run' = [q \in Runs |-> run'[q]]
         /\ \A q \in Runs : DOMAIN run'[q] = RunFields /\ run'[q] = [f \in RunFields |-> run'[q][f]]
         /\ run'[r] = rec /\ \A q \in Runs \ {r} : run'[q] = run[q]
BY DEF Shape

(* A step of a run, as the invariant sees it.                              *)
LEMMA RunMoves ==
  ASSUME IInv, NEW r \in Runs, NEW rec,
         DOMAIN rec = RunFields, rec = [f \in RunFields |-> rec[f]],
         run' = [run EXCEPT ![r] = rec], desk' = desk,
         vouched \subseteq vouched', memory' = [k \in Keys |-> memory'[k]], MemoryTold',
         Told(rec.taste.operator), Told(rec.taste.favored), rec.bias \in vouched \cup {None},
         rec.step \in {"approved", "published"} =>
           run[r].step \in {"approved", "published"} /\ rec.mode = run[r].mode,
         run[r].step \in {"approved", "published"} => rec.step \in {"approved", "published"}
  PROVE  IInv'
<1>1. /\ run' = [q \in Runs |-> run'[q]]
      /\ \A q \in Runs : DOMAIN run'[q] = RunFields /\ run'[q] = [f \in RunFields |-> run'[q][f]]
      /\ run'[r] = rec /\ \A q \in Runs \ {r} : run'[q] = run[q]
  BY RunKeepsItsFields DEF IInv
<1>2. Shape'
  BY <1>1 DEF IInv, Shape
<1>3. RunTold'
  <2> SUFFICES ASSUME NEW q \in Runs
               PROVE  /\ Told(run[q].taste.operator)' /\ Told(run[q].taste.favored)'
                      /\ run'[q].bias \in vouched' \cup {None}
                      /\ run'[q].step \in {"approved", "published"} => run'[q].mode \in vouched'
    BY DEF RunTold, Told
  <2>1. CASE q = r
    BY <1>1, <2>1 DEF IInv, RunTold, Told
  <2>2. CASE q # r
    BY <1>1, <2>2 DEF IInv, RunTold, Told
  <2>3. QED
    BY <2>1, <2>2
<1>4. DeskTold'
  BY <1>1 DEF IInv, DeskTold
<1>5. QED
  BY <1>2, <1>3, <1>4 DEF IInv

(* Where no remembered mode changes, what was told is told.                *)
LEMMA SameMemory ==
  ASSUME IInv, vouched \subseteq vouched', memory' = memory
  PROVE  MemoryTold' /\ memory' = [k \in Keys |-> memory'[k]]
BY DEF IInv, Shape, MemoryTold, Told

LEMMA Loads ==
  ASSUME IInv, NEW r \in Runs, load_cross_run_memory_context(r)
  PROVE  IInv'
<1> DEFINE rec == [run[r] EXCEPT !.step = "loaded", !.taste = build_taste_profile(memory),
                     !.heard = StillHeard]
<1>1. run' = [run EXCEPT ![r] = rec] /\ UNCHANGED <<memory, desk, vouched>> /\ run[r].step = "new"
  BY DEF load_cross_run_memory_context, IInv, Shape, RunFields, At
<1>2. DOMAIN rec = RunFields /\ rec = [f \in RunFields |-> rec[f]]
  BY DEF IInv, Shape, RunFields
<1>3. /\ rec.step = "loaded" /\ rec.bias = run[r].bias /\ rec.mode = run[r].mode
      /\ rec.taste = build_taste_profile(memory)
  BY DEF IInv, Shape, RunFields
<1>4. Told(rec.taste.operator) /\ Told(rec.taste.favored) /\ rec.bias \in vouched \cup {None}
  BY <1>3, ProfileIsTold DEF IInv, RunTold
<1>5. MemoryTold' /\ memory' = [k \in Keys |-> memory'[k]]
  BY <1>1, SameMemory
<1> HIDE DEF rec
<1>6. QED
  BY <1>1, <1>2, <1>3, <1>4, <1>5, RunMoves

LEMMA ReadsLikely ==
  ASSUME IInv, NEW r \in Runs, ReadLikely(r)
  PROVE  IInv'
<1> DEFINE sure == Sure(run[r].profile)
           rec == [run[r] EXCEPT !.step = IF sure THEN "deriving" ELSE "planning",
                     !.was = IF sure THEN memory["likely_experience_mode"] ELSE None]
<1>1. /\ run' = [run EXCEPT ![r] = rec] /\ run[r].step = "loaded"
      /\ UNCHANGED <<memory, desk, vouched>>
  BY DEF ReadLikely, IInv, Shape, RunFields, At
<1>2. DOMAIN rec = RunFields /\ rec = [f \in RunFields |-> rec[f]]
  BY DEF IInv, Shape, RunFields
<1>3. /\ rec.step \in {"deriving", "planning"} /\ rec.bias = run[r].bias
      /\ rec.mode = run[r].mode /\ rec.taste = run[r].taste
  BY DEF IInv, Shape, RunFields
<1>4. Told(rec.taste.operator) /\ Told(rec.taste.favored) /\ rec.bias \in vouched \cup {None}
  BY <1>3 DEF IInv, RunTold
<1>5. MemoryTold' /\ memory' = [k \in Keys |-> memory'[k]]
  BY <1>1, SameMemory
<1> HIDE DEF rec
<1>6. QED
  BY <1>1, <1>2, <1>3, <1>4, <1>5, RunMoves

LEMMA Derives ==
  ASSUME IInv, NEW r \in Runs, maybe_write_identity_derived_memory(r)
  PROVE  IInv'
<1> DEFINE rec == [run[r] EXCEPT !.step = "hinting", !.was = memory["visual_style_hints"]]
<1>1. /\ run' = [run EXCEPT ![r] = rec] /\ desk' = desk /\ run[r].step = "deriving"
      /\ vouched \subseteq vouched'
  BY DEF maybe_write_identity_derived_memory, IInv, Shape, RunFields, At
<1>2. DOMAIN rec = RunFields /\ rec = [f \in RunFields |-> rec[f]]
  BY DEF IInv, Shape, RunFields
<1>3. /\ rec.step = "hinting" /\ rec.bias = run[r].bias /\ rec.mode = run[r].mode
      /\ rec.taste = run[r].taste
  BY DEF IInv, Shape, RunFields
<1>4. Told(rec.taste.operator) /\ Told(rec.taste.favored) /\ rec.bias \in vouched \cup {None}
  BY <1>3 DEF IInv, RunTold
<1>5. PICK mode, strength :
        /\ memory' = [memory EXCEPT !["likely_experience_mode"] =
                        [mode |-> mode, at |-> now, count |-> 0, strength |-> strength]]
        /\ vouched' = vouched \cup {mode}
  BY DEF maybe_write_identity_derived_memory
<1>6. MemoryTold' /\ memory' = [k \in Keys |-> memory'[k]]
  BY <1>5 DEF IInv, Shape, MemoryTold, Told, Keys
<1> HIDE DEF rec
<1>7. QED
  BY <1>1, <1>2, <1>3, <1>4, <1>6, RunMoves

LEMMA Hints ==
  ASSUME IInv, NEW r \in Runs, WriteHints(r)
  PROVE  IInv'
<1> DEFINE rec == [run[r] EXCEPT !.step = "planning", !.was = None]
<1>1. /\ run' = [run EXCEPT ![r] = rec] /\ UNCHANGED <<desk, vouched>> /\ run[r].step = "hinting"
  BY DEF WriteHints, IInv, Shape, RunFields, At
<1>2. DOMAIN rec = RunFields /\ rec = [f \in RunFields |-> rec[f]]
  BY DEF IInv, Shape, RunFields
<1>3. /\ rec.step = "planning" /\ rec.bias = run[r].bias /\ rec.mode = run[r].mode
      /\ rec.taste = run[r].taste
  BY DEF IInv, Shape, RunFields
<1>4. Told(rec.taste.operator) /\ Told(rec.taste.favored) /\ rec.bias \in vouched \cup {None}
  BY <1>3 DEF IInv, RunTold
<1>5. PICK row : memory' = [memory EXCEPT !["visual_style_hints"] = row]
  BY DEF WriteHints
<1>6. MemoryTold' /\ memory' = [k \in Keys |-> memory'[k]]
  BY <1>1, <1>5 DEF IInv, Shape, MemoryTold, Told, Keys
<1> HIDE DEF rec
<1>7. QED
  BY <1>1, <1>2, <1>3, <1>4, <1>6, RunMoves

LEMMA Plans ==
  ASSUME IInv, NEW r \in Runs, NEW authored, NEW archetype, Plan(r, authored, archetype)
  PROVE  IInv'
<1>1. PICK biased, mode :
        /\ run' = [run EXCEPT ![r].step = "built", ![r].plans = @ + 1,
                     ![r].bias = IF biased
                                 THEN memory_bias_for_experience_mode(run[r].profile, run[r].taste)
                                 ELSE None,
                     ![r].mode = mode]
        /\ UNCHANGED <<memory, desk, vouched>> /\ run[r].step \in {"planning", "built"}
  BY DEF Plan, At
<1> DEFINE rec == [run[r] EXCEPT !.step = "built", !.plans = @ + 1,
                     !.bias = IF biased
                              THEN memory_bias_for_experience_mode(run[r].profile, run[r].taste)
                              ELSE None,
                     !.mode = mode]
<1>2. run' = [run EXCEPT ![r] = rec]
  BY <1>1 DEF IInv, Shape, RunFields
<1>3. DOMAIN rec = RunFields /\ rec = [f \in RunFields |-> rec[f]]
  BY DEF IInv, Shape, RunFields
<1>4. Told(run[r].taste.operator) /\ Told(run[r].taste.favored)
  BY DEF IInv, RunTold
<1>5. memory_bias_for_experience_mode(run[r].profile, run[r].taste) \in vouched \cup {None}
  BY <1>4, BiasIsTold
<1>6. rec.step = "built" /\ rec.taste = run[r].taste /\ rec.bias \in vouched \cup {None}
  BY <1>5 DEF IInv, Shape, RunFields
<1>7. MemoryTold' /\ memory' = [k \in Keys |-> memory'[k]]
  BY <1>1, SameMemory
<1> HIDE DEF rec
<1>8. QED
  BY <1>1, <1>2, <1>3, <1>4, <1>6, <1>7, RunMoves

LEMMA ReadsOutcome ==
  ASSUME IInv, NEW r \in Runs, NEW status, ReadOutcome(r, status)
  PROVE  IInv'
<1> DEFINE rec == [run[r] EXCEPT !.step = "merging", !.status = status,
                     !.was = memory["aggregate_run_outcome"]]
<1>1. run' = [run EXCEPT ![r] = rec] /\ UNCHANGED <<memory, desk, vouched>> /\ run[r].step = "built"
  BY DEF ReadOutcome, IInv, Shape, RunFields, At
<1>2. DOMAIN rec = RunFields /\ rec = [f \in RunFields |-> rec[f]]
  BY DEF IInv, Shape, RunFields
<1>3. /\ rec.step = "merging" /\ rec.bias = run[r].bias /\ rec.mode = run[r].mode
      /\ rec.taste = run[r].taste
  BY DEF IInv, Shape, RunFields
<1>4. Told(rec.taste.operator) /\ Told(rec.taste.favored) /\ rec.bias \in vouched \cup {None}
  BY <1>3 DEF IInv, RunTold
<1>5. MemoryTold' /\ memory' = [k \in Keys |-> memory'[k]]
  BY <1>1, SameMemory
<1> HIDE DEF rec
<1>6. QED
  BY <1>1, <1>2, <1>3, <1>4, <1>5, RunMoves

LEMMA Merges ==
  ASSUME IInv, NEW r \in Runs, record_run_outcome_memory(r)
  PROVE  IInv'
<1> DEFINE failed == run[r].status \in {"fail", "blocked"}
           rec == [run[r] EXCEPT !.was = None, !.status = "unknown",
                                 !.step = IF failed THEN "unstaged" ELSE "review_ready"]
<1>1. /\ run' = [run EXCEPT ![r] = rec] /\ UNCHANGED <<desk, vouched>> /\ run[r].step = "merging"
  BY DEF record_run_outcome_memory, IInv, Shape, RunFields, At
<1>2. DOMAIN rec = RunFields /\ rec = [f \in RunFields |-> rec[f]]
  BY DEF IInv, Shape, RunFields
<1>3. /\ rec.step \in {"unstaged", "review_ready"} /\ rec.bias = run[r].bias
      /\ rec.mode = run[r].mode /\ rec.taste = run[r].taste
  BY DEF IInv, Shape, RunFields
<1>4. Told(rec.taste.operator) /\ Told(rec.taste.favored) /\ rec.bias \in vouched \cup {None}
  BY <1>3 DEF IInv, RunTold
<1>5. PICK row : memory' = [memory EXCEPT !["aggregate_run_outcome"] = row]
  BY DEF record_run_outcome_memory
<1>6. MemoryTold' /\ memory' = [k \in Keys |-> memory'[k]]
  BY <1>1, <1>5 DEF IInv, Shape, MemoryTold, Told, Keys
<1> HIDE DEF rec
<1>7. QED
  BY <1>1, <1>2, <1>3, <1>4, <1>6, RunMoves

(* An operator's request, as it reads: the run is approved, and its mode   *)
(* vouched for.                                                            *)
LEMMA Requested ==
  ASSUME IInv, NEW d \in Desks, NEW r \in Runs, Approve(d, r) \/ Publish(d, r)
  PROVE  IInv'
<1>1. PICK step \in {"approved", "published"} :
        /\ run' = [run EXCEPT ![r].step = step]
        /\ vouched' = vouched \cup {run[r].mode} \/ (vouched' = vouched /\ run[r].step = "approved")
        /\ memory' = memory
  BY DEF Approve, Publish, At
<1>2. PICK what : desk' = [desk EXCEPT ![d] = what] /\ what.of = r
  <2>1. PICK s : ReadPreference(d, r, s)
    BY DEF Approve, Publish
  <2> DEFINE w == [step |-> s, of |-> r, was |-> memory["preferred_experience_mode"]]
  <2>2. desk' = [desk EXCEPT ![d] = w] /\ w.of = r
    BY <2>1 DEF ReadPreference
  <2> HIDE DEF w
  <2>3. QED
    BY <2>2
<1> DEFINE rec == [run[r] EXCEPT !.step = step]
<1>3. run' = [run EXCEPT ![r] = rec]
  BY <1>1 DEF IInv, Shape, RunFields
<1>4. DOMAIN rec = RunFields /\ rec = [f \in RunFields |-> rec[f]]
  BY DEF IInv, Shape, RunFields
<1>5. /\ rec.step = step /\ rec.bias = run[r].bias /\ rec.mode = run[r].mode
      /\ rec.taste = run[r].taste
  BY DEF IInv, Shape, RunFields
<1> HIDE DEF rec
<1>6. /\ run' = [q \in Runs |-> run'[q]]
      /\ \A q \in Runs : DOMAIN run'[q] = RunFields /\ run'[q] = [f \in RunFields |-> run'[q][f]]
      /\ run'[r] = rec /\ \A q \in Runs \ {r} : run'[q] = run[q]
  BY <1>3, <1>4, RunKeepsItsFields DEF IInv
<1>7. vouched \subseteq vouched' /\ run[r].mode \in vouched'
  BY <1>1 DEF IInv, RunTold
<1>8. MemoryTold' /\ Shape'
  BY <1>1, <1>2, <1>6, <1>7, SameMemory DEF IInv, Shape
<1>9. RunTold'
  <2> SUFFICES ASSUME NEW q \in Runs
               PROVE  /\ Told(run[q].taste.operator)' /\ Told(run[q].taste.favored)'
                      /\ run'[q].bias \in vouched' \cup {None}
                      /\ run'[q].step \in {"approved", "published"} => run'[q].mode \in vouched'
    BY DEF RunTold, Told
  <2>1. CASE q = r
    BY <1>5, <1>6, <1>7, <2>1 DEF IInv, RunTold, Told
  <2>2. CASE q # r
    BY <1>6, <1>7, <2>2 DEF IInv, RunTold, Told
  <2>3. QED
    BY <2>1, <2>2
<1>10. DeskTold'
  BY <1>1, <1>2, <1>5, <1>6 DEF IInv, Shape, DeskTold
<1>11. QED
  BY <1>8, <1>9, <1>10 DEF IInv

(* The preferred mode is the one of a run that was approved.               *)
LEMMA Prefers ==
  ASSUME IInv, NEW d \in Desks,
         \/ record_operator_memory_from_staging_approval(d)
         \/ record_operator_memory_from_publication(d)
  PROVE  IInv'
<1>1. desk[d].step \in {"approving", "publishing"} /\ \E floor, step : WritePreference(d, floor, step)
  BY DEF record_operator_memory_from_staging_approval, record_operator_memory_from_publication
<1>2. PICK strength :
        /\ memory' = [memory EXCEPT !["preferred_experience_mode"] =
                        [mode |-> run[desk[d].of].mode, at |-> now, count |-> 0,
                         strength |-> strength]]
        /\ desk' = [desk EXCEPT ![d] = Idle] /\ UNCHANGED <<run, vouched>>
  BY <1>1 DEF WritePreference
<1>3. run[desk[d].of].mode \in vouched
  BY <1>1 DEF IInv, DeskTold, RunTold
<1>4. MemoryTold' /\ memory' = [k \in Keys |-> memory'[k]]
  BY <1>2, <1>3 DEF IInv, Shape, MemoryTold, Told, Keys
<1>5. Shape'
  BY <1>2, <1>4 DEF IInv, Shape
<1>6. RunTold'
  BY <1>2 DEF IInv, RunTold, Told
<1>7. DeskTold'
  BY <1>2 DEF IInv, Shape, DeskTold, Idle
<1>8. QED
  BY <1>4, <1>5, <1>6, <1>7 DEF IInv

LEMMA Step == IInv /\ [Next]_vars => IInv'
<1> SUFFICES ASSUME IInv, [Next]_vars PROVE IInv'
  OBVIOUS
<1>1. CASE \E r \in Runs :
             \/ load_cross_run_memory_context(r) \/ ReadLikely(r)
             \/ maybe_write_identity_derived_memory(r) \/ WriteHints(r)
             \/ \E authored \in Authored \cup {None}, archetype \in Archetypes \cup {None} :
                  Plan(r, authored, archetype)
             \/ \E status \in {"pass", "partial", "fail", "blocked"} : ReadOutcome(r, status)
             \/ record_run_outcome_memory(r)
  BY <1>1, Loads, ReadsLikely, Derives, Hints, Plans, ReadsOutcome, Merges
<1>2. CASE \E d \in Desks, r \in Runs : Approve(d, r) \/ Publish(d, r)
  BY <1>2, Requested
<1>3. CASE \E d \in Desks : \/ record_operator_memory_from_staging_approval(d)
                           \/ record_operator_memory_from_publication(d)
  BY <1>3, Prefers
<1>4. CASE TimePasses \/ UNCHANGED vars
  BY <1>4 DEF TimePasses, vars, IInv, Shape, MemoryTold, RunTold, DeskTold, Told
<1>5. QED
  BY <1>1, <1>2, <1>3, <1>4 DEF Next

(* No mode steers a run's planner unless an identity derived it or an      *)
(* operator approved a build in it: whatever loads, merges, approvals and  *)
(* publications interleave (memory/ops.py).                                *)
THEOREM OnlyVouchedModesSteer == Spec => []UnreviewedNeverSteers
<1>1. IInv => UnreviewedNeverSteers
  BY DEF IInv, RunTold, UnreviewedNeverSteers
<1>2. QED
  BY Start, Step, <1>1, PTL DEF Spec

----------------------------------------------------------------------------
(* What an operator says is heard.                                         *)

ModeOf(row) == row # None => row.mode \in Modes \cup {None}

(* The modes that are remembered, planned and loaded are modes, and the    *)
(* strengths an operator's preference starts from are strengths.           *)
ModesAreModes ==
  /\ now \in 0 .. MaxAge
  /\ ModeOf(memory["likely_experience_mode"]) /\ ModeOf(memory["preferred_experience_mode"])
  /\ memory["preferred_experience_mode"] # None =>
       memory["preferred_experience_mode"].strength \in 0 .. 100
  /\ \A d \in Desks : desk[d].was # None => desk[d].was.strength \in 0 .. 100
  /\ \A r \in Runs : /\ run[r].mode \in Modes \cup {None}
                     /\ ModeOf(run[r].taste.operator) /\ ModeOf(run[r].taste.favored)

(* The operator's last word is what the preference row says, at least as   *)
(* strongly.                                                               *)
WordIsKept ==
  word # None =>
    LET row == memory["preferred_experience_mode"]
    IN /\ row # None /\ row.mode = word.mode /\ row.at = word.at
       /\ row.strength \in word.least .. 100 /\ word.least \in {55, 75} /\ word.at \in 0 .. now

(* What a run heard it has loaded, strong enough to steer.                 *)
HeardIsLoaded ==
  \A r \in Runs : run[r].heard # None =>
    LET said == run[r].taste.operator
    IN said # None /\ said.mode = run[r].heard /\ said.strength >= 45

HeardInv == IInv /\ ModesAreModes /\ WordIsKept /\ HeardIsLoaded

LEMMA ConfidenceIsANumber == ASSUME NEW profile PROVE Confidence(profile) \in Nat
BY DEF Confidence, derive_experience_mode_with_confidence

LEMMA DerivedIsAMode ==
  ASSUME NEW profile, NEW archetype
  PROVE  derive_experience_mode_with_confidence(profile, archetype).mode \in Modes
BY DEF derive_experience_mode_with_confidence, Modes, WEBGL_EXPERIENCE_MODES

LEMMA ClampIsAStrength == ASSUME NEW x \in Int PROVE clamp_strength(x) \in 0 .. 100
BY DEF clamp_strength

(* What is left of a strength is one, and more of a stronger one.          *)
LEMMA FadedIs ==
  ASSUME NEW s \in 0 .. 100, NEW age \in 0 .. MaxAge
  PROVE  /\ Faded(s, age) \in 0 .. 100 /\ clamp_strength(Faded(s, age)) = Faded(s, age)
         /\ \A least \in 0 .. s : Faded(least, age) \in 0 .. Faded(s, age)
<1>1. PICK f \in 0 .. 1000 : f = Fade[age]
  <2>1. Fade \in [0 .. MaxAge -> 0 .. 1000]
    BY MemoryAssumption
  <2>2. Fade[age] \in 0 .. 1000
    BY <2>1
  <2>3. QED
    BY <2>2
<1>2. ASSUME NEW x \in 0 .. 100 PROVE x * f \in Nat /\ x * f <= 100 * 1000
  <2>1. PICK n \in Nat : n = x * f
    OBVIOUS
  <2>2. x * f <= 100 * f /\ 100 * f <= 100 * 1000
    OBVIOUS
  <2>3. QED
    BY <2>1, <2>2
<1>3. ASSUME NEW x \in 0 .. s PROVE x * f <= s * f
  OBVIOUS
<1>4. ASSUME NEW a \in Nat, NEW b \in Nat, a <= b PROVE a \div 1000 <= b \div 1000
  BY <1>4
<1>5. ASSUME NEW x \in 0 .. 100 PROVE Faded(x, age) = (x * f) \div 1000 /\ Faded(x, age) \in 0 .. 100
  <2>1. PICK n \in Nat : n = x * f /\ n <= 100000
    BY <1>2
  <2>2. n \div 1000 \in 0 .. 100
    BY <2>1
  <2>3. QED
    BY <1>1, <2>1, <2>2 DEF Faded
<1>6. ASSUME NEW least \in 0 .. s PROVE Faded(least, age) \in 0 .. Faded(s, age)
  <2>1. least \in 0 .. 100
    OBVIOUS
  <2>2. PICK a \in Nat, b \in Nat : a = least * f /\ b = s * f /\ a <= b
    BY <1>2, <1>3, <2>1
  <2>3. Faded(least, age) <= Faded(s, age)
    <3>1. Faded(least, age) = a \div 1000
      BY <1>5, <2>1, <2>2
    <3>2. Faded(s, age) = b \div 1000
      BY <1>5, <2>2
    <3>3. a \div 1000 <= b \div 1000
      BY <1>4, <2>2
    <3>4. QED
      BY <3>1, <3>2, <3>3
  <2>4. QED
    BY <1>5, <2>1, <2>3
<1>7. ASSUME NEW x \in 0 .. 100 PROVE clamp_strength(x) = x
  BY DEF clamp_strength
<1>8. Faded(s, age) \in 0 .. 100
  BY <1>5
<1>9. QED
  BY <1>6, <1>7, <1>8

LEMMA HeardStart == Init => HeardInv
<1> SUFFICES ASSUME Init PROVE HeardInv
  OBVIOUS
<1>1. PICK n \in Earlier, profile \in Profiles, tried \in Authored, known \in BOOLEAN :
        memory = [Left(profile, n, tried) EXCEPT
                     !["likely_experience_mode"] = IF known THEN @ ELSE None,
                     !["visual_style_hints"] = IF known THEN @ ELSE None]
  BY DEF Init
<1> DEFINE mode == derive_experience_mode_with_confidence(profile, None).mode
<1>2. memory["preferred_experience_mode"] = None
      /\ ModeOf(memory["likely_experience_mode"])
  <2>1. mode \in Modes
    BY DerivedIsAMode
  <2> HIDE DEF mode
  <2>2. /\ memory["preferred_experience_mode"] = None
        /\ memory["likely_experience_mode"] # None => memory["likely_experience_mode"].mode = mode
    BY <1>1 DEF Left, Keys, mode
  <2>3. QED
    BY <2>1, <2>2 DEF ModeOf
<1>3. ModesAreModes
  <2>1. now \in 0 .. MaxAge
    BY MemoryAssumption DEF Init
  <2>2. \A d \in Desks : desk[d].was = None
    BY DEF Init, Idle
  <2>3. ASSUME NEW r \in Runs
        PROVE  /\ run[r].mode \in Modes \cup {None}
               /\ ModeOf(run[r].taste.operator) /\ ModeOf(run[r].taste.favored)
    <3>1. run[r].mode = None /\ run[r].taste = NoTaste
      BY DEF Init
    <3>2. QED
      BY <3>1 DEF NoTaste, ModeOf
  <2>4. ModeOf(memory["preferred_experience_mode"])
    BY <1>2 DEF ModeOf
  <2>5. QED
    BY <1>2, <2>1, <2>2, <2>3, <2>4 DEF ModesAreModes
<1>4. WordIsKept /\ HeardIsLoaded
  BY DEF Init, WordIsKept, HeardIsLoaded
<1>5. QED
  BY <1>3, <1>4, Start DEF HeardInv

(* A step of a run that leaves the preference alone.                       *)
LEMMA HeardRunMoves ==
  ASSUME HeardInv, IInv', NEW r \in Runs, NEW rec,
         run' = [run EXCEPT ![r] = rec], now' = now, desk' = desk, word' = word,
         memory'["preferred_experience_mode"] = memory["preferred_experience_mode"],
         ModeOf(memory'["likely_experience_mode"]), rec.mode \in Modes \cup {None},
         ModeOf(rec.taste.operator), ModeOf(rec.taste.favored),
         rec.heard # None =>
           rec.taste.operator # None /\ rec.taste.operator.mode = rec.heard
           /\ rec.taste.operator.strength >= 45
  PROVE  HeardInv'
<1>1. run'[r] = rec /\ \A q \in Runs \ {r} : run'[q] = run[q]
  BY DEF HeardInv, IInv, Shape
<1>2. ModesAreModes'
  <2>1. ASSUME NEW q \in Runs
        PROVE  /\ run'[q].mode \in Modes \cup {None}
               /\ ModeOf(run'[q].taste.operator) /\ ModeOf(run'[q].taste.favored)
    <3>1. CASE q = r
      BY <3>1, <1>1
    <3>2. CASE q # r
      BY <3>2, <1>1 DEF HeardInv, ModesAreModes
    <3>3. QED
      BY <3>1, <3>2
  <2>2. QED
    BY <2>1 DEF HeardInv, ModesAreModes, ModeOf
<1>3. WordIsKept'
  BY DEF HeardInv, WordIsKept
<1>4. HeardIsLoaded'
  <2> SUFFICES ASSUME NEW q \in Runs, run'[q].heard # None
               PROVE  /\ run'[q].taste.operator # None
                      /\ run'[q].taste.operator.mode = run'[q].heard
                      /\ run'[q].taste.operator.strength >= 45
    BY DEF HeardIsLoaded
  <2>1. CASE q = r
    BY <2>1, <1>1
  <2>2. CASE q # r
    BY <2>2, <1>1 DEF HeardInv, HeardIsLoaded
  <2>3. QED
    BY <2>1, <2>2
<1>5. QED
  BY <1>2, <1>3, <1>4 DEF HeardInv

(* A run's step that changes neither what it loaded nor its mode.          *)
LEMMA HeardRunGoesOn ==
  ASSUME HeardInv, IInv', NEW r \in Runs, NEW rec,
         run' = [run EXCEPT ![r] = rec], now' = now, desk' = desk, word' = word,
         memory'["preferred_experience_mode"] = memory["preferred_experience_mode"],
         ModeOf(memory'["likely_experience_mode"]),
         rec.mode = run[r].mode, rec.taste = run[r].taste, rec.heard = run[r].heard
  PROVE  HeardInv'
<1>1. /\ rec.mode \in Modes \cup {None}
      /\ ModeOf(rec.taste.operator) /\ ModeOf(rec.taste.favored)
  BY DEF HeardInv, ModesAreModes
<1>2. rec.heard # None =>
        rec.taste.operator # None /\ rec.taste.operator.mode = rec.heard
        /\ rec.taste.operator.strength >= 45
  BY DEF HeardInv, HeardIsLoaded
<1>3. QED
  BY <1>1, <1>2, HeardRunMoves

LEMMA HeardLoads ==
  ASSUME HeardInv, IInv', NEW r \in Runs, load_cross_run_memory_context(r)
  PROVE  HeardInv'
<1> DEFINE heard == StillHeard
           taste == build_taste_profile(memory)
           rec == [run[r] EXCEPT !.step = "loaded", !.taste = taste, !.heard = heard]
           row == memory["preferred_experience_mode"]
<1>1. run' = [run EXCEPT ![r] = rec] /\ UNCHANGED <<now, memory, desk, word>>
  BY DEF load_cross_run_memory_context, HeardInv, IInv, Shape, RunFields
<1>2. ModeOf(taste.operator) /\ ModeOf(taste.favored)
  BY DEF build_taste_profile, HeardInv, ModesAreModes, ModeOf
<1>3. ASSUME heard # None
      PROVE  taste.operator # None /\ taste.operator.mode = heard /\ taste.operator.strength >= 45
  <2>1. /\ word # None /\ heard = word.mode /\ row # None /\ row.mode = heard
        /\ Faded(word.least, now - word.at) >= 45 /\ row.at = word.at
        /\ row.strength \in word.least .. 100 /\ word.least \in {55, 75}
        /\ word.at \in 0 .. now /\ now \in 0 .. MaxAge
    BY <1>3 DEF HeardInv, WordIsKept, ModesAreModes, StillHeard, Settings
  <2>2. effective_strength_at_read(row) \in 45 .. 100
    <3>1. PICK age \in 0 .. MaxAge : age = now - word.at /\ age = now - row.at
      <4>0. MaxAge \in Nat
        BY MemoryAssumption
      <4>1. PICK at \in 0 .. MaxAge : at = word.at /\ at = row.at /\ at <= now /\ now \in 0 .. MaxAge
        BY <2>1, <4>0
      <4>2. now - at \in 0 .. MaxAge
        BY <4>0, <4>1
      <4>3. QED
        BY <4>1, <4>2
    <3>2. row.strength \in 0 .. 100 /\ word.least \in 0 .. row.strength
      BY <2>1
    <3>3. /\ Faded(row.strength, age) \in 0 .. 100
          /\ clamp_strength(Faded(row.strength, age)) = Faded(row.strength, age)
          /\ Faded(word.least, age) \in 0 .. Faded(row.strength, age)
      BY <3>2, FadedIs
    <3>4. Faded(word.least, age) >= 45
      BY <2>1, <3>1
    <3>5. Faded(row.strength, age) \in 45 .. 100
      BY <3>3, <3>4
    <3>6. QED
      BY <3>1, <3>3, <3>5 DEF effective_strength_at_read
  <2> DEFINE said == [mode |-> row.mode, strength |-> effective_strength_at_read(row)]
  <2>3. taste.operator = said
    BY <2>1 DEF build_taste_profile
  <2>4. said \in [mode : Modes \cup {None}, strength : 0 .. 100]
    BY <2>1, <2>2 DEF HeardInv, ModesAreModes, ModeOf
  <2>5. said # None /\ said.mode = heard /\ said.strength >= 45
    <3>1. said # None
      BY <2>4, MemoryAssumption
    <3>2. said.mode = heard /\ said.strength = effective_strength_at_read(row)
      BY <2>1
    <3>3. QED
      BY <2>2, <3>1, <3>2
  <2> HIDE DEF said, taste, heard
  <2>6. QED
    BY <2>3, <2>5
<1>4. rec.mode = run[r].mode /\ rec.taste = taste /\ rec.heard = heard
  BY DEF HeardInv, IInv, Shape, RunFields
<1> HIDE DEF rec, taste, heard
<1>5. rec.mode \in Modes \cup {None} /\ ModeOf(memory'["likely_experience_mode"])
  BY <1>1, <1>4 DEF HeardInv, ModesAreModes
<1>6. QED
  BY <1>1, <1>2, <1>3, <1>4, <1>5, HeardRunMoves

LEMMA HeardReads ==
  ASSUME HeardInv, IInv', NEW r \in Runs,
         ReadLikely(r) \/ \E status : ReadOutcome(r, status)
  PROVE  HeardInv'
<1>1. PICK step, was, status :
        /\ run' = [run EXCEPT ![r] =
                     [run[r] EXCEPT !.step = step, !.was = was, !.status = status]]
        /\ UNCHANGED <<now, memory, desk, word>>
  <2>1. CASE ReadLikely(r)
    <3> DEFINE step == IF Sure(run[r].profile) THEN "deriving" ELSE "planning"
               was == IF Sure(run[r].profile) THEN memory["likely_experience_mode"] ELSE None
               status == run[r].status
    <3>1. /\ run' = [run EXCEPT ![r] =
                       [run[r] EXCEPT !.step = step, !.was = was, !.status = status]]
          /\ UNCHANGED <<now, memory, desk, word>>
      <4>1. /\ run' = [run EXCEPT ![r] = [run[r] EXCEPT !.step = step, !.was = was]]
            /\ UNCHANGED <<now, memory, desk, word>>
        BY <2>1 DEF ReadLikely, HeardInv, IInv, Shape, RunFields
      <4> HIDE DEF step, was
      <4>2. [run[r] EXCEPT !.step = step, !.was = was]
              = [run[r] EXCEPT !.step = step, !.was = was, !.status = status]
        BY DEF HeardInv, IInv, Shape, RunFields
      <4>3. QED
        BY <4>1, <4>2
    <3>2. QED
      BY <3>1
  <2>2. CASE \E status : ReadOutcome(r, status)
    <3>1. PICK status : ReadOutcome(r, status)
      BY <2>2
    <3> DEFINE was == memory["aggregate_run_outcome"]
    <3>2. /\ run' = [run EXCEPT ![r] =
                       [run[r] EXCEPT !.step = "merging", !.was = was, !.status = status]]
          /\ UNCHANGED <<now, memory, desk, word>>
      <4>1. /\ run' = [run EXCEPT ![r] =
                         [run[r] EXCEPT !.step = "merging", !.status = status, !.was = was]]
            /\ UNCHANGED <<now, memory, desk, word>>
        BY <3>1 DEF ReadOutcome, HeardInv, IInv, Shape, RunFields
      <4>2. [run[r] EXCEPT !.step = "merging", !.status = status, !.was = was]
              = [run[r] EXCEPT !.step = "merging", !.was = was, !.status = status]
        OBVIOUS
      <4>3. QED
        BY <4>1, <4>2
    <3>3. QED
      BY <3>2
  <2>3. QED
    BY <2>1, <2>2
<1> DEFINE rec == [run[r] EXCEPT !.step = step, !.was = was, !.status = status]
<1>2. run' = [run EXCEPT ![r] = rec]
  BY <1>1
<1>3. rec.mode = run[r].mode /\ rec.taste = run[r].taste /\ rec.heard = run[r].heard
  BY DEF HeardInv, IInv, Shape, RunFields
<1> HIDE DEF rec
<1>4. ModeOf(memory'["likely_experience_mode"])
  BY <1>1 DEF HeardInv, ModesAreModes
<1>5. QED
  BY <1>1, <1>2, <1>3, <1>4, HeardRunGoesOn

(* The rows of the identity, its hints and its runs' outcomes.             *)
LEMMA HeardWrites ==
  ASSUME HeardInv, IInv', NEW r \in Runs,
         \/ maybe_write_identity_derived_memory(r) \/ WriteHints(r)
         \/ record_run_outcome_memory(r)
  PROVE  HeardInv'
<1>1. PICK step, was :
        /\ \/ run' = [run EXCEPT ![r].step = step, ![r].was = was]
           \/ run' = [run EXCEPT ![r].was = was, ![r].status = "unknown", ![r].step = step]
        /\ UNCHANGED <<now, desk, word>>
  <2>1. CASE maybe_write_identity_derived_memory(r)
    BY <2>1 DEF maybe_write_identity_derived_memory
  <2>2. CASE WriteHints(r)
    BY <2>2 DEF WriteHints
  <2>3. CASE record_run_outcome_memory(r)
    <3> DEFINE step == IF run[r].status \in {"fail", "blocked"} THEN "unstaged"
                       ELSE "review_ready"
    <3>1. /\ run' = [run EXCEPT ![r].was = None, ![r].status = "unknown", ![r].step = step]
          /\ UNCHANGED <<now, desk, word>>
      BY <2>3 DEF record_run_outcome_memory
    <3>2. QED
      BY <3>1
  <2>4. QED
    BY <2>1, <2>2, <2>3
<1>2. /\ memory'["preferred_experience_mode"] = memory["preferred_experience_mode"]
      /\ ModeOf(memory'["likely_experience_mode"])
  <2>1. CASE maybe_write_identity_derived_memory(r)
    <3> DEFINE mode == derive_experience_mode_with_confidence(run[r].profile, None).mode
    <3>1. mode \in Modes
      BY DerivedIsAMode
    <3>2. PICK row : memory' = [memory EXCEPT !["likely_experience_mode"] = row]
                     /\ row.mode = mode
      <4> HIDE DEF mode
      <4>1. PICK strength : memory' = [memory EXCEPT !["likely_experience_mode"] =
               [mode |-> mode, at |-> now, count |-> 0, strength |-> strength]]
        BY <2>1 DEF maybe_write_identity_derived_memory, mode
      <4> DEFINE row == [mode |-> mode, at |-> now, count |-> 0, strength |-> strength]
      <4>2. row.mode = mode
        OBVIOUS
      <4>3. memory' = [memory EXCEPT !["likely_experience_mode"] = row]
        BY <4>1
      <4> HIDE DEF row
      <4>4. QED
        BY <4>2, <4>3
    <3> HIDE DEF mode
    <3>3. QED
      BY <3>1, <3>2 DEF HeardInv, IInv, Shape, Keys, ModeOf
  <2>2. CASE WriteHints(r)
    <3>1. PICK row : memory' = [memory EXCEPT !["visual_style_hints"] = row]
      BY <2>2 DEF WriteHints
    <3>2. QED
      BY <3>1 DEF HeardInv, IInv, Shape, Keys, ModesAreModes
  <2>3. CASE record_run_outcome_memory(r)
    <3>1. PICK row : memory' = [memory EXCEPT !["aggregate_run_outcome"] = row]
      BY <2>3 DEF record_run_outcome_memory
    <3>2. QED
      BY <3>1 DEF HeardInv, IInv, Shape, Keys, ModesAreModes
  <2>4. QED
    BY <2>1, <2>2, <2>3
<1>3. PICK rec : /\ run' = [run EXCEPT ![r] = rec]
                 /\ rec.mode = run[r].mode /\ rec.taste = run[r].taste
                 /\ rec.heard = run[r].heard
  <2> DEFINE plain == [run[r] EXCEPT !.step = step, !.was = was]
             reset == [run[r] EXCEPT !.was = was, !.status = "unknown", !.step = step]
  <2>1. run' = [run EXCEPT ![r] = plain] \/ run' = [run EXCEPT ![r] = reset]
    BY <1>1 DEF HeardInv, IInv, Shape, RunFields
  <2>2. /\ plain.mode = run[r].mode /\ plain.taste = run[r].taste
        /\ plain.heard = run[r].heard
        /\ reset.mode = run[r].mode /\ reset.taste = run[r].taste
        /\ reset.heard = run[r].heard
    BY DEF HeardInv, IInv, Shape, RunFields
  <2> HIDE DEF plain, reset
  <2>3. QED
    BY <2>1, <2>2
<1>4. QED
  BY <1>1, <1>2, <1>3, HeardRunGoesOn

(* The planner's turn: its own mode, a remembered one or the derived one.  *)
LEMMA HeardPlans ==
  ASSUME HeardInv, IInv', NEW r \in Runs,
         NEW authored \in Authored \cup {None}, NEW archetype, Plan(r, authored, archetype)
  PROVE  HeardInv'
<1> DEFINE derived == derive_experience_mode_with_confidence(run[r].profile, archetype).mode
           bias == memory_bias_for_experience_mode(run[r].profile, run[r].taste)
           biased == authored = None /\ bias \notin {None, derived}
                     /\ ~(bias = Portfolio /\ archetype # "portfolio")
           mode == clamp_experience_mode_for_static_vertical(
                     IF authored # None THEN authored ELSE IF biased THEN bias ELSE derived,
                     run[r].static)
           kept == IF biased THEN bias ELSE None
           rec == [run[r] EXCEPT !.step = "built", !.plans = @ + 1, !.bias = kept, !.mode = mode]
<1>1. /\ run' = [run EXCEPT ![r].step = "built", ![r].plans = @ + 1, ![r].bias = kept,
                            ![r].mode = mode]
      /\ UNCHANGED <<now, memory, desk, word>>
  BY DEF Plan
<1>2. mode \in Modes \cup {None}
  <2>1. derived \in Modes
    BY DerivedIsAMode
  <2>2. bias \in Modes \cup {None}
    BY DEF memory_bias_for_experience_mode, HeardInv, ModesAreModes, ModeOf
  <2>3. authored \in Modes \cup {None}
    BY MemoryAssumption
  <2> HIDE DEF derived, bias, biased
  <2>4. QED
    BY <2>1, <2>2, <2>3 DEF clamp_experience_mode_for_static_vertical, Modes
<1> HIDE DEF kept, mode
<1>3. run' = [run EXCEPT ![r] = rec]
  BY <1>1 DEF HeardInv, IInv, Shape, RunFields
<1>4. rec.mode = mode /\ rec.taste = run[r].taste /\ rec.heard = run[r].heard
  BY DEF HeardInv, IInv, Shape, RunFields
<1> HIDE DEF rec
<1>5. ModeOf(rec.taste.operator) /\ ModeOf(rec.taste.favored)
  BY <1>4 DEF HeardInv, ModesAreModes
<1>6. rec.heard # None =>
        rec.taste.operator # None /\ rec.taste.operator.mode = rec.heard
        /\ rec.taste.operator.strength >= 45
  BY <1>4 DEF HeardInv, HeardIsLoaded
<1>7. ModeOf(memory'["likely_experience_mode"])
  BY <1>1 DEF HeardInv, ModesAreModes
<1>8. QED
  BY <1>1, <1>2, <1>3, <1>4, <1>5, <1>6, <1>7, HeardRunMoves

LEMMA HeardRequested ==
  ASSUME HeardInv, IInv', NEW d \in Desks, NEW r \in Runs, Approve(d, r) \/ Publish(d, r)
  PROVE  HeardInv'
<1>1. PICK step : run' = [run EXCEPT ![r].step = step] /\ UNCHANGED <<now, memory, word>>
  BY DEF Approve, Publish
<1>2. PICK s : desk' = [desk EXCEPT ![d] = [step |-> s, of |-> r,
                                           was |-> memory["preferred_experience_mode"]]]
  <2>1. PICK s : ReadPreference(d, r, s)
    BY DEF Approve, Publish
  <2>2. QED
    BY <2>1 DEF ReadPreference
<1>3. \A q \in Runs : /\ run'[q].mode = run[q].mode /\ run'[q].taste = run[q].taste
                      /\ run'[q].heard = run[q].heard
  BY <1>1 DEF HeardInv, IInv, Shape, RunFields
<1>4. \A e \in Desks : desk'[e].was # None => desk'[e].was.strength \in 0 .. 100
  <2> SUFFICES ASSUME NEW e \in Desks, desk'[e].was # None
               PROVE  desk'[e].was.strength \in 0 .. 100
    OBVIOUS
  <2>1. CASE e = d
    <3>1. desk'[e].was = memory["preferred_experience_mode"]
      BY <1>2, <2>1 DEF HeardInv, IInv, Shape
    <3>2. QED
      BY <3>1 DEF HeardInv, ModesAreModes
  <2>2. CASE e # d
    BY <1>2, <2>2 DEF HeardInv, ModesAreModes, IInv, Shape
  <2>3. QED
    BY <2>1, <2>2
<1>5. ModesAreModes'
  BY <1>1, <1>3, <1>4 DEF HeardInv, ModesAreModes, ModeOf
<1>6. WordIsKept' /\ HeardIsLoaded'
  BY <1>1, <1>3 DEF HeardInv, WordIsKept, HeardIsLoaded
<1>7. QED
  BY <1>5, <1>6 DEF HeardInv

(* What an operator's request writes is at least its floor.                *)
LEMMA PreferenceIsStrong ==
  ASSUME NEW floor \in {55, 75}, NEW step \in {8, 12}, NEW was,
         was # None => was.strength \in 0 .. 100
  PROVE  (IF was = None THEN floor
          ELSE clamp_strength(Larger(was.strength, floor) + step)) \in floor .. 100
BY DEF clamp_strength, Larger

LEMMA HeardPrefers ==
  ASSUME HeardInv, IInv', NEW d \in Desks,
         \/ record_operator_memory_from_staging_approval(d)
         \/ record_operator_memory_from_publication(d)
  PROVE  HeardInv'
<1>1. PICK floor \in {55, 75}, step \in {8, 12} : WritePreference(d, floor, step)
  BY DEF record_operator_memory_from_staging_approval, record_operator_memory_from_publication
<1>2. desk[d].of \in Runs
  BY DEF record_operator_memory_from_staging_approval, record_operator_memory_from_publication,
         HeardInv, IInv, DeskTold
<1> DEFINE mode == run[desk[d].of].mode
           was == desk[d].was
           strength == IF was = None THEN floor
                       ELSE clamp_strength(Larger(was.strength, floor) + step)
           row == [mode |-> mode, at |-> now, count |-> 0, strength |-> strength]
           said == [mode |-> mode, at |-> now, least |-> floor]
<1>3. /\ memory' = [memory EXCEPT !["preferred_experience_mode"] = row] /\ word' = said
      /\ desk' = [desk EXCEPT ![d] = Idle] /\ UNCHANGED <<now, run>>
  BY <1>1 DEF WritePreference
<1>4. mode \in Modes \cup {None}
  BY <1>2 DEF HeardInv, ModesAreModes
<1>5. strength \in floor .. 100
  <2>1. was # None => was.strength \in 0 .. 100
    BY DEF HeardInv, ModesAreModes
  <2> HIDE DEF was
  <2>2. QED
    BY <2>1, PreferenceIsStrong
<1> HIDE DEF mode, strength
<1>6. now \in 0 .. MaxAge
  BY DEF HeardInv, ModesAreModes
<1>7. row # None
  <2>1. row \in [mode : Modes \cup {None}, strength : 0 .. 100, at : 0 .. MaxAge,
                 count : 0 .. 100]
    BY <1>4, <1>5, <1>6
  <2>2. QED
    BY <2>1, MemoryAssumption DEF Row
<1>8. /\ row.mode = mode /\ row.at = now /\ row.strength = strength
      /\ said.mode = mode /\ said.at = now /\ said.least = floor
  OBVIOUS
<1> HIDE DEF row, said
<1>9. /\ memory'["preferred_experience_mode"] = row
      /\ memory'["likely_experience_mode"] = memory["likely_experience_mode"]
  BY <1>3 DEF HeardInv, IInv, Shape, Keys
<1>10. WordIsKept'
  <2>1. now \in 0 .. now
    BY <1>6
  <2>2. /\ word' = said /\ memory'["preferred_experience_mode"] = row /\ now' = now
        /\ floor \in {55, 75}
    BY <1>3, <1>9
  <2>3. QED
    BY <1>5, <1>7, <1>8, <2>1, <2>2 DEF WordIsKept
<1>11. \A e \in Desks : desk'[e].was # None => desk'[e].was.strength \in 0 .. 100
  BY <1>3 DEF HeardInv, ModesAreModes, IInv, Shape, Idle
<1>12. ModesAreModes'
  <2>1. ModeOf(memory["likely_experience_mode"])' /\ ModeOf(memory["preferred_experience_mode"])'
    BY <1>4, <1>8, <1>9 DEF HeardInv, ModesAreModes, ModeOf
  <2>2. memory'["preferred_experience_mode"].strength \in 0 .. 100
    BY <1>5, <1>8, <1>9
  <2>3. now' \in 0 .. MaxAge
    BY <1>3, <1>6
  <2>4. ASSUME NEW q \in Runs
        PROVE  /\ run'[q].mode \in Modes \cup {None}
               /\ ModeOf(run[q].taste.operator)' /\ ModeOf(run[q].taste.favored)'
    BY <1>3 DEF HeardInv, ModesAreModes, ModeOf
  <2>5. QED
    BY <2>1, <2>2, <2>3, <2>4, <1>11 DEF ModesAreModes
<1>13. HeardIsLoaded'
  BY <1>3 DEF HeardInv, HeardIsLoaded
<1>14. QED
  BY <1>10, <1>12, <1>13 DEF HeardInv

LEMMA HeardStep == HeardInv /\ [Next]_vars => HeardInv'
<1> SUFFICES ASSUME HeardInv, [Next]_vars PROVE HeardInv'
  OBVIOUS
<1>1. IInv'
  BY Step DEF HeardInv
<1>2. CASE \E r \in Runs :
             \/ load_cross_run_memory_context(r) \/ ReadLikely(r)
             \/ maybe_write_identity_derived_memory(r) \/ WriteHints(r)
             \/ \E authored \in Authored \cup {None}, archetype \in Archetypes \cup {None} :
                  Plan(r, authored, archetype)
             \/ \E status \in {"pass", "partial", "fail", "blocked"} : ReadOutcome(r, status)
             \/ record_run_outcome_memory(r)
  BY <1>1, <1>2, HeardLoads, HeardReads, HeardWrites, HeardPlans
<1>3. CASE \E d \in Desks, r \in Runs : Approve(d, r) \/ Publish(d, r)
  BY <1>1, <1>3, HeardRequested
<1>4. CASE \E d \in Desks : \/ record_operator_memory_from_staging_approval(d)
                           \/ record_operator_memory_from_publication(d)
  BY <1>1, <1>4, HeardPrefers
<1>5. CASE TimePasses
  <2>1. now \in 0 .. MaxAge /\ now' = now + 1 /\ now' \in 0 .. MaxAge
        /\ UNCHANGED <<memory, run, desk, word>>
    BY <1>5, MemoryAssumption DEF TimePasses, HeardInv, ModesAreModes
  <2>2. ModesAreModes' /\ WordIsKept' /\ HeardIsLoaded'
    BY <2>1, MemoryAssumption DEF HeardInv, ModesAreModes, ModeOf, WordIsKept, HeardIsLoaded
  <2>3. QED
    BY <1>1, <2>2 DEF HeardInv
<1>6. CASE UNCHANGED vars
  BY <1>1, <1>6 DEF vars, HeardInv, ModesAreModes, ModeOf, WordIsKept, HeardIsLoaded
<1>7. QED
  BY <1>2, <1>3, <1>4, <1>5, <1>6 DEF Next

(* A heard mode is the bias of a vague identity, and the bias, where it is *)
(* not the portfolio mode, is what is built.                               *)
LEMMA HeardIsPlanned ==
  ASSUME HeardInv, NEW r \in Runs, NEW archetype, Plan(r, None, archetype),
         run[r].heard \notin {None, Portfolio},
         Confidence(run[r].profile) <= Settings.bias_max_identity_confidence
  PROVE  run'[r].mode = clamp_experience_mode_for_static_vertical(run[r].heard, run[r].static)
<1> DEFINE derived == derive_experience_mode_with_confidence(run[r].profile, archetype).mode
           bias == memory_bias_for_experience_mode(run[r].profile, run[r].taste)
           biased == bias \notin {None, derived} /\ ~(bias = Portfolio /\ archetype # "portfolio")
           mode == clamp_experience_mode_for_static_vertical(
                     IF biased THEN bias ELSE derived, run[r].static)
           kept == IF biased THEN bias ELSE None
<1>1. run' = [run EXCEPT ![r].step = "built", ![r].plans = @ + 1, ![r].bias = kept,
                         ![r].mode = mode]
  BY DEF Plan
<1>2. bias = run[r].heard
  <2>1. /\ run[r].taste.operator # None /\ run[r].taste.operator.mode = run[r].heard
        /\ run[r].taste.operator.strength >= 45
    BY DEF HeardInv, HeardIsLoaded
  <2>2. ~(Confidence(run[r].profile) > Settings.bias_max_identity_confidence)
    <3>1. Confidence(run[r].profile) \in Nat
      BY ConfidenceIsANumber
    <3>2. QED
      BY <3>1 DEF Settings
  <2>3. QED
    BY <2>1, <2>2 DEF memory_bias_for_experience_mode, Settings
<1> HIDE DEF bias
<1>3. mode = clamp_experience_mode_for_static_vertical(run[r].heard, run[r].static)
  BY <1>2
<1> HIDE DEF kept, mode
<1>4. run'[r].mode = mode
  BY <1>1 DEF HeardInv, IInv, Shape, RunFields
<1>5. QED
  BY <1>3, <1>4

(* A run of a vague identity that loaded while an operator's last word had *)
(* not faded below the strength that steers plans in the operator's mode,  *)
(* whatever else memory says, whatever overlaps and however fast strengths *)
(* fade (runtime/experience_mode.py, memory/ops.py, memory/guardrails.py). *)
THEOREM ApprovedModeIsHeard == Spec => OperatorIsHeard
<1>1. HeardInv =>
        \A r \in Runs, archetype \in Archetypes \cup {None} :
          Plan(r, None, archetype) /\ run[r].heard \notin {None, Portfolio}
            /\ Confidence(run[r].profile) <= Settings.bias_max_identity_confidence =>
              run'[r].mode = clamp_experience_mode_for_static_vertical(run[r].heard,
                                                                       run[r].static)
  BY HeardIsPlanned
<1>2. QED
  BY <1>1, HeardStart, HeardStep, PTL DEF Spec, OperatorIsHeard

----------------------------------------------------------------------------
(* Counting up, by a least counterexample.                                 *)

LEMMA Below == ASSUME NEW a \in Nat, NEW b \in Nat, a < b
  PROVE <<a, b>> \in OpToRel(<, Nat)
<1>1. <<a, b>> \in Nat \X Nat
  BY SMT
<1>2. <<a, b>>[1] < <<a, b>>[2]
  BY SMT
<1>3. QED
  BY <1>1, <1>2, Zenon DEF OpToRel

(* A set of numbers has a least one.                                       *)
LEMMA Least ==
  ASSUME NEW T \in SUBSET Nat, NEW n \in T
  PROVE  \E m \in T : \A k \in T : m <= k
<1>1. PICK x \in T : \A y \in T : ~(<<y, x>> \in OpToRel(<, Nat))
  BY WFMin, NatLessThanWellFounded
<1>2. \A y \in T : ~(y < x)
  BY <1>1, Below
<1>3. QED
  BY <1>2, SMT

LEMMA CountUp ==
  ASSUME NEW n \in Nat, NEW T, 0 \in T, \A k \in 0 .. n : k \in T /\ k < n => k + 1 \in T
  PROVE  n \in T
<1> DEFINE F == {k \in 0 .. n : k \notin T}
<1>1. SUFFICES ASSUME n \in F PROVE FALSE
  OBVIOUS
<1>2. PICK m \in F : \A j \in F : m <= j
  <2>1. F \in SUBSET Nat
    OBVIOUS
  <2> HIDE DEF F
  <2>2. QED
    BY <1>1, <2>1, Least
<1>3. m # 0 /\ m - 1 \in 0 .. n /\ m - 1 \notin F
  BY <1>2
<1>4. QED
  BY <1>2, <1>3

----------------------------------------------------------------------------
(* Sums.  f holds the sums of the beginnings of s.                         *)

SumsOf(f, s) ==
  /\ f \in [0 .. Len(s) -> Nat]
  /\ f[0] = 0 /\ \A k \in 1 .. Len(s) : f[k] = f[k - 1] + s[k]

LEMMA SumsStep ==
  ASSUME NEW s, NEW f, SumsOf(f, s), Len(s) \in Nat, NEW k \in Nat
  PROVE  /\ f[0] = 0
         /\ k <= Len(s) => f[k] \in Nat
         /\ k < Len(s) => f[k + 1] = f[k] + s[k + 1]
<1>1. k < Len(s) => k + 1 \in 1 .. Len(s) /\ k + 1 - 1 = k
  OBVIOUS
<1>2. k <= Len(s) => k \in 0 .. Len(s)
  OBVIOUS
<1>3. QED
  BY <1>1, <1>2 DEF SumsOf

LEMMA SumsExist == ASSUME NEW s \in Seq(Nat) PROVE \E f : SumsOf(f, s)
<1> DEFINE Upto(f, n) == /\ f \in [0 .. n -> Nat] /\ f[0] = 0
                         /\ \A k \in 1 .. n : f[k] = f[k - 1] + s[k]
           T == {n \in 0 .. Len(s) : \E f : Upto(f, n)}
<1>1. Len(s) \in Nat /\ \A k \in 1 .. Len(s) : s[k] \in Nat
  BY LenProperties
<1>2. Upto([k \in 0 .. 0 |-> 0], 0)
  OBVIOUS
<1>3. ASSUME NEW n \in 0 .. Len(s), n < Len(s), NEW f, Upto(f, n)
      PROVE  \E g : Upto(g, n + 1)
  <2> DEFINE g == [k \in 0 .. n + 1 |-> IF k = n + 1 THEN f[n] + s[n + 1] ELSE f[k]]
  <2>1. Upto(g, n + 1)
    BY <1>1, <1>3
  <2> HIDE DEF g, Upto
  <2>2. QED
    BY <2>1
<1> HIDE DEF Upto
<1>4. 0 \in T /\ \A k \in 0 .. Len(s) : k \in T /\ k < Len(s) => k + 1 \in T
  BY <1>1, <1>2, <1>3
<1> HIDE DEF T
<1>5. Len(s) \in T
  BY <1>1, <1>4, CountUp
<1>6. \E f : Upto(f, Len(s))
  BY <1>5 DEF T
<1>7. QED
  BY <1>6 DEF SumsOf, Upto

LEMMA TotalIs ==
  ASSUME NEW s \in Seq(Nat)
  PROVE  \E f : SumsOf(f, s) /\ Budget!Total(s) = f[Len(s)]
<1> DEFINE E(f) == f = [n \in 0 .. Len(s) |-> IF n = 0 THEN 0 ELSE f[n - 1] + s[n]]
           c == CHOOSE f : E(f)
<1>1. Len(s) \in Nat /\ \A k \in 1 .. Len(s) : s[k] \in Nat
  BY LenProperties
<1>2. PICK f : SumsOf(f, s)
  BY SumsExist
<1>3. E(f)
  <2>1. \A n \in 0 .. Len(s) : f[n] = IF n = 0 THEN 0 ELSE f[n - 1] + s[n]
    BY <1>1, <1>2 DEF SumsOf
  <2>2. f = [n \in 0 .. Len(s) |-> f[n]]
    BY <1>2 DEF SumsOf
  <2>3. QED
    BY <2>1, <2>2
<1>4. E(c)
  BY <1>3, Zenon
<1>5. Budget!Total(s) = c[Len(s)]
  BY Zenon DEF Budget!Total
<1> HIDE DEF c
<1>6. c[0] = 0 /\ \A k \in 1 .. Len(s) : c[k] = c[k - 1] + s[k]
  BY <1>1, <1>4
<1> DEFINE T == {n \in 0 .. Len(s) : c[n] \in Nat}
<1>7. 0 \in T /\ \A k \in 0 .. Len(s) : k \in T /\ k < Len(s) => k + 1 \in T
  <2>1. 0 \in T
    BY <1>1, <1>6
  <2>2. ASSUME NEW k \in T, k < Len(s) PROVE c[k + 1] \in Nat
    <3>1. k + 1 \in 1 .. Len(s) /\ k + 1 - 1 = k /\ c[k] \in Nat
      BY <1>1, <2>2
    <3>2. c[k + 1] = c[k + 1 - 1] + s[k + 1] /\ s[k + 1] \in Nat
      BY <3>1, <1>1, <1>6
    <3>3. QED
      BY <3>1, <3>2
  <2>3. QED
    BY <1>1, <2>1, <2>2
<1>8. \A n \in 0 .. Len(s) : c[n] \in Nat
  <2> HIDE DEF T
  <2>1. ASSUME NEW n \in 0 .. Len(s) PROVE n \in T
    <3>1. n \in Nat /\ \A k \in 0 .. n : k \in T /\ k < n => k + 1 \in T
      BY <1>1, <1>7
    <3>2. QED
      BY <3>1, <1>7, CountUp
  <2>2. QED
    BY <2>1 DEF T
<1>9. SumsOf(c, s)
  <2>1. c = [n \in 0 .. Len(s) |-> c[n]]
    BY <1>4
  <2>2. QED
    BY <2>1, <1>6, <1>8 DEF SumsOf
<1>10. QED
  BY <1>5, <1>9

LEMMA TotalIsNat == ASSUME NEW s \in Seq(Nat) PROVE Budget!Total(s) \in Nat
BY TotalIs, LenProperties DEF SumsOf

LEMMA TotalOfNone == Budget!Total(<<>>) = 0
<1>1. <<>> \in Seq(Nat) /\ Len(<<>>) = 0
  BY EmptySeq
<1>2. QED
  BY <1>1, TotalIs DEF SumsOf

LEMMA TotalOfEmpty == ASSUME NEW s \in Seq(Nat), Len(s) = 0 PROVE Budget!Total(s) = 0
BY TotalOfNone, EmptySeq

LEMMA TotalOfOne ==
  ASSUME NEW s \in Seq(Nat), Len(s) = 1
  PROVE  Budget!Total(s) = s[1]
<1>1. PICK f : SumsOf(f, s) /\ Budget!Total(s) = f[1]
  BY TotalIs
<1>2. QED
  BY <1>1, LenProperties DEF SumsOf

(* A sequence in two parts.                                                *)
LEMMA TotalOfParts ==
  ASSUME NEW s \in Seq(Nat), NEW t \in Seq(Nat), NEW u \in Seq(Nat)
  PROVE  /\ Len(s) = Len(t) + Len(u)
         /\ \A i \in 1 .. Len(t) : s[i] = t[i]
         /\ \A i \in 1 .. Len(u) : s[Len(t) + i] = u[i]
         => Budget!Total(s) = Budget!Total(t) + Budget!Total(u)
<1>0. SUFFICES ASSUME Len(s) = Len(t) + Len(u),
                      \A i \in 1 .. Len(t) : s[i] = t[i],
                      \A i \in 1 .. Len(u) : s[Len(t) + i] = u[i]
               PROVE  Budget!Total(s) = Budget!Total(t) + Budget!Total(u)
  OBVIOUS
<1>1. Len(s) \in Nat /\ Len(t) \in Nat /\ Len(u) \in Nat /\ Len(s) = Len(t) + Len(u)
  BY <1>0, LenProperties
<1>2. PICK f : SumsOf(f, s) /\ Budget!Total(s) = f[Len(s)]
  BY TotalIs
<1>3. PICK g : SumsOf(g, t) /\ Budget!Total(t) = g[Len(t)]
  BY TotalIs
<1>4. PICK h : SumsOf(h, u) /\ Budget!Total(u) = h[Len(u)]
  BY TotalIs
<1> DEFINE T == {k \in 0 .. Len(t) : f[k] = g[k]}
           U == {k \in 0 .. Len(u) : f[Len(t) + k] = g[Len(t)] + h[k]}
<1>5. f[Len(t)] = g[Len(t)]
  <2>1. 0 \in T
    BY <1>1, <1>2, <1>3 DEF SumsOf
  <2>2. ASSUME NEW k \in T, k < Len(t) PROVE f[k + 1] = g[k + 1]
    <3>1. k \in Nat /\ k < Len(s) /\ k + 1 \in 1 .. Len(t) /\ f[k] = g[k]
      BY <1>1, <2>2
    <3>2. f[k + 1] = f[k] + s[k + 1]
      BY <3>1, <1>1, <1>2, SumsStep
    <3>3. g[k + 1] = g[k] + t[k + 1]
      BY <3>1, <1>1, <1>3, <2>2, SumsStep
    <3>4. s[k + 1] = t[k + 1]
      BY <3>1, <1>0
    <3>5. QED
      BY <3>1, <3>2, <3>3, <3>4
  <2>3. ASSUME NEW k \in 0 .. Len(t), k \in T, k < Len(t) PROVE k + 1 \in T
    <3>1. k + 1 \in 0 .. Len(t)
      BY <1>1, <2>3
    <3>2. QED
      BY <3>1, <2>2, <2>3
  <2> HIDE DEF T
  <2>4. Len(t) \in T
    BY <1>1, <2>1, <2>3, CountUp
  <2>5. QED
    BY <2>4 DEF T
<1>6. f[Len(t) + Len(u)] = g[Len(t)] + h[Len(u)]
  <2>1. 0 \in U
    <3>1. h[0] = 0 /\ g[Len(t)] \in Nat
      BY <1>1, <1>3, <1>4, SumsStep
    <3>2. f[Len(t) + 0] = g[Len(t)] + h[0]
      BY <3>1, <1>1, <1>5
    <3>3. QED
      BY <3>2, <1>1
  <2>2. ASSUME NEW k \in U, k < Len(u) PROVE f[Len(t) + (k + 1)] = g[Len(t)] + h[k + 1]
    <3> DEFINE j == Len(t) + k
    <3>1. /\ k \in Nat /\ k + 1 \in 1 .. Len(u) /\ f[j] = g[Len(t)] + h[k]
          /\ j \in Nat /\ j < Len(s) /\ j + 1 = Len(t) + (k + 1)
      BY <1>1, <2>2
    <3>2. s[j + 1] = u[k + 1] /\ u[k + 1] \in Nat
      BY <3>1, <1>0, LenProperties
    <3> HIDE DEF j
    <3>3. f[j + 1] = f[j] + s[j + 1]
      <4>1. SumsOf(f, s)
        BY <1>2
      <4>2. QED
        BY <3>1, <1>1, <4>1, SumsStep
    <3>4. h[k + 1] = h[k] + u[k + 1] /\ h[k] \in Nat
      BY <3>1, <1>1, <1>4, <2>2, SumsStep
    <3>5. g[Len(t)] \in Nat
      BY <1>1, <1>3, SumsStep
    <3>6. f[j + 1] = g[Len(t)] + h[k + 1]
      BY <3>1, <3>2, <3>3, <3>4, <3>5
    <3>7. QED
      BY <3>1, <3>6
  <2>3. ASSUME NEW k \in 0 .. Len(u), k \in U, k < Len(u) PROVE k + 1 \in U
    <3>1. k + 1 \in 0 .. Len(u)
      BY <1>1, <2>3
    <3>2. QED
      BY <3>1, <2>2, <2>3
  <2> HIDE DEF U
  <2>4. Len(u) \in U
    BY <1>1, <2>1, <2>3, CountUp
  <2>5. QED
    BY <2>4 DEF U
<1>7. QED
  BY <1>1, <1>2, <1>3, <1>4, <1>6

(* One more.                                                               *)
LEMMA TotalAndOne ==
  ASSUME NEW s \in Seq(Nat), NEW t \in Seq(Nat), Len(s) = Len(t) + 1,
         \A i \in 1 .. Len(t) : s[i] = t[i]
  PROVE  Budget!Total(s) = Budget!Total(t) + s[Len(t) + 1]
<1> DEFINE x == s[Len(t) + 1]
           u == [i \in 1 .. 1 |-> x]
<1>1. Len(t) \in Nat /\ x \in Nat
  BY LenProperties
<1>2. u \in Seq(Nat) /\ Len(u) = 1 /\ u[1] = x
  BY <1>1, SeqDef, LenProperties
<1>3. \A i \in 1 .. Len(u) : s[Len(t) + i] = u[i]
  BY <1>2
<1>4. Len(s) = Len(t) + Len(u)
  BY <1>1, <1>2
<1> HIDE DEF u
<1>5. Budget!Total(s) = Budget!Total(t) + Budget!Total(u)
  BY <1>2, <1>3, <1>4, TotalOfParts
<1>6. QED
  BY <1>2, <1>5, TotalOfOne

LEMMA TotalIsMonotonic ==
  ASSUME NEW s \in Seq(Nat), NEW t \in Seq(Nat), Len(s) = Len(t),
         \A i \in 1 .. Len(s) : s[i] <= t[i]
  PROVE  Budget!Total(s) <= Budget!Total(t)
<1>1. Len(s) \in Nat /\ \A i \in 1 .. Len(s) : s[i] \in Nat /\ t[i] \in Nat
  BY LenProperties
<1>2. PICK f : SumsOf(f, s) /\ Budget!Total(s) = f[Len(s)]
  BY TotalIs
<1>3. PICK g : SumsOf(g, t) /\ Budget!Total(t) = g[Len(t)]
  BY TotalIs
<1> DEFINE T == {k \in 0 .. Len(s) : f[k] <= g[k]}
<1>4. 0 \in T
  BY <1>1, <1>2, <1>3 DEF SumsOf
<1>5. ASSUME NEW k \in T, k < Len(s) PROVE f[k + 1] <= g[k + 1]
  <2>1. k \in Nat /\ k + 1 \in 1 .. Len(s) /\ f[k] <= g[k]
    BY <1>1, <1>5
  <2>2. f[k + 1] = f[k] + s[k + 1] /\ f[k] \in Nat
    BY <2>1, <1>1, <1>2, <1>5, SumsStep
  <2>3. g[k + 1] = g[k] + t[k + 1] /\ g[k] \in Nat
    BY <2>1, <1>1, <1>3, <1>5, SumsStep, SMTT(30)
  <2>4. s[k + 1] \in Nat /\ t[k + 1] \in Nat /\ s[k + 1] <= t[k + 1]
    BY <2>1, <1>1
  <2>5. QED
    BY <2>1, <2>2, <2>3, <2>4
<1>6. \A k \in 0 .. Len(s) : k \in T /\ k < Len(s) => k + 1 \in T
  BY <1>1, <1>5
<1> HIDE DEF T
<1>7. Len(s) \in T
  BY <1>1, <1>4, <1>6, CountUp
<1>8. QED
  BY <1>2, <1>3, <1>7 DEF T

LEMMA TotalOfZeros ==
  ASSUME NEW s \in Seq(Nat), \A i \in 1 .. Len(s) : s[i] = 0
  PROVE  Budget!Total(s) = 0
<1>1. Len(s) \in Nat
  BY LenProperties
<1>2. PICK f : SumsOf(f, s) /\ Budget!Total(s) = f[Len(s)]
  BY TotalIs
<1> DEFINE T == {k \in 0 .. Len(s) : f[k] = 0}
<1>3. 0 \in T
  BY <1>1, <1>2 DEF SumsOf
<1>4. ASSUME NEW k \in T, k < Len(s) PROVE f[k + 1] = 0
  <2>1. k + 1 \in 1 .. Len(s) /\ k + 1 - 1 = k /\ f[k] = 0
    BY <1>1, <1>4
  <2>2. QED
    BY <2>1, <1>2 DEF SumsOf
<1>5. \A k \in 0 .. Len(s) : k \in T /\ k < Len(s) => k + 1 \in T
  BY <1>1, <1>4
<1> HIDE DEF T
<1>6. Len(s) \in T
  BY <1>1, <1>3, <1>5, CountUp
<1>7. QED
  BY <1>2, <1>6 DEF T

----------------------------------------------------------------------------
(* The window of a guard w, what it granted at each tick h, and the time.  *)

Entry == [at : 0 .. MaxTime, tokens : Nat]
Tokens(w) == [i \in 1 .. Len(w) |-> w[i].tokens]

(* The entries that were granted from tick f on, for all one knows.        *)
Since(w, f) == [i \in 1 .. Len(w) |-> IF w[i].at + Delay >= f THEN w[i].tokens ELSE 0]

Grants(h, first, last) == [i \in 1 .. (last + 1 - first) |-> h[first + i - 1]]
Granted(h, first, last) == Budget!Total(Grants(h, first, last))

(* Of what was granted in an hour, less the wait, the window has forgotten *)
(* nothing; what it holds was granted; and no hour of the past is over it. *)
GuardOK(w, h, time) ==
  /\ time \in 0 .. MaxTime
  /\ w \in Seq(Entry) /\ \A i \in 1 .. Len(w) : w[i].at <= time
  /\ h \in [0 .. MaxTime -> Nat] /\ \A t \in 0 .. MaxTime : t > time => h[t] = 0
  /\ Budget!Total(Tokens(w)) <= Cap
  /\ \A f \in 0 .. time : f + Hour >= time + Delay =>
       Granted(h, f, time) <= Budget!Total(Since(w, f))
  /\ \A j \in 1 .. Len(w) :
       Budget!Total(SubSeq(Tokens(w), j, Len(w))) <= Granted(h, w[j].at, time)
  /\ \A t \in 0 .. MaxTime : t < time =>
       Granted(h, Budget!Minus(t, Hour - Delay), t) <= Cap

LEMMA WindowSums ==
  ASSUME NEW w \in Seq(Entry)
  PROVE  /\ Len(w) \in Nat /\ Tokens(w) \in Seq(Nat) /\ Len(Tokens(w)) = Len(w)
         /\ \A i \in 1 .. Len(w) : w[i] \in Entry /\ w[i].at \in 0 .. MaxTime
                                   /\ w[i].tokens \in Nat /\ Tokens(w)[i] = w[i].tokens
         /\ \A f \in Int :
              /\ Since(w, f) \in Seq(Nat) /\ Len(Since(w, f)) = Len(w)
              /\ \A i \in 1 .. Len(w) :
                   Since(w, f)[i] = IF w[i].at + Delay >= f THEN w[i].tokens ELSE 0
<1>1. Len(w) \in Nat /\ \A i \in 1 .. Len(w) : w[i] \in Entry
  BY LenProperties
<1>2. \A i \in 1 .. Len(w) : w[i].at \in 0 .. MaxTime /\ w[i].tokens \in Nat
  BY <1>1 DEF Entry
<1>3. Tokens(w) \in Seq(Nat) /\ Len(Tokens(w)) = Len(w)
  BY <1>1, <1>2, SeqDef, LenProperties DEF Tokens
<1>4. ASSUME NEW f \in Int PROVE Since(w, f) \in Seq(Nat) /\ Len(Since(w, f)) = Len(w)
  BY <1>1, <1>2, SeqDef, LenProperties DEF Since
<1>5. QED
  BY <1>1, <1>2, <1>3, <1>4 DEF Tokens, Since

LEMMA GrantsAre ==
  ASSUME NEW h \in [0 .. MaxTime -> Nat], NEW first \in Nat, NEW last \in 0 .. MaxTime
  PROVE  /\ Grants(h, first, last) \in Seq(Nat)
         /\ Len(Grants(h, first, last)) = IF first <= last THEN last + 1 - first ELSE 0
         /\ first > last => Grants(h, first, last) = <<>>
         /\ \A i \in 1 .. (last + 1 - first) : Grants(h, first, last)[i] = h[first + i - 1]
<1> DEFINE n == last + 1 - first
<1>1. \A i \in 1 .. n : first + i - 1 \in 0 .. MaxTime
  BY BudgetAssumption
<1>2. \A i \in 1 .. n : h[first + i - 1] \in Nat
  BY <1>1
<1>3. Grants(h, first, last) = [i \in 1 .. n |-> h[first + i - 1]]
  BY DEF Grants
<1> HIDE DEF n
<1>4. CASE first <= last
  <2>1. n \in Nat /\ n = last + 1 - first
    BY <1>4, BudgetAssumption DEF n
  <2>2. Grants(h, first, last) \in [1 .. n -> Nat]
    BY <1>2, <1>3
  <2>3. Grants(h, first, last) \in Seq(Nat)
    BY <2>1, <2>2, SeqDef
  <2>4. Len(Grants(h, first, last)) = n
    BY <2>1, <2>2, <2>3, LenProperties
  <2>5. QED
    BY <1>3, <1>4, <2>1, <2>3, <2>4
<1>5. CASE first > last
  <2>1. 1 .. n = {}
    BY <1>5 DEF n
  <2>2. Grants(h, first, last) \in [1 .. 0 -> Nat]
    BY <2>1, <1>3
  <2>3. Grants(h, first, last) \in Seq(Nat)
    BY <2>2, SeqDef
  <2>4. Len(Grants(h, first, last)) = 0
    BY <2>2, <2>3, LenProperties
  <2>5. Grants(h, first, last) = <<>>
    BY <2>3, <2>4, EmptySeq
  <2>6. QED
    BY <2>1, <2>3, <2>4, <2>5, <1>5 DEF n
<1>6. QED
  BY <1>4, <1>5

LEMMA GrantedIsNat ==
  ASSUME NEW h \in [0 .. MaxTime -> Nat], NEW first \in Nat, NEW last \in 0 .. MaxTime
  PROVE  Granted(h, first, last) \in Nat /\ (first > last => Granted(h, first, last) = 0)
BY GrantsAre, TotalIsNat, TotalOfNone DEF Granted

LEMMA GrantedInOne ==
  ASSUME NEW h \in [0 .. MaxTime -> Nat], NEW t \in 0 .. MaxTime
  PROVE  Granted(h, t, t) = h[t]
<1>1. t \in Nat /\ t + 1 - t = 1 /\ t + 1 - 1 = t
  BY BudgetAssumption
<1>2. /\ Grants(h, t, t) \in Seq(Nat)
      /\ Len(Grants(h, t, t)) = IF t <= t THEN t + 1 - t ELSE 0
      /\ \A i \in 1 .. (t + 1 - t) : Grants(h, t, t)[i] = h[t + i - 1]
  BY <1>1, GrantsAre, Zenon
<1> DEFINE s == Grants(h, t, t)
<1> HIDE DEF s
<1>3. s \in Seq(Nat) /\ Len(s) = 1 /\ s[1] = h[t]
  BY <1>1, <1>2 DEF s
<1>4. Budget!Total(s) = h[t]
  BY <1>3, TotalOfOne
<1>5. QED
  BY <1>4 DEF Granted, s

LEMMA GrantedInParts ==
  ASSUME NEW h \in [0 .. MaxTime -> Nat], NEW first \in Nat, NEW mid \in 0 .. MaxTime,
         NEW last \in 0 .. MaxTime, first <= mid + 1, mid < last
  PROVE  Granted(h, first, last) = Granted(h, first, mid) + Granted(h, mid + 1, last)
<1> DEFINE s == Grants(h, first, last)
           t == Grants(h, first, mid)
           u == Grants(h, mid + 1, last)
<1>1. mid \in Nat /\ last \in Nat /\ mid + 1 \in Nat
  BY BudgetAssumption
<1>2. /\ s \in Seq(Nat) /\ Len(s) = IF first <= last THEN last + 1 - first ELSE 0
      /\ \A i \in 1 .. (last + 1 - first) : s[i] = h[first + i - 1]
  BY <1>1, GrantsAre, Zenon
<1>3. /\ t \in Seq(Nat) /\ Len(t) = IF first <= mid THEN mid + 1 - first ELSE 0
      /\ \A i \in 1 .. (mid + 1 - first) : t[i] = h[first + i - 1]
  BY <1>1, GrantsAre, Zenon
<1>4. /\ u \in Seq(Nat) /\ Len(u) = IF mid + 1 <= last THEN last + 1 - (mid + 1) ELSE 0
      /\ \A i \in 1 .. (last + 1 - (mid + 1)) : u[i] = h[(mid + 1) + i - 1]
  BY <1>1, GrantsAre, Zenon
<1> HIDE DEF s, t, u
<1>5. Len(s) = Len(t) + Len(u)
  BY <1>1, <1>2, <1>3, <1>4
<1>6. \A i \in 1 .. Len(t) : s[i] = t[i]
  BY <1>1, <1>2, <1>3
<1>7. \A i \in 1 .. Len(u) : s[Len(t) + i] = u[i]
  <2> SUFFICES ASSUME NEW i \in 1 .. Len(u) PROVE s[Len(t) + i] = u[i]
    OBVIOUS
  <2>1. /\ i \in 1 .. (last + 1 - (mid + 1)) /\ Len(t) + i \in 1 .. (last + 1 - first)
        /\ first + (Len(t) + i) - 1 = (mid + 1) + i - 1
    BY <1>1, <1>3, <1>4
  <2>2. QED
    BY <2>1, <1>2, <1>4
<1>8. Budget!Total(s) = Budget!Total(t) + Budget!Total(u)
  BY <1>2, <1>3, <1>4, <1>5, <1>6, <1>7, TotalOfParts
<1>9. QED
  BY <1>8 DEF Granted, s, t, u

LEMMA GrantedInNone ==
  ASSUME NEW h \in [0 .. MaxTime -> Nat], NEW first \in Nat, NEW last \in 0 .. MaxTime,
         \A t \in first .. last : h[t] = 0
  PROVE  Granted(h, first, last) = 0
<1>1. CASE first > last
  BY <1>1, GrantedIsNat
<1>2. CASE first <= last
  <2>1. /\ Grants(h, first, last) \in Seq(Nat) /\ Len(Grants(h, first, last)) = last + 1 - first
        /\ \A i \in 1 .. (last + 1 - first) : Grants(h, first, last)[i] = h[first + i - 1]
    BY <1>2, GrantsAre
  <2>2. \A i \in 1 .. (last + 1 - first) : first + i - 1 \in first .. last
    BY BudgetAssumption
  <2>3. \A i \in 1 .. Len(Grants(h, first, last)) : Grants(h, first, last)[i] = 0
    BY <2>1, <2>2
  <2>4. QED
    BY <2>1, <2>3, TotalOfZeros DEF Granted
<1>3. QED
  BY <1>1, <1>2, BudgetAssumption

(* A longer time has no less granted in it.                                *)
LEMMA GrantedInLonger ==
  ASSUME NEW h \in [0 .. MaxTime -> Nat], NEW first \in Nat, NEW later \in Nat,
         NEW last \in 0 .. MaxTime, first <= later
  PROVE  Granted(h, later, last) <= Granted(h, first, last)
<1>1. CASE first = later
  BY <1>1, GrantedIsNat
<1>2. CASE later > last
  BY <1>2, GrantedIsNat
<1>3. CASE first < later /\ later <= last
  <2>1. /\ later - 1 \in 0 .. MaxTime /\ first <= (later - 1) + 1 /\ later - 1 < last
        /\ (later - 1) + 1 = later
    BY <1>3, BudgetAssumption
  <2>2. Granted(h, first, last) = Granted(h, first, later - 1) + Granted(h, (later - 1) + 1, last)
    BY <2>1, GrantedInParts
  <2>3. Granted(h, first, later - 1) \in Nat /\ Granted(h, later, last) \in Nat
    BY <2>1, GrantedIsNat
  <2>4. QED
    BY <2>1, <2>2, <2>3
<1>4. QED
  BY <1>1, <1>2, <1>3, BudgetAssumption

(* At the tick that a grant is made in.                                    *)
LEMMA GrantedMore ==
  ASSUME NEW h \in [0 .. MaxTime -> Nat], NEW first \in Nat, NEW t \in 0 .. MaxTime,
         NEW k \in Nat, first <= t
  PROVE  Granted([h EXCEPT ![t] = @ + k], first, t) = Granted(h, first, t) + k
<1> DEFINE g == [h EXCEPT ![t] = @ + k]
<1>1. g \in [0 .. MaxTime -> Nat] /\ g[t] = h[t] + k /\ h[t] \in Nat /\ t \in Nat
  BY BudgetAssumption
<1>2. CASE first = t
  BY <1>1, <1>2, GrantedInOne
<1>3. CASE first < t
  <2>1. t - 1 \in 0 .. MaxTime /\ first <= (t - 1) + 1 /\ t - 1 < t /\ (t - 1) + 1 = t
    BY <1>3, BudgetAssumption
  <2>2. Granted(g, first, t) = Granted(g, first, t - 1) + Granted(g, (t - 1) + 1, t)
    BY <2>1, <1>1, GrantedInParts
  <2>3. Granted(h, first, t) = Granted(h, first, t - 1) + Granted(h, (t - 1) + 1, t)
    BY <2>1, GrantedInParts
  <2>4. Granted(g, first, t - 1) = Granted(h, first, t - 1)
    <3>1. \A i \in 1 .. (t - 1 + 1 - first) : g[first + i - 1] = h[first + i - 1]
      BY BudgetAssumption
    <3>2. Grants(g, first, t - 1) = Grants(h, first, t - 1)
      BY <3>1 DEF Grants
    <3>3. QED
      BY <3>2 DEF Granted
  <2>5. Granted(h, first, t - 1) \in Nat
    BY <2>1, GrantedIsNat
  <2>6. Granted(g, t, t) = g[t] /\ Granted(h, t, t) = h[t]
    BY <1>1, GrantedInOne, Zenon
  <2> HIDE DEF g
  <2>7. Granted(g, first, t) = Granted(h, first, t) + k
    BY <2>1, <2>2, <2>3, <2>4, <2>5, <2>6, <1>1
  <2>8. QED
    BY <2>7 DEF g
<1>4. QED
  BY <1>2, <1>3, <1>1

(* Where nothing was granted after t.                                      *)
LEMMA GrantedUntil ==
  ASSUME NEW h \in [0 .. MaxTime -> Nat], NEW first \in Nat, NEW t \in 0 .. MaxTime,
         NEW last \in 0 .. MaxTime, first <= t, t <= last,
         \A u \in 0 .. MaxTime : u > t => h[u] = 0
  PROVE  Granted(h, first, last) = Granted(h, first, t)
<1>1. CASE t = last
  BY <1>1
<1>2. CASE t < last
  <2>1. t + 1 \in Nat /\ \A u \in (t + 1) .. last : h[u] = 0
    BY BudgetAssumption
  <2>2. Granted(h, t + 1, last) = 0
    BY <2>1, GrantedInNone
  <2>3. Granted(h, first, last) = Granted(h, first, t) + Granted(h, t + 1, last)
    BY <1>2, GrantedInParts, BudgetAssumption
  <2>4. QED
    BY <2>2, <2>3, GrantedIsNat
<1>3. QED
  BY <1>1, <1>2, BudgetAssumption

----------------------------------------------------------------------------
(* What happens to a guard.                                                *)

LEMMA NewGuard ==
  ASSUME NEW time \in 0 .. MaxTime
  PROVE  GuardOK(<<>>, [t \in 0 .. MaxTime |-> 0], time)
<1> DEFINE h == [t \in 0 .. MaxTime |-> 0]
<1>1. /\ <<>> \in Seq(Entry) /\ Len(<<>>) = 0 /\ 1 .. Len(<<>>) = {}
      /\ h \in [0 .. MaxTime -> Nat] /\ \A t \in 0 .. MaxTime : h[t] = 0
  BY EmptySeq
<1>2. ASSUME NEW first \in Nat, NEW last \in 0 .. MaxTime PROVE Granted(h, first, last) = 0
  <2>1. \A t \in first .. last : t \in 0 .. MaxTime
    BY BudgetAssumption
  <2> HIDE DEF h
  <2>2. \A t \in first .. last : h[t] = 0
    BY <2>1, <1>1
  <2>3. QED
    BY <2>2, <1>1, GrantedInNone
<1> HIDE DEF h
<1>3. Budget!Total(Tokens(<<>>)) = 0
  <2>1. Tokens(<<>>) \in Seq(Nat) /\ Len(Tokens(<<>>)) = 0
    BY <1>1, WindowSums
  <2>2. QED
    BY <2>1, TotalOfZeros
<1>4. ASSUME NEW f \in 0 .. time PROVE Granted(h, f, time) <= Budget!Total(Since(<<>>, f))
  <2>1. f \in Nat /\ f \in Int
    OBVIOUS
  <2>2. Since(<<>>, f) \in Seq(Nat)
    BY <2>1, <1>1, WindowSums
  <2>3. QED
    BY <2>1, <2>2, <1>2, TotalIsNat
<1>5. ASSUME NEW t \in 0 .. MaxTime PROVE Granted(h, Budget!Minus(t, Hour - Delay), t) <= Cap
  <2>1. Budget!Minus(t, Hour - Delay) \in Nat
    BY BudgetAssumption DEF Budget!Minus
  <2>2. QED
    BY <2>1, <1>2, BudgetAssumption
<1>6. GuardOK(<<>>, h, time)
  BY <1>1, <1>3, <1>4, <1>5, BudgetAssumption DEF GuardOK
<1>7. QED
  BY <1>6 DEF h

(* In no hour, less the wait, is more granted than the cap.                *)
LEMMA GuardKeepsCap ==
  ASSUME NEW w, NEW h, NEW time, GuardOK(w, h, time), NEW t \in 0 .. MaxTime
  PROVE  Granted(h, Budget!Minus(t, Hour - Delay), t) <= Cap
<1>1. /\ time \in 0 .. MaxTime /\ w \in Seq(Entry) /\ h \in [0 .. MaxTime -> Nat]
      /\ \A u \in 0 .. MaxTime : u > time => h[u] = 0
      /\ Budget!Total(Tokens(w)) <= Cap
  BY DEF GuardOK
<1> DEFINE f == Budget!Minus(t, Hour - Delay)
<1>2. f \in Nat
  BY BudgetAssumption DEF Budget!Minus
<1>3. CASE t < time
  BY <1>3 DEF GuardOK
<1>4. CASE t >= time /\ f > time
  <2>1. \A u \in f .. t : h[u] = 0
    <3> SUFFICES ASSUME NEW u \in f .. t PROVE h[u] = 0
      OBVIOUS
    <3>1. u \in 0 .. MaxTime /\ u > time
      BY <1>1, <1>2, <1>4, BudgetAssumption
    <3>2. QED
      BY <3>1, <1>1
  <2>2. Granted(h, f, t) = 0
    BY <2>1, <1>1, <1>2, GrantedInNone
  <2>3. QED
    BY <2>2, BudgetAssumption
<1>5. CASE t >= time /\ f <= time
  <2>1. f \in 0 .. time /\ f + Hour >= time + Delay
    BY <1>1, <1>2, <1>5, BudgetAssumption DEF Budget!Minus
  <2> HIDE DEF f
  <2>2. Granted(h, f, t) = Granted(h, f, time)
    BY <1>1, <1>2, <1>5, GrantedUntil
  <2>3. Granted(h, f, time) <= Budget!Total(Since(w, f))
    BY <2>1 DEF GuardOK
  <2>4. Budget!Total(Since(w, f)) <= Budget!Total(Tokens(w))
    <3>1. f \in Int
      BY <1>2
    <3>2. /\ Since(w, f) \in Seq(Nat) /\ Tokens(w) \in Seq(Nat)
          /\ Len(Since(w, f)) = Len(Tokens(w))
          /\ \A i \in 1 .. Len(Since(w, f)) : Since(w, f)[i] <= Tokens(w)[i]
      BY <3>1, <1>1, WindowSums
    <3>3. QED
      BY <3>2, TotalIsMonotonic
  <2>5. Granted(h, f, time) \in Nat /\ Budget!Total(Since(w, f)) \in Nat
          /\ Budget!Total(Tokens(w)) \in Nat
    <3>1. f \in Int
      BY <1>2
    <3>2. QED
      BY <3>1, <1>1, <1>2, WindowSums, TotalIsNat, GrantedIsNat
  <2>6. Granted(h, f, t) <= Cap
    BY <2>2, <2>3, <2>4, <2>5, <1>1, BudgetAssumption
  <2>7. QED
    BY <2>6 DEF f
<1>6. QED
  BY <1>1, <1>2, <1>3, <1>4, <1>5, BudgetAssumption

LEMMA GuardTicks ==
  ASSUME NEW w, NEW h, NEW time, GuardOK(w, h, time), time < MaxTime
  PROVE  GuardOK(w, h, time + 1)
<1>1. /\ time \in 0 .. MaxTime /\ time + 1 \in 0 .. MaxTime /\ w \in Seq(Entry)
      /\ h \in [0 .. MaxTime -> Nat]
      /\ \A u \in 0 .. MaxTime : u > time => h[u] = 0
  BY BudgetAssumption DEF GuardOK
<1> DEFINE n == time + 1
<1>2. n \in 0 .. MaxTime /\ n > time /\ time <= n /\ n \in Nat
  BY <1>1, BudgetAssumption
<1> HIDE DEF n
<1>3. ASSUME NEW f \in Nat, f <= time PROVE Granted(h, f, n) = Granted(h, f, time)
  BY <1>1, <1>3, <1>2, GrantedUntil
<1>4. Granted(h, n, n) = 0
  BY <1>1, <1>2, GrantedInOne
<1>5. ASSUME NEW f \in 0 .. n, f + Hour >= n + Delay
      PROVE  Granted(h, f, n) <= Budget!Total(Since(w, f))
  <2>1. f \in Nat /\ f \in Int
    BY <1>2
  <2>2. Budget!Total(Since(w, f)) \in Nat
    BY <2>1, <1>1, WindowSums, TotalIsNat
  <2>3. CASE f = n
    BY <2>2, <2>3, <1>4
  <2>4. CASE f <= time
    <3>1. f \in 0 .. time /\ f + Hour >= time + Delay
      BY <2>4, <1>1, <1>5, BudgetAssumption DEF n
    <3>2. Granted(h, f, time) <= Budget!Total(Since(w, f))
      BY <3>1 DEF GuardOK
    <3>3. QED
      BY <3>2, <2>1, <2>4, <1>3
  <2>5. QED
    BY <2>3, <2>4, <1>1, <1>2 DEF n
<1>6. ASSUME NEW j \in 1 .. Len(w)
      PROVE  Budget!Total(SubSeq(Tokens(w), j, Len(w))) <= Granted(h, w[j].at, n)
  <2>1. w[j].at \in Nat /\ w[j].at <= time
    BY <1>1, WindowSums DEF GuardOK
  <2>2. QED
    BY <2>1, <1>3 DEF GuardOK
<1>7. ASSUME NEW t \in 0 .. MaxTime, t < n
      PROVE  Granted(h, Budget!Minus(t, Hour - Delay), t) <= Cap
  BY GuardKeepsCap
<1>8. /\ \A i \in 1 .. Len(w) : w[i].at <= n
      /\ \A u \in 0 .. MaxTime : u > n => h[u] = 0
  <2>1. \A i \in 1 .. Len(w) : w[i].at \in 0 .. MaxTime /\ w[i].at <= time
    BY <1>1, WindowSums DEF GuardOK
  <2>2. QED
    BY <2>1, <1>1, BudgetAssumption DEF n
<1>9. GuardOK(w, h, n)
  <2>1. Budget!Total(Tokens(w)) <= Cap
    BY DEF GuardOK
  <2>2. QED
    BY <1>1, <1>2, <1>5, <1>6, <1>7, <1>8, <2>1 DEF GuardOK
<1>10. QED
  BY <1>9 DEF n

(* Pruning drops what is older than an hour at the front, nothing else.    *)
LEMMA PruneIs ==
  ASSUME NEW w \in Seq(Entry), NEW a \in Nat
  PROVE  \E d \in 0 .. Len(w) :
           /\ Budget!Prune(w, a) = SubSeq(w, d + 1, Len(w))
           /\ \A i \in 1 .. d : w[i].at + Hour < a
           /\ d < Len(w) => w[d + 1].at + Hour >= a
<1> DEFINE I == {i \in 1 .. Len(w) : w[i].at + Hour >= a}
           first == IF I # {} THEN Budget!Min(I) ELSE 0
<1>1. Len(w) \in Nat /\ \A i \in 1 .. Len(w) : w[i].at \in Nat
  BY WindowSums, BudgetAssumption
<1>2. Budget!Prune(w, a) = IF first = 0 THEN <<>> ELSE SubSeq(w, first, Len(w))
  BY DEF Budget!Prune, Budget!SelectInSeq
<1>3. CASE I = {}
  <2>1. first = 0
    BY <1>3
  <2>2. SubSeq(w, Len(w) + 1, Len(w)) = <<>>
    BY <1>1, SubSeqEmpty
  <2>3. \A i \in 1 .. Len(w) : w[i].at + Hour < a
    BY <1>1, <1>3, BudgetAssumption
  <2>4. Len(w) \in 0 .. Len(w) /\ ~(Len(w) < Len(w))
    BY <1>1
  <2> HIDE DEF first, I
  <2>5. QED
    BY <1>2, <2>1, <2>2, <2>3, <2>4
<1>4. CASE I # {}
  <2>1. PICK m \in I : \A i \in I : m <= i
    <3>1. I \in SUBSET Nat
      BY <1>1
    <3> HIDE DEF I
    <3>2. PICK n : n \in I
      BY <1>4
    <3>3. QED
      BY <3>1, <3>2, Least
  <2>2. Budget!Min(I) \in I /\ \A i \in I : Budget!Min(I) <= i
    BY <2>1, Zenon DEF Budget!Min
  <2>3. first = Budget!Min(I)
    BY <1>4
  <2> HIDE DEF first
  <2>4. /\ first \in 1 .. Len(w) /\ first - 1 \in 0 .. Len(w) /\ first - 1 + 1 = first
        /\ w[first].at + Hour >= a
    BY <2>2, <2>3, <1>1
  <2>5. ASSUME NEW i \in 1 .. (first - 1) PROVE w[i].at + Hour < a
    <3>1. i \in 1 .. Len(w) /\ ~(first <= i)
      BY <2>4, <1>1
    <3>2. i \notin I
      BY <3>1, <2>2, <2>3
    <3>3. QED
      BY <3>1, <3>2, <1>1, BudgetAssumption
  <2>6. Budget!Prune(w, a) = SubSeq(w, (first - 1) + 1, Len(w))
    <3>1. first # 0
      BY <2>4
    <3>2. QED
      BY <3>1, <1>2, <2>4
  <2>7. QED
    BY <2>4, <2>5, <2>6
<1>5. QED
  BY <1>3, <1>4

(* The rest of a sequence from m on.                                       *)
LEMMA RestIs ==
  ASSUME NEW S, NEW s \in Seq(S), NEW m \in Nat, m >= 1, m <= Len(s) + 1
  PROVE  /\ SubSeq(s, m, Len(s)) \in Seq(S)
         /\ Len(SubSeq(s, m, Len(s))) = Len(s) + 1 - m
         /\ \A i \in 1 .. (Len(s) + 1 - m) : SubSeq(s, m, Len(s))[i] = s[m + i - 1]
<1>1. Len(s) \in Int /\ m \in Int /\ \A i \in m .. Len(s) : s[i] \in S
  BY LenProperties
<1>2. /\ SubSeq(s, m, Len(s)) \in Seq(S)
      /\ Len(SubSeq(s, m, Len(s))) = IF m <= Len(s) THEN Len(s) - m + 1 ELSE 0
      /\ \A i \in 1 .. Len(s) - m + 1 : SubSeq(s, m, Len(s))[i] = s[m + i - 1]
  BY <1>1, SubSeqProperties
<1>3. Len(s) - m + 1 = Len(s) + 1 - m /\ (~(m <= Len(s)) => Len(s) + 1 - m = 0)
  BY <1>1
<1>4. QED
  BY <1>2, <1>3

(* A window without its first d entries.                                   *)
LEMMA Dropped ==
  ASSUME NEW w \in Seq(Entry), NEW d \in 0 .. Len(w), NEW v, v = SubSeq(w, d + 1, Len(w))
  PROVE  /\ v \in Seq(Entry) /\ Len(v) = Len(w) - d /\ \A i \in 1 .. Len(v) : v[i] = w[d + i]
         /\ Budget!Total(Tokens(v)) <= Budget!Total(Tokens(w))
         /\ \A f \in Int : (\A i \in 1 .. d : w[i].at + Delay < f) =>
              Budget!Total(Since(v, f)) = Budget!Total(Since(w, f))
         /\ \A j \in 1 .. Len(v) :
              SubSeq(Tokens(v), j, Len(v)) = SubSeq(Tokens(w), d + j, Len(w))
<1>1. /\ Len(w) \in Nat /\ d \in Nat /\ d <= Len(w) /\ Tokens(w) \in Seq(Nat)
      /\ Len(Tokens(w)) = Len(w) /\ \A i \in 1 .. Len(w) : w[i] \in Entry
  BY WindowSums
<1>2. v \in Seq(Entry) /\ Len(v) = Len(w) - d /\ \A i \in 1 .. Len(v) : v[i] = w[d + i]
  <2>1. d + 1 \in Nat /\ d + 1 >= 1 /\ d + 1 <= Len(w) + 1
    BY <1>1
  <2>2. /\ v \in Seq(Entry) /\ Len(v) = Len(w) + 1 - (d + 1)
        /\ \A i \in 1 .. (Len(w) + 1 - (d + 1)) : v[i] = w[(d + 1) + i - 1]
    BY <2>1, RestIs, Zenon
  <2>3. /\ Len(w) + 1 - (d + 1) = Len(w) - d
        /\ \A i \in 1 .. (Len(w) + 1 - (d + 1)) : (d + 1) + i - 1 = d + i
    BY <1>1
  <2>4. QED
    BY <2>2, <2>3
<1>3. /\ Len(v) \in Nat /\ Tokens(v) \in Seq(Nat) /\ Len(Tokens(v)) = Len(v)
      /\ \A i \in 1 .. Len(v) : d + i \in 1 .. Len(w)
  <2>1. Len(v) \in Nat /\ Tokens(v) \in Seq(Nat) /\ Len(Tokens(v)) = Len(v)
    BY <1>2, WindowSums
  <2>2. QED
    BY <2>1, <1>1, <1>2
<1>4. \A i \in 1 .. Len(v) : Tokens(v)[i] = Tokens(w)[d + i]
  BY <1>2, <1>3, WindowSums, ZenonT(60)
<1>5. ASSUME NEW s \in Seq(Nat), Len(s) = Len(w)
      PROVE  /\ SubSeq(s, 1, d) \in Seq(Nat) /\ Len(SubSeq(s, 1, d)) = d
             /\ \A i \in 1 .. d : SubSeq(s, 1, d)[i] = s[i]
  <2>1. \A i \in 1 .. d : s[i] \in Nat
    BY <1>1, <1>5, LenProperties
  <2>2. /\ SubSeq(s, 1, d) \in Seq(Nat)
        /\ Len(SubSeq(s, 1, d)) = IF 1 <= d THEN d - 1 + 1 ELSE 0
        /\ \A i \in 1 .. d - 1 + 1 : SubSeq(s, 1, d)[i] = s[1 + i - 1]
    BY <2>1, <1>1, SubSeqProperties
  <2>3. QED
    BY <2>2, <1>1
<1>6. Budget!Total(Tokens(v)) <= Budget!Total(Tokens(w))
  <2> DEFINE t == SubSeq(Tokens(w), 1, d)
  <2>1. t \in Seq(Nat) /\ Len(t) = d /\ \A i \in 1 .. d : t[i] = Tokens(w)[i]
    BY <1>1, <1>5
  <2> HIDE DEF t
  <2>2. Budget!Total(Tokens(w)) = Budget!Total(t) + Budget!Total(Tokens(v))
    <3>1. Len(Tokens(w)) = Len(t) + Len(Tokens(v))
      BY <1>1, <1>2, <1>3, <2>1
    <3>2. \A i \in 1 .. Len(Tokens(v)) : Tokens(w)[Len(t) + i] = Tokens(v)[i]
      BY <1>3, <1>4, <2>1
    <3>3. QED
      BY <3>1, <3>2, <2>1, <1>1, <1>3, TotalOfParts
  <2>3. Budget!Total(t) \in Nat /\ Budget!Total(Tokens(v)) \in Nat
    BY <2>1, <1>3, TotalIsNat
  <2>4. QED
    BY <2>2, <2>3
<1>7. ASSUME NEW f \in Int, \A i \in 1 .. d : w[i].at + Delay < f
      PROVE  Budget!Total(Since(v, f)) = Budget!Total(Since(w, f))
  <2> DEFINE s == Since(w, f)
             u == Since(v, f)
             t == SubSeq(s, 1, d)
  <2>1. /\ s \in Seq(Nat) /\ Len(s) = Len(w)
        /\ \A i \in 1 .. Len(w) : s[i] = IF w[i].at + Delay >= f THEN w[i].tokens ELSE 0
    BY WindowSums
  <2>2. /\ u \in Seq(Nat) /\ Len(u) = Len(v)
        /\ \A i \in 1 .. Len(v) : u[i] = IF v[i].at + Delay >= f THEN v[i].tokens ELSE 0
    BY <1>2, WindowSums
  <2> HIDE DEF s, u
  <2>3. t \in Seq(Nat) /\ Len(t) = d /\ \A i \in 1 .. d : t[i] = s[i]
    BY <2>1, <1>5
  <2> HIDE DEF t
  <2>4. \A i \in 1 .. Len(t) : t[i] = 0
    <3>1. \A i \in 1 .. Len(w) : w[i].at \in Nat
      BY WindowSums, BudgetAssumption
    <3>2. \A i \in 1 .. d : i \in 1 .. Len(w) /\ ~(w[i].at + Delay >= f)
      BY <3>1, <1>1, <1>7, BudgetAssumption
    <3>3. QED
      BY <3>2, <2>1, <2>3
  <2>5. ASSUME NEW i \in 1 .. Len(u) PROVE s[Len(t) + i] = u[i]
    <3>1. i \in 1 .. Len(v) /\ d + i \in 1 .. Len(w) /\ v[i] = w[d + i]
      BY <1>2, <1>3, <2>2
    <3>2. QED
      BY <3>1, <2>1, <2>2, <2>3
  <2>6. Len(s) = Len(t) + Len(u)
    BY <1>1, <1>2, <2>1, <2>2, <2>3
  <2>7. Budget!Total(s) = Budget!Total(t) + Budget!Total(u)
    BY <2>1, <2>2, <2>3, <2>5, <2>6, TotalOfParts
  <2>8. Budget!Total(t) = 0 /\ Budget!Total(u) \in Nat
    BY <2>2, <2>3, <2>4, TotalOfZeros, TotalIsNat
  <2>9. Budget!Total(s) = Budget!Total(u)
    BY <2>7, <2>8
  <2>10. QED
    BY <2>9 DEF s, u
<1>8. ASSUME NEW j \in 1 .. Len(v)
      PROVE  SubSeq(Tokens(v), j, Len(v)) = SubSeq(Tokens(w), d + j, Len(w))
  <2> DEFINE x == SubSeq(Tokens(v), j, Len(v))
             y == SubSeq(Tokens(w), d + j, Len(w))
  <2>1. j \in Nat /\ j >= 1 /\ j <= Len(Tokens(v)) + 1 /\ Len(v) = Len(Tokens(v))
    BY <1>3
  <2>2. /\ x \in Seq(Nat) /\ Len(x) = Len(v) + 1 - j
        /\ \A i \in 1 .. (Len(v) + 1 - j) : x[i] = Tokens(v)[j + i - 1]
    BY <2>1, <1>3, RestIs
  <2>3. /\ d + j \in Nat /\ d + j >= 1 /\ d + j <= Len(Tokens(w)) + 1
        /\ Len(w) = Len(Tokens(w))
    BY <1>1, <1>2, <1>3
  <2>4. /\ y \in Seq(Nat) /\ Len(y) = Len(w) + 1 - (d + j)
        /\ \A i \in 1 .. (Len(w) + 1 - (d + j)) : y[i] = Tokens(w)[(d + j) + i - 1]
    BY <2>3, <1>1, RestIs
  <2> HIDE DEF x, y
  <2>5. Len(y) = Len(x)
    BY <1>1, <1>2, <1>3, <2>2, <2>4
  <2>6. ASSUME NEW i \in 1 .. Len(x) PROVE x[i] = y[i]
    <3>1. /\ i \in 1 .. (Len(v) + 1 - j) /\ i \in 1 .. (Len(w) + 1 - (d + j))
          /\ j + i - 1 \in 1 .. Len(v) /\ d + (j + i - 1) = (d + j) + i - 1
      BY <1>1, <1>2, <1>3, <2>2
    <3>2. QED
      BY <3>1, <2>2, <2>4, <1>4
  <2>7. x = y
    BY <2>2, <2>4, <2>5, <2>6, SeqEqual
  <2>8. QED
    BY <2>7 DEF x, y
<1>9. QED
  BY <1>2, <1>6, <1>7, <1>8

LEMMA GuardPrunes ==
  ASSUME NEW w, NEW h, NEW time, GuardOK(w, h, time), NEW a \in Nat, a <= time
  PROVE  GuardOK(Budget!Prune(w, a), h, time)
<1>1. /\ time \in 0 .. MaxTime /\ w \in Seq(Entry) /\ h \in [0 .. MaxTime -> Nat]
      /\ \A i \in 1 .. Len(w) : w[i].at <= time
      /\ \A u \in 0 .. MaxTime : u > time => h[u] = 0
      /\ Budget!Total(Tokens(w)) <= Cap
  BY DEF GuardOK
<1>2. Len(w) \in Nat /\ \A i \in 1 .. Len(w) : w[i].at \in Nat
  BY <1>1, WindowSums, BudgetAssumption, SMTT(30)
<1>3. PICK d \in 0 .. Len(w) : /\ Budget!Prune(w, a) = SubSeq(w, d + 1, Len(w))
                               /\ \A i \in 1 .. d : w[i].at + Hour < a
  BY <1>1, PruneIs
<1> DEFINE v == Budget!Prune(w, a)
<1>4. /\ v \in Seq(Entry) /\ Len(v) = Len(w) - d /\ \A i \in 1 .. Len(v) : v[i] = w[d + i]
      /\ Budget!Total(Tokens(v)) <= Budget!Total(Tokens(w))
      /\ \A f \in Int : (\A i \in 1 .. d : w[i].at + Delay < f) =>
           Budget!Total(Since(v, f)) = Budget!Total(Since(w, f))
      /\ \A j \in 1 .. Len(v) :
           SubSeq(Tokens(v), j, Len(v)) = SubSeq(Tokens(w), d + j, Len(w))
  BY <1>1, <1>3, Dropped
<1> HIDE DEF v
<1>5. \A i \in 1 .. Len(v) : d + i \in 1 .. Len(w)
  BY <1>2, <1>4
<1>6. Budget!Total(Tokens(v)) <= Cap
  <2>1. Budget!Total(Tokens(v)) \in Nat /\ Budget!Total(Tokens(w)) \in Nat
    BY <1>1, <1>4, WindowSums, TotalIsNat
  <2>2. QED
    BY <2>1, <1>1, <1>4, BudgetAssumption
<1>7. ASSUME NEW f \in 0 .. time, f + Hour >= time + Delay
      PROVE  Granted(h, f, time) <= Budget!Total(Since(v, f))
  <2>1. f \in Int /\ time \in Int /\ Hour \in Int /\ Delay \in Int
    BY BudgetAssumption, <1>1
  <2>2. ASSUME NEW i \in 1 .. d PROVE w[i].at + Delay < f
    <3>1. i \in 1 .. Len(w) /\ w[i].at + Hour < a
      BY <1>2, <1>3
    <3>2. w[i].at \in Nat
      BY <3>1, <1>2
    <3>3. QED
      BY <3>1, <3>2, <2>1, <1>7
  <2>3. Budget!Total(Since(v, f)) = Budget!Total(Since(w, f))
    BY <2>1, <2>2, <1>4
  <2>4. QED
    BY <2>3, <1>7 DEF GuardOK
<1>8. ASSUME NEW j \in 1 .. Len(v)
      PROVE  Budget!Total(SubSeq(Tokens(v), j, Len(v))) <= Granted(h, v[j].at, time)
  <2>1. d + j \in 1 .. Len(w) /\ v[j] = w[d + j]
    BY <1>4, <1>5
  <2>2. Budget!Total(SubSeq(Tokens(w), d + j, Len(w))) <= Granted(h, w[d + j].at, time)
    BY <2>1 DEF GuardOK
  <2>3. QED
    BY <2>1, <2>2, <1>4
<1>9. \A i \in 1 .. Len(v) : v[i].at <= time
  BY <1>1, <1>4, <1>5
<1>10. \A t \in 0 .. MaxTime : t < time => Granted(h, Budget!Minus(t, Hour - Delay), t) <= Cap
  BY DEF GuardOK
<1>11. GuardOK(v, h, time)
  BY <1>1, <1>4, <1>6, <1>7, <1>8, <1>9, <1>10 DEF GuardOK
<1>12. QED
  BY <1>11 DEF v

(* A grant of k tokens, for a call that took its time at a.                *)
LEMMA GuardGrants ==
  ASSUME NEW w, NEW h, NEW time, GuardOK(w, h, time), NEW a \in 0 .. MaxTime,
         a <= time, time <= a + Delay, NEW k \in Nat, Budget!Used(w) + k <= Cap
  PROVE  GuardOK(Append(w, [at |-> a, tokens |-> k]), [h EXCEPT ![time] = @ + k], time)
<1> DEFINE e == [at |-> a, tokens |-> k]
           v == Append(w, e)
           g == [h EXCEPT ![time] = @ + k]
<1>1. /\ time \in 0 .. MaxTime /\ w \in Seq(Entry) /\ h \in [0 .. MaxTime -> Nat]
      /\ \A i \in 1 .. Len(w) : w[i].at <= time
      /\ \A u \in 0 .. MaxTime : u > time => h[u] = 0
  BY DEF GuardOK
<1>2. /\ g \in [0 .. MaxTime -> Nat] /\ g[time] = h[time] + k
      /\ \A u \in 0 .. MaxTime : u # time => g[u] = h[u]
  BY <1>1
<1>3. ASSUME NEW first \in Nat, first <= time
      PROVE  /\ Granted(g, first, time) = Granted(h, first, time) + k
             /\ Granted(h, first, time) \in Nat
  BY <1>1, <1>3, GrantedMore, GrantedIsNat
<1>4. ASSUME NEW first \in Nat, NEW t \in 0 .. MaxTime, t < time
      PROVE  Granted(g, first, t) = Granted(h, first, t)
  <2>1. \A i \in 1 .. (t + 1 - first) : first + i - 1 \in 0 .. MaxTime /\ first + i - 1 # time
    BY <1>1, <1>4, BudgetAssumption
  <2>2. \A i \in 1 .. (t + 1 - first) : g[first + i - 1] = h[first + i - 1]
    BY <2>1, <1>2
  <2>3. Grants(g, first, t) = Grants(h, first, t)
    BY <2>2 DEF Grants
  <2>4. QED
    BY <2>3 DEF Granted
<1> HIDE DEF g
<1>5. Len(w) \in Nat /\ \A i \in 1 .. Len(w) : w[i].at \in Nat
  BY <1>1, WindowSums, BudgetAssumption
<1>6. e \in Entry /\ e.at = a /\ e.tokens = k
  BY DEF Entry
<1> HIDE DEF e
<1>7. /\ v \in Seq(Entry) /\ Len(v) = Len(w) + 1 /\ v[Len(w) + 1] = e
      /\ \A i \in 1 .. Len(w) : v[i] = w[i]
  BY <1>1, <1>6, AppendProperties
<1> HIDE DEF v
<1>8. Len(w) + 1 \in 1 .. Len(v) /\ Len(w) + 1 \in Nat /\ \A i \in 1 .. Len(w) : i \in 1 .. Len(v)
  BY <1>5, <1>7
<1>9. /\ Tokens(w) \in Seq(Nat) /\ Len(Tokens(w)) = Len(w)
      /\ Tokens(v) \in Seq(Nat) /\ Len(Tokens(v)) = Len(w) + 1
      /\ \A i \in 1 .. Len(w) : Tokens(v)[i] = Tokens(w)[i]
      /\ Tokens(v)[Len(w) + 1] = k
  <2>1. Tokens(w) \in Seq(Nat) /\ Len(Tokens(w)) = Len(w)
    BY <1>1, WindowSums
  <2>2. /\ Tokens(v) \in Seq(Nat) /\ Len(Tokens(v)) = Len(v)
        /\ \A i \in 1 .. Len(v) : Tokens(v)[i] = v[i].tokens
    BY <1>7, WindowSums
  <2>3. \A i \in 1 .. Len(w) : Tokens(w)[i] = w[i].tokens
    BY <1>1, WindowSums
  <2>4. QED
    BY <2>1, <2>2, <2>3, <1>6, <1>7, <1>8
<1>10. Budget!Total(Tokens(v)) <= Cap
  <2>1. Budget!Total(Tokens(v)) = Budget!Total(Tokens(w)) + k
    BY <1>9, TotalAndOne
  <2>2. QED
    BY <2>1 DEF Budget!Used, Tokens
<1>11. ASSUME NEW f \in 0 .. time, f + Hour >= time + Delay
       PROVE  Granted(g, f, time) <= Budget!Total(Since(v, f))
  <2>1. f \in Nat /\ f \in Int /\ f <= time /\ a + Delay >= f
    BY <1>1, <1>11, BudgetAssumption
  <2>2. /\ Since(w, f) \in Seq(Nat) /\ Len(Since(w, f)) = Len(w)
        /\ \A i \in 1 .. Len(w) :
             Since(w, f)[i] = IF w[i].at + Delay >= f THEN w[i].tokens ELSE 0
    BY <2>1, <1>1, WindowSums
  <2>3. /\ Since(v, f) \in Seq(Nat) /\ Len(Since(v, f)) = Len(v)
        /\ \A i \in 1 .. Len(v) :
             Since(v, f)[i] = IF v[i].at + Delay >= f THEN v[i].tokens ELSE 0
    BY <2>1, <1>7, WindowSums
  <2>4. Since(v, f)[Len(w) + 1] = k /\ \A i \in 1 .. Len(w) : Since(v, f)[i] = Since(w, f)[i]
    BY <2>1, <2>2, <2>3, <1>6, <1>7, <1>8
  <2>5. Budget!Total(Since(v, f)) = Budget!Total(Since(w, f)) + k
    BY <2>2, <2>3, <2>4, <1>7, TotalAndOne, ZenonT(60)
  <2>6. Granted(h, f, time) <= Budget!Total(Since(w, f))
    BY <1>11 DEF GuardOK
  <2>7. Budget!Total(Since(w, f)) \in Nat
    BY <2>2, TotalIsNat
  <2>8. QED
    BY <2>1, <2>5, <2>6, <2>7, <1>3
<1>12. ASSUME NEW j \in 1 .. Len(v)
       PROVE  Budget!Total(SubSeq(Tokens(v), j, Len(v))) <= Granted(g, v[j].at, time)
  <2> DEFINE s == SubSeq(Tokens(v), j, Len(v))
             t == SubSeq(Tokens(w), j, Len(w))
  <2>1. /\ j \in Nat /\ j >= 1 /\ j <= Len(w) + 1 /\ j <= Len(Tokens(v)) + 1
        /\ j <= Len(Tokens(w)) + 1 /\ Len(v) = Len(Tokens(v)) /\ Len(w) = Len(Tokens(w))
    BY <1>5, <1>7, <1>9
  <2>2. /\ s \in Seq(Nat) /\ Len(s) = Len(v) + 1 - j
        /\ \A i \in 1 .. (Len(v) + 1 - j) : s[i] = Tokens(v)[j + i - 1]
    BY <2>1, <1>9, RestIs
  <2>3. /\ t \in Seq(Nat) /\ Len(t) = Len(w) + 1 - j
        /\ \A i \in 1 .. (Len(w) + 1 - j) : t[i] = Tokens(w)[j + i - 1]
    BY <2>1, <1>9, RestIs
  <2> HIDE DEF s, t
  <2>4. Len(s) = Len(t) + 1 /\ Len(t) \in Nat /\ j + (Len(t) + 1) - 1 = Len(w) + 1
    BY <2>1, <2>2, <2>3, <1>5, <1>7
  <2>5. ASSUME NEW i \in 1 .. Len(t) PROVE s[i] = t[i]
    <3>1. /\ i \in 1 .. (Len(w) + 1 - j) /\ i \in 1 .. (Len(v) + 1 - j)
          /\ j + i - 1 \in 1 .. Len(w)
      BY <2>1, <2>3, <1>5, <1>7
    <3>2. QED
      BY <3>1, <2>2, <2>3, <1>9
  <2>6. s[Len(t) + 1] = k
    <3>1. Len(t) + 1 \in 1 .. (Len(v) + 1 - j)
      BY <2>1, <2>2, <2>4
    <3>2. QED
      BY <3>1, <2>2, <2>4, <1>9
  <2>7. Budget!Total(s) = Budget!Total(t) + k
    BY <2>2, <2>3, <2>4, <2>5, <2>6, TotalAndOne
  <2>8. v[j].at \in Nat /\ v[j].at <= time
    <3>1. CASE j \in 1 .. Len(w)
      BY <3>1, <1>1, <1>5, <1>7
    <3>2. CASE j = Len(w) + 1
      BY <3>2, <1>6, <1>7, BudgetAssumption
    <3>3. QED
      BY <3>1, <3>2, <2>1
  <2>9. Granted(g, v[j].at, time) = Granted(h, v[j].at, time) + k
         /\ Granted(h, v[j].at, time) \in Nat
    BY <2>8, <1>3
  <2>10. Budget!Total(t) \in Nat /\ Budget!Total(t) <= Granted(h, v[j].at, time)
    <3>1. Budget!Total(t) \in Nat
      BY <2>3, TotalIsNat
    <3>2. CASE j \in 1 .. Len(w)
      <4>1. Budget!Total(t) <= Granted(h, w[j].at, time)
        BY <3>2 DEF GuardOK, t
      <4>2. QED
        BY <3>1, <3>2, <4>1, <1>7
    <3>3. CASE j = Len(w) + 1
      <4>1. Len(t) = 0
        BY <3>3, <2>3, <1>5
      <4>2. Budget!Total(t) = 0
        BY <4>1, <2>3, TotalOfEmpty
      <4>3. QED
        BY <4>2, <2>9
    <3>4. QED
      BY <3>2, <3>3, <2>1
  <2>11. Budget!Total(s) <= Granted(g, v[j].at, time)
    BY <2>7, <2>9, <2>10
  <2>12. QED
    BY <2>11 DEF s
<1>13. ASSUME NEW t \in 0 .. MaxTime, t < time
       PROVE  Granted(g, Budget!Minus(t, Hour - Delay), t) <= Cap
  <2>1. Budget!Minus(t, Hour - Delay) \in Nat
    BY BudgetAssumption DEF Budget!Minus
  <2>2. QED
    BY <2>1, <1>4, <1>13, GuardKeepsCap
<1>14. \A i \in 1 .. Len(v) : v[i].at <= time
  <2> SUFFICES ASSUME NEW i \in 1 .. Len(v) PROVE v[i].at <= time
    OBVIOUS
  <2>1. CASE i \in 1 .. Len(w)
    BY <2>1, <1>1, <1>7
  <2>2. CASE i = Len(w) + 1
    BY <2>2, <1>6, <1>7
  <2>3. QED
    BY <2>1, <2>2, <1>5, <1>7
<1>15. \A u \in 0 .. MaxTime : u > time => g[u] = 0
  BY <1>1, <1>2, BudgetAssumption
<1>16. GuardOK(v, g, time)
  BY <1>1, <1>2, <1>7, <1>10, <1>11, <1>12, <1>13, <1>14, <1>15 DEF GuardOK
<1>17. QED
  BY <1>16 DEF v, g, e

(* What is denied would not have fitted.                                   *)
LEMMA GuardDenies ==
  ASSUME NEW w, NEW h, NEW time, GuardOK(w, h, time), NEW a \in 0 .. MaxTime,
         a <= time, time <= a + Delay, NEW k \in Nat,
         Budget!Used(Budget!Prune(w, a)) + k > Cap
  PROVE  Granted(h, Budget!Minus(time, Hour + Delay), time) + k > Cap
<1>1. time \in 0 .. MaxTime /\ w \in Seq(Entry) /\ h \in [0 .. MaxTime -> Nat] /\ time \in Nat
  BY BudgetAssumption DEF GuardOK
<1>2. a \in Nat /\ Len(w) \in Nat /\ \A i \in 1 .. Len(w) : w[i].at \in Nat
  BY <1>1, WindowSums, BudgetAssumption
<1>3. PICK d \in 0 .. Len(w) : /\ Budget!Prune(w, a) = SubSeq(w, d + 1, Len(w))
                               /\ d < Len(w) => w[d + 1].at + Hour >= a
  BY <1>1, <1>2, PruneIs
<1> DEFINE v == Budget!Prune(w, a)
           f == Budget!Minus(time, Hour + Delay)
<1>4. /\ v \in Seq(Entry) /\ Len(v) = Len(w) - d
      /\ \A j \in 1 .. Len(v) :
           SubSeq(Tokens(v), j, Len(v)) = SubSeq(Tokens(w), d + j, Len(w))
  BY <1>1, <1>3, Dropped, ZenonT(60)
<1>5. f \in Nat
  BY <1>1, BudgetAssumption DEF Budget!Minus
<1>6. Granted(h, f, time) \in Nat
  BY <1>1, <1>5, GrantedIsNat
<1>7. Budget!Total(Tokens(v)) + k > Cap
  BY DEF Budget!Used, Tokens
<1> HIDE DEF v
<1>8. Tokens(v) \in Seq(Nat) /\ Len(Tokens(v)) = Len(v) /\ Budget!Total(Tokens(v)) \in Nat
  BY <1>4, WindowSums, TotalIsNat
<1>9. Budget!Total(Tokens(v)) <= Granted(h, f, time)
  <2>1. CASE d = Len(w)
    <3>1. Len(Tokens(v)) = 0
      BY <2>1, <1>2, <1>4, <1>8
    <3>2. Budget!Total(Tokens(v)) = 0
      BY <3>1, <1>8, TotalOfEmpty
    <3>3. QED
      BY <3>2, <1>6
  <2>2. CASE d < Len(w)
    <3>1. d + 1 \in 1 .. Len(w) /\ 1 \in 1 .. Len(v) /\ w[d + 1].at \in Nat
      BY <2>2, <1>2, <1>4
    <3>2. f <= w[d + 1].at
      BY <3>1, <2>2, <1>1, <1>2, <1>3, BudgetAssumption DEF Budget!Minus
    <3> HIDE DEF f
    <3>3. Granted(h, w[d + 1].at, time) <= Granted(h, f, time)
      BY <3>1, <3>2, <1>1, <1>5, GrantedInLonger
    <3>4. Budget!Total(SubSeq(Tokens(w), d + 1, Len(w))) <= Granted(h, w[d + 1].at, time)
      BY <3>1 DEF GuardOK
    <3>5. SubSeq(Tokens(w), d + 1, Len(w)) = Tokens(v)
      <4>1. SubSeq(Tokens(v), 1, Len(v)) = Tokens(v)
        BY <1>8, SubSeqFull
      <4>2. QED
        BY <4>1, <3>1, <1>4
    <3>6. Granted(h, w[d + 1].at, time) \in Nat
      BY <3>1, <1>1, GrantedIsNat
    <3>7. Budget!Total(Tokens(v)) <= Granted(h, w[d + 1].at, time)
      BY <3>4, <3>5
    <3>8. QED
      BY <3>3, <3>6, <3>7, <1>6, <1>8
  <2>3. QED
    BY <2>1, <2>2, <1>2
<1> HIDE DEF f
<1>10. Granted(h, f, time) + k > Cap
  BY <1>6, <1>7, <1>8, <1>9, BudgetAssumption
<1>11. QED
  BY <1>10 DEF f

----------------------------------------------------------------------------
(* The guards of the process, and the calls of its threads.                *)

Steps == {"idle", "making", "made", "reading", "estimating", "consuming"} \cup Budget!Outcomes
Calls == [step : Steps, guard : Nat, image : BOOLEAN, at : 0 .. MaxTime, used : Nat, tokens : Nat]

(* A call past TakeGuard has a guard, and one that waits for its lock does *)
(* not wait longer than Delay; n guards were made, s is the process's.     *)
CallOK(k, n, s, time) ==
  /\ k.step \in {"reading", "estimating", "consuming"} => k.guard \in 1 .. n
  /\ k.step = "made" => s # 0
  /\ k.step \in {"reading", "consuming"} => k.at <= time /\ time <= k.at + Delay

BudgetInv ==
  /\ clock \in 0 .. MaxTime
  /\ windows \in Seq(Seq(Entry)) /\ granted \in Seq([0 .. MaxTime -> Nat])
  /\ Len(granted) = Len(windows) /\ singleton \in 0 .. Len(windows)
  /\ call \in [Threads -> Calls]
  /\ \A c \in Threads : CallOK(call[c], Len(windows), singleton, clock)
  /\ \A g \in 1 .. Len(windows) : GuardOK(windows[g], granted[g], clock)

LEMMA IdleIsACall ==
  ASSUME NEW step \in Steps, NEW image \in BOOLEAN, NEW k,
         k = [Budget!Idle EXCEPT !.step = step, !.image = image]
         \/ k = [Budget!Idle EXCEPT !.step = step]
  PROVE  k \in Calls /\ k.step = step
<1>1. Budget!Idle \in Calls
  BY BudgetAssumption DEF Budget!Idle, Calls, Steps
<1>2. QED
  BY <1>1 DEF Calls

LEMMA BudgetStart == Budget!Init => BudgetInv
<1> SUFFICES ASSUME Budget!Init PROVE BudgetInv
  OBVIOUS
<1>1. /\ clock = 0 /\ windows = <<>> /\ singleton = 0 /\ granted = <<>>
      /\ call = [c \in Threads |-> Budget!Idle]
  BY DEF Budget!Init
<1>2. Budget!Idle \in Calls /\ Budget!Idle.step = "idle"
  BY BudgetAssumption DEF Budget!Idle, Calls, Steps
<1>3. /\ <<>> \in Seq(Seq(Entry)) /\ <<>> \in Seq([0 .. MaxTime -> Nat]) /\ Len(<<>>) = 0
      /\ 1 .. Len(<<>>) = {}
  BY EmptySeq
<1>4. \A c \in Threads : CallOK(call[c], Len(windows), singleton, clock)
  BY <1>1, <1>2 DEF CallOK
<1>5. QED
  BY <1>1, <1>2, <1>3, <1>4, BudgetAssumption DEF BudgetInv

(* A step of one call, as the invariant sees it.                           *)
LEMMA CallMoves ==
  ASSUME BudgetInv, NEW c \in Threads, NEW k \in Calls,
         call' = [call EXCEPT ![c] = k], clock' = clock,
         windows' \in Seq(Seq(Entry)), granted' \in Seq([0 .. MaxTime -> Nat]),
         Len(windows) <= Len(windows'), Len(granted') = Len(windows'),
         singleton' \in 0 .. Len(windows'), singleton # 0 => singleton' # 0,
         \A g \in 1 .. Len(windows') : GuardOK(windows'[g], granted'[g], clock),
         CallOK(k, Len(windows'), singleton', clock)
  PROVE  BudgetInv'
<1>1. call \in [Threads -> Calls] /\ Len(windows) \in Nat /\ Len(windows') \in Nat
  BY LenProperties DEF BudgetInv
<1>2. call' \in [Threads -> Calls] /\ call'[c] = k /\ \A d \in Threads \ {c} : call'[d] = call[d]
  BY <1>1
<1>3. ASSUME NEW d \in Threads PROVE CallOK(call'[d], Len(windows'), singleton', clock')
  <2>1. CASE d = c
    BY <2>1, <1>2
  <2>2. CASE d # c
    <3>1. CallOK(call[d], Len(windows), singleton, clock) /\ call'[d] = call[d]
      BY <2>2, <1>2 DEF BudgetInv
    <3>2. QED
      BY <3>1, <1>1 DEF CallOK
  <2>3. QED
    BY <2>1, <2>2
<1>4. QED
  BY <1>2, <1>3 DEF BudgetInv

(* One guard changes.                                                      *)
LEMMA OneGuard ==
  ASSUME BudgetInv, NEW g \in 1 .. Len(windows), NEW w, NEW h, GuardOK(w, h, clock),
         windows' = [windows EXCEPT ![g] = w], granted' = [granted EXCEPT ![g] = h]
  PROVE  /\ windows' \in Seq(Seq(Entry)) /\ granted' \in Seq([0 .. MaxTime -> Nat])
         /\ Len(windows') = Len(windows) /\ Len(granted') = Len(windows')
         /\ \A i \in 1 .. Len(windows') : GuardOK(windows'[i], granted'[i], clock)
<1>1. windows \in Seq(Seq(Entry)) /\ granted \in Seq([0 .. MaxTime -> Nat])
        /\ Len(granted) = Len(windows) /\ g \in 1 .. Len(granted)
  BY DEF BudgetInv
<1>2. w \in Seq(Entry) /\ h \in [0 .. MaxTime -> Nat]
  BY DEF GuardOK
<1>3. /\ windows' \in Seq(Seq(Entry)) /\ Len(windows') = Len(windows)
      /\ \A i \in 1 .. Len(windows) : windows'[i] = IF i = g THEN w ELSE windows[i]
  BY <1>1, <1>2, ExceptSeq
<1>4. /\ granted' \in Seq([0 .. MaxTime -> Nat]) /\ Len(granted') = Len(granted)
      /\ \A i \in 1 .. Len(granted) : granted'[i] = IF i = g THEN h ELSE granted[i]
  BY <1>1, <1>2, ExceptSeq
<1>5. ASSUME NEW i \in 1 .. Len(windows) PROVE GuardOK(windows'[i], granted'[i], clock)
  BY <1>1, <1>3, <1>4 DEF BudgetInv
<1>6. QED
  BY <1>1, <1>3, <1>4, <1>5

(* No guard changes.                                                       *)
LEMMA SameGuards ==
  ASSUME BudgetInv, UNCHANGED <<clock, windows, singleton, granted>>
  PROVE  /\ clock' = clock
         /\ windows' \in Seq(Seq(Entry)) /\ granted' \in Seq([0 .. MaxTime -> Nat])
         /\ Len(windows) <= Len(windows') /\ Len(granted') = Len(windows')
         /\ singleton' \in 0 .. Len(windows') /\ (singleton # 0 => singleton' # 0)
         /\ \A g \in 1 .. Len(windows') : GuardOK(windows'[g], granted'[g], clock)
<1>1. Len(windows) \in Nat
  BY LenProperties DEF BudgetInv
<1>2. QED
  BY <1>1 DEF BudgetInv

LEMMA OverIs ==
  ASSUME BudgetInv, NEW c \in Threads, NEW outcome \in Budget!Outcomes, Budget!Over(c, outcome)
  PROVE  \E k \in Calls : call' = [call EXCEPT ![c] = k] /\ k.step = outcome
<1> DEFINE k == [Budget!Idle EXCEPT !.step = outcome]
<1>1. call' = [call EXCEPT ![c] = k]
  BY DEF Budget!Over
<1>2. k \in Calls /\ k.step = outcome
  BY IdleIsACall DEF Steps
<1> HIDE DEF k
<1>3. QED
  BY <1>1, <1>2

LEMMA Begins ==
  ASSUME BudgetInv, NEW c \in Threads, NEW q \in Requests, Budget!BeginRoute(c, q)
  PROVE  BudgetInv'
<1> DEFINE image == Budget!extract_image_generation_intent(q)
           step == IF singleton = 0 THEN "making" ELSE "made"
           k == [Budget!Idle EXCEPT !.step = step, !.image = image]
<1>1. call' = [call EXCEPT ![c] = k] /\ UNCHANGED <<clock, windows, singleton, granted>>
  BY DEF Budget!BeginRoute
<1>2. image \in BOOLEAN /\ step \in Steps /\ step \in {"making", "made"}
      /\ (step = "made" => singleton # 0)
  BY DEF Budget!extract_image_generation_intent, Steps
<1> HIDE DEF image, step
<1>3. k \in Calls /\ k.step = step
  BY <1>2, IdleIsACall
<1>4. CallOK(k, Len(windows'), singleton', clock)
  BY <1>1, <1>2, <1>3 DEF CallOK
<1> HIDE DEF k
<1>5. QED
  BY <1>1, <1>3, <1>4, SameGuards, CallMoves

LEMMA Makes ==
  ASSUME BudgetInv, NEW c \in Threads, Budget!MakeGuard(c)
  PROVE  BudgetInv'
<1> DEFINE k == [call[c] EXCEPT !.step = "made"]
           h == [t \in 0 .. MaxTime |-> 0]
<1>1. /\ windows' = Append(windows, <<>>) /\ granted' = Append(granted, h)
      /\ singleton' = Len(windows') /\ clock' = clock /\ call' = [call EXCEPT ![c].step = "made"]
  BY DEF Budget!MakeGuard
<1>2. call[c] \in Calls /\ call' = [call EXCEPT ![c] = k]
  BY <1>1 DEF BudgetInv
<1>3. k \in Calls /\ k.step = "made"
  BY <1>2 DEF Calls, Steps
<1> HIDE DEF k
<1>4. GuardOK(<<>>, h, clock)
  BY NewGuard DEF BudgetInv
<1>5. h \in [0 .. MaxTime -> Nat] /\ <<>> \in Seq(Entry)
  BY EmptySeq
<1> HIDE DEF h
<1>6. /\ windows' \in Seq(Seq(Entry)) /\ Len(windows') = Len(windows) + 1
      /\ windows'[Len(windows) + 1] = <<>> /\ \A i \in 1 .. Len(windows) : windows'[i] = windows[i]
  BY <1>1, <1>5, AppendProperties DEF BudgetInv
<1>7. /\ granted' \in Seq([0 .. MaxTime -> Nat]) /\ Len(granted') = Len(windows) + 1
      /\ granted'[Len(windows) + 1] = h /\ \A i \in 1 .. Len(windows) : granted'[i] = granted[i]
  BY <1>1, <1>5, AppendProperties DEF BudgetInv
<1>8. Len(windows) \in Nat
  BY LenProperties DEF BudgetInv
<1>9. ASSUME NEW i \in 1 .. Len(windows') PROVE GuardOK(windows'[i], granted'[i], clock)
  <2>1. CASE i = Len(windows) + 1
    BY <2>1, <1>4, <1>6, <1>7
  <2>2. CASE i \in 1 .. Len(windows)
    BY <2>2, <1>6, <1>7 DEF BudgetInv
  <2>3. QED
    BY <2>1, <2>2, <1>6, <1>8
<1>10. CallOK(k, Len(windows'), singleton', clock) /\ singleton' \in 0 .. Len(windows')
        /\ singleton' # 0 /\ Len(windows) <= Len(windows') /\ Len(granted') = Len(windows')
  BY <1>1, <1>3, <1>6, <1>7, <1>8 DEF CallOK
<1>11. QED
  BY <1>1, <1>2, <1>3, <1>6, <1>7, <1>9, <1>10, CallMoves

LEMMA Takes ==
  ASSUME BudgetInv, NEW c \in Threads, Budget!TakeGuard(c)
  PROVE  BudgetInv'
<1> DEFINE k == [call[c] EXCEPT !.step = "reading", !.guard = singleton, !.at = clock]
<1>1. /\ call[c].step = "made" /\ UNCHANGED <<clock, windows, singleton, granted>>
      /\ call' = [call EXCEPT ![c].step = "reading", ![c].guard = singleton, ![c].at = clock]
  BY DEF Budget!TakeGuard, Budget!At
<1>2. call[c] \in Calls /\ call' = [call EXCEPT ![c] = k]
  BY <1>1 DEF BudgetInv
<1>3. singleton \in 1 .. Len(windows) /\ singleton \in Nat /\ clock \in 0 .. MaxTime
  <2>1. Len(windows) \in Nat
    BY LenProperties DEF BudgetInv
  <2>2. singleton # 0 /\ singleton \in 0 .. Len(windows) /\ clock \in 0 .. MaxTime
    BY <1>1 DEF BudgetInv, CallOK
  <2>3. QED
    BY <2>1, <2>2
<1>4. k \in Calls /\ k.step = "reading" /\ k.guard = singleton /\ k.at = clock
  BY <1>2, <1>3 DEF Calls, Steps
<1> HIDE DEF k
<1>5. CallOK(k, Len(windows'), singleton', clock)
  BY <1>1, <1>3, <1>4, BudgetAssumption DEF CallOK
<1>6. QED
  BY <1>1, <1>2, <1>4, <1>5, SameGuards, CallMoves

LEMMA Reads ==
  ASSUME BudgetInv, NEW c \in Threads, Budget!usage_in_window(c)
  PROVE  BudgetInv'
<1> DEFINE g == call[c].guard
           kept == Budget!Prune(windows[g], call[c].at)
<1>1. /\ call[c].step = "reading" /\ windows' = [windows EXCEPT ![g] = kept]
      /\ UNCHANGED <<clock, singleton, granted>>
      /\ \/ Budget!Over(c, "default") \/ Budget!Over(c, "configuration_error")
         \/ call' = [call EXCEPT ![c].used = Budget!Used(kept), ![c].step = "estimating"]
  BY DEF Budget!usage_in_window, Budget!At
<1>2. /\ call[c] \in Calls /\ g \in 1 .. Len(windows) /\ call[c].at \in Nat
      /\ call[c].at <= clock /\ GuardOK(windows[g], granted[g], clock)
  BY <1>1, BudgetAssumption DEF BudgetInv, CallOK, Calls
<1>3. GuardOK(kept, granted[g], clock)
  BY <1>2, GuardPrunes
<1>4. granted' = [granted EXCEPT ![g] = granted[g]]
  BY <1>1 DEF BudgetInv
<1>5. \E k \in Calls : call' = [call EXCEPT ![c] = k] /\ CallOK(k, Len(windows), singleton, clock)
  <2>1. CASE Budget!Over(c, "default") \/ Budget!Over(c, "configuration_error")
    <3>1. PICK outcome \in Budget!Outcomes : Budget!Over(c, outcome)
      BY <2>1 DEF Budget!Outcomes
    <3>2. PICK k \in Calls : call' = [call EXCEPT ![c] = k] /\ k.step = outcome
      BY <3>1, OverIs
    <3>3. QED
      BY <3>2 DEF CallOK, Budget!Outcomes
  <2>2. CASE call' = [call EXCEPT ![c].used = Budget!Used(kept), ![c].step = "estimating"]
    <3> DEFINE used == Budget!Used(kept)
               k == [call[c] EXCEPT !.used = used, !.step = "estimating"]
    <3>1. used \in Nat
      <4>1. Tokens(kept) \in Seq(Nat)
        BY <1>3, WindowSums DEF GuardOK
      <4>2. QED
        BY <4>1, TotalIsNat DEF Budget!Used, Tokens
    <3> HIDE DEF used
    <3>2. call' = [call EXCEPT ![c] = k]
      BY <2>2, <1>2 DEF BudgetInv, used
    <3>3. k \in Calls /\ k.step = "estimating" /\ k.guard = g
      BY <3>1, <1>2 DEF Calls, Steps
    <3> HIDE DEF k
    <3>4. QED
      BY <3>2, <3>3, <1>2 DEF CallOK
  <2>3. QED
    BY <2>1, <2>2, <1>1
<1> HIDE DEF kept, g
<1>6. /\ windows' \in Seq(Seq(Entry)) /\ granted' \in Seq([0 .. MaxTime -> Nat])
      /\ Len(windows') = Len(windows) /\ Len(granted') = Len(windows')
      /\ \A i \in 1 .. Len(windows') : GuardOK(windows'[i], granted'[i], clock)
  BY <1>1, <1>2, <1>3, <1>4, OneGuard
<1>7. Len(windows) <= Len(windows') /\ singleton' \in 0 .. Len(windows') /\ singleton' = singleton
  <2>1. Len(windows) \in Nat /\ singleton \in 0 .. Len(windows)
    BY LenProperties DEF BudgetInv
  <2>2. QED
    BY <2>1, <1>1, <1>6
<1>8. PICK k \in Calls : call' = [call EXCEPT ![c] = k] /\ CallOK(k, Len(windows), singleton, clock)
  BY <1>5
<1>9. CallOK(k, Len(windows'), singleton', clock)
  BY <1>6, <1>7, <1>8
<1>10. QED
  BY <1>1, <1>6, <1>7, <1>8, <1>9, CallMoves

LEMMA Estimated ==
  ASSUME BudgetInv, NEW c \in Threads, NEW tokens \in Estimates, Budget!Estimate(c, tokens)
  PROVE  BudgetInv'
<1>1. /\ call[c].step = "estimating" /\ UNCHANGED <<clock, windows, singleton, granted>>
      /\ \/ Budget!Over(c, "budget_exceeded")
         \/ call' = [call EXCEPT ![c].step = "consuming", ![c].tokens = tokens, ![c].at = clock]
  BY DEF Budget!Estimate, Budget!At
<1>2. /\ call[c] \in Calls /\ call[c].guard \in 1 .. Len(windows) /\ clock \in 0 .. MaxTime
      /\ singleton \in 0 .. Len(windows)
  BY <1>1 DEF BudgetInv, CallOK
<1>3. \E k \in Calls : call' = [call EXCEPT ![c] = k] /\ CallOK(k, Len(windows), singleton, clock)
  <2>1. CASE Budget!Over(c, "budget_exceeded")
    <3>1. PICK k \in Calls : call' = [call EXCEPT ![c] = k] /\ k.step = "budget_exceeded"
      BY <2>1, OverIs DEF Budget!Outcomes
    <3>2. QED
      BY <3>1 DEF CallOK
  <2>2. CASE call' = [call EXCEPT ![c].step = "consuming", ![c].tokens = tokens, ![c].at = clock]
    <3> DEFINE k == [call[c] EXCEPT !.step = "consuming", !.tokens = tokens, !.at = clock]
    <3>1. call' = [call EXCEPT ![c] = k]
      BY <2>2, <1>2 DEF BudgetInv
    <3>2. tokens \in Nat
      BY BudgetAssumption
    <3>3. k \in Calls /\ k.step = "consuming" /\ k.guard = call[c].guard /\ k.at = clock
      BY <3>2, <1>2 DEF Calls, Steps
    <3> HIDE DEF k
    <3>4. CallOK(k, Len(windows), singleton, clock)
      BY <3>3, <1>2, BudgetAssumption DEF CallOK
    <3>5. QED
      BY <3>1, <3>3, <3>4
  <2>3. QED
    BY <2>1, <2>2, <1>1
<1>4. PICK k \in Calls : call' = [call EXCEPT ![c] = k] /\ CallOK(k, Len(windows), singleton, clock)
  BY <1>3
<1>5. CallOK(k, Len(windows'), singleton', clock)
  BY <1>1, <1>4
<1>6. QED
  BY <1>1, <1>4, <1>5, SameGuards, CallMoves

(* try_consume: what it sees, whichever way it decides.                    *)
LEMMA ConsumeSees ==
  ASSUME BudgetInv, NEW c \in Threads, call[c].step = "consuming"
  PROVE  /\ call[c] \in Calls /\ call[c].guard \in 1 .. Len(windows)
         /\ call[c].at \in 0 .. MaxTime /\ call[c].at \in Nat /\ call[c].tokens \in Nat
         /\ call[c].at <= clock /\ clock <= call[c].at + Delay
         /\ GuardOK(windows[call[c].guard], granted[call[c].guard], clock)
<1>1. call[c] \in Calls /\ CallOK(call[c], Len(windows), singleton, clock)
  BY DEF BudgetInv
<1>2. /\ call[c].guard \in 1 .. Len(windows) /\ call[c].at <= clock
      /\ clock <= call[c].at + Delay
  BY <1>1 DEF CallOK
<1>3. call[c].at \in 0 .. MaxTime /\ call[c].at \in Nat /\ call[c].tokens \in Nat
  BY <1>1, BudgetAssumption DEF Calls
<1>4. QED
  BY <1>1, <1>2, <1>3 DEF BudgetInv

LEMMA Consumes ==
  ASSUME BudgetInv, NEW c \in Threads, Budget!try_consume(c)
  PROVE  BudgetInv'
<1> DEFINE g == call[c].guard
           a == call[c].at
           n == call[c].tokens
           w == windows[g]
           h == granted[g]
           kept == Budget!Prune(w, a)
           fits == Budget!Used(kept) + n <= Cap
<1>1. /\ call[c].step = "consuming" /\ UNCHANGED <<clock, singleton>>
      /\ windows' = [windows EXCEPT ![g] =
           IF fits THEN Append(kept, [at |-> a, tokens |-> n]) ELSE kept]
      /\ granted' = IF fits THEN [granted EXCEPT ![g][clock] = @ + n] ELSE granted
      /\ Budget!Over(c, IF fits THEN "image" ELSE "budget_exceeded")
  BY DEF Budget!try_consume, Budget!At
<1>2. /\ call[c] \in Calls /\ g \in 1 .. Len(windows) /\ a \in 0 .. MaxTime /\ a \in Nat
      /\ n \in Nat /\ a <= clock /\ clock <= a + Delay /\ GuardOK(w, h, clock)
  BY <1>1, ConsumeSees
<1>3. GuardOK(kept, h, clock)
  BY <1>2, GuardPrunes
<1> HIDE DEF kept
<1>4. \E v, d : GuardOK(v, d, clock) /\ windows' = [windows EXCEPT ![g] = v]
                  /\ granted' = [granted EXCEPT ![g] = d]
  <2>1. CASE fits
    <3>1. GuardOK(Append(kept, [at |-> a, tokens |-> n]), [h EXCEPT ![clock] = @ + n], clock)
      BY <2>1, <1>2, <1>3, GuardGrants
    <3>2. granted' = [granted EXCEPT ![g] = [h EXCEPT ![clock] = @ + n]]
      BY <2>1, <1>1, <1>2 DEF BudgetInv
    <3>3. QED
      BY <2>1, <1>1, <3>1, <3>2
  <2>2. CASE ~fits
    <3>1. granted' = [granted EXCEPT ![g] = h]
      BY <2>2, <1>1 DEF BudgetInv
    <3>2. QED
      BY <2>2, <1>1, <1>3, <3>1
  <2>3. QED
    BY <2>1, <2>2
<1>5. PICK v, d : GuardOK(v, d, clock) /\ windows' = [windows EXCEPT ![g] = v]
                    /\ granted' = [granted EXCEPT ![g] = d]
  BY <1>4
<1>6. PICK k \in Calls : call' = [call EXCEPT ![c] = k] /\ k.step \in Budget!Outcomes
  <2> DEFINE outcome == IF fits THEN "image" ELSE "budget_exceeded"
  <2>1. outcome \in Budget!Outcomes /\ Budget!Over(c, outcome)
    BY <1>1 DEF Budget!Outcomes
  <2> HIDE DEF outcome
  <2>2. QED
    BY <2>1, OverIs
<1>7. /\ windows' \in Seq(Seq(Entry)) /\ granted' \in Seq([0 .. MaxTime -> Nat])
      /\ Len(windows') = Len(windows) /\ Len(granted') = Len(windows')
      /\ \A i \in 1 .. Len(windows') : GuardOK(windows'[i], granted'[i], clock)
  BY <1>2, <1>5, OneGuard
<1>8. Len(windows) <= Len(windows') /\ singleton' \in 0 .. Len(windows') /\ singleton' = singleton
  <2>1. Len(windows) \in Nat /\ singleton \in 0 .. Len(windows)
    BY LenProperties DEF BudgetInv
  <2>2. QED
    BY <2>1, <1>1, <1>7
<1>9. CallOK(k, Len(windows'), singleton', clock)
  BY <1>6 DEF CallOK, Budget!Outcomes
<1>10. QED
  BY <1>1, <1>6, <1>7, <1>8, <1>9, CallMoves

LEMMA Ticks ==
  ASSUME BudgetInv, Budget!Tick
  PROVE  BudgetInv'
<1>1. /\ clock < MaxTime /\ clock' = clock + 1 /\ UNCHANGED <<windows, singleton, call, granted>>
      /\ \A c \in Threads : call[c].step \in {"reading", "consuming"} => clock < call[c].at + Delay
  BY DEF Budget!Tick
<1>2. clock' \in 0 .. MaxTime
  BY <1>1, BudgetAssumption DEF BudgetInv
<1>3. ASSUME NEW c \in Threads PROVE CallOK(call[c], Len(windows), singleton, clock + 1)
  <2>1. CallOK(call[c], Len(windows), singleton, clock) /\ call[c].at \in 0 .. MaxTime
    BY DEF BudgetInv, Calls
  <2>2. clock \in Int /\ call[c].at \in Int /\ Delay \in Int
    BY <2>1, BudgetAssumption DEF BudgetInv
  <2>3. QED
    BY <2>1, <2>2, <1>1 DEF CallOK
<1>4. ASSUME NEW g \in 1 .. Len(windows) PROVE GuardOK(windows[g], granted[g], clock + 1)
  BY <1>1, GuardTicks DEF BudgetInv
<1>5. QED
  BY <1>1, <1>2, <1>3, <1>4 DEF BudgetInv

LEMMA BudgetStep == BudgetInv /\ [Budget!Next]_(Budget!vars) => BudgetInv'
<1> SUFFICES ASSUME BudgetInv, [Budget!Next]_(Budget!vars) PROVE BudgetInv'
  OBVIOUS
<1>1. CASE \E c \in Threads :
             \/ \E q \in Requests : Budget!BeginRoute(c, q)
             \/ Budget!MakeGuard(c) \/ Budget!TakeGuard(c) \/ Budget!usage_in_window(c)
             \/ \E tokens \in Estimates : Budget!Estimate(c, tokens)
             \/ Budget!try_consume(c)
  BY <1>1, Begins, Makes, Takes, Reads, Estimated, Consumes
<1>2. CASE Budget!Tick
  BY <1>2, Ticks
<1>3. CASE UNCHANGED Budget!vars
  BY <1>3 DEF Budget!vars, BudgetInv
<1>4. QED
  BY <1>1, <1>2, <1>3 DEF Budget!Next

(* The image agent's budget: in no stretch of an hour, less the time a     *)
(* caller may wait for the lock, does the guard of a process grant more    *)
(* than the cap, however many threads ask at once (openai_hourly_budget).  *)
THEOREM CapHolds == Budget!Spec => []WithinCap
<1>1. BudgetInv => WithinCap
  <2> SUFFICES ASSUME BudgetInv, singleton # 0, NEW t \in 0 .. MaxTime
               PROVE  Budget!Between(singleton, Budget!Minus(t, Hour - Delay), t) <= Cap
    BY DEF WithinCap, Budget!WithinCap
  <2>1. singleton \in 1 .. Len(windows)
    BY LenProperties DEF BudgetInv
  <2>2. GuardOK(windows[singleton], granted[singleton], clock)
    BY <2>1 DEF BudgetInv
  <2>3. Granted(granted[singleton], Budget!Minus(t, Hour - Delay), t) <= Cap
    BY <2>2, GuardKeepsCap
  <2>4. QED
    BY <2>3 DEF Granted, Grants, Budget!Between
<1>2. QED
  BY BudgetStart, BudgetStep, <1>1, PTL DEF Budget!Spec

(* And it denies a call only where the hour before it, with the wait, is   *)
(* full: what was denied, and what is older, does not count.               *)
THEOREM DenialIsEarned == Budget!Spec => DeniedOnlyWhenFull
<1> DEFINE Earned(c) ==
      call[c].step = "consuming" /\ call'[c].step = "budget_exceeded" =>
        Budget!Between(call[c].guard, Budget!Minus(clock, Hour + Delay), clock)
          + call[c].tokens > Cap
<1>1. BudgetInv /\ [Budget!Next]_(Budget!vars) =>
        [\A c \in Threads : Earned(c)]_(Budget!vars)
  <2> SUFFICES ASSUME BudgetInv, Budget!Next, NEW c \in Threads,
                      call[c].step = "consuming", call'[c].step = "budget_exceeded"
               PROVE  Budget!Between(call[c].guard, Budget!Minus(clock, Hour + Delay), clock)
                        + call[c].tokens > Cap
    OBVIOUS
  <2> DEFINE w == windows[call[c].guard]
             h == granted[call[c].guard]
             kept == Budget!Prune(w, call[c].at)
  <2>1. /\ call[c].at \in 0 .. MaxTime /\ call[c].tokens \in Nat /\ call[c].at <= clock
        /\ clock <= call[c].at + Delay /\ GuardOK(w, h, clock)
    BY ConsumeSees
  <2>2. Budget!try_consume(c)
    <3>1. call \in [Threads -> Calls] /\ call'[c] # call[c]
      BY DEF BudgetInv
    <3>2. ASSUME NEW d \in Threads, d # c,
                 \/ \E q \in Requests : Budget!BeginRoute(d, q)
                 \/ Budget!MakeGuard(d) \/ Budget!TakeGuard(d) \/ Budget!usage_in_window(d)
                 \/ \E tokens \in Estimates : Budget!Estimate(d, tokens)
                 \/ Budget!try_consume(d)
          PROVE  FALSE
      <4>1. call'[c] = call[c]
        BY <3>1, <3>2 DEF Budget!BeginRoute, Budget!MakeGuard, Budget!TakeGuard,
             Budget!usage_in_window, Budget!Estimate, Budget!try_consume, Budget!Over
      <4>2. QED
        BY <4>1, <3>1
    <3>3. ASSUME \/ \E q \in Requests : Budget!BeginRoute(c, q)
                 \/ Budget!MakeGuard(c) \/ Budget!TakeGuard(c) \/ Budget!usage_in_window(c)
                 \/ \E tokens \in Estimates : Budget!Estimate(c, tokens)
          PROVE  FALSE
      BY <3>3 DEF Budget!BeginRoute, Budget!MakeGuard, Budget!TakeGuard,
           Budget!usage_in_window, Budget!Estimate, Budget!At, Budget!Outcomes
    <3>4. ~Budget!Tick
      BY <3>1 DEF Budget!Tick
    <3>5. QED
      BY <3>2, <3>3, <3>4 DEF Budget!Next
  <2>3. ~(Budget!Used(kept) + call[c].tokens <= Cap)
    <3> SUFFICES ASSUME Budget!Used(kept) + call[c].tokens <= Cap PROVE FALSE
      OBVIOUS
    <3>1. Budget!Over(c, "image")
      BY <2>2 DEF Budget!try_consume
    <3>2. PICK k \in Calls : call' = [call EXCEPT ![c] = k] /\ k.step = "image"
      BY <3>1, OverIs DEF Budget!Outcomes
    <3>3. QED
      BY <3>2 DEF BudgetInv
  <2>4. Budget!Used(kept) \in Nat
    <3>1. GuardOK(kept, h, clock)
      BY <2>1, GuardPrunes, BudgetAssumption
    <3>2. Tokens(kept) \in Seq(Nat)
      BY <3>1, WindowSums DEF GuardOK
    <3>3. QED
      BY <3>2, TotalIsNat DEF Budget!Used, Tokens
  <2>5. Budget!Used(kept) + call[c].tokens > Cap
    BY <2>1, <2>3, <2>4, BudgetAssumption
  <2>6. Granted(h, Budget!Minus(clock, Hour + Delay), clock) + call[c].tokens > Cap
    BY <2>1, <2>5, GuardDenies
  <2>7. QED
    BY <2>6 DEF Granted, Grants, Budget!Between
<1>2. QED
  BY BudgetStart, BudgetStep, <1>1, PTL
    DEF Budget!Spec, DeniedOnlyWhenFull, Budget!DeniedOnlyWhenFull, Budget!At

----------------------------------------------------------------------------
(* The repository: what is saved stays saved.                              *)

(* A save of one of the tables that have no path of their own.             *)
LEMMA SaveIs ==
  ASSUME NEW t \in Store!MemoryTables \ {"graph_run_event", "cross_run_memory"}, NEW R, NEW r
  PROVE  LET result == Store!Postgres!save(t, R, r)
         IN \/ result = Store!Postgres!ignore_duplicates(t, R, r)
            \/ result = Store!Postgres!upsert(t, R, r)
            \/ t = "page_visit_log" /\ result = Store!Postgres!insert(t, R, r)
<1>1. t \in {"checkpoint", "role_invocation", "build_spec", "build_candidate",
             "evaluation_report", "staging_snapshot", "publication_snapshot",
             "staging_checkpoint", "identity_source", "identity_profile",
             "working_staging", "graph_run", "page_visit_log"}
  BY DEF Store!MemoryTables, Store!Memory!Keyed, Store!Memory!Lists
<1>2. QED
  BY <1>1 DEF Store!Postgres!save, Store!Postgres!save_checkpoint,
     Store!Postgres!save_role_invocation, Store!Postgres!save_build_spec, Store!Postgres!save_build_candidate,
     Store!Postgres!save_evaluation_report, Store!Postgres!save_staging_snapshot,
     Store!Postgres!save_publication_snapshot, Store!Postgres!save_staging_checkpoint,
     Store!Postgres!create_identity_source, Store!Postgres!upsert_identity_profile,
     Store!Postgres!save_working_staging, Store!Postgres!save_graph_run,
     Store!Postgres!append_page_visit_log

Plain(r) == [r EXCEPT !.number = None]

(* What a record says apart from its number is a version that was made.    *)
Known(r) == r \in Store!Record /\ [r EXCEPT !.number = None] \in made

(* A row of a table with one row per owner keeps its id when it is         *)
(* replaced; it is of a record that was made for its owner.                *)
RowMade(r) == /\ r \in Store!Record
              /\ \E m \in made : m.id = r.id /\ m.owner = r.owner
              /\ table \notin Store!Memory!Keyed => Known(r)
              /\ table # "graph_run_event" => r.number = None

KeyOf(r) == IF table \in Store!Memory!Keyed THEN r.owner ELSE r.id

(* The versions of a record differ in kind only, and number.               *)
MadeOK ==
  /\ table \in Tables /\ indexed \in BOOLEAN
  /\ made \subseteq Store!Record
  /\ \A m \in made : m.number = None
  /\ \A m, n \in made : m.id = n.id =>
       m.owner = n.owner /\ m.at = n.at /\ m.named = n.named /\ (m.rev = n.rev => m = n)
  /\ table = "graph_run_event" => \A m \in made : m.rev = 1
  /\ \E n \in Nat : {m.id : m \in made} = 1 .. n

Holds(R, r) == \E t \in R : KeyOf(t) = KeyOf(r)

(* Another event of the run of r has the number n.                         *)
Taken(R, r, n) == \E s \in R : s.owner = r.owner /\ s.id # r.id /\ s.number = n

(* All the numbers that r was tried with are others'.                      *)
GivenUp(R, r) ==
  /\ table = "graph_run_event" /\ r.number # None
  /\ \A n \in (r.number - MaxBumps + 1) .. r.number : Taken(R, r, n)

(* x is an event whose save returned.                                      *)
Returned(A, x) == table = "graph_run_event" /\ \E r \in A : Plain(r) = x

LogOK == /\ stored \in Seq(Store!Record)
         /\ \A i \in DOMAIN stored :
              stored[i] \in made /\ (Holds(rows, stored[i]) \/ Returned(answered, stored[i]))

RowsOK == \A s \in rows : RowMade(s)

Saves ==
  [step : {"idle", "look", "write"}, update : BOOLEAN, row : Store!Record \cup {None},
   attempt : 0 .. MaxAttempts, arrived : BOOLEAN, existing : Store!Record \cup {None},
   bumps : Nat]

(* A call of the cross-run memory updates the row that it found.  The call *)
(* of an event has its row there, or has found each number taken that it   *)
(* was bumped from.                                                        *)
SaveOK(R, k) ==
  /\ k \in Saves
  /\ k # Store!NoCall =>
       /\ k.step \in {"look", "write"} /\ k.attempt \in 1 .. MaxAttempts
       /\ Known(k.row)
       /\ k.step = "look" =>
            /\ table \in {"graph_run_event", "cross_run_memory"}
            /\ k.row.number = None /\ k.bumps = 0
       /\ table # "graph_run_event" => k.row.number = None
       /\ k.row.number # None =>
            \/ Holds(R, k.row)
            \/ \A n \in (k.row.number - k.bumps) .. (k.row.number - 1) : Taken(R, k.row, n)
       /\ k.update => table = "graph_run" /\ Holds(R, k.row)
       /\ k.existing # None =>
            /\ table = "cross_run_memory"
            /\ \E s \in R : s.id = k.existing.id /\ s.owner = k.row.owner

CallsOK == saving = [c \in Clients |-> saving[c]] /\ \A c \in Clients : SaveOK(rows, saving[c])

AnswersOK == \A r \in answered : Known(r) /\ (Holds(rows, r) \/ GivenUp(rows, r))

(* The numbers of a run's events are 0 .. n - 1, each once, and a call     *)
(* that is about to write one goes on from there at most.                  *)
Numbered(o) == {s \in rows : s.owner = o /\ s.number # None}

UpTo(n, o) ==
  /\ {s.number : s \in Numbered(o)} = 0 .. (n - 1)
  /\ \A s, t \in Numbered(o) : s.number = t.number => s = t
  /\ \A c \in Clients :
       saving[c].step = "write" /\ saving[c].row.owner = o /\ saving[c].row.number # None =>
         saving[c].row.number \in 0 .. n

NumbersOK == table = "graph_run_event" => \A o \in Owners : \E n \in Nat : UpTo(n, o)

StoreInv ==
  /\ MadeOK /\ LogOK /\ RowsOK /\ CallsOK /\ AnswersOK
  /\ alone \in BOOLEAN /\ refused \subseteq 1 .. MaxRecords[table]
  /\ table \notin {"page_visit_log", "cross_run_memory"} => refused = {}

LEMMA NoCallIsIdle == Store!NoCall \in Saves
BY StoreAssumption DEF Store!NoCall, Saves

LEMMA StoreStart == Store!Init => StoreInv
<1> SUFFICES ASSUME Store!Init PROVE StoreInv
  OBVIOUS
<1>1. /\ table \in Tables /\ indexed \in BOOLEAN /\ stored = <<>> /\ rows = {} /\ made = {}
      /\ saving = [c \in Clients |-> Store!NoCall] /\ answered = {} /\ refused = {}
      /\ alone = TRUE
  BY DEF Store!Init
<1>2. MadeOK
  <2>1. {m.id : m \in made} = 1 .. 0
    BY <1>1
  <2>2. QED
    BY <1>1, <2>1 DEF MadeOK
<1>3. LogOK
  BY <1>1 DEF LogOK
<1>4. CallsOK
  BY <1>1, NoCallIsIdle DEF CallsOK, SaveOK
<1>5. QED
  BY <1>1, <1>2, <1>3, <1>4 DEF StoreInv, RowsOK, AnswersOK

----------------------------------------------------------------------------
(* What one request does.                                                  *)

(* No key is lost, no row of the cross-run memory, and no event.           *)
Follows(R) ==
  /\ \A s \in rows : \E t \in R :
       KeyOf(t) = KeyOf(s) /\ (table = "cross_run_memory" => t.id = s.id /\ t.owner = s.owner)
  /\ table = "graph_run_event" => rows \subseteq R

(* What a request that is carried out does and answers.                    *)
CarriedOK(r, result) ==
  /\ result.verdict \in {"ok", "pkey", "sequence"}
  /\ \A s \in result.rows : RowMade(s)
  /\ Follows(result.rows)
  /\ result.verdict = "ok" => Holds(result.rows, r)
  /\ result.verdict = "pkey" =>
       /\ table \in {"graph_run_event", "page_visit_log", "cross_run_memory"}
       /\ table = "graph_run_event" => Holds(rows, r)
  /\ result.verdict = "sequence" => table = "graph_run_event" /\ r.number \in Nat

LEMMA KnownIsRow ==
  ASSUME NEW r, Known(r), table # "graph_run_event" => r.number = None
  PROVE  RowMade(r)
<1>1. r \in Store!Record /\ [r EXCEPT !.number = None] \in made
  BY DEF Known
<1>2. [r EXCEPT !.number = None].id = r.id /\ [r EXCEPT !.number = None].owner = r.owner
  BY <1>1 DEF Store!Record, Store!RecordOf
<1>3. QED
  BY <1>1, <1>2 DEF RowMade, Known

(* The rows that have the key of r.                                        *)
LEMMA WithKeyIs ==
  ASSUME NEW r
  PROVE  Store!Postgres!WithKey(table, rows, r) = {s \in rows : KeyOf(s) = KeyOf(r)}
BY DEF Store!Postgres!WithKey, KeyOf, Store!Memory!Keyed

LEMMA Ignores ==
  ASSUME RowsOK, NEW r, RowMade(r)
  PROVE  CarriedOK(r, Store!Postgres!ignore_duplicates(table, rows, r))
<1> DEFINE R == IF {s \in rows : KeyOf(s) = KeyOf(r)} = {} THEN rows \cup {r} ELSE rows
<1>1. Store!Postgres!ignore_duplicates(table, rows, r) = [rows |-> R, verdict |-> "ok"]
  BY WithKeyIs DEF Store!Postgres!ignore_duplicates, Store!Postgres!Answer
<1>2. \A s \in R : RowMade(s)
  BY DEF RowsOK
<1>3. Follows(R) /\ Holds(R, r)
  BY DEF Follows, Holds
<1> HIDE DEF R
<1>4. QED
  BY <1>1, <1>2, <1>3 DEF CarriedOK

LEMMA Upserts ==
  ASSUME RowsOK, NEW r, RowMade(r), table \notin {"cross_run_memory", "graph_run_event"}
  PROVE  CarriedOK(r, Store!Postgres!upsert(table, rows, r))
<1> DEFINE R == (rows \ {s \in rows : KeyOf(s) = KeyOf(r)}) \cup {r}
<1>1. Store!Postgres!upsert(table, rows, r) = [rows |-> R, verdict |-> "ok"]
  BY WithKeyIs DEF Store!Postgres!upsert, Store!Postgres!Answer
<1>2. \A s \in R : RowMade(s)
  BY DEF RowsOK
<1>3. Follows(R) /\ Holds(R, r)
  BY DEF Follows, Holds
<1> HIDE DEF R
<1>4. QED
  BY <1>1, <1>2, <1>3 DEF CarriedOK

LEMMA Inserts ==
  ASSUME RowsOK, NEW r, RowMade(r), table \in {"page_visit_log", "cross_run_memory"}
  PROVE  CarriedOK(r, Store!Postgres!insert(table, rows, r))
<1> DEFINE free == {s \in rows : KeyOf(s) = KeyOf(r)} = {}
           R == IF free THEN rows \cup {r} ELSE rows
           verdict == IF free THEN "ok" ELSE "pkey"
<1>1. Store!Postgres!insert(table, rows, r) = [rows |-> R, verdict |-> verdict]
  BY WithKeyIs DEF Store!Postgres!insert, Store!Postgres!Answer
<1>2. \A s \in R : RowMade(s)
  BY DEF RowsOK
<1>3. Follows(R) /\ (free => Holds(R, r))
  BY DEF Follows, Holds
<1>4. verdict \in {"ok", "pkey"} /\ (verdict = "ok" => free)
  OBVIOUS
<1> HIDE DEF R, verdict, free
<1>5. QED
  BY <1>1, <1>2, <1>3, <1>4 DEF CarriedOK

(* Another version of a record differs from it as an update does.          *)
LEMMA UpdatedIsMade ==
  ASSUME MadeOK, NEW r, Known(r), r.number = None, NEW s, Known(s), s.id = r.id
  PROVE  [s EXCEPT !.kind = r.kind, !.rev = r.rev] = [r EXCEPT !.number = s.number]
<1>1. r \in Store!Record /\ s \in Store!Record
  BY DEF Known
<1>2. [r EXCEPT !.number = None] \in made /\ [s EXCEPT !.number = None] \in made
  BY DEF Known
<1>3. s.owner = r.owner /\ s.at = r.at /\ s.named = r.named
  BY <1>1, <1>2 DEF MadeOK, Store!Record, Store!RecordOf
<1>4. QED
  BY <1>1, <1>3 DEF Store!Record, Store!RecordOf

LEMMA UpdatesStatus ==
  ASSUME RowsOK, MadeOK, NEW r, Known(r), table = "graph_run", r.number = None, Holds(rows, r)
  PROVE  CarriedOK(r, Store!Postgres!update_graph_run_status(rows, r))
<1> DEFINE Kept(s) == IF s.id = r.id THEN [s EXCEPT !.kind = r.kind, !.rev = r.rev] ELSE s
           R == {Kept(s) : s \in rows}
<1>1. Store!Postgres!update_graph_run_status(rows, r) = [rows |-> R, verdict |-> "ok"]
  BY DEF Store!Postgres!update_graph_run_status, Store!Postgres!Answer
<1>2. KeyOf(r) = r.id /\ table \notin Store!Memory!Keyed
  BY DEF KeyOf, Store!Memory!Keyed
<1>3. ASSUME NEW s \in rows PROVE RowMade(Kept(s)) /\ KeyOf(Kept(s)) = KeyOf(s)
  <2>1. Known(s) /\ RowMade(s) /\ s.number = None
    BY <1>2 DEF RowsOK, RowMade
  <2>2. CASE s.id = r.id
    <3>1. Kept(s) = [r EXCEPT !.number = None]
      <4>1. [s EXCEPT !.kind = r.kind, !.rev = r.rev] = [r EXCEPT !.number = s.number]
        BY <2>1, <2>2, UpdatedIsMade
      <4>2. QED
        BY <4>1, <2>1, <2>2
    <3>2. [r EXCEPT !.number = None] = r
      BY DEF Known, Store!Record, Store!RecordOf
    <3>3. RowMade(r)
      BY KnownIsRow
    <3> HIDE DEF Kept
    <3>4. QED
      BY <3>1, <3>2, <3>3, <2>2, <1>2 DEF KeyOf
  <2>3. CASE s.id # r.id
    BY <2>1, <2>3
  <2>4. QED
    BY <2>2, <2>3
<1> HIDE DEF Kept
<1>4. \A s \in R : RowMade(s)
  BY <1>3
<1>5. Follows(R) /\ Holds(R, r)
  BY <1>3 DEF Follows, Holds
<1> HIDE DEF R
<1>6. QED
  BY <1>1, <1>4, <1>5 DEF CarriedOK

(* The row of the cross-run memory that was found is replaced.             *)
LEMMA UpdatesMemory ==
  ASSUME RowsOK, MadeOK, NEW r, Known(r), table = "cross_run_memory", r.number = None,
         NEW existing \in Store!Record \cup {None},
         existing # None => \E s \in rows : s.id = existing.id /\ s.owner = r.owner
  PROVE  CarriedOK(r, Store!Postgres!upsert_identity_cross_run_memory(rows, r, existing))
<1>0. RowMade(r)
  BY KnownIsRow
<1>1. CASE existing = None
  BY <1>0, <1>1, Inserts DEF Store!Postgres!upsert_identity_cross_run_memory
<1>2. CASE existing # None
  <2> DEFINE Kept(s) == IF s.id = existing.id THEN [r EXCEPT !.id = s.id] ELSE s
             R == {Kept(s) : s \in rows}
  <2>1. Store!Postgres!upsert_identity_cross_run_memory(rows, r, existing)
          = [rows |-> R, verdict |-> "ok"]
    BY <1>2 DEF Store!Postgres!upsert_identity_cross_run_memory, Store!Postgres!Answer
  <2>2. table \in Store!Memory!Keyed /\ \A s : KeyOf(s) = s.owner
    BY DEF KeyOf, Store!Memory!Keyed
  <2>3. PICK found \in rows : found.id = existing.id /\ found.owner = r.owner
    BY <1>2
  <2>4. ASSUME NEW s \in rows
        PROVE  RowMade(Kept(s)) /\ Kept(s).owner = s.owner /\ Kept(s).id = s.id
    <3>1. RowMade(s) /\ RowMade(found) /\ r \in Store!Record
      BY <1>0 DEF RowsOK, RowMade
    <3>2. CASE s.id = existing.id
      <4>1. s.owner = found.owner
        <5>1. PICK m \in made : m.id = s.id /\ m.owner = s.owner
          BY <3>1 DEF RowMade
        <5>2. PICK n \in made : n.id = found.id /\ n.owner = found.owner
          BY <3>1 DEF RowMade
        <5>3. QED
          BY <5>1, <5>2, <3>2, <2>3 DEF MadeOK
      <4> DEFINE k == [r EXCEPT !.id = s.id]
      <4>2. k \in Store!Record /\ k.owner = s.owner /\ k.id = s.id /\ k.number = None
        BY <3>1, <4>1, <2>3 DEF RowMade, Store!Record, Store!RecordOf
      <4>3. Kept(s) = k
        BY <3>2
      <4> HIDE DEF k, Kept
      <4>4. RowMade(k)
        BY <3>1, <4>2, <2>2 DEF RowMade
      <4>5. QED
        BY <4>2, <4>3, <4>4
    <3>3. CASE s.id # existing.id
      BY <3>1, <3>3
    <3>4. QED
      BY <3>2, <3>3
  <2> HIDE DEF Kept
  <2>5. \A s \in R : RowMade(s)
    BY <2>4
  <2>6. Follows(R)
    BY <2>2, <2>4 DEF Follows
  <2>7. Holds(R, r)
    BY <2>2, <2>3, <2>4 DEF Holds
  <2> HIDE DEF R
  <2>8. QED
    BY <2>1, <2>5, <2>6, <2>7 DEF CarriedOK
<1>3. QED
  BY <1>1, <1>2

(* An event has a primary key and a number.                                *)
LEMMA SavesEvent ==
  ASSUME RowsOK, MadeOK, NEW r, Known(r), table = "graph_run_event",
         NEW result \in Store!Postgres!save_graph_run_event(rows, r)
  PROVE  /\ CarriedOK(r, result)
         /\ \/ result.rows = rows
            \/ /\ result.rows = rows \cup {r}
               /\ r.number # None =>
                    ~\E s \in rows : s.owner = r.owner /\ s.number = r.number
         /\ result.verdict = "sequence" =>
              \E s \in rows : s.owner = r.owner /\ s.number = r.number
<1> DEFINE there == \E s \in rows : s.id = r.id
           taken == r.number # None /\ \E s \in rows : s.owner = r.owner /\ s.number = r.number
           broken == (IF there THEN {"pkey"} ELSE {}) \cup (IF taken THEN {"sequence"} ELSE {})
<1>0. RowMade(r) /\ r.number \in Nat \cup {None} /\ \A s : KeyOf(s) = s.id
  BY KnownIsRow DEF RowMade, Known, Store!Record, Store!RecordOf, KeyOf, Store!Memory!Keyed
<1>1. result \in IF broken = {} THEN {[rows |-> rows \cup {r}, verdict |-> "ok"]}
                 ELSE {[rows |-> rows, verdict |-> verdict] : verdict \in broken}
  BY DEF Store!Postgres!save_graph_run_event, Store!Postgres!Answer
<1>2. CASE broken = {}
  <2>1. ~there /\ ~taken
    BY <1>2
  <2>2. result = [rows |-> rows \cup {r}, verdict |-> "ok"]
    BY <1>1, <1>2
  <2>3. Follows(rows \cup {r}) /\ Holds(rows \cup {r}, r)
    BY DEF Follows, Holds
  <2>4. \A s \in rows \cup {r} : RowMade(s)
    BY <1>0 DEF RowsOK
  <2>5. CarriedOK(r, result)
    BY <2>2, <2>3, <2>4 DEF CarriedOK
  <2>6. QED
    BY <2>1, <2>2, <2>5
<1>3. CASE broken # {}
  <2>1. PICK verdict \in broken : result = [rows |-> rows, verdict |-> verdict]
    BY <1>1, <1>3
  <2>2. \/ verdict = "pkey" /\ there
        \/ verdict = "sequence" /\ taken
    BY <2>1
  <2>3. Follows(rows)
    BY DEF Follows
  <2>4. there => Holds(rows, r)
    BY <1>0 DEF Holds
  <2>5. CarriedOK(r, result)
    BY <1>0, <2>1, <2>2, <2>3, <2>4 DEF CarriedOK, RowsOK
  <2>6. QED
    BY <2>1, <2>2, <2>5
<1>4. QED
  BY <1>2, <1>3

(* Whatever a call in its write carries out.                               *)
LEMMA Carries ==
  ASSUME RowsOK, MadeOK, NEW c \in Clients, SaveOK(rows, saving[c]), saving[c].step = "write",
         NEW result \in Store!Carried(c)
  PROVE  /\ CarriedOK(saving[c].row, result)
         /\ table = "graph_run_event" =>
              result \in Store!Postgres!save_graph_run_event(rows, saving[c].row)
<1> DEFINE k == saving[c]
           r == saving[c].row
<1>1. k # Store!NoCall
  BY DEF Store!NoCall
<1>2. /\ Known(r) /\ (table # "graph_run_event" => r.number = None)
      /\ k.update => table = "graph_run" /\ Holds(rows, r)
      /\ k.existing \in Store!Record \cup {None}
      /\ k.existing # None => \E s \in rows : s.id = k.existing.id /\ s.owner = r.owner
  BY <1>1 DEF SaveOK, Saves
<1>3. RowMade(r)
  BY <1>2, KnownIsRow
<1>4. CASE table = "graph_run_event"
  BY <1>2, <1>4, SavesEvent DEF Store!Carried
<1>5. CASE table = "cross_run_memory"
  BY <1>2, <1>5, UpdatesMemory DEF Store!Carried
<1>6. CASE table \notin {"graph_run_event", "cross_run_memory"} /\ k.update
  BY <1>2, <1>6, UpdatesStatus DEF Store!Carried
<1>7. CASE table \notin {"graph_run_event", "cross_run_memory"} /\ ~k.update
  <2>1. result = Store!Postgres!save(table, rows, r)
    BY <1>7 DEF Store!Carried
  <2>2. table \in Store!MemoryTables \ {"graph_run_event", "cross_run_memory"}
    BY <1>7, StoreAssumption DEF MadeOK
  <2>3. \/ result = Store!Postgres!ignore_duplicates(table, rows, r)
        \/ result = Store!Postgres!upsert(table, rows, r)
        \/ table = "page_visit_log" /\ result = Store!Postgres!insert(table, rows, r)
    BY <2>1, <2>2, SaveIs
  <2>4. QED
    BY <1>3, <1>7, <2>3, Ignores, Upserts, Inserts
<1>8. QED
  BY <1>4, <1>5, <1>6, <1>7

----------------------------------------------------------------------------
(* The steps of a call.                                                    *)

(* What is found by its key is found after a write.                        *)
LEMMA HoldsStill ==
  ASSUME NEW R, Follows(R), NEW r, Holds(rows, r)
  PROVE  Holds(R, r)
BY DEF Follows, Holds

LEMMA GivenUpStays ==
  ASSUME NEW R, Follows(R), NEW r, GivenUp(rows, r)
  PROVE  GivenUp(R, r)
BY DEF Follows, GivenUp, Taken

LEMMA SaveStays ==
  ASSUME NEW R, Follows(R), NEW k, SaveOK(rows, k)
  PROVE  SaveOK(R, k)
<1>1. CASE k = Store!NoCall
  BY <1>1 DEF SaveOK
<1>2. CASE k # Store!NoCall
  <2>1. k.update => table = "graph_run" /\ Holds(R, k.row)
    BY <1>2, HoldsStill DEF SaveOK
  <2>2. ASSUME k.existing # None
        PROVE  \E t \in R : t.id = k.existing.id /\ t.owner = k.row.owner
    <3>1. PICK s \in rows : s.id = k.existing.id /\ s.owner = k.row.owner
      BY <1>2, <2>2 DEF SaveOK
    <3>2. table = "cross_run_memory"
      BY <1>2, <2>2 DEF SaveOK
    <3>3. QED
      BY <3>1, <3>2 DEF Follows
  <2>3. ASSUME k.row.number # None
        PROVE  \/ Holds(R, k.row)
               \/ \A n \in (k.row.number - k.bumps) .. (k.row.number - 1) : Taken(R, k.row, n)
    <3>1. table = "graph_run_event"
      BY <1>2, <2>3 DEF SaveOK
    <3>2. rows \subseteq R
      BY <3>1 DEF Follows
    <3>3. CASE Holds(rows, k.row)
      BY <3>3, HoldsStill
    <3>4. CASE \A n \in (k.row.number - k.bumps) .. (k.row.number - 1) : Taken(rows, k.row, n)
      BY <3>2, <3>4 DEF Taken
    <3>5. QED
      BY <1>2, <2>3, <3>3, <3>4 DEF SaveOK
  <2>4. QED
    BY <1>2, <2>1, <2>2, <2>3 DEF SaveOK
<1>3. QED
  BY <1>1, <1>2

(* A step of the call of c in which nothing new is made.                   *)
LEMMA StoreMoves ==
  ASSUME StoreInv, UNCHANGED <<table, indexed, made, alone>>,
         NEW R, rows' = R, \A s \in R : RowMade(s), Follows(R),
         NEW log \in Seq(Store!Record), stored' = log,
         NEW c \in Clients, NEW k, saving' = [saving EXCEPT ![c] = k], SaveOK(R, k),
         NEW done, answered' = done, answered \subseteq done,
         \A r \in done : r \in answered \/ (Known(r) /\ (Holds(R, r) \/ GivenUp(R, r))),
         \A i \in DOMAIN log : log[i] \in made /\ (Holds(R, log[i]) \/ Returned(done, log[i])),
         refused' \subseteq 1 .. MaxRecords[table],
         table \notin {"page_visit_log", "cross_run_memory"} => refused' = {}
  PROVE  StoreInv'
<1>1. MadeOK'
  BY DEF StoreInv, MadeOK, Store!Record, Store!RecordOf
<1>2. RowsOK'
  BY DEF RowsOK, RowMade, Known, Store!Record, Store!RecordOf
<1>3. LogOK'
  BY DEF LogOK, Holds, KeyOf, Returned, Plain, Store!Record, Store!RecordOf
<1>4. CallsOK'
  <2>1. saving' = [d \in Clients |-> saving'[d]] /\ saving'[c] = k
        /\ \A d \in Clients \ {c} : saving'[d] = saving[d]
    BY DEF StoreInv, CallsOK
  <2>2. ASSUME NEW d \in Clients PROVE SaveOK(R, saving'[d])
    <3>1. CASE d = c
      BY <2>1, <3>1
    <3>2. CASE d # c
      BY <2>1, <3>2, SaveStays DEF StoreInv, CallsOK
    <3>3. QED
      BY <3>1, <3>2
  <2>3. ASSUME NEW h, SaveOK(R, h) PROVE SaveOK(R, h)'
    BY <2>3 DEF SaveOK, Saves, Holds, KeyOf, Known, Taken, Store!Record, Store!RecordOf
  <2>4. QED
    BY <2>1, <2>2, <2>3 DEF CallsOK
<1>5. AnswersOK'
  <2>1. ASSUME NEW r \in done PROVE Known(r) /\ (Holds(R, r) \/ GivenUp(R, r))
    BY HoldsStill, GivenUpStays DEF StoreInv, AnswersOK
  <2>2. ASSUME NEW r \in done PROVE Known(r)'
    BY <2>1, <2>2 DEF Known, Store!Record, Store!RecordOf
  <2>3. ASSUME NEW r \in done PROVE (Holds(rows, r) \/ GivenUp(rows, r))'
    <3>1. CASE Holds(R, r)
      BY <3>1 DEF Holds, KeyOf
    <3>2. CASE GivenUp(R, r)
      BY <3>2 DEF GivenUp, Taken
    <3>3. QED
      BY <2>1, <2>3, <3>1, <3>2
  <2>4. QED
    BY <2>2, <2>3 DEF AnswersOK
<1>6. QED
  BY <1>1, <1>2, <1>3, <1>4, <1>5 DEF StoreInv

(* A step of a call that writes nothing.                                   *)
LEMMA CallGoesOn ==
  ASSUME StoreInv, UNCHANGED <<table, indexed, made, alone, stored, rows, answered, refused>>,
         NEW c \in Clients, NEW k, saving' = [saving EXCEPT ![c] = k], SaveOK(rows, k)
  PROVE  StoreInv'
<1>1. \A s \in rows : RowMade(s)
  BY DEF StoreInv, RowsOK
<1>2. Follows(rows)
  BY DEF Follows
<1>3. /\ stored \in Seq(Store!Record)
      /\ \A i \in DOMAIN stored :
           stored[i] \in made /\ (Holds(rows, stored[i]) \/ Returned(answered, stored[i]))
  BY DEF StoreInv, LogOK
<1>4. /\ refused' \subseteq 1 .. MaxRecords[table]
      /\ table \notin {"page_visit_log", "cross_run_memory"} => refused' = {}
  BY DEF StoreInv
<1>5. QED
  BY <1>1, <1>2, <1>3, <1>4, StoreMoves

(* A call that is open, in its fields.                                     *)
LEMMA OpenCall ==
  ASSUME StoreInv, NEW c \in Clients, saving[c].step \in {"look", "write"}
  PROVE  /\ SaveOK(rows, saving[c]) /\ saving[c] # Store!NoCall /\ saving[c] \in Saves
         /\ saving[c].attempt \in 1 .. MaxAttempts /\ Known(saving[c].row)
         /\ saving[c].row \in Store!Record
BY DEF StoreInv, CallsOK, SaveOK, Store!NoCall, Known

LEMMA NoCallIsOK == ASSUME NEW R PROVE SaveOK(R, Store!NoCall)
BY NoCallIsIdle DEF SaveOK

LEMMA NumberedIsKnown ==
  ASSUME NEW r, Known(r), NEW n \in Nat \cup {None}
  PROVE  Known([r EXCEPT !.number = n])
BY DEF Known, Store!Record, Store!RecordOf

(* The largest of a set of numbers.                                        *)
LEMMA MaxIs ==
  ASSUME NEW S \in SUBSET Nat, NEW m \in S, \A x \in S : x <= m
  PROVE  Store!Max(S) = m /\ Store!Postgres!Max(S) = m
<1>1. ASSUME NEW y \in S, \A x \in S : y >= x PROVE y = m
  BY <1>1
<1>2. \A x \in S : m >= x
  OBVIOUS
<1>3. QED
  BY <1>1, <1>2 DEF Store!Max, Store!Postgres!Max

(* The next number of a run's events, where there is one.                  *)
LEMMA NextNumber ==
  ASSUME NEW o, NEW n \in Nat, UpTo(n, o)
  PROVE  Store!Postgres!next_graph_run_event_sequence_index(rows, o) \in {n, None}
<1> DEFINE own == {s \in rows : s.owner = o}
           S == {s.number : s \in own}
<1>1. CASE own = {}
  <2>1. Numbered(o) = {}
    BY <1>1 DEF Numbered
  <2>2. 0 .. (n - 1) = {}
    BY <2>1 DEF UpTo
  <2>3. n = 0
    BY <2>2
  <2>4. QED
    BY <1>1, <2>3 DEF Store!Postgres!next_graph_run_event_sequence_index
<1>2. CASE \E s \in own : s.number = None
  BY <1>2 DEF Store!Postgres!next_graph_run_event_sequence_index
<1>3. CASE own # {} /\ ~\E s \in own : s.number = None
  <2>1. Numbered(o) = own
    BY <1>3 DEF Numbered
  <2>2. S = 0 .. (n - 1)
    BY <2>1 DEF UpTo
  <2>3. n - 1 \in S /\ n > 0
    BY <1>3, <2>2
  <2>4. S \in SUBSET Nat /\ \A x \in S : x <= n - 1
    BY <2>2
  <2> HIDE DEF S
  <2>5. Store!Postgres!Max(S) = n - 1
    BY <2>3, <2>4, MaxIs
  <2>6. Store!Postgres!next_graph_run_event_sequence_index(rows, o) = Store!Postgres!Max(S) + 1
    BY <1>3 DEF Store!Postgres!next_graph_run_event_sequence_index, S
  <2>7. QED
    BY <2>5, <2>6
<1>4. QED
  BY <1>1, <1>2, <1>3

(* The read before a write.                                                *)
LEMMA LooksUp ==
  ASSUME StoreInv, NumbersOK, NEW c \in Clients, Store!Look(c)
  PROVE  StoreInv'
<1> DEFINE k == saving[c]
<1>1. saving[c].step = "look"
  BY DEF Store!Look
<1>2. /\ SaveOK(rows, k) /\ k # Store!NoCall /\ k \in Saves /\ Known(k.row)
      /\ k.row \in Store!Record
  BY <1>1, OpenCall
<1>3. UNCHANGED <<table, indexed, made, alone, stored, rows, answered, refused>>
  BY DEF Store!Look
<1>4. CASE table = "graph_run_event"
  <2>1. PICK next \in Nat \cup {None} :
          saving' = [saving EXCEPT ![c].step = "write", ![c].row.number = next]
    <3> DEFINE n == IF indexed
                    THEN Store!Postgres!next_graph_run_event_sequence_index(rows, k.row.owner)
                    ELSE None
    <3>1. n \in Nat \cup {None}
      <4>1. k.row.owner \in Owners
        BY <1>2 DEF Store!Record, Store!RecordOf
      <4>2. PICK m \in Nat : UpTo(m, k.row.owner)
        BY <1>4, <4>1 DEF NumbersOK
      <4>3. QED
        BY <4>2, NextNumber
    <3>2. saving' = [saving EXCEPT ![c].step = "write", ![c].row.number = n]
      BY <1>4 DEF Store!Look
    <3> HIDE DEF n
    <3>3. QED
      BY <3>1, <3>2
  <2> DEFINE row == [k.row EXCEPT !.number = next]
             h == [k EXCEPT !.step = "write", !.row = row]
  <2>2. saving' = [saving EXCEPT ![c] = h]
    BY <2>1, <1>2 DEF StoreInv, CallsOK, Saves
  <2>3. Known(row) /\ row \in Store!Record
    BY <1>2, NumberedIsKnown DEF Known
  <2>0. row.number = None \/ row.number \in Nat
    BY <1>2, <2>1 DEF Store!Record, Store!RecordOf
  <2> HIDE DEF row
  <2>4. /\ h \in Saves /\ h.step = "write" /\ h.attempt = k.attempt /\ h.row = row
        /\ h.update = k.update /\ h.existing = k.existing /\ h.bumps = k.bumps
    BY <1>2, <2>3 DEF Saves
  <2> HIDE DEF h
  <2>5. SaveOK(rows, h)
    <3>1. h.bumps = 0
      BY <1>1, <1>2, <2>4 DEF SaveOK
    <3>2. \A n \in Nat : (n - 0) .. (n - 1) = {}
      OBVIOUS
    <3>3. row.number # None => (row.number - h.bumps) .. (row.number - 1) = {}
      BY <2>0, <3>1, <3>2
    <3>4. QED
      BY <1>2, <1>4, <2>3, <2>4, <3>3 DEF SaveOK
  <2>6. QED
    BY <1>3, <2>2, <2>5, CallGoesOn
<1>5. CASE table # "graph_run_event"
  <2> DEFINE own == Store!Postgres!Of(rows, k.row.owner)
             e == IF own = {} THEN None ELSE CHOOSE s \in own : TRUE
             h == [k EXCEPT !.step = "write", !.existing = e]
  <2>1. saving' = [saving EXCEPT ![c] = h] /\ table = "cross_run_memory"
    BY <1>1, <1>2, <1>5 DEF Store!Look, StoreInv, CallsOK, Saves, SaveOK
  <2>2. e # None => e \in rows /\ e.owner = k.row.owner
    BY DEF Store!Postgres!Of
  <2>3. e \in Store!Record \cup {None}
    BY <2>2 DEF StoreInv, RowsOK, RowMade
  <2> HIDE DEF e
  <2>4. /\ h \in Saves /\ h.step = "write" /\ h.attempt = k.attempt /\ h.row = k.row
        /\ h.update = k.update /\ h.existing = e
    BY <1>2, <2>3 DEF Saves
  <2> HIDE DEF h
  <2>5. SaveOK(rows, h)
    BY <1>2, <2>1, <2>2, <2>4 DEF SaveOK
  <2>6. QED
    BY <1>3, <2>1, <2>5, CallGoesOn
<1>6. QED
  BY <1>4, <1>5

LEMMA LookMissed ==
  ASSUME StoreInv, NEW c \in Clients, Store!LookFails(c)
  PROVE  StoreInv'
<1> DEFINE k == saving[c]
<1>1. /\ SaveOK(rows, k) /\ k # Store!NoCall /\ k \in Saves
  BY OpenCall DEF Store!LookFails
<1>2. UNCHANGED <<table, indexed, made, alone, stored, rows, answered, refused>>
  BY DEF Store!LookFails
<1>3. CASE table = "graph_run_event"
  <2> DEFINE h == [k EXCEPT !.step = "write"]
  <2>1. saving' = [saving EXCEPT ![c] = h]
    BY <1>3 DEF Store!LookFails, StoreInv, CallsOK
  <2>2. /\ h \in Saves /\ h.step = "write" /\ h.attempt = k.attempt /\ h.row = k.row
        /\ h.update = k.update /\ h.existing = k.existing /\ h.bumps = k.bumps
    BY <1>1 DEF Saves
  <2> HIDE DEF h
  <2>3. k.row.number = None /\ h # Store!NoCall
    BY <1>1, <2>2 DEF SaveOK, Store!LookFails, Store!NoCall
  <2>4. SaveOK(rows, h)
    BY <1>1, <2>2, <2>3, <1>3 DEF SaveOK
  <2>5. QED
    BY <1>2, <2>1, <2>4, CallGoesOn
<1>4. CASE table # "graph_run_event"
  <2>1. saving' = [saving EXCEPT ![c] = Store!NoCall]
    BY <1>4 DEF Store!LookFails
  <2>2. QED
    BY <1>2, <2>1, NoCallIsOK, CallGoesOn
<1>5. QED
  BY <1>3, <1>4

(* After a lost answer or request the call is tried again, or is over.     *)
LEMMA TriedAgain ==
  ASSUME StoreInv, NEW c \in Clients, saving[c].step = "write",
         NEW R, Follows(R), NEW arrived \in BOOLEAN, Store!TryAgain(c, arrived)
  PROVE  \E k : saving' = [saving EXCEPT ![c] = k] /\ SaveOK(R, k)
<1> DEFINE k == saving[c]
           h == [k EXCEPT !.attempt = k.attempt + 1, !.arrived = arrived]
<1>1. /\ SaveOK(rows, k) /\ k # Store!NoCall /\ k \in Saves /\ k.attempt \in 1 .. MaxAttempts
  BY OpenCall
<1>2. SaveOK(R, k)
  BY <1>1, SaveStays
<1>3. CASE k.attempt < MaxAttempts
  <2>0. k.attempt + 1 \in 1 .. MaxAttempts /\ k.attempt + 1 \in 0 .. MaxAttempts
    BY <1>1, <1>3, StoreAssumption
  <2>1. saving' = [saving EXCEPT ![c] = h]
    <3> DEFINE g == IF k.attempt < MaxAttempts THEN h ELSE Store!NoCall
    <3>1. saving' = [saving EXCEPT ![c] = g]
      BY DEF Store!TryAgain
    <3>2. g = h
      BY <1>3
    <3> HIDE DEF g, h
    <3>3. QED
      BY <3>1, <3>2
  <2>2. /\ h \in Saves /\ h.step = k.step /\ h.attempt \in 1 .. MaxAttempts /\ h.row = k.row
        /\ h.update = k.update /\ h.existing = k.existing /\ h.bumps = k.bumps
    BY <1>1, <2>0 DEF Saves
  <2> HIDE DEF h
  <2>3. SaveOK(R, h)
    BY <1>1, <1>2, <2>2 DEF SaveOK
  <2>4. QED
    BY <2>1, <2>3
<1>4. CASE ~(k.attempt < MaxAttempts)
  <2>1. saving' = [saving EXCEPT ![c] = Store!NoCall]
    BY <1>4 DEF Store!TryAgain
  <2>2. QED
    BY <2>1, NoCallIsOK
<1>5. QED
  BY <1>3, <1>4

LEMMA RequestLost ==
  ASSUME StoreInv, NEW c \in Clients, Store!LoseRequest(c)
  PROVE  StoreInv'
<1>1. /\ saving[c].step = "write" /\ Store!TryAgain(c, saving[c].arrived)
      /\ UNCHANGED <<table, indexed, made, alone, stored, rows, answered, refused>>
  BY DEF Store!LoseRequest
<1>2. saving[c].arrived \in BOOLEAN
  BY <1>1, OpenCall DEF Saves
<1>3. Follows(rows)
  BY DEF Follows
<1>4. PICK k : saving' = [saving EXCEPT ![c] = k] /\ SaveOK(rows, k)
  BY <1>1, <1>2, <1>3, TriedAgain
<1>5. QED
  BY <1>1, <1>4, CallGoesOn

(* What the other repository does for the same call.                       *)
LEMMA Remembers ==
  ASSUME StoreInv, NEW c \in Clients, saving[c].step = "write", NEW result,
         CarriedOK(saving[c].row, result), Store!Remember(c, result)
  PROVE  /\ stored' \in Seq(Store!Record)
         /\ \A i \in DOMAIN stored' :
              /\ stored'[i] \in made
              /\ Holds(result.rows, stored'[i]) \/ Returned(answered, stored'[i])
<1> DEFINE r == [saving[c].row EXCEPT !.number = None]
           Good(x) == /\ x \in Store!Record /\ x \in made
                      /\ Holds(result.rows, x) \/ Returned(answered, x)
<1>1. /\ SaveOK(rows, saving[c]) /\ saving[c] # Store!NoCall /\ Known(saving[c].row)
      /\ saving[c].row \in Store!Record
  BY OpenCall
<1>2. /\ r \in made /\ r \in Store!Record /\ r.id = saving[c].row.id
      /\ r.owner = saving[c].row.owner /\ KeyOf(r) = KeyOf(saving[c].row)
  BY <1>1 DEF Known, Store!Record, Store!RecordOf, KeyOf
<1>3. stored \in Seq(Store!Record) /\ \A i \in DOMAIN stored : Good(stored[i])
  <2>1. Follows(result.rows)
    BY DEF CarriedOK
  <2>2. stored \in Seq(Store!Record)
    BY DEF StoreInv, LogOK
  <2>3. ASSUME NEW i \in DOMAIN stored PROVE Good(stored[i])
    <3>1. stored[i] \in made /\ (Holds(rows, stored[i]) \/ Returned(answered, stored[i]))
      BY DEF StoreInv, LogOK
    <3>2. stored[i] \in Store!Record
      BY <2>2, ElementOfSeq, LenProperties
    <3>3. QED
      BY <2>1, <3>1, <3>2, HoldsStill
  <2>4. QED
    BY <2>2, <2>3
<1> HIDE DEF r
<1>4. SUFFICES ASSUME result.verdict = "ok", ~saving[c].arrived
               PROVE  stored' \in Seq(Store!Record) /\ \A i \in DOMAIN stored' : Good(stored'[i])
  <2>1. CASE saving[c].arrived \/ result.verdict # "ok"
    BY <1>3, <2>1 DEF Store!Remember
  <2>2. CASE ~(saving[c].arrived \/ result.verdict # "ok")
    BY <1>4, <2>2
  <2>3. QED
    BY <2>1, <2>2
<1>5. Good(r)
  BY <1>2, <1>4 DEF CarriedOK, Holds
<1>6. CASE saving[c].update
  <2> DEFINE Kept(x) == IF x.id = r.id THEN [x EXCEPT !.kind = r.kind, !.rev = r.rev] ELSE x
  <2>1. stored' = [i \in DOMAIN stored |-> Kept(stored[i])]
    BY <1>4, <1>6 DEF Store!Remember, Store!Memory!update_graph_run_status, r
  <2>2. ASSUME NEW x, Good(x) PROVE Good(Kept(x))
    <3>1. CASE x.id = r.id
      <4>1. x.owner = r.owner /\ x.at = r.at /\ x.named = r.named
            /\ x.number = None /\ r.number = None
        BY <1>2, <2>2, <3>1 DEF StoreInv, MadeOK
      <4>2. [x EXCEPT !.kind = r.kind, !.rev = r.rev] = r
        BY <1>2, <2>2, <3>1, <4>1 DEF Store!Record, Store!RecordOf
      <4>3. QED
        BY <3>1, <4>2, <1>5
    <3>2. CASE x.id # r.id
      BY <3>2, <2>2
    <3>3. QED
      BY <3>1, <3>2
  <2> HIDE DEF Kept, Good
  <2>3. \A i \in DOMAIN stored : Good(Kept(stored[i]))
    BY <1>3, <2>2
  <2>4. \A i \in 1 .. Len(stored) : Kept(stored[i]) \in Store!Record
    BY <1>3, <2>3, LenProperties DEF Good
  <2>5. stored' \in Seq(Store!Record)
    BY <1>3, <2>1, <2>4, LenProperties, SeqDef
  <2>6. QED
    BY <2>1, <2>3, <2>5
<1>7. CASE ~saving[c].update
  <2>1. stored' = Store!Memory!save(table, stored, r)
    BY <1>4, <1>7 DEF Store!Remember, r
  <2>2. CASE stored' = Append(stored, r)
    <3> HIDE DEF Good
    <3>1. r \in Store!Record
      BY <1>2
    <3>2. stored' \in Seq(Store!Record)
      BY <1>3, <2>2, <3>1, AppendProperties
    <3>3. \A i \in DOMAIN stored' :
            stored'[i] = r \/ (i \in DOMAIN stored /\ stored'[i] = stored[i])
      BY <1>3, <2>2, <3>1, AppendProperties, LenProperties
    <3>4. QED
      BY <1>3, <1>5, <3>2, <3>3
  <2>3. CASE stored' # Append(stored, r)
    <3> DEFINE Mine(x) == Store!Memory!Key(table, x) = Store!Memory!Key(table, r)
    <3>1. stored' = [i \in DOMAIN stored |-> IF Mine(stored[i]) THEN r ELSE stored[i]]
      BY <2>1, <2>3 DEF Store!Memory!save
    <3> HIDE DEF Mine, Good
    <3>2. \A i \in DOMAIN stored : Good(IF Mine(stored[i]) THEN r ELSE stored[i])
      BY <1>3, <1>5
    <3>3. \A i \in 1 .. Len(stored) : (IF Mine(stored[i]) THEN r ELSE stored[i]) \in Store!Record
      BY <1>3, <3>2, LenProperties DEF Good
    <3>4. stored' \in Seq(Store!Record)
      BY <1>3, <3>1, <3>3, LenProperties, SeqDef
    <3>5. QED
      BY <3>1, <3>2, <3>4
  <2>4. QED
    BY <2>2, <2>3
<1>8. QED
  BY <1>6, <1>7

LEMMA AnswerLost ==
  ASSUME StoreInv, NEW c \in Clients, Store!LoseAnswer(c)
  PROVE  StoreInv'
<1>1. saving[c].step = "write" /\ UNCHANGED <<table, indexed, made, alone, answered, refused>>
  BY DEF Store!LoseAnswer
<1>2. PICK result \in Store!Carried(c) :
        /\ rows' = result.rows /\ Store!Remember(c, result)
        /\ Store!TryAgain(c, saving[c].arrived \/ result.verdict = "ok")
  BY DEF Store!LoseAnswer
<1>3. CarriedOK(saving[c].row, result)
  BY <1>1, <1>2, OpenCall, Carries DEF StoreInv
<1>4. PICK k : saving' = [saving EXCEPT ![c] = k] /\ SaveOK(result.rows, k)
  <2> DEFINE arrived == saving[c].arrived \/ result.verdict = "ok"
  <2>1. arrived \in BOOLEAN
    OBVIOUS
  <2> HIDE DEF arrived
  <2>2. Store!TryAgain(c, arrived)
    BY <1>2 DEF arrived
  <2>3. Follows(result.rows)
    BY <1>3 DEF CarriedOK
  <2>4. QED
    BY <1>1, <2>1, <2>2, <2>3, TriedAgain
<1>5. /\ stored' \in Seq(Store!Record)
      /\ \A i \in DOMAIN stored' :
           /\ stored'[i] \in made
           /\ Holds(result.rows, stored'[i]) \/ Returned(answered, stored'[i])
  BY <1>1, <1>2, <1>3, Remembers
<1>6. /\ refused' \subseteq 1 .. MaxRecords[table]
      /\ table \notin {"page_visit_log", "cross_run_memory"} => refused' = {}
  BY <1>1 DEF StoreInv
<1>7. PICK log : log = stored'
  OBVIOUS
<1>8. (\A s \in result.rows : RowMade(s)) /\ Follows(result.rows)
  BY <1>3 DEF CarriedOK
<1>9. QED
  BY <1>1, <1>2, <1>4, <1>5, <1>6, <1>7, <1>8, StoreMoves

LEMMA Reaches ==
  ASSUME StoreInv, NEW c \in Clients, Store!Reach(c)
  PROVE  StoreInv'
<1> DEFINE k == saving[c]
           r == saving[c].row
<1>1. saving[c].step = "write" /\ UNCHANGED <<table, indexed, made, alone>>
  BY DEF Store!Reach
<1>2. PICK result \in Store!Carried(c) :
        /\ rows' = result.rows /\ Store!Remember(c, result)
        /\ \/ /\ result.verdict = "ok" \/ (table = "graph_run_event" /\ result.verdict = "pkey")
              /\ answered' = answered \cup {r} /\ refused' = refused
              /\ saving' = [saving EXCEPT ![c] = Store!NoCall]
           \/ /\ result.verdict = "sequence" /\ UNCHANGED <<answered, refused>>
              /\ saving' = [saving EXCEPT ![c].row.number = @ + 1, ![c].attempt = 1,
                                          ![c].bumps = @ + 1]
           \/ /\ result.verdict = "pkey" /\ table # "graph_run_event"
              /\ refused' = refused \cup {r.id} /\ answered' = answered
              /\ saving' = [saving EXCEPT ![c] = Store!NoCall]
  BY DEF Store!Reach, Store!Over, Store!is_duplicate_graph_run_event_pkey
<1>3. CarriedOK(r, result)
  BY <1>1, <1>2, OpenCall, Carries DEF StoreInv
<1>4. /\ SaveOK(rows, k) /\ k # Store!NoCall /\ k \in Saves /\ Known(r) /\ r \in Store!Record
  BY <1>1, OpenCall
<1>5. PICK log : /\ log = stored' /\ log \in Seq(Store!Record)
                 /\ \A i \in DOMAIN log :
                      /\ log[i] \in made
                      /\ Holds(result.rows, log[i]) \/ Returned(answered, log[i])
  BY <1>1, <1>2, <1>3, Remembers
<1>6. (\A s \in result.rows : RowMade(s)) /\ Follows(result.rows)
  BY <1>3 DEF CarriedOK
<1>7. PICK h : saving' = [saving EXCEPT ![c] = h] /\ SaveOK(result.rows, h)
  <2>1. CASE saving' = [saving EXCEPT ![c] = Store!NoCall]
    BY <2>1, NoCallIsOK
  <2>2. CASE /\ result.verdict = "sequence"
             /\ saving' = [saving EXCEPT ![c].row.number = @ + 1, ![c].attempt = 1,
                                         ![c].bumps = @ + 1]
    <3> DEFINE row == [r EXCEPT !.number = r.number + 1]
               next == [k EXCEPT !.row = row, !.attempt = 1, !.bumps = k.bumps + 1]
    <3>1. table = "graph_run_event" /\ r.number \in Nat /\ k.bumps \in Nat
      BY <1>3, <1>4, <2>2 DEF CarriedOK, Saves
    <3>6. Holds(result.rows, r)
          \/ \A n \in (r.number - k.bumps) .. r.number : Taken(result.rows, r, n)
      <4>1. Holds(rows, r) \/ Taken(rows, r, r.number)
        <5>1. result \in Store!Postgres!save_graph_run_event(rows, r)
          BY <1>1, <1>2, <1>4, <3>1, Carries DEF StoreInv
        <5>2. PICK s \in rows : s.owner = r.owner /\ s.number = r.number
          BY <1>4, <2>2, <3>1, <5>1, SavesEvent DEF StoreInv
        <5>3. KeyOf(s) = s.id /\ KeyOf(r) = r.id
          BY <3>1 DEF KeyOf, Store!Memory!Keyed
        <5>4. QED
          BY <5>2, <5>3 DEF Taken, Holds
      <4>2. \/ Holds(rows, r)
            \/ \A n \in (r.number - k.bumps) .. (r.number - 1) : Taken(rows, r, n)
        BY <1>4, <3>1, StoreAssumption DEF SaveOK
      <4>3. ASSUME ~Holds(rows, r), NEW n \in (r.number - k.bumps) .. r.number
            PROVE  Taken(rows, r, n)
        <5>1. n = r.number \/ n \in (r.number - k.bumps) .. (r.number - 1)
          BY <3>1
        <5>2. QED
          BY <4>1, <4>2, <4>3, <5>1
      <4>4. rows \subseteq result.rows
        BY <1>6, <3>1 DEF Follows
      <4>5. ASSUME NEW n, Taken(rows, r, n) PROVE Taken(result.rows, r, n)
        BY <4>4, <4>5 DEF Taken
      <4>6. QED
        BY <1>6, <4>3, <4>5, HoldsStill
    <3>7. /\ row.number = r.number + 1 /\ row.owner = r.owner /\ row.id = r.id
          /\ KeyOf(row) = KeyOf(r)
      BY <1>4 DEF KeyOf, Store!Record, Store!RecordOf
    <3>2. Known(row) /\ row \in Store!Record
      <4>1. PICK n \in Nat \cup {None} : n = r.number + 1
        BY <3>1
      <4>2. Known([r EXCEPT !.number = n])
        BY <1>4, NumberedIsKnown
      <4>3. QED
        BY <4>1, <4>2 DEF Known
    <3>3. saving' = [saving EXCEPT ![c] = next]
      BY <1>4, <2>2 DEF StoreInv, CallsOK, Saves
    <3> HIDE DEF row
    <3>4. /\ next \in Saves /\ next.step = "write" /\ next.attempt \in 1 .. MaxAttempts
          /\ next.row = row /\ next.update = k.update /\ next.existing = k.existing
          /\ next.bumps = k.bumps + 1
      <4>1. 1 \in 1 .. MaxAttempts /\ 1 \in 0 .. MaxAttempts
        BY StoreAssumption
      <4>2. k.bumps + 1 \in Nat
        BY <3>1
      <4>3. k \in Saves /\ k.step = "write" /\ row \in Store!Record
        BY <1>1, <1>4, <3>2
      <4> HIDE DEF k
      <4>4. QED
        BY <4>1, <4>2, <4>3 DEF Saves
    <3> HIDE DEF next
    <3>8. \/ Holds(result.rows, row)
          \/ \A n \in (row.number - next.bumps) .. (row.number - 1) : Taken(result.rows, row, n)
      <4>1. (r.number + 1) - (k.bumps + 1) = r.number - k.bumps /\ (r.number + 1) - 1 = r.number
        BY <3>1
      <4>2. (row.number - next.bumps) .. (row.number - 1) = (r.number - k.bumps) .. r.number
        BY <3>4, <3>7, <4>1
      <4>3. \A n : Taken(result.rows, r, n) => Taken(result.rows, row, n)
        BY <3>7 DEF Taken
      <4>4. Holds(result.rows, r) => Holds(result.rows, row)
        BY <3>7 DEF Holds
      <4>5. QED
        BY <3>6, <4>2, <4>3, <4>4
    <3>5. SaveOK(result.rows, next)
      <4>1. ~k.update /\ k.existing = None
        BY <1>4, <3>1 DEF SaveOK, Saves
      <4>2. QED
        BY <3>1, <3>2, <3>4, <3>8, <4>1 DEF SaveOK
    <3>9. QED
      BY <3>3, <3>5
  <2>3. QED
    BY <1>2, <2>1, <2>2
<1>8. PICK done : /\ done = answered' /\ answered \subseteq done
                  /\ \A a \in done : a \in answered \/ (Known(a) /\ Holds(result.rows, a))
  <2>1. CASE answered' = answered
    BY <2>1
  <2>2. CASE /\ result.verdict = "ok" \/ (table = "graph_run_event" /\ result.verdict = "pkey")
             /\ answered' = answered \cup {r}
    <3>1. Holds(result.rows, r)
      BY <1>3, <1>6, <2>2, HoldsStill DEF CarriedOK
    <3>2. QED
      BY <1>4, <2>2, <3>1
  <2>3. QED
    BY <1>2, <2>1, <2>2
<1>9. /\ refused' \subseteq 1 .. MaxRecords[table]
      /\ table \notin {"page_visit_log", "cross_run_memory"} => refused' = {}
  <2>1. CASE refused' = refused
    BY <2>1 DEF StoreInv
  <2>2. CASE /\ result.verdict = "pkey" /\ table # "graph_run_event"
             /\ refused' = refused \cup {r.id}
    BY <1>3, <1>4, <2>2 DEF StoreInv, CarriedOK, Store!Record, Store!RecordOf
  <2>3. QED
    BY <1>2, <2>1, <2>2
<1>10. \A i \in DOMAIN log :
         log[i] \in made /\ (Holds(result.rows, log[i]) \/ Returned(done, log[i]))
  BY <1>5, <1>8 DEF Returned
<1>11. QED
  BY <1>1, <1>2, <1>5, <1>6, <1>7, <1>8, <1>9, <1>10, StoreMoves

(* An event that is given up leaves the rows as they are; the other        *)
(* repository has it, or had it before.                                    *)
LEMMA GivesUp ==
  ASSUME StoreInv, NEW c \in Clients, Store!GiveUp(c)
  PROVE  /\ table = "graph_run_event" /\ UNCHANGED <<table, indexed, made, alone, rows, refused>>
         /\ saving[c].step = "write" /\ saving' = [saving EXCEPT ![c] = Store!NoCall]
         /\ answered' = answered \cup {saving[c].row}
         /\ Holds(rows, saving[c].row) \/ GivenUp(rows, saving[c].row)
         /\ stored' = stored \/ stored' = Append(stored, Plain(saving[c].row))
<1> DEFINE k == saving[c]
           r == saving[c].row
<1>1. /\ k.step = "write" /\ k.bumps = MaxBumps - 1
      /\ UNCHANGED <<table, indexed, made, alone, rows, refused>>
      /\ answered' = answered \cup {r} /\ saving' = [saving EXCEPT ![c] = Store!NoCall]
  BY DEF Store!GiveUp, Store!Over
<1>2. PICK result \in Store!Carried(c) : result.verdict = "sequence"
  BY DEF Store!GiveUp
<1>3. /\ SaveOK(rows, k) /\ k # Store!NoCall /\ k \in Saves /\ Known(r) /\ r \in Store!Record
  BY <1>1, OpenCall
<1>4. /\ CarriedOK(r, result)
      /\ table = "graph_run_event" => result \in Store!Postgres!save_graph_run_event(rows, r)
  BY <1>1, <1>3, Carries DEF StoreInv
<1>5. table = "graph_run_event" /\ r.number \in Nat /\ r.number # None
  BY <1>2, <1>4, StoreAssumption DEF CarriedOK
<1>6. Holds(rows, r) \/ Taken(rows, r, r.number)
  <2>1. PICK s \in rows : s.owner = r.owner /\ s.number = r.number
    BY <1>2, <1>3, <1>4, <1>5, SavesEvent DEF StoreInv
  <2>2. KeyOf(s) = s.id /\ KeyOf(r) = r.id
    BY <1>5 DEF KeyOf, Store!Memory!Keyed
  <2>3. QED
    BY <2>1, <2>2 DEF Taken, Holds
<1>7. \/ Holds(rows, r)
      \/ \A n \in (r.number - k.bumps) .. (r.number - 1) : Taken(rows, r, n)
  BY <1>3, <1>5 DEF SaveOK
<1>8. ASSUME ~Holds(rows, r), NEW n \in (r.number - MaxBumps + 1) .. r.number
      PROVE  Taken(rows, r, n)
  <2>1. n = r.number \/ n \in (r.number - (MaxBumps - 1)) .. (r.number - 1)
    BY <1>5, StoreAssumption
  <2>2. QED
    BY <1>1, <1>6, <1>7, <1>8, <2>1
<1>9. stored' = stored \/ stored' = Append(stored, Plain(r))
  <2>1. Store!Memory!save(table, stored, Plain(r)) = Append(stored, Plain(r))
    BY <1>5 DEF Store!Memory!save, Store!Memory!Lists
  <2>2. QED
    BY <2>1 DEF Store!GiveUp, Plain
<1>10. QED
  BY <1>1, <1>5, <1>8, <1>9 DEF GivenUp

LEMMA GivesUpStored ==
  ASSUME StoreInv, NEW c \in Clients, Store!GiveUp(c)
  PROVE  StoreInv'
<1> DEFINE r == saving[c].row
           done == answered \cup {r}
<1>1. /\ table = "graph_run_event" /\ UNCHANGED <<table, indexed, made, alone, rows, refused>>
      /\ saving[c].step = "write" /\ saving' = [saving EXCEPT ![c] = Store!NoCall]
      /\ answered' = done /\ (Holds(rows, r) \/ GivenUp(rows, r))
      /\ stored' = stored \/ stored' = Append(stored, Plain(r))
  BY GivesUp
<1>2. Known(r) /\ r \in Store!Record
  BY <1>1, OpenCall
<1>3. Plain(r) \in made /\ Plain(r) \in Store!Record
  BY <1>2 DEF Known, Plain, StoreInv, MadeOK
<1> DEFINE Good(x) == x \in made /\ (Holds(rows, x) \/ Returned(done, x))
<1>4. stored \in Seq(Store!Record) /\ \A i \in DOMAIN stored : Good(stored[i])
  BY DEF StoreInv, LogOK, Returned
<1>5. Good(Plain(r))
  BY <1>1, <1>3 DEF Returned
<1>6. PICK log : log = stored' /\ log \in Seq(Store!Record) /\ \A i \in DOMAIN log : Good(log[i])
  <2> HIDE DEF Good
  <2>1. CASE stored' = stored
    BY <1>4, <2>1
  <2>2. CASE stored' = Append(stored, Plain(r))
    <3>1. stored' \in Seq(Store!Record)
      BY <1>3, <1>4, <2>2, AppendProperties
    <3>2. \A i \in DOMAIN stored' :
            stored'[i] = Plain(r) \/ (i \in DOMAIN stored /\ stored'[i] = stored[i])
      BY <1>3, <1>4, <2>2, AppendProperties, LenProperties
    <3>3. QED
      BY <1>4, <1>5, <3>1, <3>2
  <2>3. QED
    BY <1>1, <2>1, <2>2
<1>7. (\A s \in rows : RowMade(s)) /\ Follows(rows)
  BY DEF StoreInv, RowsOK, Follows
<1>8. SaveOK(rows, Store!NoCall)
  BY NoCallIsOK
<1>9. /\ refused' \subseteq 1 .. MaxRecords[table]
      /\ table \notin {"page_visit_log", "cross_run_memory"} => refused' = {}
  BY <1>1 DEF StoreInv
<1>10. /\ answered \subseteq done
       /\ \A a \in done : a \in answered \/ (Known(a) /\ (Holds(rows, a) \/ GivenUp(rows, a)))
  BY <1>1, <1>2
<1> HIDE DEF done
<1>11. QED
  BY <1>1, <1>6, <1>7, <1>8, <1>9, <1>10, StoreMoves

(* A call begins: a record, or another version of one, is made.            *)
LEMMA Begun ==
  ASSUME StoreInv, NEW c \in Clients, NEW row, NEW update \in BOOLEAN,
         Store!Begin(c, row, update), row \in Store!RecordOf(table), row.number = None,
         MadeOK', update => table = "graph_run" /\ Holds(rows, row)
  PROVE  StoreInv'
<1> DEFINE step == IF table \in {"graph_run_event", "cross_run_memory"} THEN "look" ELSE "write"
           first == [Store!NoCall EXCEPT !.step = step, !.update = update, !.row = row,
                                         !.attempt = 1]
<1>1. /\ saving' = [saving EXCEPT ![c] = first] /\ made' = made \cup {row}
      /\ UNCHANGED <<table, indexed, stored, rows, answered, refused>>
      /\ alone' = (alone /\ \A d \in Clients : Store!Idle(d))
  BY DEF Store!Begin
<1>2. ASSUME NEW r, Known(r) PROVE Known(r)'
  BY <1>1, <1>2 DEF Known, Store!Record, Store!RecordOf
<1>3. RowsOK'
  <2>1. ASSUME NEW s \in rows PROVE RowMade(s)'
    <3>1. RowMade(s)
      BY DEF StoreInv, RowsOK
    <3>2. table \notin Store!Memory!Keyed => Known(s)'
      BY <1>2, <3>1 DEF RowMade
    <3>3. QED
      BY <1>1, <3>1, <3>2 DEF RowMade, Store!Record, Store!RecordOf
  <2>2. QED
    BY <1>1, <2>1 DEF RowsOK
<1>4. LogOK'
  BY <1>1 DEF StoreInv, LogOK, Holds, KeyOf, Returned, Plain, Store!Record, Store!RecordOf
<1>5. CallsOK'
  <2>1. PICK k : /\ k = first /\ k \in Saves /\ k.step = step /\ k.attempt = 1
                 /\ k.row = row /\ k.update = update /\ k.existing = None /\ k.bumps = 0
    <3>1. 1 \in 0 .. MaxAttempts
      BY StoreAssumption
    <3>2. step \in {"look", "write"} /\ row \in Store!Record
      BY DEF Store!Record
    <3> HIDE DEF step
    <3>3. /\ first \in Saves /\ first.step = step /\ first.attempt = 1 /\ first.row = row
          /\ first.update = update /\ first.existing = None /\ first.bumps = 0
      BY <3>1, <3>2 DEF Saves, Store!NoCall
    <3> HIDE DEF first
    <3>4. QED
      BY <3>3
  <2>2. saving' = [d \in Clients |-> saving'[d]] /\ saving'[c] = k
        /\ \A d \in Clients \ {c} : saving'[d] = saving[d]
    BY <1>1, <2>1 DEF StoreInv, CallsOK
  <2>3. SaveOK(rows, k)'
    <3>1. Known(row)'
      <4>1. [row EXCEPT !.number = None] = row
        BY DEF Store!RecordOf
      <4>2. QED
        BY <1>1, <4>1 DEF Known, Store!Record, Store!RecordOf
    <3>2. 1 \in 1 .. MaxAttempts
      BY StoreAssumption
    <3>3. QED
      BY <1>1, <2>1, <3>1, <3>2 DEF SaveOK, Saves, Holds, KeyOf, Taken, Store!Record, Store!RecordOf
  <2>4. ASSUME NEW h, SaveOK(rows, h) PROVE SaveOK(rows, h)'
    <3>1. h # Store!NoCall => Known(h.row)'
      BY <1>2, <2>4 DEF SaveOK
    <3>2. QED
      BY <1>1, <2>4, <3>1 DEF SaveOK, Saves, Holds, KeyOf, Taken, Store!Record, Store!RecordOf
  <2>5. ASSUME NEW d \in Clients PROVE SaveOK(rows, saving[d])'
    <3>1. CASE d = c
      BY <2>2, <2>3, <3>1
    <3>2. CASE d # c
      <4>1. SaveOK(rows, saving[d])
        BY DEF StoreInv, CallsOK
      <4>2. PICK h : h = saving[d]
        OBVIOUS
      <4>3. SaveOK(rows, h)'
        BY <2>4, <4>1, <4>2
      <4>4. saving'[d] = h
        BY <2>2, <3>2, <4>2
      <4>5. QED
        BY <4>3, <4>4
    <3>3. QED
      BY <3>1, <3>2
  <2>6. QED
    BY <2>2, <2>5 DEF CallsOK
<1>6. AnswersOK'
  <2>1. ASSUME NEW r \in answered PROVE Known(r)' /\ (Holds(rows, r)' \/ GivenUp(rows, r)')
    BY <1>1, <1>2 DEF StoreInv, AnswersOK, Holds, KeyOf, GivenUp, Taken
  <2>2. QED
    BY <1>1, <2>1 DEF AnswersOK
<1>7. alone' \in BOOLEAN
  BY <1>1
<1>8. QED
  BY <1>1, <1>3, <1>4, <1>5, <1>6, <1>7 DEF StoreInv

(* A bounded set of numbers has a largest one.                             *)
LEMMA Largest ==
  ASSUME NEW S \in SUBSET Nat, NEW x \in S, NEW n \in Nat, \A y \in S : y <= n
  PROVE  \E m \in S : \A y \in S : y <= m
<1> DEFINE T == {n - y : y \in S}
<1>1. T \in SUBSET Nat /\ n - x \in T
  OBVIOUS
<1> HIDE DEF T
<1>2. PICK t \in T : \A u \in T : t <= u
  BY <1>1, Least
<1>3. PICK m \in S : t = n - m
  BY DEF T
<1>4. ASSUME NEW y \in S PROVE y <= m
  <2>1. n - m <= n - y
    BY <1>2, <1>3 DEF T
  <2>2. QED
    BY <2>1
<1>5. QED
  BY <1>4

(* The cardinality that the instance of Repositories refers to.            *)
LEMMA SameCount == ASSUME NEW S PROVE Store!Cardinality(S) = Cardinality(S)
BY DEF Store!Cardinality, Cardinality

(* The ids are the numbers that were given.                                *)
LEMMA NextId ==
  ASSUME StoreInv
  PROVE  \E n \in Nat : /\ {m.id : m \in made} = 1 .. n
                        /\ 1 + Store!Cardinality({m.id : m \in made}) = n + 1
<1> DEFINE ids == {m.id : m \in made}
<1>1. PICK n \in Nat : ids = 1 .. n
  BY DEF StoreInv, MadeOK
<1> HIDE DEF ids
<1>2. Store!Cardinality(1 .. n) = n
  <2>0. 1 \in Int /\ n \in Int
    OBVIOUS
  <2>1. Cardinality(1 .. n) = IF 1 > n THEN 0 ELSE n - 1 + 1
    BY <2>0, FS_Interval
  <2>2. Store!Cardinality(1 .. n) = Cardinality(1 .. n)
    BY SameCount
  <2>3. QED
    BY <2>1, <2>2
<1>3. 1 + Store!Cardinality(ids) = n + 1
  BY <1>1, <1>2
<1>4. QED
  BY <1>1, <1>3 DEF ids

(* A new record has the next id.                                           *)
LEMMA NewSaved ==
  ASSUME StoreInv, NEW c \in Clients, NEW o \in Owners, NEW at \in 1 .. MaxRecords[table],
         NEW kind \in Store!Kinds[table], NEW named \in BOOLEAN,
         Store!SaveNew(c, o, at, kind, named)
  PROVE  StoreInv'
<1> DEFINE ids == {m.id : m \in made}
           id == 1 + Store!Cardinality(ids)
           row == [id |-> id, owner |-> o, at |-> at, kind |-> kind, rev |-> 1,
                   named |-> named, number |-> None]
<1>1. Store!Begin(c, row, FALSE) /\ id <= MaxRecords[table]
  BY DEF Store!SaveNew
<1>2. PICK n \in Nat : ids = 1 .. n /\ id = n + 1
  BY NextId
<1> HIDE DEF ids
<1>4. id = n + 1
  BY <1>2
<1>5. table \in Tables /\ MaxRecords[table] \in Nat /\ table \in Store!MemoryTables
  BY StoreAssumption DEF StoreInv, MadeOK
<1> HIDE DEF id
<1>6. row \in Store!RecordOf(table)
  <2>1. id \in 1 .. MaxRecords[table] /\ 1 \in 1 .. MaxVersions
    BY <1>1, <1>4, <1>5, StoreAssumption
  <2>2. kind \in UNION {Store!Kinds[k] : k \in Store!MemoryTables}
    BY <1>5
  <2>3. QED
    BY <2>1, <2>2 DEF Store!RecordOf
<1>7. row.number = None /\ row.id = n + 1 /\ row.rev = 1
  BY <1>4
<1> HIDE DEF row
<1>8. MadeOK'
  <2>1. made' = made \cup {row} /\ UNCHANGED <<table, indexed>>
    BY <1>1 DEF Store!Begin
  <2>2. \A m \in made : m.id # row.id
    BY <1>2, <1>7 DEF ids
  <2>3. {m.id : m \in made'} = 1 .. (n + 1)
    BY <1>2, <1>7, <2>1 DEF ids
  <2>4. n + 1 \in Nat
    OBVIOUS
  <2>5. made' \subseteq Store!Record /\ Store!Record' = Store!Record
    BY <1>6, <2>1 DEF Store!Record, Store!RecordOf, StoreInv, MadeOK
  <2>6. \A m, k \in made' : m.id = k.id =>
          m.owner = k.owner /\ m.at = k.at /\ m.named = k.named /\ (m.rev = k.rev => m = k)
    BY <2>1, <2>2 DEF StoreInv, MadeOK
  <2>7. QED
    BY <1>7, <2>1, <2>3, <2>4, <2>5, <2>6 DEF StoreInv, MadeOK
<1>9. QED
  BY <1>1, <1>6, <1>7, <1>8, Begun

(* Another version of a record has the next version number.                *)
LEMMA VersionIs ==
  ASSUME StoreInv, NEW r \in made
  PROVE  \A m \in made : m.id = r.id => m.rev \in Nat /\ m.rev <= Store!Version(r.id)
<1> DEFINE S == {m.rev : m \in {s \in made : s.id = r.id}}
<1>1. S \in SUBSET Nat /\ r.rev \in S /\ \A y \in S : y <= MaxVersions
  BY StoreAssumption DEF StoreInv, MadeOK, Store!Record, Store!RecordOf
<1>2. \A m \in made : m.id = r.id => m.rev \in S
  OBVIOUS
<1>3. Store!Version(r.id) = Store!Max(S)
  BY DEF Store!Version
<1> HIDE DEF S
<1>4. PICK x \in S : \A y \in S : y <= x
  BY <1>1, Largest, StoreAssumption
<1>5. Store!Max(S) = x
  BY <1>1, <1>4, MaxIs
<1>6. QED
  BY <1>1, <1>2, <1>3, <1>4, <1>5

LEMMA SavedAgain ==
  ASSUME StoreInv, NEW c \in Clients, NEW r \in Store!ToSet(stored),
         NEW kind \in Store!Kinds[table], Store!SaveAgain(c, r, kind)
  PROVE  StoreInv'
<1>1. PICK i \in DOMAIN stored : r = stored[i]
  BY DEF Store!ToSet
<1>2. r \in made /\ Holds(rows, r) /\ r \in Store!RecordOf(table) /\ r.number = None
  <2>1. table # "graph_run_event"
    BY DEF Store!SaveAgain, Store!Resaved, Store!Updated
  <2>2. QED
    BY <1>1, <2>1 DEF StoreInv, LogOK, Returned, MadeOK, Store!Record
<1>3. \A m \in made : m.id = r.id => m.rev \in Nat /\ m.rev <= r.rev
  BY <1>2, VersionIs DEF Store!SaveAgain
<1>4. PICK row, update :
        /\ update \in BOOLEAN /\ Store!Begin(c, row, update) /\ row \in Store!RecordOf(table)
        /\ row.number = None /\ row.id = r.id /\ row.owner = r.owner /\ row.at = r.at
        /\ row.named = r.named /\ row.rev = r.rev + 1
        /\ table # "graph_run_event" /\ (update => table = "graph_run")
  <2>1. r.rev + 1 \in 1 .. MaxVersions
    BY <1>2, StoreAssumption DEF Store!SaveAgain, Store!RecordOf
  <2>2. kind \in UNION {Store!Kinds[k] : k \in Store!MemoryTables}
    BY StoreAssumption DEF StoreInv, MadeOK
  <2>3. CASE table \in Store!Resaved /\ Store!Begin(c, [r EXCEPT !.rev = @ + 1], FALSE)
    <3> DEFINE row == [r EXCEPT !.rev = r.rev + 1]
    <3>1. row \in Store!RecordOf(table) /\ row.number = None /\ row.id = r.id
          /\ row.owner = r.owner /\ row.at = r.at /\ row.named = r.named /\ row.rev = r.rev + 1
      BY <1>2, <2>1 DEF Store!RecordOf
    <3>2. Store!Begin(c, row, FALSE) /\ table # "graph_run_event"
      BY <2>3 DEF Store!Resaved
    <3> HIDE DEF row
    <3>3. QED
      BY <3>1, <3>2
  <2>4. CASE /\ table \in Store!Updated
             /\ Store!Begin(c, [r EXCEPT !.rev = @ + 1, !.kind = kind], TRUE)
    <3> DEFINE row == [r EXCEPT !.rev = r.rev + 1, !.kind = kind]
    <3>1. row \in Store!RecordOf(table) /\ row.number = None /\ row.id = r.id
          /\ row.owner = r.owner /\ row.at = r.at /\ row.named = r.named /\ row.rev = r.rev + 1
      BY <1>2, <2>1, <2>2 DEF Store!RecordOf
    <3>2. Store!Begin(c, row, TRUE) /\ table = "graph_run"
      BY <2>4 DEF Store!Updated
    <3> HIDE DEF row
    <3>3. QED
      BY <3>1, <3>2
  <2>5. QED
    BY <2>3, <2>4 DEF Store!SaveAgain
<1>5. r.rev \in Nat
  BY <1>2, <1>3
<1>6. MadeOK'
  <2>1. made' = made \cup {row} /\ UNCHANGED <<table, indexed>>
    BY <1>4 DEF Store!Begin
  <2>2. \A m \in made : m.id = row.id => m.rev # row.rev
    BY <1>3, <1>4, <1>5
  <2>3. {m.id : m \in made'} = {m.id : m \in made}
    BY <1>2, <1>4, <2>1
  <2>4. made' \subseteq Store!Record /\ Store!Record' = Store!Record
    BY <1>4, <2>1 DEF Store!Record, Store!RecordOf, StoreInv, MadeOK
  <2>5. \A m \in made : m.id = row.id =>
          m.owner = row.owner /\ m.at = row.at /\ m.named = row.named
    BY <1>2, <1>4 DEF StoreInv, MadeOK
  <2>6. \A m, k \in made' : m.id = k.id =>
          m.owner = k.owner /\ m.at = k.at /\ m.named = k.named /\ (m.rev = k.rev => m = k)
    BY <2>1, <2>2, <2>5 DEF StoreInv, MadeOK
  <2>7. QED
    BY <1>4, <2>1, <2>3, <2>4, <2>6 DEF StoreInv, MadeOK
<1>7. update => Holds(rows, row)
  BY <1>2, <1>4 DEF Holds, KeyOf
<1>8. QED
  BY <1>4, <1>6, <1>7, Begun

----------------------------------------------------------------------------
(* The numbers of the events.                                              *)

(* The number of a call goes on from n events at most.                     *)
GoesOnFrom(k, o, n) ==
  k.step = "write" /\ k.row.owner = o /\ k.row.number # None => k.row.number \in 0 .. n

(* A step of the call of c adds its event with the next number, or none.   *)
LEMMA NumbersStep ==
  ASSUME NumbersOK, table' = table, NEW c \in Clients,
         \A d \in Clients \ {c} : saving'[d] = saving[d],
         NEW r,
         \/ rows' = rows
         \/ /\ rows' = rows \cup {r} /\ r = saving[c].row /\ saving[c].step = "write"
            /\ r.number # None => ~\E s \in rows : s.owner = r.owner /\ s.number = r.number,
         \A o \in Owners : \A n \in Nat : UpTo(n, o) => GoesOnFrom(saving'[c], o, n)
  PROVE  NumbersOK'
<1> SUFFICES ASSUME table = "graph_run_event", NEW o \in Owners PROVE \E n \in Nat : UpTo(n, o)'
  BY DEF NumbersOK
<1>1. PICK n \in Nat : UpTo(n, o)
  BY DEF NumbersOK
<1>2. \A d \in Clients : GoesOnFrom(saving'[d], o, n)
  <2>1. ASSUME NEW d \in Clients \ {c} PROVE GoesOnFrom(saving'[d], o, n)
    BY <1>1 DEF UpTo, GoesOnFrom
  <2>2. QED
    BY <1>1, <2>1
<1>3. CASE Numbered(o)' = Numbered(o)
  <2>1. UpTo(n, o)'
    BY <1>1, <1>2, <1>3 DEF UpTo, GoesOnFrom
  <2>2. QED
    BY <2>1
<1>4. CASE Numbered(o)' # Numbered(o)
  <2>1. /\ rows' = rows \cup {r} /\ r = saving[c].row /\ saving[c].step = "write"
        /\ r.number # None /\ r.owner = o
        /\ ~\E s \in rows : s.owner = r.owner /\ s.number = r.number
    BY <1>4 DEF Numbered
  <2>2. r.number \in 0 .. n
    BY <1>1, <2>1 DEF UpTo
  <2>3. r.number \notin {s.number : s \in Numbered(o)}
    BY <2>1 DEF Numbered
  <2>4. r.number = n
    BY <1>1, <2>2, <2>3 DEF UpTo
  <2>5. Numbered(o)' = Numbered(o) \cup {r}
    BY <2>1 DEF Numbered
  <2>6. {s.number : s \in Numbered(o) \cup {r}} = {s.number : s \in Numbered(o)} \cup {n}
    BY <2>4
  <2>7. {s.number : s \in Numbered(o) \cup {r}} = 0 .. (n + 1 - 1)
    BY <1>1, <2>6 DEF UpTo
  <2>8. \A s, t \in Numbered(o) \cup {r} : s.number = t.number => s = t
    BY <1>1, <2>3 DEF UpTo
  <2>9. \A d \in Clients : GoesOnFrom(saving'[d], o, n + 1)
    BY <1>2 DEF GoesOnFrom
  <2>10. UpTo(n + 1, o)'
    BY <2>5, <2>7, <2>8, <2>9 DEF UpTo, GoesOnFrom
  <2>11. n + 1 \in Nat
    OBVIOUS
  <2>12. QED
    BY <2>10, <2>11
<1>5. QED
  BY <1>3, <1>4

(* A step that carries nothing out.                                        *)
LEMMA NumbersStay ==
  ASSUME NumbersOK, table' = table, rows' = rows, NEW c \in Clients,
         \A d \in Clients \ {c} : saving'[d] = saving[d],
         \A o \in Owners : \A n \in Nat : UpTo(n, o) => GoesOnFrom(saving'[c], o, n)
  PROVE  NumbersOK'
BY NumbersStep

(* A call that is idle, or has no number yet.                              *)
LEMMA NumbersBegin ==
  ASSUME StoreInv, NumbersOK, NEW c \in Clients, NEW row, NEW update,
         Store!Begin(c, row, update)
  PROVE  NumbersOK'
<1> SUFFICES ASSUME table = "graph_run_event" PROVE NumbersOK'
  BY DEF Store!Begin, NumbersOK
<1>1. /\ table' = table /\ rows' = rows /\ \A d \in Clients \ {c} : saving'[d] = saving[d]
  BY DEF Store!Begin, StoreInv, CallsOK
<1>2. saving'[c].step = "look"
  BY DEF Store!Begin, StoreInv, CallsOK, Store!NoCall
<1>3. QED
  BY <1>1, <1>2, NumbersStay DEF GoesOnFrom

LEMMA NumbersLook ==
  ASSUME StoreInv, NumbersOK, NEW c \in Clients, Store!Look(c)
  PROVE  NumbersOK'
<1> DEFINE k == saving[c]
<1> SUFFICES ASSUME table = "graph_run_event" PROVE NumbersOK'
  BY DEF Store!Look, NumbersOK
<1>1. k \in Saves /\ k.row \in Store!Record
  BY OpenCall DEF Store!Look
<1>2. PICK next : /\ saving' = [saving EXCEPT ![c].step = "write", ![c].row.number = next]
                  /\ \/ next = None
                     \/ next = Store!Postgres!next_graph_run_event_sequence_index(rows, k.row.owner)
  BY DEF Store!Look
<1>3. /\ table' = table /\ rows' = rows /\ \A d \in Clients \ {c} : saving'[d] = saving[d]
  BY <1>2 DEF Store!Look, StoreInv, CallsOK
<1>4. saving'[c].row.owner = k.row.owner /\ saving'[c].row.number = next
  BY <1>1, <1>2 DEF StoreInv, CallsOK, Saves, Store!Record, Store!RecordOf
<1>5. ASSUME NEW o \in Owners, NEW n \in Nat, UpTo(n, o) PROVE GoesOnFrom(saving'[c], o, n)
  <2>1. Store!Postgres!next_graph_run_event_sequence_index(rows, o) \in {n, None}
    BY <1>5, NextNumber
  <2>2. QED
    BY <1>2, <1>4, <2>1 DEF GoesOnFrom
<1>6. QED
  BY <1>3, <1>5, NumbersStay

LEMMA NumbersLookFails ==
  ASSUME StoreInv, NumbersOK, NEW c \in Clients, Store!LookFails(c)
  PROVE  NumbersOK'
<1> SUFFICES ASSUME table = "graph_run_event" PROVE NumbersOK'
  BY DEF Store!LookFails, NumbersOK
<1>1. saving[c] \in Saves /\ saving[c].row.number = None
  BY OpenCall DEF Store!LookFails, SaveOK
<1>2. saving' = [saving EXCEPT ![c] = [saving[c] EXCEPT !.step = "write"]]
  BY DEF Store!LookFails, StoreInv, CallsOK
<1>3. /\ table' = table /\ rows' = rows /\ \A d \in Clients \ {c} : saving'[d] = saving[d]
  BY <1>2 DEF Store!LookFails, StoreInv, CallsOK
<1>4. saving'[c].row.number = None
  BY <1>1, <1>2 DEF StoreInv, CallsOK, Saves
<1>5. QED
  BY <1>3, <1>4, NumbersStay DEF GoesOnFrom

(* A call that ends, or tries the same again.                              *)
LEMMA SameNumber ==
  ASSUME StoreInv, NEW c \in Clients, saving[c].step = "write", NEW arrived,
         Store!TryAgain(c, arrived) \/ Store!Over(c)
  PROVE  /\ \A d \in Clients \ {c} : saving'[d] = saving[d]
         /\ \A o \in Owners : \A n \in Nat : UpTo(n, o) => GoesOnFrom(saving'[c], o, n)
<1>1. saving[c] \in Saves
  BY OpenCall
<1>2. PICK h : /\ saving' = [saving EXCEPT ![c] = h]
               /\ h.step = "idle" \/ (h.step = "write" /\ h.row = saving[c].row)
  <2> DEFINE k == saving[c]
             g == [k EXCEPT !.attempt = k.attempt + 1, !.arrived = arrived]
  <2>1. g.step = "write" /\ g.row = k.row /\ Store!NoCall.step = "idle"
    BY <1>1 DEF Saves, Store!NoCall
  <2>2. \/ saving' = [saving EXCEPT ![c] = IF k.attempt < MaxAttempts THEN g ELSE Store!NoCall]
        \/ saving' = [saving EXCEPT ![c] = Store!NoCall]
    BY DEF Store!TryAgain, Store!Over
  <2> HIDE DEF g
  <2>3. QED
    BY <2>1, <2>2
<1>3. saving'[c] = h /\ \A d \in Clients \ {c} : saving'[d] = saving[d]
  BY <1>2 DEF StoreInv, CallsOK
<1>4. QED
  BY <1>2, <1>3 DEF UpTo, GoesOnFrom

LEMMA NumbersLoseRequest ==
  ASSUME StoreInv, NumbersOK, NEW c \in Clients, Store!LoseRequest(c)
  PROVE  NumbersOK'
<1>1. /\ saving[c].step = "write" /\ Store!TryAgain(c, saving[c].arrived)
      /\ rows' = rows /\ table' = table
  BY DEF Store!LoseRequest
<1>2. QED
  BY <1>1, SameNumber, NumbersStay

(* What carrying an event out does to the rows.                            *)
LEMMA EventAdded ==
  ASSUME StoreInv, NEW c \in Clients, saving[c].step = "write", table = "graph_run_event",
         NEW result \in Store!Carried(c)
  PROVE  LET r == saving[c].row
         IN /\ \/ result.rows = rows
               \/ /\ result.rows = rows \cup {r}
                  /\ r.number # None =>
                       ~\E s \in rows : s.owner = r.owner /\ s.number = r.number
            /\ result.verdict = "sequence" =>
                 /\ r.number \in Nat
                 /\ \E s \in rows : s.owner = r.owner /\ s.number = r.number
<1>1. SaveOK(rows, saving[c]) /\ Known(saving[c].row)
  BY OpenCall
<1>2. /\ CarriedOK(saving[c].row, result)
      /\ result \in Store!Postgres!save_graph_run_event(rows, saving[c].row)
  BY <1>1, Carries DEF StoreInv
<1>3. QED
  BY <1>1, <1>2, SavesEvent DEF StoreInv, CarriedOK

LEMMA NumbersLoseAnswer ==
  ASSUME StoreInv, NumbersOK, NEW c \in Clients, Store!LoseAnswer(c)
  PROVE  NumbersOK'
<1>1. saving[c].step = "write" /\ table' = table
  BY DEF Store!LoseAnswer
<1> SUFFICES ASSUME table = "graph_run_event" PROVE NumbersOK'
  BY <1>1 DEF NumbersOK
<1>2. PICK result \in Store!Carried(c) :
        /\ rows' = result.rows
        /\ Store!TryAgain(c, saving[c].arrived \/ result.verdict = "ok")
  BY DEF Store!LoseAnswer
<1>3. /\ \A d \in Clients \ {c} : saving'[d] = saving[d]
      /\ \A o \in Owners : \A n \in Nat : UpTo(n, o) => GoesOnFrom(saving'[c], o, n)
  BY <1>1, <1>2, SameNumber
<1>4. PICK r : r = saving[c].row
  OBVIOUS
<1>5. \/ rows' = rows
      \/ /\ rows' = rows \cup {r}
         /\ r.number # None => ~\E s \in rows : s.owner = r.owner /\ s.number = r.number
  BY <1>1, <1>2, <1>4, EventAdded
<1>6. QED
  BY <1>1, <1>3, <1>4, <1>5, NumbersStep

LEMMA NumbersReach ==
  ASSUME StoreInv, NumbersOK, NEW c \in Clients, Store!Reach(c)
  PROVE  NumbersOK'
<1>1. saving[c].step = "write" /\ table' = table
  BY DEF Store!Reach
<1> SUFFICES ASSUME table = "graph_run_event" PROVE NumbersOK'
  BY <1>1 DEF NumbersOK
<1>2. PICK result \in Store!Carried(c) :
        /\ rows' = result.rows
        /\ \/ Store!Over(c)
           \/ /\ result.verdict = "sequence"
              /\ saving' = [saving EXCEPT ![c].row.number = @ + 1, ![c].attempt = 1,
                                          ![c].bumps = @ + 1]
  BY DEF Store!Reach
<1>3. PICK r : r = saving[c].row
  OBVIOUS
<1>4. /\ \/ rows' = rows
         \/ /\ rows' = rows \cup {r}
            /\ r.number # None => ~\E s \in rows : s.owner = r.owner /\ s.number = r.number
      /\ result.verdict = "sequence" =>
           r.number \in Nat /\ \E s \in rows : s.owner = r.owner /\ s.number = r.number
  BY <1>1, <1>2, <1>3, EventAdded
<1>5. CASE Store!Over(c)
  <2>1. /\ \A d \in Clients \ {c} : saving'[d] = saving[d]
        /\ \A o \in Owners : \A n \in Nat : UpTo(n, o) => GoesOnFrom(saving'[c], o, n)
    BY <1>1, <1>5, SameNumber
  <2>2. QED
    BY <1>1, <1>3, <1>4, <2>1, NumbersStep
<1>6. CASE /\ result.verdict = "sequence"
           /\ saving' = [saving EXCEPT ![c].row.number = @ + 1, ![c].attempt = 1,
                                       ![c].bumps = @ + 1]
  <2>1. r.number \in Nat /\ \E s \in rows : s.owner = r.owner /\ s.number = r.number
    BY <1>4, <1>6
  <2>2. saving[c] \in Saves /\ r \in Store!Record
    BY <1>1, <1>3, OpenCall
  <2>3. /\ \A d \in Clients \ {c} : saving'[d] = saving[d]
        /\ saving'[c].row.owner = r.owner /\ saving'[c].row.number = r.number + 1
    BY <1>3, <1>6, <2>2 DEF StoreInv, CallsOK, Saves, Store!Record, Store!RecordOf
  <2>4. ASSUME NEW o \in Owners, NEW n \in Nat, UpTo(n, o) PROVE GoesOnFrom(saving'[c], o, n)
    <3>1. CASE r.owner = o
      <4>1. PICK s \in Numbered(o) : s.number = r.number
        BY <2>1, <3>1, StoreAssumption DEF Numbered
      <4>2. r.number \in 0 .. (n - 1)
        BY <2>4, <4>1 DEF UpTo
      <4>3. QED
        BY <2>3, <4>2 DEF GoesOnFrom
    <3>2. CASE r.owner # o
      BY <2>3, <3>2 DEF GoesOnFrom
    <3>3. QED
      BY <3>1, <3>2
  <2>5. QED
    BY <1>1, <1>3, <1>4, <2>3, <2>4, NumbersStep
<1>7. QED
  BY <1>2, <1>5, <1>6

LEMMA NumbersGiveUp ==
  ASSUME StoreInv, NumbersOK, NEW c \in Clients, Store!GiveUp(c)
  PROVE  NumbersOK'
<1>1. saving[c].step = "write" /\ Store!Over(c) /\ rows' = rows /\ table' = table
  BY DEF Store!GiveUp
<1>2. PICK arrived : arrived = TRUE
  OBVIOUS
<1>3. QED
  BY <1>1, <1>2, SameNumber, NumbersStay

----------------------------------------------------------------------------
(* Every step.                                                             *)

StoreAll == StoreInv /\ NumbersOK

LEMMA StoreStarts == Store!Init => StoreAll
<1> SUFFICES ASSUME Store!Init PROVE NumbersOK
  BY StoreStart DEF StoreAll
<1>1. rows = {} /\ saving = [c \in Clients |-> Store!NoCall] /\ Store!NoCall.step = "idle"
  BY DEF Store!Init, Store!NoCall
<1>2. ASSUME NEW o \in Owners PROVE UpTo(0, o)
  BY <1>1 DEF UpTo, Numbered
<1>3. QED
  BY <1>2 DEF NumbersOK

LEMMA StoreStep == StoreAll /\ [Store!Next]_(Store!vars) => StoreAll'
<1> SUFFICES ASSUME StoreAll, [Store!Next]_(Store!vars) PROVE StoreAll'
  OBVIOUS
<1>0. StoreInv /\ NumbersOK
  BY DEF StoreAll
<1>1. CASE UNCHANGED Store!vars
  <2>1. UNCHANGED <<table, indexed, stored, rows, made, saving, answered, refused, alone>>
    BY <1>1 DEF Store!vars
  <2>2. MadeOK' /\ LogOK' /\ RowsOK' /\ AnswersOK'
    <3>1. MadeOK' /\ RowsOK'
      BY <1>0, <2>1 DEF StoreInv, MadeOK, RowsOK, RowMade, Known, Store!Record, Store!RecordOf
    <3>2. LogOK'
      BY <1>0, <2>1 DEF StoreInv, LogOK, Holds, KeyOf, Returned, Plain, Store!Record,
           Store!RecordOf
    <3>3. AnswersOK'
      BY <1>0, <2>1 DEF StoreInv, AnswersOK, Known, Holds, KeyOf, GivenUp, Taken, Store!Record,
           Store!RecordOf
    <3>4. QED
      BY <3>1, <3>2, <3>3
  <2>3. CallsOK'
    BY <1>0, <2>1 DEF StoreInv, CallsOK, SaveOK, Saves, Known, Holds, KeyOf, Taken,
         Store!Record, Store!RecordOf
  <2>4. NumbersOK'
    BY <1>0, <2>1 DEF NumbersOK, UpTo, Numbered
  <2>5. QED
    BY <1>0, <2>1, <2>2, <2>3, <2>4 DEF StoreAll, StoreInv
<1>2. CASE \E c \in Clients, o \in Owners, at \in 1 .. MaxRecords[table],
              kind \in Store!Kinds[table], named \in BOOLEAN :
             Store!SaveNew(c, o, at, kind, named)
  <2>1. PICK c \in Clients, o \in Owners, at \in 1 .. MaxRecords[table],
             kind \in Store!Kinds[table], named \in BOOLEAN :
               Store!SaveNew(c, o, at, kind, named)
    BY <1>2
  <2>2. StoreInv'
    BY <1>0, <2>1, NewSaved
  <2>3. \E row : Store!Begin(c, row, FALSE)
    BY <2>1 DEF Store!SaveNew
  <2>4. QED
    BY <1>0, <2>2, <2>3, NumbersBegin DEF StoreAll
<1>3. CASE \E c \in Clients, r \in Store!ToSet(stored), kind \in Store!Kinds[table] :
             Store!SaveAgain(c, r, kind)
  <2>1. PICK c \in Clients, r \in Store!ToSet(stored), kind \in Store!Kinds[table] :
               Store!SaveAgain(c, r, kind)
    BY <1>3
  <2>2. StoreInv'
    BY <1>0, <2>1, SavedAgain
  <2>3. \E row, update : Store!Begin(c, row, update)
    BY <2>1 DEF Store!SaveAgain
  <2>4. QED
    BY <1>0, <2>2, <2>3, NumbersBegin DEF StoreAll
<1>4. CASE \E c \in Clients : Store!Look(c)
  BY <1>0, <1>4, LooksUp, NumbersLook DEF StoreAll
<1>5. CASE \E c \in Clients : Store!LookFails(c)
  BY <1>0, <1>5, LookMissed, NumbersLookFails DEF StoreAll
<1>6. CASE \E c \in Clients : Store!Reach(c)
  BY <1>0, <1>6, Reaches, NumbersReach DEF StoreAll
<1>7. CASE \E c \in Clients : Store!LoseAnswer(c)
  BY <1>0, <1>7, AnswerLost, NumbersLoseAnswer DEF StoreAll
<1>8. CASE \E c \in Clients : Store!LoseRequest(c)
  BY <1>0, <1>8, RequestLost, NumbersLoseRequest DEF StoreAll
<1>9. CASE \E c \in Clients : Store!GiveUp(c)
  BY <1>0, <1>9, GivesUpStored, NumbersGiveUp DEF StoreAll
<1>10. QED
  BY <1>1, <1>2, <1>3, <1>4, <1>5, <1>6, <1>7, <1>8, <1>9 DEF Store!Next

(* Every record, row and call of the repository is one of its tables'.     *)
THEOREM StoreTyped == Store!Spec => []Store!TypeOK
<1>1. ASSUME StoreInv PROVE Store!TypeOK
  <2>1. Store!ToSet(stored) \subseteq Store!Record
    BY <1>1 DEF StoreInv, MadeOK, LogOK, Store!ToSet
  <2>2. rows \subseteq Store!Record
    BY <1>1 DEF StoreInv, RowsOK, RowMade
  <2>3. answered \subseteq Store!Record
    BY <1>1 DEF StoreInv, AnswersOK, Known
  <2>4. \A c \in Clients :
          \/ saving[c] = Store!NoCall
          \/ /\ saving[c].step \in {"look", "write"} /\ saving[c].row \in Store!Record
             /\ saving[c].attempt \in 1 .. MaxAttempts
    BY <1>1 DEF StoreInv, CallsOK, SaveOK, Known
  <2>5. QED
    BY <1>1, <2>1, <2>2, <2>3, <2>4 DEF StoreInv, MadeOK, Store!TypeOK
<1>2. StoreAll => Store!TypeOK
  BY <1>1 DEF StoreAll
<1>3. QED
  BY StoreStarts, StoreStep, <1>2, PTL DEF Store!Spec

(* Retries and lost answers never make a save refuse itself.               *)
THEOREM RetriesAreSafe == Store!Spec => []RetryIsSafe
<1>1. StoreAll => RetryIsSafe
  BY DEF StoreAll, StoreInv, RetryIsSafe, Store!RetryIsSafe
<1>2. QED
  BY StoreStarts, StoreStep, <1>1, PTL DEF Store!Spec

(* A save that returned is in its table, in every table and whatever was   *)
(* lost or raced; but for an event whose every number, MaxBumps of them,   *)
(* another event of its run had taken (supabase_repository.py).            *)
THEOREM StoredWhenAnswered == Store!Spec => []AnsweredIsStored
<1>1. ASSUME StoreInv, NEW r \in answered, Holds(rows, r)
      PROVE  \E s \in rows :
               IF table \in Store!Memory!Keyed THEN s.owner = r.owner
               ELSE s.id = r.id /\ (s.rev # r.rev \/ [s EXCEPT !.number = r.number] = r)
  <2>1. Known(r)
    BY <1>1 DEF StoreInv, AnswersOK
  <2>2. PICK s \in rows : KeyOf(s) = KeyOf(r)
    BY <1>1 DEF Holds
  <2>3. CASE table \in Store!Memory!Keyed
    BY <2>2, <2>3 DEF KeyOf
  <2>4. CASE table \notin Store!Memory!Keyed
    <3>1. Known(s) /\ s.id = r.id
      BY <1>1, <2>2, <2>4 DEF StoreInv, RowsOK, RowMade, KeyOf
    <3>2. s.rev = r.rev => [s EXCEPT !.number = None] = [r EXCEPT !.number = None]
      BY <1>1, <2>1, <3>1 DEF StoreInv, MadeOK, Known, Store!Record, Store!RecordOf
    <3>3. ASSUME [s EXCEPT !.number = None] = [r EXCEPT !.number = None]
          PROVE  [s EXCEPT !.number = r.number] = r
      BY <2>1, <3>1, <3>3 DEF Known, Store!Record, Store!RecordOf
    <3>4. QED
      BY <2>4, <3>1, <3>2, <3>3
  <2>5. QED
    BY <2>3, <2>4
<1>2. ASSUME StoreInv, NEW r \in answered, ~Holds(rows, r)
      PROVE  /\ table = "graph_run_event" /\ r.number # None
             /\ \A n \in (r.number - MaxBumps + 1) .. r.number :
                  \E s \in rows : s.owner = r.owner /\ s.id # r.id /\ s.number = n
  BY <1>2 DEF StoreInv, AnswersOK, GivenUp, Taken
<1>3. StoreAll => AnsweredIsStored
  BY <1>1, <1>2 DEF StoreAll, AnsweredIsStored, Store!AnsweredIsStored
<1>4. QED
  BY StoreStarts, StoreStep, <1>3, PTL DEF Store!Spec

(* As many as there are numbers.                                           *)
LEMMA CountOf ==
  ASSUME NEW S, NEW n \in Nat, {s.number : s \in S} = 0 .. (n - 1),
         \A s, t \in S : s.number = t.number => s = t
  PROVE  Cardinality(S) = n
<1> DEFINE T == 0 .. (n - 1)
           f == [x \in T |-> CHOOSE s \in S : s.number = x]
<1>1. \A x \in T : \E s \in S : s.number = x
  OBVIOUS
<1>2. \A x \in T : f[x] \in S /\ f[x].number = x
  BY <1>1
<1>3. \A s \in S : s.number \in T /\ f[s.number] = s
  BY <1>2
<1>4. f \in [T -> S]
  BY <1>2
<1> HIDE DEF f
<1>5. f \in Bijection(T, S)
  <2>1. \A x, y \in T : f[x] = f[y] => x = y
    BY <1>2
  <2>2. \A s \in S : \E x \in T : f[x] = s
    BY <1>3
  <2>3. QED
    BY <1>4, <2>1, <2>2 DEF Bijection, Injection, Surjection, IsInjective
<1>6. IsFiniteSet(T) /\ Cardinality(T) = IF 0 > n - 1 THEN 0 ELSE n - 1 - 0 + 1
  BY FS_Interval
<1>7. Cardinality(S) = Cardinality(T)
  BY <1>5, <1>6, FS_Bijection DEF ExistsBijection
<1>8. Cardinality(T) = n
  BY <1>6
<1>9. QED
  BY <1>7, <1>8

(* The events of a run are numbered from zero, each number once.           *)
THEOREM EventsAreNumbered == Store!Spec => []EventNumbers
<1>1. ASSUME StoreAll, NEW o \in Owners
      PROVE  LET numbered == {r \in Store!Postgres!Of(rows, o) : r.number # None}
             IN {r.number : r \in numbered} = 0 .. (Store!Cardinality(numbered) - 1)
  <2>1. {r \in Store!Postgres!Of(rows, o) : r.number # None} = Numbered(o)
    BY DEF Store!Postgres!Of, Numbered
  <2>2. CASE table = "graph_run_event"
    <3>1. PICK n \in Nat : UpTo(n, o)
      BY <1>1, <2>2 DEF StoreAll, NumbersOK
    <3>2. Cardinality(Numbered(o)) = n
      BY <3>1, CountOf DEF UpTo
    <3>3. Store!Cardinality(Numbered(o)) = n
      BY <3>2, SameCount
    <3>4. QED
      BY <2>1, <3>1, <3>3 DEF UpTo
  <2>3. CASE table # "graph_run_event"
    <3>1. Numbered(o) = {}
      BY <1>1, <2>3 DEF StoreAll, StoreInv, RowsOK, RowMade, Numbered
    <3>2. Cardinality(Numbered(o)) = 0
      BY <3>1, FS_EmptySet
    <3>3. Store!Cardinality(Numbered(o)) = 0
      BY <3>2, SameCount
    <3>4. {r.number : r \in Numbered(o)} = {} /\ 0 .. (0 - 1) = {}
      BY <3>1
    <3>5. QED
      BY <2>1, <3>3, <3>4
  <2>4. QED
    BY <2>2, <2>3
<1>2. StoreAll => EventNumbers
  BY <1>1 DEF EventNumbers, Store!EventNumbers
<1>3. QED
  BY StoreStarts, StoreStep, <1>2, PTL DEF Store!Spec
----------------------------------------------------------------------------
(* Sets of records in the order of their times.                            *)

Before(x, y, desc) == IF desc THEN x.at > y.at ELSE x.at < y.at

InOrder(s, desc) == \A i, j \in DOMAIN s : i < j => Before(s[i], s[j], desc)

(* No two records of one time: there is one order.                         *)
Orderly(F) ==
  /\ IsFiniteSet(F)
  /\ \A x \in F : x.at \in Nat
  /\ \A x, y \in F : x.at = y.at => x = y

(* How many records stand before one.                                      *)
Ahead(F, x, desc) == {y \in F : Before(y, x, desc)}
Rank(F, x, desc) == Cardinality(Ahead(F, x, desc))

LEMMA Ranks ==
  ASSUME NEW F, Orderly(F), NEW desc \in BOOLEAN, NEW x \in F
  PROVE  /\ Rank(F, x, desc) \in 0 .. (Cardinality(F) - 1)
         /\ \A y \in F : Before(y, x, desc) => Rank(F, y, desc) < Rank(F, x, desc)
<1>1. ASSUME NEW S \in SUBSET F, NEW T \in SUBSET S, T # S
      PROVE  /\ Cardinality(T) \in Nat /\ Cardinality(S) \in Nat
             /\ Cardinality(T) < Cardinality(S)
  <2>1. IsFiniteSet(S) /\ IsFiniteSet(T)
    BY <1>1, FS_Subset DEF Orderly
  <2>2. Cardinality(T) <= Cardinality(S) /\ (Cardinality(S) = Cardinality(T) => S = T)
    BY <2>1, FS_Subset
  <2>3. Cardinality(S) \in Nat /\ Cardinality(T) \in Nat
    BY <2>1, FS_CardinalityType
  <2>4. QED
    BY <1>1, <2>2, <2>3
<1>2. Rank(F, x, desc) \in 0 .. (Cardinality(F) - 1)
  <2>1. Ahead(F, x, desc) \in SUBSET F /\ x \notin Ahead(F, x, desc)
    BY DEF Ahead, Before, Orderly
  <2>2. F \in SUBSET F /\ Ahead(F, x, desc) # F
    BY <2>1
  <2>3. /\ Rank(F, x, desc) \in Nat /\ Cardinality(F) \in Nat
        /\ Rank(F, x, desc) < Cardinality(F)
    BY <1>1, <2>1, <2>2 DEF Rank
  <2>4. QED
    BY <2>3
<1>3. ASSUME NEW y \in F, Before(y, x, desc) PROVE Rank(F, y, desc) < Rank(F, x, desc)
  <2>1. Ahead(F, x, desc) \in SUBSET F
    BY DEF Ahead
  <2>2. Ahead(F, y, desc) \in SUBSET Ahead(F, x, desc)
    BY <1>3 DEF Ahead, Before, Orderly
  <2>3. y \in Ahead(F, x, desc) /\ y \notin Ahead(F, y, desc)
    BY <1>3 DEF Ahead, Before, Orderly
  <2>4. Ahead(F, y, desc) # Ahead(F, x, desc)
    BY <2>3
  <2>5. QED
    BY <1>1, <2>1, <2>2, <2>4 DEF Rank
<1>4. QED
  BY <1>2, <1>3

(* One record has each rank.                                               *)
LEMMA EveryRank ==
  ASSUME NEW F, Orderly(F), NEW desc \in BOOLEAN
  PROVE  /\ \A x, y \in F : Rank(F, x, desc) = Rank(F, y, desc) => x = y
         /\ \A k \in 0 .. (Cardinality(F) - 1) : \E x \in F : Rank(F, x, desc) = k
<1> DEFINE n == Cardinality(F)
           K == 0 .. (n - 1)
           rank == [x \in F |-> Rank(F, x, desc)]
<1>1. n \in Nat
  BY FS_CardinalityType DEF Orderly
<1>2. \A x \in F : Rank(F, x, desc) \in K
  BY Ranks
<1>3. ASSUME NEW x \in F, NEW y \in F, Rank(F, x, desc) = Rank(F, y, desc) PROVE x = y
  <2>1. ~Before(x, y, desc) /\ ~Before(y, x, desc)
    <3>1. Rank(F, x, desc) \in Nat /\ Rank(F, y, desc) \in Nat
      BY <1>2
    <3>2. QED
      BY <1>3, <3>1, Ranks
  <2>2. QED
    BY <2>1 DEF Before, Orderly
<1>4. rank \in Injection(F, K)
  <2>1. rank \in [F -> K]
    BY <1>2
  <2>2. \A x, y \in F : rank[x] = rank[y] => x = y
    BY <1>3
  <2>3. QED
    BY <2>1, <2>2, Fun_IsInj
<1>5. IsFiniteSet(K) /\ Cardinality(K) = n
  <2>1. IsFiniteSet(K) /\ Cardinality(K) = IF 0 > n - 1 THEN 0 ELSE n - 1 - 0 + 1
    BY <1>1, FS_Interval
  <2>2. QED
    BY <1>1, <2>1
<1>6. rank \in Surjection(F, K)
  <2> HIDE DEF rank, K, n
  <2>1. Cardinality(F) = Cardinality(K) <=> rank \in Surjection(F, K)
    BY <1>4, <1>5, FS_Injection
  <2>2. QED
    BY <1>5, <2>1 DEF n
<1>7. \A k \in K : \E x \in F : rank[x] = k
  BY <1>6 DEF Surjection
<1>8. QED
  BY <1>3, <1>7

LEMMA OrderExists ==
  ASSUME NEW F, Orderly(F), NEW desc \in BOOLEAN
  PROVE  \E s \in [1 .. Cardinality(F) -> F] : InOrder(s, desc)
<1> DEFINE n == Cardinality(F)
           s == [i \in 1 .. n |-> CHOOSE x \in F : Rank(F, x, desc) = i - 1]
<1>1. n \in Nat
  BY FS_CardinalityType DEF Orderly
<1>2. \A i \in 1 .. n : s[i] \in F /\ Rank(F, s[i], desc) = i - 1
  <2>1. ASSUME NEW i \in 1 .. n PROVE \E x \in F : Rank(F, x, desc) = i - 1
    <3>1. i - 1 \in 0 .. (n - 1)
      BY <1>1
    <3>2. QED
      BY <3>1, EveryRank
  <2>2. QED
    BY <2>1
<1>3. s \in [1 .. n -> F]
  BY <1>2
<1>4. InOrder(s, desc)
  <2>1. SUFFICES ASSUME NEW i \in 1 .. n, NEW j \in 1 .. n, i < j PROVE Before(s[i], s[j], desc)
    BY DEF InOrder
  <2>2. s[i] \in F /\ s[j] \in F /\ Rank(F, s[i], desc) = i - 1 /\ Rank(F, s[j], desc) = j - 1
    BY <1>2
  <2>3. s[i] # s[j]
    BY <2>1, <2>2
  <2>4. ~Before(s[j], s[i], desc)
    <3>1. Before(s[j], s[i], desc) => j - 1 < i - 1
      BY <2>2, Ranks
    <3>2. QED
      BY <2>1, <3>1
  <2> HIDE DEF s
  <2>5. s[i].at \in Nat /\ s[j].at \in Nat /\ s[i].at # s[j].at
    BY <2>2, <2>3 DEF Orderly
  <2>6. QED
    BY <2>4, <2>5 DEF Before
<1> HIDE DEF s
<1>5. QED
  BY <1>3, <1>4

(* In an order of F each record stands at its rank.                        *)
LEMMA OrderIsRank ==
  ASSUME NEW F, Orderly(F), NEW desc \in BOOLEAN,
         NEW s \in [1 .. Cardinality(F) -> F], InOrder(s, desc)
  PROVE  \A k \in 1 .. Cardinality(F) : Rank(F, s[k], desc) = k - 1
<1> DEFINE n == Cardinality(F)
<1>1. n \in Nat /\ IsFiniteSet(F)
  BY FS_CardinalityType DEF Orderly
<1>2. IsFiniteSet(1 .. n) /\ Cardinality(1 .. n) = n
  <2>1. IsFiniteSet(1 .. n) /\ Cardinality(1 .. n) = IF 1 > n THEN 0 ELSE n - 1 + 1
    BY <1>1, FS_Interval
  <2>2. QED
    BY <1>1, <2>1
<1>3. \A i, j \in 1 .. n : i < j => Before(s[i], s[j], desc)
  BY DEF InOrder
<1>4. \A i, j \in 1 .. n : s[i] = s[j] => i = j
  <2>1. \A i \in 1 .. n : ~Before(s[i], s[i], desc)
    BY DEF Before, Orderly
  <2>2. SUFFICES ASSUME NEW i \in 1 .. n, NEW j \in 1 .. n, s[i] = s[j], i # j PROVE FALSE
    OBVIOUS
  <2>3. i < j \/ j < i
    BY <2>2, <1>1
  <2>4. QED
    BY <2>1, <2>2, <2>3, <1>3
<1>5. s \in Injection(1 .. n, F)
  BY <1>4, Fun_IsInj
<1>6. s \in Surjection(1 .. n, F)
  <2> HIDE DEF n
  <2>1. Cardinality(1 .. n) = Cardinality(F) <=> s \in Surjection(1 .. n, F)
    BY <1>1, <1>5, FS_Injection
  <2>2. QED
    BY <1>2, <2>1 DEF n
<1>7. \A x \in F : \E i \in 1 .. n : s[i] = x
  BY <1>6 DEF Surjection
<1>8. TAKE k \in 1 .. n
<1> DEFINE K == 1 .. (k - 1)
           f == [i \in K |-> s[i]]
<1>9. K \subseteq 1 .. n
  BY <1>1
<1>10. f \in [K -> Ahead(F, s[k], desc)]
  <2>1. \A i \in K : s[i] \in F /\ Before(s[i], s[k], desc)
    BY <1>1, <1>3, <1>9
  <2>2. QED
    BY <2>1 DEF Ahead
<1>11. \A i, j \in K : f[i] = f[j] => i = j
  BY <1>4, <1>9
<1>12. \A y \in Ahead(F, s[k], desc) : \E i \in K : f[i] = y
  <2>1. TAKE y \in Ahead(F, s[k], desc)
  <2>2. PICK i \in 1 .. n : s[i] = y
    BY <1>7 DEF Ahead
  <2>3. Before(s[i], s[k], desc)
    BY <2>2 DEF Ahead
  <2>4. i # k /\ ~Before(s[k], s[i], desc)
    BY <2>3 DEF Before, Orderly
  <2>5. ~(k < i)
    BY <1>3, <2>4
  <2>6. i \in K
    BY <1>1, <2>4, <2>5
  <2>7. QED
    BY <2>2, <2>6
<1>13. f \in Bijection(K, Ahead(F, s[k], desc))
  BY <1>10, <1>11, <1>12, Fun_IsBij
<1>14. IsFiniteSet(K) /\ Cardinality(K) = k - 1
  <2>0. k - 1 \in Int /\ 1 \in Int
    BY <1>1
  <2>1. IsFiniteSet(K) /\ Cardinality(K) = IF 1 > k - 1 THEN 0 ELSE k - 1 - 1 + 1
    BY <2>0, FS_Interval
  <2>2. QED
    BY <1>1, <2>1
<1> HIDE DEF f, K
<1>15. ExistsBijection(K, Ahead(F, s[k], desc))
  BY <1>13 DEF ExistsBijection
<1>16. QED
  BY <1>14, <1>15, FS_Bijection DEF Rank

(* What both repositories make of a set of records.                        *)
LEMMA OrderIs ==
  ASSUME NEW F, Orderly(F), NEW desc \in BOOLEAN
  PROVE  LET s == Store!Postgres!order(F, desc)
         IN /\ s \in [1 .. Cardinality(F) -> F] /\ s \in Seq(F) /\ Len(s) = Cardinality(F)
            /\ \A k \in 1 .. Cardinality(F) : s[k] \in F /\ Rank(F, s[k], desc) = k - 1
<1> DEFINE n == Cardinality(F)
           Is(s) == s \in [1 .. n -> F] /\ InOrder(s, desc)
<1>1. Store!Postgres!Cardinality(F) = n
  BY DEF Store!Postgres!Cardinality, Cardinality
<1>2. Store!Postgres!order(F, desc) = CHOOSE s \in [1 .. n -> F] : InOrder(s, desc)
  BY <1>1 DEF Store!Postgres!order, InOrder, Before
<1>3. PICK s : s = Store!Postgres!order(F, desc) /\ s \in [1 .. n -> F] /\ InOrder(s, desc)
  BY <1>2, OrderExists
<1>4. n \in Nat
  BY FS_CardinalityType DEF Orderly
<1>5. s \in Seq(F) /\ Len(s) = n
  BY <1>3, <1>4
<1>6. \A k \in 1 .. n : Rank(F, s[k], desc) = k - 1
  BY <1>3, OrderIsRank
<1>7. QED
  BY <1>3, <1>5, <1>6

LEMMA SortIsOrder ==
  ASSUME NEW F, NEW desc
  PROVE  Store!Memory!sort(F, desc) = Store!Postgres!order(F, desc)
<1>1. Store!Memory!Cardinality(F) = Store!Postgres!Cardinality(F)
  BY DEF Store!Memory!Cardinality, Store!Postgres!Cardinality
<1>2. QED
  BY <1>1 DEF Store!Memory!sort, Store!Postgres!order

(* The beginning of an order.                                              *)
LEMMA LimitIs ==
  ASSUME NEW F, Orderly(F), NEW desc \in BOOLEAN, NEW n \in Nat
  PROVE  LET s == Store!Postgres!order(F, desc)
             l == Store!Postgres!limit(s, n)
             k == IF Cardinality(F) < n THEN Cardinality(F) ELSE n
         IN /\ k \in Nat /\ k <= n /\ k <= Cardinality(F)
            /\ l \in Seq(F) /\ Len(l) = k /\ DOMAIN l = 1 .. k
            /\ \A i \in 1 .. k : l[i] = s[i]
<1>1. PICK s : s = Store!Postgres!order(F, desc)
  OBVIOUS
<1> DEFINE l == Store!Postgres!limit(s, n)
           k == IF Cardinality(F) < n THEN Cardinality(F) ELSE n
<1>2. /\ s \in Seq(F) /\ Len(s) = Cardinality(F)
      /\ \A i \in 1 .. Cardinality(F) : s[i] \in F
  BY <1>1, OrderIs
<1>3. Cardinality(F) \in Nat
  BY FS_CardinalityType DEF Orderly
<1>4. k \in Nat /\ k <= n /\ k <= Cardinality(F)
  BY <1>3
<1>5. l = SubSeq(s, 1, k)
  BY <1>2 DEF Store!Postgres!limit
<1> HIDE DEF k, l
<1>6. \A i \in 1 .. k : s[i] \in F
  BY <1>2, <1>3, <1>4
<1>7. /\ SubSeq(s, 1, k) \in Seq(F)
      /\ Len(SubSeq(s, 1, k)) = IF 1 <= k THEN k - 1 + 1 ELSE 0
      /\ \A i \in 1 .. k - 1 + 1 : SubSeq(s, 1, k)[i] = s[1 + i - 1]
  <2>1. 1 \in Int /\ k \in Int
    BY <1>4
  <2>2. QED
    BY <1>6, <2>1, SubSeqProperties
<1>8. Len(l) = k /\ \A i \in 1 .. k : l[i] = s[i]
  <2>1. Len(l) = k
    BY <1>4, <1>5, <1>7
  <2>2. \A i \in 1 .. k : i \in 1 .. k - 1 + 1 /\ 1 + i - 1 = i
    BY <1>4
  <2>3. QED
    BY <1>5, <1>7, <2>1, <2>2
<1>9. l \in Seq(F) /\ DOMAIN l = 1 .. k
  BY <1>5, <1>7, <1>8, LenProperties
<1>10. QED
  BY <1>1, <1>4, <1>8, <1>9 DEF k, l

(* The newest record of a set.                                             *)
LEMMA NewestIs ==
  ASSUME NEW F, Orderly(F), NEW x \in F, \A y \in F : y.at <= x.at
  PROVE  Store!Memory!max(F) = x
<1>1. \A z \in F : (\A y \in F : y.at <= z.at) => z = x
  BY DEF Orderly
<1>2. F # {}
  OBVIOUS
<1>3. QED
  BY <1>1, <1>2 DEF Store!Memory!max

(* Nothing stands before the first or after the last.                      *)
LEMMA FirstAndLast ==
  ASSUME NEW F, Orderly(F), NEW desc \in BOOLEAN, NEW x \in F, NEW y \in F
  PROVE  /\ Rank(F, x, desc) = 0 => ~Before(y, x, desc)
         /\ Rank(F, x, desc) = Cardinality(F) - 1 => ~Before(x, y, desc)
<1>1. Cardinality(F) \in Nat
  BY FS_CardinalityType DEF Orderly
<1>2. Rank(F, x, desc) \in 0 .. (Cardinality(F) - 1) /\ Rank(F, y, desc) \in 0 .. (Cardinality(F) - 1)
  BY Ranks
<1>3. /\ Before(y, x, desc) => Rank(F, y, desc) < Rank(F, x, desc)
      /\ Before(x, y, desc) => Rank(F, x, desc) < Rank(F, y, desc)
  BY Ranks
<1> HIDE DEF Before, Rank
<1>4. QED
  BY <1>1, <1>2, <1>3

(* It is where every read looks for it.                                    *)
LEMMA Newest ==
  ASSUME NEW F, Orderly(F)
  PROVE  LET up   == Store!Postgres!order(F, FALSE)
             down == Store!Postgres!order(F, TRUE)
             x    == Store!Memory!max(F)
         IN /\ F # {} => x \in F /\ \A y \in F : y.at <= x.at
            /\ (up = <<>>) = (F = {}) /\ (down = <<>>) = (F = {})
            /\ F # {} => down[1] = x /\ up[Len(up)] = x
            /\ Store!Postgres!first(Store!Postgres!limit(down, 1)) = x
            /\ Store!Memory!FirstOf(down) = x /\ Store!Memory!LastOf(up) = x
<1> DEFINE n == Cardinality(F)
<1>1. PICK up, down, x : /\ up = Store!Postgres!order(F, FALSE)
                         /\ down = Store!Postgres!order(F, TRUE) /\ x = Store!Memory!max(F)
  OBVIOUS
<1>2. n \in Nat /\ (n = 0 <=> F = {})
  BY FS_CardinalityType, FS_EmptySet DEF Orderly
<1>3. /\ up \in Seq(F) /\ Len(up) = n /\ down \in Seq(F) /\ Len(down) = n
      /\ \A k \in 1 .. n : up[k] \in F /\ Rank(F, up[k], FALSE) = k - 1
      /\ \A k \in 1 .. n : down[k] \in F /\ Rank(F, down[k], TRUE) = k - 1
  BY <1>1, OrderIs
<1> DEFINE l == Store!Postgres!limit(down, 1)
<1>4. /\ l \in Seq(F) /\ Len(l) = IF n < 1 THEN n ELSE 1
      /\ \A i \in 1 .. Len(l) : l[i] = down[i]
  <2>1. 1 \in Nat /\ TRUE \in BOOLEAN
    OBVIOUS
  <2>2. QED
    BY <1>1, <2>1, LimitIs
<1> HIDE DEF l, n
<1>5. /\ (up = <<>>) = (F = {}) /\ (down = <<>>) = (F = {}) /\ (l = <<>>) = (F = {})
  <2>1. /\ up = <<>> <=> Len(up) = 0
        /\ down = <<>> <=> Len(down) = 0
        /\ l = <<>> <=> Len(l) = 0
    BY <1>3, <1>4, EmptySeq
  <2>2. Len(l) = 0 <=> n = 0
    BY <1>2, <1>4
  <2>3. QED
    BY <1>2, <1>3, <2>1, <2>2
<1>6. CASE F = {}
  <2>1. x = None
    BY <1>1, <1>6 DEF Store!Memory!max
  <2>2. QED
    BY <1>1, <1>5, <1>6, <2>1 DEF l, Store!Postgres!first, Store!Memory!FirstOf, Store!Memory!LastOf
<1>7. CASE F # {}
  <2>1. 1 \in 1 .. n /\ n \in 1 .. n
    BY <1>2, <1>7
  <2>2. \A y \in F : y.at <= down[1].at
    <3>1. PICK desc \in BOOLEAN : desc = TRUE
      OBVIOUS
    <3>2. down[1] \in F /\ Rank(F, down[1], desc) = 1 - 1
      BY <1>3, <2>1, <3>1
    <3>3. \A y \in F : ~Before(y, down[1], desc)
      BY <3>2, FirstAndLast
    <3>4. QED
      BY <3>1, <3>2, <3>3 DEF Before, Orderly
  <2>3. \A y \in F : y.at <= up[n].at
    <3>1. PICK desc \in BOOLEAN : desc = FALSE
      OBVIOUS
    <3>2. up[n] \in F /\ Rank(F, up[n], desc) = n - 1
      BY <1>3, <2>1, <3>1
    <3>3. \A y \in F : ~Before(up[n], y, desc)
      BY <3>2, FirstAndLast DEF n
    <3>4. QED
      BY <3>1, <3>2, <3>3 DEF Before, Orderly
  <2>4. down[1] = x /\ up[n] = x /\ x \in F /\ \A y \in F : y.at <= x.at
    <3>1. down[1] \in F /\ up[n] \in F
      BY <1>3, <2>1
    <3>2. QED
      BY <1>1, <2>2, <2>3, <3>1, NewestIs
  <2>5. l[1] = x
    BY <1>2, <1>4, <1>7, <2>4
  <2>6. QED
    BY <1>1, <1>3, <1>5, <1>7, <2>4, <2>5
       DEF l, Store!Postgres!first, Store!Memory!FirstOf, Store!Memory!LastOf
<1>8. QED
  BY <1>6, <1>7

(* Sets with the same times have the same order.                           *)
LEMMA SameOrder ==
  ASSUME NEW F, Orderly(F), NEW G, Orderly(G), NEW desc \in BOOLEAN,
         \A x \in F : \E y \in G : y.at = x.at,
         \A y \in G : \E x \in F : x.at = y.at
  PROVE  /\ Cardinality(F) = Cardinality(G)
         /\ \A k \in 1 .. Cardinality(F) :
              Store!Postgres!order(F, desc)[k].at = Store!Postgres!order(G, desc)[k].at
<1> DEFINE h == [x \in F |-> CHOOSE y \in G : y.at = x.at]
<1>1. \A x \in F : h[x] \in G /\ h[x].at = x.at
  OBVIOUS
<1>2. h \in [F -> G]
  BY <1>1
<1> HIDE DEF h
<1>3. \A x, z \in F : h[x] = h[z] => x = z
  BY <1>1 DEF Orderly
<1>4. \A y \in G : \E x \in F : h[x] = y
  BY <1>1 DEF Orderly
<1>5. Cardinality(F) = Cardinality(G)
  <2>1. h \in Bijection(F, G)
    BY <1>2, <1>3, <1>4, Fun_IsBij
  <2>2. ExistsBijection(F, G)
    BY <2>1 DEF ExistsBijection
  <2>3. QED
    BY <2>2, FS_Bijection DEF Orderly
<1>6. ASSUME NEW x \in F PROVE Rank(F, x, desc) = Rank(G, h[x], desc)
  <2> DEFINE A == Ahead(F, x, desc)
             B == Ahead(G, h[x], desc)
             f == [z \in A |-> h[z]]
  <2>1. A \subseteq F /\ IsFiniteSet(A)
    BY FS_Subset DEF Ahead, Orderly
  <2>2. \A z \in F : z \in A <=> h[z] \in B
    BY <1>1 DEF Ahead, Before
  <2>3. B \subseteq G
    BY DEF Ahead
  <2> HIDE DEF A, B
  <2>4. f \in [A -> B]
    BY <2>1, <2>2
  <2>5. \A z, w \in A : f[z] = f[w] => z = w
    BY <1>3, <2>1
  <2>6. \A y \in B : \E z \in A : f[z] = y
    BY <1>4, <2>2, <2>3
  <2>7. f \in Bijection(A, B)
    BY <2>4, <2>5, <2>6, Fun_IsBij
  <2>8. ExistsBijection(A, B)
    BY <2>7 DEF ExistsBijection
  <2>9. QED
    BY <2>1, <2>8, FS_Bijection DEF Rank, A, B
<1>7. ASSUME NEW k \in 1 .. Cardinality(F)
      PROVE  Store!Postgres!order(F, desc)[k].at = Store!Postgres!order(G, desc)[k].at
  <2>1. PICK s, t : s = Store!Postgres!order(F, desc) /\ t = Store!Postgres!order(G, desc)
    OBVIOUS
  <2>2. s[k] \in F /\ Rank(F, s[k], desc) = k - 1 /\ t[k] \in G /\ Rank(G, t[k], desc) = k - 1
    BY <1>5, <2>1, OrderIs
  <2>3. Rank(G, h[s[k]], desc) = k - 1 /\ h[s[k]] \in G
    BY <1>1, <1>6, <2>2
  <2>4. h[s[k]] = t[k]
    BY <2>2, <2>3, EveryRank
  <2>5. QED
    BY <1>1, <2>1, <2>2, <2>4
<1>8. QED
  BY <1>5, <1>7

LEMMA PartIsOrderly ==
  ASSUME NEW F, Orderly(F), NEW A \in SUBSET F
  PROVE  Orderly(A)
<1>1. IsFiniteSet(A)
  BY FS_Subset DEF Orderly
<1>2. QED
  BY <1>1 DEF Orderly

(* The first n of an order are those with a rank below n.                  *)
LEMMA TopIs ==
  ASSUME NEW F, Orderly(F), NEW desc \in BOOLEAN, NEW n \in Nat
  PROVE  Store!Postgres!ToSet(Store!Postgres!limit(Store!Postgres!order(F, desc), n))
           = {x \in F : Rank(F, x, desc) < n}
<1>1. PICK s, l : /\ s = Store!Postgres!order(F, desc) /\ l = Store!Postgres!limit(s, n)
  OBVIOUS
<1>2. PICK k : k = IF Cardinality(F) < n THEN Cardinality(F) ELSE n
  OBVIOUS
<1>3. /\ k \in Nat /\ k <= n /\ k <= Cardinality(F) /\ DOMAIN l = 1 .. k
      /\ \A i \in 1 .. k : l[i] = s[i]
  BY <1>1, <1>2, LimitIs
<1>4. \A i \in 1 .. Cardinality(F) : s[i] \in F /\ Rank(F, s[i], desc) = i - 1
  BY <1>1, OrderIs
<1>5. Cardinality(F) \in Nat
  BY FS_CardinalityType DEF Orderly
<1>6. ASSUME NEW x \in Store!Postgres!ToSet(l) PROVE x \in F /\ Rank(F, x, desc) < n
  <2>1. PICK i \in 1 .. k : x = s[i]
    BY <1>3 DEF Store!Postgres!ToSet
  <2>2. i \in 1 .. Cardinality(F) /\ i - 1 < n
    BY <1>3, <1>5
  <2>3. QED
    BY <1>4, <2>1, <2>2
<1>7. ASSUME NEW x \in F, Rank(F, x, desc) < n PROVE x \in Store!Postgres!ToSet(l)
  <2>1. PICK i : i = Rank(F, x, desc) + 1
    OBVIOUS
  <2>2. Rank(F, x, desc) \in 0 .. (Cardinality(F) - 1)
    BY Ranks
  <2>3. i \in 1 .. k /\ i \in 1 .. Cardinality(F) /\ i - 1 = Rank(F, x, desc)
    BY <1>2, <1>3, <1>5, <1>7, <2>1, <2>2
  <2>4. s[i] = x
    BY <1>4, <2>3, EveryRank
  <2>5. QED
    BY <1>3, <2>3, <2>4 DEF Store!Postgres!ToSet
<1>8. QED
  BY <1>1, <1>6, <1>7

(* What is taken from two sets, each cut off at n.                         *)
Merged(M, A, B, desc, n) ==
  \A x : x \in M <=> (\/ x \in A /\ Rank(A, x, desc) < n
                      \/ x \in B /\ Rank(B, x, desc) < n)

(* The first n of two sets, each cut off at n, are those of both together. *)
LEMMA MergedIs ==
  ASSUME NEW U, Orderly(U), NEW A, NEW B, A \cup B = U,
         NEW desc \in BOOLEAN, NEW n \in Nat,
         NEW M, Merged(M, A, B, desc, n)
  PROVE  Store!Postgres!limit(Store!Postgres!order(M, desc), n)
           = Store!Postgres!limit(Store!Postgres!order(U, desc), n)
<1> USE DEF Merged
<1>1. /\ A \in SUBSET U /\ B \in SUBSET U /\ M \in SUBSET U
      /\ Orderly(A) /\ Orderly(B) /\ Orderly(M)
  BY PartIsOrderly
<1>2. /\ Cardinality(U) \in Nat /\ Cardinality(M) \in Nat /\ Cardinality(M) <= Cardinality(U)
      /\ Cardinality(M) = Cardinality(U) => M = U
  BY <1>1, FS_CardinalityType, FS_Subset DEF Orderly
<1>3. ASSUME NEW P \in SUBSET U, NEW x \in P
      PROVE  Rank(P, x, desc) \in Nat /\ Rank(U, x, desc) \in Nat
             /\ Rank(P, x, desc) <= Rank(U, x, desc)
  <2>1. Ahead(P, x, desc) \in SUBSET Ahead(U, x, desc) /\ Ahead(U, x, desc) \in SUBSET U
    BY DEF Ahead
  <2>2. IsFiniteSet(Ahead(U, x, desc)) /\ IsFiniteSet(Ahead(P, x, desc))
    BY <2>1, FS_Subset DEF Orderly
  <2>3. QED
    BY <2>1, <2>2, FS_Subset, FS_CardinalityType DEF Rank
<1>4. ASSUME NEW x \in U, Rank(U, x, desc) < n PROVE x \in M /\ Rank(M, x, desc) = Rank(U, x, desc)
  <2>1. ASSUME NEW y \in U, Rank(U, y, desc) < n PROVE y \in M
    <3>1. CASE y \in A
      <4>1. /\ Rank(A, y, desc) \in Nat /\ Rank(U, y, desc) \in Nat
            /\ Rank(A, y, desc) <= Rank(U, y, desc)
        BY <1>1, <1>3, <3>1
      <4>2. QED
        BY <2>1, <3>1, <4>1
    <3>2. CASE y \in B
      <4>1. /\ Rank(B, y, desc) \in Nat /\ Rank(U, y, desc) \in Nat
            /\ Rank(B, y, desc) <= Rank(U, y, desc)
        BY <1>1, <1>3, <3>2
      <4>2. QED
        BY <2>1, <3>2, <4>1
    <3>3. QED
      BY <3>1, <3>2
  <2>2. Ahead(U, x, desc) = Ahead(M, x, desc)
    <3>1. ASSUME NEW y \in U, Before(y, x, desc) PROVE y \in M
      <4>1. Rank(U, y, desc) < Rank(U, x, desc)
        BY <3>1, Ranks
      <4>2. Rank(U, y, desc) \in Nat /\ Rank(U, x, desc) \in Nat
        BY <1>3
      <4>3. Rank(U, y, desc) < n
        BY <1>4, <4>1, <4>2
      <4>4. QED
        BY <2>1, <4>3
    <3>2. QED
      BY <1>1, <3>1 DEF Ahead
  <2>3. QED
    BY <1>4, <2>1, <2>2 DEF Rank
<1>5. PICK j, k : /\ j = IF Cardinality(M) < n THEN Cardinality(M) ELSE n
                  /\ k = IF Cardinality(U) < n THEN Cardinality(U) ELSE n
  OBVIOUS
<1>6. j = k
  <2>1. SUFFICES ASSUME Cardinality(M) < n, Cardinality(M) < Cardinality(U) PROVE FALSE
    BY <1>2, <1>5
  <2>2. Cardinality(M) \in 0 .. (Cardinality(U) - 1)
    BY <1>2, <2>1
  <2> DEFINE c == Cardinality(M)
  <2> HIDE DEF c
  <2>3. PICK x \in U : Rank(U, x, desc) = c
    <3>1. c \in 0 .. (Cardinality(U) - 1)
      BY <2>2 DEF c
    <3>2. QED
      BY <3>1, EveryRank
  <2>4. x \in M /\ Rank(M, x, desc) = Cardinality(M)
    BY <1>4, <2>1, <2>3 DEF c
  <2>5. Rank(M, x, desc) \in 0 .. (Cardinality(M) - 1)
    BY <1>1, <2>4, Ranks
  <2>6. QED
    BY <1>2, <2>4, <2>5
<1>7. PICK s, t, l, m :
        /\ s = Store!Postgres!order(U, desc) /\ l = Store!Postgres!limit(s, n)
        /\ t = Store!Postgres!order(M, desc) /\ m = Store!Postgres!limit(t, n)
  OBVIOUS
<1>8. /\ k \in Nat /\ k <= n /\ k <= Cardinality(U) /\ l \in Seq(U) /\ Len(l) = k
      /\ \A i \in 1 .. k : l[i] = s[i]
  BY <1>5, <1>7, LimitIs
<1>9. /\ j <= Cardinality(M) /\ m \in Seq(M) /\ Len(m) = j
      /\ \A i \in 1 .. j : m[i] = t[i]
  <2>1. Orderly(M)
    BY <1>1
  <2>2. QED
    BY <1>5, <1>7, <2>1, LimitIs
<1>10. ASSUME NEW i \in 1 .. k PROVE l[i] = m[i]
  <2>1. /\ i \in 1 .. Cardinality(U) /\ i \in 1 .. Cardinality(M) /\ i - 1 < n
    BY <1>2, <1>6, <1>8, <1>9
  <2>2. s[i] \in U /\ Rank(U, s[i], desc) = i - 1
    BY <1>7, <2>1, OrderIs
  <2>3. t[i] \in M /\ Rank(M, t[i], desc) = i - 1
    BY <1>1, <1>7, <2>1, OrderIs
  <2>4. s[i] \in M /\ Rank(M, s[i], desc) = i - 1
    BY <1>4, <2>1, <2>2
  <2>5. s[i] = t[i]
    BY <1>1, <2>3, <2>4, EveryRank
  <2>6. QED
    BY <1>6, <1>8, <1>9, <2>5
<1>11. m \in Seq(U)
  BY <1>1, <1>9, SeqMonotonic
<1>12. l = m
  BY <1>6, <1>8, <1>9, <1>10, <1>11, SeqEqual
<1>13. QED
  BY <1>7, <1>12
----------------------------------------------------------------------------
(* Both repositories hold the same.                                        *)

(* What the reads of a table tell of the version r that was made, s tells. *)
Like(s, r) ==
  IF table \in Store!Memory!Keyed THEN s.owner = r.owner /\ s.at = r.at /\ s.rev = r.rev
  ELSE IF table = "role_invocation" THEN s.id = r.id
  ELSE Plain(s) = r

(* An event that was given up has returned.                                *)
Alike(R, log, A) ==
  /\ \A s \in R : \E i \in DOMAIN log : Like(s, log[i])
  /\ \A i \in DOMAIN log : (\E s \in R : Like(s, log[i])) \/ Returned(A, log[i])

RowKeys(R) == \A s, t \in R : KeyOf(s) = KeyOf(t) => s = t

LogKeys(log) ==
  table \notin Store!Memory!Lists =>
    \A i, j \in DOMAIN log : KeyOf(log[i]) = KeyOf(log[j]) => i = j

(* Records of one time are versions of one; only some tables have any.     *)
Versions ==
  /\ \A m, n \in made : m.at = n.at => m.id = n.id
  /\ table \notin Store!Resaved \cup Store!Updated => \A m \in made : m.rev = 1
  /\ table \in Store!Resaved => \A m, n \in made : m.id = n.id => m.kind = n.kind

OneOpen ==
  alone => \A c, d \in Clients :
             saving[c] # Store!NoCall /\ saving[d] # Store!NoCall => c = d

(* Where a write replaces another, nothing is claimed once calls           *)
(* overlapped.                                                             *)
Claimed == table \in Store!Replacing => alone

Arrived(R, k) == k.arrived => \E s \in R : Like(s, Plain(k.row))

AlikeInv ==
  /\ Versions /\ OneOpen /\ RowKeys(rows) /\ LogKeys(stored)
  /\ Claimed => Alike(rows, stored, answered) /\ \A c \in Clients : Arrived(rows, saving[c])

LEMMA LikeKey ==
  ASSUME NEW s \in Store!Record, NEW r, Like(s, r)
  PROVE  KeyOf(s) = KeyOf(r)
BY DEF Like, KeyOf, Plain, Store!Record, Store!RecordOf

LEMMA LikeSame ==
  ASSUME NEW s, NEW t, NEW r, Like(s, r), Like(t, r), NEW x, Like(s, x)
  PROVE  Like(t, x)
BY DEF Like

(* A record that was made once is the row that has its key.                *)
LEMMA LikeOne ==
  ASSUME MadeOK, Versions, table \notin Store!Replacing,
         NEW s, Known(s), NEW r, Known(r), KeyOf(s) = KeyOf(r)
  PROVE  Like(s, Plain(r))
<1>1. /\ table \notin Store!Memory!Keyed /\ table \notin Store!Updated /\ s.id = r.id
  BY DEF Store!Replacing, KeyOf
<1>2. Plain(r).id = r.id /\ Plain(s).id = s.id
  BY DEF Known, Plain, Store!Record, Store!RecordOf
<1>3. CASE table = "role_invocation"
  BY <1>1, <1>2, <1>3 DEF Like
<1>4. CASE table # "role_invocation"
  <2>1. Plain(s) \in made /\ Plain(r) \in made
    BY DEF Known, Plain
  <2>2. Plain(s).rev = 1 /\ Plain(r).rev = 1
    BY <1>1, <1>4, <2>1 DEF Versions, Store!Resaved
  <2>3. Plain(s) = Plain(r)
    BY <1>1, <1>2, <2>1, <2>2 DEF MadeOK
  <2>4. QED
    BY <1>1, <1>4, <2>3 DEF Like
<1>5. QED
  BY <1>3, <1>4

(* A record is like itself.                                                *)
LEMMA LikePlain ==
  ASSUME NEW r \in Store!Record
  PROVE  /\ Like(r, Plain(r)) /\ KeyOf(Plain(r)) = KeyOf(r)
         /\ Plain(r) \in Store!Record /\ (r.number = None => Plain(r) = r)
BY DEF Like, Plain, KeyOf, Store!Record, Store!RecordOf

(* What a write that is carried out may do: nothing; add its row; leave    *)
(* the row that is there; or put its own in the place of that row.         *)
Put(R, r, q) == {IF KeyOf(s) = KeyOf(r) THEN q ELSE s : s \in R}

Outcome(r, update, result) ==
  \/ result.verdict # "ok" /\ result.rows = rows
  \/ /\ result.verdict = "ok" /\ ~Holds(rows, r) /\ ~update
     /\ result.rows = rows \cup {r}
  \/ /\ result.verdict = "ok" /\ Holds(rows, r) /\ ~update
     /\ table \notin Store!Replacing /\ result.rows = rows
  \/ /\ result.verdict = "ok" /\ Holds(rows, r) /\ table \in Store!Replacing
     /\ \E q : Like(q, Plain(r)) /\ KeyOf(q) = KeyOf(r) /\ result.rows = Put(rows, r, q)

LEMMA IgnoresOutcome ==
  ASSUME NEW r, table \notin Store!Replacing
  PROVE  Outcome(r, FALSE, Store!Postgres!ignore_duplicates(table, rows, r))
<1> DEFINE R == IF {s \in rows : KeyOf(s) = KeyOf(r)} = {} THEN rows \cup {r} ELSE rows
<1>1. Store!Postgres!ignore_duplicates(table, rows, r) = [rows |-> R, verdict |-> "ok"]
  BY WithKeyIs DEF Store!Postgres!ignore_duplicates, Store!Postgres!Answer
<1>2. \/ ~Holds(rows, r) /\ R = rows \cup {r}
      \/ Holds(rows, r) /\ R = rows
  BY DEF Holds
<1> HIDE DEF R
<1>3. QED
  BY <1>1, <1>2 DEF Outcome

LEMMA UpsertsOutcome ==
  ASSUME NEW r \in Store!Record, table \in Store!Replacing
  PROVE  Outcome(r, FALSE, Store!Postgres!upsert(table, rows, r))
<1> DEFINE R == (rows \ {s \in rows : KeyOf(s) = KeyOf(r)}) \cup {r}
<1>1. Store!Postgres!upsert(table, rows, r) = [rows |-> R, verdict |-> "ok"]
  BY WithKeyIs DEF Store!Postgres!upsert, Store!Postgres!Answer
<1>2. \/ ~Holds(rows, r) /\ R = rows \cup {r}
      \/ Holds(rows, r) /\ R = Put(rows, r, r)
  BY DEF Holds, Put
<1>3. Like(r, Plain(r))
  BY LikePlain
<1> HIDE DEF R
<1>4. QED
  BY <1>1, <1>2, <1>3 DEF Outcome

LEMMA InsertsOutcome ==
  ASSUME NEW r
  PROVE  Outcome(r, FALSE, Store!Postgres!insert(table, rows, r))
<1> DEFINE free == {s \in rows : KeyOf(s) = KeyOf(r)} = {}
           R == IF free THEN rows \cup {r} ELSE rows
           verdict == IF free THEN "ok" ELSE "pkey"
<1>1. Store!Postgres!insert(table, rows, r) = [rows |-> R, verdict |-> verdict]
  BY WithKeyIs DEF Store!Postgres!insert, Store!Postgres!Answer
<1>2. \/ ~Holds(rows, r) /\ R = rows \cup {r} /\ verdict = "ok"
      \/ R = rows /\ verdict # "ok"
  BY DEF Holds
<1> HIDE DEF R, verdict
<1>3. QED
  BY <1>1, <1>2 DEF Outcome

LEMMA StatusOutcome ==
  ASSUME RowsOK, MadeOK, NEW r, Known(r), table = "graph_run", r.number = None, Holds(rows, r)
  PROVE  Outcome(r, TRUE, Store!Postgres!update_graph_run_status(rows, r))
<1> DEFINE Kept(s) == IF s.id = r.id THEN [s EXCEPT !.kind = r.kind, !.rev = r.rev] ELSE s
           R == {Kept(s) : s \in rows}
<1>1. Store!Postgres!update_graph_run_status(rows, r) = [rows |-> R, verdict |-> "ok"]
  BY DEF Store!Postgres!update_graph_run_status, Store!Postgres!Answer
<1>2. /\ \A s : KeyOf(s) = s.id
      /\ table \notin Store!Memory!Keyed /\ table \in Store!Replacing
  BY DEF KeyOf, Store!Memory!Keyed, Store!Replacing, Store!Updated
<1>3. r \in Store!Record
  BY DEF Known
<1>4. ASSUME NEW s \in rows PROVE Kept(s) = IF KeyOf(s) = KeyOf(r) THEN r ELSE s
  <2>1. Known(s) /\ s.number = None
    BY <1>2 DEF RowsOK, RowMade
  <2>2. CASE s.id = r.id
    <3>1. [s EXCEPT !.kind = r.kind, !.rev = r.rev] = [r EXCEPT !.number = s.number]
      BY <2>1, <2>2, UpdatedIsMade
    <3>2. [r EXCEPT !.number = s.number] = r
      BY <1>3, <2>1 DEF Store!Record, Store!RecordOf
    <3>3. QED
      BY <1>2, <2>2, <3>1, <3>2
  <2>3. CASE s.id # r.id
    BY <1>2, <2>3
  <2>4. QED
    BY <2>2, <2>3
<1> HIDE DEF Kept
<1>5. R = Put(rows, r, r)
  BY <1>4 DEF Put
<1>6. Like(r, Plain(r))
  BY <1>3, LikePlain
<1> HIDE DEF R
<1>7. QED
  BY <1>1, <1>2, <1>5, <1>6 DEF Outcome

LEMMA MemoryOutcome ==
  ASSUME RowsOK, MadeOK, RowKeys(rows), NEW r, Known(r), table = "cross_run_memory",
         NEW existing,
         existing # None => \E s \in rows : s.id = existing.id /\ s.owner = r.owner
  PROVE  Outcome(r, FALSE, Store!Postgres!upsert_identity_cross_run_memory(rows, r, existing))
<1>1. CASE existing = None
  BY <1>1, InsertsOutcome DEF Store!Postgres!upsert_identity_cross_run_memory
<1>2. CASE existing # None
  <2> DEFINE q == [r EXCEPT !.id = existing.id]
             Kept(s) == IF s.id = existing.id THEN [r EXCEPT !.id = s.id] ELSE s
             R == {Kept(s) : s \in rows}
  <2>1. Store!Postgres!upsert_identity_cross_run_memory(rows, r, existing)
          = [rows |-> R, verdict |-> "ok"]
    BY <1>2 DEF Store!Postgres!upsert_identity_cross_run_memory, Store!Postgres!Answer
  <2>2. table \in Store!Memory!Keyed /\ table \in Store!Replacing /\ \A s : KeyOf(s) = s.owner
    BY DEF KeyOf, Store!Memory!Keyed, Store!Replacing
  <2>3. PICK found \in rows : found.id = existing.id /\ found.owner = r.owner
    BY <1>2
  <2>4. ASSUME NEW s \in rows PROVE s.id = existing.id <=> s.owner = r.owner
    <3>1. PICK m \in made : m.id = s.id /\ m.owner = s.owner
      BY DEF RowsOK, RowMade
    <3>2. PICK n \in made : n.id = found.id /\ n.owner = found.owner
      BY DEF RowsOK, RowMade
    <3>3. s.id = existing.id => s.owner = r.owner
      BY <2>3, <3>1, <3>2 DEF MadeOK
    <3>4. s.owner = r.owner => s = found
      BY <2>2, <2>3 DEF RowKeys
    <3>5. QED
      BY <2>3, <3>3, <3>4
  <2>5. R = Put(rows, r, q)
    BY <2>2, <2>4 DEF Put
  <2>6. Like(q, Plain(r)) /\ KeyOf(q) = KeyOf(r)
    BY <2>2 DEF Like, Plain, Known, Store!Record, Store!RecordOf
  <2>7. Holds(rows, r)
    BY <2>2, <2>3 DEF Holds
  <2> HIDE DEF R, q
  <2>8. QED
    BY <2>1, <2>2, <2>5, <2>6, <2>7 DEF Outcome
<1>3. QED
  BY <1>1, <1>2

LEMMA EventOutcome ==
  ASSUME NEW r, table = "graph_run_event", NEW result \in Store!Postgres!save_graph_run_event(rows, r)
  PROVE  Outcome(r, FALSE, result)
<1> DEFINE there == \E s \in rows : s.id = r.id
           taken == r.number # None /\ \E s \in rows : s.owner = r.owner /\ s.number = r.number
           broken == (IF there THEN {"pkey"} ELSE {}) \cup (IF taken THEN {"sequence"} ELSE {})
<1>1. result \in IF broken = {} THEN {[rows |-> rows \cup {r}, verdict |-> "ok"]}
                 ELSE {[rows |-> rows, verdict |-> verdict] : verdict \in broken}
  BY DEF Store!Postgres!save_graph_run_event, Store!Postgres!Answer
<1>2. there = Holds(rows, r)
  BY DEF Holds, KeyOf, Store!Memory!Keyed
<1>3. CASE broken = {}
  <2>1. ~Holds(rows, r)
    BY <1>2, <1>3
  <2>2. result = [rows |-> rows \cup {r}, verdict |-> "ok"]
    BY <1>1, <1>3
  <2>3. QED
    BY <2>1, <2>2 DEF Outcome
<1>4. CASE broken # {}
  <2>1. PICK verdict \in broken : result = [rows |-> rows, verdict |-> verdict]
    BY <1>1, <1>4
  <2>2. verdict # "ok"
    BY <2>1
  <2>3. QED
    BY <2>1, <2>2 DEF Outcome
<1>5. QED
  BY <1>3, <1>4

(* Of every call.                                                          *)
LEMMA CarriedOutcome ==
  ASSUME StoreInv, RowKeys(rows), NEW c \in Clients, saving[c].step = "write",
         NEW result \in Store!Carried(c)
  PROVE  Outcome(saving[c].row, saving[c].update, result)
<1> DEFINE k == saving[c]
           r == saving[c].row
<1>0. RowsOK /\ MadeOK
  BY DEF StoreInv
<1>1. /\ Known(r) /\ r \in Store!Record /\ (table # "graph_run_event" => r.number = None)
      /\ k.update \in BOOLEAN
      /\ k.update => table = "graph_run" /\ Holds(rows, r)
      /\ k.existing # None => \E s \in rows : s.id = k.existing.id /\ s.owner = r.owner
  BY OpenCall DEF SaveOK, Saves
<1>2. CASE table = "graph_run_event"
  BY <1>1, <1>2, EventOutcome DEF Store!Carried
<1>3. CASE table = "cross_run_memory"
  BY <1>0, <1>1, <1>3, MemoryOutcome DEF Store!Carried
<1>4. CASE table \notin {"graph_run_event", "cross_run_memory"} /\ k.update
  BY <1>0, <1>1, <1>4, StatusOutcome DEF Store!Carried
<1>5. CASE table \notin {"graph_run_event", "cross_run_memory"} /\ ~k.update
  <2>1. result = Store!Postgres!save(table, rows, r)
    BY <1>5 DEF Store!Carried
  <2>2. table \in Store!MemoryTables \ {"graph_run_event", "cross_run_memory"}
    BY <1>0, <1>5, StoreAssumption DEF MadeOK
  <2>3. Outcome(r, FALSE, result)
    <3>1. CASE table \in Store!Replacing
      <4>1. result = Store!Postgres!upsert(table, rows, r)
        BY <2>1, <3>1, <1>5 DEF Store!Replacing, Store!Memory!Keyed, Store!Updated, Store!Postgres!save,
           Store!Postgres!upsert_identity_profile, Store!Postgres!save_working_staging,
           Store!Postgres!save_graph_run
      <4>2. QED
        BY <1>1, <3>1, <4>1, UpsertsOutcome
    <3>2. CASE table \notin Store!Replacing
      <4>1. \/ result = Store!Postgres!ignore_duplicates(table, rows, r)
            \/ result = Store!Postgres!insert(table, rows, r)
        <5>1. table \in {"checkpoint", "role_invocation", "build_spec", "build_candidate",
                         "evaluation_report", "staging_snapshot", "publication_snapshot",
                         "staging_checkpoint", "identity_source", "page_visit_log"}
          BY <2>2, <3>2 DEF Store!MemoryTables, Store!Memory!Keyed, Store!Memory!Lists,
             Store!Replacing, Store!Updated
        <5>2. QED
          BY <2>1, <5>1 DEF Store!Postgres!save, Store!Postgres!save_checkpoint,
             Store!Postgres!save_role_invocation, Store!Postgres!save_build_spec,
             Store!Postgres!save_build_candidate, Store!Postgres!save_evaluation_report,
             Store!Postgres!save_staging_snapshot, Store!Postgres!save_publication_snapshot,
             Store!Postgres!save_staging_checkpoint, Store!Postgres!create_identity_source,
             Store!Postgres!append_page_visit_log
      <4>2. QED
        BY <3>2, <4>1, IgnoresOutcome, InsertsOutcome
    <3>3. QED
      BY <3>1, <3>2
  <2>4. k.update = FALSE
    BY <1>1, <1>5
  <2>5. QED
    BY <2>3, <2>4
<1>6. QED
  BY <1>2, <1>3, <1>4, <1>5

(* What the other repository does for the same call.                       *)
Replace(log, r) == [i \in DOMAIN log |-> IF KeyOf(log[i]) = KeyOf(r) THEN Plain(r) ELSE log[i]]

LEMMA LogOutcome ==
  ASSUME StoreInv, NEW c \in Clients, saving[c].step = "write", NEW result,
         Store!Remember(c, result)
  PROVE  LET r == saving[c].row
         IN \/ (saving[c].arrived \/ result.verdict # "ok") /\ stored' = stored
            \/ /\ ~saving[c].arrived /\ result.verdict = "ok" /\ ~saving[c].update
               /\ stored' = Append(stored, Plain(r))
               /\ table \notin Store!Memory!Lists =>
                    \A i \in DOMAIN stored : KeyOf(stored[i]) # KeyOf(r)
            \/ /\ ~saving[c].arrived /\ result.verdict = "ok" /\ table \notin Store!Memory!Lists
               /\ stored' = Replace(stored, r)
               /\ saving[c].update \/ \E i \in DOMAIN stored : KeyOf(stored[i]) = KeyOf(r)
<1> DEFINE k == saving[c]
           r == saving[c].row
           p == Plain(r)
<1>1. /\ Known(r) /\ r \in Store!Record /\ k.update \in BOOLEAN
      /\ k.update => table = "graph_run"
  BY OpenCall DEF SaveOK, Saves
<1>2. KeyOf(p) = KeyOf(r) /\ p \in Store!Record /\ p \in made /\ p.number = None
  BY <1>1, LikePlain DEF Known, Plain, StoreInv, MadeOK
<1>3. stored' = IF k.arrived \/ result.verdict # "ok" THEN stored
                ELSE IF k.update THEN Store!Memory!update_graph_run_status(stored, p)
                ELSE Store!Memory!save(table, stored, p)
  BY DEF Store!Remember, Plain
<1> HIDE DEF p
<1>4. CASE k.arrived \/ result.verdict # "ok"
  BY <1>3, <1>4
<1>5. CASE ~(k.arrived \/ result.verdict # "ok") /\ k.update
  <2>1. table = "graph_run" /\ \A s : KeyOf(s) = s.id
    BY <1>1, <1>5 DEF KeyOf, Store!Memory!Keyed
  <2>2. ASSUME NEW i \in DOMAIN stored, stored[i].id = p.id
        PROVE  [stored[i] EXCEPT !.kind = p.kind, !.rev = p.rev] = p
    <3>1. stored[i] \in made /\ stored[i] \in Store!Record
      BY DEF StoreInv, LogOK, MadeOK
    <3>2. stored[i].number = None
      BY <3>1 DEF StoreInv, MadeOK
    <3>3. Known(stored[i]) /\ Known(p)
      BY <1>2, <3>1, <3>2 DEF Known, Store!Record, Store!RecordOf
    <3>4. [stored[i] EXCEPT !.kind = p.kind, !.rev = p.rev] = [p EXCEPT !.number = stored[i].number]
      BY <1>2, <2>2, <3>3, UpdatedIsMade DEF StoreInv
    <3>5. QED
      BY <1>2, <3>2, <3>4 DEF Store!Record, Store!RecordOf
  <2>3. stored' = [i \in DOMAIN stored |->
                     IF stored[i].id = p.id THEN [stored[i] EXCEPT !.kind = p.kind, !.rev = p.rev]
                     ELSE stored[i]]
    BY <1>3, <1>5 DEF Store!Memory!update_graph_run_status
  <2>4. stored' = [i \in DOMAIN stored |-> IF KeyOf(stored[i]) = KeyOf(r) THEN p ELSE stored[i]]
    BY <1>2, <2>1, <2>2, <2>3
  <2>5. table \notin Store!Memory!Lists
    BY <2>1 DEF Store!Memory!Lists
  <2>6. QED
    BY <1>5, <2>4, <2>5 DEF Replace, p
<1>6. CASE ~(k.arrived \/ result.verdict # "ok") /\ ~k.update
  <2>1. stored' = Store!Memory!save(table, stored, p)
    BY <1>3, <1>6
  <2>2. \A s : Store!Memory!Key(table, s) = KeyOf(s)
    BY DEF Store!Memory!Key, KeyOf
  <2>3. CASE table \notin Store!Memory!Lists /\ \E i \in DOMAIN stored : KeyOf(stored[i]) = KeyOf(p)
    <3>1. stored' = [i \in DOMAIN stored |-> IF KeyOf(stored[i]) = KeyOf(p) THEN p ELSE stored[i]]
      BY <2>1, <2>2, <2>3 DEF Store!Memory!save
    <3>2. QED
      BY <1>2, <1>6, <2>3, <3>1 DEF Replace, p
  <2>4. CASE ~(table \notin Store!Memory!Lists /\ \E i \in DOMAIN stored : KeyOf(stored[i]) = KeyOf(p))
    <3>1. stored' = Append(stored, p)
      BY <2>1, <2>2, <2>4 DEF Store!Memory!save
    <3>2. QED
      BY <1>2, <1>6, <2>4, <3>1 DEF p
  <2>5. QED
    BY <2>3, <2>4
<1>7. QED
  BY <1>4, <1>5, <1>6

LEMMA KeysStay ==
  ASSUME StoreInv, RowKeys(rows), LogKeys(stored),
         NEW c \in Clients, saving[c].step = "write", NEW result \in Store!Carried(c),
         Store!Remember(c, result), NEW log, stored' = log
  PROVE  RowKeys(result.rows) /\ LogKeys(log)
<1> DEFINE r == saving[c].row
<1>1. Outcome(r, saving[c].update, result)
  BY CarriedOutcome
<1>2. RowKeys(result.rows)
  BY <1>1 DEF Outcome, RowKeys, Holds, Put
<1>3. stored \in Seq(Store!Record)
  BY DEF StoreInv, LogOK
<1>4. r \in Store!Record /\ Plain(r) \in Store!Record /\ KeyOf(Plain(r)) = KeyOf(r)
  <2>1. r \in Store!Record
    BY OpenCall
  <2>2. QED
    BY <2>1, LikePlain
<1>5. CASE log = stored
  BY <1>2, <1>5
<1>6. CASE /\ log = Append(stored, Plain(r))
           /\ table \notin Store!Memory!Lists => \A i \in DOMAIN stored : KeyOf(stored[i]) # KeyOf(r)
  <2>1. SUFFICES ASSUME table \notin Store!Memory!Lists, NEW i \in DOMAIN log, NEW j \in DOMAIN log,
                        KeyOf(log[i]) = KeyOf(log[j])
                 PROVE  i = j
    BY <1>2 DEF LogKeys
  <2>2. ASSUME NEW h \in DOMAIN log
        PROVE  \/ h = Len(stored) + 1 /\ log[h] = Plain(r)
               \/ h \in DOMAIN stored /\ log[h] = stored[h]
    BY <1>3, <1>4, <1>6, AppendProperties, LenProperties
  <2>3. QED
    BY <1>4, <1>6, <2>1, <2>2 DEF LogKeys
<1>7. CASE log = Replace(stored, r)
  <2>1. DOMAIN log = DOMAIN stored /\ \A i \in DOMAIN stored : KeyOf(log[i]) = KeyOf(stored[i])
    BY <1>4, <1>7 DEF Replace
  <2>2. QED
    BY <1>2, <2>1 DEF LogKeys
<1>8. QED
  BY <1>2, <1>5, <1>6, <1>7, LogOutcome

(* A write that is carried out leaves both alike, and finds its row then.  *)
LEMMA AlikeStays ==
  ASSUME StoreInv, AlikeInv, Claimed,
         NEW c \in Clients, saving[c].step = "write", NEW result \in Store!Carried(c),
         Store!Remember(c, result), NEW log, stored' = log
  PROVE  LET p == Plain(saving[c].row)
         IN /\ Alike(result.rows, log, answered)
            /\ saving[c].arrived \/ result.verdict = "ok" =>
                 \E s \in result.rows : Like(s, p)
            /\ table \notin Store!Replacing => rows \subseteq result.rows
<1> DEFINE k == saving[c]
           r == saving[c].row
           p == Plain(r)
<1>1. r \in Store!Record /\ Known(r)
  BY OpenCall
<1>2. KeyOf(p) = KeyOf(r) /\ Like(r, p)
  BY <1>1, LikePlain
<1>3. /\ \A s \in rows : \E i \in DOMAIN stored : Like(s, stored[i])
      /\ \A i \in DOMAIN stored :
           (\E s \in rows : Like(s, stored[i])) \/ Returned(answered, stored[i])
      /\ k.arrived => \E s \in rows : Like(s, p)
      /\ RowKeys(rows) /\ LogKeys(stored) /\ Versions
  BY DEF AlikeInv, Alike, Arrived
<1>4. /\ \A s \in rows : s \in Store!Record
      /\ stored \in Seq(Store!Record) /\ DOMAIN stored = 1 .. Len(stored)
      /\ \A i \in DOMAIN stored : Holds(rows, stored[i]) \/ Returned(answered, stored[i])
      /\ table \notin Store!Memory!Lists => \A x : ~Returned(answered, x)
  BY LenProperties DEF StoreInv, RowsOK, RowMade, LogOK, Returned, Store!Memory!Lists
<1>5. \A s \in rows : \A x : Like(s, x) => KeyOf(s) = KeyOf(x)
  BY <1>4, LikeKey
<1>6. Outcome(r, k.update, result)
  BY <1>3, CarriedOutcome
<1>7. \/ (k.arrived \/ result.verdict # "ok") /\ log = stored
      \/ /\ ~k.arrived /\ result.verdict = "ok" /\ ~k.update
         /\ log = Append(stored, p)
         /\ table \notin Store!Memory!Lists => \A i \in DOMAIN stored : KeyOf(stored[i]) # KeyOf(r)
      \/ /\ ~k.arrived /\ result.verdict = "ok" /\ table \notin Store!Memory!Lists
         /\ log = [i \in DOMAIN stored |-> IF KeyOf(stored[i]) = KeyOf(r) THEN p ELSE stored[i]]
         /\ k.update \/ \E i \in DOMAIN stored : KeyOf(stored[i]) = KeyOf(r)
  BY LogOutcome DEF Replace
<1>8. ASSUME log = Append(stored, p)
      PROVE  /\ \A i \in DOMAIN stored : i \in DOMAIN log /\ log[i] = stored[i]
             /\ \A i \in DOMAIN log : log[i] = p \/ (i \in DOMAIN stored /\ log[i] = stored[i])
             /\ \E i \in DOMAIN log : log[i] = p
  <2>1. p \in Store!Record
    BY <1>1, LikePlain
  <2>2. /\ log \in Seq(Store!Record) /\ Len(log) = Len(stored) + 1
        /\ \A i \in 1 .. Len(stored) : log[i] = stored[i]
        /\ log[Len(stored) + 1] = p
    BY <1>4, <1>8, <2>1, AppendProperties
  <2>3. DOMAIN log = 1 .. Len(stored) + 1 /\ Len(stored) \in Nat
    BY <1>4, <2>2, LenProperties
  <2>4. QED
    BY <1>4, <2>2, <2>3
<1> HIDE DEF p
<1>9. CASE result.verdict # "ok"
  BY <1>3, <1>6, <1>7, <1>9 DEF Outcome, Alike, p
<1>10. CASE /\ result.verdict = "ok" /\ ~Holds(rows, r) /\ ~k.update
            /\ result.rows = rows \cup {r}
  <2>1. ~k.arrived
    BY <1>2, <1>3, <1>5, <1>10 DEF Holds
  <2>2. table \notin Store!Memory!Lists => \A i \in DOMAIN stored : KeyOf(stored[i]) # KeyOf(r)
    BY <1>4, <1>10 DEF Holds
  <2>3. log = Append(stored, p)
    BY <1>7, <1>10, <2>1, <2>2
  <2>4. Alike(result.rows, log, answered)
    BY <1>2, <1>3, <1>8, <1>10, <2>3 DEF Alike
  <2>5. QED
    BY <1>2, <1>10, <2>4 DEF p
<1>11. CASE /\ result.verdict = "ok" /\ Holds(rows, r) /\ ~k.update
            /\ table \notin Store!Replacing /\ result.rows = rows
  <2>1. PICK s \in rows : KeyOf(s) = KeyOf(r)
    BY <1>11 DEF Holds
  <2>2. Like(s, p)
    <3>1. Known(s)
      BY <1>11 DEF StoreInv, RowsOK, RowMade, Store!Replacing
    <3>2. QED
      BY <1>1, <1>3, <1>11, <2>1, <3>1, LikeOne DEF StoreInv, p
  <2>3. Alike(rows, log, answered)
    <3>1. CASE log = stored
      BY <1>3, <3>1 DEF Alike
    <3>2. CASE log = Append(stored, p)
      BY <1>3, <1>8, <2>2, <3>2 DEF Alike
    <3>3. CASE log = [i \in DOMAIN stored |-> IF KeyOf(stored[i]) = KeyOf(r) THEN p ELSE stored[i]]
      <4>1. ASSUME NEW i \in DOMAIN log
            PROVE  (\E t \in rows : Like(t, log[i])) \/ Returned(answered, log[i])
        BY <1>3, <2>2, <3>3
      <4>2. ASSUME NEW t \in rows PROVE \E i \in DOMAIN log : Like(t, log[i])
        <5>1. PICK i \in DOMAIN stored : Like(t, stored[i])
          BY <1>3
        <5>2. CASE KeyOf(stored[i]) = KeyOf(r)
          <6>1. t = s
            BY <1>3, <1>5, <2>1, <5>1, <5>2 DEF RowKeys
          <6>2. QED
            BY <2>2, <3>3, <5>2, <6>1
        <5>3. CASE KeyOf(stored[i]) # KeyOf(r)
          BY <3>3, <5>1, <5>3
        <5>4. QED
          BY <5>2, <5>3
      <4>3. QED
        BY <4>1, <4>2 DEF Alike
    <3>4. QED
      BY <1>7, <3>1, <3>2, <3>3
  <2>4. QED
    BY <1>11, <2>2, <2>3 DEF p
<1>12. CASE /\ result.verdict = "ok" /\ Holds(rows, r) /\ table \in Store!Replacing
            /\ \E q : Like(q, p) /\ KeyOf(q) = KeyOf(r) /\ result.rows = Put(rows, r, q)
  <2>1. PICK q : Like(q, p) /\ KeyOf(q) = KeyOf(r) /\ result.rows = Put(rows, r, q)
    BY <1>12
  <2>0. /\ table \notin Store!Memory!Lists
        /\ \A i \in DOMAIN stored : \E s \in rows : Like(s, stored[i])
    <3>1. table # "graph_run_event"
      BY <1>12 DEF Store!Replacing, Store!Memory!Keyed, Store!Updated
    <3>2. table \notin Store!Memory!Lists
      BY <1>12 DEF Store!Replacing, Store!Memory!Keyed, Store!Memory!Lists, Store!Updated
    <3>3. QED
      BY <1>3, <3>1, <3>2 DEF Returned
  <2>2. PICK s0 \in rows : KeyOf(s0) = KeyOf(r)
    BY <1>12 DEF Holds
  <2>3. PICK i0 \in DOMAIN stored : Like(s0, stored[i0]) /\ KeyOf(stored[i0]) = KeyOf(r)
    BY <1>3, <1>5, <2>2
  <2>4. \A s \in rows : KeyOf(s) = KeyOf(r) => s = s0
    BY <1>3, <2>2 DEF RowKeys
  <2>5. /\ q \in result.rows
        /\ \A s \in rows : KeyOf(s) # KeyOf(r) => s \in result.rows
        /\ \A t \in result.rows : t = q \/ (t \in rows /\ KeyOf(t) # KeyOf(r))
    BY <2>1, <2>2 DEF Put
  <2>6. Alike(result.rows, log, answered)
    <3>1. CASE k.arrived
      <4>1. log = stored
        BY <1>7, <3>1
      <4>2. Like(s0, p)
        BY <1>2, <1>3, <1>5, <2>4, <3>1
      <4>3. \A x : Like(s0, x) => Like(q, x)
        BY <2>1, <4>2, LikeSame
      <4>4. ASSUME NEW t \in result.rows PROVE \E i \in DOMAIN stored : Like(t, stored[i])
        BY <1>3, <2>3, <2>5, <4>3
      <4>5. ASSUME NEW i \in DOMAIN stored PROVE \E t \in result.rows : Like(t, stored[i])
        <5>1. PICK s \in rows : Like(s, stored[i])
          BY <2>0
        <5>2. QED
          BY <2>4, <2>5, <4>3, <5>1
      <4>6. QED
        BY <4>1, <4>4, <4>5 DEF Alike
    <3>2. CASE ~k.arrived
      <4>1. table \notin Store!Memory!Lists
        BY <2>0
      <4>2. log = [i \in DOMAIN stored |-> IF KeyOf(stored[i]) = KeyOf(r) THEN p ELSE stored[i]]
        BY <1>7, <1>12, <2>3, <3>2, <4>1
      <4>3. ASSUME NEW t \in result.rows PROVE \E i \in DOMAIN log : Like(t, log[i])
        <5>1. CASE t = q
          BY <2>1, <2>3, <4>2, <5>1
        <5>2. CASE t \in rows /\ KeyOf(t) # KeyOf(r)
          <6>1. PICK i \in DOMAIN stored : Like(t, stored[i])
            BY <1>3, <5>2
          <6>2. KeyOf(stored[i]) # KeyOf(r)
            BY <1>5, <5>2, <6>1
          <6>3. QED
            BY <4>2, <6>1, <6>2
        <5>3. QED
          BY <2>5, <5>1, <5>2
      <4>4. ASSUME NEW i \in DOMAIN log PROVE \E t \in result.rows : Like(t, log[i])
        <5>1. CASE KeyOf(stored[i]) = KeyOf(r)
          BY <2>1, <2>5, <4>2, <5>1
        <5>2. CASE KeyOf(stored[i]) # KeyOf(r)
          <6>1. PICK s \in rows : Like(s, stored[i])
            BY <2>0, <4>2
          <6>2. KeyOf(s) # KeyOf(r)
            BY <1>5, <5>2, <6>1
          <6>3. QED
            BY <2>5, <4>2, <5>2, <6>1, <6>2
        <5>3. QED
          BY <5>1, <5>2
      <4>5. QED
        BY <4>3, <4>4 DEF Alike
    <3>3. QED
      BY <3>1, <3>2
  <2>7. QED
    BY <1>12, <2>1, <2>5, <2>6 DEF p
<1>13. QED
  BY <1>6, <1>9, <1>10, <1>11, <1>12 DEF Outcome, p

----------------------------------------------------------------------------
(* The steps, for both.                                                    *)

LEMMA AlikeStarts == Store!Init => AlikeInv
<1> SUFFICES ASSUME Store!Init PROVE AlikeInv
  OBVIOUS
<1>1. /\ stored = <<>> /\ rows = {} /\ made = {}
      /\ saving = [c \in Clients |-> Store!NoCall] /\ ~Store!NoCall.arrived
  BY DEF Store!Init, Store!NoCall
<1>2. DOMAIN stored = {}
  BY <1>1
<1>3. QED
  BY <1>1, <1>2 DEF AlikeInv, Versions, OneOpen, RowKeys, LogKeys, Alike, Arrived

(* What the open calls are, after a step of the call of c.                 *)
LEMMA OpenAfter ==
  ASSUME StoreInv, OneOpen, alone' = alone, NEW c \in Clients, saving[c] # Store!NoCall,
         NEW k, saving' = [saving EXCEPT ![c] = k]
  PROVE  /\ OneOpen' /\ saving'[c] = k /\ \A d \in Clients \ {c} : saving'[d] = saving[d]
         /\ alone => \A d \in Clients \ {c} : saving[d] = Store!NoCall
<1>1. saving'[c] = k /\ \A d \in Clients \ {c} : saving'[d] = saving[d]
  BY DEF StoreInv, CallsOK
<1>2. alone => \A d \in Clients \ {c} : saving[d] = Store!NoCall
  BY DEF OneOpen
<1>3. QED
  BY <1>1, <1>2 DEF OneOpen, Store!NoCall

(* Which table it is never changes.                                        *)
LEMMA LikeStays ==
  ASSUME table' = table
  PROVE  /\ \A R, log : rows' = R /\ stored' = log /\ Alike(R, log, answered)
                         /\ answered \subseteq answered' => Alike(rows, stored, answered)'
         /\ \A R : rows' = R /\ (\A d \in Clients : Arrived(R, saving'[d])) =>
              \A d \in Clients : Arrived(rows, saving[d])'
<1>1. ASSUME NEW s, NEW r PROVE Like(s, r)' = Like(s, r)
  BY DEF Like, Plain
<1>2. ASSUME NEW R, NEW log, NEW done, rows' = R, stored' = log, answered' = done,
             Alike(R, log, answered), answered \subseteq done
      PROVE  Alike(rows, stored, answered)'
  <2>1. \A x : Returned(answered, x) => Returned(done, x)
    BY <1>2 DEF Returned
  <2>2. Alike(R, log, done)
    BY <1>2, <2>1 DEF Alike
  <2>3. ASSUME NEW x PROVE Returned(done, x)' = Returned(done, x)
    BY DEF Returned, Plain
  <2>4. Alike(R, log, done)'
    BY <1>1, <2>2, <2>3 DEF Alike
  <2>5. QED
    BY <1>2, <2>4 DEF Alike, Returned, Plain
<1>3. QED
  BY <1>1, <1>2 DEF Arrived, Plain

(* A step of a call that writes nothing.                                   *)
LEMMA AlikeGoesOn ==
  ASSUME StoreInv, AlikeInv, UNCHANGED <<table, made, alone, stored, rows, answered>>,
         NEW c \in Clients, saving[c] # Store!NoCall,
         NEW k, saving' = [saving EXCEPT ![c] = k],
         \/ k = Store!NoCall
         \/ k.arrived = saving[c].arrived /\ Plain(k.row) = Plain(saving[c].row)
  PROVE  AlikeInv'
<1>1. OneOpen' /\ saving'[c] = k /\ \A d \in Clients \ {c} : saving'[d] = saving[d]
  BY OpenAfter DEF AlikeInv
<1>2. Versions' /\ RowKeys(rows)' /\ LogKeys(stored)'
  BY DEF AlikeInv, Versions, RowKeys, LogKeys, KeyOf
<1>3. ASSUME Claimed
      PROVE  Alike(rows, stored, answered)' /\ \A d \in Clients : Arrived(rows, saving'[d])
  <2>1. Alike(rows, stored, answered) /\ \A d \in Clients : Arrived(rows, saving[d])
    BY <1>3 DEF AlikeInv
  <2>2. Arrived(rows, k)
    <3>1. CASE k = Store!NoCall
      BY <3>1 DEF Arrived, Store!NoCall
    <3>2. CASE k.arrived = saving[c].arrived /\ Plain(k.row) = Plain(saving[c].row)
      <4>1. Arrived(rows, saving[c])
        BY <2>1
      <4>2. QED
        BY <3>2, <4>1, Zenon DEF Arrived
    <3>3. QED
      BY <3>1, <3>2
  <2>3. Alike(rows, stored, answered)'
    BY <2>1, LikeStays
  <2>4. QED
    BY <1>1, <2>1, <2>2, <2>3
<1>4. Claimed' = Claimed
  BY DEF Claimed
<1>5. (\A d \in Clients : Arrived(rows, saving'[d])) => \A d \in Clients : Arrived(rows, saving[d])'
  BY LikeStays
<1>6. QED
  BY <1>1, <1>2, <1>3, <1>4, <1>5 DEF AlikeInv

(* A step that carries a write out.                                        *)
LEMMA AlikeCarries ==
  ASSUME StoreInv, AlikeInv, UNCHANGED <<table, made, alone>>, answered \subseteq answered',
         NEW c \in Clients, saving[c].step = "write",
         NEW result \in Store!Carried(c), rows' = result.rows, Store!Remember(c, result),
         NEW k, saving' = [saving EXCEPT ![c] = k],
         \/ k = Store!NoCall
         \/ /\ Plain(k.row) = Plain(saving[c].row)
            /\ k.arrived => saving[c].arrived \/ result.verdict = "ok"
  PROVE  AlikeInv'
<1>1. /\ OneOpen' /\ saving'[c] = k /\ \A d \in Clients \ {c} : saving'[d] = saving[d]
      /\ alone => \A d \in Clients \ {c} : saving[d] = Store!NoCall
  <2>1. saving[c] # Store!NoCall
    BY OpenCall
  <2>2. QED
    BY <2>1, OpenAfter DEF AlikeInv
<1>2. PICK R, log : R = result.rows /\ log = stored'
  OBVIOUS
<1>3. RowKeys(R) /\ LogKeys(log)
  BY <1>2, KeysStay DEF AlikeInv
<1>4. Versions' /\ RowKeys(rows)' /\ LogKeys(stored)'
  <2>1. Versions'
    BY DEF AlikeInv, Versions
  <2>2. RowKeys(rows)' /\ LogKeys(stored)'
    BY <1>2, <1>3 DEF RowKeys, LogKeys, KeyOf
  <2>3. QED
    BY <2>1, <2>2
<1>5. ASSUME Claimed
      PROVE  Alike(R, log, answered) /\ \A d \in Clients : Arrived(R, saving'[d])
  <2>1. /\ Alike(R, log, answered)
        /\ saving[c].arrived \/ result.verdict = "ok" =>
             \E s \in R : Like(s, Plain(saving[c].row))
        /\ table \notin Store!Replacing => rows \subseteq R
    BY <1>2, <1>5, AlikeStays
  <2>2. Arrived(R, k)
    BY <2>1 DEF Arrived, Store!NoCall
  <2>3. ASSUME NEW d \in Clients \ {c} PROVE Arrived(R, saving[d])
    <3>1. CASE table \in Store!Replacing
      BY <1>1, <1>5, <3>1 DEF Claimed, Arrived, Store!NoCall
    <3>2. CASE table \notin Store!Replacing
      BY <1>5, <2>1, <3>2 DEF AlikeInv, Arrived
    <3>3. QED
      BY <3>1, <3>2
  <2>4. QED
    BY <1>1, <2>1, <2>2, <2>3
<1>6. Claimed' = Claimed
  BY DEF Claimed
<1>7. /\ Alike(R, log, answered) => Alike(rows, stored, answered)'
      /\ (\A d \in Clients : Arrived(R, saving'[d])) => \A d \in Clients : Arrived(rows, saving[d])'
  <2>1. rows' = R /\ stored' = log
    BY <1>2
  <2>2. QED
    BY <2>1, LikeStays
<1>8. QED
  BY <1>1, <1>4, <1>5, <1>6, <1>7 DEF AlikeInv

(* A call begins.                                                          *)
LEMMA AlikeBegins ==
  ASSUME StoreInv, AlikeInv, NEW c \in Clients, NEW row, NEW update,
         Store!Begin(c, row, update), Store!Idle(c), Versions'
  PROVE  AlikeInv'
<1>1. /\ UNCHANGED <<table, rows, stored, answered>>
      /\ alone' = (alone /\ \A d \in Clients : saving[d] = Store!NoCall)
  BY DEF Store!Begin, Store!Idle
<1>2. PICK k : saving' = [saving EXCEPT ![c] = k] /\ k.arrived = FALSE
  <2> DEFINE step == IF table \in {"graph_run_event", "cross_run_memory"} THEN "look" ELSE "write"
             first == [Store!NoCall EXCEPT !.step = step, !.update = update, !.row = row,
                                           !.attempt = 1]
  <2>1. saving' = [saving EXCEPT ![c] = first]
    BY DEF Store!Begin
  <2>2. first.arrived = FALSE
    BY DEF Store!NoCall
  <2> HIDE DEF first
  <2>3. QED
    BY <2>1, <2>2
<1>3. saving'[c] = k /\ \A d \in Clients \ {c} : saving'[d] = saving[d]
  BY <1>2 DEF StoreInv, CallsOK
<1>4. OneOpen'
  BY <1>1, <1>3 DEF OneOpen, Store!NoCall
<1>5. RowKeys(rows)' /\ LogKeys(stored)'
  BY <1>1 DEF AlikeInv, RowKeys, LogKeys, KeyOf
<1>6. ASSUME Claimed'
      PROVE  Alike(rows, stored, answered)' /\ \A d \in Clients : Arrived(rows, saving[d])'
  <2>1. Claimed
    BY <1>1, <1>6 DEF Claimed
  <2>2. Alike(rows, stored, answered)'
    BY <1>1, <2>1, LikeStays DEF AlikeInv
  <2>3. \A d \in Clients : Arrived(rows, saving'[d])
    BY <1>2, <1>3, <2>1 DEF AlikeInv, Arrived
  <2>4. QED
    BY <1>1, <2>2, <2>3, LikeStays
<1>7. QED
  BY <1>4, <1>5, <1>6 DEF AlikeInv

LEMMA AlikeLooks ==
  ASSUME StoreInv, AlikeInv, NEW c \in Clients, Store!Look(c)
  PROVE  AlikeInv'
<1> DEFINE k == saving[c]
<1>1. /\ k.step = "look" /\ UNCHANGED <<table, made, alone, stored, rows, answered>>
  BY DEF Store!Look
<1>2. k # Store!NoCall /\ k \in Saves /\ k.row \in Store!Record
  BY <1>1, OpenCall
<1>3. PICK h : saving' = [saving EXCEPT ![c] = h] /\ h.arrived = k.arrived /\ Plain(h.row) = Plain(k.row)
  <2>1. CASE table = "graph_run_event"
    <3>1. PICK next : saving' = [saving EXCEPT ![c].step = "write", ![c].row.number = next]
      BY <2>1 DEF Store!Look
    <3> DEFINE row == [k.row EXCEPT !.number = next]
               h == [k EXCEPT !.step = "write", !.row = row]
    <3>2. saving' = [saving EXCEPT ![c] = h]
      BY <3>1, <1>2 DEF StoreInv, CallsOK, Saves
    <3>3. Plain(row) = Plain(k.row)
      BY <1>2 DEF Plain, Store!Record, Store!RecordOf
    <3> HIDE DEF row
    <3>4. h.row = row /\ h.arrived = k.arrived
      BY <1>2 DEF Saves
    <3> HIDE DEF h
    <3>5. QED
      BY <3>2, <3>3, <3>4
  <2>2. CASE table # "graph_run_event"
    <3>1. PICK e : saving' = [saving EXCEPT ![c].step = "write", ![c].existing = e]
      BY <2>2 DEF Store!Look
    <3> DEFINE h == [k EXCEPT !.step = "write", !.existing = e]
    <3>2. saving' = [saving EXCEPT ![c] = h]
      BY <3>1, <1>2 DEF StoreInv, CallsOK, Saves
    <3>3. h.row = k.row /\ h.arrived = k.arrived
      BY <1>2 DEF Saves
    <3> HIDE DEF h
    <3>4. QED
      BY <3>2, <3>3
  <2>3. QED
    BY <2>1, <2>2
<1>4. QED
  BY <1>1, <1>2, <1>3, AlikeGoesOn

LEMMA AlikeLookFails ==
  ASSUME StoreInv, AlikeInv, NEW c \in Clients, Store!LookFails(c)
  PROVE  AlikeInv'
<1> DEFINE k == saving[c]
           h == [k EXCEPT !.step = "write"]
<1>1. /\ k.step = "look" /\ UNCHANGED <<table, made, alone, stored, rows, answered>>
      /\ \/ saving' = [saving EXCEPT ![c] = h]
         \/ saving' = [saving EXCEPT ![c] = Store!NoCall]
  BY DEF Store!LookFails, StoreInv, CallsOK
<1>2. k # Store!NoCall /\ k \in Saves
  BY <1>1, OpenCall
<1>3. h.row = k.row /\ h.arrived = k.arrived
  BY <1>2 DEF Saves
<1> HIDE DEF h
<1>4. QED
  BY <1>1, <1>2, <1>3, AlikeGoesOn

(* A call that is tried again says the same.                               *)
LEMMA TriedSame ==
  ASSUME StoreInv, NEW c \in Clients, saving[c].step = "write",
         NEW arrived, Store!TryAgain(c, arrived)
  PROVE  \E k : /\ saving' = [saving EXCEPT ![c] = k]
                /\ \/ k = Store!NoCall
                   \/ k.row = saving[c].row /\ k.arrived = arrived
<1> DEFINE k == saving[c]
           h == [k EXCEPT !.attempt = k.attempt + 1, !.arrived = arrived]
           g == IF k.attempt < MaxAttempts THEN h ELSE Store!NoCall
<1>1. k \in Saves
  BY OpenCall
<1>2. saving' = [saving EXCEPT ![c] = g]
  BY DEF Store!TryAgain
<1>3. h.row = k.row /\ h.arrived = arrived
  BY <1>1 DEF Saves
<1>4. g = Store!NoCall \/ g = h
  OBVIOUS
<1> HIDE DEF g, h
<1>5. QED
  BY <1>2, <1>3, <1>4

LEMMA AlikeLoseRequest ==
  ASSUME StoreInv, AlikeInv, NEW c \in Clients, Store!LoseRequest(c)
  PROVE  AlikeInv'
<1>1. /\ saving[c].step = "write" /\ Store!TryAgain(c, saving[c].arrived)
      /\ UNCHANGED <<table, made, alone, stored, rows, answered>>
  BY DEF Store!LoseRequest
<1>2. PICK k : /\ saving' = [saving EXCEPT ![c] = k]
               /\ \/ k = Store!NoCall
                  \/ k.row = saving[c].row /\ k.arrived = saving[c].arrived
  BY <1>1, TriedSame
<1>3. saving[c] # Store!NoCall
  BY <1>1, OpenCall
<1>4. k = Store!NoCall \/ (k.arrived = saving[c].arrived /\ Plain(k.row) = Plain(saving[c].row))
  BY <1>2
<1>5. QED
  BY <1>1, <1>2, <1>3, <1>4, AlikeGoesOn

LEMMA AlikeLoseAnswer ==
  ASSUME StoreInv, AlikeInv, NEW c \in Clients, Store!LoseAnswer(c)
  PROVE  AlikeInv'
<1>1. saving[c].step = "write" /\ UNCHANGED <<table, made, alone, answered>>
  BY DEF Store!LoseAnswer
<1>2. PICK result \in Store!Carried(c) :
        /\ rows' = result.rows /\ Store!Remember(c, result)
        /\ Store!TryAgain(c, saving[c].arrived \/ result.verdict = "ok")
  BY DEF Store!LoseAnswer
<1>3. PICK k : /\ saving' = [saving EXCEPT ![c] = k]
               /\ \/ k = Store!NoCall
                  \/ /\ k.row = saving[c].row
                     /\ k.arrived = (saving[c].arrived \/ result.verdict = "ok")
  BY <1>1, <1>2, TriedSame
<1>4. \/ k = Store!NoCall
      \/ /\ Plain(k.row) = Plain(saving[c].row)
         /\ k.arrived => saving[c].arrived \/ result.verdict = "ok"
  BY <1>3
<1>5. QED
  BY <1>1, <1>2, <1>3, <1>4, AlikeCarries

LEMMA AlikeReach ==
  ASSUME StoreInv, AlikeInv, NEW c \in Clients, Store!Reach(c)
  PROVE  AlikeInv'
<1> DEFINE k == saving[c]
           r == saving[c].row
<1>1. k.step = "write" /\ UNCHANGED <<table, made, alone>>
  BY DEF Store!Reach
<1>2. PICK result \in Store!Carried(c) :
        /\ rows' = result.rows /\ Store!Remember(c, result)
        /\ answered \subseteq answered'
        /\ \/ saving' = [saving EXCEPT ![c] = Store!NoCall]
           \/ saving' = [saving EXCEPT ![c].row.number = @ + 1, ![c].attempt = 1,
                                       ![c].bumps = @ + 1]
  BY DEF Store!Reach, Store!Over
<1>3. PICK h : /\ saving' = [saving EXCEPT ![c] = h]
               /\ h = Store!NoCall \/ (Plain(h.row) = Plain(r) /\ h.arrived = k.arrived)
  <2>1. CASE saving' = [saving EXCEPT ![c] = Store!NoCall]
    BY <2>1
  <2>2. CASE saving' = [saving EXCEPT ![c].row.number = @ + 1, ![c].attempt = 1,
                                      ![c].bumps = @ + 1]
    <3> DEFINE row == [r EXCEPT !.number = r.number + 1]
               next == [k EXCEPT !.row = row, !.attempt = 1, !.bumps = k.bumps + 1]
    <3>1. k \in Saves /\ r \in Store!Record
      BY <1>1, OpenCall
    <3>2. saving' = [saving EXCEPT ![c] = next]
      BY <3>1, <2>2 DEF StoreInv, CallsOK, Saves
    <3>3. Plain(row) = Plain(r)
      BY <3>1 DEF Plain, Store!Record, Store!RecordOf
    <3> HIDE DEF row
    <3>4. next.row = row /\ next.arrived = k.arrived
      BY <3>1 DEF Saves
    <3> HIDE DEF next
    <3>5. QED
      BY <3>2, <3>3, <3>4
  <2>3. QED
    BY <1>2, <2>1, <2>2
<1>4. \/ h = Store!NoCall
      \/ Plain(h.row) = Plain(r) /\ (h.arrived => k.arrived \/ result.verdict = "ok")
  BY <1>3
<1>5. QED
  BY <1>1, <1>2, <1>3, <1>4, AlikeCarries

(* The event that is given up has returned.                                *)
LEMMA AlikeGivesUp ==
  ASSUME StoreInv, AlikeInv, NEW c \in Clients, Store!GiveUp(c)
  PROVE  AlikeInv'
<1> DEFINE r == saving[c].row
           p == Plain(r)
<1>1. /\ table = "graph_run_event" /\ UNCHANGED <<table, made, alone, rows>>
      /\ answered' = answered \cup {r} /\ saving' = [saving EXCEPT ![c] = Store!NoCall]
      /\ stored' = stored \/ stored' = Append(stored, p)
  BY GivesUp
<1>2. saving[c] # Store!NoCall /\ r \in Store!Record /\ p \in Store!Record
  <2>1. saving[c].step = "write"
    BY DEF Store!GiveUp
  <2>2. saving[c] # Store!NoCall /\ r \in Store!Record
    BY <2>1, OpenCall
  <2>3. QED
    BY <2>2, LikePlain
<1>3. /\ OneOpen' /\ saving'[c] = Store!NoCall
      /\ \A d \in Clients \ {c} : saving'[d] = saving[d]
  BY <1>1, <1>2, OpenAfter DEF AlikeInv
<1>4. Versions' /\ RowKeys(rows)' /\ LogKeys(stored)' /\ Claimed' = Claimed
  BY <1>1 DEF AlikeInv, Versions, RowKeys, LogKeys, KeyOf, Claimed, Store!Memory!Lists
<1>5. ASSUME Claimed
      PROVE  /\ Alike(rows, stored, answered)'
             /\ \A d \in Clients : Arrived(rows, saving[d])'
  <2>1. Alike(rows, stored, answered) /\ \A d \in Clients : Arrived(rows, saving[d])
    BY <1>5 DEF AlikeInv
  <2>2. \A d \in Clients : Arrived(rows, saving'[d])
    BY <1>3, <2>1 DEF Arrived, Store!NoCall
  <2>3. PICK log, done : /\ log = stored' /\ done = answered'
    OBVIOUS
  <2>4. stored \in Seq(Store!Record) /\ DOMAIN stored = 1 .. Len(stored)
    BY LenProperties DEF StoreInv, LogOK
  <2>5. /\ \A i \in DOMAIN stored : i \in DOMAIN log /\ log[i] = stored[i]
        /\ \A i \in DOMAIN log : i \in DOMAIN stored \/ log[i] = p
    <3>1. CASE log = stored
      BY <3>1
    <3>2. CASE log = Append(stored, p)
      <4>1. /\ log \in Seq(Store!Record) /\ Len(log) = Len(stored) + 1
            /\ \A i \in 1 .. Len(stored) : log[i] = stored[i]
            /\ log[Len(stored) + 1] = p
        BY <1>2, <2>4, <3>2, AppendProperties
      <4>2. DOMAIN log = 1 .. Len(stored) + 1 /\ Len(stored) \in Nat
        BY <2>4, <4>1, LenProperties
      <4>3. QED
        BY <2>4, <4>1, <4>2
    <3>3. QED
      BY <1>1, <2>3, <3>1, <3>2
  <2>6. \A x : Returned(answered, x) => Returned(done, x)
    BY <1>1, <2>3 DEF Returned
  <2>7. Returned(done, p)
    BY <1>1, <2>3 DEF Returned
  <2>8. Alike(rows, log, done)
    <3>1. \A s \in rows : \E i \in DOMAIN log : Like(s, log[i])
      BY <2>1, <2>5 DEF Alike
    <3>2. ASSUME NEW i \in DOMAIN log
          PROVE  (\E s \in rows : Like(s, log[i])) \/ Returned(done, log[i])
      BY <2>1, <2>5, <2>6, <2>7 DEF Alike
    <3>3. QED
      BY <3>1, <3>2 DEF Alike
  <2>9. Alike(rows, stored, answered)'
    BY <1>1, <2>3, <2>8 DEF Alike, Like, Returned, Plain
  <2>10. QED
    BY <1>1, <2>2, <2>9, LikeStays
<1>6. QED
  BY <1>3, <1>4, <1>5 DEF AlikeInv

LEMMA AlikeNew ==
  ASSUME StoreInv, AlikeInv, NEW c \in Clients, NEW o \in Owners,
         NEW at \in 1 .. MaxRecords[table],
         NEW kind \in Store!Kinds[table], NEW named \in BOOLEAN,
         Store!SaveNew(c, o, at, kind, named)
  PROVE  AlikeInv'
<1> DEFINE id == 1 + Store!Cardinality({m.id : m \in made})
           row == [id |-> id, owner |-> o, at |-> at, kind |-> kind, rev |-> 1,
                   named |-> named, number |-> None]
<1>1. /\ Store!Idle(c) /\ Store!Begin(c, row, FALSE) /\ \A r \in made : r.at # at
  BY DEF Store!SaveNew
<1>2. \A m \in made : m.id # id
  <2>1. PICK n \in Nat : {m.id : m \in made} = 1 .. n /\ id = n + 1
    BY NextId
  <2> HIDE DEF id
  <2>2. \A m \in made : m.id \in 1 .. n
    BY <2>1
  <2>3. QED
    BY <2>1, <2>2
<1>3. row.id = id /\ row.at = at /\ row.rev = 1
  OBVIOUS
<1>4. made' = made \cup {row} /\ table' = table
  BY <1>1 DEF Store!Begin
<1> HIDE DEF row, id
<1>5. Versions'
  BY <1>1, <1>2, <1>3, <1>4 DEF AlikeInv, Versions
<1>6. QED
  BY <1>1, <1>5, AlikeBegins

LEMMA AlikeAgain ==
  ASSUME StoreInv, AlikeInv, NEW c \in Clients, NEW r \in Store!ToSet(stored),
         NEW kind \in Store!Kinds[table], Store!SaveAgain(c, r, kind)
  PROVE  AlikeInv'
<1>1. r \in made /\ r \in Store!Record
  BY DEF Store!ToSet, StoreInv, LogOK, MadeOK
<1>2. PICK row, update :
        /\ Store!Begin(c, row, update) /\ row.id = r.id /\ row.at = r.at
        /\ \/ table \in Store!Resaved /\ row.kind = r.kind
           \/ table \in Store!Updated
  <2>1. CASE table \in Store!Resaved /\ Store!Begin(c, [r EXCEPT !.rev = @ + 1], FALSE)
    <3> DEFINE row == [r EXCEPT !.rev = @ + 1]
    <3>1. row.id = r.id /\ row.at = r.at /\ row.kind = r.kind
      BY <1>1 DEF Store!Record, Store!RecordOf
    <3> HIDE DEF row
    <3>2. Store!Begin(c, row, FALSE)
      BY <2>1 DEF row
    <3>3. QED
      BY <2>1, <3>1, <3>2
  <2>2. CASE /\ table \in Store!Updated
             /\ Store!Begin(c, [r EXCEPT !.rev = @ + 1, !.kind = kind], TRUE)
    <3> DEFINE row == [r EXCEPT !.rev = @ + 1, !.kind = kind]
    <3>1. row.id = r.id /\ row.at = r.at
      BY <1>1 DEF Store!Record, Store!RecordOf
    <3> HIDE DEF row
    <3>2. Store!Begin(c, row, TRUE)
      BY <2>2 DEF row
    <3>3. QED
      BY <2>2, <3>1, <3>2
  <2>3. QED
    BY <2>1, <2>2 DEF Store!SaveAgain
<1>3. made' = made \cup {row} /\ table' = table
  BY <1>2 DEF Store!Begin
<1>4. table \in Store!Updated => table \notin Store!Resaved
  BY DEF Store!Updated, Store!Resaved
<1>5. \A m \in made : m.id = r.id => m.at = r.at
  BY <1>1 DEF StoreInv, MadeOK
<1>6. \A m \in made : m.at = r.at => m.id = r.id
  BY <1>1 DEF AlikeInv, Versions
<1>7. table \in Store!Resaved => \A m \in made : m.id = r.id => m.kind = r.kind
  BY <1>1 DEF AlikeInv, Versions
<1>8. Versions'
  BY <1>1, <1>2, <1>3, <1>4, <1>6, <1>7 DEF AlikeInv, Versions
<1>9. Store!Idle(c)
  BY DEF Store!SaveAgain
<1>10. QED
  BY <1>2, <1>8, <1>9, AlikeBegins

StoreBoth == StoreAll /\ AlikeInv

LEMMA AlikeStep == StoreBoth /\ [Store!Next]_(Store!vars) => StoreBoth'
<1> SUFFICES ASSUME StoreBoth, [Store!Next]_(Store!vars) PROVE StoreBoth'
  OBVIOUS
<1>0. StoreAll' /\ StoreInv /\ AlikeInv
  BY StoreStep DEF StoreBoth, StoreAll
<1>1. CASE UNCHANGED Store!vars
  <2>1. UNCHANGED <<table, stored, rows, made, saving, answered, alone>>
    BY <1>1 DEF Store!vars
  <2>2. Versions' /\ OneOpen' /\ RowKeys(rows)' /\ LogKeys(stored)' /\ Claimed' = Claimed
    BY <1>0, <2>1 DEF AlikeInv, Versions, OneOpen, RowKeys, LogKeys, KeyOf, Claimed
  <2>3. ASSUME Claimed
        PROVE  Alike(rows, stored, answered)' /\ \A c \in Clients : Arrived(rows, saving[c])'
    <3>1. Alike(rows, stored, answered) /\ \A c \in Clients : Arrived(rows, saving'[c])
      BY <1>0, <2>1, <2>3 DEF AlikeInv
    <3>2. QED
      BY <2>1, <3>1, LikeStays
  <2>4. QED
    BY <1>0, <2>2, <2>3 DEF AlikeInv, StoreBoth
<1>2. CASE \E c \in Clients, o \in Owners, at \in 1 .. MaxRecords[table],
              kind \in Store!Kinds[table], named \in BOOLEAN :
             Store!SaveNew(c, o, at, kind, named)
  BY <1>0, <1>2, AlikeNew DEF StoreBoth
<1>3. CASE \E c \in Clients, r \in Store!ToSet(stored), kind \in Store!Kinds[table] :
             Store!SaveAgain(c, r, kind)
  BY <1>0, <1>3, AlikeAgain DEF StoreBoth
<1>4. CASE \E c \in Clients : Store!Look(c)
  BY <1>0, <1>4, AlikeLooks DEF StoreBoth
<1>5. CASE \E c \in Clients : Store!LookFails(c)
  BY <1>0, <1>5, AlikeLookFails DEF StoreBoth
<1>6. CASE \E c \in Clients : Store!Reach(c)
  BY <1>0, <1>6, AlikeReach DEF StoreBoth
<1>7. CASE \E c \in Clients : Store!LoseAnswer(c)
  BY <1>0, <1>7, AlikeLoseAnswer DEF StoreBoth
<1>8. CASE \E c \in Clients : Store!LoseRequest(c)
  BY <1>0, <1>8, AlikeLoseRequest DEF StoreBoth
<1>9. CASE \E c \in Clients : Store!GiveUp(c)
  BY <1>0, <1>9, AlikeGivesUp DEF StoreBoth
<1>10. QED
  BY <1>1, <1>2, <1>3, <1>4, <1>5, <1>6, <1>7, <1>8, <1>9 DEF Store!Next

----------------------------------------------------------------------------
(* What both hold is in order.                                             *)

Log == Store!Memory!ToSet(stored)

LEMMA OrderlyIf ==
  ASSUME NEW F, NEW n \in Nat, \A x \in F : x.at \in 1 .. n,
         \A x, y \in F : x.at = y.at => x = y
  PROVE  Orderly(F)
<1> DEFINE f == [x \in F |-> x.at]
<1>1. f \in Injection(F, 1 .. n)
  BY Fun_IsInj
<1>2. IsFiniteSet(1 .. n)
  BY FS_Interval
<1>3. IsFiniteSet(F)
  BY <1>1, <1>2, FS_Injection
<1>4. QED
  BY <1>3 DEF Orderly

(* The records of the list are versions that were made, and each is like a *)
(* row, as each row is like one of them; but for an event given up.         *)
LEMMA LogIs ==
  ASSUME StoreBoth, Claimed
  PROVE  /\ Log \subseteq made /\ \A r \in Log : r \in Store!Record /\ r # None
         /\ \A r \in Log : r.at \in 1 .. MaxRecords[table]
         /\ MaxRecords[table] \in Nat
         /\ \A s \in rows : RowMade(s) /\ s \in Store!Record /\ s # None
         /\ \A s \in rows : s.at \in 1 .. MaxRecords[table]
         /\ \A s \in rows : \E r \in Log : Like(s, r)
         /\ \A r \in Log : (\E s \in rows : Like(s, r)) \/ Returned(answered, r)
         /\ table # "graph_run_event" => \A r \in Log : \E s \in rows : Like(s, r)
         /\ MadeOK /\ Versions /\ RowKeys(rows) /\ LogKeys(stored)
<1>1. /\ MadeOK /\ LogOK /\ RowsOK /\ Versions /\ RowKeys(rows) /\ LogKeys(stored)
      /\ Alike(rows, stored, answered)
  BY DEF StoreBoth, StoreAll, StoreInv, AlikeInv
<1>2. Log = {stored[i] : i \in DOMAIN stored}
  BY DEF Log, Store!Memory!ToSet
<1>3. table \in Tables /\ MaxRecords[table] \in Nat /\ None \notin Store!Record
  BY <1>1, StoreAssumption DEF MadeOK, Store!Record
<1>4. \A i \in DOMAIN stored : stored[i] \in made
  BY <1>1 DEF LogOK
<1>5. Log \subseteq made /\ made \subseteq Store!Record
  BY <1>1, <1>2, <1>4 DEF MadeOK
<1>6. \A r \in Store!Record : r.at \in 1 .. MaxRecords[table]
  BY DEF Store!Record, Store!RecordOf
<1>7. \A s \in rows : RowMade(s) /\ s \in Store!Record
  BY <1>1 DEF RowsOK, RowMade
<1>8. /\ \A s \in rows : \E r \in Log : Like(s, r)
      /\ \A r \in Log : (\E s \in rows : Like(s, r)) \/ Returned(answered, r)
  BY <1>1, <1>2 DEF Alike
<1>9. table # "graph_run_event" => \A r \in Log : ~Returned(answered, r)
  BY DEF Returned
<1>10. QED
  BY <1>1, <1>3, <1>5, <1>6, <1>7, <1>8, <1>9

LEMMA RowsOrderly ==
  ASSUME StoreBoth, Claimed
  PROVE  Orderly(rows)
<1>1. ASSUME NEW x \in rows, NEW y \in rows, x.at = y.at PROVE x = y
  <2>1. PICK a \in Log, b \in Log : Like(x, a) /\ Like(y, b)
    BY LogIs
  <2>2. /\ MadeOK /\ Versions /\ RowKeys(rows) /\ a \in made /\ b \in made
        /\ x \in Store!Record /\ y \in Store!Record
        /\ RowMade(x) /\ RowMade(y)
    BY LogIs
  <2>3. CASE table \in Store!Memory!Keyed
    <3>1. a.at = b.at /\ a.owner = x.owner /\ b.owner = y.owner
      BY <1>1, <2>1, <2>3 DEF Like
    <3>2. a.id = b.id
      BY <2>2, <3>1 DEF Versions
    <3>3. x.owner = y.owner
      BY <2>2, <3>1, <3>2 DEF MadeOK
    <3>4. QED
      BY <2>2, <2>3, <3>3 DEF RowKeys, KeyOf
  <2>4. CASE table \notin Store!Memory!Keyed
    <3>1. Plain(x) \in made /\ Plain(y) \in made
      BY <2>2, <2>4 DEF RowMade, Known, Plain
    <3>2. Plain(x).at = x.at /\ Plain(y).at = y.at /\ Plain(x).id = x.id /\ Plain(y).id = y.id
      BY <2>2 DEF Plain, Store!Record, Store!RecordOf
    <3>3. x.id = y.id
      BY <1>1, <2>2, <3>1, <3>2 DEF Versions
    <3>4. QED
      BY <2>2, <2>4, <3>3 DEF RowKeys, KeyOf
  <2>5. QED
    BY <2>3, <2>4
<1>2. QED
  BY <1>1, LogIs, OrderlyIf

(* Not where a record is saved again under the same time.                  *)
LEMMA LogOrderly ==
  ASSUME StoreBoth, Claimed, table # "role_invocation"
  PROVE  Orderly(Log)
<1>1. ASSUME NEW x \in Log, NEW y \in Log, x.at = y.at PROVE x = y
  <2>1. MadeOK /\ Versions /\ LogKeys(stored) /\ x \in made /\ y \in made
    BY LogIs
  <2>2. x.id = y.id /\ x.owner = y.owner
    BY <1>1, <2>1 DEF Versions, MadeOK
  <2>3. PICK i \in DOMAIN stored, j \in DOMAIN stored : x = stored[i] /\ y = stored[j]
    BY DEF Log, Store!Memory!ToSet
  <2>4. KeyOf(x) = KeyOf(y)
    BY <2>2 DEF KeyOf
  <2>5. CASE table \notin Store!Memory!Lists
    BY <2>1, <2>3, <2>4, <2>5 DEF LogKeys
  <2>6. CASE table \in Store!Memory!Lists
    <3>1. table \notin Store!Resaved \cup Store!Updated
      BY <2>6 DEF Store!Memory!Lists, Store!Resaved, Store!Updated
    <3>2. x.rev = 1 /\ y.rev = 1
      BY <2>1, <3>1 DEF Versions
    <3>3. QED
      BY <2>1, <2>2, <3>2 DEF MadeOK
  <2>7. QED
    BY <2>5, <2>6
<1>2. QED
  BY <1>1, LogIs, OrderlyIf

(* Where no number and no version is kept apart, they hold the same.       *)
LEMMA LogIsRows ==
  ASSUME StoreBoth, Claimed,
         table \notin Store!Memory!Keyed \cup {"role_invocation", "graph_run_event"}
  PROVE  Log = rows
<1>1. ASSUME NEW s \in rows, NEW r, Like(s, r) PROVE s = r
  <2>1. Plain(s) = r /\ s.number = None /\ s \in Store!Record
    BY <1>1, LogIs DEF Like, RowMade
  <2>2. QED
    BY <2>1, LikePlain
<1>2. \A s \in rows : s \in Log
  BY <1>1, LogIs
<1>3. \A r \in Log : r \in rows
  BY <1>1, LogIs
<1>4. QED
  BY <1>2, <1>3

----------------------------------------------------------------------------
(* The reads, table by table.                                              *)

LEMMA PartsAre ==
  ASSUME NEW o
  PROVE  /\ Store!Memory!Of(stored, o) = {r \in Log : r.owner = o}
         /\ Store!Postgres!Of(rows, o) = {r \in rows : r.owner = o}
BY DEF Store!Memory!Of, Store!Postgres!Of, Log

LEMMA KindsAre ==
  ASSUME NEW o, NEW kinds
  PROVE  /\ Store!Memory!OfKind(stored, o, kinds) = {r \in Log : r.owner = o /\ r.kind \in kinds}
         /\ Store!Postgres!OfKind(rows, o, kinds)
              = {r \in rows : r.owner = o /\ r.kind \in kinds}
BY PartsAre DEF Store!Memory!OfKind, Store!Postgres!OfKind

LEMMA ListsAre ==
  ASSUME NEW F, NEW n
  PROVE  /\ Store!Memory!LimitTo(Store!Memory!sort(F, TRUE), n)
              = Store!Postgres!limit(Store!Postgres!order(F, TRUE), n)
         /\ Store!Memory!LimitTo(Store!Memory!sort(F, FALSE), n)
              = Store!Postgres!limit(Store!Postgres!order(F, FALSE), n)
         /\ Store!Memory!sort(F, TRUE) = Store!Postgres!order(F, TRUE)
         /\ Store!Memory!sort(F, FALSE) = Store!Postgres!order(F, FALSE)
<1>1. PICK yes, no : yes = TRUE /\ no = FALSE
  OBVIOUS
<1>2. /\ Store!Memory!sort(F, yes) = Store!Postgres!order(F, yes)
      /\ Store!Memory!sort(F, no) = Store!Postgres!order(F, no)
  BY SortIsOrder
<1>3. /\ Store!Memory!sort(F, TRUE) = Store!Postgres!order(F, TRUE)
      /\ Store!Memory!sort(F, FALSE) = Store!Postgres!order(F, FALSE)
  BY <1>1, <1>2
<1>4. QED
  BY <1>3 DEF Store!Memory!LimitTo, Store!Postgres!limit

(* Every read of the newest finds the same.                                *)
LEMMA Ends ==
  ASSUME NEW F, Orderly(F)
  PROVE  /\ F = {} => Store!Memory!max(F) = None
         /\ F # {} => Store!Memory!max(F) \in F
         /\ Store!Postgres!first(Store!Postgres!limit(Store!Postgres!order(F, TRUE), 1))
              = Store!Memory!max(F)
         /\ Store!Memory!FirstOf(Store!Memory!sort(F, TRUE)) = Store!Memory!max(F)
         /\ Store!Memory!LastOf(Store!Memory!sort(F, FALSE)) = Store!Memory!max(F)
<1>1. F = {} => Store!Memory!max(F) = None
  BY DEF Store!Memory!max
<1>2. /\ Store!Memory!sort(F, TRUE) = Store!Postgres!order(F, TRUE)
      /\ Store!Memory!sort(F, FALSE) = Store!Postgres!order(F, FALSE)
  BY ListsAre
<1>3. QED
  BY <1>1, <1>2, Newest

LEMMA OrdersEnd ==
  ASSUME NEW F, Orderly(F)
  PROVE  /\ (Store!Postgres!order(F, FALSE) = <<>>) = (F = {})
         /\ (Store!Postgres!order(F, TRUE) = <<>>) = (F = {})
         /\ F # {} => /\ Store!Postgres!Last(Store!Postgres!order(F, FALSE)) = Store!Memory!max(F)
                      /\ Store!Postgres!order(F, TRUE)[1] = Store!Memory!max(F)
<1>1. PICK up : up = Store!Postgres!order(F, FALSE)
  OBVIOUS
<1>2. Store!Postgres!Last(up) = up[Len(up)]
  BY DEF Store!Postgres!Last
<1>3. QED
  BY <1>1, <1>2, Newest

(* Of the tables that hold the same in both, so are the parts.             *)
LEMMA SameParts ==
  ASSUME StoreBoth, Claimed,
         table \notin Store!Memory!Keyed \cup {"role_invocation", "graph_run_event"}, NEW o
  PROVE  /\ Log = rows /\ Orderly(rows)
         /\ Store!Memory!Of(stored, o) = Store!Postgres!Of(rows, o)
         /\ Orderly(Store!Postgres!Of(rows, o))
<1>1. Log = rows /\ Orderly(rows)
  BY LogIsRows, RowsOrderly
<1>2. {r \in rows : r.owner = o} \in SUBSET rows
  OBVIOUS
<1>3. Orderly({r \in rows : r.owner = o})
  BY <1>1, <1>2, PartIsOrderly
<1>4. QED
  BY <1>1, <1>3, PartsAre

LEMMA SameKinds ==
  ASSUME StoreBoth, Claimed,
         table \notin Store!Memory!Keyed \cup {"role_invocation", "graph_run_event"},
         NEW o, NEW kinds
  PROVE  /\ Store!Memory!OfKind(stored, o, kinds) = Store!Postgres!OfKind(rows, o, kinds)
         /\ Orderly(Store!Postgres!OfKind(rows, o, kinds))
<1>1. Log = rows /\ Orderly(rows)
  BY LogIsRows, RowsOrderly
<1>2. PICK F : F = Store!Postgres!OfKind(rows, o, kinds)
  OBVIOUS
<1>3. F = {r \in rows : r.owner = o /\ r.kind \in kinds}
  BY <1>2, KindsAre
<1>4. F \in SUBSET rows
  BY <1>3
<1>5. Orderly(F)
  BY <1>1, <1>4, PartIsOrderly
<1>6. Store!Memory!OfKind(stored, o, kinds) = F
  BY <1>1, <1>3, KindsAre
<1>7. QED
  BY <1>2, <1>5, <1>6

LEMMA CheckpointReads ==
  ASSUME StoreBoth, Claimed, table = "checkpoint", NEW o \in Owners
  PROVE  /\ Store!Memory!get_run_snapshot(stored, o) = Store!Postgres!get_run_snapshot(rows, o)
         /\ Store!Memory!get_run_snapshot(stored, o)
              = Store!Postgres!get_run_snapshots_for_graph_runs(rows)[o]
         /\ Store!Memory!get_latest_checkpoint_for_graph_run(stored, o)
              = Store!Postgres!get_latest_checkpoint_for_graph_run(rows, o)
         /\ Store!Memory!get_latest_interrupt_orchestrator_error(stored, o)
              = Store!Postgres!get_latest_interrupt_orchestrator_error(rows, o)
         /\ (Store!Memory!get_latest_interrupt_orchestrator_error(stored, o) # None)
              = (LET own == Store!Postgres!order(
                              Store!Postgres!OfKind(rows, o, Store!Postgres!Interrupts), FALSE)
                 IN own # <<>> /\ Store!Postgres!Last(own).kind = "interrupt_error")
<1>0. table \notin Store!Memory!Keyed \cup {"role_invocation", "graph_run_event"}
  BY DEF Store!Memory!Keyed
<1>1. PICK F : F = Store!Postgres!OfKind(rows, o, {"post_role"})
  OBVIOUS
<1>2. Orderly(F) /\ Store!Memory!OfKind(stored, o, {"post_role"}) = F
  BY <1>0, <1>1, SameKinds
<1>3. /\ Store!Memory!get_run_snapshot(stored, o) = Store!Memory!max(F)
      /\ Store!Postgres!get_run_snapshot(rows, o) = Store!Memory!max(F)
  BY <1>1, <1>2, Ends DEF Store!Memory!get_run_snapshot, Store!Postgres!get_run_snapshot
<1>4. Store!Postgres!get_run_snapshots_for_graph_runs(rows)[o] = Store!Memory!max(F)
  BY <1>1, <1>2, Ends, OrdersEnd DEF Store!Postgres!get_run_snapshots_for_graph_runs
<1>5. PICK E : E = Store!Postgres!Of(rows, o)
  OBVIOUS
<1>6. Orderly(E) /\ Store!Memory!Of(stored, o) = E
  BY <1>0, <1>5, SameParts
<1>7. Store!Memory!get_latest_checkpoint_for_graph_run(stored, o)
        = Store!Postgres!get_latest_checkpoint_for_graph_run(rows, o)
  <2>1. Store!Memory!FirstOf(Store!Memory!sort(E, TRUE))
          = Store!Postgres!first(Store!Postgres!limit(Store!Postgres!order(E, TRUE), 1))
    BY <1>6, Ends
  <2>2. QED
    BY <1>5, <1>6, <2>1 DEF Store!Memory!get_latest_checkpoint_for_graph_run,
       Store!Postgres!get_latest_checkpoint_for_graph_run
<1>8. PICK G : G = Store!Postgres!OfKind(rows, o, {"interrupt", "interrupt_error"})
  OBVIOUS
<1>9. Orderly(G) /\ Store!Memory!OfKind(stored, o, {"interrupt", "interrupt_error"}) = G
  BY <1>0, <1>8, SameKinds
<1>10. \A x \in G : x # None /\ x.kind \in {"interrupt", "interrupt_error"}
  BY <1>8, LogIs, KindsAre
<1>11. PICK last : last = Store!Memory!max(G)
  OBVIOUS
<1>12. /\ Store!Memory!get_latest_interrupt_orchestrator_error(stored, o)
            = IF last = None \/ last.kind # "interrupt_error" THEN None ELSE last
       /\ Store!Postgres!get_latest_interrupt_orchestrator_error(rows, o)
            = IF last = None \/ last.kind = "interrupt" THEN None ELSE last
  <2>1. /\ Store!Memory!LastOf(Store!Memory!sort(G, FALSE)) = last
        /\ Store!Postgres!first(Store!Postgres!limit(Store!Postgres!order(G, TRUE), 1)) = last
    BY <1>9, <1>11, Ends
  <2>2. Store!Postgres!OfKind(rows, o, Store!Postgres!Interrupts) = G
    BY <1>8 DEF Store!Postgres!Interrupts
  <2>3. QED
    BY <1>9, <2>1, <2>2 DEF Store!Memory!get_latest_interrupt_orchestrator_error,
       Store!Postgres!get_latest_interrupt_orchestrator_error
<1>13. PICK own : own = Store!Postgres!order(
                          Store!Postgres!OfKind(rows, o, Store!Postgres!Interrupts), FALSE)
  OBVIOUS
<1>14. own = Store!Postgres!order(G, FALSE)
  BY <1>8, <1>13 DEF Store!Postgres!Interrupts
<1>15. /\ G = {} => last = None /\ own = <<>>
       /\ G # {} => /\ last # None /\ last.kind \in {"interrupt", "interrupt_error"}
                    /\ own # <<>> /\ Store!Postgres!Last(own) = last
  BY <1>9, <1>10, <1>11, <1>14, Ends, OrdersEnd
<1>16. Store!Memory!get_latest_interrupt_orchestrator_error(stored, o)
         = Store!Postgres!get_latest_interrupt_orchestrator_error(rows, o)
  BY <1>12, <1>15
<1>17. (Store!Memory!get_latest_interrupt_orchestrator_error(stored, o) # None)
         = (own # <<>> /\ Store!Postgres!Last(own).kind = "interrupt_error")
  BY <1>12, <1>15
<1>18. QED
  BY <1>3, <1>4, <1>7, <1>13, <1>16, <1>17

LEMMA CheckpointRuns ==
  ASSUME StoreBoth, Claimed, table = "checkpoint"
  PROVE  Store!Memory!graph_run_ids_with_interrupt_orchestrator_error(stored)
           = Store!Postgres!graph_run_ids_with_interrupt_orchestrator_error(rows)
BY CheckpointReads DEF Store!Memory!graph_run_ids_with_interrupt_orchestrator_error,
   Store!Postgres!graph_run_ids_with_interrupt_orchestrator_error

(* Work of the roles.                                                      *)
LEMMA RoleReads ==
  ASSUME StoreBoth, Claimed, table \in {"build_spec", "build_candidate", "evaluation_report"},
         NEW o
  PROVE  /\ Store!Memory!latest_of_role(stored, o) = Store!Postgres!latest_of_role(rows, o)
         /\ Store!Memory!list_evaluation_reports_for_graph_run(stored, o)
              = Store!Postgres!list_evaluation_reports_for_graph_run(rows, o)
<1>0. table \notin Store!Memory!Keyed \cup {"role_invocation", "graph_run_event"}
  BY DEF Store!Memory!Keyed
<1>1. PICK F : F = Store!Postgres!Of(rows, o)
  OBVIOUS
<1>2. Orderly(F) /\ Store!Memory!Of(stored, o) = F
  BY <1>0, <1>1, SameParts
<1>3. Store!Memory!latest_of_role(stored, o) = Store!Postgres!latest_of_role(rows, o)
  BY <1>1, <1>2, Ends DEF Store!Memory!latest_of_role, Store!Postgres!latest_of_role
<1>4. Store!Memory!list_evaluation_reports_for_graph_run(stored, o)
        = Store!Postgres!list_evaluation_reports_for_graph_run(rows, o)
  BY <1>1, <1>2, ListsAre DEF Store!Memory!list_evaluation_reports_for_graph_run,
     Store!Postgres!list_evaluation_reports_for_graph_run
<1>5. QED
  BY <1>3, <1>4

(* Snapshots.                                                              *)
LEMMA SnapshotReads ==
  ASSUME StoreBoth, Claimed,
         table \in {"staging_snapshot", "publication_snapshot", "staging_checkpoint"}, NEW o
  PROVE  /\ Store!Memory!list_for_owner(stored, o) = Store!Postgres!list_for_owner(rows, o)
         /\ Store!Memory!get_latest_publication_snapshot(stored, o)
              = Store!Postgres!get_latest_publication_snapshot(rows, o)
         /\ o \in Owners => Store!Memory!latest_staging_snapshot_ids_for_graph_runs(stored)[o]
                              = Store!Postgres!latest_staging_snapshot_ids_for_graph_runs(rows)[o]
<1>0. table \notin Store!Memory!Keyed \cup {"role_invocation", "graph_run_event"}
  BY DEF Store!Memory!Keyed
<1>1. PICK F : F = Store!Postgres!Of(rows, o)
  OBVIOUS
<1>2. Orderly(F) /\ Store!Memory!Of(stored, o) = F
  BY <1>0, <1>1, SameParts
<1>3. Store!Memory!list_for_owner(stored, o) = Store!Postgres!list_for_owner(rows, o)
  BY <1>1, <1>2, ListsAre DEF Store!Memory!list_for_owner, Store!Postgres!list_for_owner
<1>4. Store!Memory!get_latest_publication_snapshot(stored, o)
        = Store!Postgres!get_latest_publication_snapshot(rows, o)
  <2>1. Store!Memory!FirstOf(Store!Memory!sort(F, TRUE))
          = Store!Postgres!first(Store!Postgres!limit(Store!Postgres!order(F, TRUE), 1))
    BY <1>2, Ends
  <2>2. QED
    BY <1>1, <1>2, <2>1 DEF Store!Memory!get_latest_publication_snapshot,
       Store!Postgres!get_latest_publication_snapshot, Store!Postgres!list_publication_snapshots
<1>5. F # {} => Store!Memory!max(F) # None
  <2>1. \A x \in F : x # None
    BY <1>1, LogIs, PartsAre
  <2>2. QED
    BY <1>2, <2>1, Ends
<1>6. PICK last, down : last = Store!Memory!max(F) /\ down = Store!Postgres!order(F, TRUE)
  OBVIOUS
<1>7. /\ (down = <<>>) = (F = {}) /\ (F = {} => last = None)
      /\ F # {} => down[1] = last /\ last # None
      /\ Store!Memory!FirstOf(Store!Memory!sort(F, TRUE)) = last
  BY <1>2, <1>5, <1>6, Ends, OrdersEnd
<1>8. o \in Owners =>
        /\ Store!Memory!latest_staging_snapshot_ids_for_graph_runs(stored)[o]
             = IF last = None THEN None ELSE last.id
        /\ Store!Postgres!latest_staging_snapshot_ids_for_graph_runs(rows)[o]
             = IF down = <<>> THEN None ELSE down[1].id
  BY <1>1, <1>2, <1>6, <1>7 DEF Store!Memory!latest_staging_snapshot_ids_for_graph_runs,
     Store!Postgres!latest_staging_snapshot_ids_for_graph_runs
<1>9. QED
  BY <1>3, <1>4, <1>7, <1>8

LEMMA StagingLists ==
  ASSUME StoreBoth, Claimed, table = "staging_snapshot"
  PROVE  /\ Store!Memory!latest_staging_snapshot_ids_for_graph_runs(stored)
              = Store!Postgres!latest_staging_snapshot_ids_for_graph_runs(rows)
         /\ \A status : Store!Memory!list_staging_snapshots(stored, status)
                          = Store!Postgres!list_staging_snapshots(rows, status)
<1>1. \A o \in Owners : Store!Memory!latest_staging_snapshot_ids_for_graph_runs(stored)[o]
                          = Store!Postgres!latest_staging_snapshot_ids_for_graph_runs(rows)[o]
  BY SnapshotReads
<1>2. Store!Memory!latest_staging_snapshot_ids_for_graph_runs(stored)
        = Store!Postgres!latest_staging_snapshot_ids_for_graph_runs(rows)
  BY <1>1 DEF Store!Memory!latest_staging_snapshot_ids_for_graph_runs,
     Store!Postgres!latest_staging_snapshot_ids_for_graph_runs
<1>3. Log = rows
  BY LogIsRows DEF Store!Memory!Keyed
<1>4. \A status : Store!Memory!list_staging_snapshots(stored, status)
                    = Store!Postgres!list_staging_snapshots(rows, status)
  BY <1>3, ListsAre DEF Store!Memory!list_staging_snapshots,
     Store!Postgres!list_staging_snapshots, Log
<1>5. QED
  BY <1>2, <1>4

LEMMA SourceReads ==
  ASSUME StoreBoth, Claimed, table \in {"identity_source", "page_visit_log"}, NEW o
  PROVE  Store!Memory!list_identity_sources(stored, o)
           = Store!Postgres!list_identity_sources(rows, o)
<1>1. Store!Memory!Of(stored, o) = Store!Postgres!Of(rows, o)
  BY SameParts DEF Store!Memory!Keyed
<1>2. QED
  BY <1>1, ListsAre DEF Store!Memory!list_identity_sources, Store!Postgres!list_identity_sources

LEMMA LimitOf ==
  ASSUME NEW F, Orderly(F), NEW desc \in BOOLEAN, NEW n \in Nat,
         NEW s, s = Store!Postgres!order(F, desc), NEW l, l = Store!Postgres!limit(s, n)
  PROVE  \E k \in Nat :
           /\ k = IF Cardinality(F) < n THEN Cardinality(F) ELSE n
           /\ k <= Cardinality(F) /\ l \in Seq(F) /\ Len(l) = k /\ DOMAIN l = 1 .. k
           /\ \A i \in 1 .. k : l[i] = s[i] /\ s[i] \in F
<1>1. PICK k : k = IF Cardinality(F) < n THEN Cardinality(F) ELSE n
  OBVIOUS
<1>2. /\ k \in Nat /\ k <= n /\ k <= Cardinality(F)
      /\ l \in Seq(F) /\ Len(l) = k /\ DOMAIN l = 1 .. k
      /\ \A i \in 1 .. k : l[i] = s[i]
  BY <1>1, LimitIs
<1>3. Cardinality(F) \in Nat
  BY FS_CardinalityType DEF Orderly
<1>4. \A i \in 1 .. Cardinality(F) : s[i] \in F
  BY OrderIs
<1>5. \A i \in 1 .. k : s[i] \in F
  BY <1>2, <1>3, <1>4
<1>6. QED
  BY <1>1, <1>2, <1>5

(* One row is the first of its set.                                        *)
LEMMA OnlyOne ==
  ASSUME NEW F, Orderly(F), NEW desc \in BOOLEAN, \A x, y \in F : x = y,
         NEW s, s = Store!Postgres!order(F, desc)
  PROVE  /\ F = {} => Store!Postgres!first(Store!Postgres!limit(s, 1)) = None
                      /\ Store!Memory!Get(F) = None
         /\ \A x \in F : /\ Store!Postgres!first(Store!Postgres!limit(s, 1)) = x
                         /\ Store!Memory!Get(F) = x
<1>1. PICK n, l : n = Cardinality(F) /\ l = Store!Postgres!limit(s, 1)
  OBVIOUS
<1>2. n \in Nat /\ (n = 0) = (F = {})
  BY <1>1, FS_CardinalityType, FS_EmptySet DEF Orderly
<1>3. \A k \in 1 .. n : s[k] \in F
  BY <1>1, OrderIs
<1>4. /\ l \in Seq(F) /\ Len(l) = (IF n < 1 THEN n ELSE 1)
      /\ \A i \in 1 .. Len(l) : l[i] = s[i]
  <2>1. 1 \in Nat
    OBVIOUS
  <2>2. PICK k \in Nat : /\ k = IF Cardinality(F) < 1 THEN Cardinality(F) ELSE 1
                         /\ l \in Seq(F) /\ Len(l) = k /\ \A i \in 1 .. k : l[i] = s[i]
    BY <1>1, <2>1, LimitOf
  <2>3. QED
    BY <1>1, <2>2
<1>5. l = <<>> <=> Len(l) = 0
  BY <1>4, EmptySeq
<1>6. F = {} => Store!Postgres!first(l) = None /\ Store!Memory!Get(F) = None
  BY <1>2, <1>4, <1>5 DEF Store!Postgres!first, Store!Memory!Get
<1>7. ASSUME NEW x \in F PROVE Store!Postgres!first(l) = x /\ Store!Memory!Get(F) = x
  <2>1. l # <<>> /\ l[1] = s[1] /\ s[1] \in F
    BY <1>2, <1>3, <1>4, <1>5
  <2>2. Store!Postgres!first(l) = x
    BY <2>1 DEF Store!Postgres!first
  <2>3. Store!Memory!Get(F) = x
    BY DEF Store!Memory!Get
  <2>4. QED
    BY <2>2, <2>3
<1>8. QED
  BY <1>1, <1>6, <1>7

LEMMA ByIdReads ==
  ASSUME StoreBoth, Claimed, table \notin Store!Memory!Keyed \cup Store!Memory!Lists, NEW id
  PROVE  Store!Memory!ById(stored, id) = Store!Postgres!get_by_id(rows, id)
<1>1. Log = rows /\ Orderly(rows)
  BY LogIsRows, RowsOrderly DEF Store!Memory!Lists
<1>2. PICK F : F = {r \in rows : r.id = id}
  OBVIOUS
<1>3. Orderly(F)
  <2>1. F \in SUBSET rows
    BY <1>2
  <2>2. QED
    BY <1>1, <2>1, PartIsOrderly
<1>4. \A x, y \in F : x = y
  BY <1>2, LogIs DEF RowKeys, KeyOf
<1>5. PICK no, s : no \in BOOLEAN /\ no = FALSE /\ s = Store!Postgres!order(F, no)
  OBVIOUS
<1>6. Store!Postgres!first(Store!Postgres!limit(s, 1)) = Store!Memory!Get(F)
  BY <1>3, <1>4, <1>5, OnlyOne
<1>7. s = Store!Postgres!order(F, FALSE)
  BY <1>5
<1>8. Store!Postgres!get_by_id(rows, id) = Store!Postgres!first(Store!Postgres!limit(s, 1))
  BY <1>2, <1>7 DEF Store!Postgres!get_by_id
<1>9. Store!Memory!ById(stored, id) = Store!Memory!Get(F)
  BY <1>1, <1>2 DEF Store!Memory!ById, Log
<1>10. QED
  BY <1>6, <1>8, <1>9

(* One row per key.                                                        *)
LEMMA KeyReads ==
  ASSUME StoreBoth, Claimed, table \in Store!Memory!Keyed, NEW o
  PROVE  Store!Memory!get_by_key(stored, o) = Store!Postgres!get_by_key(rows, o)
<1>0. table # "role_invocation" /\ table # "graph_run_event"
  BY DEF Store!Memory!Keyed
<1>1. Orderly(rows) /\ Orderly(Log) /\ RowKeys(rows) /\ LogKeys(stored)
  BY <1>0, RowsOrderly, LogOrderly, LogIs
<1>2. PICK F, G : F = {r \in Log : r.owner = o} /\ G = {r \in rows : r.owner = o}
  OBVIOUS
<1>3. F \in SUBSET Log /\ G \in SUBSET rows
  BY <1>2
<1>4. Orderly(F) /\ Orderly(G)
  BY <1>1, <1>3, PartIsOrderly
<1>5. \A x, y \in G : x = y
  BY <1>1, <1>2 DEF RowKeys, KeyOf
<1>6. ASSUME NEW x \in F, NEW y \in F PROVE x = y
  <2>1. PICK i \in DOMAIN stored, j \in DOMAIN stored : x = stored[i] /\ y = stored[j]
    BY <1>2 DEF Log, Store!Memory!ToSet
  <2>2. table \notin Store!Memory!Lists
    BY DEF Store!Memory!Lists, Store!Memory!Keyed
  <2>3. KeyOf(stored[i]) = KeyOf(stored[j])
    BY <1>2, <2>1 DEF KeyOf
  <2>4. QED
    BY <1>1, <2>1, <2>2, <2>3 DEF LogKeys
<1>7. PICK no, s, t : /\ no \in BOOLEAN /\ no = FALSE /\ s = Store!Postgres!order(G, no)
                      /\ t = Store!Postgres!order(F, no)
  OBVIOUS
<1>8. /\ G = {} => Store!Postgres!first(Store!Postgres!limit(s, 1)) = None
      /\ \A x \in G : Store!Postgres!first(Store!Postgres!limit(s, 1)) = x
  BY <1>4, <1>5, <1>7, OnlyOne
<1>9. /\ F = {} => Store!Memory!Get(F) = None
      /\ \A x \in F : Store!Memory!Get(F) = x
  BY <1>4, <1>6, <1>7, OnlyOne
<1>10. PICK a, b : a = Store!Memory!Get(F) /\ b = Store!Postgres!first(Store!Postgres!limit(s, 1))
  OBVIOUS
<1>11. /\ Store!Memory!get_by_key(stored, o) = IF a = None THEN None ELSE <<a.at, a.rev>>
       /\ Store!Postgres!get_by_key(rows, o) = IF b = None THEN None ELSE <<b.at, b.rev>>
  <2>1. Store!Memory!Of(stored, o) = F /\ Store!Postgres!Of(rows, o) = G
    BY <1>2, PartsAre
  <2>2. s = Store!Postgres!order(G, FALSE)
    BY <1>7
  <2>3. QED
    BY <1>10, <2>1, <2>2 DEF Store!Memory!get_by_key, Store!Postgres!get_by_key
<1>12. CASE F = {}
  <2>1. G = {}
    BY <1>2, <1>12, LogIs DEF Like
  <2>2. QED
    BY <1>8, <1>9, <1>10, <1>11, <1>12, <2>1
<1>13. CASE F # {}
  <2>1. PICK r \in F : TRUE
    BY <1>13
  <2>2. PICK x \in rows : Like(x, r)
    BY <1>0, <1>2, <2>1, LogIs
  <2>3. x \in G /\ x.at = r.at /\ x.rev = r.rev
    BY <1>2, <2>1, <2>2 DEF Like
  <2>4. a = r /\ b = x /\ a # None /\ b # None
    BY <1>2, <1>8, <1>9, <1>10, <2>1, <2>3, LogIs
  <2>5. QED
    BY <1>11, <2>3, <2>4
<1>14. QED
  BY <1>12, <1>13

LEMMA LimitAt ==
  ASSUME NEW F, Orderly(F), NEW desc \in BOOLEAN, NEW n \in Nat
  PROVE  /\ DOMAIN Store!Postgres!limit(Store!Postgres!order(F, desc), n)
              = 1 .. (IF Cardinality(F) < n THEN Cardinality(F) ELSE n)
         /\ \A i \in DOMAIN Store!Postgres!limit(Store!Postgres!order(F, desc), n) :
              /\ i \in 1 .. Cardinality(F)
              /\ Store!Postgres!limit(Store!Postgres!order(F, desc), n)[i]
                   = Store!Postgres!order(F, desc)[i]
              /\ Store!Postgres!order(F, desc)[i] \in F
<1>1. PICK s, l : s = Store!Postgres!order(F, desc) /\ l = Store!Postgres!limit(s, n)
  OBVIOUS
<1>2. PICK k \in Nat :
           /\ k = IF Cardinality(F) < n THEN Cardinality(F) ELSE n
           /\ k <= Cardinality(F) /\ l \in Seq(F) /\ Len(l) = k /\ DOMAIN l = 1 .. k
           /\ \A i \in 1 .. k : l[i] = s[i] /\ s[i] \in F
  BY <1>1, LimitOf
<1>3. Cardinality(F) \in Nat
  BY FS_CardinalityType DEF Orderly
<1>4. /\ DOMAIN l = 1 .. (IF Cardinality(F) < n THEN Cardinality(F) ELSE n)
      /\ \A i \in DOMAIN l : i \in 1 .. Cardinality(F) /\ l[i] = s[i] /\ s[i] \in F
  BY <1>2, <1>3
<1>5. l = Store!Postgres!limit(Store!Postgres!order(F, desc), n)
  BY <1>1
<1>6. QED
  BY <1>1, <1>4, <1>5

LEMMA SameTop ==
  ASSUME NEW F, Orderly(F), NEW G, Orderly(G), NEW desc \in BOOLEAN, NEW n \in Nat,
         \A x \in F : \E y \in G : y.at = x.at,
         \A y \in G : \E x \in F : x.at = y.at,
         NEW l, l = Store!Postgres!limit(Store!Postgres!order(F, desc), n),
         NEW m, m = Store!Postgres!limit(Store!Postgres!order(G, desc), n)
  PROVE  /\ DOMAIN l = DOMAIN m
         /\ \A i \in DOMAIN l : l[i] \in F /\ m[i] \in G /\ l[i].at = m[i].at
<1>1. PICK s, t : s = Store!Postgres!order(F, desc) /\ t = Store!Postgres!order(G, desc)
  OBVIOUS
<1>2. l = Store!Postgres!limit(s, n) /\ m = Store!Postgres!limit(t, n)
  BY <1>1
<1>3. /\ DOMAIN l = 1 .. (IF Cardinality(F) < n THEN Cardinality(F) ELSE n)
      /\ \A i \in DOMAIN l : i \in 1 .. Cardinality(F) /\ l[i] = s[i] /\ s[i] \in F
  BY <1>1, <1>2, LimitAt
<1>4. /\ DOMAIN m = 1 .. (IF Cardinality(G) < n THEN Cardinality(G) ELSE n)
      /\ \A i \in DOMAIN m : m[i] = t[i] /\ t[i] \in G
  BY <1>1, <1>2, LimitAt
<1>5. /\ Cardinality(F) = Cardinality(G)
      /\ \A i \in 1 .. Cardinality(F) : s[i].at = t[i].at
  BY <1>1, SameOrder
<1>6. QED
  BY <1>3, <1>4, <1>5

(* The memories of all identities, newest first.                           *)
LEMMA MemoryLists ==
  ASSUME StoreBoth, Claimed, table = "cross_run_memory"
  PROVE  Store!Memory!list_identity_cross_run_memory(stored)
           = Store!Postgres!list_identity_cross_run_memory(rows)
<1>0. table \in Store!Memory!Keyed /\ table # "role_invocation"
  BY DEF Store!Memory!Keyed
<1>1. Orderly(rows) /\ Orderly(Log)
  BY <1>0, RowsOrderly, LogOrderly
<1>2. /\ \A x \in Log : \E y \in rows : y.at = x.at
      /\ \A y \in rows : \E x \in Log : x.at = y.at
  BY <1>0, LogIs DEF Like
<1>3. PICK yes \in BOOLEAN : yes = TRUE
  OBVIOUS
<1>4. PICK l, m : /\ l = Store!Postgres!limit(Store!Postgres!order(Log, yes), Limit)
                  /\ m = Store!Postgres!limit(Store!Postgres!order(rows, yes), Limit)
  OBVIOUS
<1>5. Limit \in Nat
  BY StoreAssumption
<1>6. /\ DOMAIN l = DOMAIN m
      /\ \A i \in DOMAIN l : l[i] \in Log /\ m[i] \in rows /\ l[i].at = m[i].at
  BY <1>1, <1>2, <1>4, <1>5, SameTop
<1>7. ASSUME NEW k \in DOMAIN l PROVE l[k].owner = m[k].owner
  <2>1. PICK r \in Log : Like(m[k], r)
    BY <1>6, LogIs
  <2>2. r.at = l[k].at /\ r.owner = m[k].owner
    BY <1>0, <1>6, <2>1 DEF Like
  <2>3. r = l[k]
    BY <1>1, <1>6, <2>1, <2>2 DEF Orderly
  <2>4. QED
    BY <2>2, <2>3
<1>8. Store!Memory!list_identity_cross_run_memory(stored) = [i \in DOMAIN l |-> l[i].owner]
  BY <1>3, <1>4, ListsAre DEF Store!Memory!list_identity_cross_run_memory, Log
<1>9. Store!Postgres!list_identity_cross_run_memory(rows) = [i \in DOMAIN m |-> m[i].owner]
  BY <1>3, <1>4 DEF Store!Postgres!list_identity_cross_run_memory
<1>10. QED
  BY <1>6, <1>7, <1>8, <1>9

(* A list's own length counts the rows when no record is in it twice.      *)
LEMMA CountsAre ==
  ASSUME StoreBoth, Claimed, table \notin Store!Memory!Keyed, table # "graph_run_event", NEW o,
         \A i, j \in DOMAIN stored : stored[i].id = stored[j].id => i = j
  PROVE  Store!Memory!Cardinality({i \in DOMAIN stored : stored[i].owner = o})
           = Store!Postgres!Cardinality(Store!Postgres!Of(rows, o))
<1>1. PICK I, G : I = {i \in DOMAIN stored : stored[i].owner = o} /\ G = {r \in rows : r.owner = o}
  OBVIOUS
<1>2. \A i \in DOMAIN stored : stored[i] \in Log
  BY DEF Log, Store!Memory!ToSet
<1>3. ASSUME NEW s \in rows, NEW r \in Log, s.id = r.id PROVE s.owner = r.owner
  <2>1. Plain(s) \in made /\ r \in made /\ s \in Store!Record /\ MadeOK
    BY LogIs DEF RowMade, Known, Plain
  <2>2. Plain(s).id = s.id /\ Plain(s).owner = s.owner
    BY <2>1 DEF Plain, Store!Record, Store!RecordOf
  <2>3. QED
    BY <1>3, <2>1, <2>2 DEF MadeOK
<1>4. \A s \in rows, r \in Log : Like(s, r) => s.id = r.id
  BY LogIs, LikeKey DEF KeyOf
<1>5. \A i \in I : \E s \in G : s.id = stored[i].id
  <2>1. SUFFICES ASSUME NEW i \in I PROVE \E s \in G : s.id = stored[i].id
    OBVIOUS
  <2>2. stored[i] \in Log /\ stored[i].owner = o
    BY <1>1, <1>2
  <2>3. PICK s \in rows : Like(s, stored[i])
    BY <2>2, LogIs
  <2>4. QED
    BY <1>1, <1>3, <1>4, <2>2, <2>3
<1>6. \A s \in G : \E i \in I : s.id = stored[i].id
  <2>1. SUFFICES ASSUME NEW s \in G PROVE \E i \in I : s.id = stored[i].id
    OBVIOUS
  <2>2. PICK r \in Log : Like(s, r)
    BY <1>1, LogIs
  <2>3. PICK i \in DOMAIN stored : r = stored[i]
    BY DEF Log, Store!Memory!ToSet
  <2>4. s.id = stored[i].id
    BY <1>1, <1>4, <2>2, <2>3
  <2>5. QED
    BY <1>1, <1>3, <2>2, <2>3, <2>4
<1>7. \A s, t \in G : s.id = t.id => s = t
  BY <1>1, LogIs DEF RowKeys, KeyOf
<1>8. \A i, j \in I : stored[i].id = stored[j].id => i = j
  BY <1>1
<1>9. IsFiniteSet(G)
  <2>1. G \in SUBSET rows
    BY <1>1
  <2>2. QED
    BY <2>1, RowsOrderly, PartIsOrderly DEF Orderly
<1>10. PICK f : f = [s \in G |-> CHOOSE i \in I : s.id = stored[i].id]
  OBVIOUS
<1>11. \A s \in G : f[s] \in I /\ s.id = stored[f[s]].id
  BY <1>6, <1>10
<1>12. \A s, t \in G : f[s] = f[t] => s = t
  BY <1>7, <1>11
<1>13. \A i \in I : \E s \in G : f[s] = i
  BY <1>5, <1>8, <1>11
<1>14. f \in [G -> I]
  BY <1>10, <1>11
<1>15. f \in Bijection(G, I)
  BY <1>12, <1>13, <1>14, Fun_IsBij
<1>16. Cardinality(I) = Cardinality(G)
  BY <1>9, <1>15, FS_Bijection DEF ExistsBijection
<1>17. /\ Store!Memory!Cardinality(I) = Cardinality(I)
       /\ Store!Postgres!Cardinality(G) = Cardinality(G)
  BY DEF Store!Memory!Cardinality, Store!Postgres!Cardinality, Cardinality
<1>18. QED
  BY <1>1, <1>16, <1>17, PartsAre

LEMMA PublicationCounts ==
  ASSUME StoreBoth, Claimed, table = "publication_snapshot"
  PROVE  Store!Memory!publication_counts_for_staging_snapshot_ids(stored)
           = Store!Postgres!publication_counts_for_staging_snapshot_ids(rows)
<1>1. table \notin Store!Memory!Keyed /\ table \notin Store!Memory!Lists
  BY DEF Store!Memory!Keyed, Store!Memory!Lists
<1>2. \A i, j \in DOMAIN stored : stored[i].id = stored[j].id => i = j
  BY <1>1, LogIs DEF LogKeys, KeyOf
<1>3. \A o \in Owners : Store!Memory!Cardinality({i \in DOMAIN stored : stored[i].owner = o})
                          = Store!Postgres!Cardinality(Store!Postgres!Of(rows, o))
  BY <1>1, <1>2, CountsAre
<1>4. QED
  BY <1>3 DEF Store!Memory!publication_counts_for_staging_snapshot_ids,
     Store!Postgres!publication_counts_for_staging_snapshot_ids

LEMMA InvocationCounts ==
  ASSUME StoreBoth, Claimed, table = "role_invocation", Store!SavedOnce
  PROVE  Store!Memory!aggregate_role_invocation_stats_for_graph_runs(stored)
           = Store!Postgres!aggregate_role_invocation_stats_for_graph_runs(rows)
<1>1. table \notin Store!Memory!Keyed
  BY DEF Store!Memory!Keyed
<1>2. \A o \in Owners : Store!Memory!Cardinality({i \in DOMAIN stored : stored[i].owner = o})
                          = Store!Postgres!Cardinality(Store!Postgres!Of(rows, o))
  BY <1>1, CountsAre DEF Store!SavedOnce
<1>3. QED
  BY <1>2 DEF Store!Memory!aggregate_role_invocation_stats_for_graph_runs,
     Store!Postgres!aggregate_role_invocation_stats_for_graph_runs

(* A row and a record of one time, of the tables whose record is the row.  *)
LEMMA TimesAre ==
  ASSUME StoreBoth, Claimed, table \notin Store!Memory!Keyed, NEW s \in rows, NEW r \in Log
  PROVE  /\ (s.at = r.at) = (s.id = r.id)
         /\ s.id = r.id => s.owner = r.owner
         /\ Like(s, r) => s.id = r.id
         /\ table = "role_invocation" /\ s.id = r.id => s.kind = r.kind
<1>1. Plain(s) \in made /\ r \in made /\ s \in Store!Record /\ MadeOK /\ Versions
  BY LogIs DEF RowMade, Known, Plain
<1>2. Plain(s).id = s.id /\ Plain(s).owner = s.owner /\ Plain(s).at = s.at /\ Plain(s).kind = s.kind
  BY <1>1 DEF Plain, Store!Record, Store!RecordOf
<1>3. (s.at = r.at) <=> (s.id = r.id)
  BY <1>1, <1>2 DEF MadeOK, Versions
<1>4. s.id = r.id => s.owner = r.owner
  BY <1>1, <1>2 DEF MadeOK
<1>5. Like(s, r) => s.id = r.id
  BY <1>1, LikeKey DEF KeyOf
<1>6. table = "role_invocation" /\ s.id = r.id => s.kind = r.kind
  BY <1>1, <1>2 DEF Versions, Store!Resaved
<1>7. QED
  BY <1>3, <1>4, <1>5, <1>6

LEMMA RoleInvocationLists ==
  ASSUME StoreBoth, Claimed, table = "role_invocation", NEW o
  PROVE  Store!Memory!list_role_invocations_for_graph_run(stored, o)
           = Store!Postgres!list_role_invocations_for_graph_run(rows, o)
<1>0. table \notin Store!Memory!Keyed
  BY DEF Store!Memory!Keyed
<1>1. PICK F, G : /\ F = {[id |-> r.id, at |-> r.at] : r \in {x \in Log : x.owner = o}}
                  /\ G = {r \in rows : r.owner = o}
  OBVIOUS
<1>2. Orderly(G)
  <2>1. G \in SUBSET rows
    BY <1>1
  <2>2. QED
    BY <2>1, RowsOrderly, PartIsOrderly
<1>3. \A x \in F : \E r \in Log : x = [id |-> r.id, at |-> r.at] /\ r.owner = o
  BY <1>1
<1>4. \A r \in Log : r.owner = o => \E x \in F : x = [id |-> r.id, at |-> r.at]
  BY <1>1
<1>5. Orderly(F)
  <2>1. ASSUME NEW x \in F, NEW y \in F, x.at = y.at PROVE x = y
    <3>1. PICK a \in Log : x = [id |-> a.id, at |-> a.at]
      BY <1>3
    <3>2. PICK b \in Log : y = [id |-> b.id, at |-> b.at]
      BY <1>3
    <3>3. a.at = b.at
      BY <2>1, <3>1, <3>2
    <3>4. a.id = b.id
      BY <3>3, LogIs DEF Versions
    <3>5. QED
      BY <3>1, <3>2, <3>3, <3>4
  <2>2. \A x \in F : x.at \in 1 .. MaxRecords[table]
    BY <1>3, LogIs
  <2>3. QED
    BY <2>1, <2>2, LogIs, OrderlyIf
<1>6. ASSUME NEW x \in F PROVE \E y \in G : y.at = x.at
  <2>1. PICK r \in Log : x = [id |-> r.id, at |-> r.at] /\ r.owner = o
    BY <1>3
  <2>2. PICK s \in rows : Like(s, r)
    BY LogIs
  <2>3. s.at = r.at /\ s.owner = r.owner
    BY <1>0, <2>2, TimesAre
  <2>4. QED
    BY <1>1, <2>1, <2>3
<1>7. ASSUME NEW y \in G PROVE \E x \in F : x.at = y.at
  <2>1. PICK r \in Log : Like(y, r)
    BY <1>1, LogIs
  <2>2. y.at = r.at /\ y.owner = r.owner
    BY <1>0, <1>1, <2>1, TimesAre
  <2>3. PICK x \in F : x = [id |-> r.id, at |-> r.at]
    BY <1>1, <1>4, <2>2
  <2>4. QED
    BY <2>2, <2>3
<1>8. PICK no \in BOOLEAN : no = FALSE
  OBVIOUS
<1>9. PICK s, t : s = Store!Postgres!order(F, no) /\ t = Store!Postgres!order(G, no)
  OBVIOUS
<1>10. /\ Cardinality(F) = Cardinality(G)
       /\ \A k \in 1 .. Cardinality(F) : s[k].at = t[k].at
  BY <1>2, <1>5, <1>6, <1>7, <1>9, SameOrder
<1>11. /\ s \in [1 .. Cardinality(F) -> F] /\ t \in [1 .. Cardinality(G) -> G]
  BY <1>2, <1>5, <1>9, OrderIs
<1>12. ASSUME NEW k \in 1 .. Cardinality(F) PROVE s[k].id = t[k].id
  <2>1. s[k] \in F /\ t[k] \in G /\ s[k].at = t[k].at
    BY <1>10, <1>11
  <2>2. PICK r \in Log : s[k] = [id |-> r.id, at |-> r.at]
    BY <1>3, <2>1
  <2>3. t[k] \in rows /\ t[k].at = r.at
    BY <1>1, <2>1, <2>2
  <2>4. t[k].id = r.id
    BY <1>0, <2>3, TimesAre
  <2>5. QED
    BY <2>2, <2>4
<1>13. [i \in DOMAIN s |-> s[i].id] = [i \in DOMAIN t |-> t[i].id]
  BY <1>10, <1>11, <1>12
<1>14. Store!Memory!list_role_invocations_for_graph_run(stored, o) = [i \in DOMAIN s |-> s[i].id]
  <2>1. F = {[id |-> r.id, at |-> r.at] : r \in Store!Memory!Of(stored, o)}
    BY <1>1, PartsAre
  <2>2. Store!Memory!sort(F, FALSE) = s
    BY <1>8, <1>9, ListsAre
  <2>3. QED
    BY <2>1, <2>2 DEF Store!Memory!list_role_invocations_for_graph_run
<1>15. Store!Postgres!list_role_invocations_for_graph_run(rows, o) = [i \in DOMAIN t |-> t[i].id]
  <2>1. G = Store!Postgres!Of(rows, o)
    BY <1>1, PartsAre
  <2>2. QED
    BY <1>8, <1>9, <2>1 DEF Store!Postgres!list_role_invocations_for_graph_run, Store!Postgres!Ids
<1>16. QED
  BY <1>13, <1>14, <1>15

(* Versions of the newest failed invocation are all of one invocation.     *)
LEMMA LatestFailed ==
  ASSUME StoreBoth, Claimed, table = "role_invocation", NEW o
  PROVE  Store!Memory!get_latest_failed_role_invocation_for_graph_run(stored, o)
           = Store!Postgres!get_latest_failed_role_invocation_for_graph_run(rows, o)
<1>0. table \notin Store!Memory!Keyed
  BY DEF Store!Memory!Keyed
<1>1. PICK F, G : /\ F = {r \in Log : r.owner = o /\ r.kind \in {"failed"}}
                  /\ G = {r \in rows : r.owner = o /\ r.kind \in {"failed"}}
  OBVIOUS
<1>2. Orderly(G)
  <2>1. G \in SUBSET rows
    BY <1>1
  <2>2. QED
    BY <2>1, RowsOrderly, PartIsOrderly
<1>3. ASSUME NEW r \in F PROVE \E s \in G : s.id = r.id /\ s.at = r.at
  <2>1. PICK s \in rows : Like(s, r)
    BY <1>1, LogIs
  <2>2. s.at = r.at /\ s.id = r.id /\ s.owner = r.owner /\ s.kind = r.kind
    BY <1>0, <1>1, <2>1, TimesAre
  <2>3. QED
    BY <1>1, <2>1, <2>2
<1>4. ASSUME NEW s \in G PROVE \E r \in F : s.id = r.id /\ s.at = r.at
  <2>1. PICK r \in Log : Like(s, r)
    BY <1>1, LogIs
  <2>2. s.at = r.at /\ s.id = r.id /\ s.owner = r.owner /\ s.kind = r.kind
    BY <1>0, <1>1, <2>1, TimesAre
  <2>3. QED
    BY <1>1, <2>1, <2>2
<1>5. PICK x, y : x = Store!Memory!max(F) /\ y = Store!Memory!max(G)
  OBVIOUS
<1>6. G = {} => F = {} /\ x = None /\ y = None
  BY <1>3, <1>5 DEF Store!Memory!max
<1>7. ASSUME G # {} PROVE x # None /\ y # None /\ x.id = y.id
  <2>1. y \in G /\ \A s \in G : s.at <= y.at
    BY <1>2, <1>5, <1>7, Newest
  <2>2. PICK r \in F : y.id = r.id /\ y.at = r.at
    BY <1>4, <2>1
  <2>3. \A q \in F : q.at <= r.at
    BY <1>3, <2>1, <2>2
  <2>4. x \in F /\ \A q \in F : q.at <= x.at
    BY <1>5, <2>2, <2>3 DEF Store!Memory!max
  <2>5. x \in Log /\ r \in Log /\ y \in rows
    BY <1>1, <2>1, <2>4
  <2>6. x.at = r.at
    <3>1. x.at <= r.at /\ r.at <= x.at
      BY <2>2, <2>3, <2>4
    <3>2. x.at \in Int /\ r.at \in Int
      BY <2>5, LogIs
    <3>3. QED
      BY <3>1, <3>2
  <2>7. y.at = x.at
    BY <2>2, <2>6
  <2>8. y.id = x.id
    BY <1>0, <2>5, <2>7, TimesAre
  <2>9. QED
    BY <2>5, <2>8, LogIs
<1>8. Store!Memory!get_latest_failed_role_invocation_for_graph_run(stored, o)
        = IF x = None THEN None ELSE x.id
  <2>1. Store!Memory!OfKind(stored, o, {"failed"}) = F
    BY <1>1, KindsAre
  <2>2. QED
    BY <1>5, <2>1 DEF Store!Memory!get_latest_failed_role_invocation_for_graph_run
<1>9. Store!Postgres!get_latest_failed_role_invocation_for_graph_run(rows, o)
        = IF y = None THEN None ELSE y.id
  <2>1. Store!Postgres!OfKind(rows, o, {"failed"}) = G
    BY <1>1, KindsAre
  <2>2. Store!Postgres!first(Store!Postgres!limit(Store!Postgres!order(G, TRUE), 1)) = y
    BY <1>2, <1>5, Ends
  <2>3. QED
    BY <2>1, <2>2 DEF Store!Postgres!get_latest_failed_role_invocation_for_graph_run
<1>10. QED
  BY <1>6, <1>7, <1>8, <1>9

(* Up to the limit, all the events of a run in the order of their times;   *)
(* of a run none of whose events was given up.                             *)
LEMMA EventLists ==
  ASSUME StoreBoth, Claimed, table = "graph_run_event", NEW o, ~Store!GaveUp(o),
         Store!Cardinality(Store!Postgres!Of(rows, o)) <= Limit
  PROVE  Store!Memory!list_graph_run_events(stored, o)
           = Store!Postgres!list_graph_run_events(rows, o)
<1>0. table \notin Store!Memory!Keyed /\ table # "role_invocation"
  BY DEF Store!Memory!Keyed
<1>1. PICK F, G : F = {r \in Log : r.owner = o} /\ G = {r \in rows : r.owner = o}
  OBVIOUS
<1>2. Orderly(F) /\ Orderly(G)
  <2>1. F \in SUBSET Log /\ G \in SUBSET rows
    BY <1>1
  <2>2. QED
    BY <1>0, <2>1, LogOrderly, RowsOrderly, PartIsOrderly
<1>3. ASSUME NEW r \in F PROVE \E s \in G : s.at = r.at
  <2>1. PICK s \in rows : Like(s, r)
    <3>1. CASE Returned(answered, r)
      <4>1. PICK a \in answered : Plain(a) = r
        BY <3>1 DEF Returned
      <4>2. Known(a) /\ a.owner = o /\ MadeOK /\ Versions
        <5>1. Known(a) /\ Plain(a).owner = a.owner
          BY DEF StoreBoth, StoreAll, StoreInv, AnswersOK, Known, Plain, Store!Record,
             Store!RecordOf
        <5>2. QED
          BY <1>1, <4>1, <5>1, LogIs
      <4>3. PICK s \in rows : s.id = a.id
        BY <4>2 DEF Store!GaveUp
      <4>4. Known(s) /\ KeyOf(s) = KeyOf(a)
        BY <1>0, <4>3, LogIs DEF RowMade, KeyOf
      <4>5. table \notin Store!Replacing
        BY DEF Store!Replacing, Store!Memory!Keyed, Store!Updated
      <4>6. QED
        BY <4>1, <4>2, <4>4, <4>5, LikeOne
    <3>2. CASE ~Returned(answered, r)
      BY <1>1, <3>2, LogIs
    <3>3. QED
      BY <3>1, <3>2
  <2>2. s.at = r.at /\ s.owner = r.owner
    BY <1>0, <1>1, <2>1, TimesAre
  <2>3. QED
    BY <1>1, <2>1, <2>2
<1>4. ASSUME NEW s \in G PROVE \E r \in F : r.at = s.at
  <2>1. PICK r \in Log : Like(s, r)
    BY <1>1, LogIs
  <2>2. s.at = r.at /\ s.owner = r.owner
    BY <1>0, <1>1, <2>1, TimesAre
  <2>3. QED
    BY <1>1, <2>1, <2>2
<1>5. PICK no \in BOOLEAN : no = FALSE
  OBVIOUS
<1>6. PICK s, t : s = Store!Postgres!order(F, no) /\ t = Store!Postgres!order(G, no)
  OBVIOUS
<1>7. PICK n : n = Cardinality(G)
  OBVIOUS
<1>8. /\ Cardinality(F) = n
      /\ \A k \in 1 .. n : s[k].at = t[k].at
  <2>1. /\ Cardinality(F) = Cardinality(G)
        /\ \A k \in 1 .. Cardinality(F) : s[k].at = t[k].at
    BY <1>2, <1>3, <1>4, <1>6, SameOrder
  <2>2. QED
    BY <1>7, <2>1
<1>9. n \in Nat /\ n <= Limit /\ Limit \in Nat
  <2>1. Store!Cardinality(G) = Cardinality(G)
    BY SameCount
  <2>2. G = Store!Postgres!Of(rows, o)
    BY <1>1, PartsAre
  <2>3. n \in Nat
    BY <1>2, <1>7, FS_CardinalityType DEF Orderly
  <2>4. QED
    BY <1>7, <2>1, <2>2, <2>3, StoreAssumption
<1>10. /\ s \in Seq(F) /\ Len(s) = n /\ \A k \in 1 .. n : s[k] \in F
       /\ \A k \in 1 .. n : t[k] \in G
  <2>1. s \in Seq(F) /\ Len(s) = Cardinality(F) /\ \A k \in 1 .. Cardinality(F) : s[k] \in F
    BY <1>2, <1>6, OrderIs
  <2>2. \A k \in 1 .. Cardinality(G) : t[k] \in G
    BY <1>2, <1>6, OrderIs
  <2>3. QED
    BY <1>7, <1>8, <2>1, <2>2
<1>11. PICK m : m = Store!Postgres!limit(t, Limit)
  OBVIOUS
<1>12. DOMAIN m = 1 .. n /\ \A i \in 1 .. n : m[i] = t[i]
  <2>1. /\ DOMAIN m = 1 .. (IF Cardinality(G) < Limit THEN Cardinality(G) ELSE Limit)
        /\ \A i \in DOMAIN m : m[i] = t[i]
    BY <1>2, <1>6, <1>9, <1>11, LimitAt
  <2>2. (IF Cardinality(G) < Limit THEN Cardinality(G) ELSE Limit) = n
    BY <1>7, <1>9
  <2>3. QED
    BY <2>1, <2>2
<1>13. ASSUME NEW k \in 1 .. n PROVE s[k].id = m[k].id
  <2>1. s[k] \in Log /\ m[k] \in rows /\ s[k].at = m[k].at
    BY <1>1, <1>8, <1>10, <1>12
  <2>2. QED
    BY <1>0, <2>1, TimesAre
<1>14. Store!Memory!list_graph_run_events(stored, o) = [i \in 1 .. n |-> s[i].id]
  <2>1. Store!Memory!Of(stored, o) = F
    BY <1>1, PartsAre
  <2>2. Store!Memory!sort(F, FALSE) = s
    BY <1>5, <1>6, ListsAre
  <2>3. (IF Len(s) > Limit THEN Len(s) - Limit ELSE 0) = 0
    BY <1>9, <1>10
  <2>4. Store!Memory!list_graph_run_events(stored, o) = [i \in 1 .. (Len(s) - 0) |-> s[0 + i].id]
    BY <2>1, <2>2, <2>3 DEF Store!Memory!list_graph_run_events
  <2>5. QED
    BY <1>9, <1>10, <2>4
<1>15. Store!Postgres!list_graph_run_events(rows, o) = [i \in DOMAIN m |-> m[i].id]
  <2>1. G = Store!Postgres!Of(rows, o)
    BY <1>1, PartsAre
  <2>2. QED
    BY <1>5, <1>6, <1>11, <2>1 DEF Store!Postgres!list_graph_run_events, Store!Postgres!Ids
<1>16. QED
  BY <1>12, <1>13, <1>14, <1>15

(* The runs of a thread, of all, or of an identity, with a status.         *)
LEMMA ActiveRun ==
  ASSUME StoreBoth, Claimed, table = "graph_run", NEW o
  PROVE  Store!Memory!get_active_graph_run_for_thread(stored, o)
           = Store!Postgres!get_active_graph_run_for_thread(rows, o)
<1>0. table \notin Store!Memory!Keyed \cup {"role_invocation", "graph_run_event"}
  BY DEF Store!Memory!Keyed
<1>1. PICK F : F = Store!Postgres!OfKind(rows, o, {"active"})
  OBVIOUS
<1>2. Orderly(F) /\ Store!Memory!OfKind(stored, o, {"active"}) = F
  BY <1>0, <1>1, SameKinds
<1>3. Store!Postgres!first(Store!Postgres!limit(Store!Postgres!order(F, TRUE), 1))
        = Store!Memory!max(F)
  BY <1>2, Ends
<1>4. QED
  BY <1>1, <1>2, <1>3 DEF Store!Memory!get_active_graph_run_for_thread,
     Store!Postgres!get_active_graph_run_for_thread

LEMMA RunLists ==
  ASSUME StoreBoth, Claimed, table = "graph_run", NEW status, NEW o, NEW ofIdentity \in BOOLEAN,
         o = None \/ ~ofIdentity
  PROVE  Store!Memory!list_graph_runs(stored, status, o, ofIdentity)
           = Store!Postgres!list_graph_runs(rows, status, o, ofIdentity)
<1>1. Log = rows /\ Orderly(rows) /\ Limit \in Nat
  BY LogIsRows, RowsOrderly, StoreAssumption DEF Store!Memory!Keyed
<1>2. PICK A, B, U :
        /\ A = {r \in {x \in rows : x.owner \in IdentityOwners} : r.kind = status}
        /\ B = {r \in {x \in rows : x.named} : r.kind = status}
        /\ U = {r \in rows : /\ r.kind = status
                             /\ o # None => r.owner = o
                             /\ ofIdentity => r.owner \in IdentityOwners \/ r.named}
  OBVIOUS
<1>3. PICK merged : merged = Store!Postgres!ToSet(Store!Postgres!limit(Store!Postgres!order(A, TRUE), Limit))
                         \cup Store!Postgres!ToSet(Store!Postgres!limit(Store!Postgres!order(B, TRUE), Limit))
  OBVIOUS
<1>4. PICK V : V = IF o # None THEN {r \in Store!Postgres!Of(rows, o) : r.kind = status}
                   ELSE IF ofIdentity THEN {r \in merged : r.kind = status}
                   ELSE {r \in rows : r.kind = status}
  OBVIOUS
<1>5. Store!Postgres!list_graph_runs(rows, status, o, ofIdentity)
        = Store!Postgres!limit(Store!Postgres!order(V, TRUE), Limit)
  <2>1. Store!Postgres!list_graph_runs(rows, status, o, ofIdentity)
          = Store!Postgres!limit(
              IF o # None
              THEN Store!Postgres!order({r \in Store!Postgres!Of(rows, o) : r.kind = status}, TRUE)
              ELSE IF ofIdentity THEN Store!Postgres!order({r \in merged : r.kind = status}, TRUE)
              ELSE Store!Postgres!order({r \in rows : r.kind = status}, TRUE), Limit)
    BY <1>2, <1>3 DEF Store!Postgres!list_graph_runs
  <2>2. QED
    BY <1>4, <2>1
<1>6. Store!Memory!list_graph_runs(stored, status, o, ofIdentity)
        = Store!Postgres!limit(Store!Postgres!order(U, TRUE), Limit)
  <2>1. Store!Memory!list_graph_runs(stored, status, o, ofIdentity)
          = Store!Memory!LimitTo(Store!Memory!sort(U, TRUE), Limit)
    BY <1>1, <1>2 DEF Store!Memory!list_graph_runs, Log
  <2>2. QED
    BY <2>1, ListsAre
<1>7. CASE ~(o = None /\ ofIdentity)
  <2>1. V = U
    BY <1>2, <1>4, <1>7, PartsAre
  <2>2. QED
    BY <1>5, <1>6, <2>1
<1>8. CASE o = None /\ ofIdentity
  <2>1. A \cup B = U
    BY <1>2, <1>8
  <2>2. Orderly(U) /\ Orderly(A) /\ Orderly(B)
    <3>1. U \in SUBSET rows /\ A \in SUBSET rows /\ B \in SUBSET rows
      BY <1>2
    <3>2. QED
      BY <1>1, <3>1, PartIsOrderly
  <2>3. PICK yes \in BOOLEAN : yes = TRUE
    OBVIOUS
  <2>4. PICK a, b : /\ a = Store!Postgres!ToSet(Store!Postgres!limit(Store!Postgres!order(A, yes), Limit))
                    /\ b = Store!Postgres!ToSet(Store!Postgres!limit(Store!Postgres!order(B, yes), Limit))
    OBVIOUS
  <2>5. a = {x \in A : Rank(A, x, yes) < Limit} /\ b = {x \in B : Rank(B, x, yes) < Limit}
    BY <1>1, <2>2, <2>4, TopIs
  <2>6. merged = a \cup b
    BY <1>3, <2>3, <2>4
  <2>7. V = {r \in merged : r.kind = status}
    BY <1>4, <1>8
  <2>8. Merged(V, A, B, yes, Limit)
    BY <1>2, <2>5, <2>6, <2>7 DEF Merged
  <2>9. Store!Postgres!limit(Store!Postgres!order(V, yes), Limit)
          = Store!Postgres!limit(Store!Postgres!order(U, yes), Limit)
    <3>1. Orderly(U) /\ Limit \in Nat
      BY <1>1, <2>2
    <3>2. QED
      BY <3>1, <2>1, <2>8, MergedIs
  <2>10. QED
    BY <1>5, <1>6, <2>3, <2>9
<1>9. QED
  BY <1>7, <1>8

----------------------------------------------------------------------------
(* All the reads at once.                                                  *)
LEMMA ReadsOf ==
  ASSUME StoreBoth, Claimed, NEW o \in Owners
  PROVE  Store!SameOf(o)
<1>1. PICK no \in BOOLEAN : no = FALSE
  OBVIOUS
<1>2. table = "graph_run" =>
        \A status : Store!Memory!list_graph_runs(stored, status, o, no)
                      = Store!Postgres!list_graph_runs(rows, status, o, no)
  BY <1>1, RunLists
<1>3. table = "graph_run" =>
        \A status : Store!Memory!list_graph_runs(stored, status, o, FALSE)
                      = Store!Postgres!list_graph_runs(rows, status, o, FALSE)
  BY <1>1, <1>2
<1>4. QED
  BY <1>3, CheckpointReads, RoleInvocationLists, LatestFailed, EventLists, RoleReads,
     SnapshotReads, SourceReads, KeyReads, ActiveRun DEF Store!SameOf

LEMMA ReadsOfAll ==
  ASSUME StoreBoth, Claimed
  PROVE  Store!SameOfAll
<1>1. table = "graph_run" =>
        \A status : \A ofIdentity \in BOOLEAN :
          Store!Memory!list_graph_runs(stored, status, None, ofIdentity)
            = Store!Postgres!list_graph_runs(rows, status, None, ofIdentity)
  BY RunLists
<1>2. table = "graph_run" =>
        \A status \in Store!Kinds[table], ofIdentity \in BOOLEAN :
          Store!Memory!list_graph_runs(stored, status, None, ofIdentity)
            = Store!Postgres!list_graph_runs(rows, status, None, ofIdentity)
  BY <1>1
<1>3. QED
  BY <1>2, CheckpointRuns, InvocationCounts, StagingLists, PublicationCounts, MemoryLists,
     ByIdReads DEF Store!SameOfAll

(* Whenever no call is open, and where a write replaces another no two     *)
(* ever were open together, every read answers the same on both            *)
(* repositories, however many attempts failed, were lost or came late; the *)
(* events of a run excepted, where one was given up or a limit cuts.  *)
THEOREM ReadsAlwaysAgree == Store!Spec => []ReadsAgree
<1>1. Store!Init => StoreBoth
  BY StoreStarts, AlikeStarts DEF StoreBoth
<1>2. StoreBoth /\ [Store!Next]_(Store!vars) => StoreBoth'
  BY AlikeStep
<1>3. StoreBoth => ReadsAgree
  BY ReadsOf, ReadsOfAll DEF ReadsAgree, Store!ReadsAgree, Claimed
<1>4. QED
  BY <1>1, <1>2, <1>3, PTL DEF Store!Spec
=============================================================================
