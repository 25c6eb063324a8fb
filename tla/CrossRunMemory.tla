--------------------------- MODULE CrossRunMemory --------------------------
(***************************************************************************)
(* What one identity's runs and its operators teach each other.  A run     *)
(* loads the rows of identity_cross_run_memory, writes what the identity's *)
(* pages suggest, plans in an experience mode that a remembered one may    *)
(* bias, and at its end merges its outcome; an operator's approval or      *)
(* publication writes the preferred mode.  Each row is read, changed in    *)
(* Python and written whole, so that two writers may lose each other's     *)
(* change.  The aesthetic taste of a publication is left out: its themes   *)
(* come from the snapshot's evaluation, which cannot hold any.             *)
(*                                                                         *)
(* Strengths are in hundredths.  Time passes in ticks, which may be as     *)
(* short as one likes: Fade says what is left of a strength after each.    *)
(***************************************************************************)
EXTENDS Integers, Sequences, FiniteSets

CONSTANTS
  Runs, Desks,
  Profiles,      \* the structured identities extraction may yield
  Archetypes,    \* the site archetypes a planner may name
  Authored,      \* the modes a planner may choose itself
  Earlier,       \* how many runs the identity may have had before
  MaxAge,        \* bound: ticks that pass
  Fade,          \* 0.5^(age / half-life) by age in ticks, in thousandths
  MaxPlans,      \* bound: planner calls of a run
  None

VARIABLES
  now, memory, run, desk,
  word,          \* history: what an operator last wrote: mode, time and least strength
  vouched        \* history: modes an identity derived or an operator approved

vars == <<now, memory, run, desk, word, vouched>>

----------------------------------------------------------------------------
(* The structured identity.                                                *)

Flat == "flat_standard"
FlatStatic == "flat_editorial_static"
Portfolio == "webgl_3d_portfolio"
Experience == "immersive_identity_experience"
Spatial == "immersive_spatial_portfolio"
ModelCentric == "model_centric_experience"
WEBGL_EXPERIENCE_MODES == {Portfolio, Spatial, ModelCentric, Experience}
Modes == {Flat, FlatStatic} \cup WEBGL_EXPERIENCE_MODES

SpatialArchetypes == {"portfolio", "gallery", "experimental", "story_driven"}

(* A profile: visual and content are sets of tendencies and content types, *)
(* creative says that a theme is cinematic, experimental or artistic.      *)
derive_experience_mode_with_confidence(profile, archetype) ==
  LET Result(mode, confidence) == [mode |-> mode, confidence |-> confidence]
      Led(confidence) == Result(IF archetype = "portfolio" THEN Portfolio ELSE Experience,
                                confidence)
      works == profile.content \cap {"projects", "photography", "design", "art"}
      moving == profile.visual \cap {"image-driven", "motion-heavy"}
  IN IF "spatial" \in profile.visual THEN Result(Spatial, 90)
     ELSE IF profile.complexity = "ambitious" /\ moving # {}
          THEN IF works = {} THEN Result(Experience, 85) ELSE Led(85)
     ELSE IF archetype \in SpatialArchetypes /\ profile.creative THEN Led(80)
     ELSE IF profile.content = {"writing"} /\ profile.visual = {} THEN Result(Flat, 85)
     ELSE IF profile.complexity = "simple" /\ moving = {} THEN Result(Flat, 80)
     ELSE IF works # {} /\ (profile.visual # {} \/ profile.creative) THEN Led(70)
     ELSE IF archetype \in SpatialArchetypes THEN Led(65) ELSE Result(Flat, 40)

(* The memory asks without an archetype.                                   *)
Confidence(profile) == derive_experience_mode_with_confidence(profile, None).confidence

----------------------------------------------------------------------------
(* Rows and strengths.                                                     *)

Keys == {"likely_experience_mode", "visual_style_hints", "aggregate_run_outcome",
         "preferred_experience_mode"}
Row == [mode : Modes \cup {None}, strength : 0 .. 100, at : 0 .. MaxAge, count : 0 .. 100]

Settings == [derive_min_confidence |-> 65, bias_max_identity_confidence |-> 55,
             bias_min_taste_strength |-> 45]

clamp_strength(x) == IF x < 0 THEN 0 ELSE IF x > 100 THEN 100 ELSE x
cap_delta_negative(delta) == IF delta < -15 THEN -15 ELSE delta
cap_delta_positive(delta) == IF delta > 12 THEN 12 ELSE delta

(* From the first day on, strengths fade.                                  *)
Faded(strength, age) == (strength * Fade[age]) \div 1000
effective_strength_at_read(row) == clamp_strength(Faded(row.strength, now - row.at))

(* A mutant: the strongest remembered mode, an operator's or not.          *)
build_taste_profile_by_strength(rows) ==
  LET told == {k \in {"likely_experience_mode", "preferred_experience_mode"} : rows[k] # None}
      Eff(k) == effective_strength_at_read(rows[k])
      top == {k \in told : \A j \in told : Eff(j) <= Eff(k)}
  IN [operator |-> None,
      favored |-> IF told = {} THEN None
                  ELSE LET k == CHOOSE x \in top : TRUE
                       IN [mode |-> rows[k].mode, strength |-> Eff(k)]]

(* A mutant: without either, the mode of the last run.                     *)
build_taste_profile_with_outcomes(rows) ==
  LET Told(k) == IF rows[k] = None THEN None
                 ELSE [mode |-> rows[k].mode,
                       strength |-> effective_strength_at_read(rows[k])]
      operator == Told("preferred_experience_mode")
      likely == Told("likely_experience_mode")
  IN [operator |-> operator,
      favored |-> IF operator # None THEN operator
                  ELSE IF likely # None THEN likely ELSE Told("aggregate_run_outcome")]

(* The operator's mode goes first, whatever its strength; without one the  *)
(* mode the identity was found likely to want.                             *)
build_taste_profile(rows) ==
  LET Told(k) == IF rows[k] = None THEN None
                 ELSE [mode |-> rows[k].mode,
                       strength |-> effective_strength_at_read(rows[k])]
      operator == Told("preferred_experience_mode")
  IN [operator |-> operator,
      favored |-> IF operator # None THEN operator ELSE Told("likely_experience_mode")]

(* The mode memory suggests to a run whose identity is vague, or None.     *)
memory_bias_for_experience_mode(profile, taste) ==
  LET Strong(said) == said # None /\ said.strength >= Settings.bias_min_taste_strength
  IN IF Confidence(profile) > Settings.bias_max_identity_confidence THEN None
     ELSE IF Strong(taste.operator) THEN taste.operator.mode
     ELSE IF Strong(taste.favored) THEN taste.favored.mode
     ELSE None

clamp_experience_mode_for_static_vertical(mode, static) ==
  IF static /\ mode \in WEBGL_EXPERIENCE_MODES THEN FlatStatic ELSE mode

----------------------------------------------------------------------------
NoTaste == [operator |-> None, favored |-> None]
Idle == [step |-> "idle", of |-> None, was |-> None]

Taste == [operator : {None} \cup [mode : Modes, strength : 0 .. 100],
          favored : {None} \cup [mode : Modes, strength : 0 .. 100]]

TypeOK ==
  /\ now \in 0 .. MaxAge
  /\ \A k \in Keys : memory[k] = None \/ memory[k] \in Row
  /\ \A r \in Runs :
       /\ run[r].step \in {"new", "loaded", "deriving", "hinting", "planning", "built", "merging",
                           "review_ready", "approved", "published", "unstaged"}
       /\ run[r].profile \in Profiles /\ run[r].taste \in Taste
       /\ run[r].mode \in Modes \cup {None} /\ run[r].bias \in Modes \cup {None}
       /\ run[r].was = None \/ run[r].was \in Row
       /\ run[r].plans \in 0 .. MaxPlans
  /\ \A d \in Desks : desk[d].was = None \/ desk[d].was \in Row
  /\ vouched \subseteq Modes

(* What n passed runs of a confident profile, before this behaviour, left. *)
Left(profile, n, tried) ==
  LET By(mode, strength) == [mode |-> mode, strength |-> strength, at |-> 0, count |-> n]
  IN [k \in Keys |->
        IF k = "preferred_experience_mode" \/ n = 0 THEN None
        ELSE IF k = "visual_style_hints" THEN By(None, clamp_strength(28 + 2 * n))
        ELSE IF k = "likely_experience_mode" THEN
               By(derive_experience_mode_with_confidence(profile, None).mode,
                  clamp_strength(31 + 4 * n))
        ELSE By(tried, clamp_strength(25 + 6 * n))]

Sure(profile) == Confidence(profile) >= Settings.derive_min_confidence

Init ==
  /\ now = 0
  /\ \E n \in Earlier, profile \in {p \in Profiles : Sure(p)}, tried \in Authored :
       \E known \in BOOLEAN :   \* runs of a vague identity leave only their outcomes
         memory = [Left(profile, n, tried) EXCEPT
                     !["likely_experience_mode"] = IF known THEN @ ELSE None,
                     !["visual_style_hints"] = IF known THEN @ ELSE None]
  /\ run \in [Runs -> [step : {"new"}, profile : Profiles, static : BOOLEAN,
                       taste : {NoTaste}, heard : {None}, mode : {None}, bias : {None},
                       was : {None}, plans : {0}, status : {"unknown"}]]
  /\ desk = [d \in Desks |-> Idle]
  /\ word = None
  /\ vouched = IF memory["likely_experience_mode"] = None THEN {}
               ELSE {memory["likely_experience_mode"].mode}

At(r, step) == run[r].step = step

----------------------------------------------------------------------------
(* A run.                                                                  *)

(* The mode of an operator's word that is still strong enough to steer.    *)
StillHeard ==
  IF word # None /\ Faded(word.least, now - word.at) >= Settings.bias_min_taste_strength
  THEN word.mode ELSE None

load_cross_run_memory_context(r) ==
  /\ At(r, "new")
  /\ run' = [run EXCEPT ![r].step = "loaded", ![r].taste = build_taste_profile(memory),
                        ![r].heard = StillHeard]
  /\ UNCHANGED <<now, memory, desk, word, vouched>>

(* Only what extraction is sure of is kept.                                *)
ReadLikely(r) ==
  /\ At(r, "loaded")
  /\ LET sure == Sure(run[r].profile)
     IN run' = [run EXCEPT ![r].step = IF sure THEN "deriving" ELSE "planning",
                           ![r].was = IF sure THEN memory["likely_experience_mode"] ELSE None]
  /\ UNCHANGED <<now, memory, desk, word, vouched>>

maybe_write_identity_derived_memory(r) ==
  /\ At(r, "deriving")
  /\ LET mode == derive_experience_mode_with_confidence(run[r].profile, None).mode
         was == run[r].was
     IN /\ memory' = [memory EXCEPT !["likely_experience_mode"] =
             [mode |-> mode, at |-> now, count |-> 0,
              strength |-> IF was = None THEN 35
                           ELSE clamp_strength(was.strength + cap_delta_positive(4))]]
        /\ vouched' = vouched \cup {mode}
  /\ run' = [run EXCEPT ![r].step = "hinting", ![r].was = memory["visual_style_hints"]]
  /\ UNCHANGED <<now, desk, word>>

(* Themes, tone and visual tendencies: a row that has no mode to suggest.  *)
WriteHints(r) ==
  /\ At(r, "hinting")
  /\ memory' = [memory EXCEPT !["visual_style_hints"] =
       [mode |-> None, at |-> now, count |-> 0,
        strength |-> IF run[r].was = None THEN 30 ELSE clamp_strength(run[r].was.strength + 2)]]
  /\ run' = [run EXCEPT ![r].step = "planning", ![r].was = None]
  /\ UNCHANGED <<now, desk, word, vouched>>

(* The planner's own mode is never overridden.  A remembered mode replaces *)
(* the derived one, the portfolio one only where the planner said          *)
(* portfolio; the static vertical then clamps whichever it is.             *)
Plan(r, authored, archetype) ==
  /\ At(r, "planning") \/ At(r, "built")
  /\ run[r].plans < MaxPlans
  /\ LET derived == derive_experience_mode_with_confidence(run[r].profile, archetype).mode
         bias == memory_bias_for_experience_mode(run[r].profile, run[r].taste)
         blocked == bias = Portfolio /\ archetype # "portfolio"
         biased == authored = None /\ bias \notin {None, derived} /\ ~blocked
         mode == IF authored # None THEN authored ELSE IF biased THEN bias ELSE derived
     IN run' = [run EXCEPT ![r].step = "built", ![r].plans = @ + 1,
                           ![r].bias = IF biased THEN bias ELSE None,
                           ![r].mode = clamp_experience_mode_for_static_vertical(
                                         mode, run[r].static)]
  /\ UNCHANGED <<now, memory, desk, word, vouched>>

(* The run ends with a verdict; its outcome reads the row first.           *)
ReadOutcome(r, status) ==
  /\ At(r, "built")
  /\ run' = [run EXCEPT ![r].step = "merging", ![r].status = status,
                        ![r].was = memory["aggregate_run_outcome"]]
  /\ UNCHANGED <<now, memory, desk, word, vouched>>

record_run_outcome_memory(r) ==
  /\ At(r, "merging")
  /\ LET was == run[r].was
         failed == run[r].status \in {"fail", "blocked"}
         delta == IF failed THEN cap_delta_negative(-8) ELSE cap_delta_positive(6)
         base == IF was = None THEN 25 ELSE was.strength
     IN memory' = [memory EXCEPT !["aggregate_run_outcome"] =
          [mode |-> run[r].mode, at |-> now,
           count |-> 1 + IF was = None THEN 0 ELSE was.count,
           strength |-> clamp_strength(base + delta)]]
  /\ run' = [run EXCEPT ![r].was = None, ![r].status = "unknown",
                        ![r].step = IF run[r].status \in {"fail", "blocked"}
                                    THEN "unstaged" ELSE "review_ready"]
  /\ UNCHANGED <<now, desk, word, vouched>>

----------------------------------------------------------------------------
(* An operator.  The snapshot's row changes first; the mode remembered is  *)
(* that of the run's newest build_spec.                                    *)

ReadPreference(d, r, step) ==
  desk' = [desk EXCEPT ![d] = [step |-> step, of |-> r,
                               was |-> memory["preferred_experience_mode"]]]

Approve(d, r) ==
  /\ desk[d] = Idle /\ At(r, "review_ready")
  /\ run' = [run EXCEPT ![r].step = "approved"]
  /\ ReadPreference(d, r, "approving")
  /\ vouched' = vouched \cup {run[r].mode}
  /\ UNCHANGED <<now, memory, word>>

Publish(d, r) ==
  /\ desk[d] = Idle /\ At(r, "approved")
  /\ run' = [run EXCEPT ![r].step = "published"]
  /\ ReadPreference(d, r, "publishing")
  /\ UNCHANGED <<now, memory, word, vouched>>

Larger(a, b) == IF a > b THEN a ELSE b

WritePreference(d, floor, step) ==
  LET was == desk[d].was
      mode == run[desk[d].of].mode
  IN /\ memory' = [memory EXCEPT !["preferred_experience_mode"] =
          [mode |-> mode, at |-> now, count |-> 0,
           strength |-> IF was = None THEN floor
                        ELSE clamp_strength(Larger(was.strength, floor) + step)]]
     /\ word' = [mode |-> mode, at |-> now, least |-> floor]
     /\ desk' = [desk EXCEPT ![d] = Idle]
     /\ UNCHANGED <<now, run, vouched>>

record_operator_memory_from_staging_approval(d) ==
  desk[d].step = "approving" /\ WritePreference(d, 55, 12)

record_operator_memory_from_publication(d) ==
  desk[d].step = "publishing" /\ WritePreference(d, 75, 8)

----------------------------------------------------------------------------
TimePasses ==
  /\ now < MaxAge
  /\ now' = now + 1
  /\ UNCHANGED <<memory, run, desk, word, vouched>>

Next ==
  \/ \E r \in Runs :
       \/ load_cross_run_memory_context(r) \/ ReadLikely(r)
       \/ maybe_write_identity_derived_memory(r) \/ WriteHints(r)
       \/ \E authored \in Authored \cup {None}, archetype \in Archetypes \cup {None} :
            Plan(r, authored, archetype)
       \/ \E status \in {"pass", "partial", "fail", "blocked"} : ReadOutcome(r, status)
       \/ record_run_outcome_memory(r)
  \/ \E d \in Desks :
       \/ \E r \in Runs : Approve(d, r) \/ Publish(d, r)
       \/ record_operator_memory_from_staging_approval(d)
       \/ record_operator_memory_from_publication(d)
  \/ TimePasses

Spec == Init /\ [][Next]_vars

----------------------------------------------------------------------------
(* Properties.                                                             *)

(* A mode steers a run that did not choose it only where an identity's     *)
(* pages derived it with confidence or an operator approved a build in it: *)
(* what a run tried, recorded as its outcome and never approved, does not  *)
(* come back to the identity's next runs.                                  *)
UnreviewedNeverSteers == \A r \in Runs : run[r].bias \in vouched \cup {None}

(* An operator's word counts for at least 0.55 when it approves and 0.75   *)
(* when it publishes, and steers until that has faded to 0.45: for 0.28    *)
(* and 0.73 half-lives.  A run of a vague identity, loaded within this     *)
(* time, that does not choose its mode is built in the operator's last     *)
(* one, however strongly other memory speaks and whatever overlaps: unless *)
(* that is the portfolio mode, or the run's vertical cannot show it.       *)
OperatorIsHeard ==
  [][\A r \in Runs, archetype \in Archetypes \cup {None} :
       Plan(r, None, archetype) /\ run[r].heard \notin {None, Portfolio}
         /\ Confidence(run[r].profile) <= Settings.bias_max_identity_confidence =>
           run'[r].mode = clamp_experience_mode_for_static_vertical(run[r].heard, run[r].static)]_vars
=============================================================================
