------------------------------- MODULE Crawl --------------------------------
(***************************************************************************)
(* The crawl frontier of the identities: what the runs have seen of a      *)
(* site, shared by every identity that lives on it, and the phase each     *)
(* identity is in.                                                         *)
(*                                                                         *)
(* A worker is the thread that executes a graph run: it loads or creates   *)
(* the state when the run is hydrated and advances it when the graph is    *)
(* done.  A state is stored as two rows, the site's and the identity's,    *)
(* written one after the other and always whole.  Nothing keeps two        *)
(* workers, on one identity or on two of one site, from interleaving.      *)
(*                                                                         *)
(* A URL stands for its normalized form, a site for its host without www.  *)
(***************************************************************************)
EXTENDS Naturals, FiniteSets, Sequences, SequencesExt

CONSTANTS
  Identities, Urls, Sites,
  SiteOf,             \* canonical_site_key of a URL
  Score,              \* score_url_for_internal_crawl: 0 for a low-value URL
  Links,              \* hrefs found on a page
  Rich,               \* pages whose content makes a strong summary
  Roots,              \* root URLs that identities are given
  Inspiration,        \* _DEFAULT_INSPIRATION_CATEGORIES
  Allowlist,          \* kmbl_playwright_inspiration_domains
  Legacy,             \* identities whose row predates the shared site rows
  Workers,
  MaxVisited, MaxUnvisited, MaxSummaries, MaxExternal,
  Batch,              \* URLs offered to a planner
  RawCredits,         \* MAX_RAW_PAYLOAD_CREDITS_PER_RUN
  PagesPerRun,        \* kmbl_playwright_max_pages_per_loop
  MinStrong,          \* kmbl_crawl_min_strong_internal_pages
  Desks,              \* bounds and settings to explore, see DeskType
  None

ASSUME CrawlConstantsAssumption ==
  /\ SiteOf \in [Urls -> Sites] /\ Score \in [Urls -> Nat]
  /\ Links \in [Urls -> SUBSET Urls] /\ Rich \subseteq Urls
  /\ Roots \subseteq Urls /\ Inspiration \subseteq Urls /\ Allowlist \subseteq Sites
  /\ Legacy \subseteq Identities
  /\ MaxVisited \in Nat \ {0} /\ MaxUnvisited \in Nat /\ MaxSummaries \in Nat
  /\ MaxExternal \in Nat /\ Batch \in Nat \ {0} /\ RawCredits \in Nat \ {0}
  /\ PagesPerRun \in Nat /\ MinStrong \in Nat
  /\ None \notin Sites

VARIABLES
  crawl_state,        \* rows by identity
  site_crawl_state,   \* rows by site
  worker,             \* where each worker is and what it has read
  desk,               \* the settings and bounds of this behaviour
  reseeds,            \* runs so far that brought another root URL
  failures,           \* runs so far that an exception or a crash cut off
  overlaps            \* runs so far that began while another was going on

vars == <<crawl_state, site_crawl_state, worker, desk, reseeds, failures, overlaps>>

(* Whether kmbl_playwright_wrapper_url is set, and how often a root URL    *)
(* may change, a run be cut off, and a run begin during another.           *)
DeskType == [wrapper: BOOLEAN, reseeds: Nat, failures: Nat, overlaps: Nat]

ASSUME DesksAssumption == Desks \subseteq DeskType

-----------------------------------------------------------------------------
(* Rows and views.                                                         *)

Phases == {"identity_grounding", "inspiration_expansion"}

FrontierType ==
  [visited: {q \in UNION {[1..n -> Urls] : n \in 0..MaxVisited} : IsInjective(q)},
   unvisited: SUBSET Urls,
   pages: SUBSET Urls,      \* keys of page_summaries
   strong: SUBSET Urls,     \* those whose summary_strength reaches 0.35
   status: {"in_progress", "exhausted"},
   external: SUBSET Urls]   \* external_inspiration_urls

Blank ==
  [visited |-> <<>>, unvisited |-> {}, pages |-> {}, strong |-> {},
   status |-> "in_progress", external |-> {}]

IdentityRow == [root: Urls, key: Sites \cup {None}, phase: Phases, own: FrontierType]

NoRow  == [root |-> None]
NoSite == [status |-> None]

(* merge_identity_with_site: the frontier of the site with the phase of    *)
(* the identity.                                                           *)
merge_identity_with_site(row, site) == [row EXCEPT !.own = site]

get_crawl_state(i) ==
  LET row == crawl_state[i] IN
  IF row # NoRow /\ row.key # None /\ site_crawl_state[row.key] # NoSite
  THEN merge_identity_with_site(row, site_crawl_state[row.key])
  ELSE row

Fresh(root) ==
  [root |-> root, key |-> SiteOf[root], phase |-> "identity_grounding",
   own |-> [Blank EXCEPT !.unvisited = {root}]]

Link(root) == [Fresh(root) EXCEPT !.own = Blank]

HasFrontier(f) == f.visited # <<>> \/ f.unvisited # {} \/ f.pages # {}

Known(f) == ToSet(f.visited) \cup f.unvisited

-----------------------------------------------------------------------------
(* Ranking and policy.                                                     *)

Internal(v, u) == SiteOf[u] = SiteOf[v.root]

is_low_value_crawl_url(u) == Score[u] = 0

(* The sets that the first k of S can be when S is sorted by score.        *)
Tops(S, k) ==
  {T \in SUBSET S :
     /\ Cardinality(T) = IF Cardinality(S) < k THEN Cardinality(S) ELSE k
     /\ \A u \in T, w \in S \ T : Score[w] <= Score[u]}

(* The sets that taking at most k of S in an unknown order can give.       *)
Some(S, k) ==
  {T \in SUBSET S : Cardinality(T) = IF Cardinality(S) < k THEN Cardinality(S) ELSE k}

(* get_next_urls_to_crawl: the batches it can be.                          *)
get_next_urls_to_crawl(v) ==
  LET internal == {u \in v.own.unvisited : Internal(v, u)}
      outside  == v.own.external \ ToSet(v.own.visited)
  IN  IF v.phase = "identity_grounding" \/ internal # {}
      THEN Tops(internal, Batch)
      ELSE Some(outside, Batch)

internal_coverage_ready_for_inspiration(v) ==
  LET left == {u \in v.own.unvisited : Internal(v, u)} IN
  /\ \A u \in left : is_low_value_crawl_url(u)
  /\ left = {} \/ Cardinality({u \in v.own.strong : Internal(v, u)}) >= MinStrong

(* url_passes_grounded_visit: the wrapper opens pages of the site and of   *)
(* the hosts that are allowed.                                             *)
url_passes_grounded_visit(v, u) == Internal(v, u) \/ SiteOf[u] \in Allowlist

-----------------------------------------------------------------------------
(* What one visit makes of a state.                                        *)

LastOf(q, n) == IF Len(q) > n THEN SubSeq(q, Len(q) - n + 1, Len(q)) ELSE q

(* The links that filter_frontier_candidate_urls lets through and that are *)
(* new.                                                                    *)
Discovered(v, u, visited) ==
  {l \in Links[u] : Internal(v, l) /\ ~is_low_value_crawl_url(l)}
    \ (visited \cup v.own.unvisited)

(* The states that recording u can leave: found is the part of the         *)
(* discovered links that still fits.                                       *)
Visited(v, u, fetched) ==
  LET visited   == IF u \in ToSet(v.own.visited) THEN v.own.visited
                   ELSE Append(v.own.visited, u)
      unvisited == v.own.unvisited \ {u}
      room      == IF Cardinality(unvisited) < MaxUnvisited
                   THEN MaxUnvisited - Cardinality(unvisited) ELSE 0
      new       == IF fetched THEN Discovered(v, u, ToSet(visited)) ELSE {}
      kept      == Cardinality(v.own.pages) < MaxSummaries
  IN  {[v EXCEPT !.own =
          [visited   |-> LastOf(visited, MaxVisited),
           unvisited |-> unvisited \cup found,
           pages     |-> IF kept THEN v.own.pages \cup {u} ELSE v.own.pages,
           strong    |-> IF ~kept THEN v.own.strong
                         ELSE IF fetched /\ u \in Rich THEN v.own.strong \cup {u}
                         ELSE v.own.strong \ {u},
           status    |-> IF unvisited \cup found = {} THEN "exhausted" ELSE v.own.status,
           external  |-> v.own.external]] : found \in Some(new, room)}

(* Mutant: the new list replaces the old one.                              *)
SeededAfresh(v, urls) ==
  {[v EXCEPT !.own.external = new] : new \in Some(urls \ v.own.external, MaxExternal)}

(* seed_external_inspiration with the given list.                          *)
Seeded(v, urls) ==
  {[v EXCEPT !.own.external = @ \cup new] :
     new \in Some(urls \ v.own.external, MaxExternal - Cardinality(v.own.external))}

-----------------------------------------------------------------------------
(* Workers.                                                                *)

Steps == {"idle", "ensure", "load", "graph", "visits", "check", "seed", "promote", "late",
          "site_row", "identity_row"}

(* What is done once both rows are written.                                *)
Continuations == {"load", "graph", "check", "promote", "visits", "idle"}

Idle == [pc |-> "idle", id |-> None, root |-> None, held |-> NoRow, next |-> "idle",
         todo |-> {}, fetch |-> "http"]

WorkerType ==
  [pc: Steps, id: Identities \cup {None}, root: Roots \cup {None},
   held: IdentityRow \cup {NoRow}, next: Continuations, todo: SUBSET Urls,
   fetch: {"http", "wrapper"}]

Busy == {w \in Workers : worker[w].pc # "idle"}

Set(w, r) == worker' = [worker EXCEPT ![w] = r]
Goto(w, step) == Set(w, [worker[w] EXCEPT !.pc = step, !.held = NoRow])

(* upsert_crawl_state: the site row when there is a frontier to put there, *)
(* then the identity row.                                                  *)
Upsert(w, v, next) ==
  Set(w, [worker[w] EXCEPT
            !.pc   = IF v.key # None /\ HasFrontier(v.own) THEN "site_row" ELSE "identity_row",
            !.held = v, !.next = next])

upsert_site_crawl_state(w) ==
  /\ worker[w].pc = "site_row"
  /\ site_crawl_state' =
       [site_crawl_state EXCEPT ![worker[w].held.key] = worker[w].held.own]
  /\ Set(w, [worker[w] EXCEPT !.pc = "identity_row", !.held.own = Blank])
  /\ UNCHANGED <<crawl_state, desk, reseeds, failures, overlaps>>

upsert_crawl_state(w) ==
  /\ worker[w].pc = "identity_row"
  /\ crawl_state' = [crawl_state EXCEPT ![worker[w].id] = worker[w].held]
  /\ IF worker[w].next = "idle" THEN Set(w, Idle) ELSE Goto(w, worker[w].next)
  /\ UNCHANGED <<site_crawl_state, desk, reseeds, failures, overlaps>>

(* A run of identity i is hydrated with the root URL it was given.         *)
BeginRun(w, i, root) ==
  /\ worker[w].pc = "idle"
  /\ Busy # {} => overlaps < desk.overlaps
  /\ overlaps' = IF Busy = {} THEN overlaps ELSE overlaps + 1
  /\ LET other == crawl_state[i] # NoRow /\ crawl_state[i].root # root IN
     /\ other => reseeds < desk.reseeds
     /\ reseeds' = IF other THEN reseeds + 1 ELSE reseeds
  /\ Set(w, [Idle EXCEPT !.pc = "ensure", !.id = i, !.root = root])
  /\ UNCHANGED <<crawl_state, site_crawl_state, desk, failures>>

(* A row from before the site rows is moved to its site, over whatever the *)
(* site's row says.                                                        *)
ensure_site_backing_for_identity(w) ==
  LET row == crawl_state[worker[w].id] IN
  /\ worker[w].pc = "ensure"
  /\ IF row = NoRow \/ row.key # None \/ ~HasFrontier(row.own)
     THEN Goto(w, "load")
     ELSE Upsert(w, [row EXCEPT !.key = SiteOf[row.root]], "load")
  /\ UNCHANGED <<crawl_state, site_crawl_state, desk, reseeds, failures, overlaps>>

(* Mutant: an identity that is new to a known site starts it afresh.       *)
get_or_create_without_link(w) ==
  LET root == worker[w].root
      view == get_crawl_state(worker[w].id)
  IN
  /\ worker[w].pc = "load"
  /\ IF view # NoRow /\ view.root = root THEN Goto(w, "graph")
     ELSE Upsert(w, Fresh(root), "graph")
  /\ UNCHANGED <<crawl_state, site_crawl_state, desk, reseeds, failures, overlaps>>

get_or_create_crawl_state(w) ==
  LET root == worker[w].root
      view == get_crawl_state(worker[w].id)
  IN
  /\ worker[w].pc = "load"
  /\ \/ view # NoRow /\ view.root = root /\ Goto(w, "graph")
     \/ view # NoRow /\ view.root # root /\ Upsert(w, Fresh(root), "graph")
     \/ /\ view = NoRow
        /\ Upsert(w, IF site_crawl_state[SiteOf[root]] # NoSite THEN Link(root) ELSE Fresh(root),
                  "graph")
  /\ UNCHANGED <<crawl_state, site_crawl_state, desk, reseeds, failures, overlaps>>

(* Mutant: a run that names no offered URL visits none.                    *)
resolve_without_fallback(v, offered) ==
  {[todo |-> T, fetch |-> "http"] : T \in SUBSET offered}

(* resolve_evidence: what to mark visited and with which client.  Of the   *)
(* sources only the strongest that names an offered URL counts; when none  *)
(* does the first offered URL is taken.                                    *)
resolve_evidence(v, offered) ==
  LET named     == (SUBSET offered) \ {{}}
      http(S)   == {[todo |-> T, fetch |-> "http"] : T \in S}
      planner   == IF desk.wrapper /\ PagesPerRun > 0
                   THEN {[todo |-> T, fetch |-> "wrapper"] :
                           T \in UNION {Some(M, PagesPerRun) : M \in named}}
                   ELSE http(named)
      structured == http(named)
      raw       == http({M \in named : Cardinality(M) <= RawCredits})
      first     == {u \in offered : \A x \in offered : Internal(v, u) => Score[x] <= Score[u]}
      fallback  == http({{u} : u \in first})
  IN  planner \cup structured \cup raw \cup fallback

(* The frontier is read when the graph is done; without an offer only the  *)
(* late seeding is tried.                                                  *)
advance_crawl_frontier_after_graph(w) ==
  LET view == get_crawl_state(worker[w].id) IN
  /\ worker[w].pc = "graph"
  /\ \E offered \in get_next_urls_to_crawl(view) :
       IF offered = {} THEN Goto(w, "late")
       ELSE \E e \in resolve_evidence(view, offered) :
              Set(w, [worker[w] EXCEPT !.pc = "visits", !.held = NoRow,
                                       !.todo = e.todo, !.fetch = e.fetch])
  /\ UNCHANGED <<crawl_state, site_crawl_state, desk, reseeds, failures, overlaps>>

(* One URL is visited.  The wrapper leaves a page that it may not or       *)
(* cannot open where it is; a page the HTTP client cannot fetch is marked  *)
(* visited all the same.                                                   *)
record_page_visit(w) ==
  LET view == get_crawl_state(worker[w].id) IN
  /\ worker[w].pc = "visits"
  /\ \E u \in worker[w].todo :
       LET rest == [worker EXCEPT ![w].todo = @ \ {u}] IN
       \/ /\ worker[w].fetch = "wrapper"
          /\ worker' = rest
       \/ \E fetched \in BOOLEAN :
            /\ worker[w].fetch = "wrapper" => fetched /\ url_passes_grounded_visit(view, u)
            /\ \E v \in Visited(view, u, fetched) :
                 worker' = [rest EXCEPT ![w].pc = "site_row", ![w].held = v, ![w].next = "check"]
  /\ UNCHANGED <<crawl_state, site_crawl_state, desk, reseeds, failures, overlaps>>

(* All visits are done: an exhausted frontier may still need seeding.      *)
VisitsDone(w) ==
  /\ worker[w].pc = "visits" /\ worker[w].todo = {}
  /\ IF get_crawl_state(worker[w].id).own.status = "exhausted" THEN Goto(w, "late")
     ELSE Set(w, Idle)
  /\ UNCHANGED <<crawl_state, site_crawl_state, desk, reseeds, failures, overlaps>>

(* _maybe_promote_to_inspiration_phase: the check, the seeding and the     *)
(* promotion each read the state again.                                    *)
CheckCoverage(w) ==
  LET view == get_crawl_state(worker[w].id) IN
  /\ worker[w].pc = "check"
  /\ IF view.phase = "identity_grounding" /\ internal_coverage_ready_for_inspiration(view)
     THEN Goto(w, "seed")
     ELSE Goto(w, "visits")
  /\ UNCHANGED <<crawl_state, site_crawl_state, desk, reseeds, failures, overlaps>>

seed_external_inspiration(w) ==
  /\ worker[w].pc = "seed"
  /\ \E v \in Seeded(get_crawl_state(worker[w].id), Inspiration) : Upsert(w, v, "promote")
  /\ UNCHANGED <<crawl_state, site_crawl_state, desk, reseeds, failures, overlaps>>

Promote(w) ==
  /\ worker[w].pc = "promote"
  /\ Upsert(w, [get_crawl_state(worker[w].id) EXCEPT !.phase = "inspiration_expansion"], "visits")
  /\ UNCHANGED <<crawl_state, site_crawl_state, desk, reseeds, failures, overlaps>>

(* _maybe_seed_external, with a list derived from the identity's themes or *)
(* the default one.                                                        *)
MaybeSeedExternal(w) ==
  LET view == get_crawl_state(worker[w].id) IN
  /\ worker[w].pc = "late"
  /\ IF view.phase = "inspiration_expansion" /\ view.own.external = {}
        /\ view.own.status = "exhausted"
     THEN \E urls \in (SUBSET Inspiration) \ {{}} : \E v \in Seeded(view, urls) : Upsert(w, v, "idle")
     ELSE Set(w, Idle)
  /\ UNCHANGED <<crawl_state, site_crawl_state, desk, reseeds, failures, overlaps>>

(* A write or a process fails between two steps.  What is written stays    *)
(* and nothing resumes it.                                                 *)
RunCutOff(w) ==
  /\ worker[w].pc # "idle"
  /\ failures < desk.failures /\ failures' = failures + 1
  /\ Set(w, Idle)
  /\ UNCHANGED <<crawl_state, site_crawl_state, desk, reseeds, overlaps>>

-----------------------------------------------------------------------------
LegacyRow(root) == [Fresh(root) EXCEPT !.key = None]

Init ==
  /\ \E root \in Roots :
       crawl_state = [i \in Identities |-> IF i \in Legacy THEN LegacyRow(root) ELSE NoRow]
  /\ site_crawl_state = [s \in Sites |-> NoSite]
  /\ worker = [w \in Workers |-> Idle]
  /\ desk \in Desks
  /\ reseeds = 0 /\ failures = 0 /\ overlaps = 0

Step(w) ==
  \/ upsert_site_crawl_state(w) \/ upsert_crawl_state(w)
  \/ ensure_site_backing_for_identity(w) \/ get_or_create_crawl_state(w)
  \/ advance_crawl_frontier_after_graph(w) \/ record_page_visit(w) \/ VisitsDone(w)
  \/ CheckCoverage(w) \/ seed_external_inspiration(w) \/ Promote(w)
  \/ MaybeSeedExternal(w)

Next ==
  \E w \in Workers :
    \/ Step(w)
    \/ \E i \in Identities, root \in Roots : BeginRun(w, i, root)
    \/ RunCutOff(w)

Spec == Init /\ [][Next]_vars

(* A busy worker goes on, and the loop of each identity keeps starting     *)
(* runs.                                                                   *)
Fairness ==
  /\ \A w \in Workers : WF_vars(Step(w))
  /\ \A i \in Identities : SF_vars(\E w \in Workers, root \in Roots : BeginRun(w, i, root))

FairSpec == Spec /\ Fairness

-----------------------------------------------------------------------------
(* Properties.  Those that begin with Alone are about runs that do not      *)
(* overlap; runs that do lose each other's rows.                           *)

Alone == desk.overlaps = 0

(* The rows and what the workers hold are of their types.                  *)
TypeOK ==
  /\ crawl_state \in [Identities -> IdentityRow \cup {NoRow}]
  /\ site_crawl_state \in [Sites -> FrontierType \cup {NoSite}]
  /\ worker \in [Workers -> WorkerType]
  /\ desk \in Desks
  /\ reseeds \in 0..desk.reseeds /\ failures \in 0..desk.failures
  /\ overlaps \in 0..desk.overlaps

(* However workers interleave, no URL is both done and still to do: each   *)
(* row that record_page_visit writes moves its URL from one list to the    *)
(* other, drops links it already has, and is written whole.                *)
FrontierDisjoint ==
  \A s \in Sites :
    site_crawl_state[s] # NoSite =>
      ToSet(site_crawl_state[s].visited) \cap site_crawl_state[s].unvisited = {}

(* The crawl leaves the site only for pages that were seeded: whatever     *)
(* pages link to and runs name, a visited page of another host is one of   *)
(* external_inspiration_urls (filter_frontier_candidate_urls, the offer    *)
(* and resolve_evidence together).                                         *)
OutsideWasSeeded ==
  Alone =>
    \A s \in Sites : site_crawl_state[s] # NoSite =>
      \A u \in ToSet(site_crawl_state[s].visited) :
        SiteOf[u] # s => u \in site_crawl_state[s].external

(* A site's memory is durable: from one write to the next a URL is         *)
(* forgotten only when an identity starts over with another root, when an  *)
(* old row is migrated, or as the oldest visit of a full list.             *)
Forgets(s) ==
  /\ site_crawl_state[s] # NoSite
  /\ \E u \in Known(site_crawl_state[s]) \ Known(site_crawl_state'[s]) :
       /\ \A w \in Workers :
            worker[w].pc = "site_row" =>
              worker[w].next # "load" /\ (worker[w].next = "graph" => crawl_state[worker[w].id] = NoRow)
       /\ ~(/\ Len(site_crawl_state[s].visited) = MaxVisited
            /\ u = Head(site_crawl_state[s].visited))

MemoryIsKept == [][Alone => \A s \in Sites : ~Forgets(s)]_vars

(* An identity reaches the inspiration phase only with its own site        *)
(* covered and inspiration to visit, although the check, the seeding and   *)
(* the promotion are three reads and four writes; and it leaves the phase  *)
(* only for another root.                                                  *)
PhaseIsEarned ==
  [][Alone =>
       \A i \in Identities :
         crawl_state[i] # NoRow /\ crawl_state'[i] # crawl_state[i] =>
           IF crawl_state'[i].phase = "inspiration_expansion"
           THEN crawl_state[i].phase = "identity_grounding" =>
                  /\ internal_coverage_ready_for_inspiration(get_crawl_state(i))
                  /\ get_crawl_state(i).own.external # {}
           ELSE crawl_state[i].phase = "inspiration_expansion" =>
                  crawl_state'[i].root # crawl_state[i].root]_vars

NothingLeft(i) ==
  crawl_state[i] # NoRow /\ get_next_urls_to_crawl(get_crawl_state(i)) = {{}}

(* The pages of a site, and those that inspire, are one more than its list *)
(* of visits at most: what a visit trims off is still in the list when the *)
(* links of that visit are looked at.                                      *)
FitsTheList ==
  \A s \in Sites :
    Cardinality({u \in Urls : SiteOf[u] = s} \cup Inspiration) <= MaxVisited + 1

(* "frontier_fallback guarantees progress" (advance_crawl_frontier_after_  *)
(* graph): without the browser wrapper, an identity whose runs go on runs  *)
(* out of pages to visit, whether pages can be fetched or not.  Not on a   *)
(* site of more pages than the list holds: what is trimmed from the list   *)
(* is discovered again, and visited again, for ever.                       *)
FrontierDrains ==
  FitsTheList /\ ~desk.wrapper => <>[](\A i \in Identities : NothingLeft(i))
=============================================================================
