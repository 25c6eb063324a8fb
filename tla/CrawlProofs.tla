----------------------------- MODULE CrawlProofs ----------------------------
(***************************************************************************)
(* Proofs about Crawl for every site graph, every set of identities and    *)
(* workers, and every limit.                                               *)
(***************************************************************************)
EXTENDS Crawl, SequenceTheorems, TLAPS

-----------------------------------------------------------------------------
(* Rows and views.                                                         *)

Linked(i) == crawl_state[i] # NoRow /\ crawl_state[i].key # None

Disjoint(f) == ToSet(f.visited) \cap f.unvisited = {}

(* Of another site only what was seeded is visited.                        *)
FromSeeds(f, s) == \A u \in ToSet(f.visited) : SiteOf[u] # s => u \in f.external

(* All that f knows g knows, or it was the oldest of a full list.          *)
Keeps(f, g) ==
  \A u \in Known(f) \ Known(g) : Len(f.visited) = MaxVisited /\ u = Head(f.visited)

(* No marker is taken for a row.                                           *)
LEMMA MarkersAreNoRows == NoRow \notin IdentityRow /\ NoSite \notin FrontierType
<1>1. \A r \in IdentityRow : DOMAIN r = {"root", "key", "phase", "own"}
  BY DEF IdentityRow
<1>2. DOMAIN NoRow = {"root"}
  BY DEF NoRow
<1>3. \A f \in FrontierType : DOMAIN f = {"visited", "unvisited", "pages", "strong", "status", "external"}
  BY DEF FrontierType
<1>4. DOMAIN NoSite = {"status"}
  BY DEF NoSite
<1>5. QED
  BY <1>1, <1>2, <1>3, <1>4

(* The fields of a frontier.                                               *)
LEMMA FrontierFields ==
  ASSUME NEW f \in FrontierType
  PROVE  /\ f.visited \in Seq(Urls) /\ Len(f.visited) <= MaxVisited /\ IsInjective(f.visited)
         /\ f.unvisited \subseteq Urls /\ f.pages \subseteq Urls /\ f.strong \subseteq Urls
         /\ f.status \in {"in_progress", "exhausted"} /\ f.external \subseteq Urls
<1>1. f.visited \in UNION {[1..n -> Urls] : n \in 0..MaxVisited} /\ IsInjective(f.visited)
  BY DEF FrontierType
<1>2. PICK n \in 0..MaxVisited : f.visited \in [1..n -> Urls]
  BY <1>1
<1>3. n \in Nat /\ n <= MaxVisited
  BY <1>2, CrawlConstantsAssumption
<1>4. f.visited \in Seq(Urls) /\ Len(f.visited) = n
  <2>1. f.visited \in Seq(Urls)
    BY <1>2, <1>3, SeqDef
  <2>2. 1..n = 1..Len(f.visited) /\ Len(f.visited) \in Nat
    BY <1>2, <2>1, LenProperties
  <2>3. QED
    BY <1>3, <2>1, <2>2
<1>5. QED
  BY <1>1, <1>3, <1>4 DEF FrontierType

LEMMA FrontierFromFields ==
  ASSUME NEW visited \in Seq(Urls), Len(visited) <= MaxVisited, IsInjective(visited),
         NEW unvisited \in SUBSET Urls, NEW pages \in SUBSET Urls, NEW strong \in SUBSET Urls,
         NEW status \in {"in_progress", "exhausted"}, NEW external \in SUBSET Urls
  PROVE  [visited |-> visited, unvisited |-> unvisited, pages |-> pages, strong |-> strong,
          status |-> status, external |-> external] \in FrontierType
<1>1. Len(visited) \in 0..MaxVisited /\ visited \in [1..Len(visited) -> Urls]
  BY LenProperties, CrawlConstantsAssumption
<1>2. visited \in UNION {[1..n -> Urls] : n \in 0..MaxVisited}
  BY <1>1
<1>3. QED
  BY <1>2 DEF FrontierType

(* The last n of a sequence are some of its elements, in the same order;   *)
(* of one more than n only the first is missing.                           *)
LEMMA LastOfProperties ==
  ASSUME NEW q \in Seq(Urls), NEW n \in Nat \ {0}, Len(q) <= n + 1
  PROVE  /\ LastOf(q, n) \in Seq(Urls) /\ Len(LastOf(q, n)) <= n
         /\ q # <<>> => LastOf(q, n) # <<>>
         /\ ToSet(LastOf(q, n)) \subseteq ToSet(q)
         /\ IsInjective(q) => IsInjective(LastOf(q, n))
         /\ \A x \in ToSet(q) : x \in ToSet(LastOf(q, n)) \/ (Len(q) = n + 1 /\ x = q[1])
<1> DEFINE s == SubSeq(q, 2, Len(q))
<1>1. CASE Len(q) <= n
  <2>1. LastOf(q, n) = q
    BY <1>1, LenProperties DEF LastOf
  <2>2. QED
    BY <1>1, <2>1
<1>2. CASE Len(q) = n + 1
  <2>1. LastOf(q, n) = s
    BY <1>2, LenProperties DEF LastOf
  <2>2. s \in Seq(Urls) /\ Len(s) = n /\ \A i \in 1..n : s[i] = q[i + 1]
    BY <1>2, SubSeqProperties, LenProperties
  <2>3. DOMAIN s = 1..n /\ DOMAIN q = 1..n + 1
    BY <1>2, <2>2, LenProperties
  <2>4. ToSet(s) \subseteq ToSet(q)
    BY <2>2, <2>3 DEF ToSet
  <2>5. IsInjective(q) => IsInjective(s)
    BY <2>2, <2>3 DEF IsInjective
  <2>6. ASSUME NEW i \in 1..n + 1, i # 1
        PROVE  q[i] \in ToSet(s)
    <3>1. i - 1 \in 1..n /\ s[i - 1] = q[i]
      BY <2>2, <2>6
    <3>2. QED
      BY <3>1, <2>3 DEF ToSet
  <2>7. \A x \in ToSet(q) : x \in ToSet(s) \/ x = q[1]
    BY <2>3, <2>6 DEF ToSet
  <2>8. s # <<>>
    BY <2>2
  <2>9. QED
    BY <1>2, <2>1, <2>2, <2>4, <2>5, <2>7, <2>8
<1>3. QED
  BY <1>1, <1>2, LenProperties
-----------------------------------------------------------------------------
(* The invariant.                                                          *)

Reading  == {"graph", "visits", "check", "seed", "promote", "late"}
Writing  == {"site_row", "identity_row"}
Advances == {"check", "promote", "visits"}

(* The frontier of an identity that names a site is that site's; an old    *)
(* row has its root to visit and nothing visited.                          *)
RowsOK ==
  \A i \in Identities : crawl_state[i] # NoRow =>
    LET row == crawl_state[i] IN
    IF row.key = None THEN row.own.visited = <<>> /\ row.own.unvisited # {}
    ELSE row.key = SiteOf[row.root] /\ site_crawl_state[row.key] # NoSite

(* The steps after the migration find the site's row, and write rows of    *)
(* the site that the root is on.                                           *)
WorkerOK(w) ==
  LET k == worker[w] IN
  /\ k.pc # "idle" => k.id \in Identities /\ k.root \in Roots
  /\ k.pc = "load" => crawl_state[k.id] = NoRow \/ Linked(k.id)
  /\ k.pc \in Reading => Linked(k.id)
  /\ k.pc \in Writing => k.held \in IdentityRow /\ k.held.key = SiteOf[k.held.root]
  /\ k.pc = "site_row" => Disjoint(k.held.own)
  /\ k.pc = "identity_row" => site_crawl_state[k.held.key] # NoSite

LinksOK ==
  /\ RowsOK /\ FrontierDisjoint
  /\ \A w \in Workers : WorkerOK(w)

(* A worker that marks the pages of one batch.                             *)
Advancing(w) ==
  \/ worker[w].pc \in {"visits", "check", "seed", "promote"}
  \/ worker[w].pc \in Writing /\ worker[w].next \in Advances

(* What a worker is about to visit is of its site or was seeded there, and *)
(* the row it is about to write is made from the one that is there.        *)
AloneWorkerOK(w) ==
  LET k   == worker[w]
      key == crawl_state[k.id].key
  IN
  /\ Advancing(w) =>
       /\ Linked(k.id)
       /\ \A u \in k.todo : SiteOf[u] # key => u \in site_crawl_state[key].external
       /\ k.pc \in Writing => k.held.key = key
       /\ k.pc = "site_row" => site_crawl_state[key].external \subseteq k.held.own.external
  /\ k.pc = "site_row" =>
       /\ FromSeeds(k.held.own, k.held.key)
       /\ k.next = "graph" /\ crawl_state[k.id] = NoRow => site_crawl_state[k.held.key] = NoSite
       /\ k.next \in Advances \cup {"idle"} =>
            site_crawl_state[k.held.key] # NoSite /\ Keeps(site_crawl_state[k.held.key], k.held.own)

AloneOK ==
  Alone =>
    /\ \A w, x \in Busy : w = x
    /\ \A s \in Sites : site_crawl_state[s] # NoSite => FromSeeds(site_crawl_state[s], s)
    /\ \A w \in Workers : AloneWorkerOK(w)

IInv == TypeOK /\ LinksOK /\ AloneOK
(* The view of an identity that names a site: its row, with the frontier   *)
(* of the site.                                                            *)
LEMMA ViewOfLinked ==
  ASSUME TypeOK, RowsOK, NEW i \in Identities, Linked(i)
  PROVE  LET v   == get_crawl_state(i)
             row == crawl_state[i]
         IN /\ v \in IdentityRow /\ v # NoRow
            /\ v.root = row.root /\ v.key = row.key /\ v.phase = row.phase
            /\ v.own = site_crawl_state[row.key] /\ v.own \in FrontierType
            /\ row.key \in Sites /\ row.key = SiteOf[row.root]
<1> DEFINE row == crawl_state[i]
           v   == get_crawl_state(i)
<1>1. row \in IdentityRow /\ row # NoRow /\ row.key # None
  BY DEF TypeOK, Linked
<1>2. row.key \in Sites /\ row.key = SiteOf[row.root] /\ site_crawl_state[row.key] # NoSite
  BY <1>1 DEF RowsOK, IdentityRow
<1>3. site_crawl_state[row.key] \in FrontierType
  BY <1>2 DEF TypeOK
<1>4. v = [row EXCEPT !.own = site_crawl_state[row.key]]
  BY <1>1, <1>2 DEF get_crawl_state, merge_identity_with_site
<1>5. /\ v \in IdentityRow /\ v.root = row.root /\ v.key = row.key /\ v.phase = row.phase
      /\ v.own = site_crawl_state[row.key]
  BY <1>1, <1>3, <1>4 DEF IdentityRow
<1>6. QED
  BY <1>2, <1>3, <1>5, MarkersAreNoRows

LEMMA ViewOfNone ==
  ASSUME NEW i, crawl_state[i] = NoRow
  PROVE  get_crawl_state(i) = NoRow
  BY DEF get_crawl_state

(* A first row.                                                            *)
LEMMA FreshRow ==
  ASSUME NEW root \in Roots
  PROVE  /\ Fresh(root) \in IdentityRow /\ Link(root) \in IdentityRow
         /\ Fresh(root).root = root /\ Link(root).root = root
         /\ Fresh(root).key = SiteOf[root] /\ Link(root).key = SiteOf[root]
         /\ Fresh(root).own.visited = <<>> /\ Fresh(root).own.unvisited = {root}
         /\ ~HasFrontier(Link(root).own) /\ SiteOf[root] \in Sites
<1>1. root \in Urls /\ SiteOf[root] \in Sites
  BY CrawlConstantsAssumption
<1>2. <<>> \in Seq(Urls) /\ Len(<<>>) <= MaxVisited /\ IsInjective(<<>>)
  BY EmptySeq, CrawlConstantsAssumption DEF IsInjective
<1>3. /\ [visited |-> <<>>, unvisited |-> {root}, pages |-> {}, strong |-> {},
          status |-> "in_progress", external |-> {}] \in FrontierType
      /\ [visited |-> <<>>, unvisited |-> {}, pages |-> {}, strong |-> {},
          status |-> "in_progress", external |-> {}] \in FrontierType
  BY <1>1, <1>2, FrontierFromFields
<1>4. QED
  BY <1>1, <1>3 DEF Fresh, Link, Blank, IdentityRow, Phases, HasFrontier

(* Recording a visit keeps the two lists apart and what was known known;   *)
(* of the URLs only the visited one is new to the visited list.            *)
LEMMA VisitedProperties ==
  ASSUME NEW v \in IdentityRow, NEW u \in Urls, NEW fetched \in BOOLEAN,
         NEW x \in Visited(v, u, fetched)
  PROVE  /\ x \in IdentityRow
         /\ x.root = v.root /\ x.key = v.key /\ x.phase = v.phase
         /\ x.own.external = v.own.external
         /\ ToSet(x.own.visited) \subseteq ToSet(v.own.visited) \cup {u}
         /\ HasFrontier(x.own)
         /\ Disjoint(v.own) => Disjoint(x.own)
         /\ Keeps(v.own, x.own)
<1> DEFINE old       == v.own.visited
           visited   == IF u \in ToSet(old) THEN old ELSE Append(old, u)
           unvisited == v.own.unvisited \ {u}
           new       == IF fetched THEN Discovered(v, u, ToSet(visited)) ELSE {}
           kept      == Cardinality(v.own.pages) < MaxSummaries
           pages     == IF kept THEN v.own.pages \cup {u} ELSE v.own.pages
           strong    == IF ~kept THEN v.own.strong
                        ELSE IF fetched /\ u \in Rich THEN v.own.strong \cup {u}
                        ELSE v.own.strong \ {u}
           last      == LastOf(visited, MaxVisited)
<1>1. PICK found \in SUBSET new :
        x = [v EXCEPT !.own =
              [visited |-> last, unvisited |-> unvisited \cup found, pages |-> pages,
               strong |-> strong,
               status |-> IF unvisited \cup found = {} THEN "exhausted" ELSE v.own.status,
               external |-> v.own.external]]
  BY DEF Visited, Some
<1>2. v.own \in FrontierType
  BY DEF IdentityRow
<1>3. /\ old \in Seq(Urls) /\ Len(old) <= MaxVisited /\ IsInjective(old) /\ Len(old) \in Nat
      /\ DOMAIN old = 1..Len(old)
  BY <1>2, FrontierFields, LenProperties
<1>4. u \notin ToSet(old) =>
        /\ Append(old, u) \in Seq(Urls) /\ Len(Append(old, u)) = Len(old) + 1
        /\ \A i \in 1..Len(old) : Append(old, u)[i] = old[i]
        /\ Append(old, u)[Len(old) + 1] = u
        /\ DOMAIN Append(old, u) = 1..Len(old) + 1
  BY <1>3, AppendProperties, LenProperties
<1>5. /\ visited \in Seq(Urls) /\ Len(visited) <= MaxVisited + 1 /\ visited # <<>>
      /\ ToSet(visited) = ToSet(old) \cup {u}
      /\ Len(visited) = MaxVisited + 1 => Len(old) = MaxVisited /\ visited[1] = Head(old)
      /\ IsInjective(visited)
  <2>1. CASE u \in ToSet(old)
    <3>1. old # <<>>
      BY <2>1, <1>3 DEF ToSet
    <3>2. QED
      BY <2>1, <3>1, <1>3, CrawlConstantsAssumption
  <2>2. CASE u \notin ToSet(old)
    <3>1. ToSet(Append(old, u)) = ToSet(old) \cup {u}
      <4>1. \A i \in 1..Len(old) : old[i] \in ToSet(Append(old, u))
        BY <2>2, <1>3, <1>4 DEF ToSet
      <4>2. u \in ToSet(Append(old, u))
        BY <2>2, <1>3, <1>4 DEF ToSet
      <4>3. QED
        BY <2>2, <1>3, <1>4, <4>1, <4>2 DEF ToSet
    <3>2. IsInjective(Append(old, u))
      BY <2>2, <1>3, <1>4 DEF IsInjective, ToSet
    <3>3. Append(old, u) # <<>>
      BY <2>2, <1>3, <1>4
    <3>4. Len(old) = MaxVisited => Head(old) = Append(old, u)[1]
      BY <2>2, <1>3, <1>4, CrawlConstantsAssumption
    <3>5. QED
      BY <2>2, <1>3, <1>4, <3>1, <3>2, <3>3, <3>4, CrawlConstantsAssumption
  <2>3. QED
    BY <2>1, <2>2
<1> HIDE DEF visited
<1>6. /\ last \in Seq(Urls) /\ Len(last) <= MaxVisited /\ last # <<>> /\ IsInjective(last)
      /\ ToSet(last) \subseteq ToSet(old) \cup {u}
      /\ \A y \in ToSet(old) \cup {u} :
            y \in ToSet(last) \/ (Len(old) = MaxVisited /\ y = Head(old))
  BY <1>5, LastOfProperties, CrawlConstantsAssumption
<1>7. /\ new \subseteq Urls /\ new \cap ToSet(visited) = {}
  <2>1. new \subseteq Links[u] \ ToSet(visited)
    BY DEF Discovered
  <2>2. QED
    BY <2>1, CrawlConstantsAssumption
<1>8. /\ v.own.unvisited \subseteq Urls /\ v.own.pages \subseteq Urls
      /\ v.own.strong \subseteq Urls /\ v.own.external \subseteq Urls
      /\ v.own.status \in {"in_progress", "exhausted"}
  BY <1>2, FrontierFields
<1> HIDE DEF last, new, kept
<1>9. x.own \in FrontierType
  <2> DEFINE left   == unvisited \cup found
             status == IF left = {} THEN "exhausted" ELSE v.own.status
  <2>1. left \in SUBSET Urls /\ pages \in SUBSET Urls /\ strong \in SUBSET Urls
    BY <1>7, <1>8
  <2>2. status \in {"in_progress", "exhausted"} /\ v.own.external \in SUBSET Urls
    BY <1>8
  <2>3. x.own = [visited |-> last, unvisited |-> left, pages |-> pages, strong |-> strong,
                 status |-> status, external |-> v.own.external]
    BY <1>1 DEF IdentityRow
  <2> HIDE DEF left, status, pages, strong
  <2>4. [visited |-> last, unvisited |-> left, pages |-> pages, strong |-> strong,
         status |-> status, external |-> v.own.external] \in FrontierType
    BY <2>1, <2>2, <1>6, FrontierFromFields
  <2>5. QED
    BY <2>3, <2>4
<1>10. /\ x \in IdentityRow /\ x.root = v.root /\ x.key = v.key /\ x.phase = v.phase
       /\ x.own.visited = last /\ x.own.unvisited = unvisited \cup found
       /\ x.own.external = v.own.external
  BY <1>1, <1>9 DEF IdentityRow
<1>11. Disjoint(v.own) => Disjoint(x.own)
  BY <1>5, <1>6, <1>7, <1>10 DEF Disjoint
<1>12. Keeps(v.own, x.own)
  BY <1>6, <1>10 DEF Keeps, Known
<1>13. QED
  BY <1>6, <1>10, <1>11, <1>12 DEF HasFrontier

(* Seeding adds external pages and nothing else.                           *)
LEMMA SeededProperties ==
  ASSUME NEW v \in IdentityRow, NEW urls \in SUBSET Urls, NEW x \in Seeded(v, urls)
  PROVE  /\ x \in IdentityRow
         /\ x.root = v.root /\ x.key = v.key /\ x.phase = v.phase
         /\ v.own.external \subseteq x.own.external
         /\ x.own.visited = v.own.visited /\ x.own.unvisited = v.own.unvisited
<1>1. PICK new \in SUBSET urls : x = [v EXCEPT !.own.external = @ \cup new]
  BY DEF Seeded, Some
<1>2. v.own \in FrontierType
  BY DEF IdentityRow
<1>3. [v.own EXCEPT !.external = @ \cup new] \in FrontierType
  BY <1>2 DEF FrontierType
<1>4. x = [v EXCEPT !.own = [v.own EXCEPT !.external = @ \cup new]]
  BY <1>1 DEF IdentityRow
<1>5. QED
  BY <1>2, <1>3, <1>4 DEF IdentityRow, FrontierType
-----------------------------------------------------------------------------
(* Types and links.                                                        *)

(* What the helpers of the steps make of a worker.                         *)
LEMMA WorkerSteps ==
  ASSUME TypeOK, NEW w \in Workers
  PROVE  /\ Idle \in WorkerType /\ worker[w] \in WorkerType
         /\ \A step \in Steps : Goto(w, step) =>
              /\ worker' = [worker EXCEPT ![w] = worker'[w]] /\ worker'[w] \in WorkerType
              /\ worker'[w].pc = step /\ worker'[w].id = worker[w].id
              /\ worker'[w].root = worker[w].root /\ worker'[w].todo = worker[w].todo
         /\ \A v \in IdentityRow, next \in Continuations : Upsert(w, v, next) =>
              /\ worker' = [worker EXCEPT ![w] = worker'[w]] /\ worker'[w] \in WorkerType
              /\ worker'[w].pc = IF v.key # None /\ HasFrontier(v.own) THEN "site_row"
                                 ELSE "identity_row"
              /\ worker'[w].id = worker[w].id /\ worker'[w].root = worker[w].root
              /\ worker'[w].held = v /\ worker'[w].next = next
              /\ worker'[w].todo = worker[w].todo
<1>1. worker[w] \in WorkerType /\ worker \in [Workers -> WorkerType]
  BY DEF TypeOK
<1>2. Idle \in WorkerType
  BY DEF Idle, WorkerType, Steps, Continuations
<1>3. ASSUME NEW step \in Steps, Goto(w, step)
      PROVE  /\ worker' = [worker EXCEPT ![w] = worker'[w]] /\ worker'[w] \in WorkerType
             /\ worker'[w].pc = step /\ worker'[w].id = worker[w].id
             /\ worker'[w].root = worker[w].root /\ worker'[w].todo = worker[w].todo
  BY <1>1, <1>3 DEF Goto, Set, WorkerType
<1>4. ASSUME NEW v \in IdentityRow, NEW next \in Continuations, Upsert(w, v, next)
      PROVE  /\ worker' = [worker EXCEPT ![w] = worker'[w]] /\ worker'[w] \in WorkerType
              /\ worker'[w].pc = IF v.key # None /\ HasFrontier(v.own) THEN "site_row"
                                 ELSE "identity_row"
             /\ worker'[w].id = worker[w].id /\ worker'[w].root = worker[w].root
             /\ worker'[w].held = v /\ worker'[w].next = next
             /\ worker'[w].todo = worker[w].todo
  BY <1>1, <1>4 DEF Upsert, Set, WorkerType, Steps
<1>5. QED
  BY <1>1, <1>2, <1>3, <1>4

(* A step that only moves a worker, and leaves the rows alone.             *)
LEMMA WorkerMoves ==
  ASSUME TypeOK, LinksOK, NEW w \in Workers, NEW r \in WorkerType,
         worker' = [worker EXCEPT ![w] = r],
         UNCHANGED <<crawl_state, site_crawl_state, desk>>,
         reseeds' \in 0..desk.reseeds, failures' \in 0..desk.failures,
         overlaps' \in 0..desk.overlaps, WorkerOK(w)'
  PROVE  TypeOK' /\ LinksOK'
<1>1. TypeOK'
  BY DEF TypeOK
<1>2. RowsOK' /\ FrontierDisjoint'
  BY DEF LinksOK, RowsOK, FrontierDisjoint
<1>3. ASSUME NEW x \in Workers, x # w
      PROVE  WorkerOK(x)'
  <2>1. worker'[x] = worker[x]
    BY <1>3 DEF TypeOK
  <2>2. WorkerOK(x)
    BY DEF LinksOK
  <2>3. QED
    BY <2>1, <2>2 DEF WorkerOK, Linked
<1>4. QED
  BY <1>1, <1>2, <1>3 DEF LinksOK

(* A step that writes a row of an identity or of a site: the row names a   *)
(* site, and no row goes away.                                             *)
LEMMA WorkerWrites ==
  ASSUME TypeOK, LinksOK, NEW w \in Workers, NEW r \in WorkerType,
         worker' = [worker EXCEPT ![w] = r],
         UNCHANGED <<desk, reseeds, failures, overlaps>>,
         crawl_state' \in [Identities -> IdentityRow \cup {NoRow}],
         site_crawl_state' \in [Sites -> FrontierType \cup {NoSite}],
         \A i \in Identities : crawl_state'[i] = crawl_state[i] \/ Linked(i)',
         \A s \in Sites : site_crawl_state[s] # NoSite => site_crawl_state'[s] # NoSite,
         RowsOK', FrontierDisjoint', WorkerOK(w)'
  PROVE  TypeOK' /\ LinksOK'
<1>1. TypeOK'
  BY DEF TypeOK
<1>2. ASSUME NEW x \in Workers, x # w
      PROVE  WorkerOK(x)'
  <2>1. worker'[x] = worker[x]
    BY <1>2 DEF TypeOK
  <2>2. WorkerOK(x)
    BY DEF LinksOK
  <2>3. worker[x].pc \in Steps
    BY DEF TypeOK, WorkerType
  <2>4. CASE worker[x].pc = "idle"
    BY <2>1, <2>4 DEF WorkerOK, Reading, Writing
  <2>5. CASE worker[x].pc \in {"ensure", "load", "graph", "visits", "check", "seed", "promote", "late"}
    <3>1. worker[x].pc # "idle"
      BY <2>5
    <3>2. worker[x].id \in Identities
      BY <2>2, <3>1 DEF WorkerOK
    <3>3. \A i \in Identities : Linked(i) => crawl_state'[i] # NoRow /\ crawl_state'[i].key # None
      BY DEF Linked
    <3>4. QED
      BY <2>1, <2>2, <2>5, <3>2, <3>3 DEF WorkerOK, Reading, Writing, Linked
  <2>6. CASE worker[x].pc \in Writing
    <3>1. worker[x].held \in IdentityRow /\ worker[x].held.key = SiteOf[worker[x].held.root]
      BY <2>2, <2>6 DEF WorkerOK
    <3>2. worker[x].held.key \in Sites
      BY <3>1, CrawlConstantsAssumption DEF IdentityRow
    <3>3. QED
      BY <2>1, <2>2, <2>6, <3>1, <3>2 DEF WorkerOK, Reading, Writing
  <2>7. QED
    BY <2>3, <2>4, <2>5, <2>6 DEF Steps, Reading, Writing
<1>3. QED
  BY <1>1, <1>2 DEF LinksOK
(* The evidence names offered URLs only.                                   *)
LEMMA EvidenceOffered ==
  ASSUME NEW v, NEW offered, NEW e \in resolve_evidence(v, offered)
  PROVE  e.todo \subseteq offered /\ e.fetch \in {"http", "wrapper"}
  BY DEF resolve_evidence, Some

(* Every step of a worker keeps the types and the links.                   *)
LEMMA LinksStep ==
  ASSUME TypeOK, LinksOK, NEW w \in Workers, Step(w)
  PROVE  TypeOK' /\ LinksOK'
<1> DEFINE k    == worker[w]
           view == get_crawl_state(k.id)
<1> USE DEF Reading, Writing
<1>1. /\ k \in WorkerType /\ WorkerOK(w) /\ worker \in [Workers -> WorkerType]
      /\ RowsOK /\ FrontierDisjoint
      /\ reseeds \in 0..desk.reseeds /\ failures \in 0..desk.failures
      /\ overlaps \in 0..desk.overlaps
  BY DEF TypeOK, LinksOK
<1>2. k.pc # "idle" => k.id \in Identities /\ k.root \in Roots
  BY <1>1 DEF WorkerOK
<1>3. k.pc \in Reading =>
        /\ Linked(k.id) /\ view \in IdentityRow /\ view # NoRow
        /\ view.root = crawl_state[k.id].root /\ view.key = crawl_state[k.id].key
        /\ view.own = site_crawl_state[view.key] /\ view.key = SiteOf[view.root]
        /\ view.key \in Sites /\ Disjoint(view.own) /\ site_crawl_state[view.key] # NoSite
  <2> SUFFICES ASSUME k.pc \in Reading
               PROVE  /\ Linked(k.id) /\ view \in IdentityRow /\ view # NoRow
                      /\ view.root = crawl_state[k.id].root /\ view.key = crawl_state[k.id].key
                      /\ view.own = site_crawl_state[view.key] /\ view.key = SiteOf[view.root]
                      /\ view.key \in Sites /\ Disjoint(view.own)
                      /\ site_crawl_state[view.key] # NoSite
    OBVIOUS
  <2>1. Linked(k.id) /\ k.id \in Identities
    BY <1>1, <1>2 DEF WorkerOK
  <2>2. /\ view \in IdentityRow /\ view # NoRow
        /\ view.root = crawl_state[k.id].root /\ view.key = crawl_state[k.id].key
        /\ view.own = site_crawl_state[view.key] /\ view.key = SiteOf[view.root]
        /\ view.key \in Sites /\ view.own \in FrontierType
    BY <1>1, <2>1, ViewOfLinked
  <2>3. view.own # NoSite
    BY <2>2, MarkersAreNoRows
  <2>4. QED
    BY <1>1, <2>1, <2>2, <2>3 DEF FrontierDisjoint, Disjoint
<1>4. ASSUME NEW v \in IdentityRow, NEW next \in Continuations, Upsert(w, v, next),
             v.key = SiteOf[v.root], Disjoint(v.own),
             ~HasFrontier(v.own) => site_crawl_state[v.key] # NoSite,
             UNCHANGED <<crawl_state, site_crawl_state, desk, reseeds, failures, overlaps>>,
             k.pc # "idle"
      PROVE  TypeOK' /\ LinksOK'
  <2>1. v.key # None
    BY <1>4, CrawlConstantsAssumption DEF IdentityRow
  <2>2. /\ worker' = [worker EXCEPT ![w] = worker'[w]] /\ worker'[w] \in WorkerType
        /\ worker'[w].pc = IF HasFrontier(v.own) THEN "site_row" ELSE "identity_row"
        /\ worker'[w].id = k.id /\ worker'[w].root = k.root /\ worker'[w].held = v
    BY <1>4, <2>1, WorkerSteps
  <2>3. WorkerOK(w)'
    BY <1>2, <1>4, <2>2 DEF WorkerOK
  <2>4. QED
    BY <1>1, <1>4, <2>2, <2>3, WorkerMoves
<1>5. ASSUME NEW step \in Steps, Goto(w, step), step \notin Writing, k.pc # "idle",
             step = "load" => crawl_state[k.id] = NoRow \/ Linked(k.id),
             step \in Reading => Linked(k.id),
             UNCHANGED <<crawl_state, site_crawl_state, desk, reseeds, failures, overlaps>>
      PROVE  TypeOK' /\ LinksOK'
  <2>1. /\ worker' = [worker EXCEPT ![w] = worker'[w]] /\ worker'[w] \in WorkerType
        /\ worker'[w].pc = step /\ worker'[w].id = k.id /\ worker'[w].root = k.root
    BY <1>5, WorkerSteps
  <2>2. WorkerOK(w)'
    BY <1>2, <1>5, <2>1 DEF WorkerOK, Linked
  <2>3. QED
    BY <1>1, <1>5, <2>1, <2>2, WorkerMoves
<1>6. ASSUME Set(w, Idle),
             UNCHANGED <<crawl_state, site_crawl_state, desk, reseeds, failures, overlaps>>
      PROVE  TypeOK' /\ LinksOK'
  <2>1. worker' = [worker EXCEPT ![w] = Idle] /\ Idle \in WorkerType /\ worker'[w] = Idle
    BY <1>1, <1>6, WorkerSteps DEF Set
  <2>2. WorkerOK(w)'
    BY <2>1 DEF WorkerOK, Idle
  <2>3. QED
    BY <1>1, <1>6, <2>1, <2>2, WorkerMoves
<1>7. CASE upsert_site_crawl_state(w)
  <2> DEFINE v == k.held
  <2>1. v \in IdentityRow /\ v.key = SiteOf[v.root] /\ Disjoint(v.own) /\ v.key \in Sites
    BY <1>1, <1>7, CrawlConstantsAssumption DEF upsert_site_crawl_state, WorkerOK, IdentityRow
  <2>2. v.own \in FrontierType /\ v.own # NoSite
    BY <2>1, MarkersAreNoRows DEF IdentityRow
  <2>3. site_crawl_state' = [site_crawl_state EXCEPT ![v.key] = v.own]
    BY <1>7 DEF upsert_site_crawl_state
  <2>4. Blank \in FrontierType
    <3>1. <<>> \in Seq(Urls) /\ Len(<<>>) <= MaxVisited /\ IsInjective(<<>>)
      BY EmptySeq, CrawlConstantsAssumption DEF IsInjective
    <3>2. QED
      BY <3>1, FrontierFromFields DEF Blank
  <2>5. worker' = [worker EXCEPT ![w] = [k EXCEPT !.pc = "identity_row", !.held.own = Blank]]
    BY <1>7 DEF upsert_site_crawl_state, Set
  <2>6. [k EXCEPT !.pc = "identity_row", !.held.own = Blank]
          = [k EXCEPT !.pc = "identity_row", !.held = [v EXCEPT !.own = Blank]]
    BY <1>1 DEF WorkerType
  <2>7. [v EXCEPT !.own = Blank] \in IdentityRow /\ [v EXCEPT !.own = Blank].key = v.key
          /\ [v EXCEPT !.own = Blank].root = v.root
    BY <2>1, <2>4 DEF IdentityRow
  <2> DEFINE r == [k EXCEPT !.pc = "identity_row", !.held = [v EXCEPT !.own = Blank]]
  <2>8. /\ r \in WorkerType /\ r.pc = "identity_row" /\ r.id = k.id /\ r.root = k.root
        /\ r.held = [v EXCEPT !.own = Blank]
    BY <1>1, <2>7 DEF WorkerType, Steps
  <2> HIDE DEF r
  <2>9. worker' = [worker EXCEPT ![w] = r] /\ worker'[w] = r
    BY <1>1, <2>5, <2>6 DEF r
  <2>10. /\ site_crawl_state' \in [Sites -> FrontierType \cup {NoSite}]
         /\ site_crawl_state'[v.key] = v.own
         /\ \A s \in Sites : s # v.key => site_crawl_state'[s] = site_crawl_state[s]
         /\ \A s \in Sites : site_crawl_state[s] # NoSite => site_crawl_state'[s] # NoSite
    BY <2>1, <2>2, <2>3 DEF TypeOK
  <2>11. crawl_state' = crawl_state /\ UNCHANGED <<desk, reseeds, failures, overlaps>>
    BY <1>7 DEF upsert_site_crawl_state
  <2>12. RowsOK'
    <3> SUFFICES ASSUME NEW i \in Identities, crawl_state[i] # NoRow, crawl_state[i].key # None
                 PROVE  /\ crawl_state[i].key = SiteOf[crawl_state[i].root]
                        /\ site_crawl_state'[crawl_state[i].key] # NoSite
      BY <1>1, <2>11 DEF RowsOK
    <3>1. crawl_state[i].key \in Sites
      BY DEF TypeOK, IdentityRow
    <3>2. QED
      BY <1>1, <2>10, <3>1 DEF RowsOK
  <2>13. FrontierDisjoint'
    BY <1>1, <2>1, <2>10 DEF FrontierDisjoint, Disjoint
  <2>14. WorkerOK(w)'
    BY <1>2, <1>7, <2>1, <2>2, <2>7, <2>8, <2>9, <2>10 DEF WorkerOK, upsert_site_crawl_state
  <2>15. crawl_state' \in [Identities -> IdentityRow \cup {NoRow}]
    BY <2>11 DEF TypeOK
  <2>16. QED
    BY <2>8, <2>9, <2>10, <2>11, <2>12, <2>13, <2>14, <2>15, WorkerWrites
<1>8. CASE upsert_crawl_state(w)
  <2> DEFINE v == k.held
  <2>1. k.id \in Identities /\ k.pc = "identity_row"
    BY <1>2, <1>8 DEF upsert_crawl_state
  <2>2. /\ v \in IdentityRow /\ v # NoRow /\ v.key = SiteOf[v.root] /\ v.key # None
        /\ site_crawl_state[v.key] # NoSite
    BY <1>1, <2>1, MarkersAreNoRows, CrawlConstantsAssumption DEF WorkerOK, IdentityRow
  <2>3. /\ crawl_state' = [crawl_state EXCEPT ![k.id] = v]
        /\ UNCHANGED <<site_crawl_state, desk, reseeds, failures, overlaps>>
    BY <1>8 DEF upsert_crawl_state
  <2>4. /\ crawl_state' \in [Identities -> IdentityRow \cup {NoRow}]
        /\ crawl_state'[k.id] = v
        /\ \A i \in Identities : i # k.id => crawl_state'[i] = crawl_state[i]
    BY <2>1, <2>2, <2>3 DEF TypeOK
  <2>5. \A i \in Identities : crawl_state'[i] = crawl_state[i] \/ Linked(i)'
    BY <2>2, <2>4 DEF Linked
  <2>6. RowsOK'
    BY <1>1, <2>2, <2>3, <2>4 DEF RowsOK
  <2>7. FrontierDisjoint'
    BY <1>1, <2>3 DEF FrontierDisjoint
  <2>8. CASE k.next = "idle"
    <3>1. worker' = [worker EXCEPT ![w] = Idle] /\ Idle \in WorkerType /\ worker'[w] = Idle
      BY <1>1, <1>8, <2>8, WorkerSteps DEF upsert_crawl_state, Set
    <3>2. WorkerOK(w)'
      BY <3>1 DEF WorkerOK, Idle
    <3>3. \A s \in Sites : site_crawl_state[s] # NoSite => site_crawl_state'[s] # NoSite
      BY <2>3
    <3>4. site_crawl_state' \in [Sites -> FrontierType \cup {NoSite}]
      BY <2>3 DEF TypeOK
    <3>5. QED
      BY <2>3, <2>4, <2>5, <2>6, <2>7, <3>1, <3>2, <3>3, <3>4, WorkerWrites
  <2>9. CASE k.next # "idle"
    <3>1. k.next \in Continuations /\ k.next \in Steps
      BY <1>1 DEF WorkerType, Continuations, Steps
    <3>2. /\ worker' = [worker EXCEPT ![w] = worker'[w]] /\ worker'[w] \in WorkerType
          /\ worker'[w].pc = k.next /\ worker'[w].id = k.id /\ worker'[w].root = k.root
      BY <1>8, <2>9, <3>1, WorkerSteps DEF upsert_crawl_state
    <3>3. WorkerOK(w)'
      BY <1>2, <2>1, <2>2, <2>4, <2>9, <3>1, <3>2 DEF WorkerOK, Linked, Continuations
    <3>4. \A s \in Sites : site_crawl_state[s] # NoSite => site_crawl_state'[s] # NoSite
      BY <2>3
    <3>5. site_crawl_state' \in [Sites -> FrontierType \cup {NoSite}]
      BY <2>3 DEF TypeOK
    <3>6. QED
      BY <2>3, <2>4, <2>5, <2>6, <2>7, <3>2, <3>3, <3>4, <3>5, WorkerWrites
  <2>10. QED
    BY <2>8, <2>9
<1>9. CASE ensure_site_backing_for_identity(w)
  <2> DEFINE row == crawl_state[k.id]
             v   == [row EXCEPT !.key = SiteOf[row.root]]
  <2>1. /\ k.pc = "ensure" /\ k.id \in Identities
        /\ UNCHANGED <<crawl_state, site_crawl_state, desk, reseeds, failures, overlaps>>
    BY <1>2, <1>9 DEF ensure_site_backing_for_identity
  <2>2. CASE row = NoRow \/ row.key # None
    <3>1. Goto(w, "load")
      BY <1>9, <2>2 DEF ensure_site_backing_for_identity
    <3>2. QED
      BY <1>5, <2>1, <2>2, <3>1 DEF Steps, Linked
  <2>3. CASE row # NoRow /\ row.key = None
    <3>1. row \in IdentityRow /\ row.own.visited = <<>> /\ row.own.unvisited # {}
      BY <1>1, <2>1, <2>3 DEF TypeOK, RowsOK
    <3>2. HasFrontier(row.own)
      BY <3>1 DEF HasFrontier
    <3>3. Upsert(w, v, "load")
      BY <1>9, <2>3, <3>2 DEF ensure_site_backing_for_identity
    <3>4. v \in IdentityRow /\ v.key = SiteOf[v.root] /\ v.own = row.own
      BY <3>1, CrawlConstantsAssumption DEF IdentityRow
    <3>5. Disjoint(v.own)
      BY <3>1, <3>4, EmptySeq, LenProperties DEF Disjoint, ToSet
    <3>6. QED
      BY <1>4, <2>1, <3>2, <3>3, <3>4, <3>5 DEF Continuations
  <2>4. QED
    BY <2>2, <2>3
<1>10. CASE get_or_create_crawl_state(w)
  <2>1. /\ k.pc = "load" /\ k.id \in Identities /\ k.root \in Roots
        /\ UNCHANGED <<crawl_state, site_crawl_state, desk, reseeds, failures, overlaps>>
    BY <1>2, <1>10 DEF get_or_create_crawl_state
  <2>2. /\ Fresh(k.root) \in IdentityRow /\ Link(k.root) \in IdentityRow
        /\ Fresh(k.root).key = SiteOf[Fresh(k.root).root]
        /\ Link(k.root).key = SiteOf[Link(k.root).root]
        /\ Link(k.root).key = SiteOf[k.root]
        /\ Disjoint(Fresh(k.root).own) /\ HasFrontier(Fresh(k.root).own)
        /\ Disjoint(Link(k.root).own)
    <3>1. Link(k.root).own = Blank
      BY <2>1, CrawlConstantsAssumption DEF Link, Fresh
    <3>2. QED
      BY <2>1, <3>1, FreshRow, EmptySeq DEF Disjoint, ToSet, HasFrontier, Blank
  <2>3. ASSUME view # NoRow, Goto(w, "graph")
        PROVE  TypeOK' /\ LinksOK'
    <3>1. crawl_state[k.id] # NoRow
      BY <2>3, ViewOfNone
    <3>2. Linked(k.id)
      BY <1>1, <2>1, <3>1 DEF WorkerOK
    <3>3. QED
      BY <1>5, <2>1, <2>3, <3>2 DEF Steps
  <2>4. ASSUME Upsert(w, Fresh(k.root), "graph")
        PROVE  TypeOK' /\ LinksOK'
    BY <1>4, <2>1, <2>2, <2>4 DEF Continuations
  <2>5. ASSUME site_crawl_state[SiteOf[k.root]] # NoSite, Upsert(w, Link(k.root), "graph")
        PROVE  TypeOK' /\ LinksOK'
    BY <1>4, <2>1, <2>2, <2>5 DEF Continuations
  <2>6. QED
    BY <1>10, <2>3, <2>4, <2>5 DEF get_or_create_crawl_state
<1>11. CASE advance_crawl_frontier_after_graph(w)
  <2>1. /\ k.pc = "graph" /\ k.id \in Identities /\ Linked(k.id) /\ k.root \in Roots
        /\ UNCHANGED <<crawl_state, site_crawl_state, desk, reseeds, failures, overlaps>>
    BY <1>2, <1>3, <1>11 DEF advance_crawl_frontier_after_graph
  <2>2. CASE Goto(w, "late")
    BY <1>5, <2>1, <2>2 DEF Steps
  <2>3. ASSUME NEW offered \in get_next_urls_to_crawl(view), NEW e \in resolve_evidence(view, offered),
               Set(w, [worker[w] EXCEPT !.pc = "visits", !.held = NoRow,
                                        !.todo = e.todo, !.fetch = e.fetch])
        PROVE  TypeOK' /\ LinksOK'
    <3>1. offered \subseteq Urls
      <4>1. view.own \in FrontierType
        BY <1>3, <2>1 DEF IdentityRow
      <4>2. view.own.unvisited \subseteq Urls /\ view.own.external \subseteq Urls
        BY <4>1, FrontierFields
      <4>3. QED
        BY <4>2 DEF get_next_urls_to_crawl, Tops, Some
    <3>2. e.todo \subseteq offered /\ e.fetch \in {"http", "wrapper"}
      BY EvidenceOffered
    <3> DEFINE r == [k EXCEPT !.pc = "visits", !.held = NoRow, !.todo = e.todo, !.fetch = e.fetch]
    <3>3. r \in WorkerType /\ r.pc = "visits" /\ r.id = k.id /\ r.root = k.root
      BY <1>1, <3>1, <3>2 DEF WorkerType, Steps
    <3>4. worker' = [worker EXCEPT ![w] = r]
      BY <2>3 DEF Set
    <3> HIDE DEF r
    <3>5. worker'[w] = r
      BY <1>1, <3>4
    <3>6. WorkerOK(w)'
      BY <2>1, <3>3, <3>5 DEF WorkerOK, Linked
    <3>7. QED
      BY <1>1, <2>1, <3>3, <3>4, <3>6, WorkerMoves
  <2>4. QED
    BY <1>11, <2>2, <2>3 DEF advance_crawl_frontier_after_graph
<1>12. CASE record_page_visit(w)
  <2>1. /\ k.pc = "visits" /\ k.id \in Identities /\ Linked(k.id) /\ k.root \in Roots
        /\ UNCHANGED <<crawl_state, site_crawl_state, desk, reseeds, failures, overlaps>>
    BY <1>2, <1>3, <1>12 DEF record_page_visit
  <2>2. PICK u \in k.todo :
          LET rest == [worker EXCEPT ![w].todo = @ \ {u}] IN
          \/ worker' = rest
          \/ \E fetched \in BOOLEAN : \E v \in Visited(view, u, fetched) :
               worker' = [rest EXCEPT ![w].pc = "site_row", ![w].held = v, ![w].next = "check"]
    BY <1>12 DEF record_page_visit
  <2>3. u \in Urls
    BY <1>1 DEF WorkerType
  <2>4. CASE worker' = [worker EXCEPT ![w].todo = @ \ {u}]
    <3> DEFINE r == [k EXCEPT !.todo = @ \ {u}]
    <3>1. worker' = [worker EXCEPT ![w] = r]
      BY <2>4
    <3>2. r \in WorkerType /\ r.pc = "visits" /\ r.id = k.id /\ r.root = k.root
      BY <1>1, <2>1 DEF WorkerType
    <3> HIDE DEF r
    <3>3. worker'[w] = r
      BY <1>1, <3>1
    <3>4. WorkerOK(w)'
      BY <2>1, <3>2, <3>3 DEF WorkerOK, Linked
    <3>5. QED
      BY <1>1, <2>1, <3>1, <3>2, <3>4, WorkerMoves
  <2>5. ASSUME NEW fetched \in BOOLEAN, NEW v \in Visited(view, u, fetched),
               worker' = [[worker EXCEPT ![w].todo = @ \ {u}] EXCEPT
                            ![w].pc = "site_row", ![w].held = v, ![w].next = "check"]
        PROVE  TypeOK' /\ LinksOK'
    <3>1. /\ v \in IdentityRow /\ v.root = view.root /\ v.key = view.key
          /\ Disjoint(v.own)
      BY <1>3, <2>1, <2>3, <2>5, VisitedProperties
    <3> DEFINE r == [k EXCEPT !.todo = @ \ {u}, !.pc = "site_row", !.held = v, !.next = "check"]
    <3>2. worker' = [worker EXCEPT ![w] = r]
      BY <1>1, <2>5 DEF WorkerType
    <3>3. r \in WorkerType /\ r.pc = "site_row" /\ r.id = k.id /\ r.root = k.root /\ r.held = v
      BY <1>1, <3>1 DEF WorkerType, Steps, Continuations
    <3> HIDE DEF r
    <3>4. worker'[w] = r
      BY <1>1, <3>2
    <3>5. WorkerOK(w)'
      BY <1>3, <2>1, <3>1, <3>3, <3>4 DEF WorkerOK
    <3>6. QED
      BY <1>1, <2>1, <3>2, <3>3, <3>5, WorkerMoves
  <2>6. QED
    BY <2>2, <2>4, <2>5
<1>13. CASE VisitsDone(w)
  <2>1. /\ k.pc = "visits" /\ Linked(k.id)
        /\ UNCHANGED <<crawl_state, site_crawl_state, desk, reseeds, failures, overlaps>>
        /\ Goto(w, "late") \/ Set(w, Idle)
    BY <1>3, <1>13 DEF VisitsDone
  <2>2. QED
    BY <1>5, <1>6, <2>1 DEF Steps
<1>14. CASE CheckCoverage(w)
  <2>1. /\ k.pc = "check" /\ Linked(k.id)
        /\ UNCHANGED <<crawl_state, site_crawl_state, desk, reseeds, failures, overlaps>>
        /\ Goto(w, "seed") \/ Goto(w, "visits")
    BY <1>3, <1>14 DEF CheckCoverage
  <2>2. QED
    BY <1>5, <2>1 DEF Steps
<1>15. ASSUME k.pc \in {"seed", "late"}, NEW urls \in SUBSET Inspiration, NEW v \in Seeded(view, urls),
              NEW next \in Continuations, Upsert(w, v, next),
              UNCHANGED <<crawl_state, site_crawl_state, desk, reseeds, failures, overlaps>>
       PROVE  TypeOK' /\ LinksOK'
  <2>1. urls \in SUBSET Urls
    BY CrawlConstantsAssumption
  <2>2. /\ v \in IdentityRow /\ v.root = view.root /\ v.key = view.key
        /\ v.own.visited = view.own.visited /\ v.own.unvisited = view.own.unvisited
    BY <1>3, <1>15, <2>1, SeededProperties
  <2>3. Disjoint(v.own)
    BY <1>3, <1>15, <2>2 DEF Disjoint
  <2>4. QED
    BY <1>3, <1>4, <1>15, <2>2, <2>3
<1>16. CASE seed_external_inspiration(w)
  BY <1>15, <1>16 DEF seed_external_inspiration, Continuations
<1>17. CASE Promote(w)
  <2> DEFINE v == [view EXCEPT !.phase = "inspiration_expansion"]
  <2>1. v \in IdentityRow /\ v.root = view.root /\ v.key = view.key /\ v.own = view.own
    BY <1>3, <1>17 DEF Promote, IdentityRow, Phases
  <2>2. k.pc = "promote" /\ Upsert(w, v, "visits")
        /\ UNCHANGED <<crawl_state, site_crawl_state, desk, reseeds, failures, overlaps>>
    BY <1>17 DEF Promote
  <2> HIDE DEF v
  <2>3. QED
    BY <1>3, <1>4, <2>1, <2>2 DEF Continuations
<1>18. CASE MaybeSeedExternal(w)
  <2>1. /\ k.pc = "late"
        /\ UNCHANGED <<crawl_state, site_crawl_state, desk, reseeds, failures, overlaps>>
        /\ \/ Set(w, Idle)
           \/ \E urls \in SUBSET Inspiration : \E v \in Seeded(view, urls) : Upsert(w, v, "idle")
    BY <1>18 DEF MaybeSeedExternal
  <2>2. QED
    BY <1>6, <1>15, <2>1 DEF Continuations
<1>19. QED
  BY <1>7, <1>8, <1>9, <1>10, <1>11, <1>12, <1>13, <1>14, <1>16, <1>17, <1>18 DEF Step
(* So does a run that begins or is cut off.                                *)
LEMMA LinksBeginAndEnd ==
  ASSUME TypeOK, LinksOK, NEW w \in Workers,
         (\E i \in Identities, root \in Roots : BeginRun(w, i, root)) \/ RunCutOff(w)
  PROVE  TypeOK' /\ LinksOK'
<1>1. /\ desk \in DeskType
      /\ reseeds \in 0..desk.reseeds /\ failures \in 0..desk.failures
      /\ overlaps \in 0..desk.overlaps
      /\ worker \in [Workers -> WorkerType]
  BY DesksAssumption DEF TypeOK
<1>2. desk.reseeds \in Nat /\ desk.failures \in Nat /\ desk.overlaps \in Nat
  BY <1>1 DEF DeskType
<1>3. Idle \in WorkerType
  BY WorkerSteps
<1>4. ASSUME NEW i \in Identities, NEW root \in Roots, BeginRun(w, i, root)
      PROVE  TypeOK' /\ LinksOK'
  <2> DEFINE r == [Idle EXCEPT !.pc = "ensure", !.id = i, !.root = root]
  <2>1. r \in WorkerType /\ r.pc = "ensure" /\ r.id = i /\ r.root = root
    BY <1>3 DEF WorkerType, Steps
  <2>2. /\ worker' = [worker EXCEPT ![w] = r]
        /\ UNCHANGED <<crawl_state, site_crawl_state, desk, failures>>
    BY <1>4 DEF BeginRun, Set
  <2>3. overlaps' \in 0..desk.overlaps
    <3>1. overlaps' = overlaps \/ (overlaps < desk.overlaps /\ overlaps' = overlaps + 1)
      BY <1>4, Zenon DEF BeginRun
    <3>2. QED
      BY <1>1, <1>2, <3>1
  <2>4. reseeds' \in 0..desk.reseeds
    <3>1. reseeds' = reseeds \/ (reseeds < desk.reseeds /\ reseeds' = reseeds + 1)
      BY <1>4, Zenon DEF BeginRun
    <3>2. QED
      BY <1>1, <1>2, <3>1
  <2> HIDE DEF r
  <2>5. worker'[w] = r
    BY <1>1, <2>2
  <2>6. WorkerOK(w)'
    BY <2>1, <2>5 DEF WorkerOK, Reading, Writing
  <2>7. QED
    BY <1>1, <2>1, <2>2, <2>3, <2>4, <2>6, WorkerMoves
<1>5. CASE RunCutOff(w)
  <2>1. /\ worker' = [worker EXCEPT ![w] = Idle]
        /\ UNCHANGED <<crawl_state, site_crawl_state, desk, reseeds, overlaps>>
        /\ failures' \in 0..desk.failures
    BY <1>1, <1>2, <1>5 DEF RunCutOff, Set
  <2>2. worker'[w] = Idle
    BY <1>1, <2>1
  <2>3. WorkerOK(w)'
    BY <2>2 DEF WorkerOK, Reading, Writing, Idle
  <2>4. QED
    BY <1>1, <1>3, <2>1, <2>3, WorkerMoves
<1>6. QED
  BY <1>4, <1>5

LEMMA LinksNext == TypeOK /\ LinksOK /\ [Next]_vars => TypeOK' /\ LinksOK'
<1> SUFFICES ASSUME TypeOK, LinksOK, [Next]_vars
             PROVE  TypeOK' /\ LinksOK'
  OBVIOUS
<1>1. CASE Next
  BY <1>1, LinksStep, LinksBeginAndEnd DEF Next
<1>2. CASE UNCHANGED vars
  BY <1>2 DEF vars, TypeOK, LinksOK, RowsOK, FrontierDisjoint, WorkerOK, Linked
<1>3. QED
  BY <1>1, <1>2

LEMMA LinksInit == Init => TypeOK /\ LinksOK
<1> SUFFICES ASSUME Init
             PROVE  TypeOK /\ LinksOK
  OBVIOUS
<1>1. \A root \in Roots :
        /\ LegacyRow(root) \in IdentityRow /\ LegacyRow(root).key = None
        /\ LegacyRow(root).own.visited = <<>> /\ LegacyRow(root).own.unvisited # {}
  <2> SUFFICES ASSUME NEW root \in Roots
               PROVE  /\ LegacyRow(root) \in IdentityRow /\ LegacyRow(root).key = None
                      /\ LegacyRow(root).own.visited = <<>> /\ LegacyRow(root).own.unvisited # {}
    OBVIOUS
  <2>1. /\ Fresh(root) \in IdentityRow /\ Fresh(root).own.visited = <<>>
        /\ Fresh(root).own.unvisited = {root}
    BY FreshRow
  <2>2. QED
    BY <2>1 DEF LegacyRow, IdentityRow
<1>2. \A i \in Identities :
        /\ crawl_state[i] \in IdentityRow \cup {NoRow}
        /\ crawl_state[i] # NoRow =>
             /\ crawl_state[i].key = None /\ crawl_state[i].own.visited = <<>>
             /\ crawl_state[i].own.unvisited # {}
  BY <1>1 DEF Init
<1>3. crawl_state \in [Identities -> IdentityRow \cup {NoRow}]
  BY <1>1 DEF Init
<1>4. \A w \in Workers : worker[w] = Idle
  BY DEF Init
<1>5. Idle \in WorkerType
  BY DEF Idle, WorkerType, Steps, Continuations
<1>6. TypeOK
  <2>1. desk \in Desks /\ desk \in DeskType
    BY DesksAssumption DEF Init
  <2>2. QED
    BY <1>3, <1>5, <2>1 DEF Init, TypeOK, DeskType
<1>7. RowsOK
  BY <1>2 DEF RowsOK
<1>8. FrontierDisjoint
  BY DEF Init, FrontierDisjoint
<1>9. \A w \in Workers : WorkerOK(w)
  BY <1>4 DEF WorkerOK, Idle, Reading, Writing
<1>10. QED
  BY <1>6, <1>7, <1>8, <1>9 DEF LinksOK

(* The rows and what workers hold have their types, whatever runs overlap  *)
(* and wherever they are cut off (upsert_crawl_state,                      *)
(* advance_crawl_frontier_after_graph).                                    *)
THEOREM TypeCorrect == Spec => []TypeOK
<1>1. Spec => [](TypeOK /\ LinksOK)
  BY LinksInit, LinksNext, PTL DEF Spec
<1>2. QED
  BY <1>1, PTL

(* No URL of a site is both visited and still to visit, and every identity *)
(* that names a site finds its row, whatever runs overlap and wherever     *)
(* they are cut off.                                                       *)
THEOREM FrontiersStayDisjoint == Spec => [](FrontierDisjoint /\ RowsOK)
<1>1. Spec => [](TypeOK /\ LinksOK)
  BY LinksInit, LinksNext, PTL DEF Spec
<1>2. LinksOK => FrontierDisjoint /\ RowsOK
  BY DEF LinksOK
<1>3. QED
  BY <1>1, <1>2, PTL
-----------------------------------------------------------------------------
(* Runs that do not overlap.                                               *)

(* While one worker runs the others are idle, and what is said of the rows *)
(* and of that worker is all there is to say.                              *)
LEMMA AloneFrame ==
  ASSUME TypeOK, Alone, NEW w \in Workers, NEW r \in WorkerType,
         \A x \in Workers : x # w => worker[x].pc = "idle",
         worker' = [worker EXCEPT ![w] = r], desk' = desk,
         \A s \in Sites : site_crawl_state'[s] # NoSite => FromSeeds(site_crawl_state'[s], s),
         AloneWorkerOK(w)'
  PROVE  AloneOK'
<1>1. \A x \in Workers : x # w => worker'[x].pc = "idle"
  BY DEF TypeOK
<1>2. \A x, y \in Busy' : x = y
  BY <1>1 DEF Busy
<1>3. ASSUME NEW x \in Workers, x # w
      PROVE  AloneWorkerOK(x)'
  BY <1>1, <1>3 DEF AloneWorkerOK, Advancing, Writing
<1>4. \A s \in Sites : (site_crawl_state[s] # NoSite)' => FromSeeds(site_crawl_state[s], s)'
  BY DEF FromSeeds
<1>5. QED
  BY <1>2, <1>3, <1>4 DEF AloneOK

LEMMA AloneStep ==
  ASSUME TypeOK, LinksOK, AloneOK, Alone, NEW w \in Workers, Step(w), TypeOK'
  PROVE  AloneOK'
<1> DEFINE k    == worker[w]
           view == get_crawl_state(k.id)
<1> USE DEF Reading, Writing, Advances
<1>1. /\ k \in WorkerType /\ WorkerOK(w) /\ worker \in [Workers -> WorkerType] /\ RowsOK
      /\ worker' \in [Workers -> WorkerType]
      /\ AloneWorkerOK(w)
      /\ \A s \in Sites : site_crawl_state[s] # NoSite => FromSeeds(site_crawl_state[s], s)
  BY DEF TypeOK, LinksOK, AloneOK
<1>2. k.pc # "idle"
  BY DEF Step, upsert_site_crawl_state, upsert_crawl_state, ensure_site_backing_for_identity,
     get_or_create_crawl_state, advance_crawl_frontier_after_graph, record_page_visit, VisitsDone,
     CheckCoverage, seed_external_inspiration, Promote, MaybeSeedExternal
<1>3. \A x \in Workers : x # w => worker[x].pc = "idle"
  BY <1>2 DEF AloneOK, Busy
<1>4. k.id \in Identities /\ k.root \in Roots
  BY <1>1, <1>2 DEF WorkerOK
<1>5. k.pc \in Reading =>
        /\ Linked(k.id) /\ view \in IdentityRow /\ view # NoRow
        /\ view.root = crawl_state[k.id].root /\ view.key = crawl_state[k.id].key
        /\ view.own = site_crawl_state[view.key] /\ view.key = SiteOf[view.root]
        /\ view.key \in Sites /\ view.own \in FrontierType /\ FromSeeds(view.own, view.key)
        /\ site_crawl_state[view.key] # NoSite
  <2> SUFFICES ASSUME k.pc \in Reading
               PROVE  /\ Linked(k.id) /\ view \in IdentityRow /\ view # NoRow
                      /\ view.root = crawl_state[k.id].root /\ view.key = crawl_state[k.id].key
                      /\ view.own = site_crawl_state[view.key] /\ view.key = SiteOf[view.root]
                      /\ view.key \in Sites /\ view.own \in FrontierType
                      /\ FromSeeds(view.own, view.key) /\ site_crawl_state[view.key] # NoSite
    OBVIOUS
  <2>1. Linked(k.id)
    BY <1>1 DEF WorkerOK
  <2>2. /\ view \in IdentityRow /\ view # NoRow
        /\ view.root = crawl_state[k.id].root /\ view.key = crawl_state[k.id].key
        /\ view.own = site_crawl_state[view.key] /\ view.key = SiteOf[view.root]
        /\ view.key \in Sites /\ view.own \in FrontierType
    BY <1>1, <1>4, <2>1, ViewOfLinked
  <2>3. view.own # NoSite
    BY <2>2, MarkersAreNoRows
  <2>4. QED
    BY <1>1, <2>1, <2>2, <2>3
<1>6. ASSUME worker' = [worker EXCEPT ![w] = worker'[w]], worker'[w] \in WorkerType,
             UNCHANGED <<crawl_state, site_crawl_state, desk>>, AloneWorkerOK(w)'
      PROVE  AloneOK'
  <2>1. \A s \in Sites : site_crawl_state'[s] # NoSite => FromSeeds(site_crawl_state'[s], s)
    BY <1>1, <1>6
  <2> DEFINE r == worker'[w]
  <2>2. r \in WorkerType /\ worker' = [worker EXCEPT ![w] = r]
    BY <1>6
  <2> HIDE DEF r
  <2>3. QED
    BY <1>3, <1>6, <2>1, <2>2, AloneFrame
<1>7. ASSUME NEW step \in Steps, Goto(w, step), step \notin Writing,
             step \in {"visits", "check", "seed", "promote"} => Advancing(w),
             UNCHANGED <<crawl_state, site_crawl_state, desk>>
      PROVE  AloneOK'
  <2>1. /\ worker' = [worker EXCEPT ![w] = worker'[w]] /\ worker'[w] \in WorkerType
        /\ worker'[w].pc = step /\ worker'[w].id = k.id /\ worker'[w].todo = k.todo
    BY <1>7, WorkerSteps
  <2>2. AloneWorkerOK(w)'
    BY <1>1, <1>7, <2>1 DEF AloneWorkerOK, Advancing, Linked
  <2>3. QED
    BY <1>6, <1>7, <2>1, <2>2
<1>8. ASSUME Set(w, Idle), UNCHANGED <<crawl_state, site_crawl_state, desk>>
      PROVE  AloneOK'
  <2>1. worker' = [worker EXCEPT ![w] = worker'[w]] /\ worker'[w] = Idle
    BY <1>1, <1>8 DEF Set
  <2>2. AloneWorkerOK(w)'
    BY <2>1 DEF AloneWorkerOK, Advancing, Idle
  <2>3. worker'[w] \in WorkerType
    BY <1>1
  <2>4. QED
    BY <1>6, <1>8, <2>1, <2>2, <2>3
<1>9. ASSUME NEW v \in IdentityRow, NEW next \in Continuations, Upsert(w, v, next),
             v.key \in Sites, FromSeeds(v.own, v.key),
             UNCHANGED <<crawl_state, site_crawl_state, desk>>,
             next \in Advances =>
               /\ Advancing(w) /\ v.key = crawl_state[k.id].key
               /\ site_crawl_state[v.key].external \subseteq v.own.external,
             next = "graph" /\ HasFrontier(v.own) /\ crawl_state[k.id] = NoRow =>
               site_crawl_state[v.key] = NoSite,
             next \in Advances \cup {"idle"} =>
               site_crawl_state[v.key] # NoSite /\ Keeps(site_crawl_state[v.key], v.own)
      PROVE  AloneOK'
  <2>1. v.key # None
    BY <1>9, CrawlConstantsAssumption
  <2>2. /\ worker' = [worker EXCEPT ![w] = worker'[w]] /\ worker'[w] \in WorkerType
        /\ worker'[w].pc = IF HasFrontier(v.own) THEN "site_row" ELSE "identity_row"
        /\ worker'[w].id = k.id /\ worker'[w].todo = k.todo
        /\ worker'[w].held = v /\ worker'[w].next = next
    BY <1>9, <2>1, WorkerSteps
  <2>3. ASSUME Advancing(w)'
        PROVE  /\ Linked(k.id)
               /\ \A u \in k.todo : SiteOf[u] # crawl_state[k.id].key =>
                                     u \in site_crawl_state[crawl_state[k.id].key].external
               /\ v.key = crawl_state[k.id].key
               /\ site_crawl_state[v.key].external \subseteq v.own.external
    <3>1. next \in Advances
      BY <2>2, <2>3 DEF Advancing
    <3>2. QED
      BY <1>1, <1>9, <3>1 DEF AloneWorkerOK
  <2>4. AloneWorkerOK(w)'
    <3>1. \A u \in ToSet(v.own.visited) : SiteOf[u] # v.key => u \in v.own.external
      BY <1>9 DEF FromSeeds
    <3>2. worker'[w].pc = "site_row" => HasFrontier(v.own)
      BY <2>2
    <3> HIDE DEF view
    <3>3. (Advancing(w) =>
            /\ Linked(worker[w].id)
            /\ \A u \in worker[w].todo : SiteOf[u] # crawl_state[worker[w].id].key =>
                                          u \in site_crawl_state[crawl_state[worker[w].id].key].external
            /\ worker[w].pc \in Writing => worker[w].held.key = crawl_state[worker[w].id].key
            /\ worker[w].pc = "site_row" =>
                 site_crawl_state[crawl_state[worker[w].id].key].external
                   \subseteq worker[w].held.own.external)'
      BY <1>9, <2>2, <2>3 DEF Linked
    <3>4. worker'[w].pc = "site_row" =>
            /\ FromSeeds(v.own, v.key)
            /\ next = "graph" /\ crawl_state[k.id] = NoRow => site_crawl_state[v.key] = NoSite
            /\ next \in Advances \cup {"idle"} =>
                 site_crawl_state[v.key] # NoSite /\ Keeps(site_crawl_state[v.key], v.own)
      BY <1>9, <3>2
    <3>5. (worker[w].pc = "site_row" =>
            /\ FromSeeds(worker[w].held.own, worker[w].held.key)
            /\ worker[w].next = "graph" /\ crawl_state[worker[w].id] = NoRow =>
                 site_crawl_state[worker[w].held.key] = NoSite
            /\ worker[w].next \in Advances \cup {"idle"} =>
                 /\ site_crawl_state[worker[w].held.key] # NoSite
                 /\ Keeps(site_crawl_state[worker[w].held.key], worker[w].held.own))'
      BY <1>9, <2>2, <3>4 DEF FromSeeds, Keeps, Known
    <3>6. QED
      BY <3>3, <3>5 DEF AloneWorkerOK
  <2>5. QED
    BY <1>6, <1>9, <2>2, <2>4
<1>10. CASE upsert_site_crawl_state(w)
  <2> DEFINE v == k.held
             r == [k EXCEPT !.pc = "identity_row", !.held.own = Blank]
  <2>1. k.pc = "site_row" /\ v \in IdentityRow /\ v.key \in Sites
    BY <1>1, <1>10, CrawlConstantsAssumption DEF upsert_site_crawl_state, WorkerOK, IdentityRow
  <2>2. /\ site_crawl_state' = [site_crawl_state EXCEPT ![v.key] = v.own]
        /\ worker' = [worker EXCEPT ![w] = r] /\ crawl_state' = crawl_state /\ desk' = desk
    BY <1>10 DEF upsert_site_crawl_state, Set
  <2>3. /\ site_crawl_state'[v.key] = v.own
        /\ \A s \in Sites : s # v.key => site_crawl_state'[s] = site_crawl_state[s]
    BY <2>1, <2>2 DEF TypeOK
  <2>4. /\ r.pc = "identity_row" /\ r.id = k.id /\ r.todo = k.todo /\ r.next = k.next
        /\ r.held.key = v.key
    BY <1>1, <2>1 DEF WorkerType, IdentityRow
  <2> HIDE DEF r
  <2>5. worker'[w] = r /\ r \in WorkerType
    BY <1>1, <2>2
  <2>6. FromSeeds(v.own, v.key)
    BY <1>1, <2>1 DEF AloneWorkerOK
  <2>7. \A s \in Sites : site_crawl_state'[s] # NoSite => FromSeeds(site_crawl_state'[s], s)
    BY <1>1, <2>1, <2>3, <2>6
  <2>8. AloneWorkerOK(w)'
    BY <1>1, <2>1, <2>2, <2>3, <2>4, <2>5 DEF AloneWorkerOK, Advancing, Linked
  <2>9. QED
    BY <1>3, <2>2, <2>5, <2>7, <2>8, AloneFrame
<1>11. CASE upsert_crawl_state(w)
  <2> DEFINE v == k.held
             r == worker'[w]
  <2>1. k.pc = "identity_row" /\ v \in IdentityRow /\ v.key # None /\ v # NoRow
    BY <1>1, <1>11, MarkersAreNoRows, CrawlConstantsAssumption
       DEF upsert_crawl_state, WorkerOK, IdentityRow
  <2>2. /\ crawl_state' = [crawl_state EXCEPT ![k.id] = v] /\ crawl_state'[k.id] = v
        /\ site_crawl_state' = site_crawl_state /\ desk' = desk
    BY <1>4, <1>11 DEF upsert_crawl_state, TypeOK
  <2>3. \/ worker' = [worker EXCEPT ![w] = Idle] /\ r = Idle
        \/ /\ k.next \in Continuations
           /\ worker' = [worker EXCEPT ![w] = r] /\ r.pc = k.next /\ r.id = k.id /\ r.todo = k.todo
    <3>1. k.next \in Continuations /\ k.next \in Steps
      BY <1>1 DEF WorkerType, Continuations, Steps
    <3>2. CASE k.next = "idle"
      BY <1>1, <1>11, <3>2 DEF upsert_crawl_state, Set
    <3>3. CASE k.next # "idle"
      BY <1>11, <3>1, <3>3, WorkerSteps DEF upsert_crawl_state
    <3>4. QED
      BY <3>2, <3>3
  <2>4. r \in WorkerType /\ worker' = [worker EXCEPT ![w] = r]
    BY <1>1, <2>3
  <2>5. AloneWorkerOK(w)'
    <3>1. CASE r = Idle
      BY <3>1 DEF AloneWorkerOK, Advancing, Idle
    <3>2. CASE k.next \in Continuations /\ r.pc = k.next /\ r.id = k.id /\ r.todo = k.todo
      BY <1>1, <2>1, <2>2, <3>2 DEF AloneWorkerOK, Advancing, Linked, Continuations
    <3>3. QED
      BY <2>3, <3>1, <3>2
  <2>6. \A s \in Sites : site_crawl_state'[s] # NoSite => FromSeeds(site_crawl_state'[s], s)
    BY <1>1, <2>2
  <2> HIDE DEF r
  <2>7. QED
    BY <1>3, <2>2, <2>4, <2>5, <2>6, AloneFrame
<1>12. CASE ensure_site_backing_for_identity(w)
  <2> DEFINE row == crawl_state[k.id]
             v   == [row EXCEPT !.key = SiteOf[row.root]]
  <2>1. UNCHANGED <<crawl_state, site_crawl_state, desk>>
    BY <1>12 DEF ensure_site_backing_for_identity
  <2>2. CASE Goto(w, "load")
    BY <1>7, <2>1, <2>2 DEF Steps
  <2>3. CASE row # NoRow /\ row.key = None /\ Upsert(w, v, "load")
    <3>1. row \in IdentityRow /\ row.own.visited = <<>>
      BY <1>1, <1>4, <2>3 DEF TypeOK, RowsOK
    <3>2. v \in IdentityRow /\ v.key \in Sites /\ v.own = row.own
      BY <3>1, CrawlConstantsAssumption DEF IdentityRow
    <3>3. FromSeeds(v.own, v.key)
      BY <3>1, <3>2, EmptySeq, LenProperties DEF FromSeeds, ToSet
    <3>4. QED
      BY <1>9, <2>1, <2>3, <3>2, <3>3 DEF Continuations
  <2>4. QED
    BY <1>12, <2>2, <2>3 DEF ensure_site_backing_for_identity
<1>13. CASE get_or_create_crawl_state(w)
  <2>1. UNCHANGED <<crawl_state, site_crawl_state, desk>>
    BY <1>13 DEF get_or_create_crawl_state
  <2>2. /\ Fresh(k.root) \in IdentityRow /\ Link(k.root) \in IdentityRow
        /\ Fresh(k.root).key = SiteOf[k.root] /\ Link(k.root).key = SiteOf[k.root]
        /\ SiteOf[k.root] \in Sites /\ ~HasFrontier(Link(k.root).own)
        /\ Fresh(k.root).own.visited = <<>> /\ Link(k.root).own = Blank
    <3>1. Link(k.root).own = Blank
      BY <1>4, CrawlConstantsAssumption DEF Link, Fresh
    <3>2. QED
      BY <1>4, <3>1, FreshRow
  <2>3. \A f, s : f.visited = <<>> => FromSeeds(f, s)
    BY EmptySeq DEF FromSeeds, ToSet
  <2>4. FromSeeds(Fresh(k.root).own, SiteOf[k.root]) /\ FromSeeds(Link(k.root).own, SiteOf[k.root])
    BY <2>2, <2>3 DEF Blank
  <2>5. CASE Goto(w, "graph")
    BY <1>7, <2>1, <2>5 DEF Steps
  <2>6. ASSUME Upsert(w, Fresh(k.root), "graph"),
               crawl_state[k.id] # NoRow \/ site_crawl_state[SiteOf[k.root]] = NoSite
        PROVE  AloneOK'
    BY <1>9, <2>1, <2>2, <2>4, <2>6 DEF Continuations
  <2>7. CASE Upsert(w, Link(k.root), "graph")
    BY <1>9, <2>1, <2>2, <2>4, <2>7 DEF Continuations
  <2>8. view # NoRow => crawl_state[k.id] # NoRow
    BY ViewOfNone
  <2>9. QED
    BY <1>13, <2>5, <2>6, <2>7, <2>8 DEF get_or_create_crawl_state
<1>14. CASE advance_crawl_frontier_after_graph(w)
  <2>1. k.pc = "graph" /\ UNCHANGED <<crawl_state, site_crawl_state, desk>>
    BY <1>14 DEF advance_crawl_frontier_after_graph
  <2>2. CASE Goto(w, "late")
    BY <1>7, <2>1, <2>2 DEF Steps
  <2>3. ASSUME NEW offered \in get_next_urls_to_crawl(view), NEW e \in resolve_evidence(view, offered),
               Set(w, [worker[w] EXCEPT !.pc = "visits", !.held = NoRow,
                                        !.todo = e.todo, !.fetch = e.fetch])
        PROVE  AloneOK'
    <3>1. \A u \in offered : SiteOf[u] = view.key \/ u \in view.own.external
      BY <1>5, <2>1 DEF get_next_urls_to_crawl, Tops, Some, Internal
    <3>2. \A u \in e.todo : SiteOf[u] = view.key \/ u \in view.own.external
      BY <3>1, EvidenceOffered
    <3> DEFINE r == [k EXCEPT !.pc = "visits", !.held = NoRow, !.todo = e.todo, !.fetch = e.fetch]
    <3>3. r.pc = "visits" /\ r.id = k.id /\ r.todo = e.todo
      BY <1>1 DEF WorkerType
    <3>4. worker' = [worker EXCEPT ![w] = r]
      BY <2>3 DEF Set
    <3> HIDE DEF r
    <3>5. worker'[w] = r /\ r \in WorkerType
      BY <1>1, <3>4
    <3>6. AloneWorkerOK(w)'
      BY <1>5, <2>1, <3>2, <3>3, <3>5 DEF AloneWorkerOK, Advancing, Linked
    <3>7. QED
      BY <1>6, <2>1, <3>4, <3>5, <3>6
  <2>4. QED
    BY <1>14, <2>2, <2>3 DEF advance_crawl_frontier_after_graph
<1>15. CASE record_page_visit(w)
  <2>1. k.pc = "visits" /\ UNCHANGED <<crawl_state, site_crawl_state, desk>> /\ Advancing(w)
    BY <1>15 DEF record_page_visit, Advancing
  <2>2. PICK u \in k.todo :
          LET rest == [worker EXCEPT ![w].todo = @ \ {u}] IN
          \/ worker' = rest
          \/ \E fetched \in BOOLEAN : \E v \in Visited(view, u, fetched) :
               worker' = [rest EXCEPT ![w].pc = "site_row", ![w].held = v, ![w].next = "check"]
    BY <1>15 DEF record_page_visit
  <2>3. /\ u \in Urls
        /\ \A x \in k.todo : SiteOf[x] # view.key => x \in view.own.external
    BY <1>1, <1>5, <2>1 DEF WorkerType, AloneWorkerOK
  <2>4. CASE worker' = [worker EXCEPT ![w].todo = @ \ {u}]
    <3> DEFINE r == [k EXCEPT !.todo = @ \ {u}]
    <3>1. worker' = [worker EXCEPT ![w] = r]
      BY <2>4
    <3>2. r.pc = "visits" /\ r.id = k.id /\ r.todo \subseteq k.todo
      BY <1>1, <2>1 DEF WorkerType
    <3> HIDE DEF r
    <3>3. worker'[w] = r /\ r \in WorkerType
      BY <1>1, <3>1
    <3>4. AloneWorkerOK(w)'
      BY <1>5, <2>1, <2>3, <3>2, <3>3 DEF AloneWorkerOK, Advancing, Linked
    <3>5. QED
      BY <1>6, <2>1, <3>1, <3>3, <3>4
  <2>5. ASSUME NEW fetched \in BOOLEAN, NEW v \in Visited(view, u, fetched),
               worker' = [[worker EXCEPT ![w].todo = @ \ {u}] EXCEPT
                            ![w].pc = "site_row", ![w].held = v, ![w].next = "check"]
        PROVE  AloneOK'
    <3>1. /\ v \in IdentityRow /\ v.key = view.key /\ v.own.external = view.own.external
          /\ ToSet(v.own.visited) \subseteq ToSet(view.own.visited) \cup {u}
          /\ Keeps(view.own, v.own)
      BY <1>5, <2>1, <2>3, <2>5, VisitedProperties
    <3>2. FromSeeds(v.own, v.key)
      BY <1>5, <2>1, <2>3, <3>1 DEF FromSeeds
    <3> DEFINE r == [k EXCEPT !.todo = @ \ {u}, !.pc = "site_row", !.held = v, !.next = "check"]
    <3>3. worker' = [worker EXCEPT ![w] = r]
      BY <1>1, <2>5 DEF WorkerType
    <3>4. /\ r.pc = "site_row" /\ r.id = k.id /\ r.held = v /\ r.next = "check"
          /\ r.todo \subseteq k.todo
      BY <1>1, <3>1 DEF WorkerType
    <3> HIDE DEF r
    <3>5. worker'[w] = r /\ r \in WorkerType
      BY <1>1, <3>3
    <3>6. /\ Linked(k.id) /\ view.key = crawl_state[k.id].key
          /\ view.own = site_crawl_state[view.key] /\ site_crawl_state[view.key] # NoSite
      BY <1>5, <2>1
    <3> HIDE DEF view
    <3>7. /\ Linked(k.id)' /\ FromSeeds(v.own, v.key)'
          /\ Keeps(site_crawl_state[view.key], v.own)
      BY <2>1, <3>1, <3>2, <3>4, <3>5, <3>6 DEF Linked, FromSeeds
    <3>8. AloneWorkerOK(w)'
      BY <2>1, <2>3, <3>1, <3>2, <3>4, <3>5, <3>6, <3>7
         DEF AloneWorkerOK, Advancing, Linked, FromSeeds, Keeps, Known
    <3>9. QED
      BY <1>6, <2>1, <3>3, <3>5, <3>8
  <2>6. QED
    BY <2>2, <2>4, <2>5
<1>16. CASE VisitsDone(w)
  <2>1. /\ UNCHANGED <<crawl_state, site_crawl_state, desk>>
        /\ Goto(w, "late") \/ Set(w, Idle)
    BY <1>16 DEF VisitsDone
  <2>2. QED
    BY <1>7, <1>8, <2>1 DEF Steps
<1>17. CASE CheckCoverage(w)
  <2>1. /\ UNCHANGED <<crawl_state, site_crawl_state, desk>> /\ Advancing(w)
        /\ Goto(w, "seed") \/ Goto(w, "visits")
    BY <1>17 DEF CheckCoverage, Advancing
  <2>2. QED
    BY <1>7, <2>1 DEF Steps
<1>18. ASSUME k.pc \in {"seed", "late"}, NEW urls \in SUBSET Inspiration, NEW v \in Seeded(view, urls),
              NEW next \in {"promote", "idle"}, Upsert(w, v, next), next = "promote" => k.pc = "seed",
              UNCHANGED <<crawl_state, site_crawl_state, desk>>
       PROVE  AloneOK'
  <2>1. urls \in SUBSET Urls
    BY CrawlConstantsAssumption
  <2>2. /\ v \in IdentityRow /\ v.key = view.key /\ view.own.external \subseteq v.own.external
        /\ v.own.visited = view.own.visited /\ v.own.unvisited = view.own.unvisited
    BY <1>5, <1>18, <2>1, SeededProperties
  <2>3. FromSeeds(v.own, v.key) /\ Keeps(view.own, v.own)
    BY <1>5, <1>18, <2>2 DEF FromSeeds, Keeps, Known
  <2>4. next = "promote" => Advancing(w)
    BY <1>18 DEF Advancing
  <2>5. next \in Continuations
    BY DEF Continuations
  <2>6. QED
    BY <1>5, <1>9, <1>18, <2>2, <2>3, <2>4, <2>5
<1>19. CASE seed_external_inspiration(w)
  BY <1>18, <1>19 DEF seed_external_inspiration
<1>20. CASE Promote(w)
  <2> DEFINE v == [view EXCEPT !.phase = "inspiration_expansion"]
  <2>1. v \in IdentityRow /\ v.key = view.key /\ v.own = view.own
    BY <1>5, <1>20 DEF Promote, IdentityRow, Phases
  <2>2. /\ k.pc = "promote" /\ Upsert(w, v, "visits") /\ Advancing(w)
        /\ UNCHANGED <<crawl_state, site_crawl_state, desk>>
    BY <1>20 DEF Promote, Advancing
  <2>3. Keeps(view.own, v.own)
    BY <2>1 DEF Keeps
  <2> HIDE DEF v
  <2>4. QED
    BY <1>5, <1>9, <2>1, <2>2, <2>3 DEF Continuations
<1>21. CASE MaybeSeedExternal(w)
  <2>1. /\ k.pc = "late" /\ UNCHANGED <<crawl_state, site_crawl_state, desk>>
        /\ \/ Set(w, Idle)
           \/ \E urls \in SUBSET Inspiration : \E v \in Seeded(view, urls) : Upsert(w, v, "idle")
    BY <1>21 DEF MaybeSeedExternal
  <2>2. QED
    BY <1>8, <1>18, <2>1
<1>22. QED
  BY <1>10, <1>11, <1>12, <1>13, <1>14, <1>15, <1>16, <1>17, <1>19, <1>20, <1>21 DEF Step
LEMMA AloneNext == IInv /\ [Next]_vars => AloneOK'
<1> SUFFICES ASSUME TypeOK, LinksOK, AloneOK, [Next]_vars
             PROVE  AloneOK'
  BY DEF IInv
<1>1. TypeOK' /\ (Next => desk' = desk)
  <2>1. TypeOK'
    BY LinksNext
  <2>2. Next => desk' = desk
    BY DEF Next, Step, upsert_site_crawl_state, upsert_crawl_state,
       ensure_site_backing_for_identity, get_or_create_crawl_state,
       advance_crawl_frontier_after_graph, record_page_visit, VisitsDone, CheckCoverage,
       seed_external_inspiration, Promote, MaybeSeedExternal, BeginRun, RunCutOff
  <2>3. QED
    BY <2>1, <2>2
<1>2. CASE ~Alone /\ Next
  BY <1>1, <1>2 DEF AloneOK, Alone
<1>3. ASSUME Alone, NEW w \in Workers, Step(w)
      PROVE  AloneOK'
  BY <1>1, <1>3, AloneStep
<1>4. ASSUME Alone, NEW w \in Workers, NEW i \in Identities, NEW root \in Roots, BeginRun(w, i, root)
      PROVE  AloneOK'
  <2>1. Busy = {}
    <3>1. Busy # {} => overlaps < desk.overlaps
      BY <1>4, Zenon DEF BeginRun
    <3>2. overlaps \in 0..desk.overlaps
      BY DEF TypeOK
    <3>3. QED
      BY <1>4, <3>1, <3>2 DEF Alone
  <2>2. \A x \in Workers : worker[x].pc = "idle"
    BY <2>1 DEF Busy
  <2> DEFINE r == [Idle EXCEPT !.pc = "ensure", !.id = i, !.root = root]
  <2>3. worker' = [worker EXCEPT ![w] = r] /\ UNCHANGED <<crawl_state, site_crawl_state, desk>>
    BY <1>4 DEF BeginRun, Set
  <2>4. r.pc = "ensure"
    BY DEF Idle
  <2> HIDE DEF r
  <2>5. worker'[w] = r /\ r \in WorkerType
    BY <1>1, <2>3 DEF TypeOK
  <2>6. AloneWorkerOK(w)'
    BY <2>4, <2>5 DEF AloneWorkerOK, Advancing, Writing
  <2>7. \A s \in Sites : site_crawl_state'[s] # NoSite => FromSeeds(site_crawl_state'[s], s)
    BY <1>4, <2>3 DEF AloneOK
  <2>8. QED
    BY <1>4, <2>2, <2>3, <2>5, <2>6, <2>7, AloneFrame
<1>5. ASSUME Alone, NEW w \in Workers, RunCutOff(w)
      PROVE  AloneOK'
  <2>1. \A x \in Workers : x # w => worker[x].pc = "idle"
    BY <1>5 DEF RunCutOff, AloneOK, Busy
  <2>2. worker' = [worker EXCEPT ![w] = Idle] /\ UNCHANGED <<crawl_state, site_crawl_state, desk>>
    BY <1>5 DEF RunCutOff, Set
  <2>3. worker'[w] = Idle /\ Idle \in WorkerType
    BY <2>2, WorkerSteps DEF TypeOK
  <2>4. AloneWorkerOK(w)'
    BY <2>3 DEF AloneWorkerOK, Advancing, Writing, Idle
  <2>5. \A s \in Sites : site_crawl_state'[s] # NoSite => FromSeeds(site_crawl_state'[s], s)
    BY <1>5, <2>2 DEF AloneOK
  <2>6. QED
    BY <1>5, <2>1, <2>2, <2>3, <2>4, <2>5, AloneFrame
<1>6. CASE UNCHANGED vars
  BY <1>6 DEF vars, AloneOK, Alone, Busy, FromSeeds, AloneWorkerOK, Advancing, Linked, Keeps, Known
<1>7. QED
  BY <1>2, <1>3, <1>4, <1>5, <1>6 DEF Next

LEMMA AloneInit == Init => AloneOK
<1> SUFFICES ASSUME Init
             PROVE  AloneOK
  OBVIOUS
<1>1. \A w \in Workers : worker[w].pc = "idle"
  BY DEF Init, Idle
<1>2. \A s \in Sites : site_crawl_state[s] = NoSite
  BY DEF Init
<1>3. QED
  BY <1>1, <1>2 DEF AloneOK, Busy, AloneWorkerOK, Advancing, Writing

LEMMA Invariance == Spec => []IInv
<1>1. Init => IInv
  BY LinksInit, AloneInit DEF IInv
<1>2. IInv /\ [Next]_vars => IInv'
  BY LinksNext, AloneNext DEF IInv
<1>3. QED
  BY <1>1, <1>2, PTL DEF Spec

(* Without overlapping runs, a visited page of another host is one that    *)
(* was seeded (filter_frontier_candidate_urls, get_next_urls_to_crawl,     *)
(* resolve_evidence).                                                      *)
THEOREM OutsideCorrect == Spec => []OutsideWasSeeded
<1>1. IInv => OutsideWasSeeded
  BY DEF IInv, AloneOK, OutsideWasSeeded, FromSeeds
<1>2. QED
  BY <1>1, Invariance, PTL

(* Only the write of a site's row changes it.                              *)
LEMMA SiteRowsChange ==
  ASSUME Next, site_crawl_state' # site_crawl_state
  PROVE  \E w \in Workers : upsert_site_crawl_state(w)
  BY DEF Next, Step, upsert_site_crawl_state, upsert_crawl_state,
     ensure_site_backing_for_identity, get_or_create_crawl_state,
     advance_crawl_frontier_after_graph, record_page_visit, VisitsDone, CheckCoverage,
     seed_external_inspiration, Promote, MaybeSeedExternal, BeginRun, RunCutOff

(* Without overlapping runs a write forgets a URL of a site only for       *)
(* another root, for an old row, or as the oldest visit of a full list     *)
(* (upsert_crawl_state, record_page_visit, seed_external_inspiration,      *)
(* update_phase).                                                          *)
THEOREM MemoryCorrect == Spec => MemoryIsKept
<1>1. ASSUME IInv, [Next]_vars, Alone, NEW s \in Sites, Forgets(s)
      PROVE  FALSE
  <2>1. PICK u \in Known(site_crawl_state[s]) \ Known(site_crawl_state'[s]) :
          /\ \A w \in Workers :
               worker[w].pc = "site_row" =>
                 worker[w].next # "load" /\ (worker[w].next = "graph" => crawl_state[worker[w].id] = NoRow)
          /\ ~(/\ Len(site_crawl_state[s].visited) = MaxVisited
               /\ u = Head(site_crawl_state[s].visited))
    BY <1>1 DEF Forgets
  <2>2. site_crawl_state[s] # NoSite /\ site_crawl_state'[s] # site_crawl_state[s]
    BY <1>1, <2>1 DEF Forgets
  <2>3. PICK w \in Workers : upsert_site_crawl_state(w)
    BY <1>1, <2>2, SiteRowsChange DEF vars
  <2> DEFINE k == worker[w]
  <2>4. /\ k.pc = "site_row" /\ k \in WorkerType /\ AloneWorkerOK(w)
        /\ site_crawl_state' = [site_crawl_state EXCEPT ![k.held.key] = k.held.own]
    BY <1>1, <2>3 DEF upsert_site_crawl_state, IInv, AloneOK, TypeOK
  <2>5. s = k.held.key /\ site_crawl_state'[s] = k.held.own
    BY <1>1, <2>2, <2>4 DEF IInv, TypeOK
  <2>6. CASE k.next = "load"
    BY <2>1, <2>4, <2>6
  <2>7. CASE k.next = "graph"
    <3>1. crawl_state[k.id] = NoRow
      BY <2>1, <2>4, <2>7
    <3>2. QED
      BY <2>2, <2>4, <2>5, <2>7, <3>1 DEF AloneWorkerOK
  <2>8. CASE k.next \in Advances \cup {"idle"}
    <3>1. Keeps(site_crawl_state[s], k.held.own)
      BY <2>4, <2>5, <2>8 DEF AloneWorkerOK
    <3>2. QED
      BY <2>1, <2>5, <3>1 DEF Keeps
  <2>9. QED
    BY <2>4, <2>6, <2>7, <2>8 DEF WorkerType, Continuations, Advances
<1>2. IInv /\ [Next]_vars => (Alone => \A s \in Sites : ~Forgets(s))
  BY <1>1
<1>3. QED
  BY <1>2, Invariance, PTL DEF MemoryIsKept, Spec
=============================================================================
