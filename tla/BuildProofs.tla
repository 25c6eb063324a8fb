----------------------------- MODULE BuildProofs -----------------------------
(***************************************************************************)
(* Proofs about Build.  First the HTML blocks, for every set of files, of  *)
(* builds and of pages that working staging may have; then the gates of    *)
(* evaluator_node, for every set of configurations, builds and reported    *)
(* issues.                                                                 *)
(***************************************************************************)
EXTENDS Build, WellFoundedInduction, SequenceTheorems, FiniteSetTheorems, TLAPS

----------------------------------------------------------------------------
(* Numbers.                                                                *)

LEMMA Below == ASSUME NEW a \in Nat, NEW b \in Nat, a < b
  PROVE <<a, b>> \in OpToRel(<, Nat)
<1>1. <<a, b>> \in Nat \X Nat
  BY SMT
<1>2. <<a, b>>[1] < <<a, b>>[2]
  BY SMT
<1>3. QED
  BY <1>1, <1>2, Zenon DEF OpToRel

(* A set of numbers has a least one.                                       *)
LEMMA Least ==
  ASSUME NEW T \in SUBSET Nat, NEW n \in T
  PROVE  \E m \in T : \A k \in T : m <= k
<1>1. PICK x \in T : \A y \in T : ~(<<y, x>> \in OpToRel(<, Nat))
  BY WFMin, NatLessThanWellFounded
<1>2. \A y \in T : ~(y < x)
  BY <1>1, Below
<1>3. QED
  BY <1>2, SMT

(* A bounded set of numbers has a largest one.                             *)
LEMMA Largest ==
  ASSUME NEW S \in SUBSET Nat, NEW x \in S, NEW n \in Nat, \A y \in S : y <= n
  PROVE  \E m \in S : \A y \in S : y <= m
<1> DEFINE T == {n - y : y \in S}
<1>1. T \in SUBSET Nat /\ n - x \in T
  OBVIOUS
<1> HIDE DEF T
<1>2. PICK t \in T : \A u \in T : t <= u
  BY <1>1, Least
<1>3. PICK m \in S : t = n - m
  BY DEF T
<1>4. ASSUME NEW y \in S PROVE y <= m
  <2>1. n - m <= n - y
    BY <1>2, <1>3 DEF T
  <2>2. QED
    BY <2>1
<1>5. QED
  BY <1>4

(* What holds at m and goes on from each number to the next.               *)
LEMMA CountFrom ==
  ASSUME NEW m \in Nat, NEW n \in Nat, m <= n, NEW T, m \in T,
         \A k \in m .. n : k \in T /\ k < n => k + 1 \in T
  PROVE  n \in T
<1> DEFINE F == {k \in m .. n : k \notin T}
<1>1. SUFFICES ASSUME n \in F PROVE FALSE
  OBVIOUS
<1>2. PICK x \in F : \A j \in F : x <= j
  <2>1. F \in SUBSET Nat
    OBVIOUS
  <2> HIDE DEF F
  <2>2. QED
    BY <1>1, <2>1, Least
<1>3. x # m /\ x - 1 \in m .. n /\ x - 1 \notin F
  BY <1>2
<1>4. QED
  BY <1>2, <1>3

----------------------------------------------------------------------------
(* The blocks of a page, one after the other.                              *)

(* f holds the page at path after each block of b.                         *)
AfterBlocks(f, b, path) ==
  /\ f[0] = Blocks!PageOf(files, path)
  /\ \A k \in 1 .. Len(b.blocks) :
       f[k] = IF b.blocks[k].path = path THEN Blocks!Apply(f[k - 1], b.blocks[k]) ELSE f[k - 1]

LEMMA StepsExist ==
  ASSUME NEW b, Blocks!IsBuild(b), NEW path
  PROVE  \E f : f = [k \in 0 .. Len(b.blocks) |-> f[k]] /\ AfterBlocks(f, b, path)
<1> DEFINE s == b.blocks
           With(k, x) == IF s[k].path = path THEN Blocks!Apply(x, s[k]) ELSE x
           Upto(f, n) == /\ f = [k \in 0 .. n |-> f[k]] /\ f[0] = Blocks!PageOf(files, path)
                         /\ \A k \in 1 .. n : f[k] = With(k, f[k - 1])
           T == {n \in 0 .. Len(s) : \E f : Upto(f, n)}
<1>1. Len(s) \in Nat
  BY LenProperties DEF Blocks!IsBuild
<1> HIDE DEF With, s
<1>2. Upto([k \in 0 .. 0 |-> Blocks!PageOf(files, path)], 0)
  OBVIOUS
<1>3. ASSUME NEW n \in 0 .. Len(s), n < Len(s), NEW f, Upto(f, n)
      PROVE  \E g : Upto(g, n + 1)
  <2> DEFINE g == [k \in 0 .. n + 1 |-> IF k = n + 1 THEN With(n + 1, f[n]) ELSE f[k]]
  <2>1. /\ f = [k \in 0 .. n |-> f[k]] /\ f[0] = Blocks!PageOf(files, path)
        /\ \A k \in 1 .. n : f[k] = With(k, f[k - 1])
    BY <1>3
  <2>2. g = [k \in 0 .. n + 1 |-> g[k]] /\ \A k \in 0 .. n : g[k] = f[k]
    BY <1>1
  <2>3. g[n + 1] = With(n + 1, f[n])
    BY <1>1
  <2> HIDE DEF g
  <2>4. ASSUME NEW k \in 1 .. n + 1 PROVE g[k] = With(k, g[k - 1])
    <3>1. CASE k = n + 1
      <4>1. k - 1 = n /\ n \in 0 .. n
        BY <3>1
      <4>2. QED
        BY <3>1, <4>1, <2>2, <2>3
    <3>2. CASE k # n + 1
      <4>1. k \in 1 .. n /\ k \in 0 .. n /\ k - 1 \in 0 .. n
        BY <3>2
      <4>2. QED
        BY <4>1, <2>1, <2>2
    <3>3. QED
      BY <3>1, <3>2
  <2>5. Upto(g, n + 1)
    BY <2>1, <2>2, <2>4
  <2> HIDE DEF g, Upto
  <2>6. QED
    BY <2>5
<1> HIDE DEF Upto
<1>4. 0 \in T /\ \A k \in 0 .. Len(s) : k \in T /\ k < Len(s) => k + 1 \in T
  BY <1>1, <1>2, <1>3
<1> HIDE DEF T
<1>5. Len(s) \in T
  <2>1. 0 \in Nat /\ 0 <= Len(s)
    BY <1>1
  <2>2. QED
    BY <1>1, <1>4, <2>1, CountFrom
<1>6. \E f : Upto(f, Len(s))
  BY <1>5 DEF T
<1>7. QED
  BY <1>6 DEF AfterBlocks, Upto, With, s

LEMMA MergedIs ==
  ASSUME NEW b, Blocks!IsBuild(b), NEW path
  PROVE  \E f : AfterBlocks(f, b, path) /\ Blocks!Merged(b, path) = f[Len(b.blocks)]
<1> DEFINE E(f) == f = [n \in 0 .. Len(b.blocks) |->
                          IF n = 0 THEN Blocks!PageOf(files, path)
                          ELSE IF b.blocks[n].path = path
                               THEN Blocks!Apply(f[n - 1], b.blocks[n])
                          ELSE f[n - 1]]
           c == CHOOSE f : E(f)
<1>1. Len(b.blocks) \in Nat
  BY LenProperties DEF Blocks!IsBuild
<1>2. PICK f : f = [k \in 0 .. Len(b.blocks) |-> f[k]] /\ AfterBlocks(f, b, path)
  BY StepsExist
<1>3. E(f)
  <2>1. ASSUME NEW n \in 0 .. Len(b.blocks)
        PROVE  f[n] = IF n = 0 THEN Blocks!PageOf(files, path)
                      ELSE IF b.blocks[n].path = path THEN Blocks!Apply(f[n - 1], b.blocks[n])
                      ELSE f[n - 1]
    <3>1. n = 0 \/ n \in 1 .. Len(b.blocks)
      BY <1>1
    <3>2. 0 \notin 1 .. Len(b.blocks)
      BY <1>1
    <3>3. QED
      BY <1>2, <3>1, <3>2, Zenon DEF AfterBlocks
  <2>2. QED
    BY <2>1, <1>2
<1>4. E(c)
  BY <1>3, Zenon
<1>5. Blocks!Merged(b, path) = c[Len(b.blocks)]
  BY Zenon DEF Blocks!Merged
<1> HIDE DEF c
<1>6. AfterBlocks(c, b, path)
  <2>1. \A n \in 0 .. Len(b.blocks) :
          c[n] = IF n = 0 THEN Blocks!PageOf(files, path)
                 ELSE IF b.blocks[n].path = path THEN Blocks!Apply(c[n - 1], b.blocks[n])
                 ELSE c[n - 1]
    BY <1>4, Zenon
  <2>2. 0 \in 0 .. Len(b.blocks) /\ \A n \in 1 .. Len(b.blocks) : n # 0 /\ n \in 0 .. Len(b.blocks)
    BY <1>1
  <2>3. QED
    BY <2>1, <2>2, Zenon DEF AfterBlocks
<1>7. QED
  BY <1>5, <1>6

----------------------------------------------------------------------------
(* Pages.                                                                  *)

SectionType == [id : Ids, text : Wordings, inner : Seq(Blocks!LeafType)]

LEMMA PageIs ==
  ASSUME NEW page \in Blocks!Page
  PROVE  /\ Len(page) \in Nat /\ DOMAIN page = 1 .. Len(page) /\ page \in Seq(SectionType)
         /\ \A i \in 1 .. Len(page) :
              /\ page[i] \in SectionType /\ page[i].inner \in Seq(Blocks!LeafType)
              /\ Len(page[i].inner) \in Nat
              /\ \A j \in 1 .. Len(page[i].inner) : page[i].inner[j] \in Blocks!LeafType
<1>1. page \in Seq(SectionType)
  BY DEF Blocks!Page, SectionType
<1>2. Len(page) \in Nat /\ DOMAIN page = 1 .. Len(page)
      /\ \A i \in 1 .. Len(page) : page[i] \in SectionType
  BY <1>1, LenProperties, ElementOfSeq
<1>3. ASSUME NEW i \in 1 .. Len(page)
      PROVE  /\ page[i].inner \in Seq(Blocks!LeafType)
             /\ Len(page[i].inner) \in Nat
             /\ \A j \in 1 .. Len(page[i].inner) : page[i].inner[j] \in Blocks!LeafType
  <2>1. page[i].inner \in Seq(Blocks!LeafType)
    BY <1>2 DEF SectionType
  <2>2. QED
    BY <2>1, LenProperties, ElementOfSeq
<1>4. QED
  BY <1>1, <1>2, <1>3

LEMMA PlaceIs ==
  ASSUME NEW page \in Blocks!Page
  PROVE  /\ \A i \in 1 .. Len(page), j \in Nat :
              j <= Len(page[i].inner) => <<i, j>> \in Blocks!Places(page)
         /\ \A p \in Blocks!Places(page) :
              /\ p = <<p[1], p[2]>> /\ p[1] \in 1 .. Len(page) /\ p[2] \in Nat
              /\ p[2] <= Len(page[p[1]].inner)
BY PageIs DEF Blocks!Places

LEMMA FirstHitIs ==
  ASSUME NEW page \in Blocks!Page, NEW id, Blocks!Hits(page, id) # {}
  PROVE  Blocks!FirstHit(page, id) \in Blocks!Hits(page, id)
<1> DEFINE H == Blocks!Hits(page, id)
           I == {p[1] : p \in H}
<1>1. \A p \in H : p[1] \in Nat /\ p[2] \in Nat
  BY PlaceIs, PageIs DEF Blocks!Hits
<1> HIDE DEF H
<1>2. PICK i \in I : \A k \in I : i <= k
  <2>1. I \in SUBSET Nat
    BY <1>1
  <2>2. PICK p \in H : TRUE
    BY DEF H
  <2>3. p[1] \in I
    OBVIOUS
  <2> HIDE DEF I
  <2>4. QED
    BY <2>1, <2>3, Least
<1> DEFINE J == {p[2] : p \in {h \in H : h[1] = i}}
<1>3. PICK j \in J : \A k \in J : j <= k
  <2>1. J \in SUBSET Nat
    BY <1>1
  <2>2. PICK p \in H : p[1] = i
    OBVIOUS
  <2>3. p[2] \in J
    BY <2>2
  <2> HIDE DEF J
  <2>4. QED
    BY <2>1, <2>3, Least
<1>4. PICK p \in H : p[1] = i /\ p[2] = j
  OBVIOUS
<1>5. \A q \in H : p[1] < q[1] \/ (p[1] = q[1] /\ p[2] <= q[2])
  <2>1. ASSUME NEW q \in H PROVE p[1] < q[1] \/ (p[1] = q[1] /\ p[2] <= q[2])
    <3>1. i <= q[1] /\ i \in Nat /\ q[1] \in Nat
      BY <1>1, <1>2, <1>4
    <3>2. CASE q[1] = i
      BY <3>2, <1>3, <1>4
    <3>3. CASE q[1] # i
      BY <3>1, <3>3, <1>4
    <3>4. QED
      BY <3>2, <3>3
  <2>2. QED
    BY <2>1
<1>6. QED
  BY <1>4, <1>5 DEF Blocks!FirstHit, H

(* The text at p is somewhere on q, inside of a section of the same id.    *)
Kept(page, p, q) ==
  \E r \in Blocks!Places(q) :
    /\ Blocks!Leaf(Blocks!At(q, r)) = Blocks!Leaf(Blocks!At(page, p))
    /\ q[r[1]].id = page[p[1]].id

LEMMA SectionIs ==
  ASSUME NEW e \in Blocks!LeafType
  PROVE  /\ Blocks!Section(e) \in SectionType /\ Blocks!Section(e).inner = <<>>
         /\ Blocks!Leaf(Blocks!Section(e)) = Blocks!Leaf(e) /\ Blocks!Leaf(e) = e
BY EmptySeq DEF Blocks!Section, Blocks!Leaf, Blocks!LeafType, SectionType

LEMMA Appended ==
  ASSUME NEW page \in Blocks!Page, NEW e \in Blocks!LeafType,
         NEW q, q = Blocks!_apply_append_to_body(page, e)
  PROVE  /\ q \in Blocks!Page /\ Blocks!Leaf(e) \in Blocks!Texts(q)
         /\ \A p \in Blocks!Places(page) : Kept(page, p, q)
<1>1. /\ q \in Seq(SectionType) /\ Len(q) = Len(page) + 1
      /\ \A i \in 1 .. Len(page) : q[i] = page[i]
      /\ q[Len(page) + 1] = Blocks!Section(e)
  BY PageIs, SectionIs, AppendProperties DEF Blocks!_apply_append_to_body
<1>2. q \in Blocks!Page
  BY <1>1 DEF Blocks!Page, SectionType
<1>3. Len(page) \in Nat
  BY PageIs
<1>4. Blocks!Leaf(e) \in Blocks!Texts(q)
  <2>1. Len(page) + 1 \in 1 .. Len(q) /\ 0 \in Nat /\ 0 <= Len(q[Len(page) + 1].inner)
    BY <1>1, <1>2, <1>3, PageIs
  <2>2. <<Len(page) + 1, 0>> \in Blocks!Places(q)
    BY <1>2, <2>1, PlaceIs
  <2>3. Blocks!At(q, <<Len(page) + 1, 0>>) = Blocks!Section(e)
    BY <1>1 DEF Blocks!At
  <2>4. QED
    BY <2>2, <2>3, SectionIs DEF Blocks!Texts
<1>5. ASSUME NEW p \in Blocks!Places(page) PROVE Kept(page, p, q)
  <2>1. /\ p = <<p[1], p[2]>> /\ p[1] \in 1 .. Len(page) /\ p[2] \in Nat
        /\ p[2] <= Len(page[p[1]].inner)
    BY PlaceIs
  <2>2. q[p[1]] = page[p[1]] /\ p[1] \in 1 .. Len(q)
    BY <1>1, <1>3, <2>1
  <2>3. p \in Blocks!Places(q)
    BY <1>2, <2>1, <2>2, PlaceIs
  <2>4. Blocks!At(q, p) = Blocks!At(page, p)
    BY <2>2 DEF Blocks!At
  <2>5. QED
    BY <2>2, <2>3, <2>4 DEF Kept
<1>6. QED
  BY <1>2, <1>4, <1>5

LEMMA Prepended ==
  ASSUME NEW page \in Blocks!Page, NEW e \in Blocks!LeafType,
         NEW q, q = Blocks!_apply_prepend_to_body(page, e)
  PROVE  /\ q \in Blocks!Page /\ Blocks!Leaf(e) \in Blocks!Texts(q)
         /\ \A p \in Blocks!Places(page) : Kept(page, p, q)
<1>0. Len(page) \in Nat /\ page \in Seq(SectionType)
  BY PageIs
<1>1. /\ q \in Seq(SectionType) /\ Len(q) = Len(page) + 1
      /\ \A i \in 1 .. Len(page) : q[i + 1] = page[i]
      /\ q[1] = Blocks!Section(e)
  <2>1. PICK x \in SectionType : x = Blocks!Section(e)
    BY SectionIs
  <2>2. <<x>> \in Seq(SectionType) /\ Len(<<x>>) = 1 /\ <<x>>[1] = x
    OBVIOUS
  <2>3. q = <<x>> \o page
    BY <2>1 DEF Blocks!_apply_prepend_to_body
  <2>4. /\ q \in Seq(SectionType) /\ Len(q) = 1 + Len(page)
        /\ \A i \in 1 .. 1 + Len(page) : q[i] = IF i <= 1 THEN <<x>>[i] ELSE page[i - 1]
    BY <1>0, <2>2, <2>3, ConcatProperties
  <2>5. QED
    BY <1>0, <2>1, <2>2, <2>4
<1>2. q \in Blocks!Page
  BY <1>1 DEF Blocks!Page, SectionType
<1>4. Blocks!Leaf(e) \in Blocks!Texts(q)
  <2>1. 1 \in 1 .. Len(q) /\ 0 \in Nat /\ 0 <= Len(q[1].inner)
    BY <1>0, <1>1, <1>2, PageIs
  <2>2. <<1, 0>> \in Blocks!Places(q)
    BY <1>2, <2>1, PlaceIs
  <2>3. Blocks!At(q, <<1, 0>>) = Blocks!Section(e)
    BY <1>1 DEF Blocks!At
  <2>4. QED
    BY <2>2, <2>3, SectionIs DEF Blocks!Texts
<1>5. ASSUME NEW p \in Blocks!Places(page) PROVE Kept(page, p, q)
  <2>1. /\ p = <<p[1], p[2]>> /\ p[1] \in 1 .. Len(page) /\ p[2] \in Nat
        /\ p[2] <= Len(page[p[1]].inner)
    BY PlaceIs
  <2>2. q[p[1] + 1] = page[p[1]] /\ p[1] + 1 \in 1 .. Len(q)
    BY <1>0, <1>1, <2>1
  <2>3. <<p[1] + 1, p[2]>> \in Blocks!Places(q)
    BY <1>2, <2>1, <2>2, PlaceIs
  <2>4. Blocks!At(q, <<p[1] + 1, p[2]>>) = Blocks!At(page, p)
    BY <2>2 DEF Blocks!At
  <2>5. QED
    BY <2>2, <2>3, <2>4 DEF Kept
<1>6. QED
  BY <1>2, <1>4, <1>5

(* The element at a place is put in the place of another.                  *)
LEMMA Replaced ==
  ASSUME NEW page \in Blocks!Page, NEW e \in Blocks!LeafType, NEW id,
         Blocks!Hits(page, id) # {},
         NEW q, q = Blocks!_replace_element_by_id(page, id, e)
  PROVE  /\ q \in Blocks!Page /\ Blocks!Leaf(e) \in Blocks!Texts(q)
         /\ \A p \in Blocks!Places(page) :
              Blocks!At(page, p).id # id /\ page[p[1]].id # id => Kept(page, p, q)
<1>1. PICK h : h = Blocks!FirstHit(page, id) /\ h \in Blocks!Places(page)
               /\ Blocks!At(page, h).id = id
  BY FirstHitIs DEF Blocks!Hits
<1>2. /\ h = <<h[1], h[2]>> /\ h[1] \in 1 .. Len(page) /\ h[2] \in Nat
      /\ h[2] <= Len(page[h[1]].inner)
  BY <1>1, PlaceIs
<1>3. PICK i \in 1 .. Len(page), j \in Nat : h = <<i, j>> /\ j <= Len(page[i].inner)
  BY <1>2
<1>4. /\ Len(page) \in Nat /\ page \in Seq(SectionType) /\ DOMAIN page = 1 .. Len(page)
      /\ page[i] \in SectionType /\ page[i].inner \in Seq(Blocks!LeafType)
      /\ Len(page[i].inner) \in Nat /\ DOMAIN page[i].inner = 1 .. Len(page[i].inner)
  BY PageIs, LenProperties
<1>5. ASSUME NEW k \in SectionType, q = [page EXCEPT ![i] = k]
      PROVE  /\ q \in Blocks!Page /\ Len(q) = Len(page) /\ q[i] = k
             /\ \A m \in 1 .. Len(page) : m # i => q[m] = page[m]
  <2>1. q \in Seq(SectionType) /\ Len(q) = Len(page)
    BY <1>4, <1>5, ExceptSeq
  <2>2. q \in Blocks!Page
    BY <2>1 DEF Blocks!Page, SectionType
  <2>3. QED
    BY <1>4, <1>5, <2>1, <2>2
<1>6. CASE j = 0
  <2>1. q = [page EXCEPT ![i] = Blocks!Section(e)]
    BY <1>1, <1>3, <1>6 DEF Blocks!_replace_element_by_id
  <2>2. /\ q \in Blocks!Page /\ Len(q) = Len(page) /\ q[i] = Blocks!Section(e)
        /\ \A m \in 1 .. Len(page) : m # i => q[m] = page[m]
    BY <1>5, <2>1, SectionIs
  <2>3. Blocks!Leaf(e) \in Blocks!Texts(q)
    <3>1. 0 \in Nat /\ 0 <= Len(q[i].inner)
      BY <2>2, PageIs
    <3>2. <<i, 0>> \in Blocks!Places(q)
      BY <2>2, <3>1, PlaceIs
    <3>3. Blocks!At(q, <<i, 0>>) = Blocks!Section(e)
      BY <2>2 DEF Blocks!At
    <3>4. QED
      BY <3>2, <3>3, SectionIs DEF Blocks!Texts
  <2>4. page[i].id = id
    BY <1>1, <1>3, <1>6 DEF Blocks!At
  <2>5. ASSUME NEW p \in Blocks!Places(page), page[p[1]].id # id PROVE Kept(page, p, q)
    <3>1. /\ p = <<p[1], p[2]>> /\ p[1] \in 1 .. Len(page) /\ p[2] \in Nat
          /\ p[2] <= Len(page[p[1]].inner)
      BY PlaceIs
    <3>2. q[p[1]] = page[p[1]] /\ p[1] \in 1 .. Len(q)
      BY <2>2, <2>4, <2>5, <3>1
    <3>3. p \in Blocks!Places(q)
      BY <2>2, <3>1, <3>2, PlaceIs
    <3>4. Blocks!At(q, p) = Blocks!At(page, p)
      BY <3>2 DEF Blocks!At
    <3>5. QED
      BY <3>2, <3>3, <3>4 DEF Kept
  <2>6. QED
    BY <2>2, <2>3, <2>5
<1>7. CASE j # 0
  <2> DEFINE x == page[i].inner
             y == [x EXCEPT ![j] = e]
             k == [page[i] EXCEPT !.inner = y]
  <2>1. j \in 1 .. Len(x)
    BY <1>3, <1>7
  <2>2. y \in Seq(Blocks!LeafType) /\ Len(y) = Len(x) /\ y[j] = e
        /\ \A m \in 1 .. Len(x) : m # j => y[m] = x[m]
    <3> HIDE DEF x
    <3>1. x \in Seq(Blocks!LeafType) /\ DOMAIN x = 1 .. Len(x)
      BY <1>4 DEF x
    <3>2. y \in Seq(Blocks!LeafType) /\ Len(y) = Len(x)
      BY <2>1, <3>1, ExceptSeq
    <3>3. QED
      BY <2>1, <3>1, <3>2
  <2>3. q = [page EXCEPT ![i] = k]
    <3>1. q = [page EXCEPT ![i].inner[j] = Blocks!Leaf(e)]
      BY <1>1, <1>3, <1>7 DEF Blocks!_replace_element_by_id
    <3>2. q = [page EXCEPT ![i].inner[j] = e]
      BY <3>1, SectionIs
    <3>3. QED
      BY <1>4, <3>2 DEF SectionType
  <2> HIDE DEF y
  <2>4. k \in SectionType /\ k.inner = y /\ k.id = page[i].id /\ k.text = page[i].text
    BY <1>4, <2>2 DEF SectionType
  <2> HIDE DEF k
  <2>5. /\ q \in Blocks!Page /\ Len(q) = Len(page) /\ q[i] = k
        /\ \A m \in 1 .. Len(page) : m # i => q[m] = page[m]
    BY <1>5, <2>3, <2>4
  <2>6. Blocks!Leaf(e) \in Blocks!Texts(q)
    <3>1. j \in Nat /\ j <= Len(q[i].inner)
      BY <1>3, <2>2, <2>4, <2>5
    <3>2. <<i, j>> \in Blocks!Places(q)
      BY <2>5, <3>1, PlaceIs
    <3>3. Blocks!At(q, <<i, j>>) = e
      BY <1>7, <2>2, <2>4, <2>5 DEF Blocks!At
    <3>4. QED
      BY <3>2, <3>3 DEF Blocks!Texts
  <2>7. page[i].inner[j].id = id
    BY <1>1, <1>3, <1>7 DEF Blocks!At
  <2>8. ASSUME NEW p \in Blocks!Places(page), Blocks!At(page, p).id # id PROVE Kept(page, p, q)
    <3>1. /\ p = <<p[1], p[2]>> /\ p[1] \in 1 .. Len(page) /\ p[2] \in Nat
          /\ p[2] <= Len(page[p[1]].inner)
      BY PlaceIs
    <3>2. Len(q[p[1]].inner) = Len(page[p[1]].inner) /\ q[p[1]].id = page[p[1]].id
          /\ q[p[1]].text = page[p[1]].text
      BY <2>2, <2>4, <2>5, <3>1
    <3>3. p \in Blocks!Places(q)
      BY <2>5, <3>1, <3>2, PlaceIs
    <3>4. Blocks!Leaf(Blocks!At(q, p)) = Blocks!Leaf(Blocks!At(page, p))
      <4>1. CASE p[2] = 0
        BY <4>1, <3>2 DEF Blocks!At, Blocks!Leaf
      <4>2. CASE p[2] # 0 /\ p[1] = i
        <5>1. p[2] # j
          BY <2>7, <2>8, <4>2 DEF Blocks!At
        <5>2. q[i].inner[p[2]] = page[i].inner[p[2]]
          BY <2>2, <2>4, <2>5, <3>1, <4>2, <5>1
        <5>3. QED
          BY <4>2, <5>2 DEF Blocks!At
      <4>3. CASE p[2] # 0 /\ p[1] # i
        BY <2>5, <3>1, <4>3 DEF Blocks!At
      <4>4. QED
        BY <4>1, <4>2, <4>3
    <3>5. QED
      BY <3>2, <3>3, <3>4 DEF Kept
  <2>9. QED
    BY <2>5, <2>6, <2>8
<1>8. QED
  BY <1>6, <1>7

(* What one block does: it brings its content and keeps all but its target.*)
LEMMA Applied ==
  ASSUME NEW page \in Blocks!Page, NEW b \in Blocks!BlockType,
         NEW q, q = Blocks!Apply(page, b)
  PROVE  /\ q \in Blocks!Page /\ Blocks!Leaf(b.content) \in Blocks!Texts(q)
         /\ \A p \in Blocks!Places(page) :
              \/ Kept(page, p, q)
              \/ /\ b.op = "replace" /\ b.target # Blocks!Body
                 /\ b.target \in {Blocks!At(page, p).id, page[p[1]].id}
<1>1. b.content \in Blocks!LeafType
  BY DEF Blocks!BlockType
<1>2. CASE /\ b.op = "replace" /\ b.target # Blocks!Body
           /\ Blocks!Hits(page, b.target) # {}
  <2>1. q = Blocks!_replace_element_by_id(page, b.target, b.content)
    BY <1>2 DEF Blocks!Apply, Blocks!_apply_replace
  <2>2. QED
    BY <1>1, <1>2, <2>1, Replaced
<1>3. CASE \/ b.op = "append_to_body"
           \/ b.op = "replace" /\ ~(b.target # Blocks!Body /\ Blocks!Hits(page, b.target) # {})
  <2>1. q = Blocks!_apply_append_to_body(page, b.content)
    BY <1>3 DEF Blocks!Apply, Blocks!_apply_replace
  <2>2. QED
    BY <1>1, <2>1, Appended
<1>4. CASE b.op = "prepend_to_body"
  <2>1. q = Blocks!_apply_prepend_to_body(page, b.content)
    BY <1>4 DEF Blocks!Apply
  <2>2. QED
    BY <1>1, <2>1, Prepended
<1>5. QED
  BY <1>2, <1>3, <1>4 DEF Blocks!BlockType, Blocks!Operations

LEMMA AfterBlocksIsPage ==
  ASSUME NEW b, Blocks!IsBuild(b), Blocks!IsFiles(files), NEW path,
         NEW f, AfterBlocks(f, b, path)
  PROVE  \A k \in 0 .. Len(b.blocks) : f[k] \in Blocks!Page
<1>1. /\ Len(b.blocks) \in Nat
      /\ \A k \in 1 .. Len(b.blocks) : b.blocks[k] \in Blocks!BlockType
  BY LenProperties, ElementOfSeq DEF Blocks!IsBuild
<1> DEFINE T == {k \in 0 .. Len(b.blocks) : f[k] \in Blocks!Page}
<1>2. 0 \in T
  <2>1. <<>> \in Blocks!Page
    BY DEF Blocks!Page
  <2>2. path \in DOMAIN files => files[path] \in Blocks!Page
    BY DEF Blocks!IsFiles
  <2>3. f[0] \in Blocks!Page
    BY <2>1, <2>2 DEF AfterBlocks, Blocks!PageOf
  <2>4. QED
    BY <1>1, <2>3
<1>3. ASSUME NEW k \in 0 .. Len(b.blocks), k \in T, k < Len(b.blocks) PROVE k + 1 \in T
  <2>1. k + 1 \in 1 .. Len(b.blocks) /\ k + 1 - 1 = k
    BY <1>1, <1>3
  <2>2. PICK c \in Blocks!BlockType : c = b.blocks[k + 1]
    BY <1>1, <2>1
  <2>3. PICK page \in Blocks!Page : page = f[k]
    BY <1>3
  <2>4. f[k + 1] = Blocks!Apply(page, c) \/ f[k + 1] = page
    BY <2>1, <2>2, <2>3 DEF AfterBlocks
  <2>5. f[k + 1] \in Blocks!Page
    BY <2>4, Applied
  <2>6. QED
    BY <1>1, <2>1, <2>5
<1> HIDE DEF T
<1>4. ASSUME NEW n \in 0 .. Len(b.blocks) PROVE n \in T
  <2>1. 0 \in Nat /\ n \in Nat /\ 0 <= n /\ \A k \in 0 .. n : k \in T /\ k < n => k + 1 \in T
    BY <1>1, <1>3
  <2>2. QED
    BY <1>2, <2>1, CountFrom
<1>5. QED
  BY <1>4 DEF T

LEMMA MergedIsPage ==
  ASSUME NEW b, Blocks!IsBuild(b), Blocks!IsFiles(files), NEW path
  PROVE  Blocks!Merged(b, path) \in Blocks!Page
<1>1. Len(b.blocks) \in Nat /\ Len(b.blocks) \in 0 .. Len(b.blocks)
  <2>1. Len(b.blocks) \in Nat
    BY LenProperties DEF Blocks!IsBuild
  <2>2. QED
    BY <2>1
<1>2. PICK f : AfterBlocks(f, b, path) /\ Blocks!Merged(b, path) = f[Len(b.blocks)]
  BY MergedIs
<1>3. QED
  BY <1>1, <1>2, AfterBlocksIsPage

----------------------------------------------------------------------------
(* The candidate.                                                          *)

RefType == [path : Paths, page : Blocks!Page]

(* The elements of a finite set in some order.                             *)
Ordered(S) == CHOOSE s \in [1 .. Blocks!Cardinality(S) -> S] : Blocks!Range(s) = S

LEMMA OrderedIs ==
  ASSUME NEW S, IsFiniteSet(S)
  PROVE  /\ Ordered(S) \in Seq(S)
         /\ \A x : x \in S <=> \E i \in 1 .. Len(Ordered(S)) : Ordered(S)[i] = x
<1> DEFINE n == Blocks!Cardinality(S)
<1>1. n = Cardinality(S)
  BY DEF Blocks!Cardinality, Cardinality
<1>2. n \in Nat /\ ExistsBijection(1 .. n, S)
  BY <1>1, FS_CardinalityType
<1> HIDE DEF n
<1>3. PICK f \in [1 .. n -> S] : \A x \in S : \E i \in 1 .. n : f[i] = x
  BY <1>2 DEF ExistsBijection, Bijection, Surjection
<1>4. Blocks!Range(f) = S
  BY <1>3 DEF Blocks!Range
<1>5. PICK s \in [1 .. n -> S] : s = Ordered(S) /\ Blocks!Range(s) = S
  <2> DEFINE P(x) == x \in [1 .. n -> S] /\ Blocks!Range(x) = S
  <2>1. P(f)
    BY <1>4
  <2>2. Ordered(S) = CHOOSE x \in [1 .. n -> S] : Blocks!Range(x) = S
    BY Zenon DEF Ordered, n
  <2>3. \E x \in [1 .. n -> S] : Blocks!Range(x) = S
    BY <1>4
  <2>4. QED
    BY <2>2, <2>3
<1>6. s \in Seq(S) /\ Len(s) = n
  <2>1. s \in Seq(S)
    BY <1>2, <1>5, SeqDef
  <2>2. DOMAIN s = 1 .. n
    BY <1>5
  <2>3. QED
    BY <1>2, <2>1, <2>2, LenProperties
<1>7. \A x : x \in S <=> \E i \in 1 .. n : s[i] = x
  BY <1>5 DEF Blocks!Range
<1>8. QED
  BY <1>5, <1>6, <1>7

LEMMA FilesAreFinite ==
  ASSUME NEW D, IsFiniteSet(D), NEW F
  PROVE  IsFiniteSet({[path |-> p, page |-> F[p]] : p \in D})
<1> DEFINE T == {[path |-> p, page |-> F[p]] : p \in D}
           g == [p \in D |-> [path |-> p, page |-> F[p]]]
<1>1. g \in Surjection(D, T)
  BY DEF Surjection
<1>2. QED
  BY <1>1, FS_Surjection

(* What the files of the candidate are.                                    *)
LEMMA CandidateIs ==
  ASSUME NEW b, Blocks!IsBuild(b), Blocks!IsFiles(files),
         NEW r, r = Blocks!_apply_html_blocks_to_candidate(b)
  PROVE  /\ r \in Seq(RefType)
         /\ \A i \in DOMAIN r :
              \/ r[i].path \in DOMAIN b.own
              \/ r[i].path \in Blocks!Changed(b) /\ r[i].page = Blocks!Merged(b, r[i].path)
         /\ \A path \in Blocks!Changed(b) : \E i \in DOMAIN r : r[i].path = path
<1> DEFINE changed == Blocks!Changed(b)
           own == {[path |-> p, page |-> b.own[p]] : p \in DOMAIN b.own}
           kept == {x \in own : x.path \notin changed}
           new == {[path |-> p, page |-> Blocks!Merged(b, p)] : p \in changed}
           values == kept \cup new
<1>1. IsFiniteSet(own) /\ IsFiniteSet(kept) /\ IsFiniteSet(values)
  <2>1. IsFiniteSet(DOMAIN b.own)
    BY FS_Subset, BlocksAssumption DEF Blocks!IsBuild, Blocks!IsFiles
  <2>2. IsFiniteSet(own)
    <3>1. PICK F : F = [p \in DOMAIN b.own |-> b.own[p]]
      OBVIOUS
    <3>2. own = {[path |-> p, page |-> F[p]] : p \in DOMAIN b.own}
      BY <3>1
    <3>3. QED
      BY <2>1, <3>2, FilesAreFinite
  <2>3. IsFiniteSet(kept)
    <3>1. kept \in SUBSET own
      OBVIOUS
    <3> HIDE DEF kept, own
    <3>2. QED
      BY <2>2, <3>1, FS_Subset
  <2>4. IsFiniteSet(changed)
    <3>1. changed \in SUBSET Paths
      BY DEF Blocks!Changed
    <3> HIDE DEF changed
    <3>2. QED
      BY <3>1, FS_Subset, BlocksAssumption
  <2>5. IsFiniteSet(new)
    <3>1. PICK F : F = [p \in changed |-> Blocks!Merged(b, p)]
      OBVIOUS
    <3>2. new = {[path |-> p, page |-> F[p]] : p \in changed}
      BY <3>1
    <3>3. QED
      BY <2>4, <3>2, FilesAreFinite
  <2>6. QED
    BY <2>3, <2>5, <2>2, FS_Union
<1>2. /\ own \subseteq RefType /\ values \subseteq RefType
      /\ changed \subseteq Paths
  <2>1. changed \subseteq Paths
    BY DEF Blocks!Changed
  <2>2. \A p \in DOMAIN b.own : p \in Paths /\ b.own[p] \in Blocks!Page
    BY DEF Blocks!IsBuild, Blocks!IsFiles
  <2>3. own \subseteq RefType
    BY <2>2 DEF RefType
  <2>4. \A p \in changed : Blocks!Merged(b, p) \in Blocks!Page
    BY MergedIsPage
  <2> HIDE DEF changed
  <2>5. new \subseteq RefType
    BY <2>1, <2>4 DEF RefType
  <2>6. QED
    BY <2>1, <2>3, <2>5
<1>3. r = IF changed = {} THEN Ordered(own) ELSE Ordered(kept) \o Ordered(values)
  BY DEF Blocks!_apply_html_blocks_to_candidate, Ordered
<1> DEFINE Listed(x) == \/ x.path \in DOMAIN b.own
                        \/ x.path \in changed /\ x.page = Blocks!Merged(b, x.path)
<1>4. (\A x \in own : Listed(x)) /\ (\A x \in values : Listed(x))
  OBVIOUS
<1>5. ASSUME NEW path \in changed PROVE \E x \in values : x.path = path
  <2>1. [path |-> path, page |-> Blocks!Merged(b, path)] \in values
    OBVIOUS
  <2> HIDE DEF values
  <2>2. QED
    BY <2>1
<1>6. kept \subseteq own
  OBVIOUS
<1> HIDE DEF own, kept, values, new, Listed, changed
<1>7. CASE changed = {}
  <2>1. r = Ordered(own)
    BY <1>3, <1>7
  <2>2. r \in Seq(own) /\ \A x : x \in own <=> \E i \in 1 .. Len(r) : r[i] = x
    BY <1>1, <2>1, OrderedIs
  <2>3. DOMAIN r = 1 .. Len(r) /\ \A i \in DOMAIN r : r[i] \in own
    BY <2>2, LenProperties, ElementOfSeq
  <2>4. r \in Seq(RefType)
    BY <1>2, <2>2, <2>3, LenProperties, SeqDef
  <2>5. QED
    BY <1>4, <1>7, <2>3, <2>4 DEF Listed, changed
<1>8. CASE changed # {}
  <2> DEFINE s == Ordered(kept)
             t == Ordered(values)
  <2>1. s \in Seq(kept) /\ t \in Seq(values)
        /\ \A x : x \in values <=> \E i \in 1 .. Len(t) : t[i] = x
    BY <1>1, OrderedIs
  <2>2. r = s \o t
    BY <1>3, <1>8
  <2> HIDE DEF s, t
  <2>3. s \in Seq(RefType) /\ t \in Seq(RefType) /\ Len(s) \in Nat /\ Len(t) \in Nat
        /\ (\A i \in 1 .. Len(s) : s[i] \in kept) /\ (\A i \in 1 .. Len(t) : t[i] \in values)
    BY <1>2, <1>6, <2>1, LenProperties, ElementOfSeq, SeqDef
  <2>4. /\ r \in Seq(RefType) /\ Len(r) = Len(s) + Len(t)
        /\ \A i \in 1 .. Len(s) + Len(t) :
             r[i] = IF i <= Len(s) THEN s[i] ELSE t[i - Len(s)]
    BY <2>2, <2>3, ConcatProperties
  <2>5. DOMAIN r = 1 .. Len(s) + Len(t)
    BY <2>4, LenProperties
  <2>6. ASSUME NEW i \in DOMAIN r PROVE Listed(r[i])
    <3>1. CASE i <= Len(s)
      <4>1. i \in 1 .. Len(s) /\ r[i] = s[i]
        BY <2>3, <2>4, <2>5, <3>1
      <4>2. QED
        BY <1>4, <1>6, <2>3, <4>1
    <3>2. CASE ~(i <= Len(s))
      <4>1. i - Len(s) \in 1 .. Len(t) /\ r[i] = t[i - Len(s)]
        BY <2>3, <2>4, <2>5, <3>2
      <4>2. QED
        BY <1>4, <2>3, <4>1
    <3>3. QED
      BY <3>1, <3>2
  <2>7. ASSUME NEW path \in changed PROVE \E i \in DOMAIN r : r[i].path = path
    <3>1. PICK j \in 1 .. Len(t) : t[j].path = path
      BY <1>5, <2>1
    <3>2. Len(s) + j \in DOMAIN r /\ r[Len(s) + j] = t[j]
      BY <2>3, <2>4, <2>5
    <3>3. QED
      BY <3>1, <3>2
  <2>8. QED
    BY <2>4, <2>6, <2>7 DEF Listed, changed
<1>9. QED
  BY <1>7, <1>8

LEMMA FileOfIs ==
  ASSUME refs \in Seq(RefType), NEW path \in Blocks!RefPaths
  PROVE  \E i \in DOMAIN refs : refs[i].path = path /\ Blocks!FileOf(path) = refs[i].page
<1> DEFINE here == {i \in DOMAIN refs : refs[i].path = path}
           m == CHOOSE i \in here : \A j \in here : j <= i
<1>1. Len(refs) \in Nat /\ DOMAIN refs = 1 .. Len(refs)
  BY LenProperties
<1>2. PICK x \in here : TRUE
  BY DEF Blocks!RefPaths
<1>3. here \in SUBSET Nat /\ \A y \in here : y <= Len(refs)
  BY <1>1
<1>4. \E i \in here : \A j \in here : j <= i
  <2> HIDE DEF here
  <2>1. QED
    BY <1>1, <1>2, <1>3, Largest
<1>5. m \in here
  BY <1>4
<1>6. Blocks!FileOf(path) = refs[m].page
  BY DEF Blocks!FileOf
<1>7. QED
  BY <1>5, <1>6

(* What holds between two steps: the candidate is the build's.             *)
BlocksInv ==
  /\ build \in Builds \cup {Blocks!Nothing} /\ Blocks!IsBuild(build)
  /\ Blocks!IsFiles(files)
  /\ refs \in Seq(RefType)
  /\ staged \in 0 .. MaxStaged
  /\ build # Blocks!Nothing => refs = Blocks!_apply_html_blocks_to_candidate(build)

LEMMA NothingIsBuild == Blocks!IsBuild(Blocks!Nothing) /\ <<>> \in Seq(RefType)
BY EmptySeq DEF Blocks!IsBuild, Blocks!Nothing, Blocks!IsFiles

LEMMA BlocksStart == Blocks!Init => BlocksInv
BY NothingIsBuild, BlocksAssumption DEF Blocks!Init, BlocksInv

LEMMA StagedFiles ==
  ASSUME BlocksInv, NEW D, D \subseteq Paths,
         NEW map, map = [p \in D |-> IF p \in Blocks!RefPaths THEN Blocks!FileOf(p) ELSE files[p]],
         \A p \in D : p \in Blocks!RefPaths \/ p \in DOMAIN files
  PROVE  Blocks!IsFiles(map)
<1>1. ASSUME NEW p \in D
      PROVE  (IF p \in Blocks!RefPaths THEN Blocks!FileOf(p) ELSE files[p]) \in Blocks!Page
  <2>1. CASE p \in Blocks!RefPaths
    <3>1. PICK i \in DOMAIN refs : refs[i].path = p /\ Blocks!FileOf(p) = refs[i].page
      BY <2>1, FileOfIs DEF BlocksInv
    <3>2. refs[i] \in RefType
      BY LenProperties, ElementOfSeq DEF BlocksInv
    <3>3. QED
      BY <2>1, <3>1, <3>2 DEF RefType
  <2>2. CASE p \notin Blocks!RefPaths
    BY <2>2 DEF BlocksInv, Blocks!IsFiles
  <2>3. QED
    BY <2>1, <2>2
<1>2. DOMAIN map = D /\ map \in [D -> Blocks!Page]
  BY <1>1
<1>3. QED
  BY <1>2 DEF Blocks!IsFiles

LEMMA BlocksStep == BlocksInv /\ [Blocks!Next]_(Blocks!vars) => BlocksInv'
<1> SUFFICES ASSUME BlocksInv, [Blocks!Next]_(Blocks!vars) PROVE BlocksInv'
  OBVIOUS
<1>1. CASE Blocks!GeneratorAnswers
  <2>1. PICK b \in Builds : build' = b /\ refs' = Blocks!_apply_html_blocks_to_candidate(b)
                            /\ UNCHANGED <<files, staged>>
    BY <1>1 DEF Blocks!GeneratorAnswers
  <2>2. Blocks!IsBuild(b)
    BY BlocksAssumption
  <2>3. PICK r : r = Blocks!_apply_html_blocks_to_candidate(b) /\ r \in Seq(RefType)
    BY <2>2, CandidateIs DEF BlocksInv
  <2>4. UNCHANGED files
    BY <2>1
  <2>5. Blocks!_apply_html_blocks_to_candidate(b)' = Blocks!_apply_html_blocks_to_candidate(b)
    <3> HIDE <1>1
    <3>1. QED
      BY <2>4 DEF Blocks!_apply_html_blocks_to_candidate, Blocks!Changed, Blocks!Merged,
           Blocks!PageOf
  <2>6. QED
    BY <2>1, <2>2, <2>3, <2>5 DEF BlocksInv, Blocks!IsFiles
<1>2. CASE Blocks!Retry
  BY <1>2, NothingIsBuild DEF Blocks!Retry, BlocksInv
<1>3. CASE Blocks!StageCandidate
  <2>1. PICK rebuild \in BOOLEAN :
          files' = [p \in Blocks!RefPaths \cup (IF rebuild THEN {} ELSE DOMAIN files) |->
                      IF p \in Blocks!RefPaths THEN Blocks!FileOf(p) ELSE files[p]]
    BY <1>3 DEF Blocks!StageCandidate
  <2> DEFINE D == Blocks!RefPaths \cup (IF rebuild THEN {} ELSE DOMAIN files)
  <2>2. D \subseteq Paths
    <3>1. \A i \in DOMAIN refs : refs[i] \in RefType
      BY LenProperties, ElementOfSeq DEF BlocksInv
    <3>2. QED
      BY <3>1 DEF BlocksInv, Blocks!RefPaths, RefType, Blocks!IsFiles
  <2>3. PICK map : map = files'
    OBVIOUS
  <2>4. Blocks!IsFiles(map)
    <3>1. \A p \in D : p \in Blocks!RefPaths \/ p \in DOMAIN files
      OBVIOUS
    <3>2. map = [p \in D |-> IF p \in Blocks!RefPaths THEN Blocks!FileOf(p) ELSE files[p]]
      BY <2>1, <2>3
    <3> HIDE DEF D
    <3>3. QED
      BY <2>2, <3>1, <3>2, StagedFiles
  <2>5. staged' \in 0 .. MaxStaged
    BY <1>3, BlocksAssumption DEF Blocks!StageCandidate, BlocksInv
  <2>6. QED
    BY <1>3, <2>3, <2>4, <2>5, NothingIsBuild DEF Blocks!StageCandidate, BlocksInv
<1>4. CASE UNCHANGED Blocks!vars
  <2>1. UNCHANGED <<files, build, refs, staged>>
    BY <1>4 DEF Blocks!vars
  <2>2. Blocks!_apply_html_blocks_to_candidate(build)'
          = Blocks!_apply_html_blocks_to_candidate(build)
    BY <2>1 DEF Blocks!_apply_html_blocks_to_candidate, Blocks!Changed, Blocks!Merged,
         Blocks!PageOf
  <2>3. QED
    BY <2>1, <2>2 DEF BlocksInv
<1>5. QED
  BY <1>1, <1>2, <1>3, <1>4 DEF Blocks!Next

----------------------------------------------------------------------------
(* What a reader of the candidate sees.                                    *)

LEMMA ShownIsMerged ==
  ASSUME BlocksInv, NEW path, Blocks!HasBlock(build, path), path \notin DOMAIN build.own
  PROVE  Blocks!Shown(path) = Blocks!Merged(build, path)
<1>1. PICK k \in DOMAIN build.blocks : build.blocks[k].path = path
  BY DEF Blocks!HasBlock
<1>2. build # Blocks!Nothing
  BY <1>1 DEF Blocks!Nothing
<1>3. path \in Paths
  <2>1. build.blocks[k] \in Blocks!BlockType
    BY LenProperties, ElementOfSeq DEF BlocksInv, Blocks!IsBuild
  <2>2. QED
    BY <1>1, <2>1 DEF Blocks!BlockType
<1>4. /\ \A i \in DOMAIN refs :
           \/ refs[i].path \in DOMAIN build.own
           \/ /\ refs[i].path \in Blocks!Changed(build)
              /\ refs[i].page = Blocks!Merged(build, refs[i].path)
      /\ \A p \in Blocks!Changed(build) : \E i \in DOMAIN refs : refs[i].path = p
  BY <1>2, CandidateIs DEF BlocksInv
<1>5. CASE path \in Blocks!RefPaths
  <2>1. PICK i \in DOMAIN refs : refs[i].path = path /\ Blocks!FileOf(path) = refs[i].page
    BY <1>5, FileOfIs DEF BlocksInv
  <2>2. refs[i].page = Blocks!Merged(build, path)
    BY <1>4, <2>1
  <2>3. QED
    BY <1>5, <2>1, <2>2 DEF Blocks!Shown
<1>6. CASE path \notin Blocks!RefPaths
  <2>1. path \notin Blocks!Changed(build)
    BY <1>4, <1>6 DEF Blocks!RefPaths
  <2>2. path \in DOMAIN files /\ Blocks!Merged(build, path) = files[path]
    BY <1>3, <2>1 DEF Blocks!Changed
  <2>3. QED
    BY <1>6, <2>2 DEF Blocks!Shown, Blocks!PageOf
<1>7. QED
  BY <1>5, <1>6

LEMMA KeptText ==
  ASSUME NEW page, NEW p, NEW q, Kept(page, p, q)
  PROVE  Blocks!Leaf(Blocks!At(page, p)) \in Blocks!Texts(q)
BY DEF Kept, Blocks!Texts

(* The pages between, with what a block of the page does.                  *)
LEMMA NextPage ==
  ASSUME BlocksInv, NEW path, NEW f, AfterBlocks(f, build, path),
         NEW k \in 0 .. Len(build.blocks), k < Len(build.blocks)
  PROVE  /\ k + 1 \in 1 .. Len(build.blocks) /\ f[k] \in Blocks!Page
         /\ build.blocks[k + 1].path = path =>
              \E b \in Blocks!BlockType :
                b = build.blocks[k + 1] /\ f[k + 1] = Blocks!Apply(f[k], b)
         /\ build.blocks[k + 1].path # path => f[k + 1] = f[k]
<1>1. Len(build.blocks) \in Nat /\ k + 1 \in 1 .. Len(build.blocks) /\ k + 1 - 1 = k
  <2>1. Len(build.blocks) \in Nat
    BY LenProperties DEF BlocksInv, Blocks!IsBuild
  <2>2. QED
    BY <2>1
<1>2. build.blocks[k + 1] \in Blocks!BlockType
  BY <1>1, ElementOfSeq DEF BlocksInv, Blocks!IsBuild
<1>3. f[k] \in Blocks!Page
  BY AfterBlocksIsPage DEF BlocksInv
<1>4. QED
  BY <1>1, <1>2, <1>3 DEF AfterBlocks

(* The work of every block is on its page.                                 *)
THEOREM WorkIsAlwaysShown == Blocks!Spec => []WorkIsShown
<1>1. ASSUME BlocksInv, NEW i \in DOMAIN build.blocks,
             build.blocks[i].path \notin DOMAIN build.own,
             \A j \in DOMAIN build.blocks :
               j > i /\ build.blocks[j].path = build.blocks[i].path
                 => ~(build.blocks[j].op = "replace" /\ build.blocks[j].target # Blocks!Body)
      PROVE  Blocks!Leaf(build.blocks[i].content)
               \in Blocks!Texts(Blocks!Shown(build.blocks[i].path))
  <2> DEFINE path == build.blocks[i].path
             n == Len(build.blocks)
             text == Blocks!Leaf(build.blocks[i].content)
  <2>1. n \in Nat /\ DOMAIN build.blocks = 1 .. n
    BY <1>1, LenProperties DEF BlocksInv, Blocks!IsBuild
  <2>2. Blocks!Shown(path) = Blocks!Merged(build, path)
    BY <1>1, ShownIsMerged DEF Blocks!HasBlock
  <2>3. PICK f : AfterBlocks(f, build, path) /\ Blocks!Merged(build, path) = f[n]
    BY <1>1, MergedIs DEF BlocksInv
  <2> DEFINE T == {k \in i .. n : text \in Blocks!Texts(f[k])}
  <2>4. i \in T
    <3>1. i - 1 \in 0 .. n /\ i - 1 < n /\ i - 1 + 1 = i
      BY <2>1
    <3>2. PICK b \in Blocks!BlockType : b = build.blocks[i] /\ f[i] = Blocks!Apply(f[i - 1], b)
      BY <1>1, <2>3, <3>1, NextPage
    <3>3. f[i - 1] \in Blocks!Page
      BY <1>1, <2>3, <3>1, NextPage
    <3>4. text \in Blocks!Texts(f[i])
      BY <3>2, <3>3, Applied
    <3>5. i \in i .. n
      BY <2>1
    <3> HIDE DEF text
    <3>6. QED
      BY <3>4, <3>5
  <2>5. ASSUME NEW k \in i .. n, k \in T, k < n PROVE k + 1 \in T
    <3>1. k \in 0 .. n /\ k + 1 \in i .. n /\ k + 1 \in 1 .. n /\ k + 1 > i
      BY <2>1, <2>5
    <3>2. f[k] \in Blocks!Page
      BY <1>1, <2>3, <2>5, <3>1, NextPage
    <3>3. PICK p \in Blocks!Places(f[k]) : Blocks!Leaf(Blocks!At(f[k], p)) = text
      BY <2>5 DEF Blocks!Texts
    <3>4. CASE build.blocks[k + 1].path = path
      <4>1. PICK b \in Blocks!BlockType :
              b = build.blocks[k + 1] /\ f[k + 1] = Blocks!Apply(f[k], b)
        BY <1>1, <2>3, <2>5, <3>1, <3>4, NextPage
      <4>2. ~(b.op = "replace" /\ b.target # Blocks!Body)
        BY <1>1, <2>1, <3>1, <3>4, <4>1
      <4>3. Kept(f[k], p, f[k + 1])
        BY <3>2, <4>1, <4>2, Applied
      <4>4. text \in Blocks!Texts(f[k + 1])
        BY <3>3, <4>3, KeptText
      <4> HIDE DEF text
      <4>5. QED
        BY <3>1, <4>4
    <3>5. CASE build.blocks[k + 1].path # path
      <4>1. f[k + 1] = f[k]
        BY <1>1, <2>3, <2>5, <3>1, <3>5, NextPage
      <4> HIDE DEF text
      <4>2. QED
        BY <2>5, <3>1, <4>1
    <3>6. QED
      BY <3>4, <3>5
  <2>6. i \in Nat /\ i <= n
    BY <2>1
  <2>7. \A k \in i .. n : k \in T /\ k < n => k + 1 \in T
    BY <2>5
  <2> HIDE DEF T
  <2>8. n \in T
    BY <2>1, <2>4, <2>6, <2>7, CountFrom
  <2>9. QED
    BY <2>2, <2>3, <2>8 DEF T
<1>2. BlocksInv => WorkIsShown
  BY <1>1 DEF WorkIsShown, Blocks!WorkIsShown
<1>3. QED
  BY BlocksStart, BlocksStep, <1>2, PTL DEF Blocks!Spec

(* What no block of a page replaces is still there.                        *)
THEOREM RestIsAlwaysKept == Blocks!Spec => []RestIsKept
<1>1. ASSUME BlocksInv, NEW path \in DOMAIN files \ DOMAIN build.own,
             Blocks!HasBlock(build, path),
             NEW p \in Blocks!Places(files[path]),
             Blocks!Untouched(path, files[path], p)
      PROVE  Blocks!Leaf(Blocks!At(files[path], p)) \in Blocks!Texts(Blocks!Shown(path))
  <2> DEFINE n == Len(build.blocks)
             old == files[path]
  <2>1. n \in Nat /\ DOMAIN build.blocks = 1 .. n
    BY <1>1, LenProperties DEF BlocksInv, Blocks!IsBuild
  <2>2. Blocks!Shown(path) = Blocks!Merged(build, path)
    BY <1>1, ShownIsMerged
  <2>3. PICK f : AfterBlocks(f, build, path) /\ Blocks!Merged(build, path) = f[n]
    BY <1>1, MergedIs DEF BlocksInv
  <2> DEFINE T == {k \in 0 .. n : Kept(old, p, f[k])}
  <2>4. 0 \in T
    <3>1. f[0] = old
      BY <1>1, <2>3 DEF AfterBlocks, Blocks!PageOf
    <3>2. QED
      BY <2>1, <3>1 DEF Kept
  <2>5. ASSUME NEW k \in 0 .. n, k \in T, k < n PROVE k + 1 \in T
    <3>1. k + 1 \in 0 .. n /\ k + 1 \in 1 .. n
      BY <2>1, <2>5
    <3>2. f[k] \in Blocks!Page
      BY <1>1, <2>3, <2>5, NextPage
    <3>3. PICK q \in Blocks!Places(f[k]) :
            /\ Blocks!Leaf(Blocks!At(f[k], q)) = Blocks!Leaf(Blocks!At(old, p))
            /\ f[k][q[1]].id = old[p[1]].id
      BY <2>5 DEF Kept
    <3>4. Blocks!At(f[k], q).id = Blocks!At(old, p).id
      BY <3>3 DEF Blocks!Leaf
    <3>5. CASE build.blocks[k + 1].path = path
      <4>1. PICK b \in Blocks!BlockType :
              b = build.blocks[k + 1] /\ f[k + 1] = Blocks!Apply(f[k], b)
        BY <1>1, <2>3, <2>5, <3>5, NextPage
      <4>2. b.op = "replace" => b.target \in Blocks!Targets(path)
        BY <2>1, <3>1, <3>5, <4>1 DEF Blocks!Targets
      <4>3. b.op = "replace" => b.target \notin {Blocks!At(f[k], q).id, f[k][q[1]].id}
        BY <1>1, <3>3, <3>4, <4>2 DEF Blocks!Untouched
      <4>4. Kept(f[k], q, f[k + 1])
        BY <3>2, <4>1, <4>3, Applied
      <4>5. Kept(old, p, f[k + 1])
        BY <3>3, <4>4 DEF Kept
      <4>6. QED
        BY <3>1, <4>5
    <3>6. CASE build.blocks[k + 1].path # path
      <4>1. f[k + 1] = f[k]
        BY <1>1, <2>3, <2>5, <3>6, NextPage
      <4>2. QED
        BY <2>5, <3>1, <4>1
    <3>7. QED
      BY <3>5, <3>6
  <2>6. 0 \in Nat /\ 0 <= n
    BY <2>1
  <2>7. \A k \in 0 .. n : k \in T /\ k < n => k + 1 \in T
    BY <2>5
  <2> HIDE DEF T, n
  <2>8. n \in T
    BY <2>1, <2>4, <2>6, <2>7, CountFrom
  <2>9. QED
    BY <2>2, <2>3, <2>8, KeptText DEF T, n
<1>2. BlocksInv => RestIsKept
  BY <1>1 DEF RestIsKept, Blocks!RestIsKept
<1>3. QED
  BY BlocksStart, BlocksStep, <1>2, PTL DEF Blocks!Spec

(* Pages, blocks and the files of the candidate have their types.          *)
THEOREM BlocksTyped == Blocks!Spec => []Blocks!TypeOK
<1>1. BlocksInv => Blocks!TypeOK
  BY DEF BlocksInv, Blocks!TypeOK, RefType
<1>2. QED
  BY BlocksStart, BlocksStep, <1>1, PTL DEF Blocks!Spec

----------------------------------------------------------------------------
(* The gates.                                                              *)

(* The gates, without their place in the order.                            *)
Gated(r) ==
  {reconcile_evaluator_false_negatives(r), merge_gallery_strip_harness_checks(r),
   apply_duplicate_staging_rejection(r), apply_fresh_habitat_duplicate_output_gate(r),
   apply_preview_surface_gate(r), apply_literal_success_checks(r),
   apply_cool_lane_motion_signal_gate(r), apply_cool_lane_execution_acknowledgment_gates(r),
   apply_interactive_lane_evaluator_gate(r), GroundingGate(r), SpatialGate(r), r}

(* A downgrade of what the model passed is explained at once, not only at  *)
(* the end.                                                                *)
Explained(r) ==
  said.status = "pass" /\ r.status # "pass" => r.issues \cap GateIssues # {} \/ r.groundingOnly

IInv ==
  /\ TypeOK /\ Explained(report)
  /\ "demo_preview_grounding_not_satisfied" \in report.issues => report.groundingOnly

(* A step applies one gate.                                                *)
LEMMA OneGate ==
  ASSUME TypeOK, Next
  PROVE  /\ report' \in Gated(report)
         /\ step' \in 1..Len(Steps)
         /\ UNCHANGED <<config, candidate, said>>
<1>1. step \in 1..13 /\ Len(Steps) = 13
  BY DEF TypeOK, Steps
<1>2. Steps[step] # "done" => step + 1 \in 1..13
  BY <1>1 DEF Steps
<1>3. QED
  BY <1>1, <1>2 DEF Next, Gate, Gated, Reconcile, Harness, Duplicate, Fresh, Surface, Literal, Motion,
     Acknowledgment, Lane, Grounding, Spatial, Save

(* A gate leaves a report, which is not better than it was, and explains   *)
(* what it makes worse.                                                    *)
LEMMA GateResult ==
  ASSUME TypeOK, NEW r \in Gated(report)
  PROVE  /\ r \in ReportType
         /\ Severity[r.status] >= Severity[report.status]
         /\ Explained(report) => Explained(r)
         /\ ("demo_preview_grounding_not_satisfied" \in report.issues => report.groundingOnly)
              => ("demo_preview_grounding_not_satisfied" \in r.issues => r.groundingOnly)
<1> USE DEF Partial, Reviewable
<1>1. report \in ReportType /\ candidate.findings \subseteq LaneCodes
  BY EvaluationAssumption DEF TypeOK, CandidateType
<1>2. /\ Severity["pass"] = 0 /\ Severity["partial"] = 1 /\ Severity["fail"] = 2 /\ Severity["blocked"] = 3
  BY DEF Severity, Statuses
<1>3. report.status \in Statuses
  BY <1>1 DEF ReportType
<1> DEFINE Code == "demo_preview_grounding_not_satisfied"
           Fine(q) ==
             /\ q \in ReportType
             /\ report.issues \cap GateIssues \subseteq q.issues
             /\ report.groundingOnly => q.groundingOnly
             /\ \/ q.status = report.status
                \/ /\ q.status \in {"partial", "fail"} /\ report.status \in {"pass", "partial"}
                   /\ q.issues \cap GateIssues # {}
             /\ Code \in q.issues => Code \in report.issues \/ q.groundingOnly
<1>4. Fine(report)
  BY <1>1
<1>5. ASSUME NEW s \in {"partial", "fail"}, NEW w \in SUBSET (GateIssues \ {Code}), w # {},
             report.status \in {"pass", "partial"}
      PROVE  Fine([report EXCEPT !.status = s, !.issues = report.issues \cup w])
  <2> DEFINE q == [report EXCEPT !.status = s, !.issues = report.issues \cup w]
  <2>1. /\ q.status = s /\ q.issues = report.issues \cup w
        /\ q.groundingOnly = report.groundingOnly /\ q \in ReportType
    BY <1>1, <1>5 DEF ReportType, Statuses
  <2> HIDE DEF q
  <2>2. Fine(q)
    BY <1>5, <2>1
  <2>3. QED
    BY <2>2 DEF q
<1>6. Fine(reconcile_evaluator_false_negatives(report))
  <2> DEFINE gone == (IF OperatorHost # "none" THEN {"missing_preview"} ELSE {})
                       \cup (IF candidate.h1 THEN {"missing_h1"} ELSE {})
             q    == [report EXCEPT !.issues = report.issues \ gone]
  <2>1. gone \subseteq Disputable /\ Disputable \cap GateIssues = {}
    BY DEF Disputable, GateIssues, LaneCodes
  <2>2. reconcile_evaluator_false_negatives(report) = q
    BY DEF reconcile_evaluator_false_negatives
  <2> HIDE DEF gone
  <2>3. /\ q.status = report.status /\ q.issues = report.issues \ gone
        /\ q.groundingOnly = report.groundingOnly /\ q \in ReportType
    BY <1>1 DEF ReportType
  <2> HIDE DEF q
  <2>4. QED
    BY <2>1, <2>2, <2>3
<1>7. Fine(merge_gallery_strip_harness_checks(report))
  <2> DEFINE q == [report EXCEPT !.harness = TRUE]
  <2>1. /\ q.status = report.status /\ q.issues = report.issues
        /\ q.groundingOnly = report.groundingOnly /\ q \in ReportType
    BY <1>1 DEF ReportType
  <2> HIDE DEF q
  <2>2. Fine(q)
    BY <2>1
  <2>3. QED
    BY <1>4, <2>2 DEF merge_gallery_strip_harness_checks, q
<1>8. Fine(GroundingGate(report))
  <2> DEFINE q == [Partial(report, {Code}) EXCEPT !.groundingOnly = TRUE]
  <2>1. Code \in GateIssues /\ "partial" \in Statuses
    BY DEF GateIssues, Statuses
  <2>2. /\ q.status = "partial" /\ q.issues = report.issues \cup {Code}
        /\ q.groundingOnly = TRUE /\ q \in ReportType
    BY <1>1, <2>1 DEF ReportType
  <2> HIDE DEF q
  <2>3. report.status = "pass" => Fine(q)
    BY <2>1, <2>2
  <2>4. QED
    BY <1>4, <2>3 DEF GroundingGate, q
<1>9. \A w \in SUBSET (GateIssues \ {Code}) : w # {} /\ report.status \in {"pass", "partial"}
        => Fine(Partial(report, w))
  BY <1>5
<1>10. /\ \A c \in GateIssues : c # Code => {c} \in SUBSET (GateIssues \ {Code})
       /\ candidate.findings \in SUBSET (GateIssues \ {Code})
       /\ {"duplicate_output", "fresh_habitat_duplicate_output", "preview_surface_not_verified",
           "literal_success_check_failed", "cool_lane_motion_signal_missing",
           "cool_lane_acknowledgment", "3d_content_missing"} \subseteq GateIssues
  BY <1>1 DEF GateIssues, LaneCodes
<1> HIDE DEF Fine
<1>11. Fine(apply_duplicate_staging_rejection(report))
  BY <1>4, <1>5, <1>10 DEF apply_duplicate_staging_rejection
<1>12. Fine(apply_fresh_habitat_duplicate_output_gate(report))
  BY <1>4, <1>9, <1>10 DEF apply_fresh_habitat_duplicate_output_gate
<1>13. Fine(apply_preview_surface_gate(report))
  BY <1>4, <1>9, <1>10 DEF apply_preview_surface_gate
<1>14. Fine(apply_literal_success_checks(report))
  BY <1>4, <1>9, <1>10 DEF apply_literal_success_checks
<1>15. Fine(apply_cool_lane_motion_signal_gate(report))
  BY <1>4, <1>9, <1>10 DEF apply_cool_lane_motion_signal_gate
<1>16. Fine(apply_cool_lane_execution_acknowledgment_gates(report))
  BY <1>4, <1>9, <1>10 DEF apply_cool_lane_execution_acknowledgment_gates
<1>17. Fine(apply_interactive_lane_evaluator_gate(report))
  BY <1>4, <1>9, <1>10 DEF apply_interactive_lane_evaluator_gate
<1>18. Fine(SpatialGate(report))
  BY <1>4, <1>9, <1>10 DEF SpatialGate
<1>19. Fine(r)
  BY <1>4, <1>6, <1>7, <1>8, <1>11, <1>12, <1>13, <1>14, <1>15, <1>16, <1>17, <1>18 DEF Gated
<1>20. QED
  BY <1>2, <1>3, <1>19 DEF Explained, Statuses, Fine

-----------------------------------------------------------------------------
LEMMA InitInv == Init => IInv
  BY EvaluationAssumption DEF Init, IInv, TypeOK, Explained, ReportType, Steps, LaneCodes, Disputable, GateIssues

LEMMA NextInv == IInv /\ [Next]_vars => IInv'
<1> SUFFICES ASSUME IInv, [Next]_vars PROVE IInv'
  OBVIOUS
<1>1. CASE Next
  <2>1. /\ report' \in Gated(report) /\ step' \in 1..Len(Steps) /\ UNCHANGED <<config, candidate, said>>
    BY <1>1, OneGate DEF IInv
  <2>2. /\ report' \in ReportType
        /\ Explained(report) => Explained(report')
        /\ ("demo_preview_grounding_not_satisfied" \in report.issues => report.groundingOnly)
              => ("demo_preview_grounding_not_satisfied" \in report'.issues => report'.groundingOnly)
    BY <2>1, GateResult DEF IInv
  <2>3. QED
    BY <2>1, <2>2 DEF IInv, TypeOK, Explained
<1>2. CASE UNCHANGED vars
  BY <1>2 DEF vars, IInv, TypeOK, Explained
<1>3. QED
  BY <1>1, <1>2

(* Every variable has its type: a gate leaves a report.                    *)
THEOREM EvaluationTypeCorrect == Spec => []TypeOK
<1>1. IInv => TypeOK
  BY DEF IInv
<1>2. QED
  BY <1>1, InitInv, NextInv, PTL DEF Spec

(* A build that the model has passed and a gate has not goes back with an  *)
(* issue that the generator gets to see, or with the flag for which the    *)
(* router does not retry.                                                  *)
THEOREM DowngradesAreActionable == Spec => []DowngradeIsActionable
<1>1. IInv => DowngradeIsActionable
  BY DEF IInv, Explained, DowngradeIsActionable, sanitize_feedback_for_generator
<1>2. QED
  BY <1>1, InitInv, NextInv, PTL DEF Spec

(* No gate improves the verdict it finds.                                  *)
THEOREM VerdictNeverUpgraded == Spec => NeverUpgraded
<1>1. IInv /\ [Next]_vars => [Severity[report'.status] >= Severity[report.status]]_report
  BY OneGate, GateResult DEF IInv, vars
<1>2. QED
  BY <1>1, InitInv, NextInv, PTL DEF Spec, NeverUpgraded
=============================================================================
