----------------------------- MODULE HtmlBlocks -----------------------------
(***************************************************************************)
(* A generator may send, instead of a page, blocks that replace or extend  *)
(* a section of the page that the thread's working staging has.  They are  *)
(* applied before the build candidate is saved.                            *)
(*                                                                         *)
(* A page is a sequence of elements, each of which may contain others; an  *)
(* element is its id and its text.                                         *)
(***************************************************************************)
EXTENDS Naturals, Sequences, FiniteSets, Functions

CONSTANTS
  Paths,      \* HTML files
  Ids,        \* ids of elements
  Wordings,   \* what an element may say
  Builds,     \* what the generator may send: records as IsBuild has them
  Earlier,    \* what earlier runs may have left in working staging, as IsFiles has it
  MaxStaged   \* bound: builds that are staged

VARIABLES
  files,      \* the HTML files of working staging, by path
  build,      \* the generator's answer
  refs,       \* artifact_refs_json of its candidate, without the blocks
  staged      \* builds staged so far

vars == <<files, build, refs, staged>>

(* An element of a page, and one inside it.                                *)
Leaf(e)    == [id |-> e.id, text |-> e.text]
Section(e) == [id |-> e.id, text |-> e.text, inner |-> <<>>]

LeafType == [id : Ids, text : Wordings]
Page     == Seq([id : Ids, text : Wordings, inner : Seq(LeafType)])

(* Pages by path.                                                          *)
IsFiles(map) == DOMAIN map \subseteq Paths /\ map \in [DOMAIN map -> Page]

Operations == {"replace", "append_to_body", "prepend_to_body"}
Body       == "__body__"

(* Of HtmlBlockArtifactV1 what says where the content goes; the content is *)
(* one element.                                                            *)
BlockType ==
  [path : Paths, op : Operations, target : Ids \cup {Body}, content : LeafType]

(* The files of a build have different paths.                              *)
IsBuild(b) == b.blocks \in Seq(BlockType) /\ IsFiles(b.own)

Nothing == [blocks |-> <<>>, own |-> [p \in {} |-> <<>>]]

TypeOK ==
  /\ build \in Builds \cup {Nothing} /\ IsBuild(build)
  /\ IsFiles(files)
  /\ refs \in Seq([path : Paths, page : Page])
  /\ staged \in 0..MaxStaged

-----------------------------------------------------------------------------
(* block_merge.py                                                          *)

(* <<i, 0>> is the i-th element of a page, <<i, j>> the j-th one in it.    *)
Places(page) == UNION {{<<i, j>> : j \in 0..Len(page[i].inner)} : i \in DOMAIN page}

At(page, p) == IF p[2] = 0 THEN page[p[1]] ELSE page[p[1]].inner[p[2]]

Hits(page, id) == {p \in Places(page) : At(page, p).id = id}

(* open_re.search: the opening tag that comes first in the document.       *)
FirstHit(page, id) ==
  CHOOSE p \in Hits(page, id) :
    \A q \in Hits(page, id) : p[1] < q[1] \/ (p[1] = q[1] /\ p[2] <= q[2])

(* Mutant: the depth of the tags is not counted, and the element ends      *)
(* where the one around it does.                                           *)
_replace_element_by_id_unnested(page, id, e) ==
  [page EXCEPT ![FirstHit(page, id)[1]] = Section(e)]

(* Everything from its opening tag to the closing tag of the same depth.   *)
_replace_element_by_id(page, id, e) ==
  LET p == FirstHit(page, id)
  IN  IF p[2] = 0 THEN [page EXCEPT ![p[1]] = Section(e)]
      ELSE [page EXCEPT ![p[1]].inner[p[2]] = Leaf(e)]

_apply_append_to_body(page, e)  == Append(page, Section(e))
_apply_prepend_to_body(page, e) == <<Section(e)>> \o page

(* Mutant: what has no target is dropped.                                  *)
_apply_replace_strictly(page, target, e) ==
  CASE target = Body -> _apply_append_to_body(page, e)
    [] target # Body /\ Hits(page, target) # {} -> _replace_element_by_id(page, target, e)
    [] OTHER -> page

(* What has no target is appended.                                         *)
_apply_replace(page, target, e) ==
  IF target # Body /\ Hits(page, target) # {}
  THEN _replace_element_by_id(page, target, e)
  ELSE _apply_append_to_body(page, e)

Apply(page, b) ==
  IF b.op = "replace" THEN _apply_replace(page, b.target, b.content)
  ELSE IF b.op = "append_to_body" THEN _apply_append_to_body(page, b.content)
  ELSE _apply_prepend_to_body(page, b.content)

HasBlock(b, path) == \E i \in DOMAIN b.blocks : b.blocks[i].path = path

PageOf(map, path) == IF path \in DOMAIN map THEN map[path] ELSE <<>>

(* The blocks of a path, one after the other, from the page or from the    *)
(* minimal template, which has no elements.                                *)
Merged(b, path) ==
  LET after[n \in 0..Len(b.blocks)] ==
        IF n = 0 THEN PageOf(files, path)
        ELSE IF b.blocks[n].path = path THEN Apply(after[n - 1], b.blocks[n])
        ELSE after[n - 1]
  IN  after[Len(b.blocks)]

(* merged_map of apply_blocks_to_static_files: only what has changed.      *)
Changed(b) ==
  {p \in Paths : HasBlock(b, p) /\ (p \notin DOMAIN files \/ Merged(b, p) # files[p])}

-----------------------------------------------------------------------------
(* The candidate.                                                          *)

(* _apply_html_blocks_to_candidate: the files of the build whose paths no  *)
(* block has changed, then the file of every path.  What is not changed is *)
(* there twice.                                                            *)
_apply_html_blocks_to_candidate(b) ==
  LET changed == Changed(b)
      own     == {[path |-> p, page |-> b.own[p]] : p \in DOMAIN b.own}
      kept    == {r \in own : r.path \notin changed}
      values  == kept \cup {[path |-> p, page |-> Merged(b, p)] : p \in changed}
      InOrder(S) == CHOOSE s \in [1..Cardinality(S) -> S] : Range(s) = S
  IN  IF changed = {} THEN InOrder(own) ELSE InOrder(kept) \o InOrder(values)

(* by_path of _merge_artifacts: of two files with one path the later.      *)
FileOf(path) ==
  LET here == {i \in DOMAIN refs : refs[i].path = path}
  IN  refs[CHOOSE i \in here : \A j \in here : j <= i].page

RefPaths == {refs[i].path : i \in DOMAIN refs}

Init ==
  /\ files \in Earlier
  /\ build = Nothing
  /\ refs = <<>>
  /\ staged = 0

(* generator_node.                                                         *)
GeneratorAnswers ==
  /\ build = Nothing
  /\ \E b \in Builds :
       /\ build' = b
       /\ refs' = _apply_html_blocks_to_candidate(b)
  /\ UNCHANGED <<files, staged>>

(* A retry is merged into what working staging has, not into the candidate *)
(* before it.                                                              *)
Retry ==
  /\ build # Nothing
  /\ build' = Nothing /\ refs' = <<>>
  /\ UNCHANGED <<files, staged>>

(* staging_node, in patch mode or as a rebuild.                            *)
StageCandidate ==
  /\ build # Nothing /\ staged < MaxStaged
  /\ \E rebuild \in BOOLEAN :
       files' = [p \in RefPaths \cup (IF rebuild THEN {} ELSE DOMAIN files) |->
                   IF p \in RefPaths THEN FileOf(p) ELSE files[p]]
  /\ staged' = staged + 1
  /\ build' = Nothing /\ refs' = <<>>

Next == GeneratorAnswers \/ Retry \/ StageCandidate

Spec == Init /\ [][Next]_vars

-----------------------------------------------------------------------------
(* The page that a reader of the candidate takes for a path.               *)
Shown(path) == IF path \in RefPaths THEN FileOf(path) ELSE PageOf(files, path)

Texts(page) == {Leaf(At(page, p)) : p \in Places(page)}

(* What every block of the build brings is on its page, whether or not its *)
(* target was: unless a later block of the page replaces something, or the *)
(* build has that page itself.                                             *)
WorkIsShown ==
  \A i \in DOMAIN build.blocks :
    LET b == build.blocks[i]
    IN  \/ b.path \in DOMAIN build.own
        \/ Leaf(b.content) \in Texts(Shown(b.path))
        \/ \E j \in DOMAIN build.blocks :
             /\ j > i /\ build.blocks[j].path = b.path
             /\ build.blocks[j].op = "replace" /\ build.blocks[j].target # Body

(* What the blocks of a page replace by name.                              *)
Targets(path) ==
  {build.blocks[i].target : i \in {j \in DOMAIN build.blocks :
     build.blocks[j].path = path /\ build.blocks[j].op = "replace"}}

(* Neither the element at p nor the one around it is replaced.             *)
Untouched(path, page, p) ==
  At(page, p).id \notin Targets(path) /\ page[p[1]].id \notin Targets(path)

(* Nothing else of the page goes away, also what is inside of an element   *)
(* of which another part is replaced.                                      *)
RestIsKept ==
  \A path \in DOMAIN files \ DOMAIN build.own :
    HasBlock(build, path) =>
      \A p \in Places(files[path]) :
        Untouched(path, files[path], p) =>
          Leaf(At(files[path], p)) \in Texts(Shown(path))

-----------------------------------------------------------------------------
(* Neither of these holds: see README.                                     *)

(* The generator's own page at a path is not lost to its blocks for it.    *)
OwnPageIsShown ==
  \A path \in DOMAIN build.own :
    \A p \in Places(build.own[path]) :
      Untouched(path, build.own[path], p) =>
        Leaf(At(build.own[path], p)) \in Texts(Shown(path))

(* A candidate has one file for a path.                                    *)
OneFilePerPath == \A i, j \in DOMAIN refs : refs[i].path = refs[j].path => i = j
=============================================================================
