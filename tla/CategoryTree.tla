----------------------------- MODULE CategoryTree -----------------------------
(***************************************************************************)
(* The tree of categories and the requests that edit it                    *)
(* (src/src/categories/categories.service.ts).                             *)
(*                                                                         *)
(* Every edit, an upload of a picture included, loads the category with    *)
(* its parent and its children and saves that entity later.  TypeORM then  *)
(* reads the row and its children once more, and writes both relations     *)
(* back where they differ: the parent that was loaded, and the children    *)
(* that were loaded, no more and no fewer.  A parent is a set of at most   *)
(* one category; the empty set is NULL.                                    *)
(***************************************************************************)
EXTENDS Naturals, FiniteSets

CONSTANTS
  MaxCategories,   \* bound on the categories that are created
  TreeRequests     \* requests of administrators

ASSUME TreeAssumption == MaxCategories \in Nat

VARIABLES
  created,    \* ids given out so far: 1 .. created
  parent,     \* the rows: category |-> its parent
  edits,      \* what each request has loaded
  asked,      \* for the property: where the administrators put each category, as
              \* long as nothing has upset it
  upset       \* for the property: why the tree need not be what they asked for

treeVars == <<created, parent, edits, asked, upset>>

Categories == 1 .. MaxCategories
Parents == {{}} \cup {{c} : c \in Categories}
NotEditing  == [step |-> "idle"]
Loaded  == [step : {"edit"}, category : Categories, parent : Parents,
            children : SUBSET Categories, to : Parents \cup {Categories}]
ReRead  == [step : {"save"}, edit : Loaded, there : BOOLEAN, parent : Parents,
            children : SUBSET Categories]
Edit    == {NotEditing} \cup Loaded \cup ReRead \cup
           [step : {"remove"}, category : Categories, children : SUBSET Categories]

\* `to` when the request names no parent, as an upload never does.
Stay == Categories

Existing    == DOMAIN parent
Children(c) == {d \in Existing : c \in parent[d]}

\* The categories that findTree lists: those below a root, level by level.
Below(found) == found \cup UNION {Children(c) : c \in found}
Listed ==
  LET level[n \in Nat] == IF n = 0 THEN {c \in Existing : parent[c] = {}}
                          ELSE Below(level[n - 1])
  IN level[Cardinality(Existing)]

TreeTypeOK ==
  /\ created \in 0 .. MaxCategories
  /\ Existing \subseteq 1 .. created
  /\ parent \in [Existing -> Parents]
  /\ \A c \in Existing : parent[c] \subseteq Existing
  /\ edits \in [TreeRequests -> Edit]
  /\ asked \in [Existing -> Parents]
  /\ upset \subseteq {"looped", "stale", "ignored", "orphaned"}

TreeInit ==
  /\ created = 0
  /\ parent = [c \in {} |-> {}]
  /\ edits = [r \in TreeRequests |-> NotEditing]
  /\ asked = parent
  /\ upset = {}

-----------------------------------------------------------------------------
CreateCategory(under) ==
  LET c == created + 1 IN
  /\ c <= MaxCategories
  /\ under \in Parents /\ under \subseteq Existing
  /\ created' = c
  /\ parent' = [d \in Existing \cup {c} |-> IF d = c THEN under ELSE parent[d]]
  /\ asked' = [d \in Existing \cup {c} |-> IF d = c THEN under ELSE asked[d]]
  /\ UNCHANGED <<edits, upset>>

\* A wrong form: nothing is refused that exists.
CanMoveAnywhere(c, to) == to = Stay \/ to \subseteq Existing

\* Only the category itself is refused as its parent; a parent equal to the one
\* it has is not looked at.
CanMove(c, to) == to = Stay \/ to = parent[c] \/ (c \notin to /\ to \subseteq Existing)

\* update, uploadImage and removeImage begin with findOne.
LoadCategory(r, c, to) ==
  /\ edits[r] = NotEditing
  /\ c \in Existing
  /\ CanMove(c, to)
  /\ edits' = [edits EXCEPT ![r] = [step |-> "edit", category |-> c, parent |-> parent[c],
                                   children |-> Children(c), to |-> to]]
  /\ UNCHANGED <<created, parent, asked, upset>>

\* The parent column is written from the loaded relation when there is one, and
\* from the column that the request assigned only when there is none.
SavedParent(e) == IF e.parent # {} \/ e.to = Stay THEN e.parent ELSE e.to

\* Below c, c itself excepted.
Descendants(c) ==
  LET level[n \in Nat] == IF n = 0 THEN Children(c) ELSE Below(level[n - 1])
  IN level[Cardinality(Existing)] \ {c}

\* How a save can make of the tree what nobody asked for: the new parent lies below
\* the category; the row or its children have changed between their load and the
\* re-read; or the move is lost to the parent that was loaded.
Mishaps(q) ==
  LET e == q.edit  c == e.category IN
  {m \in {"looped", "stale", "ignored"} :
     \/ m = "looped" /\ SavedParent(e) # q.parent /\ SavedParent(e) \cap Descendants(c) # {}
     \/ m = "stale" /\ (~q.there \/ e.parent # q.parent \/ e.children # q.children)
     \/ m = "ignored" /\ e.to # Stay /\ SavedParent(e) # e.to}

\* What is remembered of a write.  A save of old rows excuses everything after it.
TreeRemembers(mishaps, wanted) ==
  /\ upset' = IF "stale" \in upset \cup mishaps THEN {"stale"} ELSE upset \cup mishaps
  /\ asked' = IF upset' \cap {"stale", "ignored", "orphaned"} # {} THEN parent' ELSE wanted

\* repo.save begins: the row and its children as they are now.
ReReadCategory(r) ==
  LET e == edits[r]  c == e.category IN
  /\ e.step = "edit"
  /\ edits' = [edits EXCEPT ![r] = [step |-> "save", edit |-> e, there |-> c \in Existing,
                                   parent |-> IF c \in Existing THEN parent[c] ELSE {},
                                   children |-> Children(c)]]
  /\ UNCHANGED <<created, parent, asked, upset>>

\* The parent is written if it differs from the re-read.  The children that were
\* loaded and not read again are bound again, those that were read and not loaded
\* are made roots, wherever they have gone since.  A category that was missing is
\* inserted again, which another request may not have done; one that goes after
\* the re-read is not written, and no child can be bound to it.
UpdateCategory(r) ==
  LET q == edits[r]  e == q.edit  c == e.category
      bound == (e.children \ q.children) \cap Existing
      now   == IF q.there THEN Existing ELSE Existing \cup {c}
  IN
  /\ q.step = "save"
  /\ q.there \/ c \notin Existing
  /\ c \in now /\ SavedParent(e) # q.parent => SavedParent(e) \subseteq Existing
  /\ bound # {} => c \in now
  /\ parent' = [d \in now |->
                  IF d = c THEN IF SavedParent(e) = q.parent /\ q.there THEN parent[c] ELSE SavedParent(e)
                  ELSE IF d \in bound THEN {c}
                  ELSE IF d \in q.children \ e.children THEN {}
                  ELSE parent[d]]
  /\ TreeRemembers(Mishaps(q),
                   [d \in now |-> IF d = c /\ e.to \notin {Stay, q.parent} THEN e.to ELSE asked[d]])
  /\ edits' = [edits EXCEPT ![r] = NotEditing]
  /\ UNCHANGED created

\* A wrong form: the children are not counted.
LoadForRemovalAnyway(r, c) ==
  /\ edits[r] = NotEditing
  /\ c \in Existing
  /\ edits' = [edits EXCEPT ![r] = [step |-> "remove", category |-> c,
                                   children |-> Children(c)]]
  /\ UNCHANGED <<created, parent, asked, upset>>

LoadForRemoval(r, c) == Children(c) = {} /\ LoadForRemovalAnyway(r, c)

\* The foreign key sets the parent of children that came after the count to NULL.
RemoveCategory(r) ==
  LET c == edits[r].category IN
  /\ edits[r].step = "remove"
  /\ parent' = [d \in Existing \ {c} |-> parent[d] \ {c}]
  /\ TreeRemembers(IF Children(c) = edits[r].children THEN {} ELSE {"orphaned"},
              [d \in Existing \ {c} |-> asked[d]])
  /\ edits' = [edits EXCEPT ![r] = NotEditing]
  /\ UNCHANGED created

\* The request dies, a constraint refuses its write, or its upload fails.
AbandonEdit(r) ==
  /\ edits[r] # NotEditing
  /\ edits' = [edits EXCEPT ![r] = NotEditing]
  /\ UNCHANGED <<created, parent, asked, upset>>

TreeNext ==
  \/ \E under \in Parents : CreateCategory(under)
  \/ \E r \in TreeRequests :
       \/ \E c \in Existing, to \in Parents \cup {Stay} : LoadCategory(r, c, to)
       \/ \E c \in Existing : LoadForRemoval(r, c)
       \/ ReReadCategory(r) \/ UpdateCategory(r) \/ RemoveCategory(r) \/ AbandonEdit(r)

TreeSpec == TreeInit /\ [][TreeNext]_treeVars

-----------------------------------------------------------------------------
\* The storefront's tree shows every category, unless an update put one below its
\* own descendant (only the category itself is refused as its parent) or a save
\* wrote back rows that had changed between its load and its re-read.  And a
\* category is where the administrators put it, unless there was such a save, a move
\* was lost to the parent that was loaded, or its parent was removed while the child
\* was coming.  The rows are well formed throughout.
TreeAsAsked ==
  /\ TreeTypeOK
  /\ upset \cap {"looped", "stale"} = {} => Listed = Existing
  /\ upset \cap {"stale", "ignored", "orphaned"} = {} => parent = asked

===============================================================================
