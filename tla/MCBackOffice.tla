----------------------------- MODULE MCBackOffice -----------------------------
(* What administrators edit in requests of several steps, two at a time: a     *)
(* product with its images, the pictures of a banner or a category, and the    *)
(* tree of the categories.  As in MCShop the parts share no state: `part`      *)
(* names the one that moves, and the others keep their initial state.          *)
EXTENDS Catalog, Pictures, CategoryTree, TLC

VARIABLE part

officeVars == <<catalogVars, pictureVars, treeVars, part>>

Parts == {"catalog", "pictures", "categories"}

OfficeInit ==
  /\ part \in Parts
  /\ CatalogInit /\ TreeInit
  /\ PictureInit /\ (part # "pictures" => kind = "banner")

OfficeNext ==
  \/ part = "catalog"    /\ CatalogNext /\ UNCHANGED <<pictureVars, treeVars, part>>
  \/ part = "pictures"   /\ PictureNext /\ UNCHANGED <<catalogVars, treeVars, part>>
  \/ part = "categories" /\ TreeNext    /\ UNCHANGED <<catalogVars, pictureVars, part>>

OfficeSpec == OfficeInit /\ [][OfficeNext]_officeVars

\* The requests of every part go by the same two names, and within each part the
\* two are interchangeable.
OfficeSymmetry == Permutations(AdminRequests)

===============================================================================
