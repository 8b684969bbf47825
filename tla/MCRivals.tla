------------------------------- MODULE MCRivals -------------------------------
(* Two requests that race one another: over the payments of an order, and over *)
(* what else customers and administrators edit by reading a row and saving it  *)
(* later; and the database below.  As in MCShop the parts share no state:      *)
(* `part` names the one that moves, and the others keep their initial state,   *)
(* or one as small.                                                            *)
EXTENDS MCPayments, Addresses, Access, Reviews, Deletions, Seeding

VARIABLE part

deskVars   == <<addressVars, accessVars, reviewVars>>
baseVars   == <<schemaVars, deletionVars, seedVars>>
rivalVars  == <<vars, deskVars, baseVars, part>>

Parts == {"payments", "addresses", "access", "reviews",
          "schema", "deletions", "seeds"}

RivalsInit ==
  /\ part \in Parts
  /\ Init
  /\ AddressInit /\ AccessInit /\ ReviewInit
  /\ SchemaInit /\ SeedInit
  /\ IF part = "deletions" THEN DeletionInit ELSE rows = {} /\ links = {}

Desk ==
  \/ part = "addresses" /\ AddressNext /\ UNCHANGED <<accessVars, reviewVars>>
  \/ part = "access"    /\ AccessNext  /\ UNCHANGED <<addressVars, reviewVars>>
  \/ part = "reviews"   /\ ReviewNext  /\ UNCHANGED <<addressVars, accessVars>>

Base ==
  \/ part = "schema"    /\ SchemaNext   /\ UNCHANGED <<deletionVars, seedVars>>
  \/ part = "deletions" /\ DeletionNext /\ UNCHANGED <<schemaVars, seedVars>>
  \/ part = "seeds"     /\ SeedNext     /\ UNCHANGED <<schemaVars, deletionVars>>

RivalsNext ==
  \/ part = "payments" /\ Next /\ UNCHANGED <<deskVars, baseVars, part>>
  \/ Desk /\ UNCHANGED <<vars, baseVars, part>>
  \/ Base /\ UNCHANGED <<vars, deskVars, part>>

RivalsSpec == RivalsInit /\ [][RivalsNext]_rivalVars

\* The rows of every part are well formed; moreover one customer has one review of
\* a product, however many requests add it, and what a user or a role holds exists.
RivalsTypeOK ==
  CASE part = "payments"  -> TypeOK
    [] part = "addresses" -> AddressTypeOK
    [] part = "access"    -> AccessTypeOK
    [] part = "reviews"   -> ReviewTypeOK
    [] part = "seeds"     -> SeedTypeOK
    [] OTHER              -> TRUE

\* The requests of every part go by the same two names.
RivalsSymmetry == Permutations(Ids) \cup Permutations(Requests)

===============================================================================
