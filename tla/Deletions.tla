------------------------------- MODULE Deletions -------------------------------
(***************************************************************************)
(* What the deletions of the services take with them, by the foreign keys  *)
(* that the migrations declare.                                            *)
(*                                                                         *)
(* There is one row per table, and each refers to the others wherever its  *)
(* foreign keys allow.                                                     *)
(***************************************************************************)
EXTENDS Schema

VARIABLES
  rows,    \* the tables whose row exists
  links    \* the foreign keys whose column is not NULL

deletionVars == <<rows, links>>

Deployed  == SchemaAt(Len(Migrations))
TableRows == {o.name : o \in {p \in Deployed : p.kind = "table"}}
Keys      == {o \in Deployed : o.kind = "key"}

DeletionInit == rows = TableRows /\ links = Keys

\* What services delete: src/src/users, addresses, categories, products, carts,
\* reviews, wishlists, discounts, roles, permissions and banners.  No service
\* deletes an order, a payment or a refund.
Deletable ==
  {"users", "addresses", "categories", "products", "product_variants", "product_images", "tags",
   "cart_items", "reviews", "wishlists", "discounts", "roles", "permissions", "banners"}

\* Every row whose reference to a row in `gone` is not NULL and cascades goes too.
Cascaded(gone) == gone \cup {k.table : k \in {l \in links : l.onDelete = "CASCADE" /\ l.parent \in gone}}

\* A row is as many references away as there are rows at most.
WithCascades(gone) ==
  LET goneAfter[n \in Nat] == IF n = 0 THEN gone ELSE Cascaded(goneAfter[n - 1])
  IN  goneAfter[Cardinality(rows)]

Delete(table) ==
  LET gone == WithCascades({table}) IN
  /\ table \in rows
  /\ \A k \in links : k.onDelete = "RESTRICT" /\ k.parent \in gone => k.table \in gone
  /\ rows' = rows \ gone
  /\ links' = {k \in links : k.table \notin gone /\ k.parent \notin gone}

DeletionNext == \E table \in Deletable : Delete(table)

DeletionSpec == DeletionInit /\ [][DeletionNext]_deletionVars

-----------------------------------------------------------------------------
Books == {"orders", "order_items", "order_status_history", "payments", "payment_webhook_events",
          "refunds", "refund_items", "refund_requests", "refund_request_items"}

\* Nothing that is deleted from the catalogue, from an account or from the cart
\* takes away a row of an order, its payments or its refunds.  Deleting the user
\* does, and leaves only what Stripe delivered.
BooksOutliveCatalogue ==
  [][Books \cap rows \subseteq rows' \/
       (/\ "users" \in rows /\ "users" \notin rows'
        /\ Books \cap rows' = {"payment_webhook_events"})]_deletionVars

===============================================================================
