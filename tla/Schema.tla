-------------------------------- MODULE Schema --------------------------------
(***************************************************************************)
(* The tables of the database and the migrations that make them            *)
(* (src/src/database/migrations).                                          *)
(*                                                                         *)
(* The schema is a set of objects: enum types and the values added to them *)
(* later, tables, columns added later, foreign keys.  The columns and the  *)
(* indexes that come and go with their table are left out.  A migration is *)
(* a list of objects to create and one to drop; a deployment runs all that *)
(* are pending in one transaction, and `migration:revert` undoes the last. *)
(***************************************************************************)
EXTENDS Naturals, Sequences, SequencesExt, FiniteSets

VARIABLES
  objects,    \* what the database holds
  version,    \* rows of the table `migrations`
  refused     \* the last command failed and was rolled back

schemaVars == <<objects, version, refused>>

-----------------------------------------------------------------------------
(* Objects, what they need, and what goes with them.                         *)

Type(name)        == [kind |-> "type",   name |-> name]
Value(type, name) == [kind |-> "value",  name |-> name,  type |-> type]
Table(name, types) == [kind |-> "table", name |-> name,  types |-> types]
Column(table, name) == [kind |-> "column", name |-> name, table |-> table]
Key(child, parent, onDelete) ==
  [kind |-> "key", table |-> child, parent |-> parent, onDelete |-> onDelete]

HasTable(held, name) == \E o \in held : o.kind = "table" /\ o.name = name
HasType(held, name)  == \E o \in held : o.kind = "type" /\ o.name = name

Supported(held, o) ==
  CASE o.kind = "type"   -> TRUE
    [] o.kind = "value"  -> HasType(held, o.type)
    [] o.kind = "table"  -> ~HasTable(held, o.name) /\ \A t \in o.types : HasType(held, t)
    [] o.kind = "column" -> HasTable(held, o.table)
    [] o.kind = "key"    -> HasTable(held, o.table) /\ HasTable(held, o.parent)

\* Dropped with o.
PartsOf(held, o) ==
  {p \in held : \/ o.kind = "type" /\ p.kind = "value" /\ p.type = o.name
                \/ o.kind = "table" /\ p.kind \in {"column", "key"} /\ p.table = o.name}
\* In the way of dropping o.
Blockers(held, o) ==
  {p \in held : \/ o.kind = "type" /\ p.kind = "table" /\ o.name \in p.types
                \/ o.kind = "table" /\ p.kind = "key" /\ p.parent = o.name /\ p.table # o.name}

\* The statements run one after another, and one that fails fails the transaction.
CanCreate(held, created) ==
  \A i \in DOMAIN created :
    LET before == held \cup {created[j] : j \in 1 .. i - 1}
    IN  created[i] \notin before /\ Supported(before, created[i])

Without(held, dropped) == held \ UNION {{o} \cup PartsOf(held, o) : o \in dropped}

CanDrop(held, dropped) ==
  \A i \in DOMAIN dropped :
    LET before == Without(held, {dropped[j] : j \in 1 .. i - 1})
    IN  dropped[i] \in before /\ Blockers(before, dropped[i]) = {}

\* Most migrations drop what they created, the last first.
Reversible(created) == [up |-> created, down |-> Reverse(created)]

-----------------------------------------------------------------------------
(* The migrations.                                                           *)

InitialSchema ==
  [up |-> <<
     Type("auth_provider"), Type("permission_action"), Table("users", {}),
     Table("identities", {"auth_provider"}), Key("identities", "users", "CASCADE"),
     Table("roles", {}), Table("permissions", {"permission_action"}),
     Table("user_role", {}), Key("user_role", "users", "CASCADE"),
     Key("user_role", "roles", "CASCADE"),
     Table("user_permission", {}), Key("user_permission", "users", "CASCADE"),
     Key("user_permission", "permissions", "CASCADE"),
     Table("role_permission", {}), Key("role_permission", "roles", "CASCADE"),
     Key("role_permission", "permissions", "CASCADE") >>,
   down |-> <<
     Key("role_permission", "permissions", "CASCADE"), Key("role_permission", "roles", "CASCADE"),
     Table("role_permission", {}), Key("user_permission", "permissions", "CASCADE"),
     Key("user_permission", "users", "CASCADE"), Table("user_permission", {}),
     Key("user_role", "roles", "CASCADE"), Key("user_role", "users", "CASCADE"),
     Table("user_role", {}), Key("identities", "users", "CASCADE"),
     Table("identities", {"auth_provider"}), Table("permissions", {"permission_action"}),
     Table("roles", {}), Table("users", {}), Type("permission_action"), Type("auth_provider") >>]

CategoriesTable == Reversible(<<Table("categories", {}), Key("categories", "categories", "SET NULL")>>)

ProductsTables ==
  [up |-> <<
     Type("product_status"), Table("products", {"product_status"}),
     Key("products", "categories", "RESTRICT"),
     Table("product_images", {}), Key("product_images", "products", "CASCADE"),
     Table("product_variants", {}), Key("product_variants", "products", "CASCADE"),
     Table("tags", {}), Table("product_tag", {}),
     Key("product_tag", "products", "CASCADE"), Key("product_tag", "tags", "CASCADE") >>,
   down |-> <<
     Key("product_tag", "tags", "CASCADE"), Key("product_tag", "products", "CASCADE"),
     Table("product_tag", {}), Table("tags", {}),
     Key("product_variants", "products", "CASCADE"), Table("product_variants", {}),
     Key("product_images", "products", "CASCADE"), Table("product_images", {}),
     Key("products", "categories", "RESTRICT"), Table("products", {"product_status"}),
     Type("product_status") >>]

AddressesTable == Reversible(<<Table("addresses", {}), Key("addresses", "users", "CASCADE")>>)

\* A wrong form: what was sold goes with the variant.
OrdersTablesCascading == Reversible(<<
  Type("order_status"), Table("orders", {"order_status"}),
  Key("orders", "users", "CASCADE"), Key("orders", "addresses", "SET NULL"),
  Table("order_items", {}), Key("order_items", "orders", "CASCADE"),
  Key("order_items", "product_variants", "CASCADE") >>)

OrdersTables == Reversible(<<
  Type("order_status"), Table("orders", {"order_status"}),
  Key("orders", "users", "CASCADE"), Key("orders", "addresses", "SET NULL"),
  Table("order_items", {}), Key("order_items", "orders", "CASCADE"),
  Key("order_items", "product_variants", "SET NULL") >>)

PaymentsTable == Reversible(<<
  Type("payment_method"), Type("payment_status"),
  Table("payments", {"payment_method", "payment_status"}), Key("payments", "orders", "CASCADE") >>)

CartsTables == Reversible(<<
  Table("carts", {}), Key("carts", "users", "CASCADE"),
  Table("cart_items", {}), Key("cart_items", "carts", "CASCADE"),
  Key("cart_items", "product_variants", "CASCADE") >>)

ReviewsTable == Reversible(<<
  Table("reviews", {}), Key("reviews", "users", "CASCADE"), Key("reviews", "products", "CASCADE") >>)

WishlistsTable == Reversible(<<
  Table("wishlists", {}), Key("wishlists", "users", "CASCADE"),
  Key("wishlists", "products", "CASCADE") >>)

DiscountsTables ==
  [up |-> <<
     Type("discount_type"), Table("discounts", {"discount_type"}), Table("order_discount", {}),
     Key("order_discount", "orders", "CASCADE"), Key("order_discount", "discounts", "CASCADE") >>,
   down |-> <<
     Key("order_discount", "discounts", "CASCADE"), Key("order_discount", "orders", "CASCADE"),
     Table("order_discount", {}), Table("discounts", {"discount_type"}), Type("discount_type") >>]

PublicIdToImages == Reversible(<<
  Column("categories", "imagePublicId"), Column("product_images", "publicId") >>)

BannersTable == Reversible(<<
  Type("banner_position"), Type("banner_link_type"),
  Table("banners", {"banner_position", "banner_link_type"}) >>)

UserCodeToUsers == Reversible(<<Column("users", "userCode")>>)

\* Changing the type of a column succeeds whatever it was: one object per table
\* that stands for "with time zone".
TimestampTables == <<
  "users", "products", "product_variants", "orders", "payments", "identities", "discounts",
  "roles", "permissions", "banners", "carts", "cart_items", "addresses", "categories", "reviews" >>
ZonedColumns == [i \in DOMAIN TimestampTables |-> Column(TimestampTables[i], "timestamptz")]
TimestampsToTimestamptz == [up |-> ZonedColumns, down |-> ZonedColumns]

WishlistsTimestamps == Reversible(<<Column("wishlists", "timestamptz"), Column("wishlists", "updatedAt")>>)

VariantIdToProductImages == Reversible(<<
  Column("product_images", "variant_id"), Key("product_images", "product_variants", "SET NULL") >>)

OrderStatusHistoryTable == Reversible(<<
  Type("order_status_change_actor"),
  Table("order_status_history", {"order_status", "order_status_change_actor"}),
  Key("order_status_history", "orders", "CASCADE") >>)

PaymentWebhookEventsTable == Reversible(<<
  Type("webhook_processing_status"),
  Table("payment_webhook_events", {"payment_method", "webhook_processing_status"}),
  Key("payment_webhook_events", "payments", "SET NULL") >>)

RefundObjects == <<
  Type("refund_status"), Table("refunds", {"refund_status"}),
  Key("refunds", "payments", "CASCADE"), Key("refunds", "orders", "CASCADE"),
  Table("refund_items", {}), Key("refund_items", "refunds", "CASCADE"),
  Key("refund_items", "order_items", "CASCADE") >>
RefundValues == <<
  Value("payment_status", "partially_refunded"), Value("order_status", "partially_refunded") >>

\* A wrong form: the type stays when its tables go.
RefundsTablesLeavingType ==
  [up |-> RefundValues \o RefundObjects, down |-> Reverse(Tail(RefundObjects))]

\* The values of an enum cannot be removed, and stay behind.
RefundsTables == [up |-> RefundValues \o RefundObjects, down |-> Reverse(RefundObjects)]

UploadToPermissionActionEnum ==
  [up |-> <<Value("permission_action", "upload")>>, down |-> <<>>]

RefundRequestsTable == Reversible(<<
  Type("refund_request_status"), Table("refund_requests", {"refund_request_status"}),
  Key("refund_requests", "payments", "CASCADE"), Key("refund_requests", "orders", "CASCADE"),
  Key("refund_requests", "refunds", "SET NULL"),
  Table("refund_request_items", {}), Key("refund_request_items", "refund_requests", "CASCADE"),
  Key("refund_request_items", "order_items", "CASCADE") >>)

CartItemsVariantUniqueConstraint == Reversible(<<Column("cart_items", "unique (cart_id, variant_id)")>>)

Migrations == <<
  InitialSchema, CategoriesTable, ProductsTables, AddressesTable, OrdersTables, PaymentsTable,
  CartsTables, ReviewsTable, WishlistsTable, DiscountsTables, PublicIdToImages, BannersTable,
  UserCodeToUsers, TimestampsToTimestamptz, WishlistsTimestamps, VariantIdToProductImages,
  OrderStatusHistoryTable, PaymentWebhookEventsTable, RefundsTables, UploadToPermissionActionEnum,
  RefundRequestsTable, CartItemsVariantUniqueConstraint >>

-----------------------------------------------------------------------------
Up(db, migration) ==
  [ok |-> db.ok /\ CanCreate(db.objects, migration.up), objects |-> db.objects \cup ToSet(migration.up)]
Down(db, migration) ==
  [ok |-> CanDrop(db.objects, migration.down), objects |-> Without(db.objects, ToSet(migration.down))]

Stored == [ok |-> TRUE, objects |-> objects]

Commit(db, reached) ==
  /\ objects' = IF db.ok THEN db.objects ELSE objects
  /\ version' = IF db.ok THEN reached ELSE version
  /\ refused' = ~db.ok

SchemaInit == objects = {} /\ version = 0 /\ refused = FALSE

\* A release brings the migrations up to its own; migration:run applies those
\* that are pending.
RunMigrations(release) ==
  /\ release > version
  /\ Commit(FoldLeft(Up, Stored, SubSeq(Migrations, version + 1, release)), release)

RevertMigration == version > 0 /\ Commit(Down(Stored, Migrations[version]), version - 1)

SchemaNext == RevertMigration \/ \E release \in DOMAIN Migrations : RunMigrations(release)

SchemaSpec == SchemaInit /\ [][SchemaNext]_schemaVars

-----------------------------------------------------------------------------
AddedValues(held) == {o \in held : o.kind = "value"}

\* What the migrations up to n make of an empty database.
SchemaAt(n) == UNION {ToSet(Migrations[i].up) : i \in 1 .. n}

\* However often a release is rolled back and deployed again, reverting a
\* migration takes away exactly what running it made, except for the values of
\* enums; and a command fails only because a value it adds was left behind by
\* such a revert.
SchemaFollowsVersion ==
  /\ objects \ AddedValues(objects) = SchemaAt(version) \ AddedValues(SchemaAt(version))
  /\ AddedValues(SchemaAt(version)) \subseteq objects
  /\ refused => \E n \in version + 1 .. Len(Migrations) :
                  AddedValues(ToSet(Migrations[n].up)) \cap objects # {}

===============================================================================
