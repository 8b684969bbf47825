# Verification of ec-api

TLA+ specifications of the e-commerce API in `src/src` (NestJS, TypeORM 0.3,
PostgreSQL at READ COMMITTED, Stripe), the TLC configurations that check them on
small instances, and TLAPS proofs of the properties that matter most for every
value of the constants. Paths below are relative to `src/src` of the repository.

## 1. The system

Every request is served by a controller that calls one service method; services
share nothing but the database, so the state of the system is its tables, the
state of the requests that are running, and what Stripe knows. Three kinds of
atomicity occur, and the models keep them apart:

* a transaction that takes the row lock of what it reads (`pessimistic_write`)
  before it checks and writes: one step;
* a conditional `UPDATE ... WHERE` or `INSERT` under a unique constraint: one step;
* load, decide in memory, `repository.save(entity)` without a lock: three steps. TypeORM
  first reads the row once more by a plain SELECT, before it begins a transaction, and
  then writes by one UPDATE the columns in which the entity differed from that reading,
  over whatever the row holds by then. So a save undoes what others wrote between its
  load and its re-read, and two saves that overlap between re-read and UPDATE mix column
  by column. `EntitySave` states it once, for the modules whose requests save so.

Where only one column of a row matters and everybody saves the whole of it, the re-read
and the UPDATE are one step, because a save that finds the column as its entity has it
writes nothing, and that is the same as writing it at the re-read: the quantity of a cart
line (`Carts.SaveLine`), `usedCount` (`OrderStock.SaveDiscount`), the status of a webhook
event (`Payments.MarkEvent`). So they are for a refund request, which nobody else writes
while it is APPROVED (`Refunds`). The answer of a gateway or of the storage and
the re-read that follows it are one step, since nothing is read in between.

### Inventory

| Component (source) | State it keeps | Operations | What makes it correct |
|---|---|---|---|
| Orders (`orders/orders.service.ts`, `orders/policies`) | `orders`, `order_items`, `order_status_history` | create, checkout, update, cancel, updateStatus, applyStatusChange | one restock per cancelled order, an audit trail without gaps, fulfilment never backwards, stock and discount use conserved |
| Payments (`payments/payments.service.ts`) | `payments` | create (3 phases), updateStatus, complete/fail/refundFromGatewayEvent | a charge is settled once and never lost; order and payment do not drift apart |
| Refunds (`payments/payments.service.ts`) | `refunds`, `refund_items` | createRefund (3 phases), refundFromGatewayEvent | never more returned than paid, no item twice |
| Refund requests (`payments/refund-requests.service.ts`) | `refund_requests` | create, approve (reserve, refund, link or revert), reject | a request is refunded at most once |
| Webhooks (`payments/payment-webhooks.*`) | `payment_webhook_events` | recordEvent, dispatch, markProcessed / markIgnored / markError | every event answered, and a duplicate harmless even when it has to be processed |
| Stripe gateway (`payments/gateways`) | none | initiate, refund, currency units | one refund per idempotency key; exact minor units |
| Stock (`products/entities/product-variant`, used by orders) | `product_variants.stock` | decrementStock, restoreStock, admin updateVariant | no oversell, conservation |
| Discounts (`discounts/discounts.service.ts`) | `discounts.usedCount` | validate, resolveCode, computeAmount, incrementUsedCount, CRUD | never used more often than allowed |
| Carts (`carts/carts.service.ts`) | `carts`, `cart_items` | getCart (creates), addItem, updateItem, removeItem, clearCart; emptied by checkout | one line per variant, no item lost or bought twice |
| Products (`products/products.service.ts`) | `products`, images, variants, tags | CRUD, publish transitions, images | the storefront shows only what passed the publish rules, and images have their files |
| Auth (`auth/auth.service.ts`, guards, strategies) | `users`, `identities`, refresh token | login, rotate, OAuth linking, register, activate, forgot / reset password | one identity per provider account; a redeemed token is gone |
| Categories (`categories/categories.service.ts`) | `categories` | create, update (move), uploadImage, removeImage, remove, findTree | the tree shows every category, where the administrators put it |
| Addresses (`addresses/addresses.service.ts`) | `addresses` | create, update, setDefault, remove | one default address |
| Reviews (`reviews/reviews.service.ts`) | `reviews` | create, update, approve, remove | one review per customer and product; a text is published once an administrator has seen it |
| Banners (`banners/banners.service.ts`) | `banners`, files of the storage | update, uploadImage, incrementClickCount, reorder, remove | what is shown exists, clicks are counted |
| Wishlists (`wishlists/wishlists.service.ts`) | `wishlists` | add, remove, clear | a product once per customer (a unique constraint) |
| Users, roles, permissions (`users/`, `roles/`, `permissions/`) | their tables and three join tables | create, edit, assign, remove | what was taken away stays away |
| Schema (`database/migrations`) | types, tables, keys | run, revert | a revert undoes its migration; deletions spare the books |
| Seeds (`database/seeds`) | rows of every table | fifteen stages | a run that ends has seeded everything |
| Mail, config, swagger | none that other parts read | I/O, configuration | not modelled |

### How the components interact

`PaymentsService` calls `OrdersService.applyStatusChange` inside its own
transaction (lock order: payment row, then order row); `OrdersService` reads
`payments` (assertNotPaid) under the lock of the order row.
`RefundRequestsService.approve` calls `PaymentsService.createRefund`, which calls
Stripe between two transactions. The webhook endpoint is called by Stripe, at
least once per event, in any order, on several handlers at a time.
`OrdersService.checkout` reads a cart before its transaction and empties it
inside. Stock is decremented by a conditional UPDATE and given back by an
increment. Products, categories and banners keep their files in one storage
(`media/`), which no transaction covers. Deleting a row takes others with it by the
foreign keys of the migrations, in the database and past every service.

### What is hard

Requests that keep an entity across a gateway call; webhook events late, doubled,
reordered or cut off between two database calls; money moved at Stripe whose
answer is lost; checks made outside the transaction that relies on them; row locks
taken in different orders; roundings of prorated refunds; entities that are loaded
with their relations and saved later, relations included, and that mix column by column
with what another save writes meanwhile; files that are deleted
before the row that names them is saved; a script or a deployment that stops
half-way and is run again. `PROJECT.json` lists each
such place under `hazards`, with the property that watches it.

## 2. The modules

| Module | Models |
|---|---|
| `OrderPolicy` | `orders/policies/order.policy.ts`: the transition table and the cancellable statuses |
| `PaymentPolicy` | `payments/policies/payment.policy.ts`: sets of statuses |
| `OrderLifecycle` | one order: status, audit trail, restocked items; cancel, updateStatus, applyStatusChange. Extended by the modules that drive an order |
| `EntitySave` | what the UPDATE of a save leaves in a row; extended by the modules that save entities without a lock |
| `Payments` | the payments of one order: create in its phases, the administrator's changes, Stripe's checkout, the webhook endpoint with its log |
| `ChargeBook` | abstract: what the payments of an order promise about a charge; `Payments` implements it |
| `Money` | rounding, discounts, totals, proration and Stripe's units, as operators without state |
| `RefundLedger` | abstract: how any limited quantity is reserved, kept or given back |
| `Refunds` | the refunds of one payment: createRefund, refund requests, the dashboard and its events; implements `RefundLedger` twice |
| `OrderStock` | orders against stock, discount uses and the totals of the order, with an administrator saving variants, products and discounts |
| `Carts` | the cart of one customer under parallel requests, and its checkout |
| `Identities` | the row of `identities` of one address and its tokens |
| `Catalog` | one product with its images and their files |
| `Proration` | one order from basket to last refund, over `Money` |
| `RowLocks` | the rows that each transaction of orders and payments locks, in the order it does |
| `CategoryTree` | the categories, and the saves that write their loaded parents and children back |
| `Addresses` | the addresses of one customer and which is the default |
| `Reviews` | one customer's review of one product, and its moderation |
| `Access` | permissions, roles and one user under parallel assignments and removals |
| `Pictures` | one banner or one category, its pictures and their files |
| `Schema` | the 22 migrations, run and reverted |
| `Deletions` | extends `Schema`: what a deletion takes with it |
| `Seeding` | the seed script, which may die and be run again |
| `MCPayments`, `MCRefunds`, `MCOrderStock` | values of function constants, and symmetry |
| `MCShop`, `MCRivals`, `MCBackOffice` | unions of five, seven and three parts for TLC (below) |
| `FiniteSums` | lemmas: the least number, induction over a finite set, and sums over one |
| `OrderLifecycleProofs`, `PaymentsProofs` | theorems about `OrderLifecycle` and `Payments` |
| `RefundsProofs`, `RefundMoneyProofs` | theorems about `Refunds`: its rows and pieces, and its money |
| `SalesProofs` | theorems about `OrderStock`, `Proration` and `RowLocks` |
| `StoreProofs` | theorems about `Identities`, `Carts`, `Catalog` and `Pictures`, and about the whole of `MCShop` |
| `OfficeProofs` | theorems about `Addresses`, `Reviews`, `Access`, `CategoryTree` and `Seeding`, and about the whole of `MCRivals` |

`OrderPolicy` and `PaymentPolicy` hold only constants of the code and are shared;
`OrderLifecycle` is extended by `Payments` and by `Refunds`, whose actions use its
operators as parts of their own transactions, the way the services call
`applyStatusChange` with their transaction's manager. `Proration` and `Refunds`
share `Money`.

### `OrderLifecycle`

`orderStatus`, `history` and `restocked` are the row of `orders`, the rows of
`order_status_history` and the number of times restoreStock ran for this order.
The operators are not actions of a specification of their own: every one of them
runs under the row lock of the order, so a module that extends this one uses it
as part of its own step. `paid` is what assertNotPaid reads.

### `Payments` and `ChargeBook`

One order and the payment rows `Ids` that may be created for it.

| Variable | Code |
|---|---|
| `payment` | rows of `payments`: status, what `transactionId` holds |
| `request` | a running `POST /payments`: the phase it is in, the entity it keeps in memory, and the row as its save has read it |
| `session`, `sent` | Stripe: the checkout session of a payment and the events emitted so far |
| `log` | `payment_webhook_events.status` |
| `handler` | a running delivery: recorded and not yet dispatched, or dispatched and not yet marked |
| `faults` | bound on processes that die or whose save throws |
| `failedOnce`, `recorded` | history variables the properties need |

`create` is three steps: the locked check-and-insert (`InsertPayment`), the answer
of the gateway with the re-read of the save that follows (`InitiateOk`, `InitiateError`),
and the UPDATE of the columns in which the entity of the first step differed, in
`create` itself (`SaveSession`) or in the catch block (`MarkFailed`); a save that throws
is followed by the catch block's own (`SaveError`). The customer learns the checkout address from the response of
the request, so a session can be paid only after `SaveSession`; it outlives
whatever happens to the payment row and to the order. A webhook delivery is three
steps, `Deliver` (recordEvent and the duplicate check), one of the service calls,
and `MarkEvent`; between any two of them the process may die. Refunds are left to
a module of their own: in `Payments` no payment becomes REFUNDED or
PARTIALLY_REFUNDED.

`ChargeBook` states what this promises: Stripe reports a charge, the books settle it, the
report is acknowledged only once the charge is on the books, nothing that was reported is
taken off them, and the goods go back once and only while nothing is settled.
`ImplementsChargeBook` maps `reported` to the events Stripe has sent, `settled` to the rows
that are COMPLETED, `acknowledged` to the events whose log entry is PROCESSED, and
`restocked` to itself.

### `Refunds` and `RefundLedger`

One completed payment of an order.

| Variable | Code |
|---|---|
| `paymentStatus`, `orderStatus` | `payments.status`, `orders.status` |
| `refund`, `call` | rows of `refunds` with their items, and where the createRefund that inserted each one stands |
| `request`, `approval` | rows of `refund_requests`, and the running `approve()` |
| `returned`, `sent`, `handled` | Stripe: money given back by refund, `charge.refunded` events emitted, and those dispatched |
| `booked` | rows of `refunds` that refundFromGatewayEvent inserted |
| `faults` | bound on lost answers, saves that throw and processes that die |

createRefund is the reservation under the payment's lock, Stripe's answer (or its
loss), and the second transaction; an approval reserves the request, runs a
createRefund, and links or reverts. Events carry the charge as it was when they were
emitted, and any emitted event may be dispatched at any time and again.

`RefundLedger` states what all this promises of one limited quantity: reserve a
part that is left, then settle or release it, once. `ImplementsPieces` maps it to
the pieces of an order item (`PieceEntries`), `ImplementsMoney` to the money of the
payment (`MoneyEntries`).

### `OrderStock`

| Variable | Code |
|---|---|
| `stock`, `active` | `product_variants.stock`, `.isActive` |
| `usedCount` | `discounts.usedCount` |
| `order` | rows of `orders` with their items; `totals` is the basket that subtotal, discount and total were computed from |
| `paid` | the order has a completed payment |
| `placing` | a running `POST /orders` or checkout, between the resolution of its items and its transaction |
| `edit` | a running `PATCH /orders/me/:id` with the order as findOne returned it |
| `variantEdit`, `discountEdit` | the entities an administrator's request has loaded and will save |

Every transaction takes the rows of its variants by a conditional UPDATE or an
increment and keeps them until commit, so it is one step; the reads before it are
steps of their own and the request keeps what they returned. The administrator's save
is three steps: `Load` reads the variants, `SaveVariant` and `SaveVariants` are the
re-read, with the entity as the request has changed it, and `UpdateVariants` writes the
columns that differed: the stock of a stale entity if orders were placed between load and
re-read, and none if they come after it.

### `Carts`

`cartRow` and `cartLines` are the row of `carts` and those of `cart_items`, `shelf`
the stock and isActive of the variants, `cartRequest` the running requests;
`bought` and `revived` are history. getCart is two steps (find, insert), addItem's
upsert and re-check one transaction, updateItem and removeItem a read and a write,
checkout a read, the resolution and one transaction. Other customers and the
administrator change `shelf` at any time.

### `Identities`

`identity` is the row, with its three token columns as numbers in the order they were
issued (0 is null); `authRequest` the running requests with the entity they keep;
`expired` the tokens whose date has passed; `redeemed` and `restored` are history. A
request that presents a token finds the row only if the row holds it; `ReReadIdentity` and
the UPDATE in `Activate`, `Rotate`, `Forgot` and `Reset` are the two steps of the save, and
generateTokens is an UPDATE of one column. A token is `restored` when it was gone from the
row and an UPDATE puts it there again, and in no other case. Hashes and
JWTs are not modelled: tokens are random, so equal hashes are equal tokens.

### `Catalog`

`product` is the row (status, and whether it has a price), `images` the ids of its
rows in `product_images`, `hosted` the uploaded ones, `assets` those whose file the
storage provider still has, `adminRequest` the running requests; `madeImages` and
`revivedImages` are history. No operation of the service runs in a transaction of
its own, so every await between a read and a write separates two steps. A save reads the
row and its images once more (`ReReadProduct`) and then writes, in one transaction,
what differed (`UpdateProduct`): the status or the price alone, if the re-read agreed with
the other. It inserts images, or the product, that the re-read missed, and fails when the
re-read has shown an image that the entity does not know (`product_id` is NOT NULL), or
when what it inserts is there by then (`SaveFails`). The re-read's join is one SELECT.

### `Proration`

An order is chosen in `Init` (two items, a discount, a shipping fee), and its pieces
are refunded in any split and order. Amounts are hundredths; `ItemAmount` divides
with the 20 decimal places of Big.js, because that decides which way an exact half is
rounded.

### `RowLocks`

`work` is what the transaction of each request is for, `held` the rows it has locked and
`todo` those it will, in the order of the code: persistOrder sorts its lines by variant
and takes the discount last; update gives the old lines back in the order the database
returns them, takes the new ones sorted, and writes the order last; cancel and
updateStatus lock the order first; payments and refunds lock the payment and then its
order. The other modules take each of these transactions for one step; here nothing but
the locks is left of it. PostgreSQL's detector is `BreakCircle`. The comment at
orders.service.ts:412 counts on the sort of update to avoid deadlocks, but the
restoreStock five lines above it has taken rows in another order by then:
`SalesNeverDeadlock` says who can be in a circle.

### `CategoryTree`

`parent` holds the rows, `edits` the entity each request has loaded with its parent and
its children. TypeORM's save decides two things no reader of the service sees: a loaded
parent overrides the `parent_id` that update assigned (so a move to another parent is
ignored; the test that expects otherwise, categories.service.spec.ts:244, mocks the
repository), and the loaded children are bound again and all others cut off - bound and cut off against
the children that the save has read once more (`ReReadCategory`), and written later
(`UpdateCategory`). `asked` and
`upset` remember what the administrators asked for and why the tree may differ.

### `Addresses`, `Reviews`, `Access`

In `Addresses` the requests `calls` clear the flag and set it by two UPDATEs without a
transaction; an id is handed out when a request announces a new address, which no
property can tell from the insert. In `Reviews`, `drafts` are the entities that requests
have loaded or made, with the row as their save has read it once more (`ReReadReview`);
`UpdateReview` writes text or flag, whichever differed, and a review that the re-read
missed is inserted again. `vetted` holds the texts an administrator approved as loaded or
wrote. `Access` has one user and the
roles `RoleIds`; `assigning` are the running requests, each in up to four steps (load
the entity, look up what it names, and the two of the save): the difference between every
loaded relation of the entity and the re-read is written to the join tables (`Linked`), and
a row that is there already, or refers to nothing, fails the save (`CanLink`). `AdminRoles` are the roles named ADMIN, which update and remove
refuse; assignPermissions does not ask, and the names the seeds give are super-admin,
admin and member, so the set is empty in the run.

### `Pictures`

`row` is a banner with two pictures or a category with one, `stored` the files, `requests`
the entities loaded. An upload deletes the old file, validates and stores the new one, and
saves the entity: `PutNew` and its like end with the re-read, `UpdateRow` is the UPDATE. Clicks and reorders are statements on one column and appear as `marks`.

### `Schema`, `Deletions`, `Seeding`

A migration is the list of objects its up() creates and its down() drops; columns and
indexes that come with their table are left out, as are the rows that two migrations
rewrite. `RunMigrations` applies what is pending in one transaction, up to the release that is deployed,
as TypeORM does by default; `RevertMigration` undoes the last one. A value added to an
enum has no IF NOT EXISTS and is not removed by down(), so a release that was rolled back
is refused when it is deployed again: `refused`.

`Deletions` takes the schema of all migrations, one row per table that refers to all
others, and deletes what the services delete.

`Seeding` has one item of each stage, and of the orders the three that the stages after
them tell apart; `saved` is how far the stage has come. Nothing of a stage is in a
transaction, except the rows that one save() writes.

## 3. The runs

| Run | Module, configuration | Question | Bounds, and why they are enough |
|---|---|---|---|
| `payments_rivals` | `MCRivals`, `MCPaymentsRivals` | Two clients create payments while Stripe, the administrator and the customer act: does payment and order status stay together, and can a second payment appear without a failure? And six further parts (below) | 2 payments, 2 requests, 1 handler: the interesting cases are a rival pair; a third payment needs a second failure and repeats the case |
| `payments_races` | `MCPayments`, `MCPaymentsRaces` | Two deliveries at a time, one process dying anywhere: is a charge recorded once, is every event answered in the end? | 1 payment, 2 handlers, 1 fault |
| `payments_one_active` | violation | "Only one active payment may exist per order" | 2 payments, 1 request, no fault |
| `refunds_gateway` | `MCRefunds`, `MCRefundsGateway` | Refunds of the application and of the dashboard draw on one balance | 2 items, 2 refunds, 2 dashboard refunds, 1 fault |
| `refunds_requests` | `MCRefunds`, `MCRefundsRequests` | Rival requests and direct refunds, with an approval that dies or reverts; the refinement of `RefundLedger` | 2 requests, 2 refunds, 1 fault |
| `refunds_books`, `refunds_quiet`, `refunds_lost_answer` | violations | what comments and docs say of overlapping events, reconciliation and retries | one refund and one event or dashboard refund suffice; the last needs two refunds of one request and one lost answer |
| `orders_edit_race` | `MCOrderStock`, violation | stock plus what orders hold is the supply | 2 orders, 1 edit, no administrator |
| `shop` | `MCShop` | `OrderStock`, `RowLocks`, `Proration`, `Carts` and `Identities`, each by itself (below) | see below |
| `back_office` | `MCBackOffice` | `Catalog`, `Pictures` and `CategoryTree`, each by itself, every await of a save a step (below) | see below |
| `catalog_archived` | `Catalog`, violation | an archived product goes back to DRAFT first | 2 administrators, 2 images |

The parts of `shop` share no variable, and neither do those of `payments_rivals` and
`back_office`. The initial states of each choose which part moves (`part`), so the state space is the sum of
theirs, not their product, and every property is checked on the states of its own part.
The type invariants of the parts are checked together (`PartsTypeOK`, `RivalsTypeOK`).

In `shop`:

* orders: 2 orders, 1 edit, 2 variants with 2 and 1 pieces, a code that may be used
  once, and an administrator editing one variant and the discount. Two orders compete
  for the last piece and the last use; an edit meets a cancellation; every save of a
  stale entity happens.
* locks: 3 requests, 2 variants, 1 order with its payment, and the discount: a circle of
  two over two variants, and one of three that passes through an order's row.
* cart: 3 requests, since the deepest case is a line that was added, ordered by a
  checkout and brought back by an update. 2 variants with up to 2 pieces; a request adds
  or sets one piece, and two additions merge into a line of two.
* accounts: 2 request slots that are used again and again, 3 tokens, 2 passwords: a
  verification, a reset and a rotation, each racing another request.
* prices: prices 1, 3 and 50, quantities up to 2, discounts of 0, 33 and 50 in both
  kinds (larger than the basket, and not divisible), with and without shipping.

In `payments_rivals`, beside the payments:

* addresses: 3 addresses, 2 requests that are used again and again. Two defaults need
  two requests; the third address is one that is added while they run.
* access: 1 permission, 1 role, 2 requests: one saves what the other has changed or
  removed.
* reviews: 2 reviews (the second after the first was removed, or a rival of it), 2 texts,
  2 requests.
* schema: all 22 migrations, any release and any number of reverts.
* deletions: all tables, in any order.
* seeds: 6 orders, so two runs that place orders, and any number that die before.

In `back_office`:

* catalog: 2 administrators, 2 images (the last and the one before); two saves that mix
  need no third. Do images have their files, and does the publish policy hold, whatever
  saves overlap?
* pictures: 2 requests, 2 files (one that is replaced by another), 1 click or reorder. Is
  every picture that is shown in the storage, and every click counted?
* categories: 3 categories, 2 requests: a circle of two beside a root, and one of three. Does
  the tree show every category, where it was put?

No run needs a deadlock check: requests are finite in number, and a system whose
requests are all answered rests. `MCRivals`, `MCRefunds`, `MCShop` and `MCBackOffice` are symmetric in ids
that Init does not distinguish; `payments_races`, which checks liveness, uses no symmetry.

**Fairness.** Only `payments_races` assumes any. A process that runs goes on
(`WF` of DispatchEvent and MarkEvent: Node runs a promise to its end unless it dies,
and dying is an action of its own, bounded by `MaxFaults`). Stripe redelivers an
event that was not acknowledged for days (`SF` of delivering an event it has sent:
strong, because a handler may be busy now and then). Nothing is assumed of customers
and administrators.

### What the properties say

The properties of `Payments` and `Refunds` relate the two rows that drift apart most
easily, payment and order, and what Stripe knows to what the books say. `OnlyCreateReopens`,
`EventsCompleteBooks`, `OnlySettlingOverbooks` and `CallsCompleteBooks` are the other side of
what goes wrong: a settled payment is reopened by nothing but the save of its own
create(), which no text of the repository rules out; the books get ahead of Stripe only in a step that settles a refund after an event
has booked it; and once every event has been handled they lack nothing, unless the charge of
an event lists its refunds (`LatestKnown`) and so lets it be skipped. Those of
`OrderStock` are double entry: a step moves pieces between stock and one order and
counts a use of the code with the order that made it (`CountersFollowOrders`), and
recomputes totals with the items (`TotalsFollowItems`). `StatusFollowsTable` of `Catalog`
says that only the save of an entity whose status has changed since moves a product past the
table of transitions, which is how `catalog_archived` fails.

Three rules that the repository states are broken by saves that overlap, and a property
next to each says that nothing else breaks them. `UnpricedOnlyByMixing`: a product without a
price comes to the storefront only by the UPDATE of a save whose row has changed since its
re-read (`MixesProducts`); neither a stale entity nor a product inserted again brings it there.
`UnvettedOnlyByMixing`: the same of a text that nobody has vetted (`MixesSaves`), and here the
mixture must differ from what was saved. `RedeemedTokenIsGone`: parallel rotations do redeem a
token twice (`RotationEnforced`, below), but whatever was redeemed is no longer in the row for a later
request, also when one of them has cleared it before the other's re-read; only an UPDATE of an
older entity brings it back (`restored`).

Some properties that a run checks are the conjunction of two or three that say one thing from
several sides: `SettlementIsKept` (`OnlyCreateReopens`, and `AcknowledgedChargeBlocksCancel`),
`EventsReconcile` (`DashboardReconciled` and `EventsCompleteBooks`), `FaultlessCallsAgree`
(`OnlyFaultsReopenRefunded` and `CallsCompleteBooks`), `CountersFollowOrders` (stock, uses of
codes, and `TotalsFollowItems`), `PolicyHoldsAtSave` (`LastImageStays`,
`StatusFollowsTable` and `UnpricedOnlyByMixing`), `CatalogHolds` (types, and `ImageHasAsset`), `ChargesAreBooked` (settled, and once), `RefundsAreBooked` (payment
follows refunds, refunds follow Stripe), `ApprovalOwnsRefund`, `RulesHoldAtCommit`,
`PictureRowHolds`, `TreeAsAsked`, `AmountsAgree`. The named conjuncts are proved one by
one, and most have a mutant of their own.

Several properties name an exception - `StaleEdit`, `StaleVariant`, `StaleDiscount`,
`Stale` and `restored` of `Identities`, `MixesSaves`, `MixesProducts`, `revived` and
`revivedImages`, `rivals` of `Addresses`, `upset` of
`CategoryTree`, `overlapped` of `Access`, `mishap` of `Pictures` - which is a
read-modify-write without a lock overwriting what it did not see, or a step that fails
after another has been done. They are as narrow as the code allows: `upset`, `mishap` and
`overlapped` ask what had changed between a load and the re-read of its save, since what
changes after the re-read is overwritten only in a column that the save does write; `torn` of `Seeding` is a run that died between two rows of
one item. The property then says that this is the *only* way the rule is broken, whatever
else interleaves; each exception is a hazard in `PROJECT.json`.

### Disagreements with the repository's own words

| Run | Text | Code |
|---|---|---|
| `payments_one_active` | docs/features/payments.md: one active payment per order | a failed payment whose checkout is still open at Stripe is completed after a second one was created |
| `refunds_books` | payments.service.ts:316-318: the lock guards against overlapping with createRefund | an event handled before phase 3 books the refund a second time |
| `refunds_quiet` | docs/features/payments.md: events reconcile refunds issued outside | the amount of a dashboard refund is Stripe's total less what is booked, so one whose event follows an own refund that settled first comes out as nothing and is skipped |
| `refunds_lost_answer` | stripe-gateway.provider.ts:105-109: the key prevents a second refund after an ambiguous timeout | a new attempt has a new row, hence a new key |
| `orders_edit_race` | orders.service.ts:404: stock of the current items is released | the items are those read before the transaction |
| `catalog_archived` | product.policy.ts:17-18: ARCHIVED goes back to DRAFT first | a save of an older entity publishes over ARCHIVED |

Four more statements are broken by what the code does. No run is kept for them, since a
passing run checks the property that says how far it goes; each is a definition of its
module, and TLC shows the trace when it is added to the configuration in the second column
(without SYMMETRY), as INVARIANT or, for the first and the last, as PROPERTY:

| Definition | Configuration | Text | Code |
|---|---|---|---|
| `DuplicatesAreSkipped` | `MCPaymentsRaces` | docs/features/payments.md:30, 419, 483: a duplicate event is acknowledged "without reprocessing" | one whose first delivery was recorded and never finished is processed (payment-webhooks.controller.ts:38-46). The code is right and the document out of date: `EveryEventIsAnswered` and `ChargeEventuallySettled` rest on it |
| `PublishedIsPriced` | `MCBackOffice` | products.service.ts:202-203: "dropping the price to 0 can't slip through" on a published product | the check is made on the entity in memory. One request publishes a draft that has a price, another sets the price to 0, which the DTO admits; both re-read the draft before either writes, one writes the status alone and the other the price alone |
| `PublishedWasVetted` | `MCPaymentsRivals` | docs/features/reviews.md:19: an edited review "must be re-reviewed by an admin" | of a review that is not approved, the approval writes the flag alone (reviews.service.ts:139) and the author's edit the text alone (line 133) when both have re-read it before either writes |
| `RotationEnforced` | `MCShop` | docs/features/auth.md:21: "Refresh tokens are single-use (rotation enforced)" | the token is compared with a row loaded before (auth.service.ts:112-120) and cleared by a save that does not ask whether it is still there (line 123), so parallel rotations of one token all succeed |

## 4. What is proved

Each theorem holds for every value of the constants that satisfies the named
assumptions of its module, so for any number of payments, refunds, orders, requests
and variants.

* `OrderLifecycleProofs`: lemmas on the operators of `OrderLifecycle` - they keep the
  types, the chain of the history, the tie between CANCELLED and one restock - cited by
  the next two.
* `PaymentsProofs`: `TypeOK`, `HistoryIsChain`, `RestockedIffCancelled`,
  `FulfilmentNeverMovesBack`, `SettledPaymentMovedOrder`, `SecondPaymentNeedsFailure`,
  `RequestOwnsUnofferedPayment`, `ChargesAreBooked`, `AcknowledgedChargeBlocksCancel` and
  `OnlyCreateReopens` (together `SettlementIsKept`), and the refinement
  `PaymentsKeepTheBook == Spec => ImplementsChargeBook`. The inductive invariant `IInv` adds two
  facts to the properties themselves: no payment is refunded in this module
  (`RowsWithoutRefunds`), and what Stripe has emitted agrees with its sessions
  (`StripeFollows`). Without the second, an event could complete a payment
  that a request still holds; without RequestOwnsUnofferedPayment, which speaks of the entity
  and of the re-read alike, the save of create() could undo a completion, so the properties are only inductive together. The refinement
  needs all of them: that a reported charge is not reopened is RequestOwnsUnofferedPayment (a
  request that could still save over it has not offered it to the customer), and that nothing
  is settled when the goods go back is the guard of assertNotPaid under the order's lock.
* `RefundsProofs`: `RowsTypeOK`, `ApprovalOwnsRefund`, `OrderFollowsPayment`,
  `HistoryIsChain`, `RejectedIsFinal`, and the refinement
  `PiecesAreLedger == Spec => ImplementsPieces`. The inductive invariant is
  `RowsTypeOK /\ CallsMatch /\ ApprovalsMatch /\ LinksMatch`: where a call stands fits
  the status of its row, where an approval stands fits its request and its refund, and
  a link names a refund that fits. The refinement proof shows that every action either
  leaves the entry of every refund alone, or reserves, settles or releases one, and that
  the quantity check of the code is the guard of `Reserve`.
* `FiniteSums`: a sum over a finite set is a fold that the community modules define by
  recursion over subsets, so its laws need induction. `SmallestSet` gets it from
  well-foundedness: among the subsets for which a statement fails there is a smallest
  one. From it follow that the order of the terms does not matter, what a sum becomes when a
  term is added or changed, and that no term is more than the sum.
* `RefundMoneyProofs`: `TypeOK`, `NeverRefundedTwice`, `RefundsAreBooked`,
  `DashboardReconciled` and `EventsCompleteBooks` (together `EventsReconcile`),
  `OnlyFaultsReopenRefunded` and `CallsCompleteBooks` (together `FaultlessCallsAgree`),
  `OnlySettlingOverbooks`, and the second refinement,
  `MoneyIsLedger == Spec => ImplementsMoney`. Five invariants build on each other:
  `MoneyInv` adds to that of `RefundsProofs` the types of what Stripe knows (`StripeTypeOK`)
  and that nothing has been returned for a row before the gateway was asked
  (`UnpaidYet`); `PaidAsAsked`, that a call that succeeded has moved exactly its amount;
  `EventsMatch`, that an event names a refund that moved money and a total Stripe has
  reached, and some event carries the latest total; `DashboardBooks`, that where only the
  dashboard refunds the books hold every total that was handled and no more than was
  returned; and `ReturnsAreHeld`, that without a fault the money returned for a request is
  held for it by its approval, which waits or is about to link, or by the request itself.
  For the completeness of the books `HandledIsBooked` says that every total whose event was
  handled is on the books, which never shrink (`BooksGrow`), and `OwnReturns` that without a
  fault a refund for which money went is SUCCEEDED or its call has still to say so. That nothing but
  settling overbooks follows from `SettledWithinReturned`: as long as no event has booked
  anything, what is settled was returned.
* `SalesProofs`, stock: `TypeOK`, which includes that stock is never negative and no code
  is used beyond its limit, `CountersFollowOrders`, which includes
  `TotalsFollowItems`, and `RulesHoldAtCommit`. `StockIInv` is `TypeOK /\ Placed /\ EditsPlaced`: a
  request that has not committed has no order, an order that does not exist holds
  nothing, and a running edit is about an order that exists and was PENDING. Without
  `Placed`, placing an order could overwrite one and lose its pieces. `OnlyStaleWritesUnbalance`
  confines what `orders_edit_race` finds: stock plus what the orders hold is the supply at first
  and after every step, unless the step writes an edit of an order that has changed, or a
  variant whose stock has. Double entry says so of one order; that the sum over all of them
  follows is `ExchangeBalances`.
* `SalesProofs`, amounts: `AmountsAgree` for all prices, quantities, discounts and fees, where
  TLC has a handful. Each rounding is within half a hundredth of its quotient
  (`HalfUpIsClose`, and `HalfDownIsClose` for the exact half that Big.js' 20 decimal places
  send down), so the shares that were refunded stay within half a hundredth per refund of
  what was paid for the pieces; and what Stripe is asked for reads back (`ReadBack`).
* `SalesProofs`, locks: `SalesNeverDeadlock` for any number of transactions, and
  `LocksTypeOK`. `LocksIInv` says of each transaction what it holds and has still to lock: a
  sale only rows that come later than those it holds, a payment its own row and then
  the order. In a circle of sales every wanted row would come after another wanted one;
  ids are natural numbers, so one comes first. That a list can be sorted at all, on which `Sorted`
  rests, is `CanBeSorted`, by induction over the set of the variants.
* `StoreProofs`, accounts: `RedeemedTokenIsGone`, `AccountKept` and `AuthTypeOK`. A save may mix
  the columns of two entities, so `AuthIInv` cannot say of each row that its tokens differ; it
  says that every token was issued for one kind of column and stands in no other, in the row
  and in all that requests have loaded or read again (`OneKindEach`). A save whose re-read has
  not found the token writes nothing to its column, so it must have gone before
  (`LostTokensGone`), and `UsedGone` says of a redeemed token that the row has lost it unless
  it was restored. `AccountKept` needs that whoever reissues a verification has read an account that
  was not active.
* `StoreProofs`, carts: `BoughtLeavesCart` and `CartTypeOK` (one line per variant). `CartIInv`
  speaks of the lines that updates carry as well as of those in the table
  (`IdsNameVariants`): an id names one variant for ever, and none that was ordered is given to a
  later line.
* `StoreProofs`, catalogue: `CatalogHolds`, and `LastImageStays`, `StatusFollowsTable` and
  `UnpricedOnlyByMixing` (together `PolicyHoldsAtSave`).
  `CatalogIInv` says what each request has read and may rely on (`AdminsSound`): the
  entity that waits to be saved has a price if it is published, so that a row without one
  is no entity but a mixture; an image is added that no
  other request knows (`AddsApart`), and a removal was allowed by what was read.
* `StoreProofs`, pictures: `PictureRowHolds` and `PictureTypeOK`. `PictureIInv` says why
  columns that requests overwrite one by one never show a file that is deleted: each file
  belongs to one slot, in the row and in all that requests hold (`AssetsHaveOneSlot`), the file
  that a save is about to show is known to nobody else (`NewsAreFresh`), a save gives up only
  the url of its own slot (`UploadsSound`), and an url that was given up does not come back
  unless a save was stale (`LinksStay`).
* `OfficeProofs`: `OneDefaultAddress`, for any number of addresses and requests, where
  `AddressIInv` needs `NothingSetSince`: between the two statements of a request there is
  no default address unless somebody has set one since the first, and then the request is
  among the overtaken whose second statement makes rivals. `UnvettedOnlyByMixing`: `PublishedWasVetted`
  is false of the rows, but `DraftsAreVetted` says it of every entity that waits to be saved or
  inserted, so a row that breaks it is no such entity. `AssignmentsHold`, where `AccessIInv` is `AccessTypeOK /\ ExpectedOK /\ LoadedOK /\
  AssignmentsHold`: the rows with their foreign keys and what is expected of them are well formed;
  the entity that is saved differs from what was loaded in the assigned relation only
  (`LoadedRows`), so that a save whose re-read found the row as it was loaded leaves the other
  relation to whoever writes it meanwhile, and moves rows and expectation alike.
* `OfficeProofs`, categories: `TreeAsAsked` and `TreeTypeOK`, for any number of categories and
  requests. The property says that the storefront's walk down from the roots lists every
  category. The walk is a recursive function, so first it is shown to exist and to end:
  `LevelsSettle` says that as many steps as there are categories reach everything that any
  number of steps does, because a step that adds something makes the set larger. The walk
  changes with every save, so the invariant `TreeIInv` speaks of `Grounded` instead: among any
  categories there is one that is not below another of them. `GroundedIsListed` leads from
  there to the walk, and `MovedStaysGrounded` says that moving a category anywhere but below
  itself, which is what the policy lets through, keeps it. `EditSound` adds what a
  request has loaded: a category that exists, not asked to go under itself, which holds of it
  still when its save has read the row again; and no children if it is to be removed.
* `OfficeProofs`, seeds: `SeedsAgree` and `SeedTypeOK`, for any number of runs and orders. `SeedIInv`
  needs `ItemsWhole`, that an item has its first row only with the others and the stages that
  are over have left theirs, and `OrdersWhole`, the same for an order and its items, and for a
  refund, its payment and its order. What an item needs belongs to an earlier stage
  (`NeedsComeFirst`); with that, a stage that does not find what it needs and skips its item
  cannot occur, unless a run died within an item.
* The whole of a run: a behaviour of `MCShop` is, through the variables of each part, a
  behaviour of that part's specification (`ShopIsItsParts`), because a step of another part
  leaves them alone. So `PartsTypeOK` (`ShopTypeCorrect`) and every other property of the run
  (`ShopKeepsItsRules`) are theorems of `MCSpec`. The same is proved of `MCRivals`
  (`RivalsAreTheirParts`, `RivalsTypeCorrect`, `RivalsKeepTheirRules`), but for schema and
  deletions.

**Assumptions.** The constants are the bounds of the models and the ids of rows. Beyond
being sets of the right kind, the proofs assume that ids of items, refunds and dashboard
refunds are finitely many (an order has finitely many items, and only finitely many rows are ever
inserted), that ids of application and dashboard refunds differ (Stripe's are unique), that amounts
are natural numbers of hundredths, that variants have numbers as ids
in `RowLocks` (only their order matters), that the bounds on categories and seeded orders are
natural numbers, that the orders of `OrderStock` are finitely many, and that there is a variant,
an order and a role to speak of. Each assumption is named in its module and evaluated by TLC in every run.

A refund whose amount rounds to nothing still makes its payment PARTIALLY_REFUNDED
(payments.service.ts:591-597 compares sums and does not ask whether anything was returned).
`PaymentFollowsBooks` says so through `NothingSettled`; with small instances whose amounts are all
positive the difference does not show.

**Only model-checked.** Liveness (`ChargeEventuallySettled`, `EveryEventIsAnswered`), which is out
of the prover's reach. `SchemaFollowsVersion` and `BooksOutliveCatalogue` are about the 22
migrations, which are constants of the code: `Schema` and `Deletions` have no parameters, so TLC
explores everything there is, and a theorem would say nothing more. The properties of the
violation runs, and the four definitions that follow them in section 3, are false; what confines
each of them is proved:

| Disagreement | Confined by |
|---|---|
| `OneActivePayment` | `SecondPaymentNeedsFailure` |
| `DuplicatesAreSkipped` | `ChargesAreBooked` |
| `BooksNeverExceed` | `OnlySettlingOverbooks` |
| `QuietBooksComplete` | `EventsCompleteBooks`, `CallsCompleteBooks`, `DashboardReconciled` |
| `LostAnswerRefundedOnce` | `NeverRefundedTwice` |
| `StockBalanced` | `OnlyStaleWritesUnbalance` |
| `ArchivedIsReviewed` | `StatusFollowsTable` |
| `PublishedIsPriced` | `UnpricedOnlyByMixing` |
| `RotationEnforced` | `RedeemedTokenIsGone` |
| `PublishedWasVetted` | `UnvettedOnlyByMixing` |

## 5. What is not modelled

Order numbers and their retry; the OAuth login, which nothing calls (the only strategy
that would is commented out and not registered: google.strategy.ts, auth.module.ts:44); tags, slugs, SKUs and the primary flag of
product images; adding and removing variants; wishlists, whose operations are an insert
under a unique constraint and deletes; the contents of tokens, and how long they carry a
permission that was revoked; e-mails, which are sent after commit and whose failure is
logged. Formatting, validation of inputs, signatures and access control are left out: the
inputs of the modules are what the DTOs admit. The columns of the tables, the rows that
migrations rewrite and the data of the seeds matter to no property.

## 6. Plan

Done: the modules of section 2 and the proofs of section 4. What would add most next:

1. `Shop`, a composition of an order's stock with its payments and refunds, whose
   abstract specification is one ledger of pieces and money per order.
2. Variants and the primary image in `Catalog`.
3. What leaves the cart with a checkout that did not read it (orders.service.ts:290), should the
   repository come to promise anything about it.
