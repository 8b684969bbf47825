-------------------------------- MODULE Catalog --------------------------------
(***************************************************************************)
(* One product of the catalogue with its images                            *)
(* (src/src/products/products.service.ts,                                  *)
(* src/src/products/policies/product.policy.ts): created, updated,         *)
(* published, archived, removed, and its images uploaded and removed, by   *)
(* several administrators at a time.  No operation locks the product, so   *)
(* every await between a read and a write is a step, the re-read and the   *)
(* UPDATE of save() included; a re-read sees the product and its images at *)
(* one time.                                                               *)
(***************************************************************************)
EXTENDS EntitySave, FiniteSets, Integers

CONSTANTS
  Images,        \* ids of rows of product_images: 1, 2, ...
  AdminRequests

VARIABLES
  product,       \* the row of products
  images,        \* ids of its rows in product_images
  hosted,        \* images with a publicId: they were uploaded
  assets,        \* uploaded images whose file the storage provider still has
  adminRequest,  \* running requests
  madeImages,    \* ids that have been given to an image; none is used again
  revivedImages  \* history: images a save inserted again

catalogVars == <<product, images, hosted, assets, adminRequest, madeImages, revivedImages>>

ProductStatus == {"DRAFT", "PUBLISHED", "ARCHIVED"}
\* priced: basePrice > 0.
Product == [status : ProductStatus, priced : BOOLEAN]
Unborn  == [status |-> "NONE"]
Removed == [status |-> "REMOVED"]
ProductExists == product \notin {Unborn, Removed}

Transitions == [DRAFT |-> {"PUBLISHED", "ARCHIVED"},
                PUBLISHED |-> {"DRAFT", "ARCHIVED"},
                ARCHIVED |-> {"DRAFT"}]
CanTransitionProduct(from, to) == from = to \/ to \in Transitions[from]

CanPublish(row, pictures) == row.priced /\ pictures # {}
CanRemoveImage(status, pictures) == status = "PUBLISHED" => Cardinality(pictures) > 1

\* A request keeps the images it adds or removes; one that decides by the
\* product keeps the status and the images it has read, and the product it will
\* save.  A save that has read the row again keeps that row, of the images it has
\* seen those that were missing then, and the extra ones it had not seen.
AdminRow == [at      : {"images", "save", "update", "remove", "upload", "attach", "asset", "row"},
             product : Product \cup {Unborn},
             read    : ProductStatus \cup {"NONE"},
             seen    : SUBSET Images,
             about   : SUBSET Images,
             before  : Product \cup {Unborn, Removed},
             extra   : SUBSET Images]
NoAdmin == [at |-> "idle"]

CatalogInit ==
  /\ product = Unborn
  /\ images = {}
  /\ hosted = {}
  /\ assets = {}
  /\ adminRequest = [r \in AdminRequests |-> NoAdmin]
  /\ madeImages = {}
  /\ revivedImages = {}

SetAdmin(r, state) == adminRequest' = [adminRequest EXCEPT ![r] = state]
GoesOn(r, at, row, pictures) ==
  SetAdmin(r, [at |-> at, product |-> row, read |-> product.status, seen |-> images,
               about |-> pictures, before |-> Unborn, extra |-> {}])
Brings(r, at, pictures) ==
  SetAdmin(r, [at |-> at, product |-> Unborn, read |-> "NONE", seen |-> {},
               about |-> pictures, before |-> Unborn, extra |-> {}])
Idle(r) == adminRequest[r].at = "idle"
About(r) == adminRequest[r].about
Seen(r) == adminRequest[r].seen
\* Ids are given out in order.
NewImages(pictures) ==
  /\ pictures \cap madeImages = {}
  /\ madeImages' = madeImages \cup pictures
  /\ madeImages' = 1 .. Cardinality(madeImages')

-----------------------------------------------------------------------------
(* create: the product first, then the images its request lists.             *)

CreateProduct(r, row, pictures) ==
  /\ Idle(r) /\ product = Unborn
  /\ row.status = "PUBLISHED" => CanPublish(row, pictures)
  /\ product' = row
  /\ Brings(r, "images", pictures)
  /\ NewImages(pictures)
  /\ UNCHANGED <<images, hosted, assets, revivedImages>>

\* Fails on the foreign key when the product has been removed.
CreateImages(r) ==
  /\ adminRequest[r].at = "images"
  /\ images' = IF ProductExists THEN images \cup About(r) ELSE images
  /\ SetAdmin(r, NoAdmin)
  /\ UNCHANGED <<product, hosted, assets, madeImages, revivedImages>>

-----------------------------------------------------------------------------
(* update: findOne with its images, checks, and the two steps of save().     *)

\* A wrong form: the state machine of the product is not asked.
FindForAnyUpdate(r, row) ==
  /\ Idle(r) /\ ProductExists
  /\ row.status = "PUBLISHED" => CanPublish(row, images)
  /\ GoesOn(r, "save", row, {})
  /\ UNCHANGED <<product, images, hosted, assets, madeImages, revivedImages>>

\* A wrong form: the price is asked for on the transition alone.
FindForAnyPrice(r, row) ==
  /\ Idle(r) /\ ProductExists
  /\ CanTransitionProduct(product.status, row.status)
  /\ row.status = "PUBLISHED" /\ product.status # "PUBLISHED" => CanPublish(row, images)
  /\ GoesOn(r, "save", row, {})
  /\ UNCHANGED <<product, images, hosted, assets, madeImages, revivedImages>>

FindForUpdate(r, row) ==
  /\ Idle(r) /\ ProductExists
  /\ CanTransitionProduct(product.status, row.status)
  /\ row.status = "PUBLISHED" => CanPublish(row, images)
  /\ GoesOn(r, "save", row, {})
  /\ UNCHANGED <<product, images, hosted, assets, madeImages, revivedImages>>

ReReadProduct(r) ==
  /\ adminRequest[r].at = "save"
  /\ SetAdmin(r, [adminRequest[r] EXCEPT !.at = "update", !.before = product,
                    !.seen = Seen(r) \ images, !.extra = images \ Seen(r)])
  /\ UNCHANGED <<product, images, hosted, assets, madeImages, revivedImages>>

\* The product is inserted when the re-read has missed it, as the images are.
Inserts(r) == adminRequest[r].before \notin Product

\* The transaction of the save is rolled back: on a primary key, when another save
\* was first to insert; on the foreign key of an inserted image, when the product
\* has gone; on product_id, which is NOT NULL, when it takes the product from an
\* image that the entity does not know.
SaveFails(r) ==
  \/ Inserts(r) /\ ProductExists
  \/ Seen(r) \cap images # {}
  \/ Seen(r) # {} /\ ~Inserts(r) /\ ~ProductExists
  \/ adminRequest[r].extra \cap images # {}

\* An UPDATE of a row that has gone writes nothing.
UpdateProduct(r) ==
  LET entity == adminRequest[r].product IN
  /\ adminRequest[r].at = "update"
  /\ IF SaveFails(r) THEN UNCHANGED <<product, images, revivedImages>>
     ELSE /\ \/ Inserts(r) /\ product' = entity
             \/ ~Inserts(r) /\ ProductExists /\ product' = Written(entity, adminRequest[r].before, product)
             \/ ~Inserts(r) /\ ~ProductExists /\ UNCHANGED product
          /\ images' = images \cup Seen(r)
          /\ revivedImages' = revivedImages \cup Seen(r)
  /\ SetAdmin(r, NoAdmin)
  /\ UNCHANGED <<hosted, assets, madeImages>>

FindForRemoval(r) ==
  /\ Idle(r) /\ ProductExists
  /\ product.status # "PUBLISHED"
  /\ Brings(r, "remove", {})
  /\ UNCHANGED <<product, images, hosted, assets, madeImages, revivedImages>>

\* The rows of the images go with the product; their files stay behind.
RemoveProduct(r) ==
  /\ adminRequest[r].at = "remove"
  /\ product' = Removed
  /\ images' = {}
  /\ SetAdmin(r, NoAdmin)
  /\ UNCHANGED <<hosted, assets, madeImages, revivedImages>>

-----------------------------------------------------------------------------
(* uploadImage stores the file first; addImage has only an address.          *)

FindForImage(r, i, uploaded) ==
  /\ Idle(r) /\ ProductExists
  /\ NewImages({i})
  /\ Brings(r, IF uploaded THEN "upload" ELSE "attach", {i})
  /\ UNCHANGED <<product, images, hosted, assets, revivedImages>>

UploadAsset(r) ==
  /\ adminRequest[r].at = "upload"
  /\ hosted' = hosted \cup About(r)
  /\ assets' = assets \cup About(r)
  /\ SetAdmin(r, [adminRequest[r] EXCEPT !.at = "attach"])
  /\ UNCHANGED <<product, images, madeImages, revivedImages>>

\* Fails on the foreign key when the product has been removed.
AttachImage(r) ==
  /\ adminRequest[r].at = "attach"
  /\ images' = IF ProductExists THEN images \cup About(r) ELSE images
  /\ SetAdmin(r, NoAdmin)
  /\ UNCHANGED <<product, hosted, assets, madeImages, revivedImages>>

-----------------------------------------------------------------------------
(* removeImage: the image, then the product with its images; the file, then  *)
(* the row.                                                                  *)

\* A wrong form: nobody asks how many images are left.
FindForDetachAlways(r, i) ==
  /\ Idle(r) /\ i \in images
  /\ GoesOn(r, "asset", Unborn, {i})
  /\ UNCHANGED <<product, images, hosted, assets, madeImages, revivedImages>>

FindForDetach(r, i) ==
  /\ Idle(r) /\ i \in images
  /\ CanRemoveImage(product.status, images)
  /\ GoesOn(r, "asset", Unborn, {i})
  /\ UNCHANGED <<product, images, hosted, assets, madeImages, revivedImages>>

\* A wrong form: the removal ends once the file has gone.
DeleteAssetAlone(r, deleted) ==
  /\ adminRequest[r].at = "asset"
  /\ assets' = IF deleted THEN assets \ About(r) ELSE assets
  /\ SetAdmin(r, IF deleted THEN NoAdmin ELSE [adminRequest[r] EXCEPT !.at = "row"])
  /\ UNCHANGED <<product, images, hosted, madeImages, revivedImages>>

\* A failure to delete the file is logged and does not stop the removal.
DeleteAsset(r, deleted) ==
  /\ adminRequest[r].at = "asset"
  /\ assets' = IF deleted THEN assets \ About(r) ELSE assets
  /\ SetAdmin(r, [adminRequest[r] EXCEPT !.at = "row"])
  /\ UNCHANGED <<product, images, hosted, madeImages, revivedImages>>

DetachImage(r) ==
  /\ adminRequest[r].at = "row"
  /\ images' = images \ About(r)
  /\ SetAdmin(r, NoAdmin)
  /\ UNCHANGED <<product, hosted, assets, madeImages, revivedImages>>

-----------------------------------------------------------------------------
AdminStarts(r) ==
  \/ \E row \in Product, pictures \in SUBSET Images : CreateProduct(r, row, pictures)
  \/ \E row \in Product : FindForUpdate(r, row)
  \/ FindForRemoval(r)
  \/ \E i \in Images : FindForDetach(r, i) \/ \E uploaded \in BOOLEAN : FindForImage(r, i, uploaded)

AdminGoesOn(r) ==
  \/ CreateImages(r)
  \/ ReReadProduct(r) \/ UpdateProduct(r) \/ RemoveProduct(r)
  \/ UploadAsset(r) \/ AttachImage(r)
  \/ \E deleted \in BOOLEAN : DeleteAsset(r, deleted)
  \/ DetachImage(r)

CatalogNext == \E r \in AdminRequests : AdminStarts(r) \/ AdminGoesOn(r)

CatalogSpec == CatalogInit /\ [][CatalogNext]_catalogVars

-----------------------------------------------------------------------------
\* A product that does not exist has no images.
CatalogTypeOK ==
  /\ product \in Product \cup {Unborn, Removed}
  /\ images \subseteq madeImages
  /\ ~ProductExists => images = {}
  /\ assets \subseteq hosted
  /\ hosted \subseteq madeImages
  /\ madeImages \subseteq Images
  /\ revivedImages \subseteq madeImages
  /\ adminRequest \in [AdminRequests -> AdminRow \cup {NoAdmin}]

\* products.service.ts:202: "Re-checked on every update of a published product, not
\* just the transition, so e.g. dropping the price to 0 can't slip through": the
\* storefront never shows a product without a price.  False of the code when two
\* saves mix; UnpricedOnlyByMixing says that nothing else breaks it.
PublishedIsPriced == product.status = "PUBLISHED" => product.priced

\* Every uploaded image of the product can be displayed, unless it is being
\* removed or a save of an older entity has inserted it again
\* (products.service.ts:207, 268-289).
ImageHasAsset ==
  \A i \in images \cap hosted :
    \/ i \in assets \cup revivedImages
    \/ \E r \in AdminRequests : adminRequest[r].at = "row" /\ i \in About(r)

\* Whoever removes a product or an image, and whatever fails half way, no image
\* outlives its product and none is shown whose file is gone.
CatalogHolds == CatalogTypeOK /\ ImageHasAsset

\* The UPDATE of a save whose row another save has changed since the re-read: the
\* row is not what was checked, but a mixture of two entities.
MixesProducts(r) ==
  /\ adminRequest[r].at = "update" /\ adminRequest'[r].at = "idle"
  /\ adminRequest[r].before # product

\* A product without a price comes to the storefront in one way only: two updates,
\* each checked on its own, mix.  Neither a stale entity nor one inserted again
\* brings it there (products.service.ts:202-207).
UnpricedOnlyByMixing ==
  [][ PublishedIsPriced => PublishedIsPriced' \/ \E r \in AdminRequests : MixesProducts(r) ]_catalogVars

\* A published product loses its last image only to a removal that was allowed
\* while the product was in another state, or had other images.
LastImageStays ==
  [][ product.status = "PUBLISHED" /\ product' = product /\ images # {} /\ images' = {} =>
        \E r \in AdminRequests :
          /\ adminRequest[r].at = "row" /\ adminRequest'[r].at = "idle"
          /\ adminRequest[r].read # product.status \/ images # adminRequest[r].seen ]_catalogVars

\* A product moves along the transitions of its state machine, and one that was
\* removed stays away, unless an administrator saves what he read when it was in
\* another state (products.service.ts:171-205, product.policy.ts:18-40).
SavesStale(r) ==
  /\ adminRequest[r].at = "update" /\ adminRequest'[r].at = "idle"
  /\ adminRequest[r].read # product.status

MovesAsAllowed ==
  \/ ~ProductExists'
  \/ product = Unborn
  \/ ProductExists /\ CanTransitionProduct(product.status, product'.status)
  \/ \E r \in AdminRequests : SavesStale(r)

StatusFollowsTable == [][MovesAsAllowed]_catalogVars

\* The policy is asked on what a request has read, and holds of what it writes.
PolicyHoldsAtSave == LastImageStays /\ StatusFollowsTable /\ UnpricedOnlyByMixing

\* product.policy.ts:17: "ARCHIVED products must go back to DRAFT before they can
\* be re-published, so someone reviews them before they reappear".
ArchivedIsReviewed == [][ product.status = "ARCHIVED" => product'.status # "PUBLISHED" ]_catalogVars

================================================================================
