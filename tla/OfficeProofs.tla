----------------------------- MODULE OfficeProofs -----------------------------
(***************************************************************************)
(* The default address, the reviews of the storefront, the assignment of   *)
(* roles and permissions, and the tree of categories, for any number of    *)
(* rows and of requests; the seed script, for any number of runs; and what *)
(* therefore holds of the whole of MCRivals.                               *)
(***************************************************************************)
EXTENDS MCRivals, CategoryTree, PaymentsProofs, FiniteSums

(***************************************************************************)
(* One default address.                                                    *)
(*                                                                         *)
(* Clearing and setting the flag are two statements, so the invariant has  *)
(* to say what holds between them: a request that has cleared it finds no  *)
(* default when it sets its own, unless another request has come between.  *)
(***************************************************************************)
AddressIInv == AddressTypeOK /\ OneDefaultAddress /\ NothingSetSince

LEMMA AddressInitIInv == AddressInit => AddressIInv
  BY DEF AddressInit, AddressIInv, AddressTypeOK, OneDefaultAddress, NothingSetSince, Cleared, Call, NoCall

\* A call that stays within its type when its step moves on.
LEMMA CallStep ==
  ASSUME AddressTypeOK, NEW r \in AddressRequests, calls[r].step = "clear"
  PROVE  [calls[r] EXCEPT !.step = "write"] \in Call
  BY DEF AddressTypeOK, Call, NoCall

LEMMA AddressTypeStep ==
  ASSUME AddressTypeOK, [AddressNext]_addressVars
  PROVE  AddressTypeOK'
<1>1. ASSUME NEW a \in AddressIds, CreateAddress(a) \/ UnsetDefault(a) \/ RemoveAddress(a)
      PROVE  AddressTypeOK'
  BY <1>1 DEF AddressTypeOK, CreateAddress, UnsetDefault, RemoveAddress
<1>2. ASSUME NEW r \in AddressRequests, NEW a \in AddressIds, CreateDefault(r, a)
      PROVE  AddressTypeOK'
  BY <1>2 DEF AddressTypeOK, CreateDefault, Call
<1>3. ASSUME NEW r \in AddressRequests, NEW a \in AddressIds, FindAddress(r, a)
      PROVE  AddressTypeOK'
  BY <1>3 DEF AddressTypeOK, FindAddress, Call
<1>4. ASSUME NEW r \in AddressRequests, ClearDefaults(r)
      PROVE  AddressTypeOK'
  <2>1. calls' \in [AddressRequests -> Call]
    BY <1>4, CallStep DEF AddressTypeOK, ClearDefaults
  <2> QED BY <1>4, <2>1 DEF AddressTypeOK, ClearDefaults
<1>5. ASSUME NEW r \in AddressRequests, WriteDefault(r)
      PROVE  AddressTypeOK'
  <2>1. calls' \in [AddressRequests -> Call]
    BY <1>5 DEF AddressTypeOK, WriteDefault, Call
  <2>2. PICK row : /\ row \subseteq given
                   /\ addresses' = addresses \cup row
                   /\ defaults' = defaults \cup row
    BY <1>5 DEF AddressTypeOK, WriteDefault
  <2>3. overtaken' \subseteq AddressRequests /\ rivals' \in BOOLEAN
    BY <1>5 DEF AddressTypeOK, WriteDefault, Cleared
  <2> QED BY <1>5, <2>1, <2>2, <2>3 DEF AddressTypeOK, WriteDefault
<1>6. ASSUME NEW r \in AddressRequests, AbandonCall(r)
      PROVE  AddressTypeOK'
  BY <1>6 DEF AddressTypeOK, AbandonCall, Call
<1>7. CASE UNCHANGED addressVars
  BY <1>7 DEF AddressTypeOK, addressVars
<1> QED BY <1>1, <1>2, <1>3, <1>4, <1>5, <1>6, <1>7 DEF AddressNext

LEMMA AddressStep ==
  ASSUME AddressIInv, [AddressNext]_addressVars
  PROVE  OneDefaultAddress' /\ NothingSetSince'
<1> USE DEF AddressIInv, OneDefaultAddress, NothingSetSince
<1>1. ASSUME NEW a \in AddressIds, CreateAddress(a) \/ UnsetDefault(a) \/ RemoveAddress(a)
      PROVE  OneDefaultAddress' /\ NothingSetSince'
  BY <1>1 DEF CreateAddress, UnsetDefault, RemoveAddress, Cleared
\* Neither of these leaves a request between its two statements that was not there,
\* nor sets a flag.
<1>2. ASSUME NEW r \in AddressRequests, Cleared' \ overtaken' \subseteq Cleared \ overtaken,
             UNCHANGED <<defaults, rivals>>
      PROVE  OneDefaultAddress' /\ NothingSetSince'
  BY <1>2
<1>3. ASSUME NEW r \in AddressRequests, NEW a \in AddressIds, CreateDefault(r, a) \/ FindAddress(r, a)
      PROVE  Cleared' \ overtaken' \subseteq Cleared \ overtaken /\ UNCHANGED <<defaults, rivals>>
  BY <1>3 DEF CreateDefault, FindAddress, Cleared, AddressTypeOK
<1>4. ASSUME NEW r \in AddressRequests, AbandonCall(r)
      PROVE  Cleared' \ overtaken' \subseteq Cleared \ overtaken /\ UNCHANGED <<defaults, rivals>>
  BY <1>4 DEF AbandonCall, Cleared, AddressTypeOK, NoCall
<1>5. ASSUME NEW r \in AddressRequests, ClearDefaults(r)
      PROVE  OneDefaultAddress' /\ NothingSetSince'
  BY <1>5 DEF ClearDefaults
<1>6. ASSUME NEW r \in AddressRequests, WriteDefault(r)
      PROVE  OneDefaultAddress' /\ NothingSetSince'
  <2>1. PICK row : /\ row \subseteq {calls[r].address}
                   /\ defaults' = defaults \cup row
                   /\ overtaken' = (IF row = {} THEN overtaken ELSE overtaken \cup Cleared) \ {r}
    BY <1>6 DEF WriteDefault
  <2>2. r \in Cleared /\ Cleared' = Cleared \ {r}
    BY <1>6 DEF WriteDefault, Cleared, AddressTypeOK, NoCall
  <2>3. rivals' = (rivals \/ r \in overtaken)
    BY <1>6 DEF WriteDefault
  <2>4. OneDefaultAddress'
    BY <2>1, <2>2, <2>3
  <2>5. NothingSetSince'
    BY <2>1, <2>2
  <2> QED BY <2>4, <2>5
<1>7. CASE UNCHANGED addressVars
  BY <1>7 DEF addressVars, Cleared
<1> QED BY <1>1, <1>2, <1>3, <1>4, <1>5, <1>6, <1>7 DEF AddressNext

-----------------------------------------------------------------------------
\* The inductive invariant, for every set of addresses and of requests.
THEOREM AddressesAlwaysIInv == AddressSpec => []AddressIInv
<1>1. AddressIInv /\ [AddressNext]_addressVars => AddressIInv'
  BY AddressTypeStep, AddressStep DEF AddressIInv
<1> QED BY AddressInitIInv, <1>1, PTL DEF AddressSpec

\* Two addresses are the default only after two requests have interleaved their two
\* statements (addresses.service.ts:62-67).
THEOREM AlwaysOneDefault == AddressSpec => []OneDefaultAddress
<1>1. AddressIInv => OneDefaultAddress
  BY DEF AddressIInv
<1> QED BY AddressesAlwaysIInv, <1>1, PTL

-----------------------------------------------------------------------------
(***************************************************************************)
(* What the storefront shows of a review was vetted, unless the UPDATEs of *)
(* two saves have mixed.                                                   *)
(*                                                                         *)
(* A save writes columns of an entity that was loaded earlier, so the      *)
(* invariant speaks of the entities that wait to be saved: it holds of     *)
(* them whatever has become of the rows.                                   *)
(***************************************************************************)
ReviewIInv == ReviewTypeOK /\ DraftsAreVetted

\* The entities that wait to be written.
Saving  == [step : {"insert", "save"}, id : ReviewIds, review : Review]
Updated == [step : {"update"}, id : ReviewIds, review : Review, before : Review]

LEMMA ReviewInitIInv == ReviewInit => ReviewIInv
  BY DEF ReviewInit, ReviewIInv, ReviewTypeOK, DraftsAreVetted, NoDraft, Draft

\* What a request that is about to save knows of its draft.
LEMMA WaitingDraft ==
  ASSUME ReviewTypeOK, NEW r \in ReviewRequests
  PROVE  /\ drafts[r].step \in {"insert", "save"} => drafts[r] \in Saving
         /\ drafts[r].step = "update" => drafts[r] \in Updated
         /\ drafts[r].step \in {"insert", "save", "update"} => drafts[r].id \in issued
<1>1. drafts[r] \in Draft
  BY DEF ReviewTypeOK
<1>2. drafts[r] # NoDraft => drafts[r].id \in issued
  BY DEF ReviewTypeOK
<1> QED BY <1>1, <1>2 DEF Draft, NoDraft, Saving, Updated

\* The columns of the row that the UPDATE of a save leaves.
LEMMA WrittenReview ==
  ASSUME NEW entity \in Review, NEW before \in Review, NEW now \in Review
  PROVE  Written(entity, before, now) \in Review
<1>1. Written(entity, before, now).text = IF entity.text = before.text THEN now.text ELSE entity.text
  BY DEF Written, Review
<1>2. Written(entity, before, now).approved =
        IF entity.approved = before.approved THEN now.approved ELSE entity.approved
  BY DEF Written, Review
<1> QED BY <1>1, <1>2 DEF Written, Review

\* The next draft of a request: what it prepares to save is vetted if approved.
LEMMA DraftStep ==
  ASSUME ReviewIInv,
         NEW r \in ReviewRequests, NEW d \in Draft,
         drafts' = [drafts EXCEPT ![r] = d],
         d # NoDraft => d.id \in issued',
         issued \subseteq issued',
         vetted \subseteq vetted',
         d.step \in {"insert", "save", "update"} /\ d.review.approved =>
           <<d.id, d.review.text>> \in vetted'
  PROVE  /\ drafts' \in [ReviewRequests -> Draft]
         /\ \A s \in ReviewRequests : drafts'[s] # NoDraft => drafts'[s].id \in issued'
         /\ DraftsAreVetted'
<1>1. drafts' \in [ReviewRequests -> Draft]
  BY DEF ReviewIInv, ReviewTypeOK
<1>2. \A s \in ReviewRequests : drafts'[s] # NoDraft => drafts'[s].id \in issued'
  BY DEF ReviewIInv, ReviewTypeOK
<1>3. DraftsAreVetted'
  <2> SUFFICES ASSUME NEW s \in ReviewRequests, drafts'[s].step \in {"insert", "save", "update"},
                      drafts'[s].review.approved
               PROVE  <<drafts'[s].id, drafts'[s].review.text>> \in vetted'
    BY DEF DraftsAreVetted
  <2>1. CASE s = r
    BY <2>1 DEF ReviewIInv, ReviewTypeOK
  <2>2. CASE s # r
    <3>1. drafts'[s] = drafts[s]
      BY <2>2 DEF ReviewIInv, ReviewTypeOK
    <3> QED BY <3>1 DEF ReviewIInv, DraftsAreVetted
  <2> QED BY <2>1, <2>2
<1> QED BY <1>1, <1>2, <1>3

\* Only the two statements that write change a row.
RowsStay == reviews' = reviews

\* A request that loads a review and decides what to save.
LEMMA LoadStep ==
  ASSUME ReviewIInv,
         NEW r \in ReviewRequests, NEW d \in Saving,
         drafts' = [drafts EXCEPT ![r] = d], d.id \in issued',
         RowsStay, issued \subseteq issued', issued' \subseteq ReviewIds,
         vetted \subseteq vetted', vetted' \subseteq ReviewIds \X Texts,
         d.review.approved => <<d.id, d.review.text>> \in vetted'
  PROVE  ReviewIInv'
<1>1. d \in Draft
  BY DEF Draft, Saving
<1>2. /\ drafts' \in [ReviewRequests -> Draft]
      /\ \A s \in ReviewRequests : drafts'[s] # NoDraft => drafts'[s].id \in issued'
      /\ DraftsAreVetted'
  BY <1>1, DraftStep
<1> QED BY <1>2 DEF ReviewIInv, ReviewTypeOK, RowsStay

\* A request that is through with its draft.
LEMMA DraftEnds ==
  ASSUME ReviewIInv, NEW r \in ReviewRequests,
         drafts' = [drafts EXCEPT ![r] = NoDraft],
         UNCHANGED <<issued, vetted>>,
         DOMAIN reviews' \subseteq issued,
         \A i \in DOMAIN reviews' : reviews'[i] \in Review,
         \A i, j \in DOMAIN reviews' : i = j
  PROVE  ReviewIInv'
<1>1. NoDraft \in Draft /\ NoDraft.step \notin {"insert", "save", "update"}
  BY DEF Draft, NoDraft
<1>2. /\ drafts' \in [ReviewRequests -> Draft]
      /\ \A s \in ReviewRequests : drafts'[s] # NoDraft => drafts'[s].id \in issued'
      /\ DraftsAreVetted'
  BY <1>1, DraftStep
<1> QED BY <1>2 DEF ReviewIInv, ReviewTypeOK

LEMMA ReReadStep ==
  ASSUME ReviewIInv, NEW r \in ReviewRequests, ReReadReview(r)
  PROVE  ReviewIInv'
<1>1. PICK d : d = drafts[r]  OBVIOUS
<1>2. d \in Saving /\ d.id \in issued
  BY <1>1, WaitingDraft DEF ReReadReview, ReviewIInv
<1>3. PICK e \in Draft : /\ drafts' = [drafts EXCEPT ![r] = e]
                         /\ e.step \in {"insert", "update"}
                         /\ e.id = d.id /\ e.review = d.review
  <2>1. CASE d.id \in DOMAIN reviews
    <3>1. reviews[d.id] \in Review
      BY <2>1 DEF ReviewIInv, ReviewTypeOK
    <3> DEFINE e == [step |-> "update", id |-> d.id, review |-> d.review, before |-> reviews[d.id]]
    <3>2. drafts' = [drafts EXCEPT ![r] = e]
      BY <1>1, <2>1 DEF ReReadReview
    <3>3. e \in Updated
      BY <1>2, <3>1 DEF Saving, Updated
    <3>4. e \in Draft
      BY <3>3 DEF Draft, Updated
    <3> QED BY <3>2, <3>4
  <2>2. CASE d.id \notin DOMAIN reviews
    <3> DEFINE e == [step |-> "insert", id |-> d.id, review |-> d.review]
    <3>1. drafts' = [drafts EXCEPT ![r] = e]
      BY <1>1, <2>2 DEF ReReadReview
    <3>2. e \in Saving
      BY <1>2 DEF Saving
    <3>3. e \in Draft
      BY <3>2 DEF Draft, Saving
    <3> QED BY <3>1, <3>3
  <2> QED BY <2>1, <2>2
<1>4. d.review.approved => <<d.id, d.review.text>> \in vetted
  BY <1>1 DEF ReviewIInv, DraftsAreVetted, ReReadReview
<1>5. UNCHANGED <<issued, reviews, vetted>>
  BY DEF ReReadReview
<1>6. /\ drafts' \in [ReviewRequests -> Draft]
      /\ \A s \in ReviewRequests : drafts'[s] # NoDraft => drafts'[s].id \in issued'
      /\ DraftsAreVetted'
  BY <1>2, <1>3, <1>4, <1>5, DraftStep
<1> QED BY <1>5, <1>6 DEF ReviewIInv, ReviewTypeOK

\* The row that an UPDATE leaves in place of the one it finds.
LEMMA UpdatedRow ==
  ASSUME ReviewIInv, NEW r \in ReviewRequests, UpdateReview(r), drafts[r].id \in DOMAIN reviews
  PROVE  /\ DOMAIN reviews' = DOMAIN reviews
         /\ reviews'[drafts[r].id] \in Review
         /\ \A i \in DOMAIN reviews : i = drafts[r].id
<1>1. PICK d : d = drafts[r]  OBVIOUS
<1>2. d \in Updated
  BY <1>1, WaitingDraft DEF UpdateReview, ReviewIInv
<1>3. reviews' = [j \in DOMAIN reviews \cup {d.id} |->
                    IF j = d.id THEN Written(d.review, d.before, reviews[d.id]) ELSE reviews[j]]
  BY <1>1 DEF UpdateReview, WriteReview
<1>4. reviews'[d.id] = Written(d.review, d.before, reviews[d.id])
  BY <1>1, <1>3
<1>5. reviews[d.id] \in Review
  BY <1>1 DEF ReviewIInv, ReviewTypeOK
<1>6. Written(d.review, d.before, reviews[d.id]) \in Review
  BY <1>2, <1>5, WrittenReview DEF Updated
<1>7. DOMAIN reviews' = DOMAIN reviews
  BY <1>1, <1>3
<1>8. \A i \in DOMAIN reviews : i = d.id
  BY <1>1 DEF ReviewIInv, ReviewTypeOK
<1> QED BY <1>1, <1>4, <1>6, <1>7, <1>8

LEMMA UpdateStep ==
  ASSUME ReviewIInv, NEW r \in ReviewRequests, UpdateReview(r)
  PROVE  ReviewIInv'
<1>1. drafts' = [drafts EXCEPT ![r] = NoDraft] /\ UNCHANGED <<issued, vetted>>
  BY DEF UpdateReview
<1>2. CASE drafts[r].id \in DOMAIN reviews
  BY <1>1, <1>2, UpdatedRow, DraftEnds DEF ReviewIInv, ReviewTypeOK
<1>3. CASE drafts[r].id \notin DOMAIN reviews
  <2>1. reviews' = reviews
    BY <1>3 DEF UpdateReview
  <2> QED BY <1>1, <2>1, DraftEnds DEF ReviewIInv, ReviewTypeOK
<1> QED BY <1>2, <1>3

LEMMA InsertStep ==
  ASSUME ReviewIInv, NEW r \in ReviewRequests, InsertReview(r)
  PROVE  /\ ReviewIInv'
         /\ DOMAIN reviews' = {drafts[r].id}
         /\ reviews'[drafts[r].id] = drafts[r].review
<1>1. PICK d : d = drafts[r]  OBVIOUS
<1>2. d \in Saving /\ d.id \in issued
  BY <1>1, WaitingDraft DEF InsertReview, ReviewIInv
<1>3. reviews' = [j \in {d.id} |-> d.review]
  BY <1>1 DEF InsertReview, WriteReview
<1>4. DOMAIN reviews' = {d.id} /\ reviews'[d.id] = d.review /\ d.review \in Review
  BY <1>2, <1>3 DEF Saving
<1>5. drafts' = [drafts EXCEPT ![r] = NoDraft] /\ UNCHANGED <<issued, vetted>>
  BY DEF InsertReview
<1>6. ReviewIInv'
  BY <1>2, <1>4, <1>5, DraftEnds
<1> QED BY <1>1, <1>4, <1>6

LEMMA ReviewStep ==
  ASSUME ReviewIInv, [ReviewNext]_reviewVars
  PROVE  ReviewIInv'
<1> USE DEF ReviewIInv, ReviewTypeOK
<1>1. ASSUME NEW r \in ReviewRequests, NEW i \in ReviewIds, NEW text \in Texts,
             BeginReview(r, i, text) \/ EditOwnReview(r, i, text)
      PROVE  ReviewIInv'
  <2>1. PICK d : d \in Saving /\ d.id = i /\ ~d.review.approved /\ drafts' = [drafts EXCEPT ![r] = d]
    BY <1>1 DEF BeginReview, EditOwnReview, Saving, Review
  <2>2. RowsStay /\ vetted' = vetted /\ issued \subseteq issued' /\ i \in issued'
    BY <1>1 DEF BeginReview, EditOwnReview, RowsStay
  <2>3. issued' \subseteq ReviewIds
    BY <1>1 DEF BeginReview, EditOwnReview
  <2> QED BY <2>1, <2>2, <2>3, LoadStep
<1>2. ASSUME NEW r \in ReviewRequests, NEW i \in ReviewIds, NEW text \in Texts,
             EditAsAdmin(r, i, text)
      PROVE  ReviewIInv'
  <2>1. PICK d : /\ d \in Saving /\ d.id = i /\ d.review.text = text
                 /\ drafts' = [drafts EXCEPT ![r] = d]
    BY <1>2 DEF EditAsAdmin, Saving, Review
  <2>2. RowsStay /\ issued' = issued /\ i \in issued'
    BY <1>2 DEF EditAsAdmin, RowsStay
  <2>3. /\ vetted \subseteq vetted' /\ vetted' \subseteq ReviewIds \X Texts
        /\ <<i, text>> \in vetted'
    BY <1>2 DEF EditAsAdmin
  <2> QED BY <2>1, <2>2, <2>3, LoadStep
<1>3. ASSUME NEW r \in ReviewRequests, NEW i \in ReviewIds, NEW approved \in BOOLEAN,
             Moderate(r, i, approved)
      PROVE  ReviewIInv'
  <2>1. reviews[i].text \in Texts
    BY <1>3 DEF Moderate, Review
  <2>2. PICK d : /\ d \in Saving /\ d.id = i /\ d.review.text = reviews[i].text
                 /\ d.review.approved = approved
                 /\ drafts' = [drafts EXCEPT ![r] = d]
    BY <1>3 DEF Moderate, Saving, Review
  <2>3. RowsStay /\ issued' = issued /\ i \in issued'
    BY <1>3 DEF Moderate, RowsStay
  <2>4. /\ vetted \subseteq vetted' /\ vetted' \subseteq ReviewIds \X Texts
        /\ approved => <<i, reviews[i].text>> \in vetted'
    BY <1>3, <2>1 DEF Moderate
  <2> QED BY <2>2, <2>3, <2>4, LoadStep
<1>4. ASSUME NEW r \in ReviewRequests, NEW i \in ReviewIds, FindReviewToRemove(r, i)
      PROVE  ReviewIInv'
  <2>1. PICK d \in Draft : d.step = "remove" /\ d.id = i /\ drafts' = [drafts EXCEPT ![r] = d]
    BY <1>4 DEF FindReviewToRemove, Draft
  <2>2. UNCHANGED <<issued, reviews, vetted>> /\ i \in issued
    BY <1>4 DEF FindReviewToRemove
  <2>3. /\ drafts' \in [ReviewRequests -> Draft]
        /\ \A s \in ReviewRequests : drafts'[s] # NoDraft => drafts'[s].id \in issued'
        /\ DraftsAreVetted'
    BY <2>1, <2>2, DraftStep
  <2> QED BY <2>2, <2>3
<1>5. ASSUME NEW r \in ReviewRequests, RemoveReview(r)
      PROVE  ReviewIInv'
  <2>1. /\ DOMAIN reviews' \subseteq DOMAIN reviews
        /\ \A i \in DOMAIN reviews' : reviews'[i] = reviews[i]
    BY <1>5 DEF RemoveReview, Restrict
  <2>2. drafts' = [drafts EXCEPT ![r] = NoDraft] /\ UNCHANGED <<issued, vetted>>
    BY <1>5 DEF RemoveReview
  <2> QED BY <2>1, <2>2, DraftEnds
<1>6. ASSUME NEW r \in ReviewRequests, DropDraft(r)
      PROVE  ReviewIInv'
  BY <1>6, DraftEnds DEF DropDraft
<1>7. CASE UNCHANGED reviewVars
  BY <1>7 DEF reviewVars, DraftsAreVetted
<1> QED BY <1>1, <1>2, <1>3, <1>4, <1>5, <1>6, <1>7, ReReadStep, UpdateStep, InsertStep
        DEF ReviewNext

\* A step that publishes an unvetted text is the UPDATE of a save that mixes with
\* another one.
LEMMA VettedStep ==
  ASSUME ReviewIInv, [ReviewNext]_reviewVars, PublishedWasVetted,
         \A r \in ReviewRequests : ~MixesSaves(r)
  PROVE  PublishedWasVetted'
<1>1. ASSUME RowsStay, vetted \subseteq vetted'
      PROVE  PublishedWasVetted'
  BY <1>1 DEF PublishedWasVetted, RowsStay
<1>2. ASSUME NEW r \in ReviewRequests, NEW i \in ReviewIds, NEW text \in Texts,
             BeginReview(r, i, text) \/ EditOwnReview(r, i, text) \/ EditAsAdmin(r, i, text)
      PROVE  RowsStay /\ vetted \subseteq vetted'
  BY <1>2 DEF BeginReview, EditOwnReview, EditAsAdmin, RowsStay
<1>3. ASSUME NEW r \in ReviewRequests, NEW i \in ReviewIds, NEW approved \in BOOLEAN,
             FindReviewToRemove(r, i) \/ Moderate(r, i, approved)
      PROVE  RowsStay /\ vetted \subseteq vetted'
  BY <1>3 DEF FindReviewToRemove, Moderate, RowsStay
<1>4. ASSUME NEW r \in ReviewRequests, ReReadReview(r) \/ DropDraft(r)
      PROVE  RowsStay /\ vetted \subseteq vetted'
  BY <1>4 DEF ReReadReview, DropDraft, RowsStay
<1>5. ASSUME NEW r \in ReviewRequests, RemoveReview(r)
      PROVE  PublishedWasVetted'
  <2>1. /\ DOMAIN reviews' \subseteq DOMAIN reviews
        /\ \A i \in DOMAIN reviews' : reviews'[i] = reviews[i]
    BY <1>5 DEF RemoveReview, Restrict
  <2> QED BY <1>5, <2>1 DEF RemoveReview, PublishedWasVetted
<1>6. ASSUME NEW r \in ReviewRequests, InsertReview(r)
      PROVE  PublishedWasVetted'
  <2>1. DOMAIN reviews' = {drafts[r].id} /\ reviews'[drafts[r].id] = drafts[r].review
    BY <1>6, InsertStep
  <2>2. drafts[r].review.approved => <<drafts[r].id, drafts[r].review.text>> \in vetted
    BY <1>6 DEF InsertReview, ReviewIInv, DraftsAreVetted
  <2>3. vetted' = vetted
    BY <1>6 DEF InsertReview
  <2> QED BY <2>1, <2>2, <2>3 DEF PublishedWasVetted
<1>7. ASSUME NEW r \in ReviewRequests, UpdateReview(r)
      PROVE  PublishedWasVetted'
  <2>1. vetted' = vetted /\ drafts[r].step = "update"
    BY <1>7 DEF UpdateReview
  <2>2. CASE drafts[r].id \notin DOMAIN reviews
    BY <1>1, <1>7, <2>1, <2>2 DEF UpdateReview, RowsStay
  <2>3. CASE drafts[r].id \in DOMAIN reviews
    <3>1. /\ DOMAIN reviews' = DOMAIN reviews
          /\ \A i \in DOMAIN reviews : i = drafts[r].id
      BY <1>7, <2>3, UpdatedRow
    <3>2. drafts'[r] = NoDraft
      BY <1>7 DEF UpdateReview, ReviewIInv, ReviewTypeOK
    <3>3. reviews'[drafts[r].id] = drafts[r].review
      BY <2>1, <2>3, <3>1, <3>2 DEF MixesSaves
    <3>4. drafts[r].review.approved => <<drafts[r].id, drafts[r].review.text>> \in vetted
      BY <2>1 DEF ReviewIInv, DraftsAreVetted
    <3> QED BY <2>1, <3>1, <3>3, <3>4 DEF PublishedWasVetted
  <2> QED BY <2>2, <2>3
<1>8. CASE UNCHANGED reviewVars
  BY <1>8, <1>1 DEF reviewVars, RowsStay
<1> QED BY <1>1, <1>2, <1>3, <1>4, <1>5, <1>6, <1>7, <1>8 DEF ReviewNext

-----------------------------------------------------------------------------
\* The inductive invariant, for every set of texts, requests and ids.
THEOREM ReviewsAlwaysIInv == ReviewSpec => []ReviewIInv
<1>1. ReviewIInv /\ [ReviewNext]_reviewVars => ReviewIInv'
  BY ReviewStep
<1> QED BY ReviewInitIInv, <1>1, PTL DEF ReviewSpec

\* A text that nobody has vetted is published only when the UPDATE of an approval
\* and that of an edit mix: not by a stale entity, and not by a review that a save
\* inserts again (reviews.service.ts:115-140).
THEOREM UnvettedNeedsMixing == ReviewSpec => UnvettedOnlyByMixing
<1>1. ReviewIInv /\ [ReviewNext]_reviewVars =>
        [PublishedWasVetted => PublishedWasVetted' \/ \E r \in ReviewRequests : MixesSaves(r)]_reviewVars
  BY VettedStep
<1> QED BY ReviewsAlwaysIInv, <1>1, PTL DEF ReviewSpec, UnvettedOnlyByMixing

-----------------------------------------------------------------------------
(***************************************************************************)
(* Roles and permissions are as last assigned.                             *)
(*                                                                         *)
(* The invariant adds what the rows that a request carries are worth: the  *)
(* user or the role existed when it was loaded, and the entity that is     *)
(* saved differs from it in the assigned relation only.                    *)
(***************************************************************************)
ExpectedOK == expected \in [user : User, roles : [RoleIds -> Role]]

LoadedRows(q) ==
  /\ q.op \in {"user roles", "user grants", "user save"} => q.user.exists
  /\ q.op \in {"role grants", "role edit", "role save"} => q.role.exists
  /\ q.op = "role edit" => q.to = q.role.grants
  /\ q.op = "user save" =>
       \/ q.of = "user roles"  /\ q.entity.grants = q.user.grants
       \/ q.of = "user grants" /\ q.entity.roles = q.user.roles
  /\ q.op = "role save" => q.of = "role grants" \/ q.entity.grants = q.role.grants

LoadedOK == \A r \in AccessRequests : LoadedRows(assigning[r])

AccessIInv == AccessTypeOK /\ ExpectedOK /\ LoadedOK /\ AssignmentsHold

LEMMA AccessInitIInv == AccessInit => AccessIInv
<1> SUFFICES ASSUME AccessInit PROVE AccessIInv
  OBVIOUS
<1> USE DEF AccessInit, NoUser, NoRole, NotAssigning
<1>1. user \in User /\ roles \in [RoleIds -> Role]
  BY DEF User, Role
<1>2. AccessTypeOK
  BY <1>1 DEF AccessTypeOK, Assigning
<1>3. ExpectedOK /\ LoadedOK /\ AssignmentsHold
  BY <1>1 DEF ExpectedOK, LoadedOK, LoadedRows, AssignmentsHold
<1> QED BY <1>2, <1>3 DEF AccessIInv

-----------------------------------------------------------------------------
(* What a request carries.                                                   *)

LEMMA IdleOp == NotAssigning.op = "idle"
  BY DEF NotAssigning

LEMMA Kinds ==
  ASSUME NEW q \in Assigning
  PROVE  \/ q \in AssigningRoles /\ q.op = "user roles"
         \/ q \in AssigningGrants /\ q.op = "user grants"
         \/ q \in AssigningToRole /\ q.op \in {"role grants", "role edit"}
         \/ q \in SavingUser /\ q.op = "user save"
         \/ q \in SavingRole /\ q.op = "role save"
         \/ q.op \in {"idle", "role removal", "permission removal", "user removal"}
<1>1. q \in AssigningRoles => q.op = "user roles"
  BY DEF AssigningRoles
<1>2. q \in AssigningGrants => q.op = "user grants"
  BY DEF AssigningGrants
<1>3. q \in AssigningToRole => q.op \in {"role grants", "role edit"}
  BY DEF AssigningToRole
<1>4. q \in SavingUser => q.op = "user save"
  BY DEF SavingUser
<1>5. q \in SavingRole => q.op = "role save"
  BY DEF SavingRole
<1>6. q \in Removing => q.op \in {"role removal", "permission removal", "user removal"}
  BY DEF Removing
<1>7. q = NotAssigning => q.op = "idle"
  BY IdleOp
<1> QED BY <1>1, <1>2, <1>3, <1>4, <1>5, <1>6, <1>7 DEF Assigning

LEMMA UserRequest ==
  ASSUME AccessTypeOK, NEW r \in AccessRequests, assigning[r].op \in {"user roles", "user grants"}
  PROVE  /\ assigning[r].user \in User
         /\ assigning[r].op = "user roles" => assigning[r].to \in SUBSET RoleIds
         /\ assigning[r].op = "user grants" => assigning[r].to \in SUBSET PermissionIds
<1>1. assigning[r] \in Assigning
  BY DEF AccessTypeOK
<1>2. \/ assigning[r] \in AssigningRoles /\ assigning[r].op = "user roles"
      \/ assigning[r] \in AssigningGrants /\ assigning[r].op = "user grants"
  BY <1>1, Kinds
<1> QED BY <1>2 DEF AssigningRoles, AssigningGrants

LEMMA RoleRequest ==
  ASSUME AccessTypeOK, NEW r \in AccessRequests, assigning[r].op \in {"role grants", "role edit"}
  PROVE  /\ assigning[r].id \in RoleIds /\ assigning[r].role \in Role
         /\ assigning[r].to \in SUBSET PermissionIds
<1>1. assigning[r] \in Assigning
  BY DEF AccessTypeOK
<1>2. assigning[r] \in AssigningToRole
  BY <1>1, Kinds
<1> QED BY <1>2 DEF AssigningToRole

LEMMA RemovalRequest ==
  ASSUME AccessTypeOK, NEW r \in AccessRequests, assigning[r].op = "role removal"
  PROVE  assigning[r].id \in RoleIds
<1>1. assigning[r] \in Assigning
  BY DEF AccessTypeOK
<1>2. PICK q : q = assigning[r]  OBVIOUS
<1>3. q \notin AssigningRoles
  BY <1>2 DEF AssigningRoles
<1>4. q \notin AssigningGrants
  BY <1>2 DEF AssigningGrants
<1>5. q \notin AssigningToRole
  BY <1>2 DEF AssigningToRole
<1>6. q # NotAssigning /\ q \notin SavingUser /\ q \notin SavingRole
  BY <1>2, IdleOp DEF SavingUser, SavingRole
<1>7. q \in Removing
  BY <1>1, <1>2, <1>3, <1>4, <1>5, <1>6 DEF Assigning
<1>8. q \notin [op : {"permission removal"}, id : PermissionIds] /\ q \notin [op : {"user removal"}]
  BY <1>2
<1>9. q \in [op : {"role removal"}, id : RoleIds]
  BY <1>7, <1>8 DEF Removing
<1> QED BY <1>2, <1>9

\* A request that begins, goes on or ends.
LEMMA AssigningMoves ==
  ASSUME AccessIInv, NEW r \in AccessRequests, NEW q \in Assigning, LoadedRows(q),
         assigning' = [assigning EXCEPT ![r] = q]
  PROVE  assigning' \in [AccessRequests -> Assigning] /\ LoadedOK'
<1>1. assigning' \in [AccessRequests -> Assigning]
  BY DEF AccessIInv, AccessTypeOK
<1>2. ASSUME NEW s \in AccessRequests PROVE LoadedRows(assigning'[s])
  <2>1. CASE s = r
    BY <2>1 DEF AccessIInv, AccessTypeOK
  <2>2. CASE s # r
    BY <2>2 DEF AccessIInv, AccessTypeOK, LoadedOK
  <2> QED BY <2>1, <2>2
<1> QED BY <1>1, <1>2 DEF LoadedOK, LoadedRows

LEMMA EndStep ==
  ASSUME AccessIInv, NEW r \in AccessRequests, End(r)
  PROVE  assigning' \in [AccessRequests -> Assigning] /\ LoadedOK'
<1>1. NotAssigning \in Assigning /\ LoadedRows(NotAssigning)
  BY DEF Assigning, NotAssigning, LoadedRows
<1> QED BY <1>1, AssigningMoves DEF End

\* Nothing but the requests changes.
LEMMA QuietStep ==
  ASSUME AccessIInv, UNCHANGED <<permissions, user, roles, retired, expected, overlapped>>,
         assigning' \in [AccessRequests -> Assigning], LoadedOK'
  PROVE  AccessIInv'
  BY DEF AccessIInv, AccessTypeOK, ExpectedOK, AssignmentsHold, ExistingRoles

LEMMA StartStep ==
  ASSUME AccessIInv, NEW r \in AccessRequests, NEW q \in Assigning, LoadedRows(q), Start(r, q)
  PROVE  AccessIInv'
  BY AssigningMoves, QuietStep DEF Start

LEMMA FindStep ==
  ASSUME AccessIInv, NEW r \in AccessRequests, FindTargets(r)
  PROVE  AccessIInv'
<1>1. PICK q, to : /\ q = [assigning[r] EXCEPT !.found = TRUE, !.to = to]
                   /\ to \subseteq assigning[r].to
                   /\ assigning' = [assigning EXCEPT ![r] = q]
  <2>1. PICK to : to = assigning[r].to \cap
                         IF assigning[r].op = "user roles" THEN ExistingRoles ELSE permissions
    OBVIOUS
  <2>2. assigning' = [assigning EXCEPT ![r] = [assigning[r] EXCEPT !.found = TRUE, !.to = to]]
    BY <2>1 DEF FindTargets, AccessIInv, AccessTypeOK
  <2>3. to \subseteq assigning[r].to
    BY <2>1
  <2> QED BY <2>2, <2>3
<1>2. assigning[r] \in Assigning /\ assigning[r].op \in {"user roles", "user grants", "role grants"}
  BY DEF FindTargets, AccessIInv, AccessTypeOK
<1>3. q \in Assigning /\ LoadedRows(q)
  <2>1. CASE assigning[r] \in AssigningRoles
    <3>1. q \in AssigningRoles /\ q.op = "user roles" /\ q.user = assigning[r].user
      BY <1>1, <2>1 DEF AssigningRoles
    <3>2. assigning[r].op = "user roles"
      BY <2>1 DEF AssigningRoles
    <3> QED BY <3>1, <3>2 DEF Assigning, LoadedRows, AccessIInv, LoadedOK
  <2>2. CASE assigning[r] \in AssigningGrants
    <3>1. q \in AssigningGrants /\ q.op = "user grants" /\ q.user = assigning[r].user
      BY <1>1, <2>2 DEF AssigningGrants
    <3>2. assigning[r].op = "user grants"
      BY <2>2 DEF AssigningGrants
    <3> QED BY <3>1, <3>2 DEF Assigning, LoadedRows, AccessIInv, LoadedOK
  <2>3. CASE assigning[r] \in AssigningToRole /\ assigning[r].op = "role grants"
    <3>1. q \in AssigningToRole /\ q.op = "role grants" /\ q.role = assigning[r].role
      BY <1>1, <2>3 DEF AssigningToRole
    <3> QED BY <3>1, <2>3 DEF Assigning, LoadedRows, AccessIInv, LoadedOK
  <2> QED BY <1>2, <2>1, <2>2, <2>3, Kinds
<1> QED BY <1>1, <1>3, AssigningMoves, QuietStep DEF FindTargets

\* The first half of a save.
LEMMA ReReadUserStep ==
  ASSUME AccessIInv, NEW r \in AccessRequests, ReReadUser(r)
  PROVE  AccessIInv'
<1>1. PICK q : q = assigning[r]  OBVIOUS
<1>2. PICK e : e = [op |-> "user save", of |-> q.op, user |-> q.user,
                    entity |-> Assigned(q), before |-> user]
  OBVIOUS
<1>3. /\ q.op \in {"user roles", "user grants"} /\ assigning' = [assigning EXCEPT ![r] = e]
      /\ UNCHANGED <<permissions, user, roles, retired, expected, overlapped>>
  BY <1>1, <1>2 DEF ReReadUser
<1>4. /\ q.user \in User /\ q.user.exists /\ user \in User
      /\ q.op = "user roles" => q.to \in SUBSET RoleIds
      /\ q.op = "user grants" => q.to \in SUBSET PermissionIds
  BY <1>1, <1>3, UserRequest DEF AccessIInv, AccessTypeOK, LoadedOK, LoadedRows
<1>5. /\ Assigned(q) \in User
      /\ \/ q.op = "user roles"  /\ Assigned(q).grants = q.user.grants
         \/ q.op = "user grants" /\ Assigned(q).roles = q.user.roles
  BY <1>3, <1>4 DEF Assigned, User
<1>6. e \in SavingUser /\ LoadedRows(e)
  BY <1>2, <1>3, <1>4, <1>5 DEF SavingUser, LoadedRows
<1> QED BY <1>3, <1>6, AssigningMoves, QuietStep DEF Assigning

LEMMA ReReadRoleStep ==
  ASSUME AccessIInv, NEW r \in AccessRequests, ReReadRole(r)
  PROVE  AccessIInv'
<1>1. PICK q : q = assigning[r]  OBVIOUS
<1>2. PICK x : x = [q.role EXCEPT !.grants = q.to]
  OBVIOUS
<1>3. PICK e : e = [op |-> "role save", of |-> q.op, id |-> q.id, role |-> q.role,
                    before |-> roles[q.id], entity |-> x]
  OBVIOUS
<1>4. /\ q.op \in {"role grants", "role edit"} /\ assigning' = [assigning EXCEPT ![r] = e]
      /\ UNCHANGED <<permissions, user, roles, retired, expected, overlapped>>
  BY <1>1, <1>2, <1>3 DEF ReReadRole
<1>5. /\ q.id \in RoleIds /\ q.role \in Role /\ q.to \in SUBSET PermissionIds
      /\ q.role.exists /\ (q.op = "role edit" => q.to = q.role.grants)
      /\ roles[q.id] \in Role
  BY <1>1, <1>4, RoleRequest DEF AccessIInv, AccessTypeOK, LoadedOK, LoadedRows
<1>6. x \in Role /\ x.grants = q.to
  BY <1>2, <1>5 DEF Role
<1>7. e \in SavingRole /\ LoadedRows(e)
  BY <1>3, <1>4, <1>5, <1>6 DEF SavingRole, LoadedRows
<1> QED BY <1>4, <1>7, AssigningMoves, QuietStep DEF Assigning

-----------------------------------------------------------------------------
(* What writes the rows.                                                     *)

\* A write that leaves well-typed rows without dangling references, and what is
\* expected of it.
LEMMA WriteStep ==
  ASSUME AccessIInv,
         permissions' \subseteq retired', retired' \subseteq PermissionIds \cup RoleIds,
         user' \in User, roles' \in [RoleIds -> Role],
         user'.roles \subseteq {i \in RoleIds : roles'[i].exists}, user'.grants \subseteq permissions',
         \A i \in RoleIds : roles'[i].grants \subseteq permissions',
         assigning' \in [AccessRequests -> Assigning], LoadedOK',
         NEW stale \in BOOLEAN, NEW wanted, Expect(stale, wanted),
         ~overlapped /\ ~stale => wanted = [user |-> user', roles |-> roles']
  PROVE  AccessIInv'
<1>1. overlapped' \in BOOLEAN
  BY DEF Expect, AccessIInv, AccessTypeOK
<1>2. expected' = [user |-> user', roles |-> roles']
  BY DEF Expect, AccessIInv, AccessTypeOK
<1>3. AccessTypeOK'
  BY <1>1 DEF AccessTypeOK, ExistingRoles
<1> QED BY <1>2, <1>3 DEF AccessIInv, ExpectedOK, AssignmentsHold

\* As long as nothing has overlapped, the rows are what is expected.
LEMMA RowsAsExpected ==
  ASSUME AccessIInv, ~overlapped
  PROVE  expected = [user |-> user, roles |-> roles]
  BY DEF AccessIInv, ExpectedOK, AssignmentsHold

LEMMA CreateRoleStep ==
  ASSUME AccessIInv, NEW i \in RoleIds, NEW grants \in SUBSET PermissionIds, CreateRole(i, grants)
  PROVE  AccessIInv'
<1>1. roles' = [roles EXCEPT ![i] = [exists |-> TRUE, grants |-> grants]] /\ UNCHANGED <<permissions, user, assigning>>
  BY DEF CreateRole
<1>2. roles' \in [RoleIds -> Role]
  BY <1>1 DEF AccessIInv, AccessTypeOK, Role
<1>3. user'.roles \subseteq {j \in RoleIds : roles'[j].exists}
  BY <1>1 DEF AccessIInv, AccessTypeOK, ExistingRoles
<1>4. \A j \in RoleIds : roles'[j].grants \subseteq permissions'
  BY <1>1 DEF AccessIInv, AccessTypeOK, CreateRole
<1>5. PICK wanted : wanted = [expected EXCEPT !.roles = [@ EXCEPT ![i] = roles'[i]]]
  OBVIOUS
<1>6. ASSUME ~overlapped PROVE wanted = [user |-> user', roles |-> roles']
  <2>1. expected = [user |-> user, roles |-> roles]
    BY <1>6, RowsAsExpected
  <2>2. wanted = [user |-> user, roles |-> [roles EXCEPT ![i] = roles'[i]]]
    BY <1>5, <2>1
  <2>3. [roles EXCEPT ![i] = roles'[i]] = roles'
    BY <1>1 DEF AccessIInv, AccessTypeOK
  <2> QED BY <1>1, <2>2, <2>3
<1>7. Expect(FALSE, wanted)
  BY <1>5 DEF CreateRole
<1>8. /\ permissions' \subseteq retired' /\ retired' \subseteq PermissionIds \cup RoleIds
      /\ user' \in User /\ user'.grants \subseteq permissions'
      /\ assigning' \in [AccessRequests -> Assigning] /\ LoadedOK'
  BY DEF CreateRole, AccessIInv, AccessTypeOK, LoadedOK, LoadedRows
<1> QED BY <1>2, <1>3, <1>4, <1>6, <1>7, <1>8, WriteStep

LEMMA StillThere ==
  ASSUME NEW a \in BOOLEAN, NEW b \in BOOLEAN, b
  PROVE  (a \/ ~b) = a
BY Zenon

\* Nothing but what is inserted is new in a join table, and a save that found the
\* relation it writes as it was leaves it as the entity has it.
LEMMA LinksFit ==
  ASSUME NEW entity, NEW before, NEW now, NEW targets,
         CanLink(entity, before, now, targets), now \subseteq targets
  PROVE  /\ Linked(entity, before, now) \subseteq targets
         /\ now = before => Linked(entity, before, now) = entity
         /\ entity = before => Linked(entity, before, now) = now
BY DEF CanLink, Linked

LEMMA UpdateUserStep ==
  ASSUME AccessIInv, NEW r \in AccessRequests, UpdateUser(r)
  PROVE  AccessIInv'
<1>1. PICK q : q = assigning[r]  OBVIOUS
<1>2. q.op = "user save" /\ q \in Assigning
  BY <1>1 DEF UpdateUser, AccessIInv, AccessTypeOK
<1>3. q \in SavingUser
  BY <1>2, Kinds
<1>4. /\ q.user \in User /\ q.entity \in User /\ q.before \in User
      /\ q.of \in {"user roles", "user grants"}
  BY <1>3 DEF SavingUser
<1>5. /\ q.user.exists
      /\ \/ q.of = "user roles"  /\ q.entity.grants = q.user.grants
         \/ q.of = "user grants" /\ q.entity.roles = q.user.roles
  BY <1>1, <1>2 DEF AccessIInv, LoadedOK, LoadedRows
<1>6. PICK linked, granted :
        /\ linked = Linked(q.entity.roles, q.before.roles, user.roles)
        /\ granted = Linked(q.entity.grants, q.before.grants, user.grants)
  OBVIOUS
<1>7. /\ linked \subseteq ExistingRoles /\ granted \subseteq permissions
      /\ user.roles = q.before.roles => linked = q.entity.roles
      /\ user.grants = q.before.grants => granted = q.entity.grants
      /\ q.entity.roles = q.before.roles => linked = user.roles
      /\ q.entity.grants = q.before.grants => granted = user.grants
  <2>1. /\ CanLink(q.entity.roles, q.before.roles, user.roles, ExistingRoles)
        /\ CanLink(q.entity.grants, q.before.grants, user.grants, permissions)
        /\ user.roles \subseteq ExistingRoles /\ user.grants \subseteq permissions
    BY <1>1 DEF UpdateUser, AccessIInv, AccessTypeOK
  <2> QED BY <1>6, <2>1, LinksFit
<1>8. /\ user' = [exists |-> user.exists \/ ~q.before.exists, roles |-> linked, grants |-> granted]
      /\ UNCHANGED <<permissions, roles, retired>>
  BY <1>1, <1>6 DEF UpdateUser
<1>9. /\ permissions \subseteq PermissionIds \cup RoleIds /\ ExistingRoles \subseteq RoleIds
      /\ granted \subseteq PermissionIds
  <2>1. user.grants \subseteq PermissionIds
    BY DEF AccessIInv, AccessTypeOK, User
  <2>2. granted \subseteq user.grants \cup q.entity.grants
    BY <1>6 DEF Linked
  <2> QED BY <1>4, <2>1, <2>2 DEF AccessIInv, AccessTypeOK, ExistingRoles, User
<1>10. user' \in User
  <2>1. user.exists \in BOOLEAN /\ q.before.exists \in BOOLEAN
    BY <1>4 DEF AccessIInv, AccessTypeOK, User
  <2>2. (user.exists \/ ~q.before.exists) \in BOOLEAN
    BY <2>1, Zenon
  <2> QED BY <1>7, <1>8, <1>9, <2>2 DEF User
<1>11. user'.roles \subseteq {i \in RoleIds : roles'[i].exists} /\ user'.grants \subseteq permissions'
  BY <1>7, <1>8 DEF ExistingRoles
<1>12. assigning' \in [AccessRequests -> Assigning] /\ LoadedOK'
  BY EndStep DEF UpdateUser
<1>13. /\ permissions' \subseteq retired' /\ retired' \subseteq PermissionIds \cup RoleIds
       /\ roles' \in [RoleIds -> Role] /\ \A i \in RoleIds : roles'[i].grants \subseteq permissions'
  BY <1>8 DEF AccessIInv, AccessTypeOK
<1>14. q.before = q.user => user'.exists = user.exists
  <2>1. user.exists \in BOOLEAN /\ q.before.exists \in BOOLEAN
    BY <1>4 DEF AccessIInv, AccessTypeOK, User
  <2>2. q.before = q.user => (user.exists \/ ~q.before.exists) = user.exists
    BY <1>5, <2>1, StillThere, Zenon
  <2> QED BY <1>8, <2>2
<1>15. user \in User /\ (~overlapped => expected = [user |-> user, roles |-> roles])
  BY RowsAsExpected DEF AccessIInv, AccessTypeOK
<1>16. CASE q.of = "user roles"
  <2>1. PICK stale \in BOOLEAN : stale <=> q.before # q.user \/ user.roles # q.before.roles
    OBVIOUS
  <2>2. PICK wanted : wanted = [expected EXCEPT !.user = [@ EXCEPT !.roles = q.entity.roles]]
    OBVIOUS
  <2>3. Expect(stale, wanted)
    BY <1>1, <1>16, <2>1, <2>2 DEF UpdateUser, Expect
  <2>4. ASSUME ~overlapped, ~stale
        PROVE  wanted = [user |-> user', roles |-> roles']
    <3>1. /\ user'.exists = user.exists /\ q.entity.grants = q.before.grants
          /\ user.roles = q.before.roles
      BY <1>5, <1>14, <1>16, <2>1, <2>4
    <3>2. /\ user'.roles = q.entity.roles
          /\ user'.grants = user.grants
      BY <1>7, <1>8, <3>1
    <3>3. user' = [user EXCEPT !.roles = q.entity.roles]
      BY <1>10, <1>15, <3>1, <3>2 DEF User
    <3> QED BY <1>8, <1>15, <2>2, <2>4, <3>3
  <2> QED BY <1>10, <1>11, <1>12, <1>13, <2>3, <2>4, WriteStep
<1>17. CASE q.of = "user grants"
  <2>1. PICK stale \in BOOLEAN : stale <=> q.before # q.user \/ user.grants # q.before.grants
    OBVIOUS
  <2>2. PICK wanted : wanted = [expected EXCEPT !.user = [@ EXCEPT !.grants = q.entity.grants]]
    OBVIOUS
  <2>3. Expect(stale, wanted)
    BY <1>1, <1>17, <2>1, <2>2 DEF UpdateUser, Expect
  <2>4. ASSUME ~overlapped, ~stale
        PROVE  wanted = [user |-> user', roles |-> roles']
    <3>1. /\ user'.exists = user.exists /\ q.entity.roles = q.before.roles
          /\ user.grants = q.before.grants
      BY <1>5, <1>14, <1>17, <2>1, <2>4
    <3>2. /\ user'.grants = q.entity.grants
          /\ user'.roles = user.roles
      BY <1>7, <1>8, <3>1
    <3>3. user' = [user EXCEPT !.grants = q.entity.grants]
      BY <1>10, <1>15, <3>1, <3>2 DEF User
    <3> QED BY <1>8, <1>15, <2>2, <2>4, <3>3
  <2> QED BY <1>10, <1>11, <1>12, <1>13, <2>3, <2>4, WriteStep
<1> QED BY <1>4, <1>16, <1>17

LEMMA UpdateRoleStep ==
  ASSUME AccessIInv, NEW r \in AccessRequests, UpdateRole(r)
  PROVE  AccessIInv'
<1>1. PICK q : q = assigning[r]  OBVIOUS
<1>2. q.op = "role save" /\ q \in Assigning
  BY <1>1 DEF UpdateRole, AccessIInv, AccessTypeOK
<1>3. q \in SavingRole
  BY <1>2, Kinds
<1>4. /\ q.id \in RoleIds /\ q.role \in Role /\ q.entity \in Role /\ q.before \in Role
      /\ q.of \in {"role grants", "role edit"}
  BY <1>3 DEF SavingRole
<1>5. q.role.exists /\ (q.of = "role grants" \/ q.entity.grants = q.role.grants)
  BY <1>1, <1>2 DEF AccessIInv, LoadedOK, LoadedRows
<1>6. PICK now \in Role : now = roles[q.id]
  BY <1>4 DEF AccessIInv, AccessTypeOK
<1>7. PICK granted : granted = Linked(q.entity.grants, q.before.grants, now.grants)
  OBVIOUS
<1>8. PICK new : new = [exists |-> now.exists \/ ~q.before.exists, grants |-> granted]
  OBVIOUS
<1>9. /\ granted \subseteq permissions
      /\ now.grants = q.before.grants => granted = q.entity.grants
      /\ q.entity.grants = q.before.grants => granted = now.grants
  <2>1. CanLink(q.entity.grants, q.before.grants, now.grants, permissions) /\ now.grants \subseteq permissions
    BY <1>1, <1>4, <1>6 DEF UpdateRole, AccessIInv, AccessTypeOK
  <2> QED BY <1>7, <2>1, LinksFit
<1>10. roles' = [roles EXCEPT ![q.id] = new] /\ UNCHANGED <<permissions, user, retired>>
  BY <1>1, <1>6, <1>7, <1>8 DEF UpdateRole
<1>11. new \in Role /\ (now.exists => new.exists) /\ new.grants = granted
  <2>1. now.exists \in BOOLEAN /\ q.before.exists \in BOOLEAN
    BY <1>4 DEF Role
  <2>2. (now.exists \/ ~q.before.exists) \in BOOLEAN
    BY <2>1, Zenon
  <2>3. granted \subseteq PermissionIds
    BY <1>4, <1>6, <1>7 DEF Linked, Role
  <2> QED BY <1>8, <2>2, <2>3 DEF Role
<1>12. roles' \in [RoleIds -> Role]
  BY <1>4, <1>10, <1>11 DEF AccessIInv, AccessTypeOK
<1>13. user'.roles \subseteq {i \in RoleIds : roles'[i].exists}
  BY <1>4, <1>6, <1>10, <1>11 DEF AccessIInv, AccessTypeOK, ExistingRoles
<1>14. \A i \in RoleIds : roles'[i].grants \subseteq permissions'
  BY <1>4, <1>9, <1>10, <1>11 DEF AccessIInv, AccessTypeOK
<1>15. assigning' \in [AccessRequests -> Assigning] /\ LoadedOK'
  BY EndStep DEF UpdateRole
<1>16. /\ permissions' \subseteq retired' /\ retired' \subseteq PermissionIds \cup RoleIds
       /\ user' \in User /\ user'.grants \subseteq permissions'
  BY <1>10 DEF AccessIInv, AccessTypeOK
<1>17. roles \in [RoleIds -> Role] /\ (~overlapped => expected = [user |-> user, roles |-> roles])
  BY RowsAsExpected DEF AccessIInv, AccessTypeOK
<1>18. CASE q.of = "role edit"
  <2>1. PICK stale \in BOOLEAN : stale <=> q.before # q.role
    OBVIOUS
  <2>2. Expect(stale, expected)
    BY <1>1, <1>18, <2>1 DEF UpdateRole, Expect
  <2>3. ASSUME ~overlapped, ~stale
        PROVE  expected = [user |-> user', roles |-> roles']
    <3>1. new = now
      <4>1. now.exists \in BOOLEAN /\ q.before.exists \in BOOLEAN
        BY <1>4, <1>6 DEF Role
      <4>2. (now.exists \/ ~q.before.exists) = now.exists
        BY <1>5, <2>1, <2>3, <4>1, StillThere, Zenon
      <4>3. new.exists = now.exists /\ new.grants = now.grants
        BY <1>5, <1>8, <1>9, <1>18, <2>1, <2>3, <4>2
      <4> QED BY <1>11, <4>3 DEF Role
    <3>2. roles' = roles
      BY <1>4, <1>6, <1>10, <1>17, <3>1
    <3> QED BY <1>10, <1>17, <2>3, <3>2
  <2> QED BY <1>12, <1>13, <1>14, <1>15, <1>16, <2>2, <2>3, WriteStep
<1>19. CASE q.of = "role grants"
  <2>1. PICK stale \in BOOLEAN : stale <=> q.before # q.role \/ now.grants # q.before.grants
    OBVIOUS
  <2>2. PICK wanted :
          wanted = [user  |-> expected.user,
                    roles |-> [expected.roles EXCEPT ![q.id] = [@ EXCEPT !.grants = q.entity.grants]]]
    OBVIOUS
  <2>3. Expect(stale, wanted)
    BY <1>1, <1>6, <1>19, <2>1, <2>2 DEF UpdateRole, Expect
  <2>4. ASSUME ~overlapped, ~stale
        PROVE  wanted = [user |-> user', roles |-> roles']
    <3>1. new = [now EXCEPT !.grants = q.entity.grants]
      <4>1. now.exists \in BOOLEAN /\ q.before.exists \in BOOLEAN
        BY <1>4, <1>6 DEF Role
      <4>2. (now.exists \/ ~q.before.exists) = now.exists
        BY <1>5, <2>1, <2>4, <4>1, StillThere, Zenon
      <4>3. new.exists = now.exists /\ new.grants = q.entity.grants
        BY <1>8, <1>9, <2>1, <2>4, <4>2
      <4> QED BY <1>11, <4>3 DEF Role
    <3>2. expected.roles = roles /\ expected.user = user
      BY <1>17, <2>4
    <3>3. wanted = [user |-> user,
                    roles |-> [roles EXCEPT ![q.id] = [roles[q.id] EXCEPT !.grants = q.entity.grants]]]
      BY <2>2, <3>2
    <3> QED BY <1>6, <1>10, <3>1, <3>3
  <2> QED BY <1>12, <1>13, <1>14, <1>15, <1>16, <2>3, <2>4, WriteStep
<1> QED BY <1>4, <1>18, <1>19

LEMMA RemoveRoleStep ==
  ASSUME AccessIInv, NEW r \in AccessRequests, RemoveRole(r)
  PROVE  AccessIInv'
<1>1. PICK i : i = assigning[r].id /\ i \in RoleIds
  BY RemovalRequest DEF RemoveRole, AccessIInv
<1>2. /\ roles' = [roles EXCEPT ![i] = NoRole]
      /\ user' = [user EXCEPT !.roles = @ \ {i}]
      /\ UNCHANGED <<permissions, retired>>
  BY <1>1 DEF RemoveRole
<1>3. user' \in User /\ roles' \in [RoleIds -> Role]
  <2>1. user \in User /\ roles \in [RoleIds -> Role]
    BY DEF AccessIInv, AccessTypeOK
  <2>2. user' \in User
    BY <1>2, <2>1 DEF User
  <2>3. NoRole \in Role
    BY DEF NoRole, Role
  <2> QED BY <1>1, <1>2, <2>1, <2>2, <2>3
<1>4. user'.roles \subseteq {j \in RoleIds : roles'[j].exists} /\ user'.grants \subseteq permissions'
  BY <1>1, <1>2 DEF AccessIInv, AccessTypeOK, ExistingRoles, User
<1>5. \A j \in RoleIds : roles'[j].grants \subseteq permissions'
  BY <1>2 DEF AccessIInv, AccessTypeOK, NoRole
<1>6. PICK wanted : wanted = [user  |-> [expected.user EXCEPT !.roles = @ \ {i}],
                              roles |-> [expected.roles EXCEPT ![i] = NoRole]]
  OBVIOUS
<1>7. Expect(FALSE, wanted)
  BY <1>1, <1>6 DEF RemoveRole
<1>8. ~overlapped => wanted = [user |-> user', roles |-> roles']
  <2>1. ~overlapped => expected.user = user /\ expected.roles = roles
    BY RowsAsExpected
  <2> QED BY <1>2, <1>6, <2>1
<1>9. assigning' \in [AccessRequests -> Assigning] /\ LoadedOK'
  BY EndStep DEF RemoveRole
<1>10. permissions' \subseteq retired' /\ retired' \subseteq PermissionIds \cup RoleIds
  BY <1>2 DEF AccessIInv, AccessTypeOK
<1> QED BY <1>3, <1>4, <1>5, <1>7, <1>8, <1>9, <1>10, WriteStep

LEMMA RemovePermissionStep ==
  ASSUME AccessIInv, NEW r \in AccessRequests, RemovePermission(r)
  PROVE  AccessIInv'
<1>1. PICK p : p = assigning[r].id  OBVIOUS
<1> DEFINE Revoked(held) == [i \in RoleIds |-> [held[i] EXCEPT !.grants = @ \ {p}]]
<1>2. /\ roles' = Revoked(roles)
      /\ user' = [user EXCEPT !.grants = @ \ {p}]
      /\ permissions' = permissions \ {p} /\ UNCHANGED retired
  BY <1>1 DEF RemovePermission
<1>3. user' \in User /\ roles' \in [RoleIds -> Role]
  BY <1>2 DEF AccessIInv, AccessTypeOK, User, Role
<1>4. user'.roles \subseteq {j \in RoleIds : roles'[j].exists} /\ user'.grants \subseteq permissions'
  BY <1>2 DEF AccessIInv, AccessTypeOK, ExistingRoles, User, Role
<1>5. \A j \in RoleIds : roles'[j].grants \subseteq permissions'
  BY <1>2 DEF AccessIInv, AccessTypeOK, Role
<1>6. PICK wanted : wanted = [user  |-> [expected.user EXCEPT !.grants = @ \ {p}],
                              roles |-> Revoked(expected.roles)]
  OBVIOUS
<1>7. Expect(FALSE, wanted)
  BY <1>1, <1>6 DEF RemovePermission
<1>8. ASSUME ~overlapped PROVE wanted = [user |-> user', roles |-> roles']
  <2>1. expected.user = user /\ expected.roles = roles
    BY <1>8, RowsAsExpected
  <2> HIDE DEF Revoked
  <2> QED BY <1>2, <1>6, <2>1
<1>9. assigning' \in [AccessRequests -> Assigning] /\ LoadedOK'
  BY EndStep DEF RemovePermission
<1>10. permissions' \subseteq retired' /\ retired' \subseteq PermissionIds \cup RoleIds
  BY <1>2 DEF AccessIInv, AccessTypeOK
<1> QED BY <1>3, <1>4, <1>5, <1>7, <1>8, <1>9, <1>10, WriteStep

LEMMA RemoveUserStep ==
  ASSUME AccessIInv, NEW r \in AccessRequests, RemoveUser(r)
  PROVE  AccessIInv'
<1>1. user' = NoUser /\ UNCHANGED <<permissions, roles, retired>>
  BY DEF RemoveUser
<1>2. PICK wanted : wanted = [expected EXCEPT !.user = NoUser]
  OBVIOUS
<1>3. Expect(FALSE, wanted)
  BY <1>2 DEF RemoveUser
<1>4. ~overlapped => wanted = [user |-> user', roles |-> roles']
  BY <1>1, <1>2, RowsAsExpected
<1>5. assigning' \in [AccessRequests -> Assigning] /\ LoadedOK'
  BY EndStep DEF RemoveUser
<1>6. /\ permissions' \subseteq retired' /\ retired' \subseteq PermissionIds \cup RoleIds
      /\ user' \in User /\ roles' \in [RoleIds -> Role]
      /\ user'.roles \subseteq {j \in RoleIds : roles'[j].exists} /\ user'.grants \subseteq permissions'
      /\ \A j \in RoleIds : roles'[j].grants \subseteq permissions'
  BY <1>1 DEF AccessIInv, AccessTypeOK, NoUser, User
<1> QED BY <1>3, <1>4, <1>5, <1>6, WriteStep

-----------------------------------------------------------------------------
LEMMA AccessStep ==
  ASSUME AccessIInv, [AccessNext]_accessVars
  PROVE  AccessIInv'
<1>1. ASSUME NEW p \in PermissionIds, CreatePermission(p) PROVE AccessIInv'
  BY <1>1 DEF CreatePermission, AccessIInv, AccessTypeOK, ExpectedOK, LoadedOK, LoadedRows,
     AssignmentsHold, ExistingRoles
<1>2. ASSUME NEW r \in AccessRequests,
             \/ \E to \in SUBSET RoleIds : LoadUserForRoles(r, to)
             \/ \E to \in SUBSET PermissionIds : LoadUserForGrants(r, to)
      PROVE  AccessIInv'
  <2>1. PICK q : q \in Assigning /\ LoadedRows(q) /\ Start(r, q)
    BY <1>2 DEF LoadUserForRoles, LoadUserForGrants, Assigning, AssigningRoles,
       AssigningGrants, LoadedRows, AccessIInv, AccessTypeOK
  <2> QED BY <2>1, StartStep
<1>3. ASSUME NEW r \in AccessRequests, NEW i \in RoleIds,
             \/ \E to \in SUBSET PermissionIds : LoadRoleForGrants(r, i, to)
             \/ LoadRoleToEdit(r, i)
      PROVE  AccessIInv'
  <2>1. roles[i] \in Role
    BY DEF AccessIInv, AccessTypeOK
  <2>2. PICK q : q \in Assigning /\ LoadedRows(q) /\ Start(r, q)
    BY <1>3, <2>1 DEF LoadRoleForGrants, LoadRoleToEdit, Assigning, AssigningToRole, LoadedRows, Role
  <2> QED BY <2>2, StartStep
<1>4. ASSUME NEW r \in AccessRequests,
             \/ \E i \in RoleIds : LoadRoleToRemove(r, i)
             \/ \E p \in PermissionIds : LoadPermissionToRemove(r, p)
             \/ LoadUserToRemove(r)
      PROVE  AccessIInv'
  <2>1. PICK q : q \in Assigning /\ LoadedRows(q) /\ Start(r, q)
    BY <1>4 DEF LoadRoleToRemove, LoadPermissionToRemove, LoadUserToRemove, Assigning, 
       Removing, LoadedRows
  <2> QED BY <2>1, StartStep
<1>5. ASSUME NEW r \in AccessRequests, DropAssignment(r) PROVE AccessIInv'
  BY <1>5, EndStep, QuietStep DEF DropAssignment
<1>6. CASE UNCHANGED accessVars
  BY <1>6 DEF accessVars, AccessIInv, AccessTypeOK, ExpectedOK, LoadedOK, LoadedRows,
     AssignmentsHold, ExistingRoles
<1> QED
  BY <1>1, <1>2, <1>3, <1>4, <1>5, <1>6, CreateRoleStep, FindStep, ReReadUserStep, ReReadRoleStep,
     UpdateUserStep, UpdateRoleStep, RemoveRoleStep, RemovePermissionStep, RemoveUserStep DEF AccessNext

\* The inductive invariant, for every set of roles, permissions and requests.
THEOREM AccessAlwaysIInv == AccessSpec => []AccessIInv
<1>1. AccessIInv /\ [AccessNext]_accessVars => AccessIInv'
  BY AccessStep
<1> QED BY AccessInitIInv, <1>1, PTL DEF AccessSpec

\* What was assigned last is what the user and the roles hold, unless a save has
\* missed what another request wrote to the same row between its load and its
\* re-read, or to the same relation between its re-read and its write
\* (users.service.ts:91-122, roles.service.ts:79-110).
THEOREM AssignmentsAlwaysHold == AccessSpec => []AssignmentsHold
<1>1. AccessIInv => AssignmentsHold
  BY DEF AccessIInv
<1> QED BY AccessAlwaysIInv, <1>1, PTL

-----------------------------------------------------------------------------
(***************************************************************************)
(* The storefront shows the tree that was asked for.                       *)
(*                                                                         *)
(* Listed and Descendants take as many steps down as there are             *)
(* categories; LevelsSettle shows that this is enough, and that the        *)
(* function of the steps exists. A tree without a circle is one where      *)
(* among any categories one is not below another: unlike the steps down,   *)
(* that is easy to follow through a save.                                  *)
(***************************************************************************)

\* The first levels below the categories in base, up to level m.
FirstLevels(level, base, m) ==
  level = [n \in 0 .. m |-> IF n = 0 THEN base ELSE Below(level[n - 1])]

AllLevels(level, base) ==
  level = [n \in Nat |-> IF n = 0 THEN base ELSE Below(level[n - 1])]

Levels(base) == CHOOSE level : AllLevels(level, base)

LEMMA TreeIsLevels ==
  /\ Listed = Levels({c \in Existing : parent[c] = {}})[Cardinality(Existing)]
  /\ \A c : Descendants(c) = Levels(Children(c))[Cardinality(Existing)] \ {c}
BY DEF Listed, Descendants, Levels, AllLevels

LEMMA FirstLevelsAt ==
  ASSUME NEW base, NEW m \in Nat, NEW level, FirstLevels(level, base, m), NEW n \in 0 .. m
  PROVE  level[n] = IF n = 0 THEN base ELSE Below(level[n - 1])
BY DEF FirstLevels

LEMMA FirstLevelsAgree ==
  ASSUME NEW base, NEW m \in Nat, NEW g, FirstLevels(g, base, m),
         NEW k \in Nat, NEW h, FirstLevels(h, base, k)
  PROVE  \A n \in Nat : n <= m /\ n <= k => g[n] = h[n]
<1> DEFINE Bad == {n \in Nat : n <= m /\ n <= k /\ g[n] # h[n]}
<1> SUFFICES ASSUME Bad # {} PROVE FALSE
  OBVIOUS
<1>1. Bad \in SUBSET Nat
  OBVIOUS
<1> HIDE DEF Bad
<1>2. PICK n \in Bad : \A i \in Bad : n <= i
  BY <1>1, LeastNumber
<1> USE DEF Bad
<1>3. n \in 0 .. m /\ n \in 0 .. k /\ g[n] # h[n]
  OBVIOUS
<1> HIDE DEF Bad
<1>4. /\ g[n] = IF n = 0 THEN base ELSE Below(g[n - 1])
      /\ h[n] = IF n = 0 THEN base ELSE Below(h[n - 1])
  BY <1>3 DEF FirstLevels
<1> USE DEF Bad
<1>5. n # 0
  BY <1>3, <1>4
<1>6. n - 1 \in Nat /\ n - 1 <= m /\ n - 1 <= k /\ n - 1 \notin Bad
  BY <1>2, <1>3, <1>5
<1>7. g[n - 1] = h[n - 1]
  BY <1>6
<1> QED  BY <1>3, <1>4, <1>5, <1>7

LEMMA FirstLevelsExist ==
  ASSUME NEW base
  PROVE  \A m \in Nat : \E level : FirstLevels(level, base, m)
<1> DEFINE Bad == {m \in Nat : ~ \E level : FirstLevels(level, base, m)}
<1> SUFFICES ASSUME Bad # {} PROVE FALSE
  OBVIOUS
<1>1. Bad \in SUBSET Nat
  OBVIOUS
<1> HIDE DEF Bad
<1>2. PICK m \in Bad : \A i \in Bad : m <= i
  BY <1>1, LeastNumber
<1> USE DEF Bad
<1>3. m \in Nat /\ \A level : ~FirstLevels(level, base, m)
  OBVIOUS
<1>4. m # 0
  <2> SUFFICES ASSUME m = 0 PROVE FALSE
    OBVIOUS
  <2> DEFINE g == [n \in 0 .. 0 |-> base]
  <2>1. g = [n \in 0 .. 0 |-> IF n = 0 THEN base ELSE Below(g[n - 1])]
    OBVIOUS
  <2> QED  BY <1>3, <2>1 DEF FirstLevels
<1>5. m - 1 \in Nat /\ m - 1 \notin Bad
  BY <1>2, <1>3, <1>4
<1>6. PICK h : FirstLevels(h, base, m - 1)
  BY <1>5
<1> HIDE DEF Bad
<1> DEFINE g == [n \in 0 .. m |-> IF n = m THEN Below(h[m - 1]) ELSE h[n]]
<1>7. ASSUME NEW n \in 0 .. m
      PROVE  g[n] = IF n = 0 THEN base ELSE Below(g[n - 1])
  <2>1. CASE n = m
    BY <1>3, <1>4, <2>1
  <2>2. CASE n # m
    <3>1. n \in 0 .. m - 1 /\ g[n] = h[n]
      BY <1>3, <2>2
    <3>2. h[n] = IF n = 0 THEN base ELSE Below(h[n - 1])
      BY <1>5, <1>6, <3>1 DEF FirstLevels
    <3>3. n # 0 => n - 1 \in 0 .. m /\ n - 1 # m /\ g[n - 1] = h[n - 1]
      BY <1>3, <3>1
    <3> QED  BY <3>1, <3>2, <3>3
  <2> QED  BY <2>1, <2>2
<1>8. g = [n \in 0 .. m |-> IF n = 0 THEN base ELSE Below(g[n - 1])]
  BY <1>7
<1>9. FirstLevels(g, base, m)
  BY <1>8 DEF FirstLevels
<1> QED  BY <1>3, <1>9

LEMMA LevelsExist ==
  ASSUME NEW base
  PROVE  AllLevels(Levels(base), base)
<1> DEFINE upTo(m) == CHOOSE level : FirstLevels(level, base, m)
           f == [n \in Nat |-> upTo(n)[n]]
<1>1. \A m \in Nat : FirstLevels(upTo(m), base, m)
  BY FirstLevelsExist
<1> HIDE DEF upTo
<1>2. ASSUME NEW n \in Nat
      PROVE  f[n] = IF n = 0 THEN base ELSE Below(f[n - 1])
  <2>1. n \in 0 .. n /\ FirstLevels(upTo(n), base, n)
    BY <1>1
  <2>2. upTo(n)[n] = IF n = 0 THEN base ELSE Below(upTo(n)[n - 1])
    BY <2>1, FirstLevelsAt
  <2>3. ASSUME n # 0 PROVE upTo(n)[n - 1] = upTo(n - 1)[n - 1]
    <3>1. n - 1 \in Nat /\ n - 1 <= n
      BY <2>3
    <3>2. FirstLevels(upTo(n - 1), base, n - 1)
      BY <1>1, <3>1
    <3> QED  BY <2>1, <3>1, <3>2, FirstLevelsAgree
  <2>4. n # 0 => f[n - 1] = upTo(n - 1)[n - 1]
    OBVIOUS
  <2> QED  BY <2>2, <2>3, <2>4
<1>3. f = [n \in Nat |-> IF n = 0 THEN base ELSE Below(f[n - 1])]
  BY <1>2
<1>4. AllLevels(f, base)
  BY <1>3 DEF AllLevels
<1> QED  BY <1>4 DEF Levels

\* As many steps down as there are categories reach everything that any number does.
LEMMA LevelsSettle ==
  ASSUME IsFiniteSet(Existing), NEW base \in SUBSET Existing
  PROVE  /\ Levels(base)[Cardinality(Existing)] \subseteq Existing
         /\ base \subseteq Levels(base)[Cardinality(Existing)]
         /\ Below(Levels(base)[Cardinality(Existing)]) = Levels(base)[Cardinality(Existing)]
<1>1. PICK level : level = Levels(base)
  OBVIOUS
<1>2. level = [n \in Nat |-> IF n = 0 THEN base ELSE Below(level[n - 1])]
  BY <1>1, LevelsExist DEF AllLevels
<1>3. level[0] = base
  BY <1>2
<1>4. \A n \in Nat : level[n + 1] = Below(level[n])
  <2> SUFFICES ASSUME NEW n \in Nat PROVE level[n + 1] = Below(level[n])
    OBVIOUS
  <2>1. n + 1 \in Nat /\ n + 1 # 0 /\ (n + 1) - 1 = n
    OBVIOUS
  <2>2. level[n + 1] = IF n + 1 = 0 THEN base ELSE Below(level[(n + 1) - 1])
    BY <1>2, <2>1
  <2> QED  BY <2>1, <2>2
<1>5. \A found \in SUBSET Existing : found \subseteq Below(found) /\ Below(found) \subseteq Existing
  BY DEF Below, Children
<1>6. \A n \in Nat : level[n] \subseteq Existing /\ base \subseteq level[n]
  <2> DEFINE Bad == {n \in Nat : ~(level[n] \subseteq Existing /\ base \subseteq level[n])}
  <2> SUFFICES ASSUME Bad # {} PROVE FALSE
    OBVIOUS
  <2>1. Bad \in SUBSET Nat
    OBVIOUS
  <2> HIDE DEF Bad
  <2>2. PICK n \in Bad : \A i \in Bad : n <= i
    BY <2>1, LeastNumber
  <2> USE DEF Bad
  <2>3. n \in Nat /\ ~(level[n] \subseteq Existing /\ base \subseteq level[n])
    OBVIOUS
  <2>4. n # 0
    BY <1>3, <2>3
  <2>5. PICK k \in Nat : k + 1 = n
    BY <2>3, <2>4
  <2>6. k \notin Bad
    BY <2>2, <2>5
  <2>7. level[k] \subseteq Existing /\ base \subseteq level[k]
    BY <2>6
  <2> QED  BY <1>4, <1>5, <2>3, <2>5, <2>7
<1>7. \A n \in Nat : level[n + 1] = level[n] \/ Cardinality(level[n]) >= n + 1
  <2> DEFINE Bad == {n \in Nat : ~(level[n + 1] = level[n] \/ Cardinality(level[n]) >= n + 1)}
  <2> SUFFICES ASSUME Bad # {} PROVE FALSE
    OBVIOUS
  <2>1. Bad \in SUBSET Nat
    OBVIOUS
  <2> HIDE DEF Bad
  <2>2. PICK n \in Bad : \A i \in Bad : n <= i
    BY <2>1, LeastNumber
  <2> USE DEF Bad
  <2>3. n \in Nat /\ level[n + 1] # level[n] /\ ~(Cardinality(level[n]) >= n + 1)
    OBVIOUS
  <2> HIDE DEF Bad
  <2>4. level[n] \subseteq Existing /\ IsFiniteSet(level[n])
    BY <1>6, <2>3, FS_Subset
  <2>5. Cardinality(level[n]) \in Nat
    BY <2>4, FS_CardinalityType
  <2>6. n # 0
    <3> SUFFICES ASSUME n = 0 PROVE FALSE
      OBVIOUS
    <3>1. Cardinality(level[n]) = 0
      BY <2>3, <2>5
    <3>2. level[0] = {}
      BY <2>4, <3>1, FS_EmptySet
    <3>3. level[0 + 1] = Below({})
      BY <1>4, <3>2
    <3>4. Below({}) = {}
      BY DEF Below
    <3> QED  BY <2>3, <3>2, <3>3, <3>4
  <2>7. PICK k \in Nat : k + 1 = n
    BY <2>3, <2>6
  <2>8. level[k + 1] = level[k] \/ Cardinality(level[k]) >= k + 1
    <3>1. k \notin Bad
      BY <2>2, <2>7
    <3> QED  BY <3>1 DEF Bad
  <2>9. level[k + 1] # level[k]
    BY <1>4, <2>3, <2>7
  <2>10. level[k] \subseteq level[n] /\ level[k] # level[n]
    BY <1>4, <1>5, <1>6, <2>7, <2>9
  <2>11. IsFiniteSet(level[k]) /\ Cardinality(level[k]) \in Nat
    <3>1. IsFiniteSet(level[k])
      BY <2>4, <2>10, FS_Subset
    <3> QED  BY <3>1, FS_CardinalityType
  <2>12. Cardinality(level[k]) < Cardinality(level[n])
    <3>1. level[k] \in SUBSET level[n]
      BY <2>10
    <3>2. /\ Cardinality(level[k]) <= Cardinality(level[n])
          /\ Cardinality(level[n]) = Cardinality(level[k]) => level[n] = level[k]
      BY <2>4, <3>1, FS_Subset
    <3> QED  BY <2>5, <2>10, <2>11, <3>2
  <2> QED  BY <2>3, <2>5, <2>7, <2>8, <2>9, <2>11, <2>12
<1>8. PICK n \in Nat : n = Cardinality(Existing)
  BY FS_CardinalityType
<1>9. Cardinality(level[n]) \in Nat /\ Cardinality(level[n]) <= n
  <2>1. level[n] \subseteq Existing
    BY <1>6
  <2> QED  BY <1>8, <2>1, FS_Subset, FS_CardinalityType
<1>10. Below(level[n]) = level[n]
  BY <1>4, <1>7, <1>9
<1> QED  BY <1>1, <1>6, <1>8, <1>10

-----------------------------------------------------------------------------
(* Trees. *)

\* There is no circle: among any categories there is one that is not below another
\* of them.
Grounded == \A S \in SUBSET Existing : S # {} => \E c \in S : parent[c] \cap S = {}

\* No category is asked to go under itself, unless it was there already.
NotUnderItself(e) == e.to = Stay \/ e.to = e.parent \/ e.category \notin e.to

\* What a request has loaded and was asked for, when n ids have been given out.
Sound(e, n) ==
  /\ e.step = "edit"   => e.category \in 1 .. n /\ NotUnderItself(e)
  /\ e.step = "save"   => /\ e.edit.category \in 1 .. n /\ NotUnderItself(e.edit)
                          /\ e.there \/ e.parent = {}
  /\ e.step = "remove" => e.category \in 1 .. n /\ e.children = {}

EditSound(r) == Sound(edits[r], created)

TreeIInv ==
  /\ TreeTypeOK
  /\ \A r \in TreeRequests : EditSound(r)
  /\ upset \cap {"looped", "stale"} = {} => Grounded
  /\ upset \cap {"stale", "ignored", "orphaned"} = {} => parent = asked

LEMMA ExistingInRange ==
  ASSUME TreeTypeOK
  PROVE  /\ created \in Nat /\ created <= MaxCategories
         /\ \A c \in Existing : c \in 1 .. created /\ c \in Categories /\ parent[c] \in Parents
         /\ \A c : Children(c) \in SUBSET Categories
<1>1. created \in Nat /\ created <= MaxCategories
  BY TreeAssumption DEF TreeTypeOK
<1>2. \A c \in Existing : c \in 1 .. created
  BY DEF TreeTypeOK
<1>3. \A c \in 1 .. created : c \in Categories
  BY <1>1, TreeAssumption DEF Categories
<1>4. \A c : Children(c) \subseteq Existing
  BY DEF Children
<1> QED  BY <1>1, <1>2, <1>3, <1>4 DEF TreeTypeOK

LEMMA ExistingFinite == TreeTypeOK => IsFiniteSet(Existing)
<1> SUFFICES ASSUME TreeTypeOK PROVE IsFiniteSet(Existing)
  OBVIOUS
<1>1. created \in Int /\ IsFiniteSet(1 .. created)
  BY TreeAssumption, FS_Interval DEF TreeTypeOK
<1> QED  BY <1>1, FS_Subset DEF TreeTypeOK

\* Where there is no circle, the storefront reaches every category.
LEMMA GroundedIsListed ==
  ASSUME TreeTypeOK, Grounded
  PROVE  Listed = Existing
<1>1. PICK base : base = {c \in Existing : parent[c] = {}}
  OBVIOUS
<1>2. PICK reached : reached = Levels(base)[Cardinality(Existing)]
  OBVIOUS
<1>3. Listed = reached
  BY <1>1, <1>2, TreeIsLevels
<1>4. reached \subseteq Existing /\ base \subseteq reached /\ Below(reached) = reached
  BY <1>1, <1>2, ExistingFinite, LevelsSettle
<1> SUFFICES ASSUME Existing \ reached # {} PROVE FALSE
  BY <1>3, <1>4
<1>5. PICK c \in Existing \ reached : parent[c] \cap (Existing \ reached) = {}
  BY DEF Grounded
<1>6. parent[c] \subseteq reached
  BY <1>5 DEF TreeTypeOK
<1>7. parent[c] # {}
  BY <1>1, <1>4, <1>5
<1>8. PICK p \in reached : p \in parent[c]
  BY <1>6, <1>7
<1>9. c \in Below(reached)
  BY <1>5, <1>8 DEF Below, Children
<1> QED  BY <1>4, <1>5, <1>9

\* The categories below c are closed under taking children, c among them.
LEMMA BelowIsClosed ==
  ASSUME TreeTypeOK, NEW c \in Existing
  PROVE  /\ Descendants(c) \subseteq Existing
         /\ \A d \in Descendants(c) \cup {c} : Children(d) \subseteq Descendants(c) \cup {c}
<1>1. PICK base : base = Children(c)
  OBVIOUS
<1>2. PICK reached : reached = Levels(base)[Cardinality(Existing)]
  OBVIOUS
<1>3. Descendants(c) = reached \ {c}
  BY <1>1, <1>2, TreeIsLevels
<1>4. base \subseteq Existing
  BY <1>1 DEF Children
<1>5. reached \subseteq Existing /\ base \subseteq reached /\ Below(reached) = reached
  BY <1>2, <1>4, ExistingFinite, LevelsSettle
<1>6. \A d \in reached : Children(d) \subseteq reached
  BY <1>5 DEF Below
<1> QED  BY <1>1, <1>3, <1>5, <1>6

\* Moving a category anywhere but below itself makes no circle.
LEMMA MovedStaysGrounded ==
  ASSUME TreeTypeOK, Grounded, NEW c \in Existing, NEW p \in SUBSET Existing,
         p \in Parents, c \notin p, p \cap Descendants(c) = {},
         Existing' = Existing, parent' = [parent EXCEPT ![c] = p]
  PROVE  Grounded'
<1> SUFFICES ASSUME NEW S \in SUBSET Existing, S # {}, \A d \in S : parent'[d] \cap S # {}
             PROVE  FALSE
  BY DEF Grounded
<1>1. parent'[c] = p /\ \A d \in Existing : d # c => parent'[d] = parent[d]
  BY DEF Existing
<1>2. PICK d \in S : parent[d] \cap S = {}
  BY DEF Grounded
<1>3. d = c
  BY <1>1, <1>2
<1>4. PICK q \in S : q \in p
  BY <1>1, <1>3
<1>5. PICK under : under = Descendants(c) \cup {c}
  OBVIOUS
<1>6. c \in under /\ \A x \in under : Children(x) \subseteq under
  BY <1>5, BelowIsClosed
<1>7. q \in S \ under
  BY <1>4, <1>5
<1>8. PICK m \in S \ under : parent[m] \cap (S \ under) = {}
  BY <1>7 DEF Grounded
<1>9. PICK x \in S : x \in parent[m]
  BY <1>1, <1>6, <1>8
<1>10. x \in under /\ m \in Children(x)
  BY <1>8, <1>9 DEF Children
<1> QED  BY <1>6, <1>8, <1>10

-----------------------------------------------------------------------------
LEMMA TreeStart == TreeInit => TreeIInv
<1> SUFFICES ASSUME TreeInit PROVE TreeIInv
  OBVIOUS
<1>1. parent = [c \in {} |-> {}] /\ Existing = {}
  BY DEF TreeInit, Existing
<1>2. created = 0 /\ upset = {} /\ edits = [r \in TreeRequests |-> NotEditing] /\ asked = parent
  BY DEF TreeInit
<1>3. TreeTypeOK
  BY <1>1, <1>2, TreeAssumption DEF TreeTypeOK, Edit
<1>4. \A r \in TreeRequests : EditSound(r)
  BY <1>2 DEF EditSound, Sound, NotEditing
<1>5. Grounded
  BY <1>1 DEF Grounded
<1> QED  BY <1>2, <1>3, <1>4, <1>5 DEF TreeIInv

LEMMA EditsAreEdits == Edit' = Edit /\ Parents' = Parents
BY DEF Edit, Loaded, ReRead, Parents, Categories, NotEditing

\* A request that goes on with something sound leaves the others as sound as they are.
LEMMA EditsStaySound ==
  ASSUME TreeIInv, NEW r \in TreeRequests, NEW e \in Edit,
         edits' = [edits EXCEPT ![r] = e], created' = created,
         Sound(e, created)
  PROVE  edits' \in [TreeRequests -> Edit] /\ \A s \in TreeRequests : EditSound(s)'
<1>1. edits \in [TreeRequests -> Edit] /\ \A s \in TreeRequests : EditSound(s)
  BY DEF TreeIInv, TreeTypeOK
<1>2. ASSUME NEW s \in TreeRequests PROVE EditSound(s)'
  <2>1. CASE s = r
    <3>1. edits'[s] = e
      BY <1>1, <2>1
    <3> QED  BY <3>1 DEF EditSound, Sound, NotUnderItself, Stay, Categories
  <2>2. CASE s # r
    <3>1. edits'[s] = edits[s]
      BY <1>1, <2>2
    <3> QED  BY <1>1, <3>1 DEF EditSound, Sound, NotUnderItself, Stay, Categories
  <2> QED  BY <2>1, <2>2
<1> QED  BY <1>1, <1>2

\* A request that only reads or gives up changes no row.
LEMMA ReadingKeeps ==
  ASSUME TreeIInv, NEW r \in TreeRequests, NEW e \in Edit,
         edits' = [edits EXCEPT ![r] = e], UNCHANGED <<created, parent, asked, upset>>,
         Sound(e, created)
  PROVE  TreeIInv'
<1>1. edits' \in [TreeRequests -> Edit] /\ \A s \in TreeRequests : EditSound(s)'
  BY EditsStaySound
<1>2. TreeTypeOK'
  BY <1>1, EditsAreEdits DEF TreeIInv, TreeTypeOK, Existing, Categories, Parents
<1>3. Grounded => Grounded'
  BY DEF Grounded, Existing
<1> QED  BY <1>1, <1>2, <1>3 DEF TreeIInv

LEMMA LoadingKeeps ==
  ASSUME TreeIInv, NEW r \in TreeRequests, NEW c \in Existing, NEW to \in Parents \cup {Stay},
         LoadCategory(r, c, to)
  PROVE  TreeIInv'
<1>1. PICK e : e = [step |-> "edit", category |-> c, parent |-> parent[c], children |-> Children(c), to |-> to]
  OBVIOUS
<1>2. c \in 1 .. created /\ c \in Categories /\ parent[c] \in Parents /\ Children(c) \in SUBSET Categories
  BY ExistingInRange DEF TreeIInv
<1>3. to \in Parents \cup {Categories}
  BY DEF Stay
<1>4. e \in Edit
  BY <1>1, <1>2, <1>3 DEF Edit, Loaded
<1>5. /\ edits' = [edits EXCEPT ![r] = e]
      /\ UNCHANGED <<created, parent, asked, upset>>
      /\ to = Stay \/ to = parent[c] \/ c \notin to
  BY <1>1 DEF LoadCategory, CanMove
<1>6. Sound(e, created)
  BY <1>1, <1>2, <1>5 DEF Sound, NotUnderItself
<1> QED  BY <1>4, <1>5, <1>6, ReadingKeeps

LEMMA ReReadingKeeps ==
  ASSUME TreeIInv, NEW r \in TreeRequests, ReReadCategory(r)
  PROVE  TreeIInv'
<1>1. PICK e : e = edits[r]
  OBVIOUS
<1>2. PICK before : before = IF e.category \in Existing THEN parent[e.category] ELSE {}
  OBVIOUS
<1>3. PICK q : q = [step |-> "save", edit |-> e, there |-> e.category \in Existing,
                    parent |-> before, children |-> Children(e.category)]
  OBVIOUS
<1>4. /\ e.step = "edit"
      /\ edits' = [edits EXCEPT ![r] = q]
      /\ UNCHANGED <<created, parent, asked, upset>>
  BY <1>1, <1>2, <1>3 DEF ReReadCategory
<1>5. e \in Loaded /\ Sound(e, created)
  BY <1>1, <1>4 DEF TreeIInv, TreeTypeOK, Edit, ReRead, NotEditing, EditSound
<1>6. before \in Parents /\ Children(e.category) \in SUBSET Categories
  <2>1. {} \in Parents
    BY DEF Parents
  <2>2. /\ \A c \in Existing : parent[c] \in Parents
        /\ \A c : Children(c) \in SUBSET Categories
    BY ExistingInRange DEF TreeIInv
  <2> QED  BY <1>2, <2>1, <2>2
<1>7. q \in Edit
  <2>1. (e.category \in Existing) \in BOOLEAN
    OBVIOUS
  <2> QED  BY <1>3, <1>5, <1>6, <2>1 DEF Edit, ReRead
<1>8. Sound(q, created)
  BY <1>2, <1>3, <1>4, <1>5 DEF Sound
<1> QED  BY <1>4, <1>7, <1>8, ReadingKeeps

LEMMA LoadingForRemovalKeeps ==
  ASSUME TreeIInv, NEW r \in TreeRequests, NEW c \in Existing, LoadForRemoval(r, c)
  PROVE  TreeIInv'
<1>1. PICK e : e = [step |-> "remove", category |-> c, children |-> Children(c)]
  OBVIOUS
<1>2. c \in 1 .. created /\ c \in Categories /\ Children(c) \in SUBSET Categories
  BY ExistingInRange DEF TreeIInv
<1>3. e \in Edit
  BY <1>1, <1>2 DEF Edit
<1>4. /\ edits' = [edits EXCEPT ![r] = e]
      /\ UNCHANGED <<created, parent, asked, upset>>
      /\ Children(c) = {}
  BY <1>1 DEF LoadForRemoval, LoadForRemovalAnyway
<1>5. Sound(e, created)
  BY <1>1, <1>2, <1>4 DEF Sound
<1> QED  BY <1>3, <1>4, <1>5, ReadingKeeps

LEMMA AbandoningKeeps ==
  ASSUME TreeIInv, NEW r \in TreeRequests, AbandonEdit(r)
  PROVE  TreeIInv'
<1>1. PICK e : e = NotEditing
  OBVIOUS
<1>2. e \in Edit /\ e.step = "idle"
  BY <1>1 DEF Edit, NotEditing
<1>3. edits' = [edits EXCEPT ![r] = e] /\ UNCHANGED <<created, parent, asked, upset>>
  BY <1>1 DEF AbandonEdit
<1> QED  BY <1>2, <1>3, ReadingKeeps DEF Sound

LEMMA CreatingKeeps ==
  ASSUME TreeIInv, NEW under \in Parents, CreateCategory(under)
  PROVE  TreeIInv'
<1>1. PICK c : c = created + 1
  OBVIOUS
<1>2. /\ c \in 1 .. MaxCategories /\ created' = c /\ c \notin Existing /\ created < c
      /\ under \subseteq Existing
      /\ parent' = [d \in Existing \cup {c} |-> IF d = c THEN under ELSE parent[d]]
      /\ asked' = [d \in Existing \cup {c} |-> IF d = c THEN under ELSE asked[d]]
      /\ edits' = edits /\ upset' = upset
  BY <1>1, TreeAssumption DEF CreateCategory, TreeIInv, TreeTypeOK
<1>3. /\ Existing' = Existing \cup {c}
      /\ parent'[c] = under
      /\ \A d \in Existing : parent'[d] = parent[d]
  BY <1>2 DEF Existing
<1>4. \A d \in Existing : parent[d] \in SUBSET Existing /\ parent[d] \in Parents
  BY DEF TreeIInv, TreeTypeOK
<1>5. TreeTypeOK'
  <2>1. created' \in 0 .. MaxCategories /\ Existing' \subseteq 1 .. created'
    BY <1>2, <1>3, TreeAssumption DEF TreeIInv, TreeTypeOK
  <2>2. \A d \in Existing' : parent'[d] \in SUBSET Existing' /\ parent'[d] \in Parents'
    BY <1>2, <1>3, <1>4 DEF Parents, Categories
  <2>3. asked' \in [Existing' -> Parents']
    BY <1>2, <1>3 DEF TreeIInv, TreeTypeOK, Parents, Categories
  <2> QED  BY <1>2, <2>1, <2>2, <2>3, EditsAreEdits DEF TreeIInv, TreeTypeOK
<1>6. ASSUME NEW s \in TreeRequests PROVE EditSound(s)'
  <2>1. Sound(edits[s], created) /\ \A i \in 1 .. created : i \in 1 .. c
    BY <1>2, TreeAssumption DEF TreeIInv, TreeTypeOK, EditSound
  <2>2. edits'[s] = edits[s] /\ created' = c
    BY <1>2
  <2> QED  BY <2>1, <2>2 DEF EditSound, Sound, NotUnderItself, Stay, Categories
<1>7. ASSUME Grounded PROVE Grounded'
  <2> SUFFICES ASSUME NEW S \in SUBSET Existing', S # {}
               PROVE  \E d \in S : parent'[d] \cap S = {}
    BY DEF Grounded
  <2>1. CASE S \subseteq {c}
    BY <1>2, <1>3, <2>1
  <2>2. CASE ~(S \subseteq {c})
    <3>1. PICK d \in S \ {c} : parent[d] \cap (S \ {c}) = {}
      BY <1>3, <1>7, <2>2 DEF Grounded
    <3>2. d \in Existing /\ parent'[d] = parent[d] /\ c \notin parent[d]
      BY <1>2, <1>3, <1>4, <3>1
    <3> QED  BY <3>1, <3>2
  <2> QED  BY <2>1, <2>2
<1>8. parent = asked => parent' = asked'
  BY <1>2
<1> QED  BY <1>2, <1>5, <1>6, <1>7, <1>8 DEF TreeIInv

\* What a write that was remembered says of the write.
LEMMA Remembered ==
  ASSUME upset \subseteq {"looped", "stale", "ignored", "orphaned"},
         NEW mishaps \in SUBSET {"looped", "stale", "ignored", "orphaned"},
         NEW wanted, TreeRemembers(mishaps, wanted)
  PROVE  /\ upset' \subseteq {"looped", "stale", "ignored", "orphaned"}
         /\ upset' \cap {"looped", "stale"} = {} =>
              upset \cap {"looped", "stale"} = {} /\ mishaps \cap {"looped", "stale"} = {}
         /\ upset' \cap {"stale", "ignored", "orphaned"} = {} =>
              /\ upset \cap {"stale", "ignored", "orphaned"} = {}
              /\ mishaps \cap {"stale", "ignored", "orphaned"} = {}
              /\ asked' = wanted
         /\ upset' \cap {"stale", "ignored", "orphaned"} # {} => asked' = parent'
<1>1. /\ upset' = IF "stale" \in upset \cup mishaps THEN {"stale"} ELSE upset \cup mishaps
      /\ asked' = IF upset' \cap {"stale", "ignored", "orphaned"} # {} THEN parent' ELSE wanted
  BY DEF TreeRemembers
<1>2. CASE "stale" \in upset \cup mishaps
  BY <1>1, <1>2
<1>3. CASE "stale" \notin upset \cup mishaps
  BY <1>1, <1>3
<1> QED  BY <1>2, <1>3

LEMMA EditEnds ==
  ASSUME TreeIInv, NEW r \in TreeRequests,
         edits' = [edits EXCEPT ![r] = NotEditing], created' = created
  PROVE  edits' \in [TreeRequests -> Edit] /\ \A s \in TreeRequests : EditSound(s)'
<1>1. PICK e : e = NotEditing
  OBVIOUS
<1>2. e \in Edit /\ e.step = "idle"
  BY <1>1 DEF Edit, NotEditing
<1> QED  BY <1>1, <1>2, EditsStaySound DEF Sound

LEMMA RemovingKeeps ==
  ASSUME TreeIInv, NEW r \in TreeRequests, RemoveCategory(r)
  PROVE  TreeIInv'
<1>1. PICK c : c = edits[r].category
  OBVIOUS
<1>2. PICK wanted : wanted = [d \in Existing \ {c} |-> asked[d]]
  OBVIOUS
<1>3. PICK mishaps : mishaps = IF Children(c) = edits[r].children THEN {} ELSE {"orphaned"}
  OBVIOUS
<1>4. /\ edits[r].step = "remove"
      /\ parent' = [d \in Existing \ {c} |-> parent[d] \ {c}]
      /\ TreeRemembers(mishaps, wanted)
      /\ edits' = [edits EXCEPT ![r] = NotEditing]
      /\ created' = created
  BY <1>1, <1>2, <1>3 DEF RemoveCategory
<1>5. edits' \in [TreeRequests -> Edit] /\ \A s \in TreeRequests : EditSound(s)'
  BY <1>4, EditEnds
<1>6. mishaps \in SUBSET {"looped", "stale", "ignored", "orphaned"}
  BY <1>3
<1>7. /\ upset' \subseteq {"looped", "stale", "ignored", "orphaned"}
      /\ upset' \cap {"looped", "stale"} = {} => upset \cap {"looped", "stale"} = {}
      /\ upset' \cap {"stale", "ignored", "orphaned"} = {} =>
           /\ upset \cap {"stale", "ignored", "orphaned"} = {}
           /\ "orphaned" \notin mishaps
           /\ asked' = wanted
      /\ upset' \cap {"stale", "ignored", "orphaned"} # {} => asked' = parent'
  <2>1. upset \subseteq {"looped", "stale", "ignored", "orphaned"}
    BY DEF TreeIInv, TreeTypeOK
  <2> QED  BY <1>4, <1>6, <2>1, Remembered
<1>8. Existing' = Existing \ {c} /\ \A d \in Existing' : parent'[d] = parent[d] \ {c}
  BY <1>4 DEF Existing
<1>9. \A d \in Existing : parent[d] \in SUBSET Existing /\ parent[d] \in Parents
  BY DEF TreeIInv, TreeTypeOK
<1>10. \A p \in Parents : p \ {c} \in Parents
  BY DEF Parents
<1>11. \A d \in Existing' : parent'[d] \in SUBSET Existing' /\ parent'[d] \in Parents
  BY <1>8, <1>9, <1>10
<1>12. asked' \in [Existing' -> Parents]
  <2>1. wanted \in [Existing' -> Parents]
    BY <1>2, <1>8 DEF TreeIInv, TreeTypeOK
  <2>2. parent' \in [Existing' -> Parents]
    BY <1>4, <1>8, <1>11
  <2> QED  BY <1>7, <2>1, <2>2
<1>13. TreeTypeOK'
  BY <1>4, <1>5, <1>7, <1>8, <1>11, <1>12, EditsAreEdits DEF TreeIInv, TreeTypeOK
<1>14. Grounded => Grounded'
  <2> SUFFICES ASSUME Grounded, NEW S \in SUBSET Existing', S # {}
               PROVE  \E d \in S : parent'[d] \cap S = {}
    BY DEF Grounded
  <2>1. PICK d \in S : parent[d] \cap S = {}
    BY <1>8 DEF Grounded
  <2> QED  BY <1>8, <2>1
<1>15. ASSUME "orphaned" \notin mishaps, parent = asked PROVE parent' = wanted
  <2>1. Children(c) = {}
    BY <1>1, <1>3, <1>4, <1>15 DEF TreeIInv, EditSound, Sound
  <2>2. \A d \in Existing : parent[d] \ {c} = parent[d]
    BY <2>1 DEF Children
  <2> QED  BY <1>2, <1>4, <1>15, <2>2
<1>16. /\ upset' \cap {"looped", "stale"} = {} => Grounded'
       /\ upset' \cap {"stale", "ignored", "orphaned"} = {} => parent' = asked'
  BY <1>7, <1>14, <1>15 DEF TreeIInv
<1> QED  BY <1>5, <1>13, <1>16 DEF TreeIInv

\* What is written, apart from what is remembered: the parent of the category where
\* it differs from the re-read, and the children that were loaded or read, not both.
WrittenTree(q, c, p, now) ==
  /\ q \in ReRead /\ q.edit \in Loaded
  /\ c \in 1 .. created /\ NotUnderItself(q.edit)
  /\ p \in Parents
  /\ Existing' = now
  /\ parent' \in [now -> Parents]
  /\ \A d \in now : parent'[d] \subseteq now
  /\ c \in now => parent'[c] = IF p = q.parent /\ q.there THEN parent[c] ELSE p
  /\ \A d \in now : d # c =>
       parent'[d] = IF d \in q.edit.children \ q.children THEN {c}
                    ELSE IF d \in q.children \ q.edit.children THEN {}
                    ELSE parent[d]

LEMMA SavedRows ==
  ASSUME TreeIInv, NEW r \in TreeRequests, UpdateCategory(r), NEW q, q = edits[r],
         NEW c, c = q.edit.category, NEW p, p = SavedParent(q.edit),
         NEW now, now = IF q.there THEN Existing ELSE Existing \cup {c}
  PROVE  WrittenTree(q, c, p, now)
<1>1. PICK bound : bound = (q.edit.children \ q.children) \cap Existing
  OBVIOUS
<1>2. /\ q.step = "save"
      /\ c \in now /\ p # q.parent => p \subseteq Existing
      /\ bound # {} => c \in now
      /\ parent' = [d \in now |->
                      IF d = c THEN IF p = q.parent /\ q.there THEN parent[c] ELSE p
                      ELSE IF d \in bound THEN {c}
                      ELSE IF d \in q.children \ q.edit.children THEN {}
                      ELSE parent[d]]
  BY <1>1 DEF UpdateCategory
<1>3. q \in ReRead /\ Sound(q, created)
  BY <1>2 DEF TreeIInv, TreeTypeOK, Edit, Loaded, NotEditing, EditSound
<1>4. q.edit \in Loaded /\ q.parent \in Parents /\ q.there \in BOOLEAN
  BY <1>3 DEF ReRead
<1>5. c \in 1 .. created /\ NotUnderItself(q.edit)
  BY <1>2, <1>3 DEF Sound
<1>6. c \in Categories /\ {c} \in Parents /\ {} \in Parents
  BY <1>4 DEF Loaded, Parents
<1>7. p \in Parents
  BY <1>4 DEF Loaded, SavedParent, Stay
<1>8. \A d \in Existing : parent[d] \in SUBSET Existing /\ parent[d] \in Parents
  BY DEF TreeIInv, TreeTypeOK
<1>9. now \subseteq Existing \cup {c} /\ Existing \subseteq now /\ (q.there => now = Existing)
  BY <1>4
<1>10. c \in now => parent'[c] = IF p = q.parent /\ q.there THEN parent[c] ELSE p
  BY <1>2
<1>11. \A d \in now : d # c =>
         parent'[d] = IF d \in q.edit.children \ q.children THEN {c}
                      ELSE IF d \in q.children \ q.edit.children THEN {}
                      ELSE parent[d]
  BY <1>1, <1>2, <1>9
<1>12. ASSUME NEW d \in now PROVE parent'[d] \in Parents /\ parent'[d] \subseteq now
  <2>1. CASE d = c
    <3>1. CASE p = q.parent /\ q.there
      BY <1>8, <1>9, <1>10, <2>1, <3>1
    <3>2. CASE p # q.parent
      BY <1>2, <1>7, <1>9, <1>10, <2>1, <3>2
    <3>3. CASE p = q.parent /\ ~q.there
      <4>1. q.parent = {}
        BY <1>2, <1>3, <3>3 DEF Sound
      <4> QED  BY <1>7, <1>10, <2>1, <3>3, <4>1
    <3> QED  BY <3>1, <3>2, <3>3
  <2>2. CASE d # c
    <3>1. d \in Existing
      BY <1>9, <2>2
    <3>2. CASE d \in q.edit.children \ q.children
      BY <1>1, <1>2, <1>6, <1>11, <2>2, <3>1, <3>2
    <3>3. CASE d \notin q.edit.children \ q.children
      BY <1>6, <1>8, <1>9, <1>11, <2>2, <3>1, <3>3
    <3> QED  BY <3>2, <3>3
  <2> QED  BY <2>1, <2>2
<1>13. parent' \in [now -> Parents] /\ Existing' = now
  BY <1>2, <1>12 DEF Existing
<1> QED  BY <1>3, <1>4, <1>5, <1>7, <1>10, <1>11, <1>12, <1>13 DEF WrittenTree

\* A save of rows that had not changed between their load and the re-read moves the
\* category, if it is still there and its parent differs, and nothing else.
LEMMA FreshSave ==
  ASSUME TreeIInv, NEW r \in TreeRequests, UpdateCategory(r), NEW q, q = edits[r],
         NEW c, c = q.edit.category, NEW p, p = SavedParent(q.edit),
         "stale" \notin Mishaps(q)
  PROVE  /\ q.edit.parent = q.parent /\ q.there
         /\ Existing' = Existing
         /\ c \in Existing /\ p # q.parent => parent' = [parent EXCEPT ![c] = p]
         /\ c \notin Existing \/ p = q.parent => parent' = parent
<1>1. q.there /\ q.edit.parent = q.parent /\ q.edit.children = q.children
  BY DEF Mishaps
<1>2. PICK now : now = IF q.there THEN Existing ELSE Existing \cup {c}
  OBVIOUS
<1>3. now = Existing
  BY <1>1, <1>2
<1>4. /\ Existing' = now
      /\ parent' \in [now -> Parents]
      /\ c \in now => parent'[c] = IF p = q.parent /\ q.there THEN parent[c] ELSE p
      /\ \A d \in now : d # c =>
           parent'[d] = IF d \in q.edit.children \ q.children THEN {c}
                        ELSE IF d \in q.children \ q.edit.children THEN {}
                        ELSE parent[d]
  <2>1. WrittenTree(q, c, p, now)
    BY <1>2, SavedRows
  <2> QED  BY <2>1 DEF WrittenTree
<1>5. \A d \in Existing : d # c => parent'[d] = parent[d]
  BY <1>1, <1>3, <1>4
<1>6. parent = [d \in Existing |-> parent[d]]
  BY DEF TreeIInv, TreeTypeOK
<1> QED  BY <1>1, <1>3, <1>4, <1>5, <1>6

LEMMA SavingKeeps ==
  ASSUME TreeIInv, NEW r \in TreeRequests, UpdateCategory(r)
  PROVE  TreeIInv'
<1>1. PICK q : q = edits[r]
  OBVIOUS
<1>2. PICK c, p, mishaps : c = q.edit.category /\ p = SavedParent(q.edit) /\ mishaps = Mishaps(q)
  OBVIOUS
<1>3. PICK now : now = IF q.there THEN Existing ELSE Existing \cup {c}
  OBVIOUS
<1>4. PICK wanted : wanted = [d \in now |-> IF d = c /\ q.edit.to \notin {Stay, q.parent}
                                           THEN q.edit.to ELSE asked[d]]
  OBVIOUS
<1>5. /\ TreeRemembers(mishaps, wanted)
      /\ edits' = [edits EXCEPT ![r] = NotEditing]
      /\ created' = created
  BY <1>1, <1>2, <1>3, <1>4 DEF UpdateCategory
<1>6. edits' \in [TreeRequests -> Edit] /\ \A s \in TreeRequests : EditSound(s)'
  BY <1>5, EditEnds
<1>7. mishaps \in SUBSET {"looped", "stale", "ignored", "orphaned"}
  BY <1>2 DEF Mishaps
<1>8. /\ upset' \subseteq {"looped", "stale", "ignored", "orphaned"}
      /\ upset' \cap {"looped", "stale"} = {} =>
           upset \cap {"looped", "stale"} = {} /\ "looped" \notin mishaps /\ "stale" \notin mishaps
      /\ upset' \cap {"stale", "ignored", "orphaned"} = {} =>
           /\ upset \cap {"stale", "ignored", "orphaned"} = {}
           /\ "stale" \notin mishaps /\ "ignored" \notin mishaps
           /\ asked' = wanted
      /\ upset' \cap {"stale", "ignored", "orphaned"} # {} => asked' = parent'
  <2>1. upset \subseteq {"looped", "stale", "ignored", "orphaned"}
    BY DEF TreeIInv, TreeTypeOK
  <2> QED  BY <1>5, <1>7, <2>1, Remembered
<1>9. /\ q.edit \in Loaded /\ NotUnderItself(q.edit)
      /\ c \in 1 .. created
      /\ p \in Parents
      /\ Existing' = now
      /\ parent' \in [now -> Parents]
      /\ \A d \in now : parent'[d] \subseteq now
  <2>1. WrittenTree(q, c, p, now)
    BY <1>1, <1>2, <1>3, SavedRows
  <2> QED  BY <2>1 DEF WrittenTree
<1>10. ASSUME "stale" \notin mishaps
       PROVE  /\ q.edit.parent = q.parent
              /\ Existing' = Existing /\ now = Existing
              /\ c \in Existing /\ p # q.parent => parent' = [parent EXCEPT ![c] = p]
              /\ c \notin Existing \/ p = q.parent => parent' = parent
  <2>1. "stale" \notin Mishaps(q)
    BY <1>2, <1>10
  <2>2. q.there
    BY <1>1, <1>2, <2>1, FreshSave
  <2> QED  BY <1>1, <1>2, <1>3, <2>1, <2>2, FreshSave
<1>11. asked' \in [Existing' -> Parents]
  <2>1. ASSUME "stale" \notin mishaps PROVE wanted \in [now -> Parents]
    <3>1. asked \in [Existing -> Parents] /\ now = Existing
      BY <1>10, <2>1 DEF TreeIInv, TreeTypeOK
    <3>2. q.edit.to # Stay => q.edit.to \in Parents
      BY <1>9 DEF Loaded, Stay
    <3> QED  BY <1>4, <3>1, <3>2
  <2> QED  BY <1>8, <1>9, <2>1
<1>12. TreeTypeOK'
  <2>1. created' \in 0 .. MaxCategories /\ Existing' \subseteq 1 .. created'
    BY <1>3, <1>5, <1>9 DEF TreeIInv, TreeTypeOK
  <2> QED  BY <1>6, <1>8, <1>9, <1>11, <2>1, EditsAreEdits DEF TreeTypeOK
<1>13. ASSUME "stale" \notin mishaps, p # q.parent
       PROVE  q.edit.to # Stay /\ p = q.edit.to /\ c \notin p
  BY <1>2, <1>9, <1>10, <1>13 DEF SavedParent, NotUnderItself
<1>14. ASSUME Grounded, "looped" \notin mishaps, "stale" \notin mishaps
       PROVE  Grounded'
  <2>1. CASE c \in Existing /\ p # q.parent
    <3>1. p \cap Descendants(c) = {}
      BY <1>2, <1>14, <2>1 DEF Mishaps
    <3>2. p \in SUBSET Existing
      BY <1>1, <1>2, <1>3, <1>10, <1>14, <2>1 DEF UpdateCategory
    <3> QED  BY <1>9, <1>10, <1>13, <1>14, <2>1, <3>1, <3>2, MovedStaysGrounded DEF TreeIInv
  <2>2. CASE c \notin Existing \/ p = q.parent
    BY <1>10, <1>14, <2>2 DEF Grounded
  <2> QED  BY <2>1, <2>2
<1>15. ASSUME parent = asked, "stale" \notin mishaps, "ignored" \notin mishaps
       PROVE  parent' = wanted
  <2>1. q.edit.to = Stay \/ p = q.edit.to
    BY <1>2, <1>15 DEF Mishaps
  <2>2. parent = [d \in Existing |-> parent[d]] /\ now = Existing
    BY <1>10, <1>15 DEF TreeIInv, TreeTypeOK
  <2>3. CASE c \in Existing /\ p # q.parent
    BY <1>4, <1>10, <1>13, <1>15, <2>2, <2>3
  <2>4. CASE c \notin Existing
    BY <1>4, <1>10, <1>15, <2>2, <2>4
  <2>5. CASE p = q.parent
    BY <1>4, <1>10, <1>15, <2>1, <2>2, <2>5
  <2> QED  BY <2>3, <2>4, <2>5
<1>16. /\ upset' \cap {"looped", "stale"} = {} => Grounded'
       /\ upset' \cap {"stale", "ignored", "orphaned"} = {} => parent' = asked'
  BY <1>8, <1>14, <1>15 DEF TreeIInv
<1> QED  BY <1>6, <1>12, <1>16 DEF TreeIInv

LEMMA TreeSteps == TreeIInv /\ [TreeNext]_treeVars => TreeIInv'
<1> SUFFICES ASSUME TreeIInv, [TreeNext]_treeVars PROVE TreeIInv'
  OBVIOUS
<1>1. ASSUME NEW under \in Parents, CreateCategory(under) PROVE TreeIInv'
  BY <1>1, CreatingKeeps
<1>2. ASSUME NEW r \in TreeRequests, NEW c \in Existing, NEW to \in Parents \cup {Stay},
             LoadCategory(r, c, to)
      PROVE  TreeIInv'
  BY <1>2, LoadingKeeps
<1>3. ASSUME NEW r \in TreeRequests, NEW c \in Existing, LoadForRemoval(r, c) PROVE TreeIInv'
  BY <1>3, LoadingForRemovalKeeps
<1>4. ASSUME NEW r \in TreeRequests, ReReadCategory(r) PROVE TreeIInv'
  BY <1>4, ReReadingKeeps
<1>4a. ASSUME NEW r \in TreeRequests, UpdateCategory(r) PROVE TreeIInv'
  BY <1>4a, SavingKeeps
<1>5. ASSUME NEW r \in TreeRequests, RemoveCategory(r) PROVE TreeIInv'
  BY <1>5, RemovingKeeps
<1>6. ASSUME NEW r \in TreeRequests, AbandonEdit(r) PROVE TreeIInv'
  BY <1>6, AbandoningKeeps
<1>7. CASE UNCHANGED treeVars
  BY <1>7 DEF treeVars, TreeIInv, TreeTypeOK, EditSound, Sound, NotUnderItself, Grounded,
       Existing, Edit, Loaded, ReRead, Parents, Categories, Stay
<1> QED  BY <1>1, <1>2, <1>3, <1>4, <1>4a, <1>5, <1>6, <1>7 DEF TreeNext

\* The storefront shows every category, unless one was put below its own descendant
\* or old rows were saved; and a category is where the administrators put it, unless
\* old rows were saved, a move was lost, or a parent was removed under a new child
\* (categories.service.ts, update, remove and findTree).
THEOREM TreeAlwaysAsAsked == TreeSpec => []TreeAsAsked
<1>1. TreeIInv => TreeAsAsked
  BY GroundedIsListed DEF TreeIInv, TreeAsAsked
<1> QED  BY TreeStart, TreeSteps, <1>1, PTL DEF TreeSpec

\* A category has at most one parent, and it exists, whatever becomes of the parent
\* between the check and the UPDATE of a save (categories.service.ts, update).
THEOREM TreeTypeCorrect == TreeSpec => []TreeTypeOK
<1>1. TreeIInv => TreeTypeOK
  BY DEF TreeIInv
<1> QED  BY TreeStart, TreeSteps, <1>1, PTL DEF TreeSpec

-----------------------------------------------------------------------------
(***************************************************************************)
(* A run of the seed script that ends has seeded everything.               *)
(*                                                                         *)
(* An item has its first row only if it has the others, and the stages     *)
(* that are over have left theirs; so a row that an item needs is never    *)
(* missing where it is looked for. An order has its items and a refund     *)
(* what belongs to it, except the one that is being saved.                 *)
(***************************************************************************)

HasRows(i) == Stages[i].does = "rows"
RowsOf(i)  == Stages[i].rows

LEMMA StagesAre ==
  /\ Len(Stages) = 15 /\ DOMAIN Stages = 1 .. 15 /\ Seeded = 16
  /\ Stages[1] = SeedPermissions /\ Stages[2] = SeedRoles /\ Stages[3] = SeedUsers
  /\ Stages[4] = SeedCategories /\ Stages[5] = SeedProducts /\ Stages[6] = SeedAddresses
  /\ Stages[7] = SeedOrders /\ Stages[8] = SeedPayments
  /\ Stages[9] = [does |-> "refund"] /\ Stages[10] = [does |-> "request"]
  /\ Stages[11] = SeedCarts /\ Stages[12] = SeedReviews /\ Stages[13] = SeedWishlists
  /\ Stages[14] = SeedDiscounts /\ Stages[15] = SeedBanners
BY DEF Stages, Seeded

\* Stage i has the item with these rows, which needs those.
IsItem(i, keys, needs) ==
  Stages[i].does = "rows" /\ Stages[i].rows = keys /\ Stages[i].needs = needs

LEMMA ItemFields ==
  ASSUME NEW keys, NEW needs
  PROVE  Item(keys, needs).does = "rows" /\ Item(keys, needs).rows = keys /\ Item(keys, needs).needs = needs
BY DEF Item

LEMMA ItemsAre ==
  /\ IsItem(1, <<"permission">>, {})
  /\ IsItem(2, <<"role">>, {})
  /\ IsItem(3, <<"user", "identity">>, {"role"})
  /\ IsItem(4, <<"category">>, {})
  /\ IsItem(5, <<"product", "images", "variants">>, {"category"})
  /\ IsItem(6, <<"first_address", "second_address">>, {"user"})
  /\ IsItem(11, <<"cart", "cart_items">>, {"user", "variants"})
  /\ IsItem(12, <<"review">>, {"user", "variants"})
  /\ IsItem(13, <<"wishlist">>, {"user", "variants"})
  /\ IsItem(14, <<"discount">>, {})
  /\ IsItem(15, <<"banner">>, {})
<1>1. IsItem(1, <<"permission">>, {})
  BY StagesAre, ItemFields DEF IsItem, SeedPermissions
<1>2. IsItem(2, <<"role">>, {})
  BY StagesAre, ItemFields DEF IsItem, SeedRoles
<1>3. IsItem(3, <<"user", "identity">>, {"role"})
  BY StagesAre, ItemFields DEF IsItem, SeedUsers
<1>4. IsItem(4, <<"category">>, {})
  BY StagesAre, ItemFields DEF IsItem, SeedCategories
<1>5. IsItem(5, <<"product", "images", "variants">>, {"category"})
  BY StagesAre, ItemFields DEF IsItem, SeedProducts
<1>6. IsItem(6, <<"first_address", "second_address">>, {"user"})
  BY StagesAre, ItemFields DEF IsItem, SeedAddresses
<1>11. IsItem(11, <<"cart", "cart_items">>, {"user", "variants"})
  BY StagesAre, ItemFields DEF IsItem, SeedCarts
<1>12. IsItem(12, <<"review">>, {"user", "variants"})
  BY StagesAre, ItemFields DEF IsItem, SeedReviews
<1>13. IsItem(13, <<"wishlist">>, {"user", "variants"})
  BY StagesAre, ItemFields DEF IsItem, SeedWishlists
<1>14. IsItem(14, <<"discount">>, {})
  BY StagesAre, ItemFields DEF IsItem, SeedDiscounts
<1>15. IsItem(15, <<"banner">>, {})
  BY StagesAre, ItemFields DEF IsItem, SeedBanners
<1> QED  BY <1>1, <1>2, <1>3, <1>4, <1>5, <1>6, <1>11, <1>12, <1>13, <1>14, <1>15

LEMMA OtherStages ==
  /\ Stages[7].does = "orders" /\ Stages[8].does = "payments"
  /\ Stages[9].does = "refund" /\ Stages[10].does = "request"
<1>1. Stages[7].does = "orders"
  BY StagesAre DEF SeedOrders
<1>2. Stages[8].does = "payments"
  BY StagesAre DEF SeedPayments
<1>3. Stages[9].does = "refund"
  BY StagesAre
<1>4. Stages[10].does = "request"
  BY StagesAre
<1> QED  BY <1>1, <1>2, <1>3, <1>4

LEMMA StagesDo == \A i \in 1 .. 15 : HasRows(i) <=> i \notin 7 .. 10
BY ItemsAre, OtherStages DEF HasRows, IsItem

LEMMA RowsAre ==
  /\ Len(RowsOf(1)) = 1 /\ DOMAIN RowsOf(1) = 1 .. 1 /\ Head(RowsOf(1)) = RowsOf(1)[1]
  /\ RowsOf(1)[1] = "permission"
  /\ Len(RowsOf(2)) = 1 /\ DOMAIN RowsOf(2) = 1 .. 1 /\ Head(RowsOf(2)) = RowsOf(2)[1]
  /\ RowsOf(2)[1] = "role"
  /\ Len(RowsOf(3)) = 2 /\ DOMAIN RowsOf(3) = 1 .. 2 /\ Head(RowsOf(3)) = RowsOf(3)[1]
  /\ RowsOf(3)[1] = "user" /\ RowsOf(3)[2] = "identity"
  /\ Len(RowsOf(4)) = 1 /\ DOMAIN RowsOf(4) = 1 .. 1 /\ Head(RowsOf(4)) = RowsOf(4)[1]
  /\ RowsOf(4)[1] = "category"
  /\ Len(RowsOf(5)) = 3 /\ DOMAIN RowsOf(5) = 1 .. 3 /\ Head(RowsOf(5)) = RowsOf(5)[1]
  /\ RowsOf(5)[1] = "product" /\ RowsOf(5)[2] = "images" /\ RowsOf(5)[3] = "variants"
  /\ Len(RowsOf(6)) = 2 /\ DOMAIN RowsOf(6) = 1 .. 2 /\ Head(RowsOf(6)) = RowsOf(6)[1]
  /\ RowsOf(6)[1] = "first_address" /\ RowsOf(6)[2] = "second_address"
  /\ Len(RowsOf(11)) = 2 /\ DOMAIN RowsOf(11) = 1 .. 2 /\ Head(RowsOf(11)) = RowsOf(11)[1]
  /\ RowsOf(11)[1] = "cart" /\ RowsOf(11)[2] = "cart_items"
  /\ Len(RowsOf(12)) = 1 /\ DOMAIN RowsOf(12) = 1 .. 1 /\ Head(RowsOf(12)) = RowsOf(12)[1]
  /\ RowsOf(12)[1] = "review"
  /\ Len(RowsOf(13)) = 1 /\ DOMAIN RowsOf(13) = 1 .. 1 /\ Head(RowsOf(13)) = RowsOf(13)[1]
  /\ RowsOf(13)[1] = "wishlist"
  /\ Len(RowsOf(14)) = 1 /\ DOMAIN RowsOf(14) = 1 .. 1 /\ Head(RowsOf(14)) = RowsOf(14)[1]
  /\ RowsOf(14)[1] = "discount"
  /\ Len(RowsOf(15)) = 1 /\ DOMAIN RowsOf(15) = 1 .. 1 /\ Head(RowsOf(15)) = RowsOf(15)[1]
  /\ RowsOf(15)[1] = "banner"
<1>1. /\ Len(RowsOf(1)) = 1 /\ DOMAIN RowsOf(1) = 1 .. 1 /\ Head(RowsOf(1)) = RowsOf(1)[1]
      /\ RowsOf(1)[1] = "permission"
  BY ItemsAre DEF IsItem, RowsOf
<1>2. /\ Len(RowsOf(2)) = 1 /\ DOMAIN RowsOf(2) = 1 .. 1 /\ Head(RowsOf(2)) = RowsOf(2)[1]
      /\ RowsOf(2)[1] = "role"
  BY ItemsAre DEF IsItem, RowsOf
<1>3. /\ Len(RowsOf(3)) = 2 /\ DOMAIN RowsOf(3) = 1 .. 2 /\ Head(RowsOf(3)) = RowsOf(3)[1]
      /\ RowsOf(3)[1] = "user" /\ RowsOf(3)[2] = "identity"
  BY ItemsAre DEF IsItem, RowsOf
<1>4. /\ Len(RowsOf(4)) = 1 /\ DOMAIN RowsOf(4) = 1 .. 1 /\ Head(RowsOf(4)) = RowsOf(4)[1]
      /\ RowsOf(4)[1] = "category"
  BY ItemsAre DEF IsItem, RowsOf
<1>5. /\ Len(RowsOf(5)) = 3 /\ DOMAIN RowsOf(5) = 1 .. 3 /\ Head(RowsOf(5)) = RowsOf(5)[1]
      /\ RowsOf(5)[1] = "product" /\ RowsOf(5)[2] = "images" /\ RowsOf(5)[3] = "variants"
  BY ItemsAre DEF IsItem, RowsOf
<1>6. /\ Len(RowsOf(6)) = 2 /\ DOMAIN RowsOf(6) = 1 .. 2 /\ Head(RowsOf(6)) = RowsOf(6)[1]
      /\ RowsOf(6)[1] = "first_address" /\ RowsOf(6)[2] = "second_address"
  BY ItemsAre DEF IsItem, RowsOf
<1>11. /\ Len(RowsOf(11)) = 2 /\ DOMAIN RowsOf(11) = 1 .. 2 /\ Head(RowsOf(11)) = RowsOf(11)[1]
      /\ RowsOf(11)[1] = "cart" /\ RowsOf(11)[2] = "cart_items"
  BY ItemsAre DEF IsItem, RowsOf
<1>12. /\ Len(RowsOf(12)) = 1 /\ DOMAIN RowsOf(12) = 1 .. 1 /\ Head(RowsOf(12)) = RowsOf(12)[1]
      /\ RowsOf(12)[1] = "review"
  BY ItemsAre DEF IsItem, RowsOf
<1>13. /\ Len(RowsOf(13)) = 1 /\ DOMAIN RowsOf(13) = 1 .. 1 /\ Head(RowsOf(13)) = RowsOf(13)[1]
      /\ RowsOf(13)[1] = "wishlist"
  BY ItemsAre DEF IsItem, RowsOf
<1>14. /\ Len(RowsOf(14)) = 1 /\ DOMAIN RowsOf(14) = 1 .. 1 /\ Head(RowsOf(14)) = RowsOf(14)[1]
      /\ RowsOf(14)[1] = "discount"
  BY ItemsAre DEF IsItem, RowsOf
<1>15. /\ Len(RowsOf(15)) = 1 /\ DOMAIN RowsOf(15) = 1 .. 1 /\ Head(RowsOf(15)) = RowsOf(15)[1]
      /\ RowsOf(15)[1] = "banner"
  BY ItemsAre DEF IsItem, RowsOf
<1> QED  BY <1>1, <1>2, <1>3, <1>4, <1>5, <1>6, <1>11, <1>12, <1>13, <1>14, <1>15

LEMMA RowStages ==
  ASSUME NEW i \in 1 .. 15, HasRows(i)
  PROVE  i \in {1, 2, 3, 4, 5, 6, 11, 12, 13, 14, 15}
BY StagesDo

\* The place of a row: its stage, and whether it is the first of its item.
LEMMA RowAt ==
  ASSUME NEW i \in 1 .. 15, HasRows(i), NEW k \in 1 .. Len(RowsOf(i))
  PROVE  \/ i = 1  /\ RowsOf(i)[k] \in {"permission"}
         \/ i = 2  /\ RowsOf(i)[k] \in {"role"}
         \/ i = 3  /\ RowsOf(i)[k] \in {"user", "identity"}
         \/ i = 4  /\ RowsOf(i)[k] \in {"category"}
         \/ i = 5  /\ RowsOf(i)[k] \in {"product", "images", "variants"}
         \/ i = 6  /\ RowsOf(i)[k] \in {"first_address", "second_address"}
         \/ i = 11 /\ RowsOf(i)[k] \in {"cart", "cart_items"}
         \/ i = 12 /\ RowsOf(i)[k] \in {"review"}
         \/ i = 13 /\ RowsOf(i)[k] \in {"wishlist"}
         \/ i = 14 /\ RowsOf(i)[k] \in {"discount"}
         \/ i = 15 /\ RowsOf(i)[k] \in {"banner"}
<1>1. CASE i = 1
  BY <1>1, RowsAre
<1>2. CASE i = 2
  BY <1>2, RowsAre
<1>3. CASE i = 3
  BY <1>3, RowsAre
<1>4. CASE i = 4
  BY <1>4, RowsAre
<1>5. CASE i = 5
  BY <1>5, RowsAre
<1>6. CASE i = 6
  BY <1>6, RowsAre
<1>11. CASE i = 11
  BY <1>11, RowsAre
<1>12. CASE i = 12
  BY <1>12, RowsAre
<1>13. CASE i = 13
  BY <1>13, RowsAre
<1>14. CASE i = 14
  BY <1>14, RowsAre
<1>15. CASE i = 15
  BY <1>15, RowsAre
<1> QED  BY <1>1, <1>2, <1>3, <1>4, <1>5, <1>6, <1>11, <1>12, <1>13, <1>14, <1>15, RowStages

LEMMA RowsInItem ==
  ASSUME NEW i \in 1 .. 15, HasRows(i)
  PROVE  /\ Len(RowsOf(i)) \in 1 .. 3 /\ DOMAIN RowsOf(i) = 1 .. Len(RowsOf(i))
         /\ Head(RowsOf(i)) = RowsOf(i)[1]
         /\ \A k \in 2 .. Len(RowsOf(i)) : RowsOf(i)[k] # RowsOf(i)[1]
<1>1. CASE i = 1
  BY <1>1, RowsAre
<1>2. CASE i = 2
  BY <1>2, RowsAre
<1>3. CASE i = 3
  BY <1>3, RowsAre
<1>4. CASE i = 4
  BY <1>4, RowsAre
<1>5. CASE i = 5
  BY <1>5, RowsAre
<1>6. CASE i = 6
  BY <1>6, RowsAre
<1>11. CASE i = 11
  BY <1>11, RowsAre
<1>12. CASE i = 12
  BY <1>12, RowsAre
<1>13. CASE i = 13
  BY <1>13, RowsAre
<1>14. CASE i = 14
  BY <1>14, RowsAre
<1>15. CASE i = 15
  BY <1>15, RowsAre
<1> QED  BY <1>1, <1>2, <1>3, <1>4, <1>5, <1>6, <1>11, <1>12, <1>13, <1>14, <1>15, RowStages

LEMMA RowsDiffer ==
  ASSUME NEW i \in 1 .. 15, HasRows(i), NEW j \in 1 .. 15, HasRows(j), i # j
  PROVE  \A k \in 1 .. Len(RowsOf(i)) : RowsOf(i)[k] # RowsOf(j)[1]
<1> SUFFICES ASSUME NEW k \in 1 .. Len(RowsOf(i)), NEW x, x = RowsOf(i)[k], x = RowsOf(j)[1] PROVE FALSE
  OBVIOUS
<1>1. 1 \in 1 .. Len(RowsOf(j))
  <2>1. PICK n \in 1 .. 3 : n = Len(RowsOf(j))
    BY RowsInItem
  <2> QED  BY <2>1
<1> QED  BY <1>1, RowAt

\* The rows that an item needs belong to items of earlier stages.
LEMMA NeedsComeFirst ==
  ASSUME NEW i \in 1 .. 15, HasRows(i), NEW n \in Stages[i].needs
  PROVE  \E j \in 1 .. 15 : j < i /\ HasRows(j) /\ \E k \in 1 .. Len(RowsOf(j)) : n = RowsOf(j)[k]
<1>1. \/ i > 2 /\ n = "role"
      \/ i > 3 /\ n = "user"
      \/ i > 4 /\ n = "category"
      \/ i > 5 /\ n = "variants"
  BY StagesDo, ItemsAre DEF IsItem
<1>2. /\ HasRows(2) /\ "role" = RowsOf(2)[1] /\ 1 \in 1 .. Len(RowsOf(2))
      /\ HasRows(3) /\ "user" = RowsOf(3)[1] /\ 1 \in 1 .. Len(RowsOf(3))
      /\ HasRows(4) /\ "category" = RowsOf(4)[1] /\ 1 \in 1 .. Len(RowsOf(4))
      /\ HasRows(5) /\ "variants" = RowsOf(5)[3] /\ 3 \in 1 .. Len(RowsOf(5))
  BY StagesDo, ItemsAre DEF IsItem, RowsOf
<1> QED  BY <1>1, <1>2

LEMMA AllRowsAre ==
  ASSUME NEW x \in AllRows
  PROVE  \E i \in 1 .. 15 : HasRows(i) /\ \E k \in 1 .. Len(RowsOf(i)) : x = RowsOf(i)[k]
<1>1. PICK s \in ToSet(Stages) : s.does = "rows" /\ x \in ToSet(s.rows)
  BY DEF AllRows
<1>2. PICK i \in 1 .. 15 : s = Stages[i]
  BY StagesAre DEF ToSet
<1>3. HasRows(i) /\ x \in ToSet(RowsOf(i))
  BY <1>1, <1>2 DEF HasRows, RowsOf
<1> QED  BY <1>3, RowsInItem DEF ToSet

LEMMA DoesAre ==
  ASSUME stage \in 0 .. 16
  PROVE  /\ Does = "rows" <=> stage \in 1 .. 15 /\ HasRows(stage)
         /\ Does = "orders" <=> stage = 7
         /\ Does = "payments" <=> stage = 8
         /\ Does = "refund" <=> stage = 9
         /\ Does = "request" <=> stage = 10
<1>1. CASE stage \in 7 .. 10
  BY <1>1, StagesAre, OtherStages DEF Does, HasRows
<1>2. CASE stage \in 1 .. 15 /\ stage \notin 7 .. 10
  <2>1. HasRows(stage)
    BY <1>2, StagesDo
  <2> QED  BY <1>2, <2>1, StagesAre DEF Does, HasRows
<1>3. CASE stage \notin 1 .. 15
  BY <1>3, StagesAre DEF Does
<1> QED  BY <1>1, <1>2, <1>3

-----------------------------------------------------------------------------
(* The invariant. *)

SeededOrder ==
  [kind : {"polo", "phone", "laptop"}, items : BOOLEAN,
   status : {"delivered", "processing", "partly_refunded"},
   payment : {"none", "completed", "partly_refunded"}, refunded : BOOLEAN, requested : BOOLEAN]

\* How far the stage may have come, and the room that the orders of this run need.
StageFits ==
  /\ stage \in 0 .. 16 /\ saved \in Nat
  /\ stage \in {0, 8, 9, 10, 16} \/ stage = 7 \/ (stage \in 1 .. 15 /\ HasRows(stage))
  /\ stage \in {0, 10, 16} => saved = 0
  /\ stage \in 1 .. 15 /\ HasRows(stage) => saved < Len(RowsOf(stage))
  /\ stage = 7 => saved < 6
  /\ stage = 8 => saved < 2
  /\ stage = 9 => saved < 3
  /\ IF stage = 9 /\ saved > 0 THEN chosen \in 1 .. Len(orders) ELSE chosen = 0

RoomIsLeft ==
  /\ Len(orders) <= MaxOrders
  /\ stage \in 1 .. 6 => Len(orders) + 3 <= MaxOrders
  /\ stage = 7 => Len(orders) + (6 - saved) \div 2 <= MaxOrders

OrdersFit ==
  /\ orders \in Seq(SeededOrder)
  /\ \A i \in 1 .. Len(orders) : orders[i].requested => orders[i].payment # "none"
  /\ stage = 7 /\ saved > 0 => SeedOrders.needs \subseteq seeded
  /\ stage = 7 /\ saved % 2 = 1 => Len(orders) > 0

\* As long as no run has died within an item: an item has its first row only if it
\* has the others, but for the one that is being saved, and the stages that are over
\* have left theirs.
ItemsWhole ==
  /\ \A i \in 1 .. 15 : HasRows(i) /\ (i # stage \/ saved = 0) /\ RowsOf(i)[1] \in seeded =>
       \A k \in 1 .. Len(RowsOf(i)) : RowsOf(i)[k] \in seeded
  /\ \A i \in 1 .. 15 : HasRows(i) /\ i < stage =>
       \A k \in 1 .. Len(RowsOf(i)) : RowsOf(i)[k] \in seeded
  /\ stage \in 1 .. 15 /\ HasRows(stage) =>
       \A k \in 1 .. Len(RowsOf(stage)) : k <= saved => RowsOf(stage)[k] \in seeded

\* And an order has its items, and its refund what belongs to it.
OrdersWhole ==
  /\ \A i \in 1 .. Len(orders) : orders[i].items \/ (stage = 7 /\ saved % 2 = 1 /\ i = Len(orders))
  /\ \A i \in 1 .. Len(orders) : i # chosen =>
       /\ orders[i].refunded <=> orders[i].payment = "partly_refunded"
       /\ orders[i].refunded <=> orders[i].status = "partly_refunded"
  /\ chosen # 0 =>
       /\ orders[chosen].refunded
       /\ saved = 2 => orders[chosen].payment = "partly_refunded"

SeedIInv ==
  /\ StageFits /\ RoomIsLeft /\ OrdersFit
  /\ torn \in BOOLEAN
  /\ ~torn => ItemsWhole /\ OrdersWhole

-----------------------------------------------------------------------------
LEMMA SeedStart == SeedInit => SeedIInv
<1> SUFFICES ASSUME SeedInit PROVE SeedIInv
  OBVIOUS
<1>1. seeded = {} /\ orders = <<>> /\ stage = 0 /\ saved = 0 /\ chosen = 0 /\ torn = FALSE
  BY DEF SeedInit
<1>2. Len(orders) = 0 /\ orders \in Seq(SeededOrder)
  BY <1>1
<1>3. StageFits
  BY <1>1 DEF StageFits
<1>4. RoomIsLeft
  BY <1>1, <1>2, SeedAssumption DEF RoomIsLeft
<1>5. OrdersFit
  BY <1>1, <1>2 DEF OrdersFit
<1>6. ItemsWhole
  BY <1>1 DEF ItemsWhole
<1>7. OrdersWhole
  BY <1>1, <1>2 DEF OrdersWhole
<1> QED  BY <1>1, <1>3, <1>4, <1>5, <1>6, <1>7 DEF SeedIInv

\* One of the orders changes.
LEMMA OrderChanges ==
  ASSUME orders \in Seq(SeededOrder), NEW i \in 1 .. Len(orders), NEW o \in SeededOrder,
         orders' = [orders EXCEPT ![i] = o]
  PROVE  /\ orders' \in Seq(SeededOrder) /\ Len(orders') = Len(orders)
         /\ orders'[i] = o
         /\ \A j \in 1 .. Len(orders) : j # i => orders'[j] = orders[j]
OBVIOUS

LEMMA OrderIs ==
  ASSUME orders \in Seq(SeededOrder), NEW i \in 1 .. Len(orders)
  PROVE  orders[i] \in SeededOrder /\ DOMAIN orders = 1 .. Len(orders)
OBVIOUS

\* Stages that save no items keep the items as they are.
LEMMA ItemsPass ==
  ASSUME StageFits, ItemsWhole, stage \in 7 .. 10, seeded' = seeded,
         stage' = stage \/ (stage' = stage + 1 /\ saved' = 0)
  PROVE  ItemsWhole'
<1>1. \A i \in 1 .. 15 : HasRows(i) => i \notin 7 .. 10
  BY StagesDo
<1>2. \A i \in 1 .. 15 : HasRows(i) /\ RowsOf(i)[1] \in seeded =>
        \A k \in 1 .. Len(RowsOf(i)) : RowsOf(i)[k] \in seeded
  BY <1>1 DEF ItemsWhole
<1>3. \A i \in 1 .. 15 : HasRows(i) /\ i < stage' =>
        \A k \in 1 .. Len(RowsOf(i)) : RowsOf(i)[k] \in seeded
  <2> SUFFICES ASSUME NEW i \in 1 .. 15, HasRows(i), i < stage'
               PROVE  \A k \in 1 .. Len(RowsOf(i)) : RowsOf(i)[k] \in seeded
    OBVIOUS
  <2>1. i < stage
    BY <1>1
  <2> QED  BY <2>1 DEF ItemsWhole
<1>4. ASSUME stage' \in 1 .. 15, HasRows(stage')
      PROVE  \A k \in 1 .. Len(RowsOf(stage')) : k <= saved' => RowsOf(stage')[k] \in seeded
  <2>1. stage' = stage + 1 /\ saved' = 0
    BY <1>1, <1>4
  <2>2. Len(RowsOf(stage')) \in 1 .. 3
    BY <1>4, RowsInItem
  <2>3. \A k \in 1 .. Len(RowsOf(stage')) : ~(k <= saved')
    BY <2>1, <2>2
  <2> QED  BY <2>3
<1> QED  BY <1>2, <1>3, <1>4 DEF ItemsWhole, HasRows, RowsOf

-----------------------------------------------------------------------------
LEMMA StartingKeeps ==
  ASSUME SeedIInv, StartSeeding
  PROVE  SeedIInv'
<1>1. /\ stage \in {0, 16} /\ Len(orders) + 3 <= MaxOrders
      /\ stage' = 1 /\ saved' = 0
      /\ UNCHANGED <<seeded, orders, chosen, torn>>
  BY StagesAre DEF StartSeeding, SeedOrders
<1>2. HasRows(1) /\ Len(RowsOf(1)) \in 1 .. 3
  BY StagesDo, RowsInItem
<1>3. StageFits'
  <2>1. chosen' = 0
    BY <1>1 DEF SeedIInv, StageFits
  <2>2. HasRows(stage') /\ Len(RowsOf(stage')) > 0
    BY <1>1, <1>2
  <2> QED  BY <1>1, <2>1, <2>2 DEF StageFits, HasRows, RowsOf
<1>4. RoomIsLeft'
  BY <1>1 DEF SeedIInv, RoomIsLeft
<1>5. OrdersFit'
  BY <1>1 DEF SeedIInv, OrdersFit
<1>6. ItemsWhole => ItemsWhole'
  <2> SUFFICES ASSUME ItemsWhole PROVE ItemsWhole'
    OBVIOUS
  <2>1. \A i \in 1 .. 15 : HasRows(i) /\ RowsOf(i)[1] \in seeded =>
          \A k \in 1 .. Len(RowsOf(i)) : RowsOf(i)[k] \in seeded
    <3>1. \A i \in 1 .. 15 : i # stage
      BY <1>1
    <3> QED  BY <3>1 DEF ItemsWhole
  <2>2. \A i \in 1 .. 15 : ~(i < stage')
    BY <1>1
  <2>3. \A k \in 1 .. Len(RowsOf(stage')) : ~(k <= saved')
    BY <1>1, <1>2
  <2> QED  BY <1>1, <2>1, <2>2, <2>3 DEF ItemsWhole, HasRows, RowsOf
<1>7. OrdersWhole => OrdersWhole'
  BY <1>1 DEF SeedIInv, StageFits, OrdersWhole
<1> QED  BY <1>1, <1>3, <1>4, <1>5, <1>6, <1>7 DEF SeedIInv

\* A stage of items ends with all its rows.
LEMMA ItemEnds ==
  ASSUME SeedIInv, stage \in 1 .. 15, HasRows(stage), stage' = stage + 1, saved' = 0,
         UNCHANGED <<orders, chosen, torn>>,
         NEW new, seeded' = seeded \cup new,
         \A i \in 1 .. 15 : HasRows(i) /\ i # stage => RowsOf(i)[1] \notin new,
         ~torn => \A k \in 1 .. Len(RowsOf(stage)) : RowsOf(stage)[k] \in seeded'
  PROVE  SeedIInv'
<1>1. stage \notin 7 .. 10 /\ stage' \in 2 .. 16 /\ stage' \notin 8 .. 10
  BY StagesDo
<1>2. stage' = 7 \/ stage' = 16 \/ (stage' \in 1 .. 15 /\ HasRows(stage'))
  BY <1>1, StagesDo
<1>3. stage' \in 1 .. 15 /\ HasRows(stage') => Len(RowsOf(stage')) \in 1 .. 3
  BY RowsInItem
<1>4. StageFits'
  <2>1. chosen' = 0
    BY <1>1 DEF SeedIInv, StageFits
  <2> QED  BY <1>1, <1>2, <1>3, <2>1 DEF StageFits, HasRows, RowsOf
<1>5. RoomIsLeft'
  BY <1>1 DEF SeedIInv, RoomIsLeft, OrdersFit
<1>6. OrdersFit'
  BY <1>1 DEF SeedIInv, OrdersFit
<1>7. ASSUME ~torn PROVE ItemsWhole'
  <2>1. \A i \in 1 .. 15 : HasRows(i) /\ RowsOf(i)[1] \in seeded' =>
          \A k \in 1 .. Len(RowsOf(i)) : RowsOf(i)[k] \in seeded'
    <3> SUFFICES ASSUME NEW i \in 1 .. 15, HasRows(i), RowsOf(i)[1] \in seeded'
                 PROVE  \A k \in 1 .. Len(RowsOf(i)) : RowsOf(i)[k] \in seeded'
      OBVIOUS
    <3>1. CASE i = stage
      BY <1>7, <3>1
    <3>2. CASE i # stage
      <4>1. RowsOf(i)[1] \in seeded
        BY <3>2
      <4> QED  BY <1>7, <3>2, <4>1 DEF SeedIInv, ItemsWhole
    <3> QED  BY <3>1, <3>2
  <2>2. \A i \in 1 .. 15 : HasRows(i) /\ i < stage' =>
          \A k \in 1 .. Len(RowsOf(i)) : RowsOf(i)[k] \in seeded'
    <3> SUFFICES ASSUME NEW i \in 1 .. 15, HasRows(i), i < stage'
                 PROVE  \A k \in 1 .. Len(RowsOf(i)) : RowsOf(i)[k] \in seeded'
      OBVIOUS
    <3>1. CASE i = stage
      BY <1>7, <3>1
    <3>2. CASE i # stage
      <4>1. i < stage
        BY <3>2
      <4> QED  BY <1>7, <4>1 DEF SeedIInv, ItemsWhole
    <3> QED  BY <3>1, <3>2
  <2>3. stage' \in 1 .. 15 /\ HasRows(stage') => \A k \in 1 .. Len(RowsOf(stage')) : ~(k <= saved')
    BY <1>3
  <2> QED  BY <2>1, <2>2, <2>3 DEF ItemsWhole, HasRows, RowsOf
<1>8. OrdersWhole => OrdersWhole'
  BY <1>1 DEF SeedIInv, StageFits, OrdersWhole
<1> QED  BY <1>4, <1>5, <1>6, <1>7, <1>8 DEF SeedIInv

LEMMA SkippingKeeps ==
  ASSUME SeedIInv, SkipItem
  PROVE  SeedIInv'
<1>1. /\ stage \in 1 .. 15 /\ HasRows(stage) /\ saved = 0
      /\ stage' = stage + 1 /\ UNCHANGED <<seeded, orders, saved, chosen, torn>>
  BY DoesAre DEF SeedIInv, StageFits, SkipItem
<1>2. saved' = 0
  BY <1>1
<1>3. ASSUME ~torn PROVE RowsOf(stage)[1] \in seeded
  <2> SUFFICES ASSUME RowsOf(stage)[1] \notin seeded PROVE FALSE
    OBVIOUS
  <2>1. RowsOf(stage)[1] = Head(Stages[stage].rows)
    BY <1>1, RowsInItem DEF RowsOf
  <2>2. PICK n \in Stages[stage].needs : n \notin seeded
    BY <2>1 DEF SkipItem, Skips
  <2>3. PICK j \in 1 .. 15 : j < stage /\ HasRows(j) /\ \E k \in 1 .. Len(RowsOf(j)) : n = RowsOf(j)[k]
    BY <1>1, NeedsComeFirst
  <2>4. \A k \in 1 .. Len(RowsOf(j)) : RowsOf(j)[k] \in seeded
    BY <1>3, <2>3 DEF SeedIInv, ItemsWhole
  <2> QED  BY <2>2, <2>3, <2>4
<1>4. ASSUME ~torn PROVE \A k \in 1 .. Len(RowsOf(stage)) : RowsOf(stage)[k] \in seeded
  BY <1>1, <1>3, <1>4 DEF SeedIInv, ItemsWhole
<1>5. seeded' = seeded \cup {} /\ UNCHANGED <<orders, chosen, torn>> /\ stage' = stage + 1
  BY <1>1
<1>6. ~torn => \A k \in 1 .. Len(RowsOf(stage)) : RowsOf(stage)[k] \in seeded'
  BY <1>1, <1>4
<1> QED  BY <1>1, <1>2, <1>5, <1>6, ItemEnds

LEMMA SavingSeedKeeps ==
  ASSUME SeedIInv, SaveSeed
  PROVE  SeedIInv'
<1> DEFINE row == RowsOf(stage)[saved + 1]
<1>1. /\ stage \in 1 .. 15 /\ HasRows(stage) /\ saved \in Nat
      /\ saved < Len(RowsOf(stage)) /\ Len(RowsOf(stage)) \in 1 .. 3
      /\ stage \notin 7 .. 10
  <2>1. stage \in 1 .. 15 /\ HasRows(stage)
    BY DoesAre DEF SeedIInv, StageFits, SaveSeed
  <2>2. Len(RowsOf(stage)) \in 1 .. 3
    BY <2>1, RowsInItem
  <2> QED  BY <2>1, <2>2, StagesDo DEF SeedIInv, StageFits
<1>2. /\ seeded' = seeded \cup {row} /\ UNCHANGED <<orders, chosen, torn>>
      /\ IF saved + 1 < Len(RowsOf(stage)) THEN stage' = stage /\ saved' = saved + 1
                                           ELSE stage' = stage + 1 /\ saved' = 0
  BY DEF SaveSeed, NextThing, RowsOf
<1>3. \A i \in 1 .. 15 : HasRows(i) /\ i # stage => RowsOf(i)[1] # row
  <2>1. saved + 1 \in 1 .. Len(RowsOf(stage))
    BY <1>1
  <2> QED  BY <1>1, <2>1, RowsDiffer
<1>4. ASSUME ~torn PROVE \A k \in 1 .. Len(RowsOf(stage)) : k <= saved + 1 => RowsOf(stage)[k] \in seeded'
  <2> SUFFICES ASSUME NEW k \in 1 .. Len(RowsOf(stage)), k <= saved + 1
               PROVE  RowsOf(stage)[k] \in seeded'
    OBVIOUS
  <2>1. CASE k = saved + 1
    BY <1>2, <2>1
  <2>2. CASE k # saved + 1
    <3>1. k <= saved
      BY <1>1, <2>2
    <3> QED  BY <1>1, <1>2, <1>4, <3>1 DEF SeedIInv, ItemsWhole
  <2> QED  BY <2>1, <2>2
<1>5. CASE saved + 1 < Len(RowsOf(stage))
  <2>1. stage' = stage /\ saved' = saved + 1
    BY <1>2, <1>5
  <2>2. StageFits'
    <3>1. chosen' = 0 /\ stage \notin {0, 7, 8, 9, 10, 16}
      BY <1>1, <1>2 DEF SeedIInv, StageFits
    <3> QED  BY <1>1, <1>5, <2>1, <3>1 DEF StageFits, HasRows, RowsOf
  <2>3. RoomIsLeft'
    BY <1>1, <1>2, <2>1 DEF SeedIInv, RoomIsLeft
  <2>4. OrdersFit'
    BY <1>1, <1>2, <2>1 DEF SeedIInv, OrdersFit
  <2>5. ASSUME ~torn PROVE ItemsWhole'
    <3>1. \A i \in 1 .. 15 : HasRows(i) /\ i # stage /\ RowsOf(i)[1] \in seeded' =>
            \A k \in 1 .. Len(RowsOf(i)) : RowsOf(i)[k] \in seeded'
      BY <1>2, <1>3, <2>5 DEF SeedIInv, ItemsWhole
    <3>2. \A i \in 1 .. 15 : HasRows(i) /\ i < stage =>
            \A k \in 1 .. Len(RowsOf(i)) : RowsOf(i)[k] \in seeded'
      BY <1>2, <2>5 DEF SeedIInv, ItemsWhole
    <3>3. \A k \in 1 .. Len(RowsOf(stage)) : k <= saved + 1 => RowsOf(stage)[k] \in seeded'
      BY <1>4, <2>5
    <3>4. saved' # 0
      BY <1>1, <2>1
    <3> HIDE DEF row
    <3> QED  BY <2>1, <3>1, <3>2, <3>3, <3>4 DEF ItemsWhole, HasRows, RowsOf
  <2>6. OrdersWhole => OrdersWhole'
    BY <1>1, <1>2, <2>1 DEF SeedIInv, StageFits, OrdersWhole
  <2> QED  BY <1>2, <2>2, <2>3, <2>4, <2>5, <2>6 DEF SeedIInv
<1>6. CASE ~(saved + 1 < Len(RowsOf(stage)))
  <2>1. stage' = stage + 1 /\ saved' = 0 /\ saved + 1 = Len(RowsOf(stage))
    BY <1>1, <1>2, <1>6
  <2>2. ~torn => \A k \in 1 .. Len(RowsOf(stage)) : RowsOf(stage)[k] \in seeded'
    BY <1>1, <1>4, <2>1
  <2>3. \A i \in 1 .. 15 : HasRows(i) /\ i # stage => RowsOf(i)[1] \notin {row}
    BY <1>3
  <2> HIDE DEF row
  <2> QED  BY <1>1, <1>2, <2>1, <2>2, <2>3, ItemEnds
<1> QED  BY <1>5, <1>6

LEMMA SkippingOrdersKeeps ==
  ASSUME SeedIInv, SkipOrders
  PROVE  SeedIInv'
<1>1. stage = 7 /\ stage' = 8 /\ UNCHANGED <<seeded, orders, saved, chosen, torn>>
  BY DoesAre DEF SeedIInv, StageFits, SkipOrders
<1>2. saved = 0 /\ saved' = 0
  BY <1>1 DEF SeedIInv, StageFits, OrdersFit, SkipOrders
<1>3. ~HasRows(stage')
  BY <1>1, StagesDo
<1>4. StageFits'
  BY <1>1, <1>2, <1>3 DEF SeedIInv, StageFits, HasRows, RowsOf
<1>5. RoomIsLeft'
  BY <1>1 DEF SeedIInv, RoomIsLeft
<1>6. OrdersFit'
  BY <1>1 DEF SeedIInv, OrdersFit
<1>7. ItemsWhole => ItemsWhole'
  <2>1. StageFits /\ stage \in 7 .. 10 /\ seeded' = seeded /\ stage' = stage + 1
    BY <1>1 DEF SeedIInv
  <2> QED  BY <1>2, <2>1, ItemsPass
<1>8. OrdersWhole => OrdersWhole'
  BY <1>1, <1>2 DEF OrdersWhole
<1> QED  BY <1>1, <1>4, <1>5, <1>6, <1>7, <1>8 DEF SeedIInv

LEMMA SavingOrderKeeps ==
  ASSUME SeedIInv, SaveOrder
  PROVE  SeedIInv'
<1>1. /\ stage = 7 /\ SeedOrders.needs \subseteq seeded /\ UNCHANGED <<seeded, chosen, torn>>
      /\ saved \in 0 .. 5 /\ chosen = 0 /\ StageFits
  BY DoesAre DEF SeedIInv, StageFits, SaveOrder
<1>2. IF saved + 1 < 6 THEN stage' = 7 /\ saved' = saved + 1
                       ELSE stage' = 8 /\ saved' = 0
  BY <1>1 DEF SaveOrder, NextThing, SeedOrders
<1>3. PICK n : n = Len(orders)
  OBVIOUS
<1>4. orders \in Seq(SeededOrder) /\ n \in Nat /\ Len(orders) = n
  BY <1>3 DEF SeedIInv, OrdersFit
<1>5. ~HasRows(stage') /\ ~HasRows(stage)
  BY <1>1, <1>2, StagesDo
<1>6. StageFits'
  BY <1>1, <1>2, <1>5 DEF StageFits, HasRows, RowsOf
<1>7. ItemsWhole => ItemsWhole'
  <2>1. StageFits /\ stage \in 7 .. 10 /\ seeded' = seeded
    BY <1>1
  <2>2. stage' = stage \/ (stage' = stage + 1 /\ saved' = 0)
    BY <1>1, <1>2
  <2> QED  BY <2>1, <2>2, ItemsPass
<1>8. CASE saved \in {0, 2, 4}
  <2>1. PICK kind : kind = SeedOrders.kinds[(saved \div 2) + 1]
    OBVIOUS
  <2>2. kind \in {"polo", "phone", "laptop"}
    <3>1. (saved \div 2) + 1 \in 1 .. 3
      BY <1>8
    <3> QED  BY <2>1, <3>1 DEF SeedOrders
  <2>3. PICK o : o = [kind |-> kind, items |-> FALSE, status |-> StatusSeeded(kind),
                      payment |-> "none", refunded |-> FALSE, requested |-> FALSE]
    OBVIOUS
  <2>4. /\ o \in SeededOrder /\ o.payment = "none" /\ ~o.refunded /\ ~o.requested
        /\ o.status # "partly_refunded"
    BY <2>2, <2>3 DEF SeededOrder, StatusSeeded
  <2>5. orders' = Append(orders, o)
    <3>1. (saved % 2) = 0
      BY <1>8
    <3> QED  BY <2>1, <2>3, <3>1 DEF SaveOrder
  <2>6. /\ orders' \in Seq(SeededOrder) /\ Len(orders') = n + 1
        /\ \A i \in 1 .. n : orders'[i] = orders[i]
        /\ orders'[n + 1] = o
    BY <1>4, <2>4, <2>5
  <2>7. stage' = 7 /\ saved' = saved + 1
    BY <1>2, <1>8
  <2>8. saved' \in {1, 3, 5} /\ (saved' % 2) = 1
    BY <1>8, <2>7
  <2>9. RoomIsLeft'
    <3>1. n + ((6 - saved) \div 2) <= MaxOrders
      BY <1>1, <1>4 DEF SeedIInv, RoomIsLeft
    <3>2. ((6 - saved) \div 2) = ((6 - saved') \div 2) + 1 /\ ((6 - saved') \div 2) \in Nat
      BY <1>8, <2>7
    <3> QED  BY <1>4, <2>6, <2>7, <3>1, <3>2, SeedAssumption DEF RoomIsLeft
  <2>10. OrdersFit'
    <3>1. \A i \in 1 .. Len(orders') : orders'[i].requested => orders'[i].payment # "none"
      <4> SUFFICES ASSUME NEW i \in 1 .. Len(orders')
                   PROVE  orders'[i].requested => orders'[i].payment # "none"
        OBVIOUS
      <4>1. CASE i = n + 1
        BY <2>4, <2>6, <4>1
      <4>2. CASE i # n + 1
        <5>1. i \in 1 .. Len(orders) /\ orders'[i] = orders[i]
          BY <1>4, <2>6, <4>2
        <5> QED  BY <5>1 DEF SeedIInv, OrdersFit
      <4> QED  BY <4>1, <4>2
    <3> QED  BY <1>1, <1>4, <2>6, <2>7, <3>1 DEF OrdersFit
  <2>11. OrdersWhole => OrdersWhole'
    <3> SUFFICES ASSUME OrdersWhole PROVE OrdersWhole'
      OBVIOUS
    <3>1. \A i \in 1 .. n : orders[i].items
      <4>1. ~((saved % 2) = 1)
        BY <1>8
      <4> QED  BY <1>4, <4>1 DEF OrdersWhole
    <3>2. \A i \in 1 .. n : /\ orders[i].refunded <=> orders[i].payment = "partly_refunded"
                            /\ orders[i].refunded <=> orders[i].status = "partly_refunded"
      BY <1>1, <1>4 DEF OrdersWhole
    <3>3. \A i \in 1 .. Len(orders') : i = n + 1 \/ i \in 1 .. n
      BY <1>4, <2>6
    <3>4. \A i \in 1 .. Len(orders') : orders'[i].items \/ i = Len(orders')
      BY <2>6, <3>1, <3>3
    <3>5. \A i \in 1 .. Len(orders') :
            /\ orders'[i].refunded <=> orders'[i].payment = "partly_refunded"
            /\ orders'[i].refunded <=> orders'[i].status = "partly_refunded"
      <4>1. /\ o.refunded <=> o.payment = "partly_refunded"
            /\ o.refunded <=> o.status = "partly_refunded"
        BY <2>4
      <4> QED  BY <2>6, <3>2, <3>3, <4>1
    <3>6. chosen' = 0
      BY <1>1
    <3> QED  BY <2>7, <2>8, <3>4, <3>5, <3>6 DEF OrdersWhole
  <2> QED  BY <1>1, <1>6, <1>7, <2>9, <2>10, <2>11 DEF SeedIInv
<1>9. CASE saved \in {1, 3, 5}
  <2>1. (saved % 2) = 1
    BY <1>9
  <2>2. n \in 1 .. Len(orders)
    BY <1>1, <1>4, <2>1 DEF SeedIInv, OrdersFit
  <2>3. PICK o : o = [orders[n] EXCEPT !.items = TRUE]
    OBVIOUS
  <2>4. orders[n] \in SeededOrder
    BY <1>4, <2>2
  <2>5. /\ o \in SeededOrder /\ o.items
        /\ o.payment = orders[n].payment /\ o.status = orders[n].status
        /\ o.refunded = orders[n].refunded /\ o.requested = orders[n].requested
    BY <2>3, <2>4 DEF SeededOrder
  <2>6. orders' = [orders EXCEPT ![n] = o]
    BY <1>3, <2>1, <2>3 DEF SaveOrder
  <2>7. /\ orders' \in Seq(SeededOrder) /\ Len(orders') = Len(orders)
        /\ orders'[n] = o
        /\ \A j \in 1 .. Len(orders) : j # n => orders'[j] = orders[j]
    BY <1>4, <2>2, <2>5, <2>6, OrderChanges
  <2>8. (saved' % 2) = 0
    BY <1>2, <1>9
  <2>9. RoomIsLeft'
    <3>1. n + ((6 - saved) \div 2) <= MaxOrders /\ n <= MaxOrders
      BY <1>1, <1>4 DEF SeedIInv, RoomIsLeft
    <3>2. stage' = 7 => ((6 - saved) \div 2) = ((6 - saved') \div 2)
      BY <1>2, <1>9
    <3> QED  BY <1>2, <1>4, <2>7, <3>1, <3>2, SeedAssumption DEF RoomIsLeft
  <2>10. OrdersFit'
    <3>1. \A i \in 1 .. Len(orders') : orders'[i].requested => orders'[i].payment # "none"
      BY <2>2, <2>5, <2>7 DEF SeedIInv, OrdersFit
    <3> QED  BY <1>1, <2>7, <2>8, <3>1 DEF OrdersFit
  <2>11. OrdersWhole => OrdersWhole'
    <3> SUFFICES ASSUME OrdersWhole PROVE OrdersWhole'
      OBVIOUS
    <3>1. \A i \in 1 .. Len(orders') : orders'[i].items
      BY <1>4, <2>5, <2>7 DEF OrdersWhole
    <3>2. \A i \in 1 .. Len(orders') :
            /\ orders'[i].refunded <=> orders'[i].payment = "partly_refunded"
            /\ orders'[i].refunded <=> orders'[i].status = "partly_refunded"
      <4>1. \A i \in 1 .. Len(orders) :
              /\ orders[i].refunded <=> orders[i].payment = "partly_refunded"
              /\ orders[i].refunded <=> orders[i].status = "partly_refunded"
        BY <1>1 DEF OrdersWhole
      <4> QED  BY <2>2, <2>5, <2>7, <4>1
    <3>3. chosen' = 0
      BY <1>1
    <3> QED  BY <3>1, <3>2, <3>3 DEF OrdersWhole
  <2> QED  BY <1>1, <1>6, <1>7, <2>9, <2>10, <2>11 DEF SeedIInv
<1> QED  BY <1>1, <1>8, <1>9

\* What a payment and a request leave of an order.
KeepsOrder(o, p) ==
  /\ p \in SeededOrder
  /\ p.items = o.items /\ p.refunded = o.refunded /\ p.status = o.status
  /\ p.payment = "partly_refunded" <=> o.payment = "partly_refunded"
  /\ p.requested => p.payment # "none"

LEMMA OrderKept ==
  ASSUME SeedIInv, stage \in {8, 10}, UNCHANGED <<seeded, chosen, torn>>, StageFits',
         stage' = stage \/ (stage' = stage + 1 /\ saved' = 0),
         \/ orders' = orders
         \/ \E i \in 1 .. Len(orders) : \E p : KeepsOrder(orders[i], p) /\ orders' = [orders EXCEPT ![i] = p]
  PROVE  SeedIInv'
<1>1. chosen = 0 /\ chosen' = 0 /\ StageFits /\ stage' \notin 1 .. 7
  BY DEF SeedIInv, StageFits
<1>2. ItemsWhole => ItemsWhole'
  BY <1>1, ItemsPass
<1>3. orders \in Seq(SeededOrder)
  BY DEF SeedIInv, OrdersFit
<1>4. /\ orders' \in Seq(SeededOrder) /\ Len(orders') = Len(orders)
      /\ \A i \in 1 .. Len(orders') :
           /\ orders'[i].items = orders[i].items /\ orders'[i].refunded = orders[i].refunded
           /\ orders'[i].status = orders[i].status
           /\ orders'[i].payment = "partly_refunded" <=> orders[i].payment = "partly_refunded"
           /\ orders'[i].requested => orders'[i].payment # "none"
  <2>1. CASE orders' = orders
    BY <1>3, <2>1 DEF SeedIInv, OrdersFit
  <2>2. CASE \E i \in 1 .. Len(orders) : \E p : KeepsOrder(orders[i], p) /\ orders' = [orders EXCEPT ![i] = p]
    <3>1. PICK i \in 1 .. Len(orders) : \E p : KeepsOrder(orders[i], p) /\ orders' = [orders EXCEPT ![i] = p]
      BY <2>2
    <3>2. PICK p : KeepsOrder(orders[i], p) /\ orders' = [orders EXCEPT ![i] = p]
      BY <3>1
    <3>3. p \in SeededOrder
      BY <3>2 DEF KeepsOrder
    <3>4. /\ orders' \in Seq(SeededOrder) /\ Len(orders') = Len(orders)
          /\ orders'[i] = p
          /\ \A j \in 1 .. Len(orders) : j # i => orders'[j] = orders[j]
      BY <1>3, <3>2, <3>3, OrderChanges
    <3> QED  BY <3>2, <3>4 DEF SeedIInv, OrdersFit, KeepsOrder
  <2> QED  BY <2>1, <2>2
<1>5. RoomIsLeft'
  BY <1>1, <1>4 DEF SeedIInv, RoomIsLeft
<1>6. OrdersFit'
  BY <1>1, <1>4 DEF OrdersFit
<1>7. OrdersWhole => OrdersWhole'
  BY <1>1, <1>4 DEF OrdersWhole
<1> QED  BY <1>1, <1>2, <1>5, <1>6, <1>7 DEF SeedIInv

LEMMA SavingPaymentKeeps ==
  ASSUME SeedIInv, SavePayment
  PROVE  SeedIInv'
<1>1. stage = 8 /\ saved \in {0, 1} /\ UNCHANGED <<seeded, chosen, torn>> /\ chosen = 0
  BY DoesAre DEF SeedIInv, StageFits, SavePayment
<1>2. \/ stage' = 8 /\ saved' = 1
      \/ stage' = 9 /\ saved' = 0
  BY <1>1 DEF SavePayment, NextThing, SeedPayments
<1>3. StageFits'
  <2>1. ~HasRows(stage')
    BY <1>2, StagesDo
  <2> QED  BY <1>1, <1>2, <2>1 DEF StageFits, HasRows, RowsOf
<1>4. orders \in Seq(SeededOrder) /\ DOMAIN orders = 1 .. Len(orders)
  BY DEF SeedIInv, OrdersFit
<1>5. \/ orders' = orders
      \/ \E i \in 1 .. Len(orders) : \E p : KeepsOrder(orders[i], p) /\ orders' = [orders EXCEPT ![i] = p]
  <2> SUFFICES ASSUME orders' # orders
               PROVE  \E i \in 1 .. Len(orders) : \E p : KeepsOrder(orders[i], p) /\ orders' = [orders EXCEPT ![i] = p]
    OBVIOUS
  <2>1. PICK i \in 1 .. Len(orders) :
          orders[i].payment = "none" /\ orders' = [orders EXCEPT ![i].payment = "completed"]
    BY <1>4 DEF SavePayment, InStatus
  <2>2. PICK p : p = [orders[i] EXCEPT !.payment = "completed"]
    OBVIOUS
  <2>3. orders[i] \in SeededOrder
    BY <1>4
  <2>4. KeepsOrder(orders[i], p)
    BY <2>1, <2>2, <2>3 DEF KeepsOrder, SeededOrder
  <2>5. orders' = [orders EXCEPT ![i] = p]
    BY <2>1, <2>2
  <2> QED  BY <2>4, <2>5
<1>6. stage \in {8, 10} /\ (stage' = stage \/ (stage' = stage + 1 /\ saved' = 0))
  BY <1>1, <1>2
<1> QED  BY <1>1, <1>3, <1>5, <1>6, OrderKept

LEMMA SavingRequestKeeps ==
  ASSUME SeedIInv, SaveRefundRequest
  PROVE  SeedIInv'
<1>1. stage = 10 /\ saved = 0 /\ UNCHANGED <<seeded, chosen, torn>> /\ chosen = 0
  BY DoesAre DEF SeedIInv, StageFits, SaveRefundRequest
<1>2. stage' = 11 /\ saved' = 0
  BY <1>1 DEF SaveRefundRequest, NextThing
<1>3. StageFits'
  <2>1. HasRows(11) /\ Len(RowsOf(11)) \in 1 .. 3
    BY StagesDo, RowsInItem
  <2>2. HasRows(stage') /\ Len(RowsOf(stage')) > 0
    BY <1>2, <2>1
  <2> QED  BY <1>1, <1>2, <2>2 DEF StageFits, HasRows, RowsOf
<1>4. orders \in Seq(SeededOrder) /\ DOMAIN orders = 1 .. Len(orders)
  BY DEF SeedIInv, OrdersFit
<1>5. \/ orders' = orders
      \/ \E i \in 1 .. Len(orders) : \E p : KeepsOrder(orders[i], p) /\ orders' = [orders EXCEPT ![i] = p]
  <2> SUFFICES ASSUME orders' # orders
               PROVE  \E i \in 1 .. Len(orders) : \E p : KeepsOrder(orders[i], p) /\ orders' = [orders EXCEPT ![i] = p]
    OBVIOUS
  <2>1. PICK i \in 1 .. Len(orders) :
          orders[i].payment = "completed" /\ orders' = [orders EXCEPT ![i].requested = TRUE]
    BY <1>4 DEF SaveRefundRequest, InStatus, RefundableSeed
  <2>2. PICK p : p = [orders[i] EXCEPT !.requested = TRUE]
    OBVIOUS
  <2>3. orders[i] \in SeededOrder
    BY <1>4
  <2>4. KeepsOrder(orders[i], p)
    BY <2>1, <2>2, <2>3 DEF KeepsOrder, SeededOrder
  <2>5. orders' = [orders EXCEPT ![i] = p]
    BY <2>1, <2>2
  <2> QED  BY <2>4, <2>5
<1>6. stage \in {8, 10} /\ (stage' = stage \/ (stage' = stage + 1 /\ saved' = 0))
  BY <1>1, <1>2
<1> QED  BY <1>1, <1>3, <1>5, <1>6, OrderKept

\* A step of a refund changes the order that is being refunded.
LEMMA RefundStep ==
  ASSUME SeedIInv, stage = 9, UNCHANGED <<seeded, torn>>, StageFits',
         stage' = 9 \/ (stage' = 10 /\ saved' = 0),
         NEW i \in 1 .. Len(orders), NEW p \in SeededOrder, orders' = [orders EXCEPT ![i] = p],
         chosen \in {0, i}, chosen' \in {0, i},
         p.items = orders[i].items, p.requested => p.payment # "none",
         OrdersWhole => p.refunded,
         chosen' # 0 => (saved' = 2 => p.payment = "partly_refunded"),
         chosen' = 0 /\ OrdersWhole => p.payment = "partly_refunded" /\ p.status = "partly_refunded"
  PROVE  SeedIInv'
<1>1. StageFits /\ stage' \notin 1 .. 7
  BY DEF SeedIInv
<1>2. ItemsWhole => ItemsWhole'
  <2>1. stage' = stage \/ (stage' = stage + 1 /\ saved' = 0)
    OBVIOUS
  <2> QED  BY <1>1, <2>1, ItemsPass
<1>3. orders \in Seq(SeededOrder)
  BY DEF SeedIInv, OrdersFit
<1>4. /\ orders' \in Seq(SeededOrder) /\ Len(orders') = Len(orders)
      /\ orders'[i] = p
      /\ \A j \in 1 .. Len(orders) : j # i => orders'[j] = orders[j]
  BY <1>3, OrderChanges
<1>5. RoomIsLeft'
  BY <1>1, <1>4 DEF SeedIInv, RoomIsLeft
<1>6. OrdersFit'
  <2>1. \A j \in 1 .. Len(orders') : orders'[j].requested => orders'[j].payment # "none"
    BY <1>4 DEF SeedIInv, OrdersFit
  <2> QED  BY <1>1, <1>4, <2>1 DEF OrdersFit
<1>7. ASSUME OrdersWhole PROVE OrdersWhole'
  <2>1. \A j \in 1 .. Len(orders') : orders'[j].items
    BY <1>4, <1>7 DEF OrdersWhole
  <2>2. \A j \in 1 .. Len(orders') : j # chosen' =>
          /\ orders'[j].refunded <=> orders'[j].payment = "partly_refunded"
          /\ orders'[j].refunded <=> orders'[j].status = "partly_refunded"
    <3> SUFFICES ASSUME NEW j \in 1 .. Len(orders'), j # chosen'
                 PROVE  /\ orders'[j].refunded <=> orders'[j].payment = "partly_refunded"
                        /\ orders'[j].refunded <=> orders'[j].status = "partly_refunded"
      OBVIOUS
    <3>1. CASE j = i
      <4>1. chosen' = 0
        BY <3>1
      <4> QED  BY <1>4, <1>7, <3>1, <4>1
    <3>2. CASE j # i
      <4>1. j # chosen /\ orders'[j] = orders[j] /\ j \in 1 .. Len(orders)
        BY <1>4, <3>2
      <4> QED  BY <1>7, <4>1 DEF OrdersWhole
    <3> QED  BY <3>1, <3>2
  <2>3. chosen' # 0 => orders'[chosen'].refunded /\ (saved' = 2 => orders'[chosen'].payment = "partly_refunded")
    BY <1>4, <1>7
  <2> QED  BY <2>1, <2>2, <2>3 DEF OrdersWhole
<1> QED  BY <1>1, <1>2, <1>5, <1>6, <1>7 DEF SeedIInv

LEMMA SavingRefundKeeps ==
  ASSUME SeedIInv, SaveRefund
  PROVE  SeedIInv'
<1>1. /\ stage = 9 /\ saved \in 0 .. 2 /\ UNCHANGED <<seeded, torn>> /\ StageFits
      /\ IF saved > 0 THEN chosen \in 1 .. Len(orders) ELSE chosen = 0
  BY DoesAre DEF SeedIInv, StageFits, SaveRefund
<1>2. orders \in Seq(SeededOrder) /\ DOMAIN orders = 1 .. Len(orders)
  BY DEF SeedIInv, OrdersFit
<1>3. ~HasRows(9) /\ ~HasRows(10)
  BY StagesDo
<1>4. ASSUME stage' = 9 \/ (stage' = 10 /\ saved' = 0), saved' \in 0 .. 2,
             IF saved' > 0 THEN chosen' \in 1 .. Len(orders') ELSE chosen' = 0
      PROVE  StageFits'
  BY <1>3, <1>4 DEF StageFits, HasRows, RowsOf
<1>5. ASSUME saved = 0,
             NEW i \in 1 .. Len(orders), RefundableSeed(i, "polo"),
             orders' = [orders EXCEPT ![i].refunded = TRUE], chosen' = i, NextThing(3)
      PROVE  SeedIInv'
  <2>1. PICK p : p = [orders[i] EXCEPT !.refunded = TRUE]
    OBVIOUS
  <2>2. orders[i] \in SeededOrder
    BY <1>2
  <2>3. /\ p \in SeededOrder /\ p.items = orders[i].items /\ p.payment = orders[i].payment
        /\ p.requested = orders[i].requested /\ p.refunded
    BY <2>1, <2>2 DEF SeededOrder
  <2>4. orders' = [orders EXCEPT ![i] = p]
    BY <1>5, <2>1
  <2>5. p.requested => p.payment # "none"
    BY <2>3 DEF SeedIInv, OrdersFit
  <2>6. stage' = 9 /\ saved' = 1
    BY <1>1, <1>5 DEF NextThing
  <2>7. Len(orders') = Len(orders)
    BY <1>2, <2>3, <2>4, OrderChanges
  <2>8. StageFits'
    BY <1>4, <1>5, <2>6, <2>7
  <2>9. chosen \in {0, i} /\ chosen' \in {0, i} /\ chosen' # 0 /\ saved' # 2
    BY <1>1, <1>5, <2>6
  <2> QED  BY <1>1, <2>3, <2>4, <2>5, <2>6, <2>8, <2>9, RefundStep
<1>6. ASSUME saved = 0, stage' = stage + 1, UNCHANGED <<orders, saved, chosen>>
      PROVE  SeedIInv'
  <2>1. stage' = 10 /\ saved' = 0 /\ chosen' = 0 /\ chosen = 0
    BY <1>1, <1>6
  <2>2. StageFits'
    BY <1>4, <2>1
  <2>3. ItemsWhole => ItemsWhole'
    BY <1>1, <1>6, <2>1, ItemsPass
  <2>4. RoomIsLeft' /\ OrdersFit' /\ (OrdersWhole => OrdersWhole')
    BY <1>1, <1>6, <2>1 DEF SeedIInv, RoomIsLeft, OrdersFit, OrdersWhole
  <2> QED  BY <1>1, <2>2, <2>3, <2>4 DEF SeedIInv
<1>7. ASSUME saved = 1, orders' = [orders EXCEPT ![chosen].payment = "partly_refunded"],
             UNCHANGED chosen, NextThing(3)
      PROVE  SeedIInv'
  <2>1. PICK i \in 1 .. Len(orders) : i = chosen
    BY <1>1, <1>7
  <2>2. PICK p : p = [orders[i] EXCEPT !.payment = "partly_refunded"]
    OBVIOUS
  <2>3. orders[i] \in SeededOrder
    BY <1>2
  <2>4. /\ p \in SeededOrder /\ p.items = orders[i].items /\ p.payment = "partly_refunded"
        /\ p.refunded = orders[i].refunded
    BY <2>2, <2>3 DEF SeededOrder
  <2>5. orders' = [orders EXCEPT ![i] = p]
    BY <1>7, <2>1, <2>2
  <2>6. stage' = 9 /\ saved' = 2
    BY <1>1, <1>7 DEF NextThing
  <2>7. Len(orders') = Len(orders)
    BY <1>2, <2>4, <2>5, OrderChanges
  <2>8. StageFits'
    BY <1>4, <1>7, <2>1, <2>6, <2>7
  <2>9. chosen \in {0, i} /\ chosen' \in {0, i} /\ chosen' # 0
    BY <1>1, <1>7, <2>1
  <2>10. OrdersWhole => p.refunded
    BY <2>1, <2>4, <2>9 DEF SeedIInv, OrdersWhole
  <2> QED  BY <1>1, <2>4, <2>5, <2>6, <2>8, <2>9, <2>10, RefundStep
<1>8. ASSUME saved = 2, orders' = [orders EXCEPT ![chosen].status = "partly_refunded"],
             chosen' = 0, NextThing(3)
      PROVE  SeedIInv'
  <2>1. PICK i \in 1 .. Len(orders) : i = chosen
    BY <1>1, <1>8
  <2>2. PICK p : p = [orders[i] EXCEPT !.status = "partly_refunded"]
    OBVIOUS
  <2>3. orders[i] \in SeededOrder
    BY <1>2
  <2>4. /\ p \in SeededOrder /\ p.items = orders[i].items /\ p.status = "partly_refunded"
        /\ p.refunded = orders[i].refunded /\ p.payment = orders[i].payment
        /\ p.requested = orders[i].requested
    BY <2>2, <2>3 DEF SeededOrder
  <2>5. orders' = [orders EXCEPT ![i] = p]
    BY <1>8, <2>1, <2>2
  <2>6. stage' = 10 /\ saved' = 0
    BY <1>1, <1>8 DEF NextThing
  <2>7. StageFits'
    BY <1>4, <1>8, <2>6
  <2>8. p.requested => p.payment # "none"
    BY <2>4 DEF SeedIInv, OrdersFit
  <2>9. OrdersWhole => p.refunded /\ p.payment = "partly_refunded"
    BY <1>8, <2>1, <2>4 DEF SeedIInv, OrdersWhole
  <2>10. chosen \in {0, i} /\ chosen' \in {0, i}
    BY <1>8, <2>1
  <2> QED  BY <1>1, <1>8, <2>4, <2>5, <2>6, <2>7, <2>8, <2>9, <2>10, RefundStep
<1> QED  BY <1>2, <1>5, <1>6, <1>7, <1>8 DEF SaveRefund, InStatus

LEMMA DyingKeeps ==
  ASSUME SeedIInv, SeedingDies
  PROVE  SeedIInv'
<1>1. /\ stage \in 1 .. 15 /\ stage' = 0 /\ saved' = 0 /\ chosen' = 0 /\ UNCHANGED <<seeded, orders>>
      /\ torn' = (\/ torn
                  \/ saved > 0 /\ Does \in {"rows", "refund"}
                  \/ (saved % 2) = 1 /\ Does = "orders")
  BY StagesAre DEF SeedingDies
<1>2. StageFits /\ torn \in BOOLEAN /\ torn' \in BOOLEAN
  BY <1>1 DEF SeedIInv
<1>3. StageFits' /\ RoomIsLeft' /\ OrdersFit'
  BY <1>1 DEF SeedIInv, StageFits, RoomIsLeft, OrdersFit
<1>4. ASSUME ~torn'
      PROVE  /\ ~torn
             /\ HasRows(stage) => saved = 0
             /\ stage = 9 => saved = 0
             /\ stage = 7 => ~((saved % 2) = 1)
  <2>1. ~torn
    BY <1>1, <1>4
  <2>2. HasRows(stage) \/ stage = 9 => ~(saved > 0)
    BY <1>1, <1>2, <1>4, DoesAre
  <2>3. stage = 7 => ~((saved % 2) = 1)
    BY <1>1, <1>2, <1>4, DoesAre
  <2> QED  BY <1>2, <2>1, <2>2, <2>3 DEF StageFits
<1>5. ASSUME ~torn' PROVE ItemsWhole'
  <2>1. \A i \in 1 .. 15 : HasRows(i) /\ RowsOf(i)[1] \in seeded =>
          \A k \in 1 .. Len(RowsOf(i)) : RowsOf(i)[k] \in seeded
    BY <1>1, <1>4, <1>5 DEF SeedIInv, ItemsWhole
  <2>2. seeded' = seeded /\ stage' = 0 /\ saved' = 0
    BY <1>1
  <2>3. \A i \in 1 .. 15 : ~(i < stage')
    BY <2>2
  <2>4. stage' \notin 1 .. 15
    BY <2>2
  <2> QED  BY <2>1, <2>2, <2>3, <2>4 DEF ItemsWhole, HasRows, RowsOf
<1>6. ASSUME ~torn' PROVE OrdersWhole'
  <2>1. chosen = 0
    BY <1>2, <1>4, <1>6 DEF StageFits
  <2>2. OrdersWhole
    BY <1>4, <1>6 DEF SeedIInv
  <2>3. \A i \in 1 .. Len(orders) : orders[i].items
    BY <1>4, <1>6, <2>2 DEF OrdersWhole
  <2> QED  BY <1>1, <2>1, <2>2, <2>3 DEF OrdersWhole
<1> QED  BY <1>2, <1>3, <1>5, <1>6 DEF SeedIInv

LEMMA SeedSteps == SeedIInv /\ [SeedNext]_seedVars => SeedIInv'
<1> SUFFICES ASSUME SeedIInv, [SeedNext]_seedVars PROVE SeedIInv'
  OBVIOUS
<1>1. CASE UNCHANGED seedVars
  BY <1>1 DEF seedVars, SeedIInv, StageFits, RoomIsLeft, OrdersFit, ItemsWhole, OrdersWhole, HasRows, RowsOf
<1>2. CASE SeedNext
  BY <1>2, StartingKeeps, SkippingKeeps, SavingSeedKeeps, SkippingOrdersKeeps, SavingOrderKeeps,
     SavingPaymentKeeps, SavingRefundKeeps, SavingRequestKeeps, DyingKeeps DEF SeedNext
<1> QED  BY <1>1, <1>2

LEMMA SeedInductive == SeedSpec => []SeedIInv
BY SeedStart, SeedSteps, PTL DEF SeedSpec

\* SeedsAgree holds of every run of the script: whatever runs died before, unless one
\* died between rows that belong together, a run that ends leaves every row and no
\* order without its items, and a refund has its payment and its order.
THEOREM SeedsAlwaysAgree == SeedSpec => []SeedsAgree
<1>1. SeedIInv => SeedsAgree
  <2> SUFFICES ASSUME SeedIInv, ~torn PROVE SeedsAgree
    BY DEF SeedsAgree
  <2>1. ItemsWhole /\ OrdersWhole /\ StageFits /\ Seeded = 16 /\ DOMAIN orders = 1 .. Len(orders)
    BY StagesAre DEF SeedIInv, OrdersFit
  <2>2. ASSUME stage = 16 PROVE AllRows \subseteq seeded
    <3> SUFFICES ASSUME NEW x \in AllRows PROVE x \in seeded
      OBVIOUS
    <3>1. PICK i \in 1 .. 15 : HasRows(i) /\ \E k \in 1 .. Len(RowsOf(i)) : x = RowsOf(i)[k]
      BY AllRowsAre
    <3>2. i < stage
      BY <2>2
    <3> QED  BY <2>1, <3>1, <3>2 DEF ItemsWhole
  <2>3. stage = 16 => \A i \in DOMAIN orders : orders[i].items
    BY <2>1 DEF OrdersWhole
  <2>4. \A i \in DOMAIN orders \ {chosen} :
          /\ orders[i].refunded <=> orders[i].payment = "partly_refunded"
          /\ orders[i].refunded <=> orders[i].status = "partly_refunded"
    BY <2>1 DEF OrdersWhole
  <2> QED  BY <2>1, <2>2, <2>3, <2>4 DEF SeedsAgree
<1> QED  BY <1>1, SeedInductive, PTL

\* The type invariant of the seed script's state: the orders keep the statuses that
\* the seeds give them, and a refund is requested only for an order that was paid
\* (refund-request.seed.ts).
THEOREM SeedTypeCorrect == SeedSpec => []SeedTypeOK
<1>1. SeedIInv => SeedTypeOK
  <2> SUFFICES ASSUME SeedIInv PROVE SeedTypeOK
    OBVIOUS
  <2>1. orders \in Seq(SeededOrder) /\ Len(orders) \in Nat /\ DOMAIN orders = 1 .. Len(orders)
    BY DEF SeedIInv, OrdersFit
  <2>2. stage \in 0 .. Seeded /\ saved \in Nat /\ chosen \in 0 .. Len(orders)
    BY <2>1, StagesAre DEF SeedIInv, StageFits
  <2>3. \A i \in DOMAIN orders :
          /\ orders[i].status \in {"delivered", "processing", "partly_refunded"}
          /\ orders[i].payment \in {"none", "completed", "partly_refunded"}
          /\ orders[i].requested => orders[i].payment # "none"
    <3> SUFFICES ASSUME NEW i \in DOMAIN orders
                 PROVE  /\ orders[i].status \in {"delivered", "processing", "partly_refunded"}
                        /\ orders[i].payment \in {"none", "completed", "partly_refunded"}
                        /\ orders[i].requested => orders[i].payment # "none"
      OBVIOUS
    <3>1. orders[i] \in SeededOrder
      BY <2>1
    <3> QED  BY <2>1, <3>1 DEF SeededOrder, SeedIInv, OrdersFit
  <2> QED  BY <2>2, <2>3 DEF SeedTypeOK, SeedIInv, RoomIsLeft
<1> QED  BY <1>1, SeedInductive, PTL

-----------------------------------------------------------------------------
(***************************************************************************)
(* MCRivals.                                                               *)
(*                                                                         *)
(* A behaviour of the whole is one of every part but for the deletions,    *)
(* whose rows exist only while they are the part that moves.               *)
(***************************************************************************)
LEMMA RivalsStart ==
  RivalsInit => Init /\ AddressInit /\ AccessInit /\ ReviewInit /\ SchemaInit /\ SeedInit
BY DEF RivalsInit

LEMMA PaymentPartSteps == [RivalsNext]_rivalVars => [Next]_vars
BY DEF RivalsNext, rivalVars

LEMMA DeskSteps ==
  [RivalsNext]_rivalVars => /\ [AddressNext]_addressVars /\ [AccessNext]_accessVars
                            /\ [ReviewNext]_reviewVars
BY DEF RivalsNext, Desk, rivalVars, deskVars

LEMMA BaseSteps == [RivalsNext]_rivalVars => [SeedNext]_seedVars
BY DEF RivalsNext, Base, rivalVars, baseVars

LEMMA RivalsAreTheirParts ==
  RivalsSpec => Spec /\ AddressSpec /\ AccessSpec /\ ReviewSpec /\ SeedSpec
BY RivalsStart, PaymentPartSteps, DeskSteps, BaseSteps, PTL
   DEF RivalsSpec, Spec, AddressSpec, AccessSpec, ReviewSpec, SeedSpec

\* The rows of every part are well formed, whatever races: one review of a product
\* for each customer, and only roles and permissions that exist are held.
THEOREM RivalsTypeCorrect == RivalsSpec => []RivalsTypeOK
<1>1. AddressIInv /\ AccessIInv /\ ReviewIInv => AddressTypeOK /\ AccessTypeOK /\ ReviewTypeOK
  BY DEF AddressIInv, AccessIInv, ReviewIInv
<1>2. /\ TypeOK /\ AddressTypeOK /\ AccessTypeOK /\ ReviewTypeOK /\ SeedTypeOK
      => RivalsTypeOK
  BY DEF RivalsTypeOK
<1> QED BY RivalsAreTheirParts, TypeCorrect, AddressesAlwaysIInv, AccessAlwaysIInv,
           ReviewsAlwaysIInv, SeedTypeCorrect, <1>1, <1>2, PTL

\* The rules of the parts hold of the whole, for any number of rows and of requests
\* that race: of an order and its payments, of addresses, reviews and assignments,
\* and of the rows that the seed script leaves.
THEOREM RivalsKeepTheirRules ==
  RivalsSpec => /\ [](/\ RestockedIffCancelled /\ SettledPaymentMovedOrder
                      /\ SecondPaymentNeedsFailure /\ OneDefaultAddress
                      /\ AssignmentsHold /\ SeedsAgree)
                /\ SettlementIsKept /\ UnvettedOnlyByMixing /\ ImplementsChargeBook
BY RivalsAreTheirParts, AlwaysRestockedIffCancelled, SettledAlwaysMovedOrder,
   SecondAlwaysNeedsFailure, AlwaysOneDefault, UnvettedNeedsMixing, AssignmentsAlwaysHold,
   SeedsAlwaysAgree, SettlementAlwaysKept, PaymentsKeepTheBook, PTL

===============================================================================
