-------------------------------- MODULE Reviews --------------------------------
(***************************************************************************)
(* What one customer writes about one product, and its moderation          *)
(* (src/src/reviews/reviews.service.ts).                                   *)
(*                                                                         *)
(* An edit and an approval each load the review and save the entity, with  *)
(* nothing that tells them the row has changed.  The save reads the row    *)
(* once more and updates the columns in which the entity differs from it;  *)
(* a review that has been removed is inserted again.  The text stands for  *)
(* rating, title and content.                                              *)
(***************************************************************************)
EXTENDS EntitySave, Functions

CONSTANTS
  ReviewIds,       \* ids that the database may give out
  Texts,
  ReviewRequests   \* requests of the customer and of administrators

VARIABLES
  issued,    \* ids given out so far
  reviews,   \* the rows: id |-> [text, approved]
  drafts,    \* the entity each request is about to save, and the row as its
             \* save has read it once more
  vetted     \* for the property: texts of each review that an administrator
             \* published, by approving what was loaded or by writing it

reviewVars == <<issued, reviews, drafts, vetted>>

Review  == [text : Texts, approved : BOOLEAN]
NoDraft == [step |-> "idle"]
Draft   == {NoDraft} \cup [step : {"insert", "save"}, id : ReviewIds, review : Review]
                     \cup [step : {"update"}, id : ReviewIds, review : Review, before : Review]
                     \cup [step : {"remove"}, id : ReviewIds]

ReviewTypeOK ==
  /\ issued \subseteq ReviewIds
  /\ DOMAIN reviews \subseteq issued
  /\ \A i \in DOMAIN reviews : reviews[i] \in Review
  /\ \A i, j \in DOMAIN reviews : i = j
  /\ drafts \in [ReviewRequests -> Draft]
  /\ \A r \in ReviewRequests : drafts[r] # NoDraft => drafts[r].id \in issued
  /\ vetted \subseteq ReviewIds \X Texts

ReviewInit ==
  /\ issued = {}
  /\ reviews = [i \in {} |-> NoDraft]
  /\ drafts = [r \in ReviewRequests |-> NoDraft]
  /\ vetted = {}

WriteReview(i, review) == reviews' = [j \in DOMAIN reviews \cup {i} |->
                                        IF j = i THEN review ELSE reviews[j]]

-----------------------------------------------------------------------------
\* create: the customer has not reviewed the product when it looks.
BeginReview(r, i, text) ==
  /\ drafts[r] = NoDraft
  /\ i \in ReviewIds \ issued
  /\ DOMAIN reviews = {}
  /\ issued' = issued \cup {i}
  /\ drafts' = [drafts EXCEPT ![r] = [step |-> "insert", id |-> i,
                                      review |-> [text |-> text, approved |-> FALSE]]]
  /\ UNCHANGED <<reviews, vetted>>

\* A wrong form: the approval survives an edit by the author.
EditKeepsApproval(r, i, text) ==
  /\ drafts[r] = NoDraft
  /\ i \in DOMAIN reviews
  /\ drafts' = [drafts EXCEPT ![r] = [step |-> "save", id |-> i,
                                      review |-> [reviews[i] EXCEPT !.text = text]]]
  /\ UNCHANGED <<issued, reviews, vetted>>

\* update by its author, who has to be approved again; the draft is the entity
\* with the changes of the request.
EditOwnReview(r, i, text) ==
  /\ drafts[r] = NoDraft
  /\ i \in DOMAIN reviews
  /\ drafts' = [drafts EXCEPT ![r] = [step |-> "save", id |-> i,
                                      review |-> [text |-> text, approved |-> FALSE]]]
  /\ UNCHANGED <<issued, reviews, vetted>>

\* update by an administrator, which leaves the approval as it was loaded.
EditAsAdmin(r, i, text) ==
  /\ drafts[r] = NoDraft
  /\ i \in DOMAIN reviews
  /\ drafts' = [drafts EXCEPT ![r] = [step |-> "save", id |-> i,
                                      review |-> [reviews[i] EXCEPT !.text = text]]]
  /\ vetted' = vetted \cup {<<i, text>>}
  /\ UNCHANGED <<issued, reviews>>

Moderate(r, i, approved) ==
  /\ drafts[r] = NoDraft
  /\ i \in DOMAIN reviews
  /\ drafts' = [drafts EXCEPT ![r] = [step |-> "save", id |-> i,
                                      review |-> [reviews[i] EXCEPT !.approved = approved]]]
  /\ vetted' = IF approved THEN vetted \cup {<<i, reviews[i].text>>} ELSE vetted
  /\ UNCHANGED <<issued, reviews>>

FindReviewToRemove(r, i) ==
  /\ drafts[r] = NoDraft
  /\ i \in DOMAIN reviews
  /\ drafts' = [drafts EXCEPT ![r] = [step |-> "remove", id |-> i]]
  /\ UNCHANGED <<issued, reviews, vetted>>

\* save: the row is read once more, without a lock.  One that has gone is
\* inserted with the id of the entity.
ReReadReview(r) ==
  LET d == drafts[r] IN
  /\ d.step = "save"
  /\ drafts' = [drafts EXCEPT ![r] =
                  IF d.id \in DOMAIN reviews
                  THEN [step |-> "update", id |-> d.id, review |-> d.review, before |-> reviews[d.id]]
                  ELSE [step |-> "insert", id |-> d.id, review |-> d.review]]
  /\ UNCHANGED <<issued, reviews, vetted>>

\* The UPDATE of the columns that differed; it finds nothing if the row has gone.
UpdateReview(r) ==
  LET d == drafts[r] IN
  /\ d.step = "update"
  /\ IF d.id \in DOMAIN reviews
     THEN WriteReview(d.id, Written(d.review, d.before, reviews[d.id]))
     ELSE UNCHANGED reviews
  /\ drafts' = [drafts EXCEPT ![r] = NoDraft]
  /\ UNCHANGED <<issued, vetted>>

\* A wrong form: without the unique constraint a second review is inserted.
InsertBesideAnother(r) ==
  LET d == drafts[r] IN
  /\ d.step = "insert"
  /\ WriteReview(d.id, d.review)
  /\ drafts' = [drafts EXCEPT ![r] = NoDraft]
  /\ UNCHANGED <<issued, vetted>>

\* One row for the customer and the product: the database refuses another.
InsertReview(r) ==
  LET d == drafts[r] IN
  /\ d.step = "insert"
  /\ DOMAIN reviews = {}
  /\ WriteReview(d.id, d.review)
  /\ drafts' = [drafts EXCEPT ![r] = NoDraft]
  /\ UNCHANGED <<issued, vetted>>

RemoveReview(r) ==
  LET d == drafts[r] IN
  /\ d.step = "remove"
  /\ reviews' = Restrict(reviews, DOMAIN reviews \ {d.id})
  /\ drafts' = [drafts EXCEPT ![r] = NoDraft]
  /\ UNCHANGED <<issued, vetted>>

\* The write is refused, or the process dies before it.
DropDraft(r) ==
  /\ drafts[r] # NoDraft
  /\ drafts' = [drafts EXCEPT ![r] = NoDraft]
  /\ UNCHANGED <<issued, reviews, vetted>>

ReviewNext == \E r \in ReviewRequests :
  \/ \E i \in ReviewIds, text \in Texts :
       BeginReview(r, i, text) \/ EditOwnReview(r, i, text) \/ EditAsAdmin(r, i, text)
  \/ \E i \in ReviewIds : FindReviewToRemove(r, i) \/ \E ok \in BOOLEAN : Moderate(r, i, ok)
  \/ ReReadReview(r) \/ UpdateReview(r) \/ InsertReview(r) \/ RemoveReview(r) \/ DropDraft(r)

ReviewSpec == ReviewInit /\ [][ReviewNext]_reviewVars

-----------------------------------------------------------------------------
\* docs/features/reviews.md:19: "A non-admin user editing their own review causes
\* isApproved to reset to false (must be re-reviewed by an admin)": the text that
\* the storefront shows is one that an administrator approved as loaded, or wrote.
\* False of the code when two saves mix; UnvettedOnlyByMixing says that nothing
\* else breaks it.
PublishedWasVetted ==
  \A i \in DOMAIN reviews : reviews[i].approved => <<i, reviews[i].text>> \in vetted

\* The entities that wait to be written are as they should be: whatever rows and
\* requests have raced, none is approved with a text that nobody has vetted.
DraftsAreVetted ==
  \A r \in ReviewRequests :
    drafts[r].step \in {"insert", "save", "update"} /\ drafts[r].review.approved =>
      <<drafts[r].id, drafts[r].review.text>> \in vetted

\* The UPDATE of a save leaves a row that is not the entity saved, since another
\* save has changed, after the re-read, a column that this one does not write.
MixesSaves(r) ==
  /\ drafts[r].step = "update" /\ drafts'[r] = NoDraft
  /\ drafts[r].id \in DOMAIN reviews'
  /\ reviews'[drafts[r].id] # drafts[r].review

\* A text that nobody has vetted comes to the storefront in one way only: the
\* UPDATE of an approval and that of an edit have mixed.  Neither a stale entity
\* nor a review that is inserted again brings it there.
UnvettedOnlyByMixing ==
  [][ PublishedWasVetted => PublishedWasVetted' \/ \E r \in ReviewRequests : MixesSaves(r) ]_reviewVars

===============================================================================
