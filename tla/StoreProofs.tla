----------------------------- MODULE StoreProofs ------------------------------
(***************************************************************************)
(* Accounts and their tokens, the cart of a customer, products with their  *)
(* images, and the pictures of other rows: what holds of them for any      *)
(* number of requests that interleave; and what therefore holds of the     *)
(* whole of MCShop.                                                        *)
(***************************************************************************)
EXTENDS MCShop, Catalog, Pictures, SalesProofs

-----------------------------------------------------------------------------
(***************************************************************************)
(* Accounts and tokens.                                                    *)
(*                                                                         *)
(* The rows are well formed, a token that was redeemed has gone from the   *)
(* row, and an account stays active with its password, except where an     *)
(* entity is saved over a row that changed after it was read.              *)
(*                                                                         *)
(* A save may mix the columns of two entities.  That no token gets into a  *)
(* second column all the same is so because every token was issued for one *)
(* column: sort names it.                                                  *)
(***************************************************************************)
TokenKinds == [Tokens -> {"refresh", "verification", "reset"}]

\* Every column of e is null or holds a token that was issued for it.
Fits(sort, e) ==
  /\ e.refreshToken # None0 => sort[e.refreshToken] = "refresh"
  /\ e.verificationToken # None0 => sort[e.verificationToken] = "verification"
  /\ e.resetToken # None0 => sort[e.resetToken] = "reset"

Issued(e) == \A t \in TokensOf(e) : t < nextToken

\* What a request keeps are rows as they once were.
KeptRow(sort, q) ==
  q.at # "idle" =>
    /\ Fits(sort, q.entity) /\ Issued(q.entity)
    /\ Fits(sort, q.before) /\ Issued(q.before)

KindsHold(sort) ==
  /\ Fits(sort, identity)
  /\ \A r \in AuthRequests : KeptRow(sort, authRequest[r])

OneKindEach == \E sort \in TokenKinds : KindsHold(sort)

LoadedRow(q) ==
  q.at # "idle" =>
    /\ q.at # "insert" => q.entity.exists /\ identity.exists
    /\ q.at = "reissue" => ~q.entity.isActive

LoadedOK == \A r \in AuthRequests : LoadedRow(authRequest[r])

\* The row does not hold t, or only because a save has written it back.
Absent(t) == t \notin TokensOf(identity) \/ t \in restored

\* The token that a request redeems when it writes.
Presented(q) ==
  CASE q.at = "activate" -> q.entity.verificationToken
    [] q.at = "rotate"   -> q.entity.refreshToken
    [] q.at = "reset"    -> q.entity.resetToken
    [] OTHER             -> None0

\* A save that has not found its token when it read the row once more will not
\* clear it: it has gone before.
LostToken(q) ==
  /\ q.at # "idle" /\ q.before.exists
  /\ Presented(q) # None0 /\ Presented(q) \notin TokensOf(q.before)
  => Absent(Presented(q))

LostTokensGone == \A r \in AuthRequests : LostToken(authRequest[r])

\* A token that was redeemed was issued, and has gone.
UsedGone == \A t \in Tokens : redeemed[t] > 0 => t < nextToken /\ Absent(t)

AuthIInv == AuthTypeOK /\ OneKindEach /\ LoadedOK /\ LostTokensGone /\ UsedGone

-----------------------------------------------------------------------------
\* The columns of a well-formed row are tokens or null.
LEMMA Columns ==
  ASSUME NEW e \in Identity
  PROVE  /\ TokensOf(e) \subseteq 0 .. MaxTokens
         /\ e.refreshToken \in TokensOf(e)
         /\ e.verificationToken \in TokensOf(e)
         /\ e.resetToken \in TokensOf(e)
BY DEF Identity, TokensOf

LEMMA NoToken == None0 \in 0 .. MaxTokens
BY AuthAssumption DEF None0

LEMMA TokenRange ==
  /\ 0 .. MaxTokens = Tokens \cup {None0}
  /\ None0 \notin Tokens
  /\ MaxTokens \in Nat
BY AuthAssumption DEF Tokens, None0

\* Before the address is registered its row is empty.
LEMMA NoRow ==
  /\ NoIdentity \in Identity /\ ~NoIdentity.exists /\ ~NoIdentity.isActive
  /\ TokensOf(NoIdentity) = {None0}
  /\ NoIdentity.refreshToken = None0 /\ NoIdentity.verificationToken = None0
  /\ NoIdentity.resetToken = None0
<1>1. AnyPassword \in Passwords
  BY AuthAssumption DEF AnyPassword
<1> QED BY <1>1, NoToken DEF NoIdentity, Identity, TokensOf

\* What a request that runs has loaded.
LEMMA Loaded ==
  ASSUME AuthIInv, NEW r \in AuthRequests, authRequest[r].at # "idle"
  PROVE  /\ authRequest[r] \in AuthRow
         /\ authRequest[r].entity \in Identity
         /\ authRequest[r].before \in Identity
         /\ authRequest[r].password \in Passwords
         /\ LoadedRow(authRequest[r])
         /\ LostToken(authRequest[r])
<1>1. PICK q : q = authRequest[r]  OBVIOUS
<1>2. q \in AuthRow \cup {NoAuth} /\ LoadedRow(q) /\ LostToken(q)
  BY <1>1 DEF AuthIInv, AuthTypeOK, LoadedOK, LostTokensGone
<1>3. q # NoAuth
  BY <1>1 DEF NoAuth
<1>4. q \in AuthRow
  BY <1>2, <1>3
<1>5. q.entity \in Identity /\ q.before \in Identity /\ q.password \in Passwords
  BY <1>4 DEF AuthRow
<1> QED BY <1>1, <1>2, <1>4, <1>5

\* A row that fits holds a token in the one column that the token was issued for.
LEMMA OneColumn ==
  ASSUME NEW sort \in TokenKinds, NEW e \in Identity, Fits(sort, e), NEW t \in Tokens, t \in TokensOf(e)
  PROVE  /\ sort[t] = "refresh" => t = e.refreshToken
         /\ sort[t] = "verification" => t = e.verificationToken
         /\ sort[t] = "reset" => t = e.resetToken
<1>1. t # None0
  BY TokenRange
<1> QED BY <1>1 DEF Fits, TokensOf

\* The row after the UPDATE of a save: every column is of the entity or stays.
LEMMA WrittenRow ==
  ASSUME NEW e \in Identity, NEW b \in Identity, NEW n \in Identity
  PROVE  /\ Written(e, b, n) \in Identity
         /\ Written(e, b, n).exists \in {e.exists, n.exists}
         /\ Written(e, b, n).isActive \in {e.isActive, n.isActive}
         /\ Written(e, b, n).password \in {e.password, n.password}
         /\ Written(e, b, n).refreshToken =
              IF e.refreshToken = b.refreshToken THEN n.refreshToken ELSE e.refreshToken
         /\ Written(e, b, n).verificationToken =
              IF e.verificationToken = b.verificationToken THEN n.verificationToken
                                                           ELSE e.verificationToken
         /\ Written(e, b, n).resetToken =
              IF e.resetToken = b.resetToken THEN n.resetToken ELSE e.resetToken
<1>1. DOMAIN n = {"exists", "isActive", "password", "refreshToken", "verificationToken", "resetToken"}
  BY DEF Identity
<1>2. /\ Written(e, b, n).exists = IF e.exists = b.exists THEN n.exists ELSE e.exists
      /\ Written(e, b, n).isActive = IF e.isActive = b.isActive THEN n.isActive ELSE e.isActive
      /\ Written(e, b, n).password = IF e.password = b.password THEN n.password ELSE e.password
  BY <1>1 DEF Written
<1>3. /\ Written(e, b, n).refreshToken =
           IF e.refreshToken = b.refreshToken THEN n.refreshToken ELSE e.refreshToken
      /\ Written(e, b, n).verificationToken =
           IF e.verificationToken = b.verificationToken THEN n.verificationToken
                                                        ELSE e.verificationToken
      /\ Written(e, b, n).resetToken =
           IF e.resetToken = b.resetToken THEN n.resetToken ELSE e.resetToken
  BY <1>1 DEF Written
<1>4. Written(e, b, n) \in Identity
  BY <1>2, <1>3 DEF Written, Identity
<1> QED BY <1>2, <1>3, <1>4

-----------------------------------------------------------------------------
(* What every step has in common: a token comes into the row only when it is *)
(* new, or is written back.                                                  *)
RowMoves ==
  /\ identity' \in Identity
  /\ ~identity'.exists => identity' = NoIdentity
  /\ identity.exists => identity'.exists
  /\ nextToken' \in 1 .. MaxTokens + 1 /\ nextToken <= nextToken'
  /\ restored \subseteq restored' /\ restored' \subseteq Tokens
  /\ \A t \in TokensOf(identity') : t < nextToken'
  /\ \A t \in TokensOf(identity') \ TokensOf(identity) : t = None0 \/ t = nextToken \/ t \in restored'

\* What a request goes on with, given the kinds of tokens after the step.
GoesOnWith(sort, r, q) ==
  /\ authRequest' = [authRequest EXCEPT ![r] = q]
  /\ q \in AuthRow \cup {NoAuth}
  /\ KeptRow(sort, q)' /\ LoadedRow(q)' /\ LostToken(q)'

\* A token that has gone does not come back unnoticed.
LEMMA GoneStays ==
  ASSUME AuthIInv, RowMoves, NEW t \in Tokens, t < nextToken, Absent(t)
  PROVE  Absent(t)'
<1>1. t # None0 /\ t # nextToken
  BY TokenRange DEF AuthIInv, AuthTypeOK, Tokens
<1> QED BY <1>1 DEF RowMoves, Absent

\* What another request keeps goes on to hold.
LEMMA OthersStay ==
  ASSUME AuthIInv, RowMoves, NEW r \in AuthRequests,
         NEW sort \in TokenKinds, KindsHold(sort), NEW kept \in TokenKinds,
         \A t \in Tokens : t < nextToken => kept[t] = sort[t]
  PROVE  KeptRow(kept, authRequest[r])' \/ authRequest'[r] # authRequest[r]
<1> SUFFICES ASSUME authRequest'[r] = authRequest[r], authRequest[r].at # "idle"
             PROVE  KeptRow(kept, authRequest[r])'
  BY DEF KeptRow
<1>1. PICK e, b : e = authRequest[r].entity /\ b = authRequest[r].before  OBVIOUS
<1>2. /\ e \in Identity /\ b \in Identity
      /\ Fits(sort, e) /\ Issued(e) /\ Fits(sort, b) /\ Issued(b)
  BY <1>1, Loaded DEF KindsHold, KeptRow
<1>3. ASSUME NEW f \in Identity, Fits(sort, f), Issued(f)
      PROVE  Fits(kept, f) /\ \A t \in TokensOf(f) : t < nextToken'
  <2>1. TokensOf(f) \subseteq Tokens \cup {None0} /\ \A t \in TokensOf(f) : t < nextToken
    BY <1>3, Columns, TokenRange DEF Issued
  <2>2. Fits(kept, f)
    BY <1>3, <2>1, Columns DEF Fits
  <2>3. nextToken \in Nat /\ nextToken' \in Nat /\ nextToken <= nextToken' /\ Tokens \cup {None0} \subseteq Nat
    BY TokenRange DEF RowMoves, AuthIInv, AuthTypeOK, Tokens
  <2> QED BY <2>1, <2>2, <2>3
<1>4. Fits(kept, e) /\ Fits(kept, b)
      /\ (\A t \in TokensOf(e) : t < nextToken') /\ (\A t \in TokensOf(b) : t < nextToken')
  BY <1>2, <1>3
<1> QED BY <1>1, <1>4 DEF KeptRow, Issued, Fits, TokensOf

\* The frame of every step of a request.
LEMMA RequestStep ==
  ASSUME AuthIInv, RowMoves, NEW r \in AuthRequests, NEW q,
         NEW sort \in TokenKinds, KindsHold(sort), NEW kept \in TokenKinds,
         \A t \in Tokens : t < nextToken => kept[t] = sort[t],
         Fits(kept, identity'),
         GoesOnWith(kept, r, q)
  PROVE  /\ authRequest' \in [AuthRequests -> AuthRow \cup {NoAuth}]
         /\ OneKindEach' /\ LoadedOK' /\ LostTokensGone'
<1>1. authRequest' \in [AuthRequests -> AuthRow \cup {NoAuth}]
  BY DEF AuthIInv, AuthTypeOK, GoesOnWith
<1>2. ASSUME NEW s \in AuthRequests
      PROVE  KeptRow(kept, authRequest[s])' /\ LoadedRow(authRequest[s])' /\ LostToken(authRequest[s])'
  <2>1. CASE s = r
    <3>1. authRequest'[s] = q
      BY <2>1 DEF AuthIInv, AuthTypeOK, GoesOnWith
    <3> QED BY <3>1 DEF GoesOnWith, KeptRow, LoadedRow, LostToken, Fits, Issued, Presented, TokensOf, Absent
  <2>2. CASE s # r
    <3>1. authRequest'[s] = authRequest[s]
      BY <2>2 DEF AuthIInv, AuthTypeOK, GoesOnWith
    <3>2. KeptRow(kept, authRequest[s])'
      BY <3>1, OthersStay
    <3>3. LoadedRow(authRequest[s])'
      BY <3>1 DEF AuthIInv, LoadedOK, LoadedRow, RowMoves
    <3>4. LostToken(authRequest[s])'
      <4> SUFFICES ASSUME authRequest[s].at # "idle", authRequest[s].before.exists,
                          NEW t, t = Presented(authRequest[s]), t # None0,
                          t \notin TokensOf(authRequest[s].before)
                   PROVE  Absent(t)'
        BY <3>1 DEF LostToken, Presented, TokensOf, Absent
      <4>1. Absent(t)
        BY Loaded DEF LostToken
      <4>2. t \in TokensOf(authRequest[s].entity) /\ authRequest[s].entity \in Identity
        BY Loaded, Columns DEF Presented
      <4>3. t \in Tokens
        BY <4>2, Columns, TokenRange
      <4>4. t < nextToken
        BY <4>2 DEF KindsHold, KeptRow, Issued
      <4> QED BY <4>1, <4>3, <4>4, GoneStays
    <3> QED BY <3>2, <3>3, <3>4
  <2> QED BY <2>1, <2>2
<1>3. KindsHold(kept)'
  BY <1>2 DEF KindsHold, Fits
<1> QED BY <1>1, <1>2, <1>3 DEF OneKindEach, LoadedOK, LostTokensGone

\* A request that ends keeps nothing.
LEMMA NoAuthType == NoAuth \in AuthRow \cup {NoAuth} /\ NoAuth.at = "idle"
BY DEF NoAuth

LEMMA RequestEnds ==
  ASSUME NEW r \in AuthRequests, SetAuth(r, NoAuth), NEW sort
  PROVE  GoesOnWith(sort, r, NoAuth)
BY NoAuthType DEF GoesOnWith, SetAuth, KeptRow, LoadedRow, LostToken

\* The rest of the invariant, of a step that redeems nothing, or `used`.
LEMMA TypeAndUse ==
  ASSUME AuthIInv, RowMoves, expired' \subseteq Tokens,
         authRequest' \in [AuthRequests -> AuthRow \cup {NoAuth}],
         NEW used,
         \/ redeemed' = redeemed
         \/ /\ redeemed' = [redeemed EXCEPT ![used] = redeemed[used] + 1]
            /\ used \in Tokens /\ used < nextToken /\ Absent(used)'
  PROVE  AuthTypeOK' /\ UsedGone'
<1>1. redeemed \in [Tokens -> Nat]
  BY DEF AuthIInv, AuthTypeOK
<1>2. redeemed' \in [Tokens -> Nat]
  <2>1. used \in Tokens => redeemed[used] + 1 \in Nat
    BY <1>1
  <2> QED BY <1>1, <2>1
<1>3. AuthTypeOK'
  BY <1>2 DEF AuthTypeOK, RowMoves, TokensOf
<1>4. ASSUME NEW t \in Tokens, redeemed'[t] > 0
      PROVE  t < nextToken' /\ Absent(t)'
  <2>0. t \in Nat /\ nextToken \in Nat /\ nextToken' \in Nat /\ nextToken <= nextToken'
    BY TokenRange DEF RowMoves, AuthIInv, AuthTypeOK, Tokens
  <2>1. CASE redeemed[t] > 0
    <3>1. t < nextToken /\ Absent(t)
      BY <2>1 DEF AuthIInv, UsedGone
    <3>2. Absent(t)'
      BY <3>1, GoneStays
    <3> QED BY <2>0, <3>1, <3>2
  <2>2. CASE ~(redeemed[t] > 0)
    <3>1. t = used /\ used < nextToken /\ Absent(used)'
      BY <1>1, <1>4, <2>2
    <3>2. Absent(t)'
      BY <3>1 DEF Absent
    <3> QED BY <2>0, <3>1, <3>2
  <2> QED BY <2>1, <2>2
<1>5. UsedGone'
  BY <1>4 DEF UsedGone, Absent
<1> QED BY <1>3, <1>5

\* A step that leaves the row alone.
LEMMA RowRests ==
  ASSUME AuthIInv, UNCHANGED <<identity, nextToken, restored>>
  PROVE  RowMoves
<1>1. nextToken \in 1 .. MaxTokens + 1 /\ MaxTokens \in Nat
  BY TokenRange DEF AuthIInv, AuthTypeOK
<1>2. nextToken <= nextToken'
  BY <1>1
<1> QED BY <1>1, <1>2 DEF RowMoves, AuthIInv, AuthTypeOK

\* A request that reads the row, for the first time or once more.
LEMMA ReadStep ==
  ASSUME AuthIInv, NEW r \in AuthRequests, NEW q \in AuthRow,
         SetAuth(r, q),
         \/ q.entity = identity /\ q.before = NoIdentity
         \/ authRequest[r].at # "idle" /\ q.entity = authRequest[r].entity /\ q.before = identity,
         LoadedRow(q)',
         UNCHANGED <<identity, nextToken, expired, redeemed, restored>>
  PROVE  AuthIInv'
<1>1. PICK sort \in TokenKinds : KindsHold(sort)
  BY DEF AuthIInv, OneKindEach
<1>2. RowMoves
  BY RowRests
<1>3. Fits(sort, identity) /\ Issued(identity)
  BY <1>1 DEF KindsHold, AuthIInv, AuthTypeOK, Issued
<1>4. Fits(sort, NoIdentity) /\ Issued(NoIdentity)
  <2>1. None0 < nextToken
    BY DEF AuthIInv, AuthTypeOK, None0
  <2> QED BY <2>1, NoRow DEF Fits, Issued
<1>5. authRequest[r].at # "idle" => Fits(sort, authRequest[r].entity) /\ Issued(authRequest[r].entity)
  BY <1>1 DEF KindsHold, KeptRow
<1>6. KeptRow(sort, q)'
  <2>1. KeptRow(sort, q)
    BY <1>3, <1>4, <1>5 DEF KeptRow
  <2> QED BY <2>1 DEF KeptRow, Fits, Issued, TokensOf
<1>7. LostToken(q)'
  <2>1. LostToken(q)
    BY NoRow DEF LostToken, Absent
  <2> QED BY <2>1 DEF LostToken, Presented, Absent, TokensOf
<1>8. GoesOnWith(sort, r, q)
  BY <1>6, <1>7 DEF GoesOnWith, SetAuth
<1>9. Fits(sort, identity')
  BY <1>3 DEF Fits
<1>10. /\ authRequest' \in [AuthRequests -> AuthRow \cup {NoAuth}]
       /\ OneKindEach' /\ LoadedOK' /\ LostTokensGone'
  BY <1>1, <1>2, <1>8, <1>9, RequestStep
<1>11. expired' \subseteq Tokens
  BY DEF AuthIInv, AuthTypeOK
<1>12. AuthTypeOK' /\ UsedGone'
  BY <1>2, <1>10, <1>11, TypeAndUse
<1> QED BY <1>10, <1>12 DEF AuthIInv

\* A request that begins keeps the row as it is.
LEMMA ProceedStep ==
  ASSUME AuthIInv, NEW r \in AuthRequests, NEW password \in Passwords,
         NEW at \in {"insert", "reissue", "activate", "rotate", "forgot", "reset", "issue"},
         Proceed(r, at, password),
         at # "insert" => identity.exists,
         at = "reissue" => ~identity.isActive,
         UNCHANGED <<identity, nextToken, expired, redeemed, restored>>
  PROVE  AuthIInv'
<1>1. PICK q : q = [at |-> at, entity |-> identity, before |-> NoIdentity, password |-> password]
  OBVIOUS
<1>2. q \in AuthRow /\ q.at = at /\ q.entity = identity /\ q.before = NoIdentity
  BY <1>1, NoRow DEF AuthRow, AuthIInv, AuthTypeOK
<1>3. LoadedRow(q)'
  BY <1>2 DEF LoadedRow
<1>4. SetAuth(r, q)
  BY <1>1 DEF Proceed
<1> QED BY <1>2, <1>3, <1>4, ReadStep

LEMMA ReReadKeeps ==
  ASSUME AuthIInv, NEW r \in AuthRequests, ReReadIdentity(r)
  PROVE  AuthIInv'
<1>1. PICK q : q = [authRequest[r] EXCEPT !.before = identity]  OBVIOUS
<1>2. authRequest[r].at # "idle"
  BY DEF ReReadIdentity
<1>3. authRequest[r] \in AuthRow /\ LoadedRow(authRequest[r])
  BY <1>2, Loaded
<1>4. /\ q \in AuthRow /\ q.before = identity
      /\ q.at = authRequest[r].at /\ q.entity = authRequest[r].entity
  BY <1>1, <1>3 DEF AuthRow, AuthIInv, AuthTypeOK
<1>5. SetAuth(r, q) /\ UNCHANGED <<identity, nextToken, expired, redeemed, restored>>
  BY <1>1 DEF ReReadIdentity
<1>6. LoadedRow(q)'
  BY <1>3, <1>4, <1>5 DEF LoadedRow
<1> QED BY <1>2, <1>4, <1>5, <1>6, ReadStep

-----------------------------------------------------------------------------
(* Writing the row.                                                          *)

\* The next token has become the token of a column.
IsNew(kept, t, column) ==
  t = nextToken /\ nextToken \in Tokens /\ nextToken < nextToken' /\ kept[t] = column

\* Every column of n was empty, or stood in one of two rows, or is new.
ColumnsFrom(kept, n, e) ==
  /\ \/ n.refreshToken \in {None0, e.refreshToken, identity.refreshToken}
     \/ IsNew(kept, n.refreshToken, "refresh")
  /\ \/ n.verificationToken \in {None0, e.verificationToken, identity.verificationToken}
     \/ IsNew(kept, n.verificationToken, "verification")
  /\ \/ n.resetToken \in {None0, e.resetToken, identity.resetToken}
     \/ IsNew(kept, n.resetToken, "reset")

LEMMA RowWritten ==
  ASSUME AuthIInv, NEW sort \in TokenKinds, KindsHold(sort), NEW kept \in TokenKinds,
         \A t \in Tokens : t < nextToken => kept[t] = sort[t],
         NEW e \in Identity, Fits(sort, e), Issued(e),
         NEW n \in Identity, n.exists, identity' = n, ColumnsFrom(kept, n, e),
         nextToken' \in 1 .. MaxTokens + 1, nextToken <= nextToken',
         Restores \/ (restored' = restored /\ e = identity)
  PROVE  RowMoves /\ Fits(kept, identity')
<1>1. /\ nextToken \in Nat /\ nextToken' \in Nat /\ Tokens \cup {None0} \subseteq Nat
      /\ None0 < nextToken
  BY TokenRange DEF AuthIInv, AuthTypeOK, Tokens, None0
<1>2. /\ TokensOf(e) \subseteq Tokens \cup {None0}
      /\ TokensOf(identity) \subseteq Tokens \cup {None0}
      /\ TokensOf(n) \subseteq Tokens \cup {None0}
  BY Columns, TokenRange DEF AuthIInv, AuthTypeOK
<1>3. Fits(sort, identity) /\ Issued(identity)
  BY DEF KindsHold, AuthIInv, AuthTypeOK, Issued
<1>4. Fits(kept, n)
  <2>1. ASSUME n.refreshToken # None0 PROVE kept[n.refreshToken] = "refresh"
    BY <1>2, <1>3, <2>1 DEF ColumnsFrom, IsNew, Fits, Issued, TokensOf
  <2>2. ASSUME n.verificationToken # None0 PROVE kept[n.verificationToken] = "verification"
    BY <1>2, <1>3, <2>2 DEF ColumnsFrom, IsNew, Fits, Issued, TokensOf
  <2>3. ASSUME n.resetToken # None0 PROVE kept[n.resetToken] = "reset"
    BY <1>2, <1>3, <2>3 DEF ColumnsFrom, IsNew, Fits, Issued, TokensOf
  <2> QED BY <2>1, <2>2, <2>3 DEF Fits
<1>5. ASSUME NEW t \in TokensOf(n)
      PROVE  \/ t = None0
             \/ t = nextToken /\ nextToken < nextToken'
             \/ t \in TokensOf(e) \cup TokensOf(identity)
  BY <1>5 DEF ColumnsFrom, IsNew, TokensOf
<1>6. \A t \in TokensOf(n) : t < nextToken'
  BY <1>1, <1>2, <1>3, <1>5 DEF Issued
<1>7. restored \subseteq Tokens
  BY DEF AuthIInv, AuthTypeOK
<1>8. /\ restored \subseteq restored' /\ restored' \subseteq Tokens
      /\ \A t \in TokensOf(n) \ TokensOf(identity) : t = None0 \/ t = nextToken \/ t \in restored'
  <2>1. CASE restored' = restored /\ e = identity
    BY <1>5, <1>7, <2>1
  <2>2. CASE Restores
    <3>1. restored' = restored \cup ((TokensOf(n) \ TokensOf(identity)) \cap (1 .. nextToken - 1))
      BY <2>2 DEF Restores, TokensOf
    <3>2. 1 .. nextToken - 1 \subseteq Tokens
      BY TokenRange DEF AuthIInv, AuthTypeOK, Tokens
    <3>3. ASSUME NEW t \in TokensOf(n) \ TokensOf(identity), t # None0, t # nextToken
          PROVE  t \in restored'
      <4>1. t \in TokensOf(e) /\ t \in Tokens
        BY <1>2, <1>5, <3>3
      <4>2. t \in 1 .. nextToken - 1
        BY <1>1, <4>1 DEF Issued, Tokens
      <4> QED BY <3>1, <4>2
    <3> QED BY <1>7, <3>1, <3>2, <3>3
  <2> QED BY <2>1, <2>2
<1> QED BY <1>4, <1>6, <1>8 DEF RowMoves, TokensOf

\* A token that is issued for a column.
LEMMA NewKind ==
  ASSUME AuthIInv, Fresh, Issue, NEW sort \in TokenKinds,
         NEW column \in {"refresh", "verification", "reset"}
  PROVE  /\ nextToken \in Tokens /\ nextToken' \in 1 .. MaxTokens + 1 /\ nextToken < nextToken'
         /\ nextToken \in 0 .. MaxTokens /\ nextToken # None0
         /\ \E kept \in TokenKinds : /\ kept[nextToken] = column
                                     /\ \A t \in Tokens : t < nextToken => kept[t] = sort[t]
<1>1. nextToken \in Tokens /\ nextToken \in Nat /\ nextToken' = nextToken + 1
  BY TokenRange DEF AuthIInv, AuthTypeOK, Fresh, Issue, Tokens
<1>2. PICK kept : kept = [sort EXCEPT ![nextToken] = column]  OBVIOUS
<1>3. kept \in TokenKinds /\ kept[nextToken] = column
  BY <1>1, <1>2 DEF TokenKinds
<1>4. ASSUME NEW t \in Tokens, t < nextToken PROVE kept[t] = sort[t]
  <2>1. t # nextToken
    BY <1>1, <1>4 DEF Tokens
  <2> QED BY <1>2, <2>1 DEF TokenKinds
<1> QED BY <1>1, <1>3, <1>4, TokenRange DEF Fresh, Tokens

\* An UPDATE that writes a new token to one column, if it finds anything to do.
LEMMA FreshStep ==
  ASSUME AuthIInv, NEW r \in AuthRequests, Fresh, Issue, SetAuth(r, NoAuth),
         NEW n \in Identity, identity' = n, n.exists,
         NEW sort \in TokenKinds, KindsHold(sort), NEW kept \in TokenKinds,
         \A t \in Tokens : t < nextToken => kept[t] = sort[t],
         ColumnsFrom(kept, n, identity),
         UNCHANGED <<expired, redeemed, restored>>
  PROVE  AuthIInv'
<1>1. nextToken' \in 1 .. MaxTokens + 1 /\ nextToken <= nextToken'
  BY NewKind DEF AuthIInv, AuthTypeOK
<1>2. Fits(sort, identity) /\ Issued(identity) /\ identity \in Identity
  BY DEF KindsHold, AuthIInv, AuthTypeOK, Issued
<1>3. RowMoves /\ Fits(kept, identity')
  BY <1>1, <1>2, RowWritten
<1>4. GoesOnWith(kept, r, NoAuth)
  BY RequestEnds
<1>5. /\ authRequest' \in [AuthRequests -> AuthRow \cup {NoAuth}]
      /\ OneKindEach' /\ LoadedOK' /\ LostTokensGone'
  BY <1>3, <1>4, RequestStep
<1>6. AuthTypeOK' /\ UsedGone'
  BY <1>3, <1>5, TypeAndUse DEF AuthIInv, AuthTypeOK
<1> QED BY <1>5, <1>6 DEF AuthIInv

\* A save that clears the column of the token it redeems: the row has lost that
\* token by then, or loses it now, unless it was written back in between.
LEMMA RedeemStep ==
  ASSUME AuthIInv, NEW r \in AuthRequests, authRequest[r].at \in {"activate", "rotate", "reset"},
         authRequest[r].before.exists,
         NEW n \in Identity, n.exists, identity' = n, Restores,
         NEW sort \in TokenKinds, KindsHold(sort),
         ColumnsFrom(sort, n, authRequest[r].entity),
         NEW used, used = Presented(authRequest[r]),
         used # None0 /\ used \in TokensOf(n) =>
           used \notin TokensOf(authRequest[r].before) /\ used \in TokensOf(identity),
         Redeem(used), UNCHANGED <<nextToken, expired>>,
         NEW q, GoesOnWith(sort, r, q)
  PROVE  AuthIInv'
<1> DEFINE old == authRequest[r].entity
<1>1. old \in Identity /\ Fits(sort, old) /\ Issued(old) /\ LostToken(authRequest[r])
  BY Loaded DEF KindsHold, KeptRow
<1>2. nextToken' \in 1 .. MaxTokens + 1 /\ nextToken <= nextToken'
  BY TokenRange DEF AuthIInv, AuthTypeOK
<1>3. RowMoves /\ Fits(sort, identity')
  BY <1>1, <1>2, RowWritten
<1>4. /\ authRequest' \in [AuthRequests -> AuthRow \cup {NoAuth}]
      /\ OneKindEach' /\ LoadedOK' /\ LostTokensGone'
  BY <1>3, RequestStep
<1>5. redeemed' = [redeemed EXCEPT ![used] = redeemed[used] + 1] /\ redeemed \in [Tokens -> Nat]
  BY DEF Redeem, AuthIInv, AuthTypeOK
<1>6. \/ redeemed' = redeemed
      \/ used \in Tokens /\ used < nextToken /\ Absent(used)'
  <2>1. CASE used = None0
    BY <1>5, <2>1, TokenRange
  <2>2. CASE used # None0
    <3>1. used \in TokensOf(old)
      BY <1>1, <2>2, Columns DEF Presented
    <3>2. used \in Tokens /\ used < nextToken
      BY <1>1, <2>2, <3>1, Columns, TokenRange DEF Issued
    <3>3. CASE used \notin TokensOf(n)
      BY <3>2, <3>3 DEF Absent, TokensOf
    <3>4. CASE used \in TokensOf(n)
      <4>1. Absent(used)
        BY <1>1, <2>2, <3>4 DEF LostToken
      <4> QED BY <1>3, <3>2, <4>1, GoneStays
    <3> QED BY <3>2, <3>3, <3>4
  <2> QED BY <2>1, <2>2
<1>9. AuthTypeOK' /\ UsedGone'
  BY <1>3, <1>4, <1>5, <1>6, TypeAndUse DEF AuthIInv, AuthTypeOK
<1> QED BY <1>4, <1>9 DEF AuthIInv

-----------------------------------------------------------------------------
(* One lemma per action.                                                     *)

LEMMA RegisterKeeps ==
  ASSUME AuthIInv, NEW r \in AuthRequests, NEW p \in Passwords, Register(r, p)
  PROVE  AuthIInv'
<1>1. CASE ~identity.exists /\ Proceed(r, "insert", p)
  BY <1>1, ProceedStep DEF Register
<1>2. CASE identity.exists /\ VerificationExpired /\ Proceed(r, "reissue", p)
  BY <1>2, ProceedStep DEF Register, VerificationExpired
<1> QED BY <1>1, <1>2 DEF Register

LEMMA FindKeeps ==
  ASSUME AuthIInv, NEW r \in AuthRequests,
         \/ \E t \in Tokens : FindActivation(r, t) \/ FindRotation(r, t)
         \/ \E t \in Tokens, p \in Passwords : FindReset(r, t, p)
         \/ FindForgotten(r)
         \/ \E p \in Passwords : Login(r, p)
  PROVE  AuthIInv'
<1>1. AnyPassword \in Passwords
  BY AuthAssumption DEF AnyPassword
<1>2. ~identity.exists => /\ identity.refreshToken = None0 /\ identity.verificationToken = None0
                          /\ identity.resetToken = None0 /\ ~identity.isActive
  BY DEF AuthIInv, AuthTypeOK, NoIdentity
<1>3. None0 \notin Tokens
  BY DEF Tokens, None0
<1>4. CASE \E t \in Tokens : FindActivation(r, t)
  BY <1>1, <1>2, <1>3, <1>4, ProceedStep DEF FindActivation
<1>5. CASE \E t \in Tokens : FindRotation(r, t)
  BY <1>1, <1>2, <1>3, <1>5, ProceedStep DEF FindRotation
<1>6. CASE \E t \in Tokens, p \in Passwords : FindReset(r, t, p)
  BY <1>2, <1>3, <1>6, ProceedStep DEF FindReset
<1>7. CASE FindForgotten(r)
  BY <1>1, <1>7, ProceedStep DEF FindForgotten
<1>8. CASE \E p \in Passwords : Login(r, p)
  BY <1>1, <1>2, <1>8, ProceedStep DEF Login
<1> QED BY <1>4, <1>5, <1>6, <1>7, <1>8

\* A second registration of the address inserts nothing.
LEMMA InsertKeeps ==
  ASSUME AuthIInv, NEW r \in AuthRequests, InsertIdentity(r)
  PROVE  AuthIInv'
<1>1. PICK sort \in TokenKinds : KindsHold(sort)
  BY DEF AuthIInv, OneKindEach
<1>2. PICK kept \in TokenKinds : /\ kept[nextToken] = "verification"
                                 /\ \A t \in Tokens : t < nextToken => kept[t] = sort[t]
  BY NewKind DEF InsertIdentity
<1>3. nextToken \in Tokens /\ nextToken < nextToken' /\ nextToken \in 0 .. MaxTokens /\ identity \in Identity
  BY <1>1, NewKind DEF InsertIdentity, AuthIInv, AuthTypeOK
<1>4. CASE identity.exists
  <2>1. ColumnsFrom(kept, identity, identity)
    BY DEF ColumnsFrom
  <2>2. identity' = identity
    BY <1>4 DEF InsertIdentity
  <2> QED BY <1>1, <1>2, <1>3, <1>4, <2>1, <2>2, FreshStep DEF InsertIdentity
<1>5. CASE ~identity.exists
  <2>1. PICK n : n = [NoIdentity EXCEPT !.exists = TRUE, !.password = authRequest[r].password,
                                        !.verificationToken = nextToken]
    OBVIOUS
  <2>2. authRequest[r].password \in Passwords
    BY Loaded DEF InsertIdentity
  <2>3. n = [exists |-> TRUE, isActive |-> FALSE, password |-> authRequest[r].password,
             refreshToken |-> None0, verificationToken |-> nextToken, resetToken |-> None0]
    BY <2>1 DEF NoIdentity
  <2>4. n \in Identity /\ n.exists
    BY <1>3, <2>2, <2>3, NoToken DEF Identity
  <2>5. ColumnsFrom(kept, n, identity)
    BY <1>2, <1>3, <2>3 DEF ColumnsFrom, IsNew
  <2>6. identity' = n
    BY <1>5, <2>1 DEF InsertIdentity
  <2> QED BY <1>1, <1>2, <2>4, <2>5, <2>6, FreshStep DEF InsertIdentity
<1> QED BY <1>4, <1>5

\* What the other actions of a loaded request find.
LEMMA LoadedRowExists ==
  ASSUME AuthIInv, NEW r \in AuthRequests,
         authRequest[r].at \in {"reissue", "activate", "rotate", "forgot", "reset", "issue"}
  PROVE  /\ identity.exists /\ identity \in Identity
         /\ authRequest[r].entity \in Identity /\ authRequest[r].entity.exists
         /\ authRequest[r].before \in Identity /\ authRequest[r].password \in Passwords
BY Loaded DEF LoadedRow, AuthIInv, AuthTypeOK

\* An UPDATE of an existing row: the verification with its password, or the
\* refresh token.
LEMMA UpdateKeeps ==
  ASSUME AuthIInv, NEW r \in AuthRequests, ReissueVerification(r) \/ IssueTokens(r)
  PROVE  AuthIInv'
<1>1. PICK sort \in TokenKinds : KindsHold(sort)
  BY DEF AuthIInv, OneKindEach
<1>2. /\ identity.exists /\ identity \in Identity /\ authRequest[r].password \in Passwords
  BY LoadedRowExists DEF ReissueVerification, IssueTokens
<1>3. nextToken \in Tokens /\ nextToken < nextToken' /\ nextToken \in 0 .. MaxTokens
  BY <1>1, NewKind DEF ReissueVerification, IssueTokens
<1>4. CASE ReissueVerification(r)
  <2>1. PICK n : n = [identity EXCEPT !.verificationToken = nextToken,
                                      !.password = authRequest[r].password]
    OBVIOUS
  <2>2. n \in Identity /\ n.exists
    BY <1>2, <1>3, <2>1 DEF Identity
  <2>3. PICK kept \in TokenKinds : /\ kept[nextToken] = "verification"
                                   /\ \A t \in Tokens : t < nextToken => kept[t] = sort[t]
    BY <1>4, NewKind DEF ReissueVerification
  <2>4. ColumnsFrom(kept, n, identity)
    BY <1>2, <1>3, <2>1, <2>3 DEF ColumnsFrom, IsNew, Identity
  <2> QED BY <1>1, <1>4, <2>1, <2>2, <2>3, <2>4, FreshStep DEF ReissueVerification
<1>5. CASE IssueTokens(r)
  <2>1. PICK n : n = [identity EXCEPT !.refreshToken = nextToken]
    OBVIOUS
  <2>2. n \in Identity /\ n.exists
    BY <1>2, <1>3, <2>1 DEF Identity
  <2>3. PICK kept \in TokenKinds : /\ kept[nextToken] = "refresh"
                                   /\ \A t \in Tokens : t < nextToken => kept[t] = sort[t]
    BY <1>5, NewKind DEF IssueTokens
  <2>4. ColumnsFrom(kept, n, identity)
    BY <1>2, <1>3, <2>1, <2>3 DEF ColumnsFrom, IsNew, Identity
  <2> QED BY <1>1, <1>5, <2>1, <2>2, <2>3, <2>4, FreshStep DEF IssueTokens
<1> QED BY <1>4, <1>5

LEMMA ActivateKeeps ==
  ASSUME AuthIInv, NEW r \in AuthRequests, Activate(r)
  PROVE  AuthIInv'
<1>1. PICK old, b : old = authRequest[r].entity /\ b = authRequest[r].before  OBVIOUS
<1>2. authRequest[r].at = "activate" /\ b.exists
  BY <1>1 DEF Activate, SaveEntity
<1>3. /\ old \in Identity /\ old.exists /\ b \in Identity /\ identity \in Identity /\ identity.exists
  BY <1>1, <1>2, LoadedRowExists
<1>4. PICK e : e = [old EXCEPT !.verificationToken = None0, !.isActive = TRUE]
  OBVIOUS
<1>5. e \in Identity /\ e.exists /\ e.verificationToken = None0
      /\ e.refreshToken = old.refreshToken /\ e.resetToken = old.resetToken
  BY <1>3, <1>4, NoToken DEF Identity
<1>6. PICK n : n = Written(e, b, identity)  OBVIOUS
<1>7. n \in Identity /\ n.exists
  BY <1>3, <1>5, <1>6, WrittenRow
<1>8. identity' = n /\ Restores /\ Redeem(old.verificationToken) /\ SetAuth(r, NoAuth)
      /\ UNCHANGED <<nextToken, expired>>
  BY <1>1, <1>4, <1>6 DEF Activate, SaveEntity
<1>9. PICK sort \in TokenKinds : KindsHold(sort)
  BY DEF AuthIInv, OneKindEach
<1>10. ColumnsFrom(sort, n, old)
  BY <1>3, <1>5, <1>6, WrittenRow DEF ColumnsFrom
<1>11. old.verificationToken = Presented(authRequest[r])
  BY <1>1, <1>2 DEF Presented
<1>12. ASSUME old.verificationToken # None0, old.verificationToken \in TokensOf(n)
       PROVE  old.verificationToken \notin TokensOf(b) /\ old.verificationToken \in TokensOf(identity)
  <2>1. Fits(sort, old) /\ Fits(sort, b) /\ Fits(sort, identity)
    BY <1>1, <1>2, <1>9 DEF KindsHold, KeptRow
  <2>2. old.verificationToken \in Tokens /\ sort[old.verificationToken] = "verification"
    BY <1>3, <1>12, <2>1, Columns, TokenRange DEF Fits
  <2>3. old.verificationToken = n.verificationToken
    <3>1. /\ n.refreshToken # None0 => sort[n.refreshToken] = "refresh"
          /\ n.resetToken # None0 => sort[n.resetToken] = "reset"
      BY <1>3, <1>5, <1>6, <2>1, WrittenRow DEF Fits
    <3> QED BY <1>12, <2>2, <3>1 DEF TokensOf
  <2>4. b.verificationToken = None0 /\ identity.verificationToken = old.verificationToken
    BY <1>3, <1>5, <1>6, <1>12, <2>3, WrittenRow
  <2>5. old.verificationToken \notin TokensOf(b)
    BY <1>3, <1>12, <2>1, <2>2, <2>4, OneColumn
  <2> QED BY <2>4, <2>5 DEF TokensOf
<1>13. GoesOnWith(sort, r, NoAuth)
  BY <1>8, RequestEnds
<1> QED BY <1>1, <1>2, <1>7, <1>8, <1>9, <1>10, <1>11, <1>12, <1>13, RedeemStep

LEMMA ResetKeeps ==
  ASSUME AuthIInv, NEW r \in AuthRequests, Reset(r)
  PROVE  AuthIInv'
<1>1. PICK old, b : old = authRequest[r].entity /\ b = authRequest[r].before  OBVIOUS
<1>2. authRequest[r].at = "reset" /\ b.exists
  BY <1>1 DEF Reset
<1>3. /\ old \in Identity /\ old.exists /\ b \in Identity /\ identity \in Identity /\ identity.exists
      /\ authRequest[r].password \in Passwords
  BY <1>1, <1>2, LoadedRowExists
<1>4. PICK e : e = [old EXCEPT !.resetToken = None0]
  OBVIOUS
<1>5. e \in Identity /\ e.exists /\ e.resetToken = None0
      /\ e.refreshToken = old.refreshToken /\ e.verificationToken = old.verificationToken
  BY <1>3, <1>4, NoToken DEF Identity
<1>6. PICK m : m = Written(e, b, identity)  OBVIOUS
<1>7. PICK n : n = [m EXCEPT !.password = authRequest[r].password]  OBVIOUS
<1>8. m \in Identity /\ m.exists
  BY <1>3, <1>5, <1>6, WrittenRow
<1>9. /\ n \in Identity /\ n.exists
      /\ n.refreshToken = m.refreshToken /\ n.verificationToken = m.verificationToken
      /\ n.resetToken = m.resetToken
  BY <1>3, <1>7, <1>8 DEF Identity
<1>10. identity' = n /\ Restores /\ Redeem(old.resetToken) /\ SetAuth(r, NoAuth)
       /\ UNCHANGED <<nextToken, expired>>
  BY <1>1, <1>4, <1>6, <1>7 DEF Reset
<1>11. PICK sort \in TokenKinds : KindsHold(sort)
  BY DEF AuthIInv, OneKindEach
<1>12. ColumnsFrom(sort, n, old)
  BY <1>3, <1>5, <1>6, <1>9, WrittenRow DEF ColumnsFrom
<1>13. old.resetToken = Presented(authRequest[r])
  BY <1>1, <1>2 DEF Presented
<1>14. ASSUME old.resetToken # None0, old.resetToken \in TokensOf(n)
       PROVE  old.resetToken \notin TokensOf(b) /\ old.resetToken \in TokensOf(identity)
  <2>1. Fits(sort, old) /\ Fits(sort, b) /\ Fits(sort, identity)
    BY <1>1, <1>2, <1>11 DEF KindsHold, KeptRow
  <2>2. old.resetToken \in Tokens /\ sort[old.resetToken] = "reset"
    BY <1>3, <1>14, <2>1, Columns, TokenRange DEF Fits
  <2>3. old.resetToken = n.resetToken
    <3>1. /\ n.refreshToken # None0 => sort[n.refreshToken] = "refresh"
          /\ n.verificationToken # None0 => sort[n.verificationToken] = "verification"
      BY <1>3, <1>5, <1>6, <1>9, <2>1, WrittenRow DEF Fits
    <3> QED BY <1>14, <2>2, <3>1 DEF TokensOf
  <2>4. b.resetToken = None0 /\ identity.resetToken = old.resetToken
    BY <1>3, <1>5, <1>6, <1>9, <1>14, <2>3, WrittenRow
  <2>5. old.resetToken \notin TokensOf(b)
    BY <1>3, <1>14, <2>1, <2>2, <2>4, OneColumn
  <2> QED BY <2>4, <2>5 DEF TokensOf
<1>15. GoesOnWith(sort, r, NoAuth)
  BY <1>10, RequestEnds
<1> QED BY <1>1, <1>2, <1>9, <1>10, <1>11, <1>12, <1>13, <1>14, <1>15, RedeemStep

\* The request goes on to issue tokens, with the entity it had.
LEMMA RotateKeeps ==
  ASSUME AuthIInv, NEW r \in AuthRequests, Rotate(r)
  PROVE  AuthIInv'
<1>1. PICK old, b : old = authRequest[r].entity /\ b = authRequest[r].before  OBVIOUS
<1>2. authRequest[r].at = "rotate" /\ b.exists
  BY <1>1 DEF Rotate, SaveEntity
<1>3. /\ old \in Identity /\ old.exists /\ b \in Identity /\ identity \in Identity /\ identity.exists
  BY <1>1, <1>2, LoadedRowExists
<1>4. PICK e : e = [old EXCEPT !.refreshToken = None0]
  OBVIOUS
<1>5. e \in Identity /\ e.exists /\ e.refreshToken = None0
      /\ e.verificationToken = old.verificationToken /\ e.resetToken = old.resetToken
  BY <1>3, <1>4, NoToken DEF Identity
<1>6. PICK n : n = Written(e, b, identity)  OBVIOUS
<1>7. n \in Identity /\ n.exists
  BY <1>3, <1>5, <1>6, WrittenRow
<1>8. PICK q : q = [authRequest[r] EXCEPT !.at = "issue"]  OBVIOUS
<1>9. identity' = n /\ Restores /\ Redeem(old.refreshToken) /\ SetAuth(r, q)
      /\ UNCHANGED <<nextToken, expired>>
  BY <1>1, <1>4, <1>6, <1>8 DEF Rotate, SaveEntity
<1>10. PICK sort \in TokenKinds : KindsHold(sort)
  BY DEF AuthIInv, OneKindEach
<1>11. ColumnsFrom(sort, n, old)
  BY <1>3, <1>5, <1>6, WrittenRow DEF ColumnsFrom
<1>12. old.refreshToken = Presented(authRequest[r])
  BY <1>1, <1>2 DEF Presented
<1>13. ASSUME old.refreshToken # None0, old.refreshToken \in TokensOf(n)
       PROVE  old.refreshToken \notin TokensOf(b) /\ old.refreshToken \in TokensOf(identity)
  <2>1. Fits(sort, old) /\ Fits(sort, b) /\ Fits(sort, identity)
    BY <1>1, <1>2, <1>10 DEF KindsHold, KeptRow
  <2>2. old.refreshToken \in Tokens /\ sort[old.refreshToken] = "refresh"
    BY <1>3, <1>13, <2>1, Columns, TokenRange DEF Fits
  <2>3. old.refreshToken = n.refreshToken
    <3>1. /\ n.verificationToken # None0 => sort[n.verificationToken] = "verification"
          /\ n.resetToken # None0 => sort[n.resetToken] = "reset"
      BY <1>3, <1>5, <1>6, <2>1, WrittenRow DEF Fits
    <3> QED BY <1>13, <2>2, <3>1 DEF TokensOf
  <2>4. b.refreshToken = None0 /\ identity.refreshToken = old.refreshToken
    BY <1>3, <1>5, <1>6, <1>13, <2>3, WrittenRow
  <2>5. old.refreshToken \notin TokensOf(b)
    BY <1>3, <1>13, <2>1, <2>2, <2>4, OneColumn
  <2> QED BY <2>4, <2>5 DEF TokensOf
<1>14. GoesOnWith(sort, r, q)
  <2>1. authRequest[r] \in AuthRow
    BY <1>2, Loaded
  <2>2. q \in AuthRow /\ q.at = "issue" /\ q.entity = old /\ q.before = b
    BY <1>1, <1>8, <2>1 DEF AuthRow
  <2>3. Fits(sort, old) /\ Issued(old) /\ Fits(sort, b) /\ Issued(b)
    BY <1>1, <1>2, <1>10 DEF KindsHold, KeptRow
  <2>4. KeptRow(sort, q)'
    BY <1>9, <2>2, <2>3 DEF KeptRow, Fits, Issued, TokensOf
  <2>5. LoadedRow(q)'
    BY <1>3, <1>7, <1>9, <2>2 DEF LoadedRow
  <2>6. LostToken(q)'
    BY <2>2 DEF LostToken, Presented
  <2> QED BY <1>9, <2>2, <2>4, <2>5, <2>6 DEF GoesOnWith, SetAuth
<1> QED BY <1>1, <1>2, <1>7, <1>9, <1>10, <1>11, <1>12, <1>13, <1>14, RedeemStep

\* The only save that adds a token: it is new, so it was never redeemed.
LEMMA ForgotKeeps ==
  ASSUME AuthIInv, NEW r \in AuthRequests, Forgot(r)
  PROVE  AuthIInv'
<1>1. PICK old, b : old = authRequest[r].entity /\ b = authRequest[r].before  OBVIOUS
<1>2. authRequest[r].at = "forgot" /\ b.exists
  BY <1>1 DEF Forgot, SaveEntity
<1>3. /\ old \in Identity /\ old.exists /\ b \in Identity /\ identity \in Identity /\ identity.exists
  BY <1>1, <1>2, LoadedRowExists
<1>4. PICK sort \in TokenKinds : KindsHold(sort)
  BY DEF AuthIInv, OneKindEach
<1>5. /\ nextToken \in Tokens /\ nextToken' \in 1 .. MaxTokens + 1 /\ nextToken < nextToken'
      /\ nextToken \in 0 .. MaxTokens
  BY <1>4, NewKind DEF Forgot
<1>6. PICK kept \in TokenKinds : /\ kept[nextToken] = "reset"
                                 /\ \A t \in Tokens : t < nextToken => kept[t] = sort[t]
  BY NewKind DEF Forgot
<1>7. PICK e : e = [old EXCEPT !.resetToken = nextToken]
  OBVIOUS
<1>8. e \in Identity /\ e.exists /\ e.resetToken = nextToken
      /\ e.refreshToken = old.refreshToken /\ e.verificationToken = old.verificationToken
  BY <1>3, <1>5, <1>7 DEF Identity
<1>9. PICK n : n = Written(e, b, identity)  OBVIOUS
<1>10. n \in Identity /\ n.exists
  BY <1>3, <1>8, <1>9, WrittenRow
<1>11. identity' = n /\ Restores /\ SetAuth(r, NoAuth) /\ UNCHANGED <<expired, redeemed>>
  BY <1>1, <1>7, <1>9 DEF Forgot, SaveEntity
<1>12. ColumnsFrom(kept, n, old)
  BY <1>3, <1>5, <1>6, <1>8, <1>9, WrittenRow DEF ColumnsFrom, IsNew
<1>13. Fits(sort, old) /\ Issued(old)
  BY <1>1, <1>2, <1>4 DEF KindsHold, KeptRow
<1>14. nextToken <= nextToken'
  BY <1>5 DEF Tokens
<1>15. RowMoves /\ Fits(kept, identity')
  BY <1>3, <1>4, <1>5, <1>6, <1>10, <1>11, <1>12, <1>13, <1>14, RowWritten
<1>16. GoesOnWith(kept, r, NoAuth)
  BY <1>11, RequestEnds
<1>17. /\ authRequest' \in [AuthRequests -> AuthRow \cup {NoAuth}]
       /\ OneKindEach' /\ LoadedOK' /\ LostTokensGone'
  BY <1>4, <1>6, <1>15, <1>16, RequestStep
<1>18. AuthTypeOK' /\ UsedGone'
  BY <1>11, <1>15, <1>17, TypeAndUse DEF AuthIInv, AuthTypeOK
<1> QED BY <1>17, <1>18 DEF AuthIInv

\* What neither time nor a step elsewhere touches.
LEMMA NothingKept ==
  ASSUME AuthIInv, UNCHANGED <<identity, nextToken, authRequest, redeemed, restored>>,
         expired' \subseteq Tokens
  PROVE  AuthIInv'
<1>1. PICK sort \in TokenKinds : KindsHold(sort)
  BY DEF AuthIInv, OneKindEach
<1>2. OneKindEach'
  <2>1. KindsHold(sort)'
    BY <1>1 DEF KindsHold, KeptRow, Fits, Issued, TokensOf
  <2> QED BY <2>1 DEF OneKindEach
<1>3. AuthTypeOK'
  BY DEF AuthIInv, AuthTypeOK, TokensOf
<1>4. LoadedOK' /\ LostTokensGone' /\ UsedGone'
  BY DEF AuthIInv, LoadedOK, LoadedRow, LostTokensGone, LostToken, Presented, Absent, TokensOf, UsedGone
<1> QED BY <1>2, <1>3, <1>4 DEF AuthIInv

LEMMA ExpiryKeeps ==
  ASSUME AuthIInv, NEW t \in Tokens, TokenExpires(t)
  PROVE  AuthIInv'
BY NothingKept DEF TokenExpires, AuthIInv, AuthTypeOK

LEMMA StutterKeeps ==
  ASSUME AuthIInv, UNCHANGED authVars
  PROVE  AuthIInv'
BY NothingKept DEF authVars, AuthIInv, AuthTypeOK

LEMMA StartHolds == AuthInit => AuthIInv
<1> SUFFICES ASSUME AuthInit PROVE AuthIInv
  OBVIOUS
<1>1. AuthTypeOK
  BY NoRow, TokenRange, AuthAssumption DEF AuthInit, AuthTypeOK, None0
<1>2. LoadedOK /\ LostTokensGone
  BY NoAuthType DEF AuthInit, LoadedOK, LoadedRow, LostTokensGone, LostToken
<1>3. OneKindEach
  <2>1. PICK sort : sort = [t \in Tokens |-> "refresh"]  OBVIOUS
  <2>2. sort \in TokenKinds
    BY <2>1 DEF TokenKinds
  <2>3. KindsHold(sort)
    BY NoRow, NoAuthType DEF AuthInit, KindsHold, KeptRow, Fits
  <2> QED BY <2>2, <2>3 DEF OneKindEach
<1>4. UsedGone
  BY DEF AuthInit, UsedGone
<1> QED BY <1>1, <1>2, <1>3, <1>4 DEF AuthIInv

LEMMA StepKeeps == AuthIInv /\ [AuthNext]_authVars => AuthIInv'
<1> SUFFICES ASSUME AuthIInv, [AuthNext]_authVars PROVE AuthIInv'
  OBVIOUS
<1>1. CASE \E r \in AuthRequests :
             \/ \E p \in Passwords : Register(r, p)
             \/ InsertIdentity(r) \/ ReissueVerification(r) \/ ReReadIdentity(r)
             \/ Activate(r) \/ Rotate(r) \/ Forgot(r) \/ Reset(r) \/ IssueTokens(r)
  BY <1>1, RegisterKeeps, InsertKeeps, UpdateKeeps, ReReadKeeps, ActivateKeeps, RotateKeeps,
     ForgotKeeps, ResetKeeps
<1>2. CASE \E r \in AuthRequests :
             \/ \E t \in Tokens : FindActivation(r, t) \/ FindRotation(r, t)
             \/ \E t \in Tokens, p \in Passwords : FindReset(r, t, p)
             \/ FindForgotten(r)
             \/ \E p \in Passwords : Login(r, p)
  BY <1>2, FindKeeps
<1>3. CASE \E t \in Tokens : TokenExpires(t)
  BY <1>3, ExpiryKeeps
<1>4. CASE UNCHANGED authVars
  BY <1>4, StutterKeeps
<1> QED BY <1>1, <1>2, <1>3, <1>4 DEF AuthNext

\* A redeemed token has gone from the row, however many requests redeem it at the
\* same time, so that no later request can present it, unless the save of an older
\* entity has written it back: activation, rotation, forgotten and reset passwords
\* (auth.service.ts:107-126, 344-410).
THEOREM RedeemedTokensAreGone == AuthSpec => []RedeemedTokenIsGone
<1>1. AuthIInv => RedeemedTokenIsGone
  BY DEF AuthIInv, UsedGone, Absent, RedeemedTokenIsGone
<1> QED BY <1>1, StartHolds, StepKeeps, PTL DEF AuthSpec

\* Nothing is written to an account that does not exist, and no column holds a
\* token that was never issued (auth.service.ts:237-306, 59-94).
THEOREM AccountsAreWellFormed == AuthSpec => []AuthTypeOK
<1>1. AuthIInv => AuthTypeOK
  BY DEF AuthIInv
<1> QED BY <1>1, StartHolds, StepKeeps, PTL DEF AuthSpec

-----------------------------------------------------------------------------
(* An active account.                                                        *)

\* An active account and its password stay, or are reset, or a stale entity is
\* saved over them.
Kept ==
  \/ \E r \in AuthRequests : Stale(r)
  \/ /\ identity'.isActive
     /\ \/ identity'.password = identity.password
        \/ \E r \in AuthRequests : authRequest[r].at = "reset" /\ authRequest'[r].at = "idle"

\* A request that ends where it would write what it has read.
LEMMA EndsFresh ==
  ASSUME AuthIInv, NEW r \in AuthRequests, SetAuth(r, NoAuth) \/ SetAuth(r, [authRequest[r] EXCEPT !.at = "issue"]),
         authRequest[r].at \in {"reissue", "activate", "rotate", "forgot", "reset"}
  PROVE  /\ authRequest'[r].at # authRequest[r].at
         /\ Stale(r) \/ identity = authRequest[r].entity
<1>1. authRequest[r] \in AuthRow
  BY Loaded
<1>2. PICK q : q = [authRequest[r] EXCEPT !.at = "issue"]  OBVIOUS
<1>3. q.at = "issue"
  BY <1>1, <1>2 DEF AuthRow
<1>4. authRequest'[r] = NoAuth \/ authRequest'[r] = q
  BY <1>2 DEF SetAuth, AuthIInv, AuthTypeOK
<1>5. authRequest'[r].at # authRequest[r].at
  BY <1>3, <1>4, NoAuthType
<1> QED BY <1>5 DEF Stale

\* The token that is issued next can stand in a column.
LEMMA NewToken ==
  ASSUME AuthIInv, Fresh
  PROVE  nextToken \in 0 .. MaxTokens
BY TokenRange DEF AuthIInv, AuthTypeOK, Fresh

LEMMA KeptByWrites ==
  ASSUME AuthIInv, identity.isActive, NEW r \in AuthRequests,
         \/ InsertIdentity(r) \/ ReissueVerification(r) \/ IssueTokens(r)
         \/ Activate(r) \/ Rotate(r) \/ Forgot(r) \/ Reset(r)
  PROVE  Kept
<1>1. identity.exists /\ identity \in Identity
  BY DEF AuthIInv, AuthTypeOK, NoIdentity
<1>2. CASE InsertIdentity(r)
  BY <1>1, <1>2 DEF InsertIdentity, Kept
<1>3. CASE ReissueVerification(r)
  <2>1. Stale(r) \/ identity = authRequest[r].entity
    BY <1>3, EndsFresh DEF ReissueVerification
  <2>2. identity # authRequest[r].entity
    BY <1>3, Loaded DEF ReissueVerification, LoadedRow
  <2> QED BY <2>1, <2>2 DEF Kept
<1>4. CASE IssueTokens(r)
  BY <1>1, <1>4 DEF IssueTokens, Identity, Kept
<1>5. CASE Activate(r)
  <2>1. Stale(r) \/ identity = authRequest[r].entity
    BY <1>5, EndsFresh DEF Activate, SaveEntity
  <2>2. ASSUME identity = authRequest[r].entity
        PROVE  identity'.isActive /\ identity'.password = identity.password
    <3>1. PICK b, e : /\ b = authRequest[r].before
                      /\ e = [identity EXCEPT !.verificationToken = None0, !.isActive = TRUE]
      OBVIOUS
    <3>2. e \in Identity /\ e.isActive /\ e.password = identity.password /\ b \in Identity
      BY <1>1, <1>5, <3>1, NoToken, NewToken, LoadedRowExists DEF Activate, SaveEntity, Identity
    <3>3. identity' = Written(e, b, identity)
      BY <1>5, <2>2, <3>1 DEF Activate, SaveEntity
    <3> QED BY <1>1, <3>2, <3>3, WrittenRow
  <2> QED BY <2>1, <2>2 DEF Kept
<1>6. CASE Rotate(r)
  <2>1. Stale(r) \/ identity = authRequest[r].entity
    BY <1>6, EndsFresh DEF Rotate, SaveEntity
  <2>2. ASSUME identity = authRequest[r].entity
        PROVE  identity'.isActive /\ identity'.password = identity.password
    <3>1. PICK b, e : /\ b = authRequest[r].before
                      /\ e = [identity EXCEPT !.refreshToken = None0]
      OBVIOUS
    <3>2. e \in Identity /\ e.isActive /\ e.password = identity.password /\ b \in Identity
      BY <1>1, <1>6, <3>1, NoToken, NewToken, LoadedRowExists DEF Rotate, SaveEntity, Identity
    <3>3. identity' = Written(e, b, identity)
      BY <1>6, <2>2, <3>1 DEF Rotate, SaveEntity
    <3> QED BY <1>1, <3>2, <3>3, WrittenRow
  <2> QED BY <2>1, <2>2 DEF Kept
<1>7. CASE Forgot(r)
  <2>1. Stale(r) \/ identity = authRequest[r].entity
    BY <1>7, EndsFresh DEF Forgot, SaveEntity
  <2>2. ASSUME identity = authRequest[r].entity
        PROVE  identity'.isActive /\ identity'.password = identity.password
    <3>1. PICK b, e : /\ b = authRequest[r].before
                      /\ e = [identity EXCEPT !.resetToken = nextToken]
      OBVIOUS
    <3>2. e \in Identity /\ e.isActive /\ e.password = identity.password /\ b \in Identity
      BY <1>1, <1>7, <3>1, NoToken, NewToken, LoadedRowExists DEF Forgot, SaveEntity, Identity
    <3>3. identity' = Written(e, b, identity)
      BY <1>7, <2>2, <3>1 DEF Forgot, SaveEntity
    <3> QED BY <1>1, <3>2, <3>3, WrittenRow
  <2> QED BY <2>1, <2>2 DEF Kept
<1>8. CASE Reset(r)
  <2>1. Stale(r) \/ identity = authRequest[r].entity
    BY <1>8, EndsFresh DEF Reset
  <2>2. ASSUME identity = authRequest[r].entity
        PROVE  identity'.isActive
    <3>1. PICK b, e : /\ b = authRequest[r].before
                      /\ e = [identity EXCEPT !.resetToken = None0]
      OBVIOUS
    <3>2. e \in Identity /\ e.isActive /\ e.password = identity.password /\ b \in Identity
      BY <1>1, <1>8, <3>1, NoToken, NewToken, LoadedRowExists DEF Reset, Identity
    <3>3. PICK m : m = Written(e, b, identity)  OBVIOUS
    <3>4. m \in Identity /\ m.isActive
      BY <1>1, <3>2, <3>3, WrittenRow
    <3>5. identity' = [m EXCEPT !.password = authRequest[r].password]
      BY <1>8, <2>2, <3>1, <3>3 DEF Reset
    <3> QED BY <3>4, <3>5 DEF Identity
  <2>3. authRequest[r].at = "reset" /\ authRequest'[r].at = "idle"
    BY <1>8, NoAuthType DEF Reset, SetAuth, AuthIInv, AuthTypeOK
  <2> QED BY <2>1, <2>2, <2>3 DEF Kept
<1> QED BY <1>2, <1>3, <1>4, <1>5, <1>6, <1>7, <1>8

LEMMA KeptByStep == AuthIInv /\ [AuthNext]_authVars => [identity.isActive => Kept]_authVars
<1> SUFFICES ASSUME AuthIInv, AuthNext, identity.isActive PROVE Kept
  OBVIOUS
<1>1. CASE \E r \in AuthRequests :
             \/ InsertIdentity(r) \/ ReissueVerification(r) \/ IssueTokens(r)
             \/ Activate(r) \/ Rotate(r) \/ Forgot(r) \/ Reset(r)
  BY <1>1, KeptByWrites
<1>2. CASE UNCHANGED identity
  BY <1>2 DEF Kept
<1>3. CASE \E r \in AuthRequests, p \in Passwords : Register(r, p) \/ Login(r, p)
  BY <1>2, <1>3 DEF Register, Login
<1>4. CASE \E r \in AuthRequests :
             \/ \E t \in Tokens : FindActivation(r, t) \/ FindRotation(r, t)
             \/ \E t \in Tokens, p \in Passwords : FindReset(r, t, p)
             \/ FindForgotten(r) \/ ReReadIdentity(r)
  BY <1>2, <1>4 DEF FindActivation, FindRotation, FindReset, FindForgotten, ReReadIdentity
<1>5. CASE \E t \in Tokens : TokenExpires(t)
  BY <1>2, <1>5 DEF TokenExpires
<1> QED BY <1>1, <1>3, <1>4, <1>5 DEF AuthNext

\* Once active, an account stays active and keeps its password until a reset, but
\* for a request that read the row before it changed (auth.service.ts:237-306).
THEOREM ActiveAccountsAreKept == AuthSpec => AccountKept
<1>1. [identity.isActive => Kept]_authVars =>
        [ identity.isActive =>
            \/ \E r \in AuthRequests : Stale(r)
            \/ /\ identity'.isActive
               /\ \/ identity'.password = identity.password
                  \/ \E r \in AuthRequests : authRequest[r].at = "reset" /\ authRequest'[r].at = "idle" ]_authVars
  BY DEF Kept
<1> QED BY <1>1, StartHolds, StepKeeps, KeptByStep, PTL DEF AuthSpec, AccountKept

-----------------------------------------------------------------------------
(***************************************************************************)
(* The cart.                                                               *)
(*                                                                         *)
(* An update loads a line and saves it several awaits later, so the        *)
(* invariant speaks of the lines that requests carry as well as of those   *)
(* in the table: an id names one line for ever, and a line that was        *)
(* bought has no id that a later line could take.                          *)
(***************************************************************************)

Active(r) == cartRequest[r].at \notin {"idle", "done"}

\* The lines that updates carry and may still save.
HeldLines ==
  {cartRequest[r].line : r \in {p \in CartRequests : Active(p) /\ cartRequest[p].op = "update"}}
KnownLines == cartLines \cup HeldLines

RequestSound(r) ==
  Active(r) =>
    /\ cartRequest[r].op = "add" => cartRequest[r].line.quantity > 0
    /\ cartRequest[r].op = "update" => cartRequest[r].line \in Line
    /\ cartRequest[r].at \in {"found", "loaded", "resolved"} => cartRow
    /\ \A l \in cartRequest[r].read : l.id < nextLine

RequestsSound == \A r \in CartRequests : RequestSound(r)

\* An id names one line for ever, and stays with its variant.
IdsNameVariants ==
  /\ \A l, m \in KnownLines : l.id = m.id => l.variant = m.variant
  /\ \A l \in KnownLines : l.id < nextLine
  /\ \A r \in CartRequests : \A l \in bought[r] : l.id < nextLine

CartIInv == CartTypeOK /\ RequestsSound /\ IdsNameVariants /\ BoughtLeavesCart

-----------------------------------------------------------------------------
\* What a request that runs carries.
LEMMA CartRequestRuns ==
  ASSUME CartIInv, NEW r \in CartRequests, Active(r)
  PROVE  cartRequest[r] \in CartRow /\ RequestSound(r)
BY DEF CartIInv, CartTypeOK, RequestsSound, Active, NoRequest, Done

\* A request that goes on as it was, to another place, or ends: the lines that
\* updates carry are among those they carried.
LEMMA CarriedLines ==
  ASSUME CartIInv, NEW r \in CartRequests, NEW q,
         cartRequest' = [cartRequest EXCEPT ![r] = q],
         q \in CartRow \cup {NoRequest, Done},
         q.at \notin {"idle", "done"} =>
           /\ Active(r) /\ q.op = cartRequest[r].op /\ q.line = cartRequest[r].line
  PROVE  HeldLines' \subseteq HeldLines
<1> SUFFICES ASSUME NEW l \in HeldLines' PROVE l \in HeldLines
  OBVIOUS
<1>1. PICK p \in CartRequests : /\ cartRequest'[p].at \notin {"idle", "done"}
                                /\ cartRequest'[p].op = "update"
                                /\ l = cartRequest'[p].line
  BY DEF HeldLines, Active
<1>2. CASE p = r
  <2>1. cartRequest'[p] = q
    BY <1>2 DEF CartIInv, CartTypeOK
  <2> QED  BY <1>1, <1>2, <2>1 DEF HeldLines, Active
<1>3. CASE p # r
  <2>1. cartRequest'[p] = cartRequest[p]
    BY <1>3 DEF CartIInv, CartTypeOK
  <2> QED  BY <1>1, <2>1 DEF HeldLines, Active
<1> QED  BY <1>2, <1>3

\* The other requests are as sound as they were, when the cart stays and no id is
\* taken back.
LEMMA OthersSound ==
  ASSUME CartIInv, NEW r \in CartRequests, NEW q,
         cartRequest' = [cartRequest EXCEPT ![r] = q],
         cartRow => cartRow', nextLine \in Nat, nextLine' \in Nat, nextLine <= nextLine',
         q.at \notin {"idle", "done"} =>
           /\ q.op = "add" => q.line.quantity > 0
           /\ q.op = "update" => q.line \in Line
           /\ q.at \in {"found", "loaded", "resolved"} => cartRow'
           /\ \A l \in q.read : l.id < nextLine'
  PROVE  RequestsSound'
<1> SUFFICES ASSUME NEW p \in CartRequests PROVE RequestSound(p)'
  BY DEF RequestsSound
<1>1. CASE p = r
  <2>1. cartRequest'[p] = q
    BY <1>1 DEF CartIInv, CartTypeOK
  <2> QED  BY <2>1 DEF RequestSound, Active
<1>2. CASE p # r
  <2>1. cartRequest'[p] = cartRequest[p]
    BY <1>2 DEF CartIInv, CartTypeOK
  <2>2. RequestSound(p)
    BY DEF CartIInv, RequestsSound
  <2>3. ASSUME Active(p), NEW l \in cartRequest[p].read
        PROVE  l.id < nextLine'
    <3>1. cartRequest[p] \in CartRow
      BY <2>3, CartRequestRuns
    <3>2. l.id \in Nat
      BY <3>1, CartAssumption DEF CartRow, Line, LineIds
    <3> QED  BY <2>2, <2>3, <3>2 DEF RequestSound
  <2> QED  BY <2>1, <2>2, <2>3 DEF RequestSound, Active
<1> QED  BY <1>1, <1>2

-----------------------------------------------------------------------------
\* A request that moves on and leaves the lines alone.
LEMMA RequestMoves ==
  ASSUME CartIInv, NEW r \in CartRequests, Active(r), NEW q,
         cartRequest' = [cartRequest EXCEPT ![r] = q],
         q \in CartRow \cup {NoRequest, Done},
         q.at \notin {"idle", "done"} =>
           /\ q.op = cartRequest[r].op /\ q.line = cartRequest[r].line
           /\ q.at \in {"found", "loaded", "resolved"} => cartRow'
           /\ q.read \subseteq cartRequest[r].read \cup cartLines,
         cartRow' \in BOOLEAN, cartRow => cartRow',
         UNCHANGED <<cartLines, nextLine, shelf, bought, revived>>
  PROVE  CartIInv'
<1> USE DEF CartIInv
<1>1. cartRequest[r] \in CartRow /\ RequestSound(r)
  BY CartRequestRuns
<1>2. HeldLines' \subseteq HeldLines
  BY CarriedLines
<1>3. nextLine \in Nat
  BY CartAssumption DEF CartTypeOK
<1>4. \A l \in cartLines : l.id < nextLine
  BY DEF IdsNameVariants, KnownLines
<1>5. RequestsSound'
  <2>1. nextLine' \in Nat /\ nextLine <= nextLine'
    BY <1>3
  <2>2. ASSUME q.at \notin {"idle", "done"}, NEW l \in q.read
        PROVE  l.id < nextLine'
    BY <1>1, <1>4, <2>2 DEF RequestSound
  <2>3. q.at \notin {"idle", "done"} =>
          /\ q.op = "add" => q.line.quantity > 0
          /\ q.op = "update" => q.line \in Line
    BY <1>1 DEF RequestSound
  <2> HIDE DEF CartIInv
  <2> QED  BY <1>3, <2>1, <2>2, <2>3, OthersSound
<1>6. IdsNameVariants'
  BY <1>2 DEF IdsNameVariants, KnownLines
<1>7. CartTypeOK'
  BY DEF CartTypeOK
<1>8. BoughtLeavesCart'
  BY DEF BoughtLeavesCart, WithId
<1> QED  BY <1>5, <1>6, <1>7, <1>8

\* FindCart, CreateCart, RefuseAdd, FindLine, ResolveCart and RefuseCart.
LEMMA CartRequestsMove ==
  ASSUME CartIInv, NEW r \in CartRequests,
         FindCart(r) \/ CreateCart(r) \/ RefuseAdd(r) \/ FindLine(r) \/ ResolveCart(r) \/ RefuseCart(r)
  PROVE  CartIInv'
<1>1. Active(r)
  BY DEF Active, FindCart, CreateCart, RefuseAdd, FindLine, ResolveCart, RefuseCart, At
<1>2. PICK q : q = cartRequest[r]
  OBVIOUS
<1>3. q \in CartRow /\ RequestSound(r)
  BY <1>1, <1>2, CartRequestRuns
<1>4. cartRow \in BOOLEAN /\ cartLines \subseteq Line
  BY DEF CartIInv, CartTypeOK
<1>5. Done.at = "done"
  BY DEF Done
<1>6. CASE FindCart(r)
  <2>1. UNCHANGED <<cartRow, cartLines, nextLine, shelf, bought, revived>>
    BY <1>6 DEF FindCart
  <2>2. \/ cartRequest' = [cartRequest EXCEPT ![r] = [q EXCEPT !.at = "noCart"]]
        \/ cartRequest' = [cartRequest EXCEPT ![r] = Done]
        \/ cartRow /\ cartRequest' = [cartRequest EXCEPT ![r] = [q EXCEPT !.at = "found", !.read = cartLines]]
        \/ cartRow /\ cartRequest' = [cartRequest EXCEPT ![r] = [q EXCEPT !.at = "found"]]
    BY <1>2, <1>6 DEF FindCart, Reaches, SetCart
  <2>3. CASE cartRequest' = [cartRequest EXCEPT ![r] = [q EXCEPT !.at = "noCart"]]
    <3>1. PICK e : e = [q EXCEPT !.at = "noCart"]
      OBVIOUS
    <3>2. e \in CartRow /\ e.at = "noCart" /\ e.op = q.op /\ e.line = q.line /\ e.read = q.read
      BY <1>3, <3>1 DEF CartRow
    <3> QED  BY <1>1, <1>2, <1>4, <2>1, <2>3, <3>1, <3>2, RequestMoves
  <2>4. CASE cartRequest' = [cartRequest EXCEPT ![r] = Done]
    BY <1>1, <1>4, <1>5, <2>1, <2>4, RequestMoves
  <2>5. CASE cartRow /\ cartRequest' = [cartRequest EXCEPT ![r] = [q EXCEPT !.at = "found", !.read = cartLines]]
    <3>1. PICK e : e = [q EXCEPT !.at = "found", !.read = cartLines]
      OBVIOUS
    <3>2. e \in CartRow /\ e.at = "found" /\ e.op = q.op /\ e.line = q.line /\ e.read = cartLines
      BY <1>3, <1>4, <3>1 DEF CartRow
    <3> QED  BY <1>1, <1>2, <1>4, <2>1, <2>5, <3>1, <3>2, RequestMoves
  <2>6. CASE cartRow /\ cartRequest' = [cartRequest EXCEPT ![r] = [q EXCEPT !.at = "found"]]
    <3>1. PICK e : e = [q EXCEPT !.at = "found"]
      OBVIOUS
    <3>2. e \in CartRow /\ e.at = "found" /\ e.op = q.op /\ e.line = q.line /\ e.read = q.read
      BY <1>3, <3>1 DEF CartRow
    <3> QED  BY <1>1, <1>2, <1>4, <2>1, <2>6, <3>1, <3>2, RequestMoves
  <2> QED  BY <2>2, <2>3, <2>4, <2>5, <2>6
<1>7. CASE CreateCart(r)
  <2>1. cartRow' = TRUE /\ UNCHANGED <<cartLines, nextLine, shelf, bought, revived>>
    BY <1>7 DEF CreateCart
  <2>2. \/ cartRequest' = [cartRequest EXCEPT ![r] = Done]
        \/ cartRequest' = [cartRequest EXCEPT ![r] = [q EXCEPT !.at = "found"]]
    BY <1>2, <1>7 DEF CreateCart, Reaches, SetCart
  <2>3. CASE cartRequest' = [cartRequest EXCEPT ![r] = Done]
    BY <1>1, <1>4, <1>5, <2>1, <2>3, RequestMoves
  <2>4. CASE cartRequest' = [cartRequest EXCEPT ![r] = [q EXCEPT !.at = "found"]]
    <3>1. PICK e : e = [q EXCEPT !.at = "found"]
      OBVIOUS
    <3>2. e \in CartRow /\ e.at = "found" /\ e.op = q.op /\ e.line = q.line /\ e.read = q.read
      BY <1>3, <3>1 DEF CartRow
    <3> QED  BY <1>1, <1>2, <1>4, <2>1, <2>4, <3>1, <3>2, RequestMoves
  <2> QED  BY <2>2, <2>3, <2>4
<1>8. CASE RefuseAdd(r) \/ FindLine(r) \/ ResolveCart(r) \/ RefuseCart(r)
  <2>1. UNCHANGED <<cartRow, cartLines, nextLine, shelf, bought, revived>>
    BY <1>8 DEF RefuseAdd, FindLine, ResolveCart, RefuseCart
  <2>2. q.at = "found" \/ q.at = "resolved"
    BY <1>2, <1>8 DEF RefuseAdd, FindLine, ResolveCart, RefuseCart, At
  <2>3. cartRow
    BY <1>1, <1>2, <1>3, <2>2 DEF RequestSound
  <2>4. \/ cartRequest' = [cartRequest EXCEPT ![r] = Done]
        \/ cartRequest' = [cartRequest EXCEPT ![r] = [q EXCEPT !.at = "loaded"]]
        \/ cartRequest' = [cartRequest EXCEPT ![r] = [q EXCEPT !.at = "resolved"]]
    BY <1>2, <1>8 DEF RefuseAdd, FindLine, ResolveCart, RefuseCart, Reaches, SetCart
  <2>5. CASE cartRequest' = [cartRequest EXCEPT ![r] = Done]
    BY <1>1, <1>4, <1>5, <2>1, <2>5, RequestMoves
  <2>6. CASE cartRequest' = [cartRequest EXCEPT ![r] = [q EXCEPT !.at = "loaded"]]
    <3>1. PICK e : e = [q EXCEPT !.at = "loaded"]
      OBVIOUS
    <3>2. e \in CartRow /\ e.at = "loaded" /\ e.op = q.op /\ e.line = q.line /\ e.read = q.read
      BY <1>3, <3>1 DEF CartRow
    <3> QED  BY <1>1, <1>2, <1>4, <2>1, <2>3, <2>6, <3>1, <3>2, RequestMoves
  <2>7. CASE cartRequest' = [cartRequest EXCEPT ![r] = [q EXCEPT !.at = "resolved"]]
    <3>1. PICK e : e = [q EXCEPT !.at = "resolved"]
      OBVIOUS
    <3>2. e \in CartRow /\ e.at = "resolved" /\ e.op = q.op /\ e.line = q.line /\ e.read = q.read
      BY <1>3, <3>1 DEF CartRow
    <3> QED  BY <1>1, <1>2, <1>4, <2>1, <2>3, <2>7, <3>1, <3>2, RequestMoves
  <2> QED  BY <2>4, <2>5, <2>6, <2>7
<1> QED  BY <1>6, <1>7, <1>8

-----------------------------------------------------------------------------
\* A request arrives: an update carries a line of the cart.
LEMMA CartRequestArrives ==
  ASSUME CartIInv, NEW r \in CartRequests, NEW op \in {"add", "update", "remove", "clear", "checkout"},
         NEW line \in [id : 0 .. MaxLines, variant : CartVariants, quantity : Nat],
         Ask(r, op, line),
         op = "add" => line.quantity > 0,
         op = "update" => \E l \in cartLines : line.id = l.id /\ line.variant = l.variant /\ line \in Line
  PROVE  CartIInv'
<1>1. PICK q : q = [op |-> op, at |-> "asked", line |-> line, read |-> {}]
  OBVIOUS
<1>2. q \in CartRow /\ q.at = "asked" /\ q.op = op /\ q.line = line /\ q.read = {}
  BY <1>1 DEF CartRow
<1>3. /\ cartRequest' = [cartRequest EXCEPT ![r] = q]
      /\ UNCHANGED <<cartRow, cartLines, nextLine, shelf, bought, revived>>
  BY <1>1 DEF Ask, SetCart
<1>4. nextLine \in Nat /\ nextLine' \in Nat /\ nextLine <= nextLine'
  BY <1>3, CartAssumption DEF CartIInv, CartTypeOK
<1>5. RequestsSound'
  BY <1>2, <1>3, <1>4, OthersSound
<1>6. \A k \in KnownLines' : \E l \in KnownLines : k.id = l.id /\ k.variant = l.variant
  <2> SUFFICES ASSUME NEW k \in HeldLines'
               PROVE  \E l \in KnownLines : k.id = l.id /\ k.variant = l.variant
    BY <1>3 DEF KnownLines
  <2>1. PICK p \in CartRequests : /\ cartRequest'[p].at \notin {"idle", "done"}
                                  /\ cartRequest'[p].op = "update"
                                  /\ k = cartRequest'[p].line
    BY DEF HeldLines, Active
  <2>2. CASE p = r
    <3>1. cartRequest'[p] = q
      BY <1>3, <2>2 DEF CartIInv, CartTypeOK
    <3> QED  BY <1>2, <2>1, <3>1 DEF KnownLines
  <2>3. CASE p # r
    <3>1. cartRequest'[p] = cartRequest[p]
      BY <1>3, <2>3 DEF CartIInv, CartTypeOK
    <3>2. k \in HeldLines
      BY <2>1, <3>1 DEF HeldLines, Active
    <3> QED  BY <3>2 DEF KnownLines
  <2> QED  BY <2>2, <2>3
<1>7. IdsNameVariants'
  BY <1>3, <1>6 DEF CartIInv, IdsNameVariants
<1>8. CartTypeOK'
  BY <1>2, <1>3 DEF CartIInv, CartTypeOK
<1>9. BoughtLeavesCart'
  BY <1>3 DEF CartIInv, BoughtLeavesCart, WithId
<1> QED  BY <1>5, <1>7, <1>8, <1>9 DEF CartIInv

\* What the customer asks.
LEMMA CustomersAsk ==
  ASSUME CartIInv, NEW r \in CartRequests, CustomerAsks(r)
  PROVE  CartIInv'
<1>1. cartLines \subseteq Line
  BY DEF CartIInv, CartTypeOK
<1>2. LineIds \subseteq 0 .. MaxLines
  BY CartAssumption DEF LineIds
<1>3. ASSUME NEW v \in CartVariants, NEW n \in 1 .. MaxQuantity, AskAdd(r, v, n)
      PROVE  CartIInv'
  <2>1. PICK line : line = [id |-> 0, variant |-> v, quantity |-> n]
    OBVIOUS
  <2>2. line \in [id : 0 .. MaxLines, variant : CartVariants, quantity : Nat] /\ line.quantity > 0
    BY <2>1, CartAssumption
  <2>3. Ask(r, "add", line)
    BY <1>3, <2>1 DEF AskAdd
  <2> QED  BY <2>2, <2>3, CartRequestArrives
<1>4. ASSUME NEW l \in cartLines, NEW n \in 1 .. MaxQuantity, AskUpdate(r, l, n)
      PROVE  CartIInv'
  <2>1. PICK line : line = [l EXCEPT !.quantity = n]
    OBVIOUS
  <2>2. line \in Line /\ line.id = l.id /\ line.variant = l.variant
    BY <1>1, <2>1, CartAssumption DEF Line
  <2>3. line \in [id : 0 .. MaxLines, variant : CartVariants, quantity : Nat]
    BY <1>2, <2>2 DEF Line
  <2>4. Ask(r, "update", line)
    BY <1>4, <2>1 DEF AskUpdate
  <2> QED  BY <2>2, <2>3, <2>4, CartRequestArrives
<1>5. ASSUME NEW l \in cartLines, Ask(r, "remove", l)
      PROVE  CartIInv'
  <2>1. l \in [id : 0 .. MaxLines, variant : CartVariants, quantity : Nat]
    BY <1>1, <1>2 DEF Line
  <2> QED  BY <1>5, <2>1, CartRequestArrives
<1>6. ASSUME NEW op \in {"clear", "checkout"}, Ask(r, op, NoLine)
      PROVE  CartIInv'
  <2>1. NoLine \in [id : 0 .. MaxLines, variant : CartVariants, quantity : Nat]
    BY CartAssumption DEF NoLine
  <2> QED  BY <1>6, <2>1, CartRequestArrives
<1> QED  BY <1>3, <1>4, <1>5, <1>6 DEF CustomerAsks

-----------------------------------------------------------------------------
\* A request that ends by writing lines: every line it leaves or writes is known,
\* or has the next id.
LEMMA CartRequestWrites ==
  ASSUME CartIInv, NEW r \in CartRequests,
         cartRequest' = [cartRequest EXCEPT ![r] = Done],
         cartLines' \subseteq Line,
         \A l, m \in cartLines' : l.id = m.id \/ l.variant = m.variant => l = m,
         cartLines' # {} => cartRow, cartRow' = cartRow,
         nextLine' \in {nextLine, nextLine + 1}, nextLine' \in 1 .. MaxLines + 1,
         \A k \in cartLines' : \/ \E l \in KnownLines : k.id = l.id /\ k.variant = l.variant
                               \/ k.id = nextLine /\ nextLine' = nextLine + 1
  PROVE  /\ RequestsSound'
         /\ \A l, m \in KnownLines' : l.id = m.id => l.variant = m.variant
         /\ \A l \in KnownLines' : l.id < nextLine'
         /\ cartRequest' \in [CartRequests -> CartRow \cup {NoRequest, Done}]
<1>1. Done.at = "done"
  BY DEF Done
<1>2. nextLine \in Nat /\ nextLine' \in Nat /\ nextLine <= nextLine'
  BY CartAssumption DEF CartIInv, CartTypeOK
<1>3. RequestsSound'
  BY <1>1, <1>2, OthersSound
<1>4. HeldLines' \subseteq HeldLines
  BY <1>1, CarriedLines
<1>5. \A k \in KnownLines' : \/ \E l \in KnownLines : k.id = l.id /\ k.variant = l.variant
                             \/ k \in cartLines' /\ k.id = nextLine /\ nextLine' = nextLine + 1
  BY <1>4 DEF KnownLines
<1>6. \A l, m \in KnownLines : l.id = m.id => l.variant = m.variant
  BY DEF CartIInv, IdsNameVariants
<1>7. \A l \in KnownLines : l.id < nextLine
  BY DEF CartIInv, IdsNameVariants
<1>8. ASSUME NEW k \in KnownLines', NEW m \in KnownLines', k.id = m.id
      PROVE  k.variant = m.variant
  <2>1. CASE k.id = nextLine
    <3>1. \A l \in KnownLines : l.id # nextLine
      BY <1>2, <1>7
    <3>2. k \in cartLines' /\ m \in cartLines'
      BY <1>5, <1>8, <2>1, <3>1
    <3> QED  BY <1>8, <3>2
  <2>2. CASE k.id # nextLine
    BY <1>5, <1>6, <1>8, <2>2
  <2> QED  BY <2>1, <2>2
<1>9. ASSUME NEW k \in KnownLines'
      PROVE  k.id < nextLine'
  <2>1. CASE k.id = nextLine /\ nextLine' = nextLine + 1
    BY <1>2, <2>1
  <2>2. CASE \E l \in KnownLines : k.id = l.id
    <3>1. KnownLines' \subseteq Line \cup HeldLines
      BY <1>4 DEF KnownLines
    <3>2. \A l \in HeldLines : l \in Line
      BY DEF HeldLines, CartIInv, RequestsSound, RequestSound, Active
    <3>3. k.id \in Int
      BY <3>1, <3>2, CartAssumption DEF Line, LineIds
    <3> QED  BY <1>2, <1>7, <2>2, <3>3
  <2> QED  BY <1>5, <2>1, <2>2
<1>10. cartRequest' \in [CartRequests -> CartRow \cup {NoRequest, Done}]
  BY DEF CartIInv, CartTypeOK
<1> QED  BY <1>3, <1>8, <1>9, <1>10

\* addItem: the line merges with that of its variant, or takes the next id.
LEMMA LineAdded ==
  ASSUME CartIInv, NEW r \in CartRequests, AddLine(r)
  PROVE  CartIInv'
<1>1. PICK q : q = cartRequest[r]
  OBVIOUS
<1>2. PICK v : v = q.line.variant
  OBVIOUS
<1>3. PICK new : new = Merged(r)
  OBVIOUS
<1>4. /\ q.at = "found" /\ q.op = "add"
      /\ InCart(v) # {} \/ nextLine <= MaxLines
      /\ cartLines' = (cartLines \ InCart(v)) \cup {new}
      /\ nextLine' = IF InCart(v) = {} THEN nextLine + 1 ELSE nextLine
      /\ cartRequest' = [cartRequest EXCEPT ![r] = Done]
      /\ UNCHANGED <<cartRow, shelf, bought, revived>>
  BY <1>1, <1>2, <1>3 DEF AddLine, At, SetCart
<1>5. Active(r)
  BY <1>1, <1>4 DEF Active
<1>6. q \in CartRow /\ q.line.quantity > 0 /\ cartRow
  BY <1>1, <1>4, <1>5, CartRequestRuns DEF RequestSound
<1>7. q.line \in [id : 0 .. MaxLines, variant : CartVariants, quantity : Nat]
  BY <1>6 DEF CartRow
<1>8. cartLines \subseteq Line /\ nextLine \in 1 .. MaxLines + 1 /\ MaxLines \in Nat
  BY CartAssumption DEF CartIInv, CartTypeOK
<1>9. \A l, m \in cartLines : l.id = m.id \/ l.variant = m.variant => l = m
  BY DEF CartIInv, CartTypeOK
<1>10. \A l \in cartLines : l.id < nextLine
  BY DEF CartIInv, IdsNameVariants, KnownLines
<1>11. /\ new \in Line /\ new.variant = v
       /\ InCart(v) = {} => new.id = nextLine
       /\ InCart(v) # {} => \E l \in InCart(v) : l.id = new.id
  <2>1. CASE InCart(v) = {}
    <3>1. new = [q.line EXCEPT !.id = nextLine]
      BY <1>1, <1>2, <1>3, <2>1 DEF Merged
    <3> QED  BY <1>2, <1>4, <1>6, <1>7, <1>8, <2>1, <3>1 DEF Line, LineIds
  <2>2. CASE InCart(v) # {}
    <3>1. PICK old : old = CHOOSE l \in cartLines : l.variant = q.line.variant
      OBVIOUS
    <3>2. old \in cartLines /\ old.variant = v
      BY <1>2, <2>2, <3>1 DEF InCart
    <3>3. new = [old EXCEPT !.quantity = @ + q.line.quantity]
      BY <1>1, <1>2, <1>3, <2>2, <3>1 DEF Merged
    <3> QED  BY <1>6, <1>7, <1>8, <2>2, <3>2, <3>3 DEF Line, InCart
  <2> QED  BY <2>1, <2>2
<1>12. \A l, m \in cartLines' : l.id = m.id \/ l.variant = m.variant => l = m
  <2>1. ASSUME NEW l \in cartLines \ InCart(v)
        PROVE  l.id # new.id /\ l.variant # new.variant
    <3>1. l.variant # v
      BY <2>1 DEF InCart
    <3>2. l.id # new.id
      BY <1>8, <1>9, <1>10, <1>11, <3>1 DEF InCart, Line, LineIds
    <3> QED  BY <1>11, <3>1, <3>2
  <2> QED  BY <1>4, <1>9, <2>1
<1>13. nextLine' \in {nextLine, nextLine + 1} /\ nextLine' \in 1 .. MaxLines + 1
  BY <1>4, <1>8
<1>14. \A k \in cartLines' : \/ \E l \in KnownLines : k.id = l.id /\ k.variant = l.variant
                             \/ k.id = nextLine /\ nextLine' = nextLine + 1
  BY <1>4, <1>11 DEF KnownLines, InCart
<1>15. cartLines' \subseteq Line
  BY <1>4, <1>8, <1>11
<1>16. /\ RequestsSound'
       /\ \A l, m \in KnownLines' : l.id = m.id => l.variant = m.variant
       /\ \A l \in KnownLines' : l.id < nextLine'
       /\ cartRequest' \in [CartRequests -> CartRow \cup {NoRequest, Done}]
  BY <1>4, <1>6, <1>12, <1>13, <1>14, <1>15, CartRequestWrites
<1>17. \A p \in CartRequests : \A l \in bought[p] : l \in Line /\ l.id < nextLine
  BY DEF CartIInv, CartTypeOK, IdsNameVariants
<1>18. IdsNameVariants'
  BY <1>4, <1>8, <1>13, <1>16, <1>17 DEF IdsNameVariants, Line, LineIds
<1>19. BoughtLeavesCart'
  <2> SUFFICES ASSUME NEW p \in CartRequests, NEW l \in bought[p], NEW k \in cartLines', k.id = l.id
               PROVE  l.id \in revived
    BY <1>4 DEF BoughtLeavesCart, WithId
  <2>1. l.id < nextLine
    BY <1>17
  <2>2. \E m \in cartLines : m.id = l.id
    BY <1>4, <1>8, <1>11, <1>17, <2>1 DEF InCart, Line, LineIds
  <2> QED  BY <2>2 DEF CartIInv, BoughtLeavesCart, WithId
<1>20. CartTypeOK'
  BY <1>4, <1>6, <1>12, <1>13, <1>15, <1>16 DEF CartIInv, CartTypeOK
<1> QED  BY <1>16, <1>18, <1>19, <1>20 DEF CartIInv

\* updateItem saves the line it has read, or inserts it again.
LEMMA LineSaved ==
  ASSUME CartIInv, NEW r \in CartRequests, SaveLine(r)
  PROVE  CartIInv'
<1>1. PICK q : q = cartRequest[r]
  OBVIOUS
<1>2. PICK line : line = q.line
  OBVIOUS
<1>3. /\ q.at = "loaded" /\ q.op = "update"
      /\ cartRequest' = [cartRequest EXCEPT ![r] = Done]
      /\ UNCHANGED <<cartRow, nextLine, shelf, bought>>
      /\ \/ UNCHANGED <<cartLines, revived>>
         \/ /\ WithId(line.id) # {} \/ InCart(line.variant) = {}
            /\ cartLines' = (cartLines \ WithId(line.id)) \cup {line}
            /\ revived' = IF WithId(line.id) = {} THEN revived \cup {line.id} ELSE revived
  BY <1>1, <1>2 DEF SaveLine, At, SetCart
<1>4. Active(r)
  BY <1>1, <1>3 DEF Active
<1>5. line \in Line /\ cartRow
  BY <1>1, <1>2, <1>3, <1>4, CartRequestRuns DEF RequestSound
<1>6. line \in HeldLines
  BY <1>1, <1>2, <1>3, <1>4 DEF HeldLines
<1>7. cartLines \subseteq Line /\ nextLine \in 1 .. MaxLines + 1 /\ revived \subseteq LineIds
  BY DEF CartIInv, CartTypeOK
<1>8. \A l, m \in cartLines : l.id = m.id \/ l.variant = m.variant => l = m
  BY DEF CartIInv, CartTypeOK
<1>9. \A l \in cartLines : l.id = line.id => l.variant = line.variant
  BY <1>6 DEF CartIInv, IdsNameVariants, KnownLines
<1>10. cartLines' \subseteq cartLines \cup {line}
  BY <1>3
<1>11. \A l, m \in cartLines' : l.id = m.id \/ l.variant = m.variant => l = m
  <2>1. CASE cartLines' = cartLines
    BY <1>8, <2>1
  <2>2. CASE /\ WithId(line.id) # {} \/ InCart(line.variant) = {}
             /\ cartLines' = (cartLines \ WithId(line.id)) \cup {line}
    <3>1. ASSUME NEW l \in cartLines \ WithId(line.id)
          PROVE  l.id # line.id /\ l.variant # line.variant
      BY <1>8, <1>9, <2>2 DEF WithId, InCart
    <3> QED  BY <1>8, <2>2, <3>1
  <2> QED  BY <1>3, <2>1, <2>2
<1>12. \A k \in cartLines' : \E l \in KnownLines : k.id = l.id /\ k.variant = l.variant
  BY <1>6, <1>10 DEF KnownLines
<1>13. cartLines' \subseteq Line /\ nextLine' \in {nextLine, nextLine + 1} /\ nextLine' \in 1 .. MaxLines + 1
  BY <1>3, <1>5, <1>7, <1>10
<1>14. /\ RequestsSound'
       /\ \A l, m \in KnownLines' : l.id = m.id => l.variant = m.variant
       /\ \A l \in KnownLines' : l.id < nextLine'
       /\ cartRequest' \in [CartRequests -> CartRow \cup {NoRequest, Done}]
  BY <1>3, <1>5, <1>11, <1>12, <1>13, CartRequestWrites
<1>15. IdsNameVariants'
  BY <1>3, <1>14 DEF CartIInv, IdsNameVariants
<1>16. BoughtLeavesCart'
  <2> SUFFICES ASSUME NEW p \in CartRequests, NEW l \in bought[p], NEW k \in cartLines', k.id = l.id
               PROVE  l.id \in revived'
    BY <1>3 DEF BoughtLeavesCart, WithId
  <2>1. revived \subseteq revived'
    BY <1>3
  <2>2. CASE \E m \in cartLines : m.id = l.id
    BY <2>1, <2>2 DEF CartIInv, BoughtLeavesCart, WithId
  <2>3. CASE ~ \E m \in cartLines : m.id = l.id
    <3>1. k = line /\ cartLines' # cartLines
      BY <1>10, <2>3
    <3>2. WithId(line.id) = {}
      BY <2>3, <3>1 DEF WithId
    <3> QED  BY <1>3, <3>1, <3>2
  <2> QED  BY <2>2, <2>3
<1>17. revived' \subseteq LineIds
  BY <1>3, <1>5, <1>7 DEF Line
<1>18. CartTypeOK'
  BY <1>3, <1>5, <1>11, <1>13, <1>14, <1>17 DEF CartIInv, CartTypeOK
<1> QED  BY <1>14, <1>15, <1>16, <1>18 DEF CartIInv

\* removeItem and clear take lines out of the cart.
LEMMA LinesRemoved ==
  ASSUME CartIInv, NEW r \in CartRequests, RemoveLine(r) \/ ClearCart(r)
  PROVE  CartIInv'
<1>1. /\ cartLines' \subseteq cartLines
      /\ cartRequest' = [cartRequest EXCEPT ![r] = Done]
      /\ UNCHANGED <<cartRow, nextLine, shelf, bought, revived>>
  BY DEF RemoveLine, ClearCart, SetCart
<1>2. /\ cartLines \subseteq Line /\ nextLine \in 1 .. MaxLines + 1
      /\ cartLines # {} => cartRow
      /\ \A l, m \in cartLines : l.id = m.id \/ l.variant = m.variant => l = m
  BY DEF CartIInv, CartTypeOK
<1>3. /\ cartLines' \subseteq Line /\ nextLine' \in {nextLine, nextLine + 1} /\ nextLine' \in 1 .. MaxLines + 1
      /\ cartLines' # {} => cartRow
      /\ \A l, m \in cartLines' : l.id = m.id \/ l.variant = m.variant => l = m
  BY <1>1, <1>2
<1>4. \A k \in cartLines' : \E l \in KnownLines : k.id = l.id /\ k.variant = l.variant
  BY <1>1 DEF KnownLines
<1>5. /\ RequestsSound'
      /\ \A l, m \in KnownLines' : l.id = m.id => l.variant = m.variant
      /\ \A l \in KnownLines' : l.id < nextLine'
      /\ cartRequest' \in [CartRequests -> CartRow \cup {NoRequest, Done}]
  BY <1>1, <1>3, <1>4, CartRequestWrites
<1>6. IdsNameVariants'
  BY <1>1, <1>5 DEF CartIInv, IdsNameVariants
<1>7. BoughtLeavesCart'
  BY <1>1 DEF CartIInv, BoughtLeavesCart, WithId
<1>8. CartTypeOK'
  BY <1>1, <1>3, <1>5 DEF CartIInv, CartTypeOK
<1> QED  BY <1>5, <1>6, <1>7, <1>8 DEF CartIInv

\* checkout orders what it has read and empties the cart.
LEMMA CartOrdered ==
  ASSUME CartIInv, NEW r \in CartRequests, OrderCart(r)
  PROVE  CartIInv'
<1>1. PICK lines : lines = cartRequest[r].read
  OBVIOUS
<1>2. /\ cartRequest[r].at = "resolved" /\ CanBuy(lines)
      /\ shelf' = Without(lines)
      /\ bought' = [bought EXCEPT ![r] = lines]
      /\ cartLines' = {}
      /\ cartRequest' = [cartRequest EXCEPT ![r] = Done]
      /\ UNCHANGED <<cartRow, nextLine, revived>>
  BY <1>1 DEF OrderCart, At, SetCart
<1>3. Active(r)
  BY <1>2 DEF Active
<1>4. lines \subseteq Line /\ \A l \in lines : l.id < nextLine
  BY <1>1, <1>3, CartRequestRuns DEF RequestSound, CartRow
<1>5. nextLine \in 1 .. MaxLines + 1
  BY DEF CartIInv, CartTypeOK
<1>6. /\ RequestsSound'
      /\ \A l, m \in KnownLines' : l.id = m.id => l.variant = m.variant
      /\ \A l \in KnownLines' : l.id < nextLine'
      /\ cartRequest' \in [CartRequests -> CartRow \cup {NoRequest, Done}]
  BY <1>2, <1>5, CartRequestWrites
<1>7. \A p \in CartRequests : bought'[p] = IF p = r THEN lines ELSE bought[p]
  BY <1>2 DEF CartIInv, CartTypeOK
<1>8. IdsNameVariants'
  <2>1. ASSUME NEW p \in CartRequests, NEW l \in bought'[p]
        PROVE  l.id < nextLine'
    BY <1>2, <1>4, <1>7 DEF CartIInv, IdsNameVariants
  <2> QED  BY <1>6, <2>1 DEF IdsNameVariants
<1>9. BoughtLeavesCart'
  BY <1>2 DEF BoughtLeavesCart, WithId
<1>10. shelf' \in [CartVariants -> [stock : Nat, active : BOOLEAN]]
  <2> SUFFICES ASSUME NEW v \in CartVariants
               PROVE  shelf'[v] \in [stock : Nat, active : BOOLEAN]
    BY <1>2 DEF Without
  <2>1. PICK s : s = shelf[v]
    OBVIOUS
  <2>2. s \in [stock : Nat, active : BOOLEAN]
    BY <2>1 DEF CartIInv, CartTypeOK
  <2>3. CASE \A l \in lines : l.variant # v
    BY <1>2, <2>1, <2>2, <2>3 DEF Without
  <2>4. CASE ~ \A l \in lines : l.variant # v
    <3>1. PICK sold : sold = CHOOSE l \in lines : l.variant = v
      OBVIOUS
    <3>2. sold \in lines /\ sold.variant = v
      BY <2>4, <3>1
    <3>3. sold.quantity \in Nat /\ sold.quantity <= s.stock
      BY <1>2, <1>4, <2>1, <3>2 DEF CanBuy, Line
    <3>4. shelf'[v] = [s EXCEPT !.stock = @ - sold.quantity]
      BY <1>2, <2>1, <2>4, <3>1 DEF Without
    <3> QED  BY <2>2, <3>3, <3>4
  <2> QED  BY <2>3, <2>4
<1>11. bought' \in [CartRequests -> SUBSET Line]
  BY <1>2, <1>4 DEF CartIInv, CartTypeOK
<1>12. CartTypeOK'
  BY <1>2, <1>6, <1>10, <1>11 DEF CartIInv, CartTypeOK
<1> QED  BY <1>6, <1>8, <1>9, <1>12 DEF CartIInv

\* The stock and the switch of a variant change by other hands.
LEMMA ShelfChanges ==
  ASSUME CartIInv, NEW v \in CartVariants,
         SwitchVariant(v) \/ \E n \in 0 .. MaxStock : StockChanges(v, n)
  PROVE  CartIInv'
<1>1. UNCHANGED <<cartRow, cartLines, nextLine, cartRequest, bought, revived>>
  BY DEF SwitchVariant, StockChanges
<1>2. shelf \in [CartVariants -> [stock : Nat, active : BOOLEAN]]
  BY DEF CartIInv, CartTypeOK
<1>3. shelf' \in [CartVariants -> [stock : Nat, active : BOOLEAN]]
  <2>1. CASE SwitchVariant(v)
    <3>1. PICK s : s = [shelf[v] EXCEPT !.active = ~@]
      OBVIOUS
    <3>2. s \in [stock : Nat, active : BOOLEAN]
      BY <1>2, <3>1
    <3>3. shelf' = [shelf EXCEPT ![v] = s]
      BY <2>1, <3>1 DEF SwitchVariant
    <3> QED  BY <1>2, <3>2, <3>3
  <2>2. ASSUME NEW n \in 0 .. MaxStock, StockChanges(v, n)
        PROVE  shelf' \in [CartVariants -> [stock : Nat, active : BOOLEAN]]
    <3>1. PICK s : s = [shelf[v] EXCEPT !.stock = n]
      OBVIOUS
    <3>2. s \in [stock : Nat, active : BOOLEAN]
      BY <1>2, <3>1
    <3>3. shelf' = [shelf EXCEPT ![v] = s]
      BY <2>2, <3>1 DEF StockChanges
    <3> QED  BY <1>2, <3>2, <3>3
  <2> QED  BY <2>1, <2>2
<1> QED
  BY <1>1, <1>3 DEF CartIInv, CartTypeOK, RequestsSound, RequestSound, Active, IdsNameVariants,
                    KnownLines, HeldLines, BoughtLeavesCart, WithId

LEMMA CartStart == CartInit => CartIInv
<1> SUFFICES ASSUME CartInit PROVE CartIInv
  OBVIOUS
<1>1. \A r \in CartRequests : ~Active(r)
  BY DEF CartInit, NoRequest, Active
<1>2. HeldLines = {} /\ KnownLines = {}
  BY <1>1 DEF CartInit, HeldLines, KnownLines
<1>3. CartTypeOK
  <2>1. cartRow \in BOOLEAN /\ nextLine \in 1 .. MaxLines + 1
    <3>1. cartRow \in BOOLEAN
      BY Zenon DEF CartInit
    <3>2. nextLine = 1 /\ MaxLines \in Nat
      BY CartAssumption, Zenon DEF CartInit
    <3> QED  BY <3>1, <3>2
  <2>2. shelf \in [CartVariants -> [stock : Nat, active : BOOLEAN]]
    BY CartAssumption DEF CartInit
  <2>3. cartRequest \in [CartRequests -> CartRow \cup {NoRequest, Done}]
    BY DEF CartInit
  <2>4. bought \in [CartRequests -> SUBSET Line]
    BY DEF CartInit
  <2> QED  BY <2>1, <2>2, <2>3, <2>4 DEF CartInit, CartTypeOK
<1> QED
  BY <1>1, <1>2, <1>3 DEF CartInit, CartIInv, RequestsSound, RequestSound, IdsNameVariants,
                          BoughtLeavesCart

LEMMA CartSteps == CartIInv /\ [CartNext]_cartVars => CartIInv'
<1> SUFFICES ASSUME CartIInv, [CartNext]_cartVars PROVE CartIInv'
  OBVIOUS
<1>1. CASE UNCHANGED cartVars
  BY <1>1 DEF cartVars, CartIInv, CartTypeOK, RequestsSound, RequestSound, Active, IdsNameVariants,
              KnownLines, HeldLines, BoughtLeavesCart, WithId
<1>2. ASSUME NEW r \in CartRequests, CustomerAsks(r) PROVE CartIInv'
  BY <1>2, CustomersAsk
<1>3. ASSUME NEW r \in CartRequests, CartStep(r) PROVE CartIInv'
  BY <1>3, CartRequestsMove, LineAdded, LineSaved, LinesRemoved, CartOrdered DEF CartStep
<1>4. ASSUME NEW v \in CartVariants,
             SwitchVariant(v) \/ \E n \in 0 .. MaxStock : StockChanges(v, n)
      PROVE  CartIInv'
  BY <1>4, ShelfChanges
<1> QED  BY <1>1, <1>2, <1>3, <1>4 DEF CartNext

\* The rows of a cart are well formed however many tabs and devices use it: one
\* line per variant, and no stock below zero.
THEOREM CartsTypeCorrect == CartSpec => []CartTypeOK
<1>1. CartIInv => CartTypeOK
  BY DEF CartIInv
<1> QED  BY CartStart, CartSteps, <1>1, PTL DEF CartSpec

\* What has been ordered has left the cart (checkout, persistOrder): no later
\* checkout orders it again, unless an update that had read the line saved it back.
THEOREM CartNeverOrderedTwice == CartSpec => []BoughtLeavesCart
<1>1. CartIInv => BoughtLeavesCart
  BY DEF CartIInv
<1> QED  BY CartStart, CartSteps, <1>1, PTL DEF CartSpec

-----------------------------------------------------------------------------
(***************************************************************************)
(* Products and their images.                                              *)
(*                                                                         *)
(* A request looks, decides and only then removes a row or an image. The   *)
(* invariant says what it saw and what it still may assume: the images it  *)
(* is about are its own, and what it removes may be spared by what it      *)
(* read.                                                                   *)
(***************************************************************************)

Runs(r)  == adminRequest[r].at # "idle"
\* An image that is made and not yet a row.
Adds(r)  == adminRequest[r].at \in {"images", "upload", "attach"}
Drops(r) == adminRequest[r].at \in {"asset", "row"}

\* What a request has read and decided, and what it is about.
AdminSound(r) ==
  /\ Runs(r) => About(r) \cup Seen(r) \subseteq madeImages
  /\ Adds(r) => About(r) \cap images = {}
  /\ adminRequest[r].at \in {"images", "upload"} => About(r) \cap hosted = {}
  /\ adminRequest[r].at = "attach" => About(r) \cap hosted \subseteq assets
  /\ adminRequest[r].at \in {"save", "update"} =>
       /\ adminRequest[r].product \in Product
       /\ adminRequest[r].product.status = "PUBLISHED" => adminRequest[r].product.priced
  /\ Drops(r) =>
       /\ \E i \in Images : About(r) = {i}
       /\ CanRemoveImage(adminRequest[r].read, Seen(r))

AdminsSound == \A r \in AdminRequests : AdminSound(r)

\* An image that a request adds is known to no other.
AddsApart ==
  \A r, s \in AdminRequests :
    r # s /\ Adds(r) /\ Runs(s) => About(r) \cap (About(s) \cup Seen(s)) = {}

CatalogIInv == CatalogTypeOK /\ AdminsSound /\ AddsApart /\ ImageHasAsset

-----------------------------------------------------------------------------
\* The images that a request knows of.
Mine(r) == IF Runs(r) THEN About(r) \cup Seen(r) ELSE {}

LEMMA AdminRuns ==
  ASSUME CatalogIInv, NEW r \in AdminRequests, Runs(r)
  PROVE  adminRequest[r] \in AdminRow /\ AdminSound(r) /\ Mine(r) = About(r) \cup Seen(r)
BY DEF CatalogIInv, CatalogTypeOK, AdminsSound, Runs, NoAdmin, Mine

LEMMA MineAreMade ==
  ASSUME CatalogIInv, NEW r \in AdminRequests
  PROVE  Mine(r) \subseteq madeImages
BY DEF CatalogIInv, AdminsSound, AdminSound, Mine

\* A step that touches no images but those its request knows of leaves what the
\* other requests rely on.
LEMMA OtherAdminsSound ==
  ASSUME CatalogIInv, NEW r \in AdminRequests, NEW s \in AdminRequests, r # s,
         adminRequest'[s] = adminRequest[s],
         madeImages \subseteq madeImages',
         images' \subseteq images \cup Mine(r),
         hosted' \subseteq hosted \cup Mine(r),
         assets \subseteq assets' \cup Mine(r)
  PROVE  AdminSound(s)'
<1>1. AdminSound(s)
  BY DEF CatalogIInv, AdminsSound
<1>2. Adds(s) => About(s) \cap Mine(r) = {}
  BY DEF CatalogIInv, AddsApart, Mine
<1>3. About(s)' = About(s) /\ Seen(s)' = Seen(s)
  BY DEF About, Seen
<1>4. (Adds(s) <=> Adds(s)') /\ (Drops(s) <=> Drops(s)') /\ (Runs(s) <=> Runs(s)')
  BY DEF Adds, Drops, Runs
<1>5. Adds(s) => About(s) \cap images' = {}
  BY <1>1, <1>2 DEF AdminSound
<1>6. adminRequest[s].at \in {"images", "upload"} => About(s) \cap hosted' = {}
  BY <1>1, <1>2 DEF AdminSound, Adds
<1>7. adminRequest[s].at = "attach" => About(s) \cap hosted' \subseteq assets'
  BY <1>1, <1>2 DEF AdminSound, Adds
<1>8. Runs(s) => About(s) \cup Seen(s) \subseteq madeImages'
  BY <1>1 DEF AdminSound
<1> QED  BY <1>1, <1>3, <1>4, <1>5, <1>6, <1>7, <1>8 DEF AdminSound

\* An image that is added stays apart when a request keeps to what it knows, what
\* the product shows, or an image that was never made.
LEMMA AddsStayApart ==
  ASSUME CatalogIInv, NEW r \in AdminRequests, NEW q,
         adminRequest' = [adminRequest EXCEPT ![r] = q],
         q \in AdminRow \cup {NoAdmin},
         q.at # "idle" =>
           \/ q.about \cup q.seen \subseteq Mine(r) \cup images
           \/ (q.about \cup q.seen) \cap madeImages = {},
         q.at \in {"images", "upload", "attach"} =>
           \/ Adds(r) /\ q.about \subseteq About(r)
           \/ q.about \cap madeImages = {}
  PROVE  AddsApart'
<1> SUFFICES ASSUME NEW p \in AdminRequests, NEW s \in AdminRequests, p # s, Adds(p)', Runs(s)'
             PROVE  About(p)' \cap (About(s)' \cup Seen(s)') = {}
  BY DEF AddsApart
<1>1. adminRequest'[r] = q /\ \A o \in AdminRequests : o # r => adminRequest'[o] = adminRequest[o]
  BY DEF CatalogIInv, CatalogTypeOK
<1>2. CASE p = r
  <2>1. /\ About(p)' = q.about /\ q.at \in {"images", "upload", "attach"}
        /\ About(s)' = About(s) /\ Seen(s)' = Seen(s) /\ Runs(s)
    BY <1>1, <1>2 DEF About, Seen, Adds, Runs
  <2>2. About(s) \cup Seen(s) \subseteq madeImages
    BY <2>1, AdminRuns DEF AdminSound
  <2>3. Adds(r) => About(r) \cap (About(s) \cup Seen(s)) = {}
    BY <1>2, <2>1 DEF CatalogIInv, AddsApart
  <2> QED  BY <2>1, <2>2, <2>3
<1>3. CASE s = r
  <2>1. /\ About(s)' = q.about /\ Seen(s)' = q.seen /\ q.at # "idle"
        /\ About(p)' = About(p) /\ Adds(p)
    BY <1>1, <1>3 DEF About, Seen, Adds, Runs
  <2>2. Runs(p)
    BY <2>1 DEF Adds, Runs
  <2>3. About(p) \subseteq madeImages /\ About(p) \cap images = {}
    BY <2>1, <2>2, AdminRuns DEF AdminSound
  <2>4. About(p) \cap Mine(r) = {}
    BY <1>3, <2>1 DEF CatalogIInv, AddsApart, Mine
  <2> QED  BY <2>1, <2>3, <2>4
<1>4. CASE p # r /\ s # r
  <2>1. /\ About(s)' = About(s) /\ Seen(s)' = Seen(s) /\ Runs(s)
        /\ About(p)' = About(p) /\ Adds(p)
    BY <1>1, <1>4 DEF About, Seen, Adds, Runs
  <2> QED  BY <2>1 DEF CatalogIInv, AddsApart
<1> QED  BY <1>2, <1>3, <1>4

\* What is shown of the images, when a step adds none without a file and one that
\* removes a file goes on to the row.
LEMMA ImagesStayShown ==
  ASSUME CatalogIInv, NEW r \in AdminRequests, NEW q,
         adminRequest' = [adminRequest EXCEPT ![r] = q],
         revivedImages \subseteq revivedImages',
         \A i \in images' \cap hosted' :
           \/ i \in assets' \cup revivedImages'
           \/ /\ i \in images \cap hosted /\ i \notin assets
              /\ adminRequest[r].at = "row" => i \notin About(r)
           \/ q.at = "row" /\ i \in q.about
  PROVE  ImageHasAsset'
<1> SUFFICES ASSUME NEW i \in images' \cap hosted', i \notin assets' \cup revivedImages'
             PROVE  \E p \in AdminRequests : adminRequest'[p].at = "row" /\ i \in About(p)'
  BY DEF ImageHasAsset
<1>1. adminRequest'[r] = q /\ \A p \in AdminRequests : p # r => adminRequest'[p] = adminRequest[p]
  BY DEF CatalogIInv, CatalogTypeOK
<1>2. CASE q.at = "row" /\ i \in q.about
  BY <1>1, <1>2 DEF About
<1>3. CASE /\ i \in images \cap hosted /\ i \notin assets
           /\ adminRequest[r].at = "row" => i \notin About(r)
  <2>1. PICK p \in AdminRequests : adminRequest[p].at = "row" /\ i \in About(p)
    BY <1>3 DEF CatalogIInv, ImageHasAsset
  <2>2. p # r
    BY <1>3, <2>1
  <2> QED  BY <1>1, <2>1, <2>2 DEF About
<1> QED  BY <1>2, <1>3

\* What a step has to show for itself; the rest follows for the other requests.
LEMMA AdminSteps ==
  ASSUME CatalogIInv, NEW r \in AdminRequests, NEW q,
         adminRequest' = [adminRequest EXCEPT ![r] = q],
         q \in AdminRow \cup {NoAdmin},
         CatalogTypeOK', AdminSound(r)',
         madeImages \subseteq madeImages',
         images' \subseteq images \cup Mine(r),
         hosted' \subseteq hosted \cup Mine(r),
         assets \subseteq assets' \cup Mine(r),
         revivedImages \subseteq revivedImages',
         q.at # "idle" =>
           \/ q.about \cup q.seen \subseteq Mine(r) \cup images
           \/ (q.about \cup q.seen) \cap madeImages = {},
         q.at \in {"images", "upload", "attach"} =>
           \/ Adds(r) /\ q.about \subseteq About(r)
           \/ q.about \cap madeImages = {},
         \A i \in images' \cap hosted' :
           \/ i \in assets' \cup revivedImages'
           \/ /\ i \in images \cap hosted /\ i \notin assets
              /\ adminRequest[r].at = "row" => i \notin About(r)
           \/ q.at = "row" /\ i \in q.about
  PROVE  CatalogIInv'
<1>1. AddsApart'
  BY AddsStayApart
<1>2. ImageHasAsset'
  BY ImagesStayShown
<1>3. AdminsSound'
  <2> SUFFICES ASSUME NEW s \in AdminRequests PROVE AdminSound(s)'
    BY DEF AdminsSound
  <2>1. CASE s = r
    BY <2>1
  <2>2. CASE s # r
    <3>1. adminRequest'[s] = adminRequest[s]
      BY <2>2 DEF CatalogIInv, CatalogTypeOK
    <3> QED  BY <2>2, <3>1, OtherAdminsSound
  <2> QED  BY <2>1, <2>2
<1> QED  BY <1>1, <1>2, <1>3 DEF CatalogIInv

\* A request that ends asks nothing more.
LEMMA EndsSound ==
  ASSUME CatalogIInv, NEW r \in AdminRequests, SetAdmin(r, NoAdmin)
  PROVE  AdminSound(r)' /\ NoAdmin.at = "idle"
<1>1. adminRequest'[r] = NoAdmin
  BY DEF SetAdmin, CatalogIInv, CatalogTypeOK
<1> QED  BY <1>1 DEF AdminSound, Runs, Adds, Drops, NoAdmin

\* create
LEMMA ProductCreated ==
  ASSUME CatalogIInv, NEW r \in AdminRequests, NEW given \in Product, NEW pictures \in SUBSET Images,
         CreateProduct(r, given, pictures)
  PROVE  CatalogIInv'
<1>1. PICK q : q = [at |-> "images", product |-> Unborn, read |-> "NONE", seen |-> {},
                    about |-> pictures, before |-> Unborn, extra |-> {}]
  OBVIOUS
<1>2. q \in AdminRow /\ q.at = "images" /\ q.about = pictures /\ q.seen = {}
  BY <1>1 DEF AdminRow
<1>3. /\ adminRequest[r].at = "idle" /\ product = Unborn /\ product' = given
      /\ given.status = "PUBLISHED" => given.priced
      /\ adminRequest' = [adminRequest EXCEPT ![r] = q]
      /\ pictures \cap madeImages = {} /\ madeImages' = madeImages \cup pictures
      /\ UNCHANGED <<images, hosted, assets, revivedImages>>
  BY <1>1 DEF CreateProduct, Idle, Brings, SetAdmin, NewImages, CanPublish
<1>4. adminRequest'[r] = q
  BY <1>3 DEF CatalogIInv, CatalogTypeOK
<1>5. images \subseteq madeImages /\ hosted \subseteq madeImages
  BY DEF CatalogIInv, CatalogTypeOK
<1>6. About(r)' = pictures /\ Seen(r)' = {}
  BY <1>2, <1>4 DEF About, Seen
<1>7. AdminSound(r)'
  BY <1>2, <1>3, <1>4, <1>5, <1>6 DEF AdminSound, Runs, Adds, Drops
<1>9. given \notin {Unborn, Removed}
  BY DEF Product, ProductStatus, Unborn, Removed
<1>10. CatalogTypeOK'
  BY <1>2, <1>3, <1>9 DEF CatalogIInv, CatalogTypeOK, ProductExists
<1> QED  BY <1>2, <1>3, <1>7, <1>10, AdminSteps DEF CatalogIInv, ImageHasAsset

\* create and addImage insert rows; they fail when the product is gone.
LEMMA ImagesAdded ==
  ASSUME CatalogIInv, NEW r \in AdminRequests, CreateImages(r) \/ AttachImage(r)
  PROVE  CatalogIInv'
<1>1. /\ adminRequest[r].at \in {"images", "attach"}
      /\ images' = IF ProductExists THEN images \cup About(r) ELSE images
      /\ SetAdmin(r, NoAdmin)
      /\ UNCHANGED <<product, hosted, assets, madeImages, revivedImages>>
  BY DEF CreateImages, AttachImage
<1>2. adminRequest' = [adminRequest EXCEPT ![r] = NoAdmin]
  BY <1>1 DEF SetAdmin
<1>3. Runs(r) /\ Adds(r)
  BY <1>1 DEF Runs, Adds
<1>4. AdminSound(r) /\ About(r) \subseteq Mine(r)
  BY <1>3, AdminRuns
<1>5. AdminSound(r)' /\ NoAdmin.at = "idle"
  BY <1>1, EndsSound
<1>7. CatalogTypeOK'
  BY <1>1, <1>2, <1>3, <1>4 DEF CatalogIInv, CatalogTypeOK, ProductExists, AdminSound
<1>8. images' \subseteq images \cup About(r) /\ About(r) \cap hosted \subseteq assets
  BY <1>1, <1>4 DEF AdminSound
<1>9. \A i \in images' \cap hosted' :
        \/ i \in assets' \cup revivedImages'
        \/ /\ i \in images \cap hosted /\ i \notin assets
           /\ adminRequest[r].at = "row" => i \notin About(r)
  BY <1>1, <1>8
<1> QED  BY <1>1, <1>2, <1>4, <1>5, <1>7, <1>8, <1>9, AdminSteps

\* update: findOne and its checks.
LEMMA UpdateFound ==
  ASSUME CatalogIInv, NEW r \in AdminRequests, NEW asked \in Product, FindForUpdate(r, asked)
  PROVE  CatalogIInv'
<1>1. PICK q : q = [at |-> "save", product |-> asked, read |-> product.status, seen |-> images,
                    about |-> {}, before |-> Unborn, extra |-> {}]
  OBVIOUS
<1>2. /\ product \in Product \cup {Unborn, Removed} /\ images \subseteq madeImages
      /\ images \subseteq Images
      /\ product.status \in ProductStatus
  BY DEF CatalogIInv, CatalogTypeOK, FindForUpdate, ProductExists, Product
<1>3. /\ q \in AdminRow /\ q.at = "save" /\ q.about = {} /\ q.seen = images /\ q.product = asked
  BY <1>1, <1>2 DEF AdminRow
<1>4. /\ asked.status = "PUBLISHED" => asked.priced
      /\ adminRequest' = [adminRequest EXCEPT ![r] = q]
      /\ UNCHANGED <<product, images, hosted, assets, madeImages, revivedImages>>
  BY <1>1 DEF FindForUpdate, GoesOn, SetAdmin, CanPublish
<1>5. adminRequest'[r] = q
  BY <1>4 DEF CatalogIInv, CatalogTypeOK
<1>6. About(r)' = {} /\ Seen(r)' = images
  BY <1>3, <1>5 DEF About, Seen
<1>7. AdminSound(r)'
  BY <1>2, <1>3, <1>4, <1>5, <1>6 DEF AdminSound, Runs, Adds, Drops
<1>9. CatalogTypeOK'
  BY <1>3, <1>4 DEF CatalogIInv, CatalogTypeOK, ProductExists
<1>10. adminRequest[r].at = "idle"
  BY DEF FindForUpdate, Idle
<1> QED  BY <1>3, <1>4, <1>7, <1>9, <1>10, AdminSteps DEF CatalogIInv, ImageHasAsset

\* update: save reads row and images once more.
LEMMA ProductReRead ==
  ASSUME CatalogIInv, NEW r \in AdminRequests, ReReadProduct(r)
  PROVE  CatalogIInv'
<1>1. PICK q : q = [adminRequest[r] EXCEPT !.at = "update", !.before = product,
                      !.seen = Seen(r) \ images, !.extra = images \ Seen(r)]
  OBVIOUS
<1>2. /\ adminRequest[r].at = "save"
      /\ adminRequest' = [adminRequest EXCEPT ![r] = q]
      /\ UNCHANGED <<product, images, hosted, assets, madeImages, revivedImages>>
  BY <1>1 DEF ReReadProduct, SetAdmin
<1>3. adminRequest[r] \in AdminRow /\ AdminSound(r) /\ Mine(r) = About(r) \cup Seen(r)
  BY <1>2, AdminRuns DEF Runs
<1>4. product \in Product \cup {Unborn, Removed} /\ images \subseteq Images
  BY DEF CatalogIInv, CatalogTypeOK
<1>5. /\ q \in AdminRow /\ q.at = "update" /\ q.about = About(r) /\ q.seen = Seen(r) \ images
      /\ q.product = adminRequest[r].product
  BY <1>1, <1>3, <1>4 DEF AdminRow, About, Seen
<1>6. adminRequest'[r] = q
  BY <1>2 DEF CatalogIInv, CatalogTypeOK
<1>7. About(r)' = About(r) /\ Seen(r)' = Seen(r) \ images
  BY <1>5, <1>6 DEF About, Seen
<1>8. AdminSound(r)'
  BY <1>2, <1>3, <1>5, <1>6, <1>7 DEF AdminSound, Runs, Adds, Drops
<1>9. CatalogTypeOK'
  BY <1>2, <1>5 DEF CatalogIInv, CatalogTypeOK, ProductExists
<1>10. \A i \in images' \cap hosted' :
         \/ i \in assets' \cup revivedImages'
         \/ /\ i \in images \cap hosted /\ i \notin assets
            /\ adminRequest[r].at = "row" => i \notin About(r)
  BY <1>2
<1> QED  BY <1>2, <1>3, <1>5, <1>8, <1>9, <1>10, AdminSteps

\* A row is a mixture of what was saved and what was there.
LEMMA WrittenProduct ==
  ASSUME NEW entity \in Product, NEW before \in Product, NEW now \in Product
  PROVE  Written(entity, before, now) \in Product
<1>1. DOMAIN now = {"status", "priced"}
  BY DEF Product
<1>2. PICK w : w = Written(entity, before, now)
  OBVIOUS
<1>3. /\ DOMAIN w = {"status", "priced"}
      /\ w = [c \in {"status", "priced"} |-> w[c]]
      /\ w["status"] = IF entity["status"] = before["status"] THEN now["status"] ELSE entity["status"]
      /\ w["priced"] = IF entity["priced"] = before["priced"] THEN now["priced"] ELSE entity["priced"]
  BY <1>1, <1>2 DEF Written
<1>4. w = [status |-> w["status"], priced |-> w["priced"]]
  BY <1>3
<1>5. w["status"] \in ProductStatus /\ w["priced"] \in BOOLEAN
  BY <1>3 DEF Product
<1> QED  BY <1>2, <1>4, <1>5 DEF Product

\* What the UPDATE of a save leaves, when it is not rolled back.
LEMMA UpdatedProduct ==
  ASSUME CatalogTypeOK, NEW r \in AdminRequests, UpdateProduct(r),
         adminRequest[r].product \in Product
  PROVE  \/ UNCHANGED <<product, images, revivedImages>>
         \/ /\ images' = images \cup Seen(r) /\ revivedImages' = revivedImages \cup Seen(r)
            /\ \/ product' = adminRequest[r].product /\ Inserts(r)
               \/ /\ product' = Written(adminRequest[r].product, adminRequest[r].before, product)
                  /\ ~Inserts(r) /\ ProductExists /\ product' \in Product
               \/ product' = product /\ ~ProductExists /\ Seen(r) = {}
<1>1. CASE SaveFails(r)
  BY <1>1 DEF UpdateProduct
<1>2. CASE ~SaveFails(r) /\ Inserts(r)
  BY <1>2 DEF UpdateProduct
<1>3. CASE ~SaveFails(r) /\ ~Inserts(r) /\ ProductExists
  <2>1. adminRequest[r].before \in Product /\ product \in Product
    BY <1>3 DEF Inserts, CatalogTypeOK, ProductExists
  <2> QED  BY <1>3, <2>1, WrittenProduct DEF UpdateProduct
<1>4. CASE ~SaveFails(r) /\ ~Inserts(r) /\ ~ProductExists
  BY <1>4 DEF UpdateProduct, SaveFails
<1> QED  BY <1>1, <1>2, <1>3, <1>4

\* update: save writes the columns and inserts the images that the re-read missed.
LEMMA ProductUpdated ==
  ASSUME CatalogIInv, NEW r \in AdminRequests, UpdateProduct(r)
  PROVE  CatalogIInv'
<1>1. /\ adminRequest[r].at = "update"
      /\ SetAdmin(r, NoAdmin)
      /\ UNCHANGED <<hosted, assets, madeImages>>
  BY DEF UpdateProduct
<1>2. adminRequest' = [adminRequest EXCEPT ![r] = NoAdmin]
  BY <1>1 DEF SetAdmin
<1>3. Runs(r)
  BY <1>1 DEF Runs
<1>4. AdminSound(r) /\ Seen(r) \subseteq Mine(r)
  BY <1>3, AdminRuns
<1>5. AdminSound(r)' /\ NoAdmin.at = "idle"
  BY <1>1, EndsSound
<1>6. adminRequest[r].product \in Product /\ Seen(r) \subseteq madeImages
  BY <1>1, <1>3, <1>4 DEF AdminSound
<1>7. CatalogTypeOK
  BY DEF CatalogIInv
<1>8. adminRequest[r].product \notin {Unborn, Removed}
  BY <1>6 DEF Product, ProductStatus, Unborn, Removed
<1>9. \/ UNCHANGED <<product, images, revivedImages>>
      \/ /\ images' = images \cup Seen(r) /\ revivedImages' = revivedImages \cup Seen(r)
         /\ \/ product' \in Product
            \/ product' = product /\ ~ProductExists /\ Seen(r) = {}
  BY <1>6, <1>7, UpdatedProduct
<1>10. CatalogTypeOK'
  <2>1. adminRequest' \in [AdminRequests -> AdminRow \cup {NoAdmin}]
    BY <1>2, <1>7 DEF CatalogTypeOK
  <2>2. /\ product' \in Product \cup {Unborn, Removed} /\ images' \subseteq madeImages'
        /\ revivedImages' \subseteq madeImages'
    BY <1>1, <1>6, <1>7, <1>9 DEF CatalogTypeOK
  <2>3. \A x \in Product : x \notin {Unborn, Removed}
    BY DEF Product, ProductStatus, Unborn, Removed
  <2>4. ~ProductExists' => images' = {}
    BY <1>7, <1>9, <2>3 DEF CatalogTypeOK, ProductExists
  <2> QED  BY <1>1, <1>7, <2>1, <2>2, <2>4 DEF CatalogTypeOK
<1>11. revivedImages \subseteq revivedImages' /\ images' \subseteq images \cup Mine(r)
  BY <1>4, <1>9
<1>12. \A i \in images' \cap hosted' :
         \/ i \in assets' \cup revivedImages'
         \/ /\ i \in images \cap hosted /\ i \notin assets
            /\ adminRequest[r].at = "row" => i \notin About(r)
  BY <1>1, <1>9
<1> QED  BY <1>1, <1>2, <1>5, <1>10, <1>11, <1>12, AdminSteps

\* remove: the status is read, then the row goes with those of its images.
LEMMA RemovalFound ==
  ASSUME CatalogIInv, NEW r \in AdminRequests, FindForRemoval(r)
  PROVE  CatalogIInv'
<1>1. PICK q : q = [at |-> "remove", product |-> Unborn, read |-> "NONE", seen |-> {},
                    about |-> {}, before |-> Unborn, extra |-> {}]
  OBVIOUS
<1>2. q \in AdminRow /\ q.at = "remove" /\ q.about = {} /\ q.seen = {}
  BY <1>1 DEF AdminRow
<1>3. /\ adminRequest[r].at = "idle"
      /\ adminRequest' = [adminRequest EXCEPT ![r] = q]
      /\ UNCHANGED <<product, images, hosted, assets, madeImages, revivedImages>>
  BY <1>1 DEF FindForRemoval, Idle, Brings, SetAdmin
<1>4. adminRequest'[r] = q
  BY <1>3 DEF CatalogIInv, CatalogTypeOK
<1>5. AdminSound(r)'
  BY <1>2, <1>4 DEF AdminSound, Runs, Adds, Drops, About, Seen
<1>7. CatalogTypeOK'
  BY <1>2, <1>3 DEF CatalogIInv, CatalogTypeOK, ProductExists
<1> QED  BY <1>2, <1>3, <1>5, <1>7, AdminSteps DEF CatalogIInv, ImageHasAsset

LEMMA ProductRemoved ==
  ASSUME CatalogIInv, NEW r \in AdminRequests, RemoveProduct(r)
  PROVE  CatalogIInv'
<1>1. /\ product' = Removed /\ images' = {}
      /\ SetAdmin(r, NoAdmin)
      /\ UNCHANGED <<hosted, assets, madeImages, revivedImages>>
  BY DEF RemoveProduct
<1>2. adminRequest' = [adminRequest EXCEPT ![r] = NoAdmin]
  BY <1>1 DEF SetAdmin
<1>3. AdminSound(r)' /\ NoAdmin.at = "idle"
  BY <1>1, EndsSound
<1>5. CatalogTypeOK'
  BY <1>1, <1>2 DEF CatalogIInv, CatalogTypeOK, ProductExists
<1> QED  BY <1>1, <1>2, <1>3, <1>5, AdminSteps

\* uploadImage and addImage give the image a new id.
LEMMA ImageFound ==
  ASSUME CatalogIInv, NEW r \in AdminRequests, NEW i \in Images, NEW byUpload \in BOOLEAN,
         FindForImage(r, i, byUpload)
  PROVE  CatalogIInv'
<1>1. PICK q : q = [at |-> IF byUpload THEN "upload" ELSE "attach", product |-> Unborn,
                    read |-> "NONE", seen |-> {}, about |-> {i}, before |-> Unborn, extra |-> {}]
  OBVIOUS
<1>2. q \in AdminRow /\ q.at \in {"upload", "attach"} /\ q.about = {i} /\ q.seen = {}
  BY <1>1 DEF AdminRow
<1>3. /\ adminRequest[r].at = "idle"
      /\ adminRequest' = [adminRequest EXCEPT ![r] = q]
      /\ i \notin madeImages /\ madeImages' = madeImages \cup {i}
      /\ UNCHANGED <<product, images, hosted, assets, revivedImages>>
  BY <1>1 DEF FindForImage, Idle, Brings, SetAdmin, NewImages
<1>4. adminRequest'[r] = q
  BY <1>3 DEF CatalogIInv, CatalogTypeOK
<1>5. About(r)' = {i} /\ Seen(r)' = {}
  BY <1>2, <1>4 DEF About, Seen
<1>6. images \subseteq madeImages /\ hosted \subseteq madeImages
  BY DEF CatalogIInv, CatalogTypeOK
<1>7. AdminSound(r)'
  BY <1>2, <1>3, <1>4, <1>5, <1>6 DEF AdminSound, Runs, Adds, Drops
<1>9. CatalogTypeOK'
  BY <1>2, <1>3 DEF CatalogIInv, CatalogTypeOK, ProductExists
<1> QED  BY <1>2, <1>3, <1>7, <1>9, AdminSteps DEF CatalogIInv, ImageHasAsset

\* uploadImage stores the file before the row is inserted.
LEMMA AssetUploaded ==
  ASSUME CatalogIInv, NEW r \in AdminRequests, UploadAsset(r)
  PROVE  CatalogIInv'
<1>1. PICK q : q = [adminRequest[r] EXCEPT !.at = "attach"]
  OBVIOUS
<1>2. /\ adminRequest[r].at = "upload"
      /\ adminRequest' = [adminRequest EXCEPT ![r] = q]
      /\ hosted' = hosted \cup About(r) /\ assets' = assets \cup About(r)
      /\ UNCHANGED <<product, images, madeImages, revivedImages>>
  BY <1>1 DEF UploadAsset, SetAdmin
<1>3. Runs(r) /\ Adds(r)
  BY <1>2 DEF Runs, Adds
<1>4. adminRequest[r] \in AdminRow /\ AdminSound(r) /\ Mine(r) = About(r) \cup Seen(r)
  BY <1>3, AdminRuns
<1>5. q \in AdminRow /\ q.at = "attach" /\ q.about = About(r) /\ q.seen = Seen(r)
  BY <1>1, <1>4 DEF AdminRow, About, Seen
<1>6. adminRequest'[r] = q
  BY <1>2 DEF CatalogIInv, CatalogTypeOK
<1>7. About(r)' = About(r) /\ Seen(r)' = Seen(r)
  BY <1>5, <1>6 DEF About, Seen
<1>8. AdminSound(r)'
  BY <1>2, <1>3, <1>4, <1>5, <1>6, <1>7 DEF AdminSound, Runs, Adds, Drops
<1>10. CatalogTypeOK'
  BY <1>2, <1>3, <1>4, <1>5 DEF CatalogIInv, CatalogTypeOK, ProductExists, AdminSound
<1>11. \A i \in images' \cap hosted' :
         \/ i \in assets' \cup revivedImages'
         \/ /\ i \in images \cap hosted /\ i \notin assets
            /\ adminRequest[r].at = "row" => i \notin About(r)
  BY <1>2
<1> QED  BY <1>2, <1>3, <1>4, <1>5, <1>8, <1>10, <1>11, AdminSteps

\* removeImage: the image and the product are read, and how many images are left.
LEMMA DetachFound ==
  ASSUME CatalogIInv, NEW r \in AdminRequests, NEW i \in Images, FindForDetach(r, i)
  PROVE  CatalogIInv'
<1>1. PICK q : q = [at |-> "asset", product |-> Unborn, read |-> product.status, seen |-> images,
                    about |-> {i}, before |-> Unborn, extra |-> {}]
  OBVIOUS
<1>2. /\ product \in Product \cup {Unborn, Removed} /\ images \subseteq madeImages
      /\ images \subseteq Images /\ product.status \in ProductStatus
  BY DEF CatalogIInv, CatalogTypeOK, FindForDetach, ProductExists, Product
<1>3. /\ q \in AdminRow /\ q.at = "asset" /\ q.about = {i} /\ q.seen = images /\ q.read = product.status
  BY <1>1, <1>2 DEF AdminRow
<1>4. /\ adminRequest[r].at = "idle" /\ i \in images /\ CanRemoveImage(product.status, images)
      /\ adminRequest' = [adminRequest EXCEPT ![r] = q]
      /\ UNCHANGED <<product, images, hosted, assets, madeImages, revivedImages>>
  BY <1>1 DEF FindForDetach, Idle, GoesOn, SetAdmin
<1>5. adminRequest'[r] = q
  BY <1>4 DEF CatalogIInv, CatalogTypeOK
<1>6. About(r)' = {i} /\ Seen(r)' = images
  BY <1>3, <1>5 DEF About, Seen
<1>7. CanRemoveImage(adminRequest[r].read, Seen(r))'
  BY <1>3, <1>4, <1>5, <1>6 DEF CanRemoveImage
<1>8. AdminSound(r)'
  BY <1>2, <1>3, <1>4, <1>5, <1>6, <1>7 DEF AdminSound, Runs, Adds, Drops
<1>10. CatalogTypeOK'
  BY <1>3, <1>4 DEF CatalogIInv, CatalogTypeOK, ProductExists
<1> QED  BY <1>3, <1>4, <1>8, <1>10, AdminSteps DEF CatalogIInv, ImageHasAsset

\* removeImage: the file goes, or its provider refuses, and the row follows.
LEMMA AssetDeleted ==
  ASSUME CatalogIInv, NEW r \in AdminRequests, NEW deleted \in BOOLEAN, DeleteAsset(r, deleted)
  PROVE  CatalogIInv'
<1>1. PICK q : q = [adminRequest[r] EXCEPT !.at = "row"]
  OBVIOUS
<1>2. /\ adminRequest[r].at = "asset"
      /\ adminRequest' = [adminRequest EXCEPT ![r] = q]
      /\ assets' = IF deleted THEN assets \ About(r) ELSE assets
      /\ UNCHANGED <<product, images, hosted, madeImages, revivedImages>>
  BY <1>1 DEF DeleteAsset, SetAdmin
<1>3. Runs(r) /\ Drops(r)
  BY <1>2 DEF Runs, Drops
<1>4. adminRequest[r] \in AdminRow /\ AdminSound(r) /\ Mine(r) = About(r) \cup Seen(r)
  BY <1>3, AdminRuns
<1>5. /\ q \in AdminRow /\ q.at = "row" /\ q.about = About(r) /\ q.seen = Seen(r)
      /\ q.read = adminRequest[r].read
  BY <1>1, <1>4 DEF AdminRow, About, Seen
<1>6. adminRequest'[r] = q
  BY <1>2 DEF CatalogIInv, CatalogTypeOK
<1>7. About(r)' = About(r) /\ Seen(r)' = Seen(r)
  BY <1>5, <1>6 DEF About, Seen
<1>8. CanRemoveImage(adminRequest[r].read, Seen(r))'
  BY <1>3, <1>4, <1>5, <1>6, <1>7 DEF CanRemoveImage, AdminSound
<1>9. AdminSound(r)'
  BY <1>2, <1>3, <1>4, <1>5, <1>6, <1>7, <1>8 DEF AdminSound, Runs, Adds, Drops
<1>11. CatalogTypeOK'
  BY <1>2, <1>5 DEF CatalogIInv, CatalogTypeOK, ProductExists
<1>12. \A i \in images' \cap hosted' :
         \/ i \in assets' \cup revivedImages'
         \/ /\ i \in images \cap hosted /\ i \notin assets
            /\ adminRequest[r].at = "row" => i \notin About(r)
         \/ q.at = "row" /\ i \in q.about
  BY <1>2, <1>5
<1> QED  BY <1>2, <1>3, <1>4, <1>5, <1>9, <1>11, <1>12, AdminSteps

LEMMA ImageDetached ==
  ASSUME CatalogIInv, NEW r \in AdminRequests, DetachImage(r)
  PROVE  CatalogIInv'
<1>1. /\ images' = images \ About(r)
      /\ SetAdmin(r, NoAdmin)
      /\ UNCHANGED <<product, hosted, assets, madeImages, revivedImages>>
  BY DEF DetachImage
<1>2. adminRequest' = [adminRequest EXCEPT ![r] = NoAdmin]
  BY <1>1 DEF SetAdmin
<1>3. AdminSound(r)' /\ NoAdmin.at = "idle"
  BY <1>1, EndsSound
<1>5. CatalogTypeOK'
  BY <1>1, <1>2 DEF CatalogIInv, CatalogTypeOK, ProductExists
<1>6. \A i \in images' \cap hosted' :
        \/ i \in assets' \cup revivedImages'
        \/ /\ i \in images \cap hosted /\ i \notin assets
           /\ adminRequest[r].at = "row" => i \notin About(r)
  BY <1>1
<1> QED  BY <1>1, <1>2, <1>3, <1>5, <1>6, AdminSteps

-----------------------------------------------------------------------------
LEMMA CatalogStart == CatalogInit => CatalogIInv
<1> SUFFICES ASSUME CatalogInit PROVE CatalogIInv
  OBVIOUS
<1>1. \A r \in AdminRequests : adminRequest[r].at = "idle"
  BY DEF CatalogInit, NoAdmin
<1>2. CatalogTypeOK
  BY DEF CatalogInit, CatalogTypeOK
<1>3. ImageHasAsset
  BY DEF CatalogInit, ImageHasAsset
<1> QED
  BY <1>1, <1>2, <1>3 DEF CatalogIInv, AdminsSound, AdminSound, AddsApart, Runs, Adds, Drops

LEMMA CatalogSteps == CatalogIInv /\ [CatalogNext]_catalogVars => CatalogIInv'
<1> SUFFICES ASSUME CatalogIInv, [CatalogNext]_catalogVars PROVE CatalogIInv'
  OBVIOUS
<1>1. CASE UNCHANGED catalogVars
  BY <1>1 DEF catalogVars, CatalogIInv, CatalogTypeOK, ProductExists, AdminsSound, AdminSound, AddsApart, Runs,
              Adds, Drops, About, Seen, CanRemoveImage, ImageHasAsset
<1>2. ASSUME NEW r \in AdminRequests, AdminStarts(r) PROVE CatalogIInv'
  BY <1>2, ProductCreated, UpdateFound, RemovalFound, DetachFound, ImageFound DEF AdminStarts
<1>3. ASSUME NEW r \in AdminRequests, AdminGoesOn(r) PROVE CatalogIInv'
  BY <1>3, ImagesAdded, ProductReRead, ProductUpdated, ProductRemoved, AssetUploaded, AssetDeleted, ImageDetached
     DEF AdminGoesOn
<1> QED  BY <1>1, <1>2, <1>3 DEF CatalogNext

\* A product that does not exist has no images, and no request knows of an image
\* that was never made.
THEOREM CatalogTypeCorrect == CatalogSpec => []CatalogTypeOK
<1>1. CatalogIInv => CatalogTypeOK
  BY DEF CatalogIInv
<1> QED  BY CatalogStart, CatalogSteps, <1>1, PTL DEF CatalogSpec

\* However many administrators work on a product, its images go with it (remove),
\* and an uploaded image it shows has its file (uploadImage, removeImage), but for
\* one that an older save inserted again.
THEOREM CatalogAlwaysHolds == CatalogSpec => []CatalogHolds
<1>1. CatalogIInv => CatalogHolds
  BY DEF CatalogIInv, CatalogHolds
<1> QED  BY CatalogStart, CatalogSteps, <1>1, PTL DEF CatalogSpec

\* update: the price is asked for whenever the product that is saved is published,
\* so that a step leaves a published product without one only where the row has
\* changed between the re-read of save() and its UPDATE.
THEOREM UnpricedNeedsMixing == CatalogSpec => UnpricedOnlyByMixing
<1> DEFINE Mixed == \E r \in AdminRequests : MixesProducts(r)
<1>1. CatalogIInv /\ [CatalogNext]_catalogVars
        => [PublishedIsPriced => PublishedIsPriced' \/ Mixed]_catalogVars
  <2> SUFFICES ASSUME CatalogIInv, CatalogNext, PublishedIsPriced, ~PublishedIsPriced' PROVE Mixed
    OBVIOUS
  <2>1. PICK r \in AdminRequests : AdminStarts(r) \/ AdminGoesOn(r)
    BY DEF CatalogNext
  <2>2. product' # product
    BY DEF PublishedIsPriced
  <2>3. ~AdminStarts(r)
    BY <2>2 DEF AdminStarts, CreateProduct, FindForUpdate, FindForRemoval, FindForDetach, FindForImage,
       CanPublish, PublishedIsPriced
  <2>4. ~RemoveProduct(r)
    BY DEF RemoveProduct, Removed, PublishedIsPriced
  <2>5. UpdateProduct(r)
    BY <2>1, <2>2, <2>3, <2>4 DEF AdminGoesOn, CreateImages, ReReadProduct, UploadAsset, AttachImage,
       DeleteAsset, DetachImage
  <2>6. /\ adminRequest[r].at = "update"
        /\ adminRequest' = [adminRequest EXCEPT ![r] = NoAdmin]
    BY <2>5 DEF UpdateProduct, SetAdmin
  <2>7. adminRequest'[r].at = "idle"
    BY <2>6 DEF CatalogIInv, CatalogTypeOK, NoAdmin
  <2>8. /\ adminRequest[r].product \in Product
        /\ adminRequest[r].product.status = "PUBLISHED" => adminRequest[r].product.priced
    BY <2>6 DEF CatalogIInv, AdminsSound, AdminSound
  <2>9. product' # adminRequest[r].product
    BY <2>8 DEF PublishedIsPriced
  <2>10. /\ product' = Written(adminRequest[r].product, adminRequest[r].before, product)
         /\ ProductExists
    BY <2>2, <2>5, <2>8, <2>9, UpdatedProduct DEF CatalogIInv
  <2>11. product \in Product
    BY <2>10 DEF CatalogIInv, CatalogTypeOK, ProductExists
  <2>12. adminRequest[r].before # product
    <3> SUFFICES ASSUME adminRequest[r].before = product PROVE FALSE
      OBVIOUS
    <3> DEFINE entity == adminRequest[r].product
    <3>1. DOMAIN product = {"status", "priced"} /\ entity = [c \in {"status", "priced"} |-> entity[c]]
      BY <2>8, <2>11 DEF Product
    <3>2. Written(entity, product, product) = [c \in DOMAIN product |-> entity[c]]
      BY DEF Written
    <3> QED  BY <2>9, <2>10, <3>1, <3>2
  <2> QED  BY <2>6, <2>7, <2>12 DEF MixesProducts
<1> QED  BY CatalogStart, CatalogSteps, <1>1, PTL DEF CatalogSpec, UnpricedOnlyByMixing

\* canRemoveImage: the last image of a published product goes only when the removal
\* has read another product or other images.
THEOREM LastImageAlwaysStays == CatalogSpec => LastImageStays
<1> DEFINE Lost == product.status = "PUBLISHED" /\ product' = product /\ images # {} /\ images' = {}
           Excused == \E r \in AdminRequests :
                        /\ adminRequest[r].at = "row" /\ adminRequest'[r].at = "idle"
                        /\ adminRequest[r].read # product.status \/ images # adminRequest[r].seen
<1>1. CatalogIInv /\ [CatalogNext]_catalogVars => [Lost => Excused]_catalogVars
  <2> SUFFICES ASSUME CatalogIInv, CatalogNext, Lost PROVE Excused
    BY DEF catalogVars
  <2>1. PICK r \in AdminRequests : AdminStarts(r) \/ AdminGoesOn(r)
    BY DEF CatalogNext
  <2>2. ~AdminStarts(r)
    BY DEF AdminStarts, CreateProduct, FindForUpdate, FindForRemoval, FindForDetach, FindForImage
  <2>3. ~RemoveProduct(r)
    BY DEF RemoveProduct, Removed
  <2>4. DetachImage(r)
    BY <2>1, <2>2, <2>3 DEF AdminGoesOn, CreateImages, ReReadProduct, UpdateProduct, UploadAsset,
       AttachImage, DeleteAsset
  <2>5. /\ adminRequest[r].at = "row" /\ images' = images \ About(r)
        /\ adminRequest' = [adminRequest EXCEPT ![r] = NoAdmin]
    BY <2>4 DEF DetachImage, SetAdmin
  <2>6. adminRequest'[r].at = "idle"
    BY <2>5 DEF CatalogIInv, CatalogTypeOK, NoAdmin
  <2>7. (\E i \in Images : About(r) = {i}) /\ CanRemoveImage(adminRequest[r].read, Seen(r))
    BY <2>5 DEF CatalogIInv, AdminsSound, AdminSound, Drops
  <2>8. PICK i \in Images : About(r) = {i}
    BY <2>7
  <2>9. images = {i}
    BY <2>5, <2>8
  <2>10. ~(Cardinality(images) > 1)
    BY <2>9, FS_Singleton
  <2> QED  BY <2>5, <2>6, <2>7, <2>10 DEF CanRemoveImage, Seen
<1> QED  BY CatalogStart, CatalogSteps, <1>1, PTL DEF CatalogSpec, LastImageStays

\* An update that is about to be saved was allowed for the product it has read.
UpdateAllowed(state) ==
  /\ state.read \in ProductStatus
  /\ state.product \in Product
  /\ CanTransitionProduct(state.read, state.product.status)

UpdatesAllowed ==
  \A r \in AdminRequests :
    adminRequest[r].at \in {"save", "update"} => UpdateAllowed(adminRequest[r])

LEMMA UpdatesAllowedStep ==
  UpdatesAllowed /\ CatalogTypeOK /\ [CatalogNext]_catalogVars => UpdatesAllowed'
<1> SUFFICES ASSUME UpdatesAllowed, CatalogTypeOK, [CatalogNext]_catalogVars,
                    NEW s \in AdminRequests, adminRequest'[s].at \in {"save", "update"},
                    adminRequest'[s] # adminRequest[s]
             PROVE  UpdateAllowed(adminRequest'[s])
  BY DEF UpdatesAllowed, UpdateAllowed
<1>1. PICK r \in AdminRequests : AdminStarts(r) \/ AdminGoesOn(r)
  BY DEF CatalogNext, catalogVars
<1>2. \E q : SetAdmin(r, q)
  BY <1>1 DEF AdminStarts, AdminGoesOn, CreateProduct, FindForUpdate, FindForRemoval,
     FindForDetach, FindForImage, CreateImages, ReReadProduct, UpdateProduct, RemoveProduct,
     UploadAsset, AttachImage, DeleteAsset, DetachImage, GoesOn, Brings
<1>3. s = r
  BY <1>2 DEF SetAdmin, CatalogTypeOK
<1>4. \A q : SetAdmin(s, q) => adminRequest'[s] = q
  BY DEF SetAdmin, CatalogTypeOK
<1>5. CASE adminRequest[s].at \in {"save", "upload", "asset"}
  <2>1. adminRequest[s] \in AdminRow
    BY <1>5 DEF CatalogTypeOK, NoAdmin
  <2>2. CASE ReReadProduct(s)
    <3> DEFINE q == [adminRequest[s] EXCEPT !.at = "update", !.before = product,
                       !.seen = Seen(s) \ images, !.extra = images \ Seen(s)]
    <3>1. adminRequest[s].at = "save" /\ adminRequest'[s] = q
      BY <1>4, <2>2 DEF ReReadProduct
    <3>2. q.read = adminRequest[s].read /\ q.product = adminRequest[s].product
      BY <2>1 DEF AdminRow
    <3>3. UpdateAllowed(adminRequest[s])
      BY <3>1 DEF UpdatesAllowed
    <3> QED  BY <3>1, <3>2, <3>3 DEF UpdateAllowed
  <2>3. CASE UploadAsset(s) \/ \E deleted \in BOOLEAN : DeleteAsset(s, deleted)
    <3>1. PICK at \in {"attach", "row"} : adminRequest'[s] = [adminRequest[s] EXCEPT !.at = at]
      BY <1>4, <2>3 DEF UploadAsset, DeleteAsset
    <3>2. [adminRequest[s] EXCEPT !.at = at].at = at
      BY <2>1 DEF AdminRow
    <3> QED  BY <3>1, <3>2
  <2> QED
    BY <1>1, <1>3, <1>5, <2>2, <2>3
       DEF AdminStarts, AdminGoesOn, CreateProduct, FindForUpdate, FindForRemoval, FindForDetach,
           FindForImage, Idle, CreateImages, UpdateProduct, RemoveProduct, AttachImage, DetachImage
<1>6. CASE adminRequest[s].at \notin {"save", "upload", "asset"}
  <2>1. ~AdminGoesOn(s)
    BY <1>4, <1>6 DEF AdminGoesOn, CreateImages, ReReadProduct, UpdateProduct, RemoveProduct,
       UploadAsset, AttachImage, DeleteAsset, DetachImage, NoAdmin
  <2>2. PICK asked \in Product : FindForUpdate(s, asked)
    <3>1. ~FindForRemoval(s)
      BY <1>4 DEF FindForRemoval, Brings
    <3>2. \A given \in Product, pictures \in SUBSET Images : ~CreateProduct(s, given, pictures)
      BY <1>4 DEF CreateProduct, Brings
    <3>3. \A i \in Images : ~FindForDetach(s, i)
      BY <1>4 DEF FindForDetach, GoesOn
    <3>4. \A i \in Images, byUpload \in BOOLEAN : ~FindForImage(s, i, byUpload)
      BY <1>4 DEF FindForImage, Brings
    <3> QED BY <1>1, <1>3, <2>1, <3>1, <3>2, <3>3, <3>4 DEF AdminStarts
  <2>3. product \in Product /\ CanTransitionProduct(product.status, asked.status)
    BY <2>2 DEF FindForUpdate, ProductExists, CatalogTypeOK
  <2>4. adminRequest'[s] = [at |-> "save", product |-> asked, read |-> product.status, seen |-> images,
                            about |-> {}, before |-> Unborn, extra |-> {}]
    BY <1>4, <2>2 DEF FindForUpdate, GoesOn
  <2> QED BY <2>3, <2>4 DEF UpdateAllowed, Product
<1> QED BY <1>5, <1>6

\* update: a product keeps to the transitions of ProductPolicy, and one that was
\* removed stays away, but for a save of what was read in another state.
THEOREM StatusAlwaysFollowsTable == CatalogSpec => StatusFollowsTable
<1>1. UpdatesAllowed /\ CatalogTypeOK /\ [CatalogNext]_catalogVars
        => [MovesAsAllowed]_catalogVars
  <2> SUFFICES ASSUME UpdatesAllowed, CatalogTypeOK, CatalogNext,
                      product' # Unborn, product' # Removed, product # Unborn,
                      \A r \in AdminRequests : ~SavesStale(r)
               PROVE  ProductExists /\ CanTransitionProduct(product.status, product'.status)
    BY DEF MovesAsAllowed, ProductExists
  <2>1. CASE product' = product
    BY <2>1 DEF ProductExists, CanTransitionProduct
  <2>2. CASE product' # product
    <3>1. PICK r \in AdminRequests : AdminStarts(r) \/ AdminGoesOn(r)
      BY DEF CatalogNext
    <3>2. ~AdminStarts(r)
      BY <2>2 DEF AdminStarts, CreateProduct, FindForUpdate, FindForRemoval, FindForDetach,
         FindForImage
    <3>3. UpdateProduct(r)
      BY <2>2, <3>1, <3>2 DEF AdminGoesOn, CreateImages, ReReadProduct, RemoveProduct, UploadAsset,
         AttachImage, DeleteAsset, DetachImage
    <3>4. adminRequest[r].at = "update" /\ adminRequest' = [adminRequest EXCEPT ![r] = NoAdmin]
      BY <3>3 DEF UpdateProduct, SetAdmin
    <3>5. adminRequest'[r].at = "idle"
      BY <3>4 DEF CatalogTypeOK, NoAdmin
    <3>6. adminRequest[r].read = product.status
      BY <3>4, <3>5 DEF SavesStale
    <3>7. UpdateAllowed(adminRequest[r])
      BY <3>4 DEF UpdatesAllowed
    <3>8. product # Removed
      BY <3>6, <3>7 DEF Removed, UpdateAllowed, ProductStatus
    <3>9. product'.status \in {product.status, adminRequest[r].product.status}
      <4>1. CASE product' = adminRequest[r].product
        BY <4>1
      <4>2. CASE product' # adminRequest[r].product
        <5>1. product' = Written(adminRequest[r].product, adminRequest[r].before, product)
          BY <2>2, <3>3, <3>7, <4>2, UpdatedProduct DEF UpdateAllowed
        <5>2. product \in Product
          BY <3>8 DEF CatalogTypeOK
        <5> QED  BY <5>1, <5>2 DEF Written, Product
      <4> QED  BY <4>1, <4>2
    <3> QED BY <3>6, <3>7, <3>8, <3>9 DEF ProductExists, UpdateAllowed, CanTransitionProduct
  <2> QED BY <2>1, <2>2
<1>2. CatalogInit => UpdatesAllowed
  BY DEF CatalogInit, UpdatesAllowed, NoAdmin
<1> QED BY CatalogTypeCorrect, UpdatesAllowedStep, <1>1, <1>2, PTL
        DEF CatalogSpec, StatusFollowsTable

-----------------------------------------------------------------------------
(***************************************************************************)
(* The pictures of banners and categories.                                 *)
(*                                                                         *)
(* Requests overwrite each other, column by column.  The invariant says    *)
(* why no picture is lost that way: an asset is shown in one slot only,    *)
(* the asset that a request is about to show is known to nobody else, and  *)
(* an url that has been given up does not come back.                       *)
(***************************************************************************)

\* The assets of a slot of a row.
Of(x, s) == {x.pictures[s].url, x.pictures[s].id} \ {Link}

\* Each of the assets 1 .. n of a row is in the slot it was uploaded for.
OwnedBy(x, owner, slots, n) ==
  \A s \in slots : \A a \in Of(x, s) : a <= n /\ owner[a] = s

\* The asset that a save shows in a slot and that was not there.
News(q, s) == {q.entity.pictures[s].url} \ {Link, q.row.pictures[s].url}

\* What a request holds: an edit uploads nothing, an upload is for one slot, and a
\* save gives up the url of its slots and no other asset.
Sound(q, slots) ==
  /\ q.op = "edit" => q.slots = {}
  /\ q.op = "upload" => \E s \in slots : q.slots = {s}
  /\ q.op = "save" =>
       /\ q.entity.marks = q.row.marks
       /\ \A s \in slots :
            /\ Of(q.entity, s) \subseteq Of(q.row, s) \cup News(q, s)
            /\ \/ q.entity.pictures[s].url = Link
               \/ s \in q.slots /\ q.entity.pictures[s].url # q.row.pictures[s].url
               \/ s \notin q.slots /\ q.entity.pictures[s].url = q.row.pictures[s].url

UploadsSound == \A r \in PictureRequests : Sound(requests[r], Slots)

Owned(q, owner, slots, n) ==
  q # NoUpload => /\ OwnedBy(q.row, owner, slots, n)
                  /\ q.op = "save" => OwnedBy(q.entity, owner, slots, n)

AssetsHaveOneSlot ==
  \E owner \in [1 .. MaxAssets -> {"desktop", "mobile", "image"}] :
    /\ row # Gone => OwnedBy(row, owner, Slots, uploaded)
    /\ \A r \in PictureRequests : Owned(requests[r], owner, Slots, uploaded)

Unaware(q, n, s) ==
  q # NoUpload => n \notin Of(q.row, s) /\ (q.op = "save" => n \notin Of(q.entity, s))

NewsAreFresh ==
  \A p \in PictureRequests : requests[p].op = "save" =>
    \A s \in Slots : \A n \in News(requests[p], s) :
      /\ n \in stored /\ n \notin Of(requests[p].row, s)
      /\ row # Gone => n \notin Of(row, s)
      /\ \A q \in PictureRequests \ {p} : Unaware(requests[q], n, s)

LinksStay ==
  mishap # "stale" /\ row # Gone =>
    \A r \in PictureRequests : requests[r] # NoUpload =>
      \A s \in Slots : requests[r].row.pictures[s].url = Link
                         => row.pictures[s].url \notin Of(requests[r].row, s)

PictureIInv ==
  /\ PictureTypeOK
  /\ UploadsSound
  /\ AssetsHaveOneSlot
  /\ NewsAreFresh
  /\ LinksStay
  /\ PictureRowHolds

\* A row that exists is not Gone, and an idle request holds nothing.
LEMMA RowsExist == \A x \in PictureRow : x # Gone
BY DEF PictureRow, Gone

LEMMA NoUploadSound == \A slots : Sound(NoUpload, slots)
BY DEF NoUpload, Sound

LEMMA PicturesHeld ==
  ASSUME PictureTypeOK, NEW r \in PictureRequests
  PROVE  /\ requests[r].op \notin {"idle", "save"} => requests[r] \in Working
         /\ requests[r].op = "save" => requests[r] \in Saving
         /\ requests[r].op = "idle" <=> requests[r] = NoUpload
         /\ requests[r] # NoUpload => /\ requests[r].row \in PictureRow
                                      /\ requests[r].slots \in SUBSET Slots
                                      /\ requests[r].deleted \in BOOLEAN
BY DEF PictureTypeOK, Request, Working, Saving, NoUpload

\* What is being replaced, when one request moves on or ends.
LEMMA ReplacingKept ==
  ASSUME PictureTypeOK, NEW r \in PictureRequests, NEW q,
         requests' = [requests EXCEPT ![r] = q]
  PROVE  /\ \A a \in Replacing : \/ a \in Replacing'
                                 \/ /\ requests[r] # NoUpload /\ requests[r].deleted
                                    /\ a \in Replaced(requests[r])
         /\ q # NoUpload /\ q.deleted => Replaced(q) \subseteq Replacing'
<1>1. requests'[r] = q /\ \A p \in PictureRequests : p # r => requests'[p] = requests[p]
  BY DEF PictureTypeOK
<1>2. ASSUME NEW a \in Replacing
      PROVE  \/ a \in Replacing'
             \/ /\ requests[r] # NoUpload /\ requests[r].deleted
                /\ a \in Replaced(requests[r])
  <2>1. PICK p \in PictureRequests : requests[p] # NoUpload /\ requests[p].deleted /\ a \in Replaced(requests[p])
    BY <1>2 DEF Replacing
  <2>2. CASE p # r
    <3>1. requests'[p] # NoUpload /\ requests'[p].deleted /\ a \in Replaced(requests'[p])
      BY <1>1, <2>1, <2>2
    <3> QED  BY <3>1 DEF Replacing, Replaced
  <2> QED  BY <2>1, <2>2
<1>3. ASSUME q # NoUpload, q.deleted, NEW a \in Replaced(q)
      PROVE  a \in Replacing'
  BY <1>1, <1>3 DEF Replacing, Replaced
<1> QED  BY <1>2, <1>3

\* What a request deletes or replaces is in one of its slots.
LEMMA ReplacedInSlots ==
  ASSUME NEW q, NEW a \in Replaced(q)
  PROVE  \E s \in q.slots : a \in Of(q.row, s)
BY DEF Replaced, Of, NoAsset, Link

-----------------------------------------------------------------------------
\* A request that goes on or ends while the row stays: what it holds is what it held
\* or what it has loaded now, and it has no news.
LEMMA RowKept ==
  ASSUME PictureIInv, NEW r \in PictureRequests, NEW q \in Request,
         requests' = [requests EXCEPT ![r] = q],
         UNCHANGED <<kind, row, uploaded, marked>>,
         stored' \subseteq stored,
         mishap' \in {mishap, "failed"}, mishap = "stale" => mishap' = "stale",
         Sound(q, Slots),
         q # NoUpload =>
           /\ \/ row # Gone /\ q.row = row
              \/ requests[r] # NoUpload /\ q.row = requests[r].row
           /\ q.op = "save" => \A s \in Slots : Of(q.entity, s) \subseteq Of(q.row, s)
                                               /\ News(q, s) = {},
         mishap' = "none" => stored \cup Replacing \subseteq stored' \cup Replacing',
         \A p \in PictureRequests \ {r} : requests[p].op = "save" =>
           \A s \in Slots : News(requests[p], s) \subseteq stored'
  PROVE  PictureIInv'
<1>1. Slots' = Slots /\ PictureRow' = PictureRow
  BY DEF Slots, PictureRow, Picture
<1>2. Request' = Request
  BY <1>1 DEF Request, Working, Saving
<1>3. requests'[r] = q /\ \A p \in PictureRequests : p # r => requests'[p] = requests[p]
  BY DEF PictureIInv, PictureTypeOK
<1>4. PictureTypeOK'
  BY <1>1, <1>2 DEF PictureIInv, PictureTypeOK
<1>5. UploadsSound'
  BY <1>1, <1>3 DEF PictureIInv, UploadsSound
<1>6. AssetsHaveOneSlot'
  <2>1. PICK owner \in [1 .. MaxAssets -> {"desktop", "mobile", "image"}] :
          /\ row # Gone => OwnedBy(row, owner, Slots, uploaded)
          /\ \A p \in PictureRequests : Owned(requests[p], owner, Slots, uploaded)
    BY DEF PictureIInv, AssetsHaveOneSlot
  <2>2. q # NoUpload => OwnedBy(q.row, owner, Slots, uploaded)
    BY <2>1 DEF Owned
  <2>3. Owned(q, owner, Slots, uploaded)
    BY <2>2 DEF Owned, OwnedBy
  <2>4. \A p \in PictureRequests : Owned(requests'[p], owner, Slots, uploaded)
    BY <1>3, <2>1, <2>3
  <2> QED  BY <1>1, <2>1, <2>4 DEF AssetsHaveOneSlot
<1>7. NewsAreFresh'
  <2>1. ASSUME NEW p \in PictureRequests, requests'[p].op = "save", NEW s \in Slots,
               NEW n \in News(requests'[p], s)
        PROVE  /\ n \in stored' /\ n \notin Of(requests'[p].row, s)
               /\ row # Gone => n \notin Of(row, s)
               /\ \A t \in PictureRequests \ {p} : Unaware(requests'[t], n, s)
    <3>1. p # r
      <4>1. CASE p = r
        <5>1. q.op = "save" /\ n \in News(q, s)
          BY <1>3, <2>1, <4>1
        <5>2. q # NoUpload
          BY <5>1 DEF NoUpload
        <5> QED  BY <5>1, <5>2
      <4> QED  BY <4>1
    <3>2. requests'[p] = requests[p]
      BY <1>3, <3>1
    <3>3. /\ n \in stored /\ n \notin Of(requests[p].row, s)
          /\ row # Gone => n \notin Of(row, s)
          /\ \A t \in PictureRequests \ {p} : Unaware(requests[t], n, s)
      BY <2>1, <3>2 DEF PictureIInv, NewsAreFresh
    <3>4. n \in stored'
      BY <2>1, <3>1, <3>2
    <3>5. Unaware(q, n, s)
      <4>1. Unaware(requests[r], n, s)
        BY <3>1, <3>3
      <4>2. q # NoUpload => n \notin Of(q.row, s)
        BY <3>3, <4>1 DEF Unaware
      <4> QED  BY <4>2 DEF Unaware
    <3> QED  BY <1>3, <3>2, <3>3, <3>4, <3>5
  <2> QED  BY <1>1, <2>1 DEF NewsAreFresh
<1>8. LinksStay'
  <2>1. ASSUME mishap' # "stale", row # Gone, NEW p \in PictureRequests, requests'[p] # NoUpload,
               NEW s \in Slots, requests'[p].row.pictures[s].url = Link
        PROVE  row.pictures[s].url \notin Of(requests'[p].row, s)
    <3>1. mishap # "stale"
      BY <2>1
    <3>2. CASE requests[p] # NoUpload /\ requests'[p].row = requests[p].row
      BY <2>1, <3>1, <3>2 DEF PictureIInv, LinksStay
    <3>3. CASE requests'[p].row = row
      BY <2>1, <3>3 DEF Of
    <3> QED  BY <1>3, <2>1, <3>2, <3>3
  <2> QED  BY <1>1, <2>1 DEF LinksStay
<1>9. ClicksAreCounted'
  <2>1. mishap' # "stale" => mishap # "stale"
    OBVIOUS
  <2> QED  BY <2>1 DEF PictureIInv, PictureRowHolds, ClicksAreCounted
<1>10. ShownPictureExists'
  <2>1. mishap' = "none" => mishap = "none"
    OBVIOUS
  <2> QED  BY <1>1, <2>1 DEF PictureIInv, PictureRowHolds, ShownPictureExists
<1> QED  BY <1>4, <1>5, <1>6, <1>7, <1>8, <1>9, <1>10 DEF PictureIInv, PictureRowHolds

\* An upload is for one slot.
LEMMA OneSlot ==
  ASSUME NEW slots \in SUBSET Slots, Cardinality(slots) = 1
  PROVE  \E s \in Slots : slots = {s}
<1>1. IsFiniteSet({"desktop", "mobile"}) /\ IsFiniteSet({"image"})
  <2>1. IsFiniteSet({"desktop"}) /\ IsFiniteSet({"image"})
    BY FS_Singleton
  <2>2. IsFiniteSet({"desktop"} \cup {"mobile"})
    BY <2>1, FS_AddElement
  <2>3. {"desktop"} \cup {"mobile"} = {"desktop", "mobile"}
    OBVIOUS
  <2> QED  BY <2>1, <2>2, <2>3
<1>2. IsFiniteSet(Slots)
  BY <1>1 DEF Slots
<1>3. IsFiniteSet(slots)
  BY <1>2, FS_Subset
<1>4. \E s : slots = {s}
  BY <1>3, FS_Singleton
<1> QED  BY <1>4

LEMMA RowFound ==
  ASSUME PictureIInv, NEW r \in PictureRequests, NEW op \in {"edit", "upload", "clear", "remove"},
         NEW slots \in SUBSET Slots, Find(r, op, slots)
  PROVE  PictureIInv'
<1>1. PICK q : q = [op |-> op, row |-> row, slots |-> slots, deleted |-> FALSE]
  OBVIOUS
<1>2. /\ requests[r] = NoUpload /\ row # Gone
      /\ op = "edit" => slots = {}
      /\ op = "upload" => Cardinality(slots) = 1
      /\ requests' = [requests EXCEPT ![r] = q]
      /\ UNCHANGED <<kind, row, stored, uploaded, marked, mishap>>
  BY <1>1 DEF Find
<1>3. row \in PictureRow
  BY <1>2 DEF PictureIInv, PictureTypeOK
<1>4. q \in Working /\ q.op = op /\ q.row = row /\ q.slots = slots /\ ~q.deleted
  BY <1>1, <1>3 DEF Working
<1>5. q \in Request
  BY <1>4 DEF Request
<1>6. Replacing \subseteq Replacing'
  BY <1>2, ReplacingKept DEF PictureIInv
<1>7. Sound(q, Slots)
  <2>1. op = "upload" => \E s \in Slots : slots = {s}
    BY <1>2, OneSlot
  <2> QED  BY <1>2, <1>4, <2>1 DEF Sound
<1>8. \A p \in PictureRequests \ {r} : requests[p].op = "save" =>
        \A s \in Slots : News(requests[p], s) \subseteq stored'
  BY <1>2 DEF PictureIInv, NewsAreFresh
<1> QED  BY <1>2, <1>4, <1>5, <1>6, <1>7, <1>8, RowKept

\* The storage deletes some of what is replaced, and refuses the rest; what another
\* request is about to show is not among it.
LEMMA OldDeleted ==
  ASSUME PictureIInv, NEW r \in PictureRequests, DeleteOld(r)
  PROVE  PictureIInv'
<1>1. PICK q : q = requests[r]
  OBVIOUS
<1>2. PICK e : e = [q EXCEPT !.deleted = TRUE]
  OBVIOUS
<1>3. /\ q.op \notin {"idle", "edit", "save"} /\ ~q.deleted
      /\ requests' = [requests EXCEPT ![r] = e]
      /\ UNCHANGED <<kind, row, uploaded, marked, mishap>>
      /\ stored' \subseteq stored /\ stored \subseteq stored' \cup Replaced(q)
  BY <1>1, <1>2 DEF DeleteOld
<1>4. q \in Working /\ q # NoUpload /\ Sound(q, Slots)
  BY <1>1, <1>3, PicturesHeld, NoUploadSound DEF PictureIInv, UploadsSound, NoUpload
<1>5. e \in Working /\ e.op = q.op /\ e.row = q.row /\ e.slots = q.slots /\ e.deleted
  BY <1>2, <1>4 DEF Working
<1>6. e \in Request /\ Sound(e, Slots) /\ e # NoUpload /\ Replaced(e) = Replaced(q)
  BY <1>3, <1>4, <1>5 DEF Request, Sound, NoUpload, Replaced
<1>7. Replacing \subseteq Replacing' /\ Replaced(q) \subseteq Replacing'
  BY <1>1, <1>3, <1>5, <1>6, ReplacingKept DEF PictureIInv
<1>8. ASSUME NEW p \in PictureRequests \ {r}, requests[p].op = "save", NEW s \in Slots,
             NEW n \in News(requests[p], s)
      PROVE  n \in stored'
  <2>1. n \in stored /\ Unaware(q, n, s)
    BY <1>1, <1>8 DEF PictureIInv, NewsAreFresh
  <2>2. n \notin Replaced(q)
    <3> SUFFICES ASSUME n \in Replaced(q) PROVE FALSE
      OBVIOUS
    <3>1. PICK t \in q.slots : n \in Of(q.row, t)
      BY ReplacedInSlots
    <3>2. t \in Slots
      BY <1>4 DEF Working
    <3>3. PICK owner \in [1 .. MaxAssets -> {"desktop", "mobile", "image"}] :
            \A o \in PictureRequests : Owned(requests[o], owner, Slots, uploaded)
      BY DEF PictureIInv, AssetsHaveOneSlot
    <3>4. owner[n] = t
      BY <1>1, <1>4, <3>1, <3>2, <3>3 DEF Owned, OwnedBy
    <3>5. n \in Of(requests[p].entity, s)
      BY <1>8 DEF News, Of
    <3>6. requests[p] # NoUpload
      BY <1>8 DEF NoUpload
    <3>7. owner[n] = s
      BY <1>8, <3>3, <3>5, <3>6 DEF Owned, OwnedBy
    <3> QED  BY <1>4, <2>1, <3>1, <3>4, <3>7 DEF Unaware
  <2> QED  BY <1>3, <2>1, <2>2
<1> QED  BY <1>1, <1>3, <1>4, <1>5, <1>6, <1>7, <1>8, RowKept

\* What a request that fails had deleted is gone, and the mishap says so.
LEMMA RequestFailed ==
  ASSUME PictureIInv, NEW r \in PictureRequests, Fail(r)
  PROVE  PictureIInv'
<1>1. PICK q : q = requests[r]
  OBVIOUS
<1>2. /\ q # NoUpload
      /\ mishap' = IF mishap = "none" /\ q.deleted /\ Replaced(q) # {} THEN "failed" ELSE mishap
      /\ requests' = [requests EXCEPT ![r] = NoUpload]
      /\ UNCHANGED <<kind, row, stored, uploaded, marked>>
  BY <1>1 DEF Fail, Finished
<1>3. NoUpload \in Request /\ Sound(NoUpload, Slots)
  BY NoUploadSound DEF Request
<1>4. mishap' = "none" => ~q.deleted \/ Replaced(q) = {}
  BY <1>2
<1>5. mishap' = "none" => Replacing \subseteq Replacing'
  BY <1>1, <1>2, <1>4, ReplacingKept DEF PictureIInv
<1>6. \A p \in PictureRequests \ {r} : requests[p].op = "save" =>
        \A s \in Slots : News(requests[p], s) \subseteq stored'
  BY <1>2 DEF PictureIInv, NewsAreFresh
<1> QED  BY <1>2, <1>3, <1>5, <1>6, RowKept

-----------------------------------------------------------------------------
\* The save of a request that brings no asset.
LEMMA SaveBegun ==
  ASSUME PictureIInv, NEW r \in PictureRequests,
         requests[r] \in Working, NEW entity \in PictureRow, Saves(r, entity),
         UNCHANGED <<kind, row, stored, uploaded, marked, mishap>>,
         entity.marks = requests[r].row.marks,
         \A s \in Slots :
           /\ Of(entity, s) \subseteq Of(requests[r].row, s)
           /\ \/ entity.pictures[s].url = Link
              \/ s \notin requests[r].slots /\ entity.pictures[s].url = requests[r].row.pictures[s].url
  PROVE  PictureIInv'
<1>1. PICK q : q = [op |-> "save", row |-> requests[r].row, slots |-> requests[r].slots,
                    deleted |-> requests[r].deleted, entity |-> entity, before |-> row]
  OBVIOUS
<1>2. requests' = [requests EXCEPT ![r] = q]
  BY <1>1 DEF Saves
<1>3. /\ q.op = "save" /\ q.row = requests[r].row /\ q.slots = requests[r].slots
      /\ q.deleted = requests[r].deleted /\ q.entity = entity
  BY <1>1
<1>4. q \in Saving
  BY <1>1 DEF Saving, Working, PictureIInv, PictureTypeOK
<1>5. q \in Request /\ q # NoUpload /\ requests[r] # NoUpload
  BY <1>3, <1>4 DEF Request, NoUpload, Working
<1>6. \A s \in Slots : News(q, s) = {}
  <2> SUFFICES ASSUME NEW s \in Slots PROVE News(q, s) = {}
    OBVIOUS
  <2>1. entity.pictures[s].url \in {Link, q.row.pictures[s].url}
    BY <1>3
  <2> QED  BY <1>3, <2>1 DEF News
<1>7. Sound(q, Slots)
  BY <1>3 DEF Sound
<1>8. Replaced(q) = Replaced(requests[r])
  BY <1>3 DEF Replaced
<1>9. Replacing \subseteq Replacing'
  BY <1>2, <1>3, <1>5, <1>8, ReplacingKept DEF PictureIInv
<1>10. \A p \in PictureRequests \ {r} : requests[p].op = "save" =>
         \A s \in Slots : News(requests[p], s) \subseteq stored'
  BY DEF PictureIInv, NewsAreFresh
<1> QED  BY <1>2, <1>3, <1>5, <1>6, <1>7, <1>9, <1>10, RowKept

\* update
LEMMA EditSaved ==
  ASSUME PictureIInv, NEW r \in PictureRequests, SaveEdit(r)
  PROVE  PictureIInv'
<1>1. /\ requests[r].op = "edit"
      /\ UNCHANGED <<kind, row, stored, uploaded, marked, mishap>>
  BY DEF SaveEdit
<1>2. requests[r] \in Working /\ requests[r].slots = {}
  BY <1>1, PicturesHeld DEF PictureIInv, UploadsSound, Sound
<1>3. PICK x \in PictureRow : x = requests[r].row
  BY <1>2 DEF Working
<1>4. CASE Saves(r, x)
  BY <1>1, <1>2, <1>3, <1>4, SaveBegun
<1>5. ASSUME NEW s \in Slots, Saves(r, [x EXCEPT !.pictures[s].url = Link])
      PROVE  PictureIInv'
  <2>1. PICK e : e = [x EXCEPT !.pictures[s].url = Link]
    OBVIOUS
  <2>2. x.pictures \in [Slots -> Picture] /\ Link \in 0 .. MaxAssets
    BY PictureAssumption DEF PictureRow, Link
  <2>3. /\ e \in PictureRow /\ e.marks = x.marks
        /\ \A t \in Slots : /\ e.pictures[t].id = x.pictures[t].id
                            /\ e.pictures[t].url = IF t = s THEN Link ELSE x.pictures[t].url
    BY <2>1, <2>2 DEF PictureRow, Picture
  <2>4. \A t \in Slots : /\ Of(e, t) \subseteq Of(x, t)
                         /\ e.pictures[t].url = Link \/ e.pictures[t].url = x.pictures[t].url
    BY <2>3 DEF Of
  <2>5. \A t \in Slots :
          /\ Of(e, t) \subseteq Of(requests[r].row, t)
          /\ \/ e.pictures[t].url = Link
             \/ t \notin requests[r].slots /\ e.pictures[t].url = requests[r].row.pictures[t].url
    BY <1>2, <1>3, <2>4
  <2>6. e \in PictureRow /\ e.marks = requests[r].row.marks /\ Saves(r, e)
    BY <1>3, <1>5, <2>1, <2>3
  <2> QED  BY <1>1, <1>2, <2>5, <2>6, SaveBegun
<1> QED  BY <1>3, <1>4, <1>5 DEF SaveEdit

\* removeImage of a category
LEMMA BlankSaved ==
  ASSUME PictureIInv, NEW r \in PictureRequests, SaveBlank(r)
  PROVE  PictureIInv'
<1>1. PICK q : q = requests[r]
  OBVIOUS
<1>2. PICK e : e = Pictured(q, Blank)
  OBVIOUS
<1>3. /\ q.op = "clear" /\ Saves(r, e)
      /\ UNCHANGED <<kind, row, stored, uploaded, marked, mishap>>
  BY <1>1, <1>2 DEF SaveBlank
<1>4. q \in Working /\ q.row \in PictureRow
  BY <1>1, <1>3, PicturesHeld DEF PictureIInv, Working
<1>5. Blank \in Picture /\ Blank.url = Link /\ Blank.id = Link
  BY PictureAssumption DEF Blank, Picture, Link, NoAsset
<1>6. /\ e \in PictureRow /\ e.marks = q.row.marks
      /\ \A s \in Slots : e.pictures[s] = IF s \in q.slots THEN Blank ELSE q.row.pictures[s]
  BY <1>2, <1>4, <1>5 DEF Pictured, PictureRow
<1>7. ASSUME NEW s \in Slots
      PROVE  /\ Of(e, s) \subseteq Of(q.row, s)
             /\ \/ e.pictures[s].url = Link
                \/ s \notin q.slots /\ e.pictures[s].url = q.row.pictures[s].url
  BY <1>5, <1>6 DEF Of
<1> QED  BY <1>1, <1>3, <1>4, <1>6, <1>7, SaveBegun

\* The assets of a row have their slots still when one more is uploaded.
LEMMA OwnedLater ==
  ASSUME PictureTypeOK, NEW x \in PictureRow, NEW only \in {"desktop", "mobile", "image"},
         NEW owner \in [1 .. MaxAssets -> {"desktop", "mobile", "image"}],
         OwnedBy(x, owner, Slots, uploaded), uploaded + 1 <= MaxAssets
  PROVE  OwnedBy(x, [owner EXCEPT ![uploaded + 1] = only], Slots, uploaded + 1)
<1> SUFFICES ASSUME NEW s \in Slots, NEW a \in Of(x, s)
             PROVE  a <= uploaded + 1 /\ [owner EXCEPT ![uploaded + 1] = only][a] = s
  BY DEF OwnedBy
<1>1. x.pictures[s] \in Picture
  BY DEF PictureRow
<1>2. a \in 1 .. MaxAssets
  BY <1>1, PictureAssumption DEF Of, Picture, Link
<1>3. a <= uploaded /\ owner[a] = s /\ uploaded \in Nat
  BY PictureAssumption DEF OwnedBy, PictureTypeOK
<1> QED  BY <1>2, <1>3

\* uploadImage: the asset is new, so nobody else knows it.
LEMMA NewPut ==
  ASSUME PictureIInv, NEW r \in PictureRequests, PutNew(r)
  PROVE  PictureIInv'
<1>1. PICK q : q = requests[r]
  OBVIOUS
<1>2. PICK n : n = uploaded + 1
  OBVIOUS
<1>3. PICK new : new = [url |-> n, id |-> n]
  OBVIOUS
<1>4. PICK x : x = Pictured(q, new)
  OBVIOUS
<1>5. PICK e : e = [op |-> "save", row |-> q.row, slots |-> q.slots, deleted |-> q.deleted,
                    entity |-> x, before |-> row]
  OBVIOUS
<1>6. /\ q.op = "upload" /\ q.deleted /\ n <= MaxAssets /\ uploaded' = n
      /\ stored' = stored \cup {n} /\ requests' = [requests EXCEPT ![r] = e]
      /\ UNCHANGED <<kind, row, marked, mishap>>
  BY <1>1, <1>2, <1>3, <1>4, <1>5 DEF PutNew, Saves
<1>7. /\ e.op = "save" /\ e.row = q.row /\ e.slots = q.slots /\ e.deleted = q.deleted
      /\ e.entity = x /\ e.before = row
  BY <1>5
<1>8. q \in Working /\ q.row \in PictureRow /\ q # NoUpload
  BY <1>1, <1>6, PicturesHeld DEF PictureIInv, Working, NoUpload
<1>9. PICK only \in Slots : q.slots = {only}
  BY <1>1, <1>6 DEF PictureIInv, UploadsSound, Sound
<1>10. uploaded \in Nat /\ MaxAssets \in Nat /\ n \in 1 .. MaxAssets /\ n # Link /\ stored \subseteq 1 .. uploaded
  BY <1>2, <1>6, PictureAssumption DEF PictureIInv, PictureTypeOK, Link
<1>11. new \in Picture /\ new.url = n /\ new.id = n
  BY <1>3, <1>10 DEF Picture
<1>12. /\ x \in PictureRow /\ x.marks = q.row.marks
       /\ \A s \in Slots : x.pictures[s] = IF s = only THEN new ELSE q.row.pictures[s]
  BY <1>4, <1>8, <1>9, <1>11 DEF Pictured, PictureRow
<1>13. Slots' = Slots /\ PictureRow' = PictureRow
  BY <1>6 DEF Slots, PictureRow, Picture
<1>14. Request' = Request
  BY <1>13 DEF Request, Working, Saving
<1>15. requests'[r] = e /\ \A p \in PictureRequests : p # r => requests'[p] = requests[p]
  BY <1>6 DEF PictureIInv, PictureTypeOK
<1>16. e \in Saving /\ e \in Request /\ e # NoUpload
  <2>1. row \in PictureRow \cup {Gone}
    BY DEF PictureIInv, PictureTypeOK
  <2>2. q.slots \in SUBSET Slots /\ q.deleted \in BOOLEAN
    BY <1>8 DEF Working
  <2>3. e \in Saving
    BY <1>5, <1>8, <1>12, <2>1, <2>2 DEF Saving
  <2> QED  BY <1>7, <2>3 DEF Request, NoUpload
<1>17. \A s \in Slots : Of(x, s) = IF s = only THEN {n} ELSE Of(q.row, s)
  BY <1>10, <1>11, <1>12 DEF Of
<1>18. PICK owner \in [1 .. MaxAssets -> {"desktop", "mobile", "image"}] :
         /\ row # Gone => OwnedBy(row, owner, Slots, uploaded)
         /\ \A p \in PictureRequests : Owned(requests[p], owner, Slots, uploaded)
  BY DEF PictureIInv, AssetsHaveOneSlot
<1>19. \A z, s : s \in Slots /\ OwnedBy(z, owner, Slots, uploaded) => n \notin Of(z, s)
  BY <1>2, <1>10 DEF OwnedBy
<1>20. OwnedBy(q.row, owner, Slots, uploaded)
  BY <1>1, <1>8, <1>18 DEF Owned
<1>21. PICK later : later = [owner EXCEPT ![n] = only]
  OBVIOUS
<1>22. /\ later \in [1 .. MaxAssets -> {"desktop", "mobile", "image"}] /\ later[n] = only
       /\ \A z \in PictureRow : OwnedBy(z, owner, Slots, uploaded) => OwnedBy(z, later, Slots, n)
  <2>1. only \in {"desktop", "mobile", "image"}
    BY DEF Slots
  <2> QED  BY <1>2, <1>6, <1>10, <1>21, <2>1, OwnedLater DEF PictureIInv
<1>23. PictureTypeOK'
  <2>1. requests' \in [PictureRequests -> Request']
    BY <1>6, <1>14, <1>16 DEF PictureIInv, PictureTypeOK
  <2>2. uploaded' \in 0 .. MaxAssets /\ stored' \subseteq 1 .. uploaded'
    BY <1>2, <1>6, <1>10
  <2> QED  BY <1>6, <1>13, <2>1, <2>2 DEF PictureIInv, PictureTypeOK
<1>24. \A s \in Slots : News(e, s) = IF s = only THEN {n} ELSE {}
  <2>1. n \notin Of(q.row, only)
    BY <1>19, <1>20
  <2> QED  BY <1>7, <1>10, <1>11, <1>12, <2>1 DEF News, Of
<1>25. UploadsSound'
  <2>1. Sound(e, Slots)
    <3>1. ASSUME NEW s \in Slots
          PROVE  /\ Of(x, s) \subseteq Of(q.row, s) \cup News(e, s)
                 /\ \/ s \in q.slots /\ x.pictures[s].url # q.row.pictures[s].url
                    \/ s \notin q.slots /\ x.pictures[s].url = q.row.pictures[s].url
      <4>1. CASE s = only
        <5>1. n \notin Of(q.row, s)
          BY <1>19, <1>20
        <5> QED  BY <1>9, <1>10, <1>11, <1>12, <1>17, <1>24, <4>1, <5>1 DEF Of
      <4>2. CASE s # only
        BY <1>9, <1>12, <1>17, <4>2
      <4> QED  BY <4>1, <4>2
    <3> QED  BY <1>7, <1>12, <3>1 DEF Sound
  <2> QED  BY <1>13, <1>15, <2>1 DEF PictureIInv, UploadsSound
<1>26. AssetsHaveOneSlot'
  <2>1. row # Gone => OwnedBy(row, later, Slots, n)
    <3>1. row # Gone => row \in PictureRow
      BY DEF PictureIInv, PictureTypeOK
    <3> QED  BY <1>18, <1>22, <3>1
  <2>2. Owned(e, later, Slots, n)
    <3>1. OwnedBy(q.row, later, Slots, n)
      BY <1>8, <1>20, <1>22
    <3>2. OwnedBy(x, later, Slots, n)
      BY <1>10, <1>17, <1>22, <3>1 DEF OwnedBy
    <3> QED  BY <1>7, <3>1, <3>2 DEF Owned
  <2>3. ASSUME NEW p \in PictureRequests, p # r
        PROVE  Owned(requests[p], later, Slots, n)
    <3> SUFFICES ASSUME requests[p] # NoUpload PROVE Owned(requests[p], later, Slots, n)
      BY DEF Owned
    <3>1. requests[p].row \in PictureRow
      BY PicturesHeld DEF PictureIInv
    <3>2. requests[p].op = "save" => requests[p].entity \in PictureRow
      BY PicturesHeld DEF PictureIInv, Saving
    <3> QED  BY <1>18, <1>22, <3>1, <3>2 DEF Owned
  <2>4. \A p \in PictureRequests : Owned(requests'[p], later, Slots, n)
    BY <1>15, <2>2, <2>3
  <2> QED  BY <1>6, <1>13, <1>22, <2>1, <2>4 DEF AssetsHaveOneSlot
<1>27. NewsAreFresh'
  <2>1. ASSUME NEW p \in PictureRequests, requests'[p].op = "save", NEW s \in Slots,
               NEW m \in News(requests'[p], s)
        PROVE  /\ m \in stored' /\ m \notin Of(requests'[p].row, s)
               /\ row # Gone => m \notin Of(row, s)
               /\ \A t \in PictureRequests \ {p} : Unaware(requests'[t], m, s)
    <3>1. CASE p = r
      <4>1. m = n /\ s = only
        BY <1>15, <1>24, <2>1, <3>1
      <4>2. n \notin Of(q.row, s) /\ (row # Gone => n \notin Of(row, s))
        BY <1>18, <1>19, <1>20
      <4>3. \A t \in PictureRequests \ {p} : Unaware(requests[t], n, s)
        BY <1>18, <1>19 DEF Owned, Unaware
      <4> QED  BY <1>6, <1>7, <1>15, <3>1, <4>1, <4>2, <4>3
    <3>2. CASE p # r
      <4>1. /\ m \in stored /\ m \notin Of(requests[p].row, s)
            /\ row # Gone => m \notin Of(row, s)
            /\ \A t \in PictureRequests \ {p} : Unaware(requests[t], m, s)
        BY <1>15, <2>1, <3>2 DEF PictureIInv, NewsAreFresh
      <4>2. m # n
        BY <1>2, <1>10, <4>1
      <4>3. m \notin Of(q.row, s)
        BY <1>1, <1>8, <3>2, <4>1 DEF Unaware
      <4>4. Unaware(e, m, s)
        BY <1>7, <1>17, <4>2, <4>3 DEF Unaware
      <4> QED  BY <1>6, <1>15, <3>2, <4>1, <4>4
    <3> QED  BY <3>1, <3>2
  <2> QED  BY <1>6, <1>13, <2>1 DEF NewsAreFresh
<1>28. LinksStay'
  <2>1. \A p \in PictureRequests : requests'[p] # NoUpload =>
          requests[p] # NoUpload /\ requests'[p].row = requests[p].row
    BY <1>1, <1>7, <1>8, <1>15
  <2> QED  BY <1>6, <1>13, <2>1 DEF PictureIInv, LinksStay
<1>29. PictureRowHolds'
  <2>1. Replaced(e) = Replaced(q)
    BY <1>7 DEF Replaced
  <2>2. Replacing \subseteq Replacing'
    BY <1>1, <1>6, <1>7, <1>16, <2>1, ReplacingKept DEF PictureIInv
  <2> QED  BY <1>6, <1>13, <1>23, <2>2 DEF PictureIInv, PictureRowHolds, ShownPictureExists, ClicksAreCounted
<1> QED  BY <1>23, <1>25, <1>26, <1>27, <1>28, <1>29 DEF PictureIInv

-----------------------------------------------------------------------------
\* The UPDATE writes a column where the save changed it, and leaves it otherwise.
LEMMA WrittenPicture ==
  ASSUME NEW x \in Picture, NEW b \in Picture, NEW now \in Picture
  PROVE  /\ Written(x, b, now) \in Picture
         /\ Written(x, b, now).url = IF x.url = b.url THEN now.url ELSE x.url
         /\ Written(x, b, now).id = IF x.id = b.id THEN now.id ELSE x.id
<1>1. DOMAIN now = {"url", "id"}
  BY DEF Picture
<1>2. /\ Written(x, b, now).url = IF x.url = b.url THEN now.url ELSE x.url
      /\ Written(x, b, now).id = IF x.id = b.id THEN now.id ELSE x.id
  BY <1>1 DEF Written
<1>3. Written(x, b, now) = [url |-> Written(x, b, now).url, id |-> Written(x, b, now).id]
  BY <1>1 DEF Written
<1>4. /\ Written(x, b, now).url \in 0 .. MaxAssets
      /\ Written(x, b, now).id \in 0 .. MaxAssets
  BY <1>2 DEF Picture
<1> QED  BY <1>2, <1>3, <1>4 DEF Picture

LEMMA WrittenPictures ==
  ASSUME row \in PictureRow, NEW x \in PictureRow, NEW b \in PictureRow
  PROVE  /\ PicturesWritten(x, b) \in PictureRow
         /\ PicturesWritten(x, b).marks = IF x.marks = b.marks THEN row.marks ELSE x.marks
         /\ \A s \in Slots :
              /\ Of(PicturesWritten(x, b), s) \subseteq Of(x, s) \cup Of(row, s)
              /\ PicturesWritten(x, b).pictures[s].url =
                   IF x.pictures[s].url = b.pictures[s].url
                   THEN row.pictures[s].url ELSE x.pictures[s].url
<1>1. PICK f : f = [s \in Slots |-> Written(x.pictures[s], b.pictures[s], row.pictures[s])]
  OBVIOUS
<1>2. PICK k : k = IF x.marks = b.marks THEN row.marks ELSE x.marks
  OBVIOUS
<1>3. \A s \in Slots : x.pictures[s] \in Picture /\ b.pictures[s] \in Picture /\ row.pictures[s] \in Picture
  BY DEF PictureRow
<1>4. ASSUME NEW s \in Slots
      PROVE  /\ f[s] \in Picture
             /\ f[s].url = IF x.pictures[s].url = b.pictures[s].url
                           THEN row.pictures[s].url ELSE x.pictures[s].url
             /\ f[s].id \in {row.pictures[s].id, x.pictures[s].id}
  BY <1>1, <1>3, WrittenPicture
<1>5. f \in [Slots -> Picture] /\ k \in 0 .. MaxMarks
  <2>1. f \in [Slots -> Picture]
    BY <1>1, <1>4
  <2>2. k \in 0 .. MaxMarks
    BY <1>2 DEF PictureRow
  <2> QED  BY <2>1, <2>2
<1>6. PicturesWritten(x, b) = [row EXCEPT !.pictures = f, !.marks = k]
  BY <1>1, <1>2 DEF PicturesWritten, PictureRow
<1>7. PicturesWritten(x, b) \in PictureRow /\ PicturesWritten(x, b).pictures = f /\ PicturesWritten(x, b).marks = k
  BY <1>5, <1>6 DEF PictureRow
<1> QED  BY <1>2, <1>4, <1>7 DEF Of

\* The second half of a save: it brings the row nothing that another request does
\* not know of but its own asset, and no url that was given up.
LEMMA PictureSaved ==
  ASSUME PictureIInv, NEW r \in PictureRequests, UpdateRow(r)
  PROVE  PictureIInv'
<1>1. PICK q : q = requests[r]
  OBVIOUS
<1>2. /\ q.op = "save" /\ requests' = [requests EXCEPT ![r] = NoUpload]
      /\ \/ q.before = Gone /\ row = Gone /\ row' = q.entity
         \/ q.before # Gone /\ row = Gone /\ row' = Gone
         \/ q.before # Gone /\ row # Gone /\ row' = PicturesWritten(q.entity, q.before)
      /\ mishap' = IF q.before = q.row THEN mishap ELSE "stale"
      /\ marked' = IF mishap' = "stale" /\ row' # Gone THEN row'.marks ELSE marked
      /\ UNCHANGED <<kind, stored, uploaded>>
  BY <1>1 DEF UpdateRow, Finished
<1>3. q \in Saving /\ q # NoUpload /\ Sound(q, Slots)
  BY <1>1, <1>2, PicturesHeld DEF PictureIInv, UploadsSound, NoUpload
<1>4. PICK x : x = q.entity
  OBVIOUS
<1>5. /\ x \in PictureRow /\ q.row \in PictureRow /\ q.slots \in SUBSET Slots
      /\ q.before \in PictureRow \cup {Gone}
      /\ row \in PictureRow \cup {Gone}
  BY <1>3, <1>4 DEF Saving, PictureIInv, PictureTypeOK
<1>6. Slots' = Slots /\ PictureRow' = PictureRow
  BY <1>2 DEF Slots, PictureRow, Picture
<1>7. Request' = Request
  BY <1>6 DEF Request, Working, Saving
<1>8. requests'[r] = NoUpload /\ \A p \in PictureRequests : p # r => requests'[p] = requests[p]
  BY <1>2 DEF PictureIInv, PictureTypeOK
<1>9. /\ row' \in PictureRow \cup {Gone}
      /\ row' # Gone => \A s \in Slots : /\ Of(row', s) \subseteq Of(x, s) \cup Of(row, s)
                                         /\ row = Gone => Of(row', s) = Of(x, s)
  <2>1. CASE row = Gone
    BY <1>2, <1>4, <1>5, <2>1
  <2>2. CASE row # Gone
    BY <1>2, <1>4, <1>5, <2>2, WrittenPictures
  <2> QED  BY <2>1, <2>2
<1>10. PictureTypeOK'
  <2>1. requests' \in [PictureRequests -> Request']
    BY <1>2, <1>7 DEF PictureIInv, PictureTypeOK, Request
  <2>2. marked' \in 0 .. MaxMarks /\ mishap' \in {"none", "failed", "stale"}
    BY <1>2, <1>9 DEF PictureIInv, PictureTypeOK, PictureRow
  <2> QED  BY <1>2, <1>6, <1>9, <2>1, <2>2 DEF PictureIInv, PictureTypeOK
<1>11. UploadsSound'
  BY <1>6, <1>8, NoUploadSound DEF PictureIInv, UploadsSound
<1>12. PICK owner \in [1 .. MaxAssets -> {"desktop", "mobile", "image"}] :
         /\ row # Gone => OwnedBy(row, owner, Slots, uploaded)
         /\ \A p \in PictureRequests : Owned(requests[p], owner, Slots, uploaded)
  BY DEF PictureIInv, AssetsHaveOneSlot
<1>13. OwnedBy(x, owner, Slots, uploaded) /\ OwnedBy(q.row, owner, Slots, uploaded)
  BY <1>1, <1>2, <1>3, <1>4, <1>12 DEF Owned
<1>14. AssetsHaveOneSlot'
  <2>1. row' # Gone => OwnedBy(row', owner, Slots, uploaded)
    BY <1>9, <1>12, <1>13 DEF OwnedBy
  <2>2. Owned(NoUpload, owner, Slots, uploaded)
    BY DEF Owned
  <2>3. \A p \in PictureRequests : Owned(requests'[p], owner, Slots, uploaded)
    BY <1>8, <1>12, <2>2
  <2> QED  BY <1>2, <1>6, <1>12, <2>1, <2>3 DEF AssetsHaveOneSlot
<1>15. NewsAreFresh'
  <2>1. ASSUME NEW p \in PictureRequests, requests'[p].op = "save", NEW s \in Slots,
               NEW n \in News(requests'[p], s)
        PROVE  /\ n \in stored' /\ n \notin Of(requests'[p].row, s)
               /\ row' # Gone => n \notin Of(row', s)
               /\ \A t \in PictureRequests \ {p} : Unaware(requests'[t], n, s)
    <3>1. p # r /\ requests'[p] = requests[p]
      BY <1>8, <2>1 DEF NoUpload
    <3>2. /\ n \in stored /\ n \notin Of(requests[p].row, s)
          /\ row # Gone => n \notin Of(row, s)
          /\ \A t \in PictureRequests \ {p} : Unaware(requests[t], n, s)
      BY <2>1, <3>1 DEF PictureIInv, NewsAreFresh
    <3>3. n \notin Of(x, s)
      BY <1>1, <1>2, <1>3, <1>4, <3>1, <3>2 DEF Unaware
    <3>4. Unaware(NoUpload, n, s)
      BY DEF Unaware
    <3> QED  BY <1>2, <1>8, <1>9, <3>1, <3>2, <3>3, <3>4
  <2> QED  BY <1>6, <2>1 DEF NewsAreFresh
<1>16. mishap' # "stale" /\ row' # Gone =>
         /\ mishap # "stale" /\ q.before = q.row /\ row # Gone /\ row \in PictureRow
         /\ row'.marks = row.marks
         /\ \A s \in Slots : row'.pictures[s].url =
              IF x.pictures[s].url = q.row.pictures[s].url
              THEN row.pictures[s].url ELSE x.pictures[s].url
  <2> SUFFICES ASSUME mishap' # "stale", row' # Gone
               PROVE  /\ mishap # "stale" /\ q.before = q.row /\ row # Gone /\ row \in PictureRow
                      /\ row'.marks = row.marks
                      /\ \A s \in Slots : row'.pictures[s].url =
                           IF x.pictures[s].url = q.row.pictures[s].url
                           THEN row.pictures[s].url ELSE x.pictures[s].url
    OBVIOUS
  <2>1. mishap # "stale" /\ q.before = q.row
    BY <1>2
  <2>2. q.before # Gone
    BY <1>5, <2>1, RowsExist
  <2>3. row # Gone /\ row' = PicturesWritten(x, q.row) /\ row \in PictureRow
    BY <1>2, <1>4, <1>5, <2>1, <2>2
  <2>4. x.marks = q.row.marks
    BY <1>2, <1>3, <1>4 DEF Sound
  <2> QED  BY <1>5, <2>1, <2>3, <2>4, WrittenPictures
<1>17. \A s \in Slots : x.pictures[s].url # q.row.pictures[s].url =>
         x.pictures[s].url = Link \/ x.pictures[s].url \in News(q, s)
  BY <1>4 DEF News
<1>18. LinksStay'
  <2>1. ASSUME mishap' # "stale", row' # Gone, NEW p \in PictureRequests, requests'[p] # NoUpload,
               NEW s \in Slots, requests'[p].row.pictures[s].url = Link
        PROVE  row'.pictures[s].url \notin Of(requests'[p].row, s)
    <3>1. p # r /\ requests'[p] = requests[p]
      BY <1>8, <2>1
    <3>2. CASE x.pictures[s].url = q.row.pictures[s].url
      <4>1. row.pictures[s].url \notin Of(requests[p].row, s)
        BY <1>16, <2>1, <3>1 DEF PictureIInv, LinksStay
      <4> QED  BY <1>16, <2>1, <3>1, <3>2, <4>1
    <3>3. CASE x.pictures[s].url # q.row.pictures[s].url
      <4>1. row'.pictures[s].url = x.pictures[s].url
        BY <1>16, <2>1, <3>3
      <4>2. CASE x.pictures[s].url = Link
        BY <4>1, <4>2 DEF Of
      <4>3. CASE x.pictures[s].url \in News(q, s)
        <5>1. Unaware(requests[p], x.pictures[s].url, s)
          BY <1>1, <1>2, <3>1, <4>3 DEF PictureIInv, NewsAreFresh
        <5> QED  BY <2>1, <3>1, <4>1, <5>1 DEF Unaware
      <4> QED  BY <1>17, <3>3, <4>2, <4>3
    <3> QED  BY <3>2, <3>3
  <2> QED  BY <1>6, <2>1 DEF LinksStay
<1>19. ClicksAreCounted'
  <2> SUFFICES ASSUME mishap' # "stale", row' # Gone PROVE row'.marks = marked'
    BY DEF ClicksAreCounted
  <2> QED  BY <1>2, <1>16 DEF PictureIInv, PictureRowHolds, ClicksAreCounted
<1>20. ShownPictureExists'
  <2> SUFFICES ASSUME mishap' = "none", row' # Gone, NEW s \in Slots
               PROVE  row'.pictures[s].url \in stored \cup Replacing' \cup {Link}
    BY <1>2, <1>6 DEF ShownPictureExists
  <2>1. mishap = "none"
    BY <1>2
  <2>2. CASE x.pictures[s].url # q.row.pictures[s].url
    <3>1. x.pictures[s].url \in News(q, s) => x.pictures[s].url \in stored
      BY <1>1, <1>2 DEF PictureIInv, NewsAreFresh
    <3> QED  BY <1>16, <1>17, <2>2, <3>1
  <2>3. CASE x.pictures[s].url = q.row.pictures[s].url
    <3>1. row'.pictures[s].url = row.pictures[s].url
      BY <1>16, <2>3
    <3>2. row.pictures[s].url \in stored \cup Replacing \cup {Link}
      BY <1>16, <2>1 DEF PictureIInv, PictureRowHolds, ShownPictureExists
    <3>3. \A a \in Replacing : a \in Replacing' \/ a \in Replaced(q)
      BY <1>1, <1>2, ReplacingKept DEF PictureIInv
    <3>4. ASSUME row.pictures[s].url \in Replaced(q)
          PROVE  FALSE
      <4>1. PICK a : a = row.pictures[s].url
        OBVIOUS
      <4>2. PICK t \in q.slots : a \in Of(q.row, t)
        BY <3>4, <4>1, ReplacedInSlots
      <4>3. a # Link
        BY <4>2 DEF Of
      <4>4. a \in Of(row, s)
        BY <4>1, <4>3 DEF Of
      <4>5. owner[a] = t /\ owner[a] = s
        BY <1>5, <1>12, <1>13, <1>16, <4>2, <4>4 DEF OwnedBy
      <4>6. s \in q.slots /\ a \in Of(q.row, s)
        BY <4>2, <4>5
      <4>7. q.row.pictures[s].url = Link
        BY <1>2, <1>3, <1>4, <2>3, <4>6 DEF Sound
      <4> QED  BY <1>1, <1>3, <1>16, <4>1, <4>6, <4>7 DEF PictureIInv, LinksStay
    <3> QED  BY <3>1, <3>2, <3>3, <3>4
  <2> QED  BY <2>2, <2>3
<1> QED  BY <1>10, <1>11, <1>14, <1>15, <1>18, <1>19, <1>20 DEF PictureIInv, PictureRowHolds

LEMMA RowRemoved ==
  ASSUME PictureIInv, NEW r \in PictureRequests, RemoveRow(r)
  PROVE  PictureIInv'
<1>1. /\ row' = Gone /\ requests' = [requests EXCEPT ![r] = NoUpload]
      /\ UNCHANGED <<kind, stored, uploaded, marked, mishap>>
  BY DEF RemoveRow, Finished
<1>2. Slots' = Slots /\ PictureRow' = PictureRow
  BY <1>1 DEF Slots, PictureRow, Picture
<1>3. Request' = Request /\ NoUpload \in Request
  BY <1>2 DEF Request, Working, Saving
<1>4. requests'[r] = NoUpload /\ \A p \in PictureRequests : p # r => requests'[p] = requests[p]
  BY <1>1 DEF PictureIInv, PictureTypeOK
<1>5. PictureTypeOK'
  BY <1>1, <1>2, <1>3 DEF PictureIInv, PictureTypeOK
<1>6. UploadsSound'
  BY <1>2, <1>4, NoUploadSound DEF PictureIInv, UploadsSound
<1>7. AssetsHaveOneSlot'
  <2>1. PICK owner \in [1 .. MaxAssets -> {"desktop", "mobile", "image"}] :
          \A p \in PictureRequests : Owned(requests[p], owner, Slots, uploaded)
    BY DEF PictureIInv, AssetsHaveOneSlot
  <2>2. Owned(NoUpload, owner, Slots, uploaded)
    BY DEF Owned
  <2>3. \A p \in PictureRequests : Owned(requests'[p], owner, Slots, uploaded)
    BY <1>4, <2>1, <2>2
  <2> QED  BY <1>1, <1>2, <2>3 DEF AssetsHaveOneSlot
<1>8. NewsAreFresh'
  <2>1. \A n, s : Unaware(NoUpload, n, s)
    BY DEF Unaware
  <2>2. \A p \in PictureRequests : requests'[p].op = "save" => p # r
    BY <1>4 DEF NoUpload
  <2> QED  BY <1>1, <1>2, <1>4, <2>1, <2>2 DEF PictureIInv, NewsAreFresh
<1> QED  BY <1>1, <1>5, <1>6, <1>7, <1>8
         DEF PictureIInv, PictureRowHolds, ShownPictureExists, ClicksAreCounted, LinksStay

\* Clicks and the order are statements of their own.
LEMMA RowMarked ==
  ASSUME PictureIInv, Mark
  PROVE  PictureIInv'
<1>1. PICK x : x = row
  OBVIOUS
<1>2. PICK e : e = [x EXCEPT !.marks = @ + 1]
  OBVIOUS
<1>3. /\ x # Gone /\ x.marks < MaxMarks /\ marked < MaxMarks
      /\ row' = e /\ marked' = marked + 1
      /\ UNCHANGED <<kind, stored, uploaded, requests, mishap>>
  BY <1>1, <1>2 DEF Mark
<1>4. x \in PictureRow /\ marked \in 0 .. MaxMarks
  BY <1>1, <1>3 DEF PictureIInv, PictureTypeOK
<1>5. e \in PictureRow /\ e.pictures = x.pictures /\ e.marks = x.marks + 1 /\ e # Gone
  <2>1. x.marks + 1 \in 0 .. MaxMarks
    BY <1>3, <1>4, PictureAssumption DEF PictureRow
  <2> QED  BY <1>2, <1>4, <2>1, RowsExist DEF PictureRow
<1>6. Slots' = Slots /\ PictureRow' = PictureRow
  BY <1>3 DEF Slots, PictureRow, Picture
<1>7. Request' = Request /\ Replacing' = Replacing
  BY <1>3, <1>6 DEF Request, Working, Saving, Replacing
<1>8. PictureTypeOK'
  <2>1. marked' \in 0 .. MaxMarks
    BY <1>3, <1>4, PictureAssumption
  <2> QED  BY <1>3, <1>5, <1>6, <1>7, <2>1 DEF PictureIInv, PictureTypeOK
<1>9. UploadsSound'
  BY <1>3, <1>6 DEF PictureIInv, UploadsSound
<1>10. AssetsHaveOneSlot' /\ NewsAreFresh'
  <2>1. AssetsHaveOneSlot'
    BY <1>1, <1>3, <1>5, <1>6 DEF PictureIInv, AssetsHaveOneSlot, OwnedBy, Of
  <2>2. \A s : Of(row', s) = Of(row, s)
    BY <1>1, <1>3, <1>5 DEF Of
  <2> QED  BY <1>1, <1>3, <1>6, <2>1, <2>2 DEF PictureIInv, NewsAreFresh
<1>11. LinksStay'
  BY <1>1, <1>3, <1>5, <1>6 DEF PictureIInv, LinksStay
<1>12. ClicksAreCounted'
  BY <1>1, <1>3, <1>5 DEF PictureIInv, PictureRowHolds, ClicksAreCounted
<1>13. ShownPictureExists'
  BY <1>1, <1>3, <1>5, <1>6, <1>7 DEF PictureIInv, PictureRowHolds, ShownPictureExists
<1> QED  BY <1>8, <1>9, <1>10, <1>11, <1>12, <1>13 DEF PictureIInv, PictureRowHolds

-----------------------------------------------------------------------------
LEMMA PictureStart == PictureInit => PictureIInv
<1> SUFFICES ASSUME PictureInit PROVE PictureIInv
  OBVIOUS
<1>1. Blank \in Picture /\ Blank.url = Link /\ Blank.id = Link /\ Link \in {0}
  BY PictureAssumption DEF Blank, Picture, Link, NoAsset
<1>2. PICK x : x = [exists |-> TRUE, pictures |-> [s \in Slots |-> Blank], marks |-> 0]
  OBVIOUS
<1>3. x \in PictureRow /\ row = x /\ x.marks = 0 /\ \A s \in Slots : x.pictures[s] = Blank
  BY <1>1, <1>2, PictureAssumption DEF PictureInit, PictureRow
<1>4. /\ kind \in {"banner", "category"} /\ stored = {} /\ uploaded = 0 /\ marked = 0 /\ mishap = "none"
      /\ requests = [r \in PictureRequests |-> NoUpload]
  BY DEF PictureInit
<1>5. PictureTypeOK
  <2>1. requests \in [PictureRequests -> Request]
    BY <1>4 DEF Request
  <2>2. uploaded \in 0 .. MaxAssets /\ marked \in 0 .. MaxMarks
    BY <1>4, PictureAssumption
  <2> QED  BY <1>3, <1>4, <2>1, <2>2 DEF PictureTypeOK
<1>6. UploadsSound
  BY <1>4, NoUploadSound DEF UploadsSound
<1>7. AssetsHaveOneSlot
  <2>1. PICK owner : owner = [a \in 1 .. MaxAssets |-> "image"]
    OBVIOUS
  <2>2. owner \in [1 .. MaxAssets -> {"desktop", "mobile", "image"}]
    BY <2>1
  <2>3. OwnedBy(row, owner, Slots, uploaded)
    BY <1>1, <1>3 DEF OwnedBy, Of
  <2>4. \A p \in PictureRequests : Owned(requests[p], owner, Slots, uploaded)
    BY <1>4 DEF Owned
  <2> QED  BY <2>2, <2>3, <2>4 DEF AssetsHaveOneSlot
<1>8. NewsAreFresh /\ LinksStay
  BY <1>4 DEF NewsAreFresh, LinksStay, NoUpload
<1> QED
  BY <1>1, <1>3, <1>4, <1>5, <1>6, <1>7, <1>8 DEF PictureIInv, PictureRowHolds, ShownPictureExists, ClicksAreCounted

LEMMA PictureSteps == PictureIInv /\ [PictureNext]_pictureVars => PictureIInv'
<1> SUFFICES ASSUME PictureIInv, [PictureNext]_pictureVars PROVE PictureIInv'
  OBVIOUS
<1>1. CASE UNCHANGED pictureVars
  <2>1. UNCHANGED <<kind, row, stored, uploaded, requests, marked, mishap>>
    BY <1>1 DEF pictureVars
  <2>2. Slots' = Slots /\ PictureRow' = PictureRow
    BY <2>1 DEF Slots, PictureRow, Picture
  <2>3. Request' = Request /\ Replacing' = Replacing
    BY <2>1, <2>2 DEF Request, Working, Saving, Replacing
  <2>4. PictureTypeOK' /\ UploadsSound'
    BY <2>1, <2>2, <2>3 DEF PictureIInv, PictureTypeOK, UploadsSound
  <2>5. AssetsHaveOneSlot' /\ NewsAreFresh' /\ LinksStay'
    BY <2>1, <2>2 DEF PictureIInv, AssetsHaveOneSlot, NewsAreFresh, LinksStay
  <2>6. PictureRowHolds'
    BY <2>1, <2>2, <2>3, <2>4 DEF PictureIInv, PictureRowHolds, ShownPictureExists, ClicksAreCounted
  <2> QED  BY <2>4, <2>5, <2>6 DEF PictureIInv
<1>2. ASSUME NEW r \in PictureRequests, NEW op \in {"edit", "upload", "clear", "remove"},
             NEW slots \in SUBSET Slots, Find(r, op, slots)
      PROVE  PictureIInv'
  BY <1>2, RowFound
<1>3. ASSUME NEW r \in PictureRequests,
             \/ SaveEdit(r) \/ DeleteOld(r) \/ PutNew(r) \/ SaveBlank(r)
             \/ UpdateRow(r) \/ RemoveRow(r) \/ Fail(r)
      PROVE  PictureIInv'
  BY <1>3, EditSaved, OldDeleted, NewPut, BlankSaved, PictureSaved, RowRemoved, RequestFailed
<1>4. CASE Click \/ Reorder
  BY <1>4, RowMarked DEF Click, Reorder
<1> QED  BY <1>1, <1>2, <1>3, <1>4 DEF PictureNext

\* The rows that banners, categories and the requests on them hold are well formed.
THEOREM PicturesTypeCorrect == PictureSpec => []PictureTypeOK
<1>1. PictureIInv => PictureTypeOK
  BY DEF PictureIInv
<1> QED  BY PictureStart, PictureSteps, <1>1, PTL DEF PictureSpec

\* A picture that a banner or category shows is in the storage or about to be
\* replaced (uploadImage deletes first and saves last), and every click and reorder
\* is counted, unless a request failed half way or saved a row that had changed
\* between its load and the re-read of its save.
THEOREM PictureRowAlwaysHolds == PictureSpec => []PictureRowHolds
<1>1. PictureIInv => PictureRowHolds
  BY DEF PictureIInv
<1> QED  BY PictureStart, PictureSteps, <1>1, PTL DEF PictureSpec

-----------------------------------------------------------------------------
\* What product.policy.ts allows on what a request has read holds of the row it
\* writes: the last image stays, the status moves as the table says, and no price is
\* missing but where two saves have mixed.
THEOREM PolicyAlwaysHoldsAtSave == CatalogSpec => PolicyHoldsAtSave
BY LastImageAlwaysStays, StatusAlwaysFollowsTable, UnpricedNeedsMixing DEF PolicyHoldsAtSave

-----------------------------------------------------------------------------
(***************************************************************************)
(* MCShop.                                                                 *)
(*                                                                         *)
(* A behaviour of the whole is one of every part, seen through the         *)
(* variables of that part: a step of another part leaves them alone.  What *)
(* is proved of a part's specification therefore holds of MCSpec.          *)
(***************************************************************************)
LEMMA ShopStarts ==
  MCInit => Init /\ LocksInit /\ CartInit /\ AuthInit /\ ProrationInit
BY DEF MCInit

LEMMA SaleSteps ==
  [MCNext]_shopVars => [Next]_vars /\ [LocksNext]_lockVars /\ [ProrationNext]_prorationVars
BY DEF MCNext, Sales, shopVars, saleVars

LEMMA StoreSteps ==
  [MCNext]_shopVars => [CartNext]_cartVars /\ [AuthNext]_authVars
BY DEF MCNext, Store, shopVars, storeVars

LEMMA ShopIsItsParts ==
  MCSpec => Spec /\ LocksSpec /\ ProrationSpec /\ CartSpec /\ AuthSpec
BY ShopStarts, SaleSteps, StoreSteps, PTL
   DEF MCSpec, Spec, LocksSpec, ProrationSpec, CartSpec, AuthSpec

\* The rows of the shop are well formed whichever of its parts moves: no piece is
\* sold twice, no row locked twice, no variant twice in a cart, no token unissued.
THEOREM ShopTypeCorrect == MCSpec => []PartsTypeOK
<1>1. TypeOK /\ LocksTypeOK /\ CartTypeOK /\ AuthTypeOK => PartsTypeOK
  BY DEF PartsTypeOK
<1> QED BY ShopIsItsParts, StockTypeCorrect, LocksTypeCorrect, CartsTypeCorrect,
           AccountsAreWellFormed, <1>1, PTL

\* Every rule of the parts holds of the shop as a whole, for any number of orders,
\* requests, tokens and rows: nothing deadlocks (orders.service.ts:248, 415), nothing
\* that was ordered is in the cart again, no redeemed token is in a row unless a save
\* has put it back, the amounts and the counters agree, and no step but the named
\* stale saves breaks what was decided.
THEOREM ShopKeepsItsRules ==
  MCSpec => /\ [](SalesNeverDeadlock /\ BoughtLeavesCart /\ RedeemedTokenIsGone /\ AmountsAgree)
            /\ CountersFollowOrders /\ RulesHoldAtCommit
            /\ AccountKept
BY ShopIsItsParts, SalesAlwaysGoOn, CartNeverOrderedTwice, RedeemedTokensAreGone,
   AmountsAlwaysAgree, CountersAlwaysFollow,
   RulesAlwaysHold, ActiveAccountsAreKept, PTL

===============================================================================
