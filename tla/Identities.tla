------------------------------- MODULE Identities -------------------------------
(***************************************************************************)
(* One e-mail address and its LOCAL row in identities                      *)
(* (src/src/auth/auth.service.ts, src/src/auth/policies/auth.policy.ts):   *)
(* registering, activating, logging in, rotating the refresh token, and    *)
(* resetting the password.                                                 *)
(*                                                                         *)
(* activeAccount, rotateRefreshToken, forgotPassword and resetPassword     *)
(* load the row, decide, and save the entity without a lock; the save      *)
(* reads the row once more and updates the columns in which the entity     *)
(* differs from it.  Everything else is a partial UPDATE of the columns it *)
(* names.                                                                  *)
(***************************************************************************)
EXTENDS EntitySave, Integers

CONSTANTS
  Passwords,
  AuthRequests,
  MaxTokens       \* bound on the tokens ever issued

ASSUME AuthAssumption ==
  /\ Passwords # {}
  /\ MaxTokens \in Nat

VARIABLES
  identity,      \* the row of identities; exists is FALSE until it is inserted
  nextToken,     \* every token is random: the next one is a new one
  expired,       \* tokens whose expiry date has passed
  authRequest,   \* running requests, with the entity they keep
  redeemed,      \* history: how often a token was redeemed
  restored       \* history: tokens that had gone from the row, and that a save
                 \* of an older entity wrote back

authVars == <<identity, nextToken, expired, authRequest, redeemed, restored>>

Tokens == 1 .. MaxTokens
None0  == 0      \* a token column that is null

Identity == [exists : BOOLEAN, isActive : BOOLEAN, password : Passwords,
             refreshToken : 0 .. MaxTokens, verificationToken : 0 .. MaxTokens,
             resetToken : 0 .. MaxTokens]
AnyPassword == CHOOSE p \in Passwords : TRUE
NoIdentity == [exists |-> FALSE, isActive |-> FALSE, password |-> AnyPassword,
               refreshToken |-> None0, verificationToken |-> None0, resetToken |-> None0]

\* What a request goes on with: the row it inserts or reissues a verification
\* for, the entity it saves and the row as its save has read it once more, or the
\* refresh token it is about to issue.
AuthRow == [at       : {"insert", "reissue", "activate", "rotate", "forgot", "reset", "issue"},
            entity   : Identity,
            before   : Identity,
            password : Passwords]
NoAuth == [at |-> "idle"]

AuthInit ==
  /\ identity = NoIdentity
  /\ nextToken = 1
  /\ expired = {}
  /\ authRequest = [r \in AuthRequests |-> NoAuth]
  /\ redeemed = [t \in Tokens |-> 0]
  /\ restored = {}

SetAuth(r, state) == authRequest' = [authRequest EXCEPT ![r] = state]
Proceed(r, at, password) ==
  SetAuth(r, [at |-> at, entity |-> identity, before |-> NoIdentity, password |-> password])
Fresh == nextToken <= MaxTokens
Issue == nextToken' = nextToken + 1

-----------------------------------------------------------------------------
(* register                                                                  *)

\* The verification of an account that was never activated has run out.
VerificationExpired ==
  ~identity.isActive /\ (identity.verificationToken = None0 \/ identity.verificationToken \in expired)

\* A wrong form: whoever registers again gets a new verification.
RegisterAgain(r, password) ==
  /\ authRequest[r].at = "idle"
  /\ Proceed(r, IF identity.exists THEN "reissue" ELSE "insert", password)
  /\ UNCHANGED <<identity, nextToken, expired, redeemed, restored>>

\* An address whose verification still runs, or that is active, is left alone.
Register(r, password) ==
  /\ authRequest[r].at = "idle"
  /\ IF ~identity.exists THEN Proceed(r, "insert", password)
     ELSE VerificationExpired /\ Proceed(r, "reissue", password)
  /\ UNCHANGED <<identity, nextToken, expired, redeemed, restored>>

\* The transaction that inserts user and identity; a second one fails on the
\* unique e-mail address, and the error is swallowed.
InsertIdentity(r) ==
  /\ authRequest[r].at = "insert" /\ Fresh
  /\ Issue
  /\ identity' = IF identity.exists THEN identity
                 ELSE [NoIdentity EXCEPT !.exists = TRUE, !.password = authRequest[r].password,
                                         !.verificationToken = nextToken]
  /\ SetAuth(r, NoAuth)
  /\ UNCHANGED <<expired, redeemed, restored>>

ReissueVerification(r) ==
  /\ authRequest[r].at = "reissue" /\ Fresh
  /\ Issue
  /\ identity' = [identity EXCEPT !.verificationToken = nextToken,
                                  !.password = authRequest[r].password]
  /\ SetAuth(r, NoAuth)
  /\ UNCHANGED <<expired, redeemed, restored>>

-----------------------------------------------------------------------------
(* Load, decide, and save: read once more, and write.                        *)

\* A request that presents a token loads the row only when the row holds it.
FindActivation(r, token) ==
  /\ authRequest[r].at = "idle"
  /\ identity.verificationToken = token /\ token \notin expired
  /\ ~identity.isActive
  /\ Proceed(r, "activate", AnyPassword)
  /\ UNCHANGED <<identity, nextToken, expired, redeemed, restored>>

FindRotation(r, token) ==
  /\ authRequest[r].at = "idle"
  /\ identity.refreshToken = token
  /\ Proceed(r, "rotate", AnyPassword)
  /\ UNCHANGED <<identity, nextToken, expired, redeemed, restored>>

\* forgotPassword does not ask whether the account is active.
FindForgotten(r) ==
  /\ authRequest[r].at = "idle"
  /\ identity.exists
  /\ Proceed(r, "forgot", AnyPassword)
  /\ UNCHANGED <<identity, nextToken, expired, redeemed, restored>>

FindReset(r, token, password) ==
  /\ authRequest[r].at = "idle"
  /\ identity.resetToken = token /\ token \notin expired
  /\ identity.isActive
  /\ Proceed(r, "reset", password)
  /\ UNCHANGED <<identity, nextToken, expired, redeemed, restored>>

\* Validating e-mail and password writes nothing; a token is issued next.
Login(r, password) ==
  /\ authRequest[r].at = "idle"
  /\ identity.isActive /\ identity.password = password
  /\ Proceed(r, "issue", AnyPassword)
  /\ UNCHANGED <<identity, nextToken, expired, redeemed, restored>>

\* save reads the row once more, without a lock.
ReReadIdentity(r) ==
  /\ authRequest[r].at \in {"activate", "rotate", "forgot", "reset"}
  /\ ~authRequest[r].before.exists
  /\ SetAuth(r, [authRequest[r] EXCEPT !.before = identity])
  /\ UNCHANGED <<identity, nextToken, expired, redeemed, restored>>

TokensOf(entity) == {entity.refreshToken, entity.verificationToken, entity.resetToken}

\* Tokens that the row has again, other than the one just issued.
Restores == restored' = restored \cup
  ((TokensOf(identity') \ TokensOf(identity)) \cap (1 .. nextToken - 1))

\* The request writes the columns in which its entity differed.
SaveEntity(r, at, entity) ==
  /\ authRequest[r].at = at /\ authRequest[r].before.exists
  /\ identity' = Written(entity, authRequest[r].before, identity)
  /\ Restores

Redeem(token) == redeemed' = [redeemed EXCEPT ![token] = @ + 1]

Activate(r) ==
  LET loaded == authRequest[r].entity IN
  /\ SaveEntity(r, "activate", [loaded EXCEPT !.verificationToken = None0, !.isActive = TRUE])
  /\ Redeem(loaded.verificationToken)
  /\ SetAuth(r, NoAuth)
  /\ UNCHANGED <<nextToken, expired>>

\* A wrong form: the token stays until generateTokens replaces it.
RotateLater(r) ==
  LET loaded == authRequest[r].entity IN
  /\ SaveEntity(r, "rotate", loaded)
  /\ Redeem(loaded.refreshToken)
  /\ SetAuth(r, [authRequest[r] EXCEPT !.at = "issue"])
  /\ UNCHANGED <<nextToken, expired>>

\* rotateRefreshToken clears the token and then issues another.
Rotate(r) ==
  LET loaded == authRequest[r].entity IN
  /\ SaveEntity(r, "rotate", [loaded EXCEPT !.refreshToken = None0])
  /\ Redeem(loaded.refreshToken)
  /\ SetAuth(r, [authRequest[r] EXCEPT !.at = "issue"])
  /\ UNCHANGED <<nextToken, expired>>

Forgot(r) ==
  LET loaded == authRequest[r].entity IN
  /\ Fresh /\ Issue
  /\ SaveEntity(r, "forgot", [loaded EXCEPT !.resetToken = nextToken])
  /\ SetAuth(r, NoAuth)
  /\ UNCHANGED <<expired, redeemed>>

\* The hash of a password is always a new one, so that it is always written.
Reset(r) ==
  LET loaded == authRequest[r].entity
      mixed  == Written([loaded EXCEPT !.resetToken = None0], authRequest[r].before, identity)
  IN
  /\ authRequest[r].at = "reset" /\ authRequest[r].before.exists
  /\ identity' = [mixed EXCEPT !.password = authRequest[r].password]
  /\ Restores
  /\ Redeem(loaded.resetToken)
  /\ SetAuth(r, NoAuth)
  /\ UNCHANGED <<nextToken, expired>>

\* generateTokens: an UPDATE of the refresh token alone.
IssueTokens(r) ==
  /\ authRequest[r].at = "issue" /\ Fresh
  /\ Issue
  /\ identity' = [identity EXCEPT !.refreshToken = nextToken]
  /\ SetAuth(r, NoAuth)
  /\ UNCHANGED <<expired, redeemed, restored>>

\* Time passes: an hour for a verification, fifteen minutes for a reset.
TokenExpires(token) ==
  /\ token \in {identity.verificationToken, identity.resetToken} \ ({None0} \cup expired)
  /\ expired' = expired \cup {token}
  /\ UNCHANGED <<identity, nextToken, authRequest, redeemed, restored>>

-----------------------------------------------------------------------------
AuthNext ==
  \/ \E r \in AuthRequests :
       \/ \E p \in Passwords : Register(r, p) \/ Login(r, p)
       \/ InsertIdentity(r) \/ ReissueVerification(r)
       \/ \E t \in Tokens : FindActivation(r, t) \/ FindRotation(r, t)
       \/ \E t \in Tokens, p \in Passwords : FindReset(r, t, p)
       \/ FindForgotten(r) \/ ReReadIdentity(r)
       \/ Activate(r) \/ Rotate(r) \/ Forgot(r) \/ Reset(r) \/ IssueTokens(r)
  \/ \E t \in Tokens : TokenExpires(t)

AuthSpec == AuthInit /\ [][AuthNext]_authVars
-----------------------------------------------------------------------------
\* Nothing is written to an account that does not exist, and no column holds a
\* token that was never issued.
AuthTypeOK ==
  /\ identity \in Identity
  /\ ~identity.exists => identity = NoIdentity
  /\ nextToken \in 1 .. MaxTokens + 1
  /\ \A t \in TokensOf(identity) : t < nextToken
  /\ expired \subseteq Tokens
  /\ authRequest \in [AuthRequests -> AuthRow \cup {NoAuth}]
  /\ redeemed \in [Tokens -> Nat]
  /\ restored \subseteq Tokens

\* A token that was redeemed has gone from the row, so that no request that comes
\* later can present it, however many requests redeem it at the same time; it is
\* there again only where the save of an older entity has written it back.
RedeemedTokenIsGone ==
  \A t \in Tokens : redeemed[t] > 0 => t \notin TokensOf(identity) \/ t \in restored

\* docs/features/auth.md:21: "Refresh tokens are single-use (rotation enforced): the
\* raw jti is embedded in the signed refresh JWT, its SHA-256 hash is persisted on
\* the local Identity.refreshToken column, and is cleared (null) as soon as it is
\* redeemed. Reusing a refresh token, or one that doesn't match the stored hash,
\* throws Unauthorized: Refresh token is invalid or already used."  False of
\* the code when two requests present one token (README, section 3).
RotationEnforced ==
  [][ \A r \in AuthRequests :
        authRequest[r].at = "rotate" /\ authRequest'[r].at = "issue" =>
          redeemed[authRequest[r].entity.refreshToken] = 0 ]_authVars

\* The request ends by writing what it prepared while the row was another.
Stale(r) ==
  /\ authRequest[r].at \in {"reissue", "activate", "rotate", "forgot", "reset"}
  /\ authRequest'[r].at # authRequest[r].at
  /\ identity # authRequest[r].entity

\* Once active, an account stays active and keeps its password until a reset:
\* registering its address again changes neither.  Only a request that read the
\* row before it changed can undo an activation or a reset.
AccountKept ==
  [][ identity.isActive =>
        \/ \E r \in AuthRequests : Stale(r)
        \/ /\ identity'.isActive
           /\ \/ identity'.password = identity.password
              \/ \E r \in AuthRequests : authRequest[r].at = "reset" /\ authRequest'[r].at = "idle" ]_authVars

================================================================================
