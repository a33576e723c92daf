----------------------------- MODULE Credential -----------------------------
(***************************************************************************)
(* The pure part of internal/pat: the credential record the plugin stores, *)
(* the names of its files, and the offline parser CPA calls.  What the     *)
(* Codex Auth API's reply means is in Whoami.                              *)
(*                                                                         *)
(* A JSON document is abstracted to the record of the facts the code       *)
(* derives from it; a file name to the facts parseOwnedFile and EqualFold  *)
(* derive from it.  Text the plugin rejects as a token is NoToken, a       *)
(* missing or blank identifier is NoId.                                    *)
(***************************************************************************)
EXTENDS Whoami

CONSTANTS
  Accounts,     \* workspace identifiers (account_id)
  Users,        \* ChatGPT user identifiers (chatgpt_user_id)
  Metas,        \* mutable display metadata: email and plan type together
  Segments,     \* the readable file name suffixes metadata sanitises to
  Segment,      \* sanitizeFileSegment: Metas -> Segments, need not be injective
  Tokens,       \* tokens NormalizeToken accepts
  ForeignNames, \* .json names outside the plugin's grammar (retired forms too)
  UnsafeNames,  \* names isSafeAuthFileName rejects
  Statuses,     \* HTTP statuses the Auth API may answer with; 0 is none at all
  Stamps,       \* the mutations that can set validated_at
  NoId, NoToken, NoStamp

ASSUME CredentialConstants ==
  /\ Accounts # {} /\ Users # {} /\ Metas # {}
  /\ Segment \in [Metas -> Segments]
  /\ NoId \notin Accounts \cup Users
  /\ NoToken \notin Tokens
  /\ NoStamp \notin Stamps
  /\ Statuses \subseteq Nat

-----------------------------------------------------------------------------
(* File names.                                                             *)

\* SHA-256 truncated to 96 bits, taken to be collision free.
principalHash(account, user) == <<account, user>>

FileNames ==
  [owned: BOOLEAN, hash: (Accounts \cup {NoId}) \X (Users \cup {NoId}),
   segment: Segments \cup ForeignNames, spelling: {"lower", "mixed"}]

FileName(account, user, meta) ==
  [spelling |-> "lower", hash |-> principalHash(account, user),
   owned |-> TRUE, segment |-> Segment[meta]]

\* A name outside the plugin's grammar.
ForeignName(f) ==
  [spelling |-> "lower", hash |-> principalHash(NoId, NoId),
   owned |-> FALSE, segment |-> f]

\* strings.EqualFold: names that differ only by case.
EqualFold(m, n) == [m EXCEPT !.spelling = "lower"] = [n EXCEPT !.spelling = "lower"]

IsOwnedFile(n) == n.owned

IsOwnedFileForPrincipal(n, account, user) ==
  /\ n.owned
  /\ account # NoId /\ user # NoId
  /\ n.hash = principalHash(account, user)

isSafeAuthFileName(n) == n \notin UnsafeNames

-----------------------------------------------------------------------------
(* Documents.                                                              *)

\* pat: a record marked codex/pat that decodes; patbad: marked, but a field has
\* the wrong JSON type; broken: not JSON; oauth: a native codex record; alien: a
\* record of another provider.
Kinds == {"absent", "pat", "patbad", "broken", "oauth", "alien"}

\* sound: every other condition of Validate (plan type, validated_at, prefix,
\* FedRAMP header, no OAuth or API-key field) holds.
Contents ==
  [kind: Kinds, account: Accounts \cup {NoId}, user: Users \cup {NoId},
   meta: Metas, token: Tokens \cup {NoToken}, disabled: BOOLEAN,
   state: {"valid", "invalid", "account_mismatch"}, sound: BOOLEAN,
   at: Stamps \cup {NoStamp}]

Identities == [account: Accounts, user: Users, meta: Metas]

AnyMeta == CHOOSE m \in Metas : TRUE

\* A document the plugin reads nothing from.
Opaque(kind) ==
  [kind |-> kind, account |-> NoId, user |-> NoId, meta |-> AnyMeta,
   token |-> NoToken, disabled |-> FALSE, state |-> "valid", sound |-> FALSE,
   at |-> NoStamp]

Absent == Opaque("absent")

\* A PAT record an earlier release, an operator or a backup left behind.
Stored(account, user, meta, token, disabled) ==
  [Opaque("pat") EXCEPT !.account = account, !.user = user, !.meta = meta,
                        !.token = token, !.disabled = disabled, !.sound = TRUE]

\* DecodeOwnedCredential's second and third results.
Owned(c) == c.kind \in {"pat", "patbad"}
DecodeFails(c) == c.kind \in {"patbad", "broken"}

Validate(c) ==
  /\ c.kind = "pat"
  /\ c.token \in Tokens
  /\ c.account # NoId /\ c.user # NoId
  /\ c.sound

samePrincipal(c, d) ==
  c.account # NoId /\ c.user # NoId /\ c.account = d.account /\ c.user = d.user

NewCredential(token, identity, now) ==
  [kind |-> "pat", account |-> identity.account, user |-> identity.user,
   meta |-> identity.meta, token |-> token, disabled |-> FALSE,
   state |-> "valid", sound |-> TRUE, at |-> now]

ApplyIdentity(c, identity, now) ==
  [c EXCEPT !.user = identity.user, !.meta = identity.meta,
            !.at = now, !.state = "valid", !.disabled = FALSE]

Disable(c, state, now) ==
  [c EXCEPT !.disabled = TRUE, !.state = state, !.at = now]

\* Mutants: the staging document stays enabled; it loses its user.
enabledHostPayload(c) == [c EXCEPT !.token = NoToken]
anonymousHostPayload(c) == [c EXCEPT !.token = NoToken, !.disabled = TRUE, !.user = NoId]

failClosedHostPayload(c) == [c EXCEPT !.token = NoToken, !.disabled = TRUE]

-----------------------------------------------------------------------------
(* The runtime record a document becomes: what the native executor may use. *)

Views == [disabled: BOOLEAN, bearer: Tokens \cup {NoToken}]

AuthData(c) == [disabled |-> c.disabled, bearer |-> c.token]
disabledAuthData == [disabled |-> TRUE, bearer |-> NoToken]

\* What CPA makes of a document no plugin handles (external).
NativeView(c) == [disabled |-> c.disabled, bearer |-> c.token]

\* ParseAuth's Handled flag and Auth; Named is FALSE for a request without a
\* file name, as RefreshAuth builds it.
Handled(named, n, c) == Owned(c) \/ (DecodeFails(c) /\ named /\ IsOwnedFile(n))

ParseAuth(named, n, c) ==
  IF /\ Owned(c) /\ ~DecodeFails(c) /\ Validate(c)
     /\ (named /\ IsOwnedFile(n)) => IsOwnedFileForPrincipal(n, c.account, c.user)
  THEN AuthData(c)
  ELSE disabledAuthData

\* The refresh request carries the runtime's stored JSON and no file name;
\* storage the plugin does not own passes through unchanged.
RefreshAuth(n, c) ==
  IF Handled(FALSE, n, c) THEN ParseAuth(FALSE, n, c) ELSE NativeView(c)

-----------------------------------------------------------------------------
(* The whoami reply.                                                       *)

\* err: HTTPDoLimited's error, which may accompany a status already received.
\* decodes: whether decodeIdentity accepts the body, and then its identity.
Replies == [status: Statuses, err: Errors, decodes: BOOLEAN, identity: Identities]
=============================================================================
