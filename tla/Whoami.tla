------------------------------- MODULE Whoami -------------------------------
(***************************************************************************)
(* Token validation: what internal/pat checks before it asks the Codex     *)
(* Auth API who a token belongs to, and what it makes of the answer.       *)
(*                                                                         *)
(* A text is abstracted to the facts the code tests: whether it is blank,  *)
(* too long, and so on.  An answer's body is the JSON document upstream    *)
(* wrote, of which decodeIdentity sees all or nothing.                     *)
(***************************************************************************)
EXTENDS Naturals

-----------------------------------------------------------------------------
(* The request.                                                            *)

TokenTexts == [blank: BOOLEAN, long: BOOLEAN, prefixed: BOOLEAN, control: BOOLEAN]

NormalizeToken(t) == ~t.blank /\ ~t.long /\ t.prefixed /\ ~t.control

\* extras: user information, a query or a fragment.  A blank setting stands for
\* the default address.
BaseURLs == [blank: BOOLEAN, parses: BOOLEAN, http: BOOLEAN, host: BOOLEAN, extras: BOOLEAN]

ResolveWhoamiURL(u) == u.blank \/ (u.parses /\ u.http /\ u.host /\ ~u.extras)

-----------------------------------------------------------------------------
(* The answer.                                                             *)

\* What HTTPDoLimited may report beside the response.
Errors == {"none", "too_large", "transport"}

FailureKinds == {"authentication_failed", "validation_rejected", "rate_limited",
                 "transient_failure", "malformed_response"}

\* The document: how much of it is JSON (exactly one value, none, or a value and
\* then something), and each field's text.
Texts == {"absent", "blank", "text", "bad"}
Documents == [json: {"one", "none", "trailing"}, user: Texts, account: Texts,
              plan: Texts, email: Texts, fedramp: BOOLEAN]

\* An oversized field or one with control characters is "bad".
normalizeIdentityField(text, required) ==
  text = "text" \/ (text = "blank" /\ ~required)

\* Whether a body of the given size holding document d names an identity.
decodeIdentity(d, size, MaxWhoamiBodyBytes) ==
  /\ size > 0 /\ size <= MaxWhoamiBodyBytes
  /\ d.json = "one"
  /\ d.fedramp
  /\ \A required \in {d.user, d.account, d.plan} : normalizeIdentityField(required, TRUE)
  /\ d.email = "absent" \/ normalizeIdentityField(d.email, FALSE)

IsSuccess(status) == status >= 200 /\ status < 300

classifyStatus(status) ==
  CASE status \in {401, 403} -> "authentication_failed"
    [] status = 429          -> "rate_limited"
    [] status >= 500         -> "transient_failure"
    [] OTHER                 -> "validation_rejected"

\* Mutant: a host error counts as a rejected token.
FetchIdentityStrict(reply) ==
  IF reply.err # "none" \/ reply.status \in {401, 403} THEN "authentication_failed"
  ELSE IF ~IsSuccess(reply.status) THEN classifyStatus(reply.status)
  ELSE IF ~reply.decodes THEN "malformed_response"
  ELSE "valid"

\* "valid" when the reply carries an identity, else the kind of the error.
FetchIdentity(reply) ==
  IF reply.err # "none" /\ (IsSuccess(reply.status) \/ reply.status = 0)
  THEN IF reply.err = "too_large" THEN "malformed_response" ELSE "transient_failure"
  ELSE IF ~IsSuccess(reply.status) THEN classifyStatus(reply.status)
  ELSE IF ~reply.decodes THEN "malformed_response"
  ELSE "valid"
=============================================================================
