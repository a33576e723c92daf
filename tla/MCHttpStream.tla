---------------------------- MODULE MCHttpStream ----------------------------
(* Small instances of HttpStream. *)
EXTENDS HttpStream

GoodToken == [blank |-> FALSE, long |-> FALSE, prefixed |-> TRUE, control |-> FALSE]
DefaultURL == [blank |-> TRUE, parses |-> FALSE, http |-> FALSE, host |-> FALSE, extras |-> FALSE]

\* A limit of one byte, none at all, and a base URL without a host.
MCRequests ==
  {[token |-> GoodToken, url |-> DefaultURL, limit |-> 1],
   [token |-> GoodToken, url |-> DefaultURL, limit |-> 0],
   [token |-> GoodToken, url |-> [DefaultURL EXCEPT !.blank = FALSE], limit |-> 1]}

Whole == [json |-> "one", user |-> "text", account |-> "text", plan |-> "text",
          email |-> "blank", fedramp |-> TRUE]

\* An identity, and one without its user.
MCBodies == {Whole, [Whole EXCEPT !.user = "blank"]}

MCStatuses == {200, 403}
=============================================================================
