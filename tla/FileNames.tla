----------------------------- MODULE FileNames -----------------------------
(***************************************************************************)
(* The names of the plugin's files: FileName and sanitizeFileSegment, which *)
(* write them, and parseOwnedFile, which recognises them.                  *)
(*                                                                         *)
(* Email and plan are texts from outside, of any length.  The loop of      *)
(* sanitizeFileSegment is the state machine: one step per character, first *)
(* over the email and then over the plan; the text is chosen as it is      *)
(* read.  Prefix and extension of a name are constant and left out; the    *)
(* stem between them is kept character by character.                       *)
(***************************************************************************)
EXTENDS Integers, Sequences

CONSTANTS
  Hex, OtherAlphaNumeric,  \* the characters isLowerHex and isASCIIAlphaNumeric accept
  Punctuation,             \* the characters of "@._+"
  Dash,                    \* '-'
  Others,                  \* every other byte
  HashLength,              \* identityHashHexLength
  EmailLimit, PlanLimit,   \* maxEmailFileSegmentBytes, maxPlanFileSegmentBytes
  MaxText                  \* bound: characters of a text

AlphaNumeric == Hex \cup OtherAlphaNumeric
Characters == AlphaNumeric \cup Punctuation \cup {Dash} \cup Others

ASSUME FileNamesConstants ==
  /\ HashLength \in Nat \ {0}
  /\ EmailLimit \in Nat \ {0} /\ PlanLimit \in Nat \ {0}
  /\ MaxText \in Nat
  /\ Dash \notin AlphaNumeric
  /\ AlphaNumeric \cap Punctuation = {} /\ Dash \notin Punctuation
  /\ Others \cap (AlphaNumeric \cup Punctuation \cup {Dash}) = {}

VARIABLES
  field,    \* which segment is being made: "email", "plan", or "done"
  text,     \* the characters read of it so far
  builder, pendingSeparator, stopped,  \* the loop's locals; stopped after a break
  segments  \* the finished segments

vars == <<field, text, builder, pendingSeparator, stopped, segments>>

Fields == {"email", "plan"}

Limit(f) == IF f = "email" THEN EmailLimit ELSE PlanLimit
Allowed(f) == AlphaNumeric \cup (IF f = "email" THEN Punctuation ELSE {})

\* Mutant: the separator between the segments is not counted.
maxSuffixUnseparated == EmailLimit + PlanLimit

maxReadableFileSuffixBytes == EmailLimit + 1 + PlanLimit

-----------------------------------------------------------------------------

\* strings.Trim(s, "-@._+"): what a builder can hold besides that set is
\* alphanumeric.
Alphas(s) == {i \in DOMAIN s : s[i] \in AlphaNumeric}
First(s) == CHOOSE i \in Alphas(s) : \A j \in Alphas(s) : i <= j
Last(s) == CHOOSE i \in Alphas(s) : \A j \in Alphas(s) : i >= j

Trim(s) == IF Alphas(s) = {} THEN <<>> ELSE SubSeq(s, First(s), Last(s))

\* What FileName appends for a segment.
Suffixed(segment) == IF segment = <<>> THEN <<>> ELSE <<Dash>> \o segment

FileName(hash, email, plan) == hash \o Suffixed(email) \o Suffixed(plan)

isLowerHex(value) == value \in [1..HashLength -> Hex]

\* Whether a stem has the plugin's form; its hash is then its beginning.
parseOwnedFile(stem) ==
  LET human == SubSeq(stem, HashLength + 2, Len(stem)) IN
  /\ Len(stem) >= HashLength
  /\ isLowerHex(SubSeq(stem, 1, HashLength))
  /\ \/ Len(stem) = HashLength
     \/ /\ Len(stem) >= HashLength + 2 /\ stem[HashLength + 1] = Dash
        /\ Len(human) <= maxReadableFileSuffixBytes
        /\ human[1] \in AlphaNumeric /\ human[Len(human)] \in AlphaNumeric
        /\ \A i \in DOMAIN human : human[i] \in AlphaNumeric \cup Punctuation \cup {Dash}

-----------------------------------------------------------------------------
(* sanitizeFileSegment.                                                    *)

Start(f) ==
  /\ field' = f
  /\ text' = <<>> /\ builder' = <<>>
  /\ pendingSeparator' = FALSE /\ stopped' = FALSE

Init ==
  /\ field = "email"
  /\ text = <<>> /\ builder = <<>>
  /\ pendingSeparator = FALSE /\ stopped = FALSE
  /\ segments = [f \in Fields |-> <<>>]

\* Mutant: text that starts with a forbidden character gets a separator too.
SeparateAlways(b) == TRUE

\* A separator is written only between characters.
Separate(b) == Len(b) > 0

\* Mutant: the limit itself is overrun by one.
NoRoomLate(b, n) == Len(b) + n > Limit(field) + 1

NoRoom(b, n) == Len(b) + n > Limit(field)

\* One iteration, for the character c.
Character(c) ==
  /\ field \in Fields /\ ~stopped /\ Len(text) < MaxText
  /\ text' = Append(text, c)
  /\ IF c \notin Allowed(field)
     THEN pendingSeparator' = Separate(builder) /\ UNCHANGED <<builder, stopped>>
     ELSE IF NoRoom(builder, IF pendingSeparator THEN 2 ELSE 1)
     THEN stopped' = TRUE /\ UNCHANGED <<builder, pendingSeparator>>
     ELSE /\ builder' = (IF pendingSeparator THEN Append(builder, Dash) ELSE builder) \o <<c>>
          /\ pendingSeparator' = FALSE
          /\ UNCHANGED stopped
  /\ UNCHANGED <<field, segments>>

\* The text goes on after the break, unread.
Unread(c) ==
  /\ field \in Fields /\ stopped /\ Len(text) < MaxText
  /\ text' = Append(text, c)
  /\ UNCHANGED <<field, builder, pendingSeparator, stopped, segments>>

\* The end of the text, or what follows the break: trim, and go on to the plan.
Finish ==
  /\ field \in Fields
  /\ segments' = [segments EXCEPT ![field] = Trim(builder)]
  /\ Start(IF field = "email" THEN "plan" ELSE "done")

Next == (\E c \in Characters : Character(c) \/ Unread(c)) \/ Finish

Spec == Init /\ [][Next]_vars

-----------------------------------------------------------------------------
(* Properties.                                                             *)

\* The type invariant; a segment under construction keeps its byte limit.
TypeOK ==
  /\ field \in Fields \cup {"done"}
  /\ text \in Seq(Characters)
  /\ builder \in Seq(AlphaNumeric \cup Punctuation \cup {Dash})
  /\ field \in Fields => Len(builder) <= Limit(field)
  /\ pendingSeparator \in BOOLEAN /\ stopped \in BOOLEAN
  /\ segments \in [Fields -> Seq(AlphaNumeric \cup Punctuation \cup {Dash})]

\* Whatever email and plan upstream reports, and wherever they are cut, the name
\* FileName makes of them is one parseOwnedFile recognises as the plugin's own,
\* with the same hash: a credential is never saved under a name that status,
\* revalidation and the next import would not find again.
NameIsOwned ==
  \A hash \in [1..HashLength -> Hex] :
    LET stem == FileName(hash, segments["email"], segments["plan"]) IN
    parseOwnedFile(stem) /\ SubSeq(stem, 1, HashLength) = hash

\* What sanitizeFileSegment is to compute, in one piece: drop the forbidden
\* characters in front, write one '-' for each run of them inside, cut, trim.
Reference(s, f) ==
  LET allowed == {i \in DOMAIN s : s[i] \in Allowed(f)}
      collapsed[i \in 0..Len(s)] ==
        IF i = 0 THEN <<>>
        ELSE IF i \notin allowed THEN collapsed[i - 1]
        ELSE IF i - 1 \in allowed \/ collapsed[i - 1] = <<>>
        THEN Append(collapsed[i - 1], s[i])
        ELSE collapsed[i - 1] \o <<Dash, s[i]>>
      whole == collapsed[Len(s)] IN
  Trim(SubSeq(whole, 1, IF Len(whole) < Limit(f) THEN Len(whole) ELSE Limit(f)))

\* The loop, with its pending separator, its two length tests and its breaks,
\* computes the reference: a cut loses only the end of a segment.
SegmentIsReference == field \in Fields => Trim(builder) = Reference(text, field)
=============================================================================
