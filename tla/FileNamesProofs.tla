-------------------------- MODULE FileNamesProofs --------------------------
(***************************************************************************)
(* Theorems about FileNames: for every alphabet, every hash length, both   *)
(* limits and texts of every length.                                       *)
(***************************************************************************)
EXTENDS FileNames, SequenceTheorems, WellFoundedInduction, TLAPS

-----------------------------------------------------------------------------
(* Least and greatest members, and what trimming leaves.                   *)

\* A set of natural numbers has a least member.
LEMMA LeastExists ==
  ASSUME NEW T \in SUBSET Nat, T # {} PROVE \E x \in T : \A y \in T : x <= y
<1> DEFINE R == OpToRel(<, Nat)
<1>1. IsWellFoundedOn(R, Nat)
  BY NatLessThanWellFounded
<1>2. \A x, y \in Nat : y < x => <<y, x>> \in R
  BY DEF OpToRel
<1> HIDE DEF R
<1>3. PICK x \in T : \A y \in T : ~(<<y, x>> \in R)
  BY <1>1, WFMin
<1>4. ASSUME NEW y \in T PROVE x <= y
  <2>1. x \in Nat /\ y \in Nat
    OBVIOUS
  <2>2. ~(y < x)
    BY <1>2, <1>3, <2>1
  <2> QED BY <2>1, <2>2
<1> QED BY <1>4

\* A bounded one has a greatest.
LEMMA GreatestExists ==
  ASSUME NEW m \in Nat, NEW T \in SUBSET (0..m), T # {}
  PROVE  \E x \in T : \A y \in T : x >= y
<1> DEFINE U == {n \in Nat : n <= m /\ m - n \in T}
<1>1. PICK y \in T : TRUE
  OBVIOUS
<1>2. U \in SUBSET Nat /\ m - y \in U
  <2>1. m - y \in Nat /\ m - y <= m /\ m - (m - y) = y
    BY <1>1
  <2> QED BY <1>1, <2>1
<1>3. PICK n \in U : \A k \in U : n <= k
  BY <1>2, LeastExists
<1>4. ASSUME NEW z \in T PROVE m - n >= z
  <2>1. m - z \in Nat /\ m - z <= m /\ m - (m - z) = z
    OBVIOUS
  <2>2. m - z \in U
    BY <2>1
  <2>3. n <= m - z /\ n \in Nat
    BY <1>3, <2>2
  <2> QED BY <2>1, <2>3
<1> QED BY <1>3, <1>4

Written == AlphaNumeric \cup Punctuation \cup {Dash}

\* What a segment of a name is: empty, or within its limit and alphanumeric at
\* both ends.
IsSegment(s, max) ==
  /\ s \in Seq(Written)
  /\ s # <<>> => /\ Len(s) \in 1..max
                 /\ s[1] \in AlphaNumeric /\ s[Len(s)] \in AlphaNumeric

\* Trimming makes a segment of what the loop has written.
LEMMA TrimIsSegment ==
  ASSUME NEW max \in Nat, NEW s \in Seq(Written), Len(s) <= max
  PROVE  IsSegment(Trim(s), max)
<1>0. Len(s) \in Nat /\ DOMAIN s = 1..Len(s) /\ \A i \in 1..Len(s) : s[i] \in Written
  OBVIOUS
<1>1. CASE Alphas(s) = {}
  BY <1>1 DEF Trim, IsSegment
<1>2. CASE Alphas(s) # {}
  <2>1. Alphas(s) \in SUBSET Nat /\ Alphas(s) \in SUBSET (0..Len(s))
    BY <1>0 DEF Alphas
  <2>2. First(s) \in Alphas(s) /\ \A j \in Alphas(s) : First(s) <= j
    BY <1>2, <2>1, LeastExists DEF First
  <2>3. Last(s) \in Alphas(s) /\ \A j \in Alphas(s) : Last(s) >= j
    BY <1>0, <1>2, <2>1, GreatestExists DEF Last
  <2> DEFINE a == First(s)
             b == Last(s)
             t == SubSeq(s, a, b)
  <2>4. /\ a \in 1..Len(s) /\ b \in 1..Len(s) /\ a <= b
        /\ s[a] \in AlphaNumeric /\ s[b] \in AlphaNumeric
    BY <1>0, <2>2, <2>3 DEF Alphas
  <2> HIDE DEF a, b
  <2>5. \A i \in a..b : s[i] \in Written
    BY <1>0, <2>4
  <2>6. /\ t \in Seq(Written) /\ Len(t) = b - a + 1
        /\ \A i \in 1..(b - a + 1) : t[i] = s[a + i - 1]
    BY <2>4, <2>5, SubSeqProperties
  <2> HIDE DEF t
  <2>7. 1 \in 1..(b - a + 1) /\ a + 1 - 1 = a /\ b - a + 1 \in 1..(b - a + 1) /\ a + (b - a + 1) - 1 = b
    BY <2>4
  <2>8. t[1] = s[a] /\ t[b - a + 1] = s[b]
    BY <2>6, <2>7
  <2>9. b - a + 1 \in 1..max
    BY <1>0, <2>4
  <2>10. IsSegment(t, max)
    BY <2>4, <2>6, <2>8, <2>9 DEF IsSegment
  <2> QED BY <1>2, <2>10 DEF Trim, t, a, b
<1> QED BY <1>1, <1>2

-----------------------------------------------------------------------------
(* A name made of segments is recognised.                                  *)

\* What follows the hash in a name of the plugin.
IsTail(t) ==
  t # <<>> => /\ Len(t) \in 2..(maxReadableFileSuffixBytes + 1)
              /\ t[1] = Dash /\ t[2] \in AlphaNumeric /\ t[Len(t)] \in AlphaNumeric

\* A segment with its separator.
LEMMA SuffixedShape ==
  ASSUME NEW max \in Nat, NEW s, IsSegment(s, max)
  PROVE  /\ Suffixed(s) \in Seq(Written)
         /\ s = <<>> => Suffixed(s) = <<>>
         /\ s # <<>> => /\ Len(Suffixed(s)) = Len(s) + 1 /\ Len(s) \in 1..max
                        /\ Suffixed(s)[1] = Dash /\ Suffixed(s)[2] \in AlphaNumeric
                        /\ Suffixed(s)[Len(s) + 1] \in AlphaNumeric
<1>1. CASE s = <<>>
  BY <1>1 DEF Suffixed
<1>2. CASE s # <<>>
  <2>0. s \in Seq(Written) /\ <<Dash>> \in Seq(Written) /\ Len(<<Dash>>) = 1 /\ <<Dash>>[1] = Dash
    BY DEF IsSegment, Written
  <2>1. Len(s) \in 1..max /\ s[1] \in AlphaNumeric /\ s[Len(s)] \in AlphaNumeric
    BY <1>2 DEF IsSegment
  <2> DEFINE t == <<Dash>> \o s
  <2>2. /\ t \in Seq(Written) /\ Len(t) = 1 + Len(s)
        /\ \A i \in 1..(1 + Len(s)) : t[i] = IF i <= 1 THEN <<Dash>>[i] ELSE s[i - 1]
    BY <2>0, ConcatProperties
  <2> HIDE DEF t
  <2>3. /\ 1 \in 1..(1 + Len(s)) /\ 2 \in 1..(1 + Len(s)) /\ Len(s) + 1 \in 1..(1 + Len(s))
        /\ ~(2 <= 1) /\ ~(Len(s) + 1 <= 1) /\ 2 - 1 = 1 /\ Len(s) + 1 - 1 = Len(s)
        /\ 1 + Len(s) = Len(s) + 1
    BY <2>1
  <2>4. t[1] = Dash /\ t[2] = s[1] /\ t[Len(s) + 1] = s[Len(s)]
    BY <2>0, <2>2, <2>3
  <2>5. Suffixed(s) = t
    BY <1>2 DEF Suffixed, t
  <2> QED BY <1>2, <2>1, <2>2, <2>3, <2>4, <2>5
<1> QED BY <1>1, <1>2

\* Two segments with their separators are a tail, whichever of them is empty.
LEMMA TailShape ==
  ASSUME NEW email, NEW plan, IsSegment(email, EmailLimit), IsSegment(plan, PlanLimit)
  PROVE  /\ Suffixed(email) \o Suffixed(plan) \in Seq(Written)
         /\ IsTail(Suffixed(email) \o Suffixed(plan))
<1> DEFINE e == Suffixed(email)
           p == Suffixed(plan)
           t == e \o p
<1> SUFFICES t \in Seq(Written) /\ IsTail(t)
  OBVIOUS
<1>0. EmailLimit \in Nat /\ PlanLimit \in Nat
  BY FileNamesConstants
<1>1. /\ e \in Seq(Written)
      /\ email = <<>> => e = <<>>
      /\ email # <<>> => /\ Len(e) = Len(email) + 1 /\ Len(email) \in 1..EmailLimit
                         /\ e[1] = Dash /\ e[2] \in AlphaNumeric
                         /\ e[Len(email) + 1] \in AlphaNumeric
  BY <1>0, SuffixedShape
<1>2. /\ p \in Seq(Written)
      /\ plan = <<>> => p = <<>>
      /\ plan # <<>> => /\ Len(p) = Len(plan) + 1 /\ Len(plan) \in 1..PlanLimit
                        /\ p[1] = Dash /\ p[2] \in AlphaNumeric
                        /\ p[Len(plan) + 1] \in AlphaNumeric
  BY <1>0, SuffixedShape
<1> HIDE DEF e, p
<1>3. /\ t \in Seq(Written) /\ Len(t) = Len(e) + Len(p)
      /\ \A i \in 1..(Len(e) + Len(p)) : t[i] = IF i <= Len(e) THEN e[i] ELSE p[i - Len(e)]
  BY <1>1, <1>2, ConcatProperties
<1> HIDE DEF t
<1>4. CASE email = <<>>
  <2>1. t = p
    BY <1>1, <1>2, <1>4, ConcatEmptySeq DEF t
  <2>2. CASE plan = <<>>
    BY <1>2, <2>1, <2>2 DEF IsTail
  <2>3. CASE plan # <<>>
    <3>1. Len(p) \in 2..(maxReadableFileSuffixBytes + 1)
      BY <1>0, <1>2, <2>3 DEF maxReadableFileSuffixBytes
    <3> QED BY <1>2, <2>1, <2>3, <3>1 DEF IsTail
  <2> QED BY <2>2, <2>3
<1>5. CASE email # <<>> /\ plan = <<>>
  <2>1. t = e
    BY <1>1, <1>2, <1>5, ConcatEmptySeq DEF t
  <2>2. Len(e) \in 2..(maxReadableFileSuffixBytes + 1)
    BY <1>0, <1>1, <1>5 DEF maxReadableFileSuffixBytes
  <2> QED BY <1>1, <1>5, <2>1, <2>2 DEF IsTail
<1>6. CASE email # <<>> /\ plan # <<>>
  <2>1. Len(email) \in 1..EmailLimit /\ Len(plan) \in 1..PlanLimit
    BY <1>1, <1>2, <1>6
  <2>2. Len(t) = Len(email) + Len(plan) + 2 /\ Len(e) = Len(email) + 1
    BY <1>1, <1>2, <1>3, <1>6, <2>1
  <2>3. Len(t) \in 2..(maxReadableFileSuffixBytes + 1)
    BY <1>0, <2>1, <2>2 DEF maxReadableFileSuffixBytes
  <2>4. t[1] = e[1] /\ t[2] = e[2]
    BY <1>1, <1>2, <1>3, <1>6, <2>1
  <2>5. t[Len(t)] = p[Len(plan) + 1]
    <3>1. Len(t) \in 1..(Len(e) + Len(p)) /\ ~(Len(t) <= Len(e)) /\ Len(t) - Len(e) = Len(plan) + 1
      BY <1>1, <1>2, <1>3, <1>6, <2>1, <2>2
    <3> QED BY <1>3, <3>1
  <2>6. IsTail(t)
    BY <1>1, <1>2, <1>6, <2>3, <2>4, <2>5 DEF IsTail
  <2> QED BY <1>3, <2>6
<1> QED BY <1>4, <1>5, <1>6

\* A hash with a tail is a name of the plugin, and the hash can be read off it.
LEMMA TailIsParsed ==
  ASSUME NEW hash \in [1..HashLength -> Hex], NEW t \in Seq(Written), IsTail(t)
  PROVE  parseOwnedFile(hash \o t) /\ SubSeq(hash \o t, 1, HashLength) = hash
<1> DEFINE stem == hash \o t
           h == HashLength
           human == SubSeq(stem, h + 2, Len(stem))
<1>0. h \in Nat \ {0}
  BY FileNamesConstants
<1>1. hash \in Seq(Hex) /\ Len(hash) = h
  BY <1>0
<1>2. hash \in Seq(Written)
  BY <1>1, SeqMonotonic DEF Written, AlphaNumeric
<1>3. /\ stem \in Seq(Written) /\ Len(stem) = h + Len(t) /\ Len(t) \in Nat
      /\ \A i \in 1..(h + Len(t)) : stem[i] = IF i <= h THEN hash[i] ELSE t[i - h]
  <2>1. /\ stem \in Seq(Written) /\ Len(stem) = Len(hash) + Len(t)
        /\ \A i \in 1..(Len(hash) + Len(t)) :
             stem[i] = IF i <= Len(hash) THEN hash[i] ELSE t[i - Len(hash)]
    BY <1>2, ConcatProperties
  <2> HIDE DEF stem
  <2> QED BY <1>1, <2>1
<1>4. SubSeq(stem, 1, h) = hash
  <2>1. SubSeq(stem, 1, h) = SubSeq(hash, 1, h)
    BY <1>0, <1>1, <1>2, SubSeqOfConcat1
  <2> QED BY <1>1, <2>1, SubSeqFull
<1>7. isLowerHex(SubSeq(stem, 1, h))
  <2>1. isLowerHex(hash)
    BY DEF isLowerHex
  <2> QED BY <1>4, <2>1
<1> HIDE DEF stem
<1>5. CASE t = <<>>
  <2>1. Len(stem) = h
    BY <1>0, <1>3, <1>5
  <2>2. parseOwnedFile(stem)
    BY <1>0, <1>7, <2>1 DEF parseOwnedFile
  <2> QED BY <1>4, <2>2 DEF stem
<1>6. CASE t # <<>>
  <2>1. /\ Len(t) \in 2..(maxReadableFileSuffixBytes + 1)
        /\ t[1] = Dash /\ t[2] \in AlphaNumeric /\ t[Len(t)] \in AlphaNumeric
    BY <1>6 DEF IsTail
  <2>0. maxReadableFileSuffixBytes \in Nat
    BY FileNamesConstants DEF maxReadableFileSuffixBytes
  <2>2. /\ Len(stem) >= h + 2 /\ h + 1 \in 1..(h + Len(t)) /\ h + 2 \in 1..(h + Len(t))
        /\ Len(stem) \in 1..(h + Len(t)) /\ ~(h + 1 <= h) /\ ~(h + 2 <= h) /\ ~(Len(stem) <= h)
        /\ h + 1 - h = 1 /\ h + 2 - h = 2 /\ Len(stem) - h = Len(t)
    BY <1>0, <1>3, <2>0, <2>1
  <2>3. /\ stem[h + 1] = Dash /\ stem[h + 2] \in AlphaNumeric
        /\ stem[Len(stem)] \in AlphaNumeric
    <3>1. stem[h + 1] = t[1] /\ stem[h + 2] = t[2] /\ stem[Len(stem)] = t[Len(t)]
      <4>1. ASSUME NEW k \in 1..Len(t) PROVE stem[h + k] = t[k]
        <5>1. h + k \in 1..(h + Len(t)) /\ ~(h + k <= h) /\ h + k - h = k
          BY <1>0, <1>3
        <5>2. stem[h + k] = IF h + k <= h THEN hash[h + k] ELSE t[h + k - h]
          BY <1>0, <1>3, <5>1
        <5> QED BY <5>1, <5>2
      <4>2. 1 \in 1..Len(t) /\ 2 \in 1..Len(t) /\ Len(t) \in 1..Len(t)
        BY <1>3, <2>1
      <4> QED BY <1>3, <4>1, <4>2
    <3> QED BY <2>1, <3>1
  <2>4. \A i \in (h + 2)..Len(stem) : stem[i] \in Written
    BY <1>0, <1>3
  <2>5. /\ human \in Seq(Written) /\ Len(human) = Len(t) - 1
        /\ \A i \in 1..(Len(t) - 1) : human[i] = stem[h + 2 + i - 1]
    <3>1. h + 2 <= Len(stem) /\ Len(stem) - (h + 2) + 1 = Len(t) - 1 /\ h + 2 \in Int /\ Len(stem) \in Int
      BY <1>0, <1>3, <2>2
    <3> QED BY <2>4, <3>1, SubSeqProperties
  <2> HIDE DEF human
  <2>6. /\ 1 \in 1..(Len(t) - 1) /\ Len(t) - 1 \in 1..(Len(t) - 1)
        /\ h + 2 + 1 - 1 = h + 2 /\ h + 2 + (Len(t) - 1) - 1 = Len(stem)
        /\ Len(t) - 1 <= maxReadableFileSuffixBytes
    BY <1>0, <1>3, <2>0, <2>1
  <2>7. human[1] = stem[h + 2] /\ human[Len(human)] = stem[Len(stem)]
    BY <2>5, <2>6
  <2>8. \A i \in DOMAIN human : human[i] \in AlphaNumeric \cup Punctuation \cup {Dash}
    BY <2>5, LenProperties DEF Written
  <2>9. parseOwnedFile(stem)
    <3>1. Len(stem) >= h /\ isLowerHex(SubSeq(stem, 1, h))
      BY <1>0, <1>3, <1>7, <2>2
    <3>2. /\ Len(human) <= maxReadableFileSuffixBytes
          /\ human[1] \in AlphaNumeric /\ human[Len(human)] \in AlphaNumeric
      BY <2>3, <2>5, <2>6, <2>7
    <3> QED BY <2>2, <2>3, <2>8, <3>1, <3>2 DEF parseOwnedFile, human
  <2> QED BY <1>4, <2>9 DEF stem
<1> QED BY <1>5, <1>6

\* FileName's result is recognised, and gives its hash back.
LEMMA SegmentsMakeNames ==
  ASSUME NEW hash \in [1..HashLength -> Hex], NEW email, NEW plan,
         IsSegment(email, EmailLimit), IsSegment(plan, PlanLimit)
  PROVE  /\ parseOwnedFile(FileName(hash, email, plan))
         /\ SubSeq(FileName(hash, email, plan), 1, HashLength) = hash
<1> DEFINE e == Suffixed(email)
           p == Suffixed(plan)
<1>0. HashLength \in Nat \ {0} /\ EmailLimit \in Nat /\ PlanLimit \in Nat
  BY FileNamesConstants
<1>1. hash \in Seq(Hex)
  BY <1>0
<1>2. hash \in Seq(Written)
  BY <1>1, SeqMonotonic DEF Written, AlphaNumeric
<1>3. e \in Seq(Written) /\ p \in Seq(Written)
  BY <1>0, SuffixedShape
<1>4. FileName(hash, email, plan) = hash \o (e \o p)
  BY <1>2, <1>3, ConcatAssociative DEF FileName
<1>5. e \o p \in Seq(Written) /\ IsTail(e \o p)
  BY TailShape
<1> HIDE DEF e, p
<1> QED BY <1>4, <1>5, TailIsParsed

-----------------------------------------------------------------------------
(* The loop of sanitizeFileSegment.                                        *)

\* The finished segments are segments: TypeOK alone forgets how they end.
SegmentInv == TypeOK /\ \A f \in Fields : IsSegment(segments[f], Limit(f))

LEMMA LimitType == \A f \in Fields : Limit(f) \in Nat
BY FileNamesConstants DEF Limit, Fields

\* Nothing is written at the start.
LEMMA SegmentInit == Init => SegmentInv
<1>1. <<>> \in Seq(Characters) /\ <<>> \in Seq(Written) /\ Len(<<>>) = 0
  OBVIOUS
<1>2. Limit("email") \in Nat
  BY LimitType DEF Fields
<1>3. ASSUME Init PROVE TypeOK
  <2>1. pendingSeparator \in BOOLEAN /\ stopped \in BOOLEAN
    BY <1>3, Zenon DEF Init
  <2>2. /\ field = "email" /\ text \in Seq(Characters) /\ builder \in Seq(Written)
        /\ Len(builder) <= Limit("email") /\ segments \in [Fields -> Seq(Written)]
    BY <1>1, <1>2, <1>3 DEF Init
  <2> QED BY <2>1, <2>2 DEF TypeOK, Fields, Written
<1>4. Init => \A f \in Fields : IsSegment(segments[f], Limit(f))
  BY <1>1 DEF Init, IsSegment
<1> QED BY <1>3, <1>4 DEF SegmentInv

\* A character is written only where there is room for it and its separator.
LEMMA CharacterKeeps ==
  ASSUME SegmentInv, NEW c \in Characters, Character(c) PROVE SegmentInv'
<1>0. /\ field \in Fields /\ text' = Append(text, c) /\ UNCHANGED <<field, segments>>
      /\ text \in Seq(Characters) /\ builder \in Seq(Written) /\ Len(builder) <= Limit(field)
      /\ pendingSeparator \in BOOLEAN /\ stopped \in BOOLEAN
  BY DEF Character, SegmentInv, TypeOK, Written
<1>1. text' \in Seq(Characters)
  BY <1>0
<1>2. Limit(field) \in Nat
  BY <1>0, LimitType
<1>3. /\ builder' \in Seq(Written) /\ Len(builder') <= Limit(field)
      /\ pendingSeparator' \in BOOLEAN /\ stopped' \in BOOLEAN
  <2>1. CASE c \notin Allowed(field)
    <3>1. pendingSeparator' = Separate(builder) /\ UNCHANGED <<builder, stopped>>
      BY <2>1 DEF Character
    <3>2. pendingSeparator' \in BOOLEAN
      BY <3>1 DEF Separate
    <3> QED BY <1>0, <3>1, <3>2
  <2>2. CASE c \in Allowed(field) /\ NoRoom(builder, IF pendingSeparator THEN 2 ELSE 1)
    <3>1. stopped' = TRUE /\ UNCHANGED <<builder, pendingSeparator>>
      BY <2>2 DEF Character
    <3> QED BY <1>0, <3>1
  <2>3. CASE c \in Allowed(field) /\ ~NoRoom(builder, IF pendingSeparator THEN 2 ELSE 1)
    <3>1. /\ builder' = (IF pendingSeparator THEN Append(builder, Dash) ELSE builder) \o <<c>>
          /\ pendingSeparator' = FALSE /\ UNCHANGED stopped
      BY <2>3 DEF Character
    <3>2. c \in Written /\ Dash \in Written
      BY <2>3 DEF Allowed, Written
    <3>3. Len(builder) + (IF pendingSeparator THEN 2 ELSE 1) <= Limit(field)
      BY <1>0, <1>2, <2>3 DEF NoRoom
    <3>4. pendingSeparator' \in BOOLEAN /\ stopped' \in BOOLEAN
      BY <1>0, <3>1, Zenon
    <3> DEFINE b == IF pendingSeparator THEN Append(builder, Dash) ELSE builder
    <3>5. b \in Seq(Written) /\ Len(b) + 1 = Len(builder) + (IF pendingSeparator THEN 2 ELSE 1)
      <4>1. CASE pendingSeparator
        BY <1>0, <3>2, <4>1
      <4>2. CASE ~pendingSeparator
        BY <1>0, <4>2
      <4> QED BY <4>1, <4>2
    <3>6. builder' = b \o <<c>>
      BY <3>1
    <3> HIDE DEF b
    <3>7. builder' \in Seq(Written) /\ Len(builder') = Len(b) + 1
      BY <3>2, <3>5, <3>6
    <3> QED BY <1>0, <1>2, <3>3, <3>4, <3>5, <3>7
  <2> QED BY <2>1, <2>2, <2>3
<1>4. TypeOK'
  BY <1>0, <1>1, <1>3 DEF SegmentInv, TypeOK, Written, Limit
<1>5. \A f \in Fields : IsSegment(segments'[f], Limit(f))
  BY <1>0 DEF SegmentInv
<1> QED BY <1>4, <1>5 DEF SegmentInv, IsSegment, Limit, Written, AlphaNumeric

\* Finishing a segment trims it.
LEMMA FinishKeeps == ASSUME SegmentInv, Finish PROVE SegmentInv'
<1>0. /\ field \in Fields /\ builder \in Seq(Written) /\ Len(builder) <= Limit(field)
      /\ segments \in [Fields -> Seq(Written)]
  BY DEF Finish, SegmentInv, TypeOK, Written
<1>1. IsSegment(Trim(builder), Limit(field))
  BY <1>0, LimitType, TrimIsSegment
<1>2. segments' = [segments EXCEPT ![field] = Trim(builder)]
  BY DEF Finish
<1>3. \A f \in Fields : IsSegment(segments'[f], Limit(f))
  <2> TAKE f \in Fields
  <2>1. CASE f = field
    BY <1>0, <1>1, <1>2, <2>1
  <2>2. CASE f # field
    <3>1. segments'[f] = segments[f]
      BY <1>0, <1>2, <2>2
    <3> QED BY <3>1 DEF SegmentInv
  <2> QED BY <2>1, <2>2
<1>4. segments' \in [Fields -> Seq(Written)]
  BY <1>0, <1>1, <1>2 DEF IsSegment
<1>5. /\ field' \in {"plan", "done"} /\ text' = <<>> /\ builder' = <<>>
      /\ pendingSeparator' = FALSE /\ stopped' = FALSE
  BY DEF Finish, Start
<1>6. Len(builder') = 0 /\ Limit("plan") \in Nat
  BY <1>5, LimitType DEF Fields
<1>7. pendingSeparator' \in BOOLEAN /\ stopped' \in BOOLEAN
  BY <1>5, Zenon
<1>8. /\ text' \in Seq(Characters) /\ builder' \in Seq(Written)
      /\ field' \in Fields => Len(builder') <= Limit(field')
  BY <1>5, <1>6 DEF Fields
<1>9. TypeOK'
  BY <1>4, <1>5, <1>7, <1>8 DEF TypeOK, Fields, Written, Limit
<1> QED BY <1>3, <1>9 DEF SegmentInv, IsSegment, Limit, Written, AlphaNumeric

\* Every step keeps the invariant.
LEMMA SegmentStep == ASSUME SegmentInv, [Next]_vars PROVE SegmentInv'
<1>1. ASSUME NEW c \in Characters, Unread(c) PROVE SegmentInv'
  <2>1. text' \in Seq(Characters) /\ UNCHANGED <<field, builder, pendingSeparator, stopped, segments>>
    BY <1>1 DEF Unread, SegmentInv, TypeOK
  <2> QED BY <2>1 DEF SegmentInv, TypeOK, IsSegment
<1>2. CASE UNCHANGED vars
  BY <1>2 DEF vars, SegmentInv, TypeOK, IsSegment
<1> QED BY <1>1, <1>2, CharacterKeeps, FinishKeeps DEF Next

\* sanitizeFileSegment never writes past a segment's limit, nor a character the
\* grammar lacks.
THEOREM NameTypesAlwaysOK == Spec => []TypeOK
BY SegmentInit, SegmentStep, PTL DEF Spec, SegmentInv

\* Whatever email and plan upstream reports and wherever they are cut, parseOwnedFile
\* recognises the name FileName makes of them and reads the same hash off it.
THEOREM NameAlwaysOwned == Spec => []NameIsOwned
<1>1. SegmentInv => NameIsOwned
  BY SegmentsMakeNames DEF SegmentInv, NameIsOwned, Limit, Fields
<1> QED BY <1>1, SegmentInit, SegmentStep, PTL DEF Spec
-----------------------------------------------------------------------------
(* What the loop computes.  The library's induction theorems cannot be used *)
(* for the collapse of Reference; its equation is shown to have a solution,*)
(* and that solutions agree, each by the least place where it would fail.  *)

AllowedAt(s, f) == {i \in DOMAIN s : s[i] \in Allowed(f)}

\* The right-hand side of Reference's collapse, and a solution up to n.
Collapse(s, f, C, i) ==
  IF i = 0 THEN <<>>
  ELSE IF i \notin AllowedAt(s, f) THEN C[i - 1]
  ELSE IF i - 1 \in AllowedAt(s, f) \/ C[i - 1] = <<>>
  THEN Append(C[i - 1], s[i])
  ELSE C[i - 1] \o <<Dash, s[i]>>

IsCollapse(C, s, f, n) == C = [i \in 0..n |-> Collapse(s, f, C, i)]

Collapsed(s, f) == CHOOSE C : C = [i \in 0..Len(s) |-> Collapse(s, f, C, i)]

\* The collapsed text, before it is cut and trimmed.
Whole(s, f) == Collapsed(s, f)[Len(s)]

Cut(w, max) == SubSeq(w, 1, IF Len(w) < max THEN Len(w) ELSE max)

LEMMA ReferenceIs ==
  ASSUME NEW s, NEW f PROVE Reference(s, f) = Trim(Cut(Whole(s, f), Limit(f)))
BY DEF Reference, Whole, Cut, Collapsed, Collapse, AllowedAt

\* Solutions agree as far as their texts do.
LEMMA CollapsesAgree ==
  ASSUME NEW f, NEW s \in Seq(Characters), NEW t \in Seq(Characters),
         NEW n \in Nat, n <= Len(s), n <= Len(t), \A i \in 1..n : s[i] = t[i],
         NEW C, IsCollapse(C, s, f, Len(s)), NEW D, IsCollapse(D, t, f, Len(t))
  PROVE  \A i \in 0..n : C[i] = D[i]
<1> DEFINE T == {i \in 0..n : C[i] # D[i]}
<1> SUFFICES ASSUME T # {} PROVE FALSE
  OBVIOUS
<1>1. PICK i \in T : \A j \in T : i <= j
  <2>1. T \in SUBSET Nat
    OBVIOUS
  <2> HIDE DEF T
  <2> QED BY <2>1, LeastExists
<1>2. i \in 0..n /\ C[i] # D[i]
  OBVIOUS
<1>3. \A k \in 0..n : C[k] = Collapse(s, f, C, k) /\ D[k] = Collapse(t, f, D, k)
  <2> TAKE k \in 0..n
  <2>1. k \in 0..Len(s) /\ k \in 0..Len(t)
    OBVIOUS
  <2> QED BY <2>1 DEF IsCollapse
<1>4. i # 0
  BY <1>2, <1>3 DEF Collapse
<1>5. i - 1 \in 0..n /\ i \in 1..n /\ C[i - 1] = D[i - 1]
  <2>1. i - 1 \in 0..n /\ i \in 1..n /\ ~(i <= i - 1)
    BY <1>2, <1>4
  <2> QED BY <1>1, <2>1
<1>6. \A k \in 0..n : k \in AllowedAt(s, f) <=> k \in AllowedAt(t, f)
  BY DEF AllowedAt
<1>7. s[i] = t[i] /\ (i \in AllowedAt(s, f) <=> i \in AllowedAt(t, f))
      /\ (i - 1 \in AllowedAt(s, f) <=> i - 1 \in AllowedAt(t, f))
  <2>1. s[i] = t[i] /\ i \in 0..n
    BY <1>2, <1>5
  <2>2. i \in AllowedAt(s, f) <=> i \in AllowedAt(t, f)
    BY <1>6, <2>1
  <2>3. i - 1 \in AllowedAt(s, f) <=> i - 1 \in AllowedAt(t, f)
    BY <1>5, <1>6
  <2> QED BY <2>1, <2>2, <2>3
<1>8. Collapse(s, f, C, i) = Collapse(t, f, D, i)
  BY <1>4, <1>5, <1>7 DEF Collapse
<1> QED BY <1>2, <1>3, <1>8

\* There is a solution: one step more than the least failure is no failure.
LEMMA CollapseExists ==
  ASSUME NEW f, NEW s \in Seq(Characters), NEW n \in Nat
  PROVE  \E C : IsCollapse(C, s, f, n)
<1> DEFINE T == {m \in Nat : ~\E C : IsCollapse(C, s, f, m)}
<1> SUFFICES ASSUME T # {} PROVE FALSE
  OBVIOUS
<1>1. PICK m \in T : \A j \in T : m <= j
  BY LeastExists
<1>2. m # 0
  <2> DEFINE D == [i \in 0..0 |-> <<>>]
  <2>1. D = [i \in 0..0 |-> Collapse(s, f, D, i)]
    BY DEF Collapse
  <2> QED BY <2>1 DEF IsCollapse
<1>3. m - 1 \in Nat /\ m - 1 \notin T
  BY <1>1, <1>2
<1>4. PICK C : IsCollapse(C, s, f, m - 1)
  BY <1>3
<1> DEFINE D == [i \in 0..m |-> IF i < m THEN C[i] ELSE Collapse(s, f, C, m)]
<1>5. ASSUME NEW i \in 0..m PROVE D[i] = Collapse(s, f, D, i)
  <2>1. D[i] = Collapse(s, f, C, i)
    <3>1. CASE i < m
      <4>1. i \in 0..(m - 1)
        BY <3>1, <1>3
      <4>2. C[i] = Collapse(s, f, C, i)
        BY <1>4, <4>1 DEF IsCollapse
      <4> QED BY <3>1, <4>2
    <3>2. CASE i = m
      BY <3>2
    <3> QED BY <3>1, <3>2
  <2>2. i = 0 \/ D[i - 1] = C[i - 1]
    <3>1. i # 0 => i - 1 \in 0..m /\ i - 1 < m
      OBVIOUS
    <3> QED BY <3>1
  <2> HIDE DEF D
  <2> QED BY <2>1, <2>2 DEF Collapse
<1>6. DOMAIN D = 0..m /\ D = [i \in 0..m |-> D[i]]
  OBVIOUS
<1> HIDE DEF D
<1>7. IsCollapse(D, s, f, m)
  BY <1>5, <1>6 DEF IsCollapse
<1> QED BY <1>1, <1>7

LEMMA CollapsedIs ==
  ASSUME NEW f, NEW s \in Seq(Characters)
  PROVE  IsCollapse(Collapsed(s, f), s, f, Len(s))
<1>1. Len(s) \in Nat
  OBVIOUS
<1>2. PICK C : IsCollapse(C, s, f, Len(s))
  BY <1>1, CollapseExists
<1> QED BY <1>2 DEF IsCollapse, Collapsed

\* The collapse of a text one character longer.
LEMMA WholeGrows ==
  ASSUME NEW f, NEW s \in Seq(Characters), NEW c \in Characters
  PROVE  /\ Len(s) + 1 \in AllowedAt(Append(s, c), f) <=> c \in Allowed(f)
         /\ Whole(Append(s, c), f) =
              IF c \notin Allowed(f) THEN Whole(s, f)
              ELSE IF Len(s) \in AllowedAt(s, f) \/ Whole(s, f) = <<>>
              THEN Append(Whole(s, f), c)
              ELSE Whole(s, f) \o <<Dash, c>>
<1> DEFINE t == Append(s, c)
           n == Len(s)
           C == Collapsed(s, f)
           D == Collapsed(t, f)
<1>1. /\ t \in Seq(Characters) /\ n \in Nat /\ Len(t) = n + 1 /\ t[n + 1] = c
      /\ \A i \in 1..n : s[i] = t[i]
  OBVIOUS
<1>2. n + 1 \in AllowedAt(t, f) <=> c \in Allowed(f)
  BY <1>1 DEF AllowedAt
<1>3. n \in AllowedAt(t, f) <=> n \in AllowedAt(s, f)
  BY <1>1 DEF AllowedAt
<1>4. IsCollapse(C, s, f, n) /\ IsCollapse(D, t, f, n + 1)
  BY <1>1, CollapsedIs
<1>5. Whole(s, f) = C[n] /\ Whole(t, f) = D[n + 1]
  BY <1>1 DEF Whole
<1> HIDE DEF t, n, C, D
<1>6. C[n] = D[n]
  <2>1. n <= Len(s) /\ n <= Len(t) /\ n \in 0..n
    BY <1>1 DEF n
  <2>2. IsCollapse(C, s, f, Len(s)) /\ IsCollapse(D, t, f, Len(t))
    BY <1>1, <1>4 DEF n
  <2> QED BY <1>1, <2>1, <2>2, CollapsesAgree
<1>7. D[n + 1] = Collapse(t, f, D, n + 1)
  <2>1. n + 1 \in 0..(n + 1)
    BY <1>1
  <2> QED BY <1>4, <2>1 DEF IsCollapse
<1>8. n + 1 # 0 /\ n + 1 - 1 = n
  BY <1>1
<1>9. Collapse(t, f, D, n + 1) =
        IF n + 1 \notin AllowedAt(t, f) THEN D[n]
        ELSE IF n \in AllowedAt(t, f) \/ D[n] = <<>>
        THEN Append(D[n], t[n + 1])
        ELSE D[n] \o <<Dash, t[n + 1]>>
  <2> DEFINE k == n + 1
  <2>1. k # 0 /\ k - 1 = n
    BY <1>1
  <2> HIDE DEF k
  <2>2. Collapse(t, f, D, k) =
          IF k \notin AllowedAt(t, f) THEN D[n]
          ELSE IF n \in AllowedAt(t, f) \/ D[n] = <<>>
          THEN Append(D[n], t[k])
          ELSE D[n] \o <<Dash, t[k]>>
    BY <2>1 DEF Collapse
  <2> QED BY <2>2 DEF k
<1>10. Whole(t, f) =
         IF c \notin Allowed(f) THEN Whole(s, f)
         ELSE IF n \in AllowedAt(s, f) \/ Whole(s, f) = <<>>
         THEN Append(Whole(s, f), c)
         ELSE Whole(s, f) \o <<Dash, c>>
  BY <1>1, <1>2, <1>3, <1>5, <1>6, <1>7, <1>9
<1> QED BY <1>2, <1>10 DEF t, n

\* Nothing read, nothing written.
LEMMA WholeOfNothing == ASSUME NEW f PROVE Whole(<<>>, f) = <<>>
<1>1. <<>> \in Seq(Characters) /\ Len(<<>>) = 0 /\ 0 \in 0..0
  OBVIOUS
<1>2. IsCollapse(Collapsed(<<>>, f), <<>>, f, 0)
  BY <1>1, CollapsedIs
<1>3. Collapsed(<<>>, f)[0] = Collapse(<<>>, f, Collapsed(<<>>, f), 0)
  BY <1>1, <1>2 DEF IsCollapse
<1> QED BY <1>1, <1>3 DEF Whole, Collapse
\* The loop has the collapsed text in its builder, and a separator is pending
\* where the collapse would write one; after a break it has what fits of it, less
\* a separator that would come last.
LoopInv ==
  field \in Fields =>
    LET w == Whole(text, field) IN
    /\ w \in Seq(Written)
    /\ ~stopped => /\ builder = w
                   /\ pendingSeparator <=> w # <<>> /\ Len(text) \notin AllowedAt(text, field)
    /\ stopped => /\ Len(w) > Limit(field)
                  /\ \/ Len(builder) = Limit(field)
                     \/ Len(builder) = Limit(field) - 1 /\ w[Limit(field)] = Dash
                  /\ \A i \in 1..Len(builder) : builder[i] = w[i]

\* The collapsed text only grows at its end.
LEMMA WholeKeeps ==
  ASSUME NEW f \in Fields, NEW s \in Seq(Characters), NEW c \in Characters,
         Whole(s, f) \in Seq(Written)
  PROVE  /\ Whole(Append(s, c), f) \in Seq(Written)
         /\ Len(Whole(Append(s, c), f)) >= Len(Whole(s, f))
         /\ \A i \in 1..Len(Whole(s, f)) : Whole(Append(s, c), f)[i] = Whole(s, f)[i]
<1> DEFINE w == Whole(s, f)
           v == Whole(Append(s, c), f)
<1>1. /\ c \notin Allowed(f) => v = w
      /\ c \in Allowed(f) => v = Append(w, c) \/ v = w \o <<Dash, c>>
  BY WholeGrows
<1>2. w \in Seq(Written)
  OBVIOUS
<1> HIDE DEF w, v
<1>3. CASE c \notin Allowed(f)
  BY <1>1, <1>2, <1>3 DEF w, v
<1>4. CASE c \in Allowed(f) /\ v = Append(w, c)
  <2>1. c \in Written
    BY <1>4 DEF Allowed, Written
  <2>2. v \in Seq(Written) /\ Len(v) >= Len(w) /\ \A i \in 1..Len(w) : v[i] = w[i]
    BY <1>2, <1>4, <2>1
  <2> QED BY <2>2 DEF w, v
<1>5. CASE c \in Allowed(f) /\ v = w \o <<Dash, c>>
  <2>1. c \in Written /\ Dash \in Written
    BY <1>5 DEF Allowed, Written
  <2>2. <<Dash, c>> \in Seq(Written) /\ Len(<<Dash, c>>) = 2
    BY <2>1
  <2>3. /\ v \in Seq(Written) /\ Len(v) = Len(w) + 2
        /\ \A i \in 1..(Len(w) + 2) : v[i] = IF i <= Len(w) THEN w[i] ELSE <<Dash, c>>[i - Len(w)]
    BY <1>2, <1>5, <2>2, ConcatProperties
  <2>4. Len(w) \in Nat
    BY <1>2
  <2>5. Len(v) >= Len(w) /\ \A i \in 1..Len(w) : v[i] = w[i]
    BY <2>3, <2>4
  <2> QED BY <2>3, <2>5 DEF w, v
<1> QED BY <1>1, <1>3, <1>4, <1>5

LEMMA LoopInit == Init => LoopInv
<1> SUFFICES ASSUME Init PROVE LoopInv
  OBVIOUS
<1>1. field = "email" /\ text = <<>> /\ builder = <<>> /\ ~pendingSeparator /\ ~stopped
  BY DEF Init
<1>2. Whole(text, field) = <<>> /\ <<>> \in Seq(Written)
  BY <1>1, WholeOfNothing
<1> QED BY <1>1, <1>2 DEF LoopInv

\* One iteration of the loop is one step of the collapse, up to the break.
LEMMA CharacterLoops ==
  ASSUME SegmentInv, LoopInv, NEW c \in Characters, Character(c) PROVE LoopInv'
<1> DEFINE w == Whole(text, field)
           v == Whole(Append(text, c), field)
           pending == w # <<>> /\ Len(text) \notin AllowedAt(text, field)
<1>0. /\ field \in Fields /\ ~stopped /\ text' = Append(text, c) /\ field' = field
      /\ text \in Seq(Characters) /\ Len(builder) <= Limit(field)
  BY DEF Character, SegmentInv, TypeOK
<1>1. Limit(field) \in Nat \ {0}
  BY <1>0, FileNamesConstants DEF Limit, Fields
<1>2. w \in Seq(Written) /\ builder = w /\ (pendingSeparator <=> pending)
  BY <1>0 DEF LoopInv
<1>3. /\ v \in Seq(Written) /\ Len(v) >= Len(w) /\ \A i \in 1..Len(w) : v[i] = w[i]
  BY <1>0, <1>2, WholeKeeps
<1>4. /\ Len(text) + 1 \in AllowedAt(Append(text, c), field) <=> c \in Allowed(field)
      /\ v = IF c \notin Allowed(field) THEN w
             ELSE IF Len(text) \in AllowedAt(text, field) \/ w = <<>> THEN Append(w, c)
             ELSE w \o <<Dash, c>>
  BY <1>0, WholeGrows
<1>5. Len(Append(text, c)) = Len(text) + 1
  BY <1>0
<1>6. Whole(text', field') = v /\ Len(text') = Len(text) + 1
      /\ AllowedAt(text', field') = AllowedAt(Append(text, c), field)
      /\ Limit(field') = Limit(field)
  BY <1>0, <1>5
<1> HIDE DEF v, w
<1>7. v = IF c \notin Allowed(field) THEN w ELSE IF pending THEN w \o <<Dash, c>> ELSE Append(w, c)
  BY <1>4
<1> HIDE DEF pending
<1> SUFFICES /\ ~stopped' => /\ builder' = v
                             /\ pendingSeparator' <=> v # <<>> /\ c \notin Allowed(field)
             /\ stopped' => /\ Len(v) > Limit(field)
                            /\ \/ Len(builder') = Limit(field)
                               \/ Len(builder') = Limit(field) - 1 /\ v[Limit(field)] = Dash
                            /\ \A i \in 1..Len(builder') : builder'[i] = v[i]
  BY <1>3, <1>4, <1>6 DEF LoopInv
<1>8. CASE c \notin Allowed(field)
  <2>1. pendingSeparator' = Separate(builder) /\ builder' = builder /\ stopped' = stopped
    BY <1>8 DEF Character
  <2>2. v = w
    BY <1>7, <1>8
  <2>3. Separate(builder) <=> v # <<>>
    BY <1>2, <2>2 DEF Separate
  <2>4. ~stopped' /\ builder' = v
    BY <1>0, <1>2, <2>1, <2>2
  <2>5. pendingSeparator' <=> v # <<>> /\ c \notin Allowed(field)
    BY <1>8, <2>1, <2>3
  <2> QED BY <2>4, <2>5
<1>9. CASE c \in Allowed(field) /\ NoRoom(builder, IF pendingSeparator THEN 2 ELSE 1)
  <2>1. stopped' = TRUE /\ builder' = builder
    BY <1>9 DEF Character
  <2>2. Len(w) \in Nat /\ Len(w) <= Limit(field)
    BY <1>0, <1>2
  <2>3. CASE pending
    <3>1. v = w \o <<Dash, c>> /\ Len(w) + 2 > Limit(field)
      BY <1>2, <1>7, <1>9, <2>3 DEF NoRoom
    <3>2. c \in Written /\ Dash \in Written
      BY <1>9 DEF Allowed, Written
    <3>3. <<Dash, c>> \in Seq(Written) /\ Len(<<Dash, c>>) = 2 /\ <<Dash, c>>[1] = Dash
      BY <3>2
    <3>4. /\ Len(v) = Len(w) + 2
          /\ \A i \in 1..(Len(w) + 2) : v[i] = IF i <= Len(w) THEN w[i] ELSE <<Dash, c>>[i - Len(w)]
      BY <1>2, <3>1, <3>3, ConcatProperties
    <3>5. v[Len(w) + 1] = Dash
      <4>1. Len(w) + 1 \in 1..(Len(w) + 2) /\ ~(Len(w) + 1 <= Len(w)) /\ Len(w) + 1 - Len(w) = 1
        BY <2>2
      <4> QED BY <3>3, <3>4, <4>1
    <3>6. Len(w) = Limit(field) \/ (Len(w) = Limit(field) - 1 /\ Len(w) + 1 = Limit(field))
      BY <1>1, <2>2, <3>1
    <3>7. Len(v) > Limit(field)
      BY <1>1, <2>2, <3>1, <3>4
    <3>8. Len(w) = Limit(field) \/ (Len(w) = Limit(field) - 1 /\ v[Limit(field)] = Dash)
      BY <3>5, <3>6
    <3> QED BY <1>2, <1>3, <2>1, <3>7, <3>8
  <2>4. CASE ~pending
    <3>1. v = Append(w, c) /\ Len(w) + 1 > Limit(field)
      BY <1>2, <1>7, <1>9, <2>4 DEF NoRoom
    <3>2. c \in Written
      BY <1>9 DEF Allowed, Written
    <3>3. Len(v) = Len(w) + 1
      BY <1>2, <3>1, <3>2
    <3>4. Len(w) = Limit(field) /\ Len(v) > Limit(field)
      BY <1>1, <2>2, <3>1, <3>3
    <3> QED BY <1>2, <1>3, <2>1, <3>4
  <2> QED BY <2>3, <2>4
<1>10. CASE c \in Allowed(field) /\ ~NoRoom(builder, IF pendingSeparator THEN 2 ELSE 1)
  <2>1. /\ builder' = (IF pendingSeparator THEN Append(builder, Dash) ELSE builder) \o <<c>>
        /\ pendingSeparator' = FALSE /\ stopped' = stopped
    BY <1>10 DEF Character
  <2>2. c \in Written /\ Dash \in Written
    BY <1>10 DEF Allowed, Written
  <2>3. builder' = v
    <3>1. CASE pending
      <4>1. v = w \o <<Dash, c>> /\ builder' = Append(w, Dash) \o <<c>>
        BY <1>2, <1>7, <1>10, <2>1, <3>1
      <4>2. Append(w, Dash) \o <<c>> = w \o <<Dash, c>>
        BY <1>2, <2>2
      <4> QED BY <4>1, <4>2
    <3>2. CASE ~pending
      <4>1. v = Append(w, c) /\ builder' = w \o <<c>>
        BY <1>2, <1>7, <1>10, <2>1, <3>2
      <4>2. w \o <<c>> = Append(w, c)
        BY <1>2, <2>2
      <4> QED BY <4>1, <4>2
    <3> QED BY <3>1, <3>2
  <2> QED BY <1>0, <1>10, <2>1, <2>3
<1> QED BY <1>8, <1>9, <1>10

\* What follows the break only lengthens the collapsed text.
LEMMA UnreadLoops ==
  ASSUME SegmentInv, LoopInv, NEW c \in Characters, Unread(c) PROVE LoopInv'
<1> DEFINE w == Whole(text, field)
           v == Whole(Append(text, c), field)
<1>0. /\ field \in Fields /\ stopped /\ text' = Append(text, c)
      /\ field' = field /\ builder' = builder /\ stopped'
      /\ text \in Seq(Characters) /\ builder \in Seq(Written)
  BY DEF Unread, SegmentInv, TypeOK, Written
<1>1. Limit(field) \in Nat \ {0}
  BY <1>0, FileNamesConstants DEF Limit, Fields
<1>2. /\ w \in Seq(Written) /\ Len(w) > Limit(field)
      /\ \/ Len(builder) = Limit(field)
         \/ Len(builder) = Limit(field) - 1 /\ w[Limit(field)] = Dash
      /\ \A i \in 1..Len(builder) : builder[i] = w[i]
  BY <1>0 DEF LoopInv
<1>3. /\ v \in Seq(Written) /\ Len(v) >= Len(w) /\ \A i \in 1..Len(w) : v[i] = w[i]
  BY <1>0, <1>2, WholeKeeps
<1>4. Whole(text', field') = v /\ Limit(field') = Limit(field)
  BY <1>0
<1> HIDE DEF w, v
<1>5. Limit(field) \in 1..Len(w) /\ \A i \in 1..Len(builder) : i \in 1..Len(w)
  BY <1>0, <1>1, <1>2
<1>6. /\ Len(v) > Limit(field)
      /\ \/ Len(builder) = Limit(field)
         \/ Len(builder) = Limit(field) - 1 /\ v[Limit(field)] = Dash
      /\ \A i \in 1..Len(builder) : builder[i] = v[i]
  BY <1>1, <1>2, <1>3, <1>5
<1> QED BY <1>0, <1>3, <1>4, <1>6 DEF LoopInv

LEMMA LoopStep == ASSUME SegmentInv, LoopInv, [Next]_vars PROVE LoopInv'
<1>1. ASSUME Finish PROVE LoopInv'
  <2>1. text' = <<>> /\ builder' = <<>> /\ ~pendingSeparator' /\ ~stopped'
    BY <1>1 DEF Finish, Start
  <2>2. Whole(text', field') = <<>> /\ <<>> \in Seq(Written)
    BY <2>1, WholeOfNothing
  <2> QED BY <2>1, <2>2 DEF LoopInv
<1>2. CASE UNCHANGED vars
  BY <1>2 DEF vars, LoopInv
<1> QED BY <1>1, <1>2, CharacterLoops, UnreadLoops DEF Next

\* A '-' at the end makes no difference to what is trimmed.
LEMMA TrimDropsDash ==
  ASSUME NEW r \in Seq(Written), NEW b \in Seq(Written), Len(r) = Len(b) + 1,
         \A i \in 1..Len(b) : b[i] = r[i], r[Len(r)] = Dash
  PROVE  Trim(r) = Trim(b)
<1>1. Len(b) \in Nat /\ DOMAIN b = 1..Len(b) /\ DOMAIN r = 1..(Len(b) + 1)
  OBVIOUS
<1>2. Alphas(r) = Alphas(b)
  <2>1. r[Len(b) + 1] \notin AlphaNumeric
    BY FileNamesConstants
  <2> QED BY <1>1, <2>1 DEF Alphas
<1>3. First(r) = First(b) /\ Last(r) = Last(b)
  BY <1>2 DEF First, Last
<1>4. CASE Alphas(b) = {}
  BY <1>2, <1>4 DEF Trim
<1>5. CASE Alphas(b) # {}
  <2>1. Alphas(b) \in SUBSET Nat /\ Alphas(b) \in SUBSET (0..Len(b)) /\ Alphas(b) \in SUBSET (1..Len(b))
    BY <1>1 DEF Alphas
  <2>2. First(b) \in Alphas(b)
    BY <1>5, <2>1, LeastExists DEF First
  <2>3. Last(b) \in Alphas(b)
    BY <1>1, <1>5, <2>1, GreatestExists DEF Last
  <2> DEFINE m == First(b)
             n == Last(b)
  <2>4. m \in 1..Len(b) /\ n \in 1..Len(b)
    BY <2>1, <2>2, <2>3
  <2> HIDE DEF m, n
  <2>5. SubSeq(r, m, n) = SubSeq(b, m, n)
    <3>1. CASE m <= n
      <4>1. /\ SubSeq(r, m, n) \in Seq(Written) /\ Len(SubSeq(r, m, n)) = n - m + 1
            /\ \A i \in 1..(n - m + 1) : SubSeq(r, m, n)[i] = r[m + i - 1]
        <5>1. \A i \in m..n : r[i] \in Written
          BY <1>1, <2>4
        <5> QED BY <2>4, <3>1, <5>1, SubSeqProperties
      <4>2. /\ SubSeq(b, m, n) \in Seq(Written) /\ Len(SubSeq(b, m, n)) = n - m + 1
            /\ \A i \in 1..(n - m + 1) : SubSeq(b, m, n)[i] = b[m + i - 1]
        <5>1. \A i \in m..n : b[i] \in Written
          BY <1>1, <2>4
        <5> QED BY <2>4, <3>1, <5>1, SubSeqProperties
      <4>3. \A i \in 1..(n - m + 1) : SubSeq(r, m, n)[i] = SubSeq(b, m, n)[i]
        <5> TAKE i \in 1..(n - m + 1)
        <5>1. m + i - 1 \in 1..Len(b)
          BY <1>1, <2>4
        <5>2. b[m + i - 1] = r[m + i - 1]
          BY <5>1
        <5> QED BY <4>1, <4>2, <5>2
      <4> QED BY <4>1, <4>2, <4>3, SeqEqual
    <3>2. CASE ~(m <= n)
      BY <2>4, <3>2, SubSeqEmpty
    <3> QED BY <3>1, <3>2
  <2> QED BY <1>2, <1>3, <1>5, <2>5 DEF Trim, m, n
<1> QED BY <1>4, <1>5

\* For email and plan texts of every length and both limits, the loop with its
\* pending separator, its two length tests and its breaks computes the reference:
\* a cut loses only the end of a segment.
THEOREM SegmentAlwaysReference == Spec => []SegmentIsReference
<1>1. ASSUME SegmentInv, LoopInv PROVE SegmentIsReference
  <2> SUFFICES ASSUME field \in Fields PROVE Trim(builder) = Reference(text, field)
    BY DEF SegmentIsReference
  <2> DEFINE w == Whole(text, field)
             max == Limit(field)
             r == Cut(w, max)
  <2>1. /\ w \in Seq(Written) /\ max \in Nat \ {0}
        /\ builder \in Seq(Written) /\ Len(builder) <= max
    BY <1>1, FileNamesConstants DEF SegmentInv, LoopInv, TypeOK, Written, Limit, Fields
  <2>2. ~stopped => builder = w
    BY <1>1 DEF LoopInv
  <2>3. stopped => /\ Len(w) > max
                   /\ \/ Len(builder) = max
                      \/ Len(builder) = max - 1 /\ w[max] = Dash
                   /\ \A i \in 1..Len(builder) : builder[i] = w[i]
    BY <1>1 DEF LoopInv
  <2>4. Reference(text, field) = Trim(r)
    BY ReferenceIs
  <2> HIDE DEF w, max
  <2>5. CASE ~stopped
    <3>1. r = SubSeq(w, 1, Len(w))
      BY <2>1, <2>2, <2>5 DEF Cut
    <3>2. r = builder
      BY <2>1, <2>2, <2>5, <3>1, SubSeqFull
    <3> QED BY <2>4, <3>2
  <2>6. CASE stopped
    <3>1. Len(w) \in Nat /\ Len(builder) \in Nat /\ Len(w) > max
      BY <2>1, <2>3, <2>6
    <3>2. r = SubSeq(w, 1, max)
      BY <2>1, <3>1 DEF Cut
    <3>3. \A i \in 1..max : w[i] \in Written
      BY <2>1, <3>1
    <3>4. /\ r \in Seq(Written) /\ Len(r) = max
          /\ \A i \in 1..max : r[i] = w[i]
      <4>1. 1 <= max /\ max \in Int /\ max - 1 + 1 = max
        BY <2>1
      <4>2. /\ SubSeq(w, 1, max) \in Seq(Written) /\ Len(SubSeq(w, 1, max)) = max - 1 + 1
            /\ \A i \in 1..(max - 1 + 1) : SubSeq(w, 1, max)[i] = w[1 + i - 1]
        BY <3>3, <4>1, SubSeqProperties
      <4>3. \A i \in 1..max : 1 + i - 1 = i
        BY <2>1
      <4> QED BY <3>2, <4>1, <4>2, <4>3
    <3> HIDE DEF r
    <3>5. CASE Len(builder) = max
      <4>1. builder = r
        BY <2>1, <2>3, <2>6, <3>4, <3>5, SeqEqual
      <4> QED BY <2>4, <4>1
    <3>6. CASE Len(builder) = max - 1 /\ w[max] = Dash
      <4>1. /\ Len(r) = Len(builder) + 1 /\ r[Len(r)] = Dash
            /\ \A i \in 1..Len(builder) : builder[i] = r[i]
        BY <2>1, <2>3, <2>6, <3>4, <3>6
      <4> QED BY <2>1, <2>4, <3>4, <4>1, TrimDropsDash
    <3> QED BY <2>3, <2>6, <3>5, <3>6
  <2> QED BY <2>5, <2>6
<1> QED BY <1>1, SegmentInit, SegmentStep, LoopInit, LoopStep, PTL DEF Spec
=============================================================================
