---------------------------- MODULE MCPatService ----------------------------
(* Instances of PatService for TLC.                                        *)
EXTENDS PatService, TLC

CONSTANTS a1, u1, u2, m1, m2, t1, t2, f1

-----------------------------------------------------------------------------
(* Nothing depends on absolute time: the clock runs while a request does.  *)

ClockRunsWithRequests == now' # now => \E r \in Requests : InFlight(r)

-----------------------------------------------------------------------------
(* One account, one file: the races of a save with the host's own work.    *)

OneSegment == [m \in Metas |-> "s"]
OneName == {FileName(a1, u1, m1)}
TheName == FileName(a1, u1, m1)
SettleDirs == {[n \in OneName |-> c] :
                 c \in {Absent, Stored(a1, u1, m1, t2, FALSE)}}
SettleInputs == {[kind |-> "import", token |-> t1, name |-> NoName],
                 [kind |-> "import", token |-> NoToken, name |-> NoName],
                 [kind |-> "malformed", token |-> NoToken, name |-> NoName],
                 [kind |-> "revalidate", token |-> NoToken, name |-> TheName]}

WorkingInputs == {i \in SettleInputs : i.token = t1 \/ i.kind = "revalidate"}

-----------------------------------------------------------------------------
(* Two users of one workspace, changing metadata, foreign and damaged files: *)
(* which file a save may write.                                            *)

RequestSymmetry == Permutations(Requests)

TwoSegments == [m \in Metas |-> IF m = m1 THEN "s1" ELSE "s2"]
Mixed == [FileName(a1, u1, m1) EXCEPT !.spelling = "mixed"]
ResolveNames ==
  {FileName(a1, u, m) : u \in {u1, u2}, m \in Metas} \cup {ForeignName(f1), Mixed}

EmptyDir == [n \in ResolveNames |-> Absent]
Holding(n, c) == [EmptyDir EXCEPT ![n] = c]

\* The first files an import of u1 may meet, alone and beside u2's own.
ResolveDirs ==
  LET mine(m) == FileName(a1, u1, m)
      stored == Stored(a1, u1, m1, t2, FALSE) IN
  {EmptyDir,
   Holding(mine(m1), stored),
   Holding(mine(m2), [stored EXCEPT !.disabled = TRUE]),
   Holding(mine(m1), Stored(a1, u2, m1, t2, FALSE)),
   Holding(mine(m1), [stored EXCEPT !.user = NoId]),
   Holding(mine(m2), Opaque("patbad")),
   Holding(mine(m1), Opaque("broken")),
   Holding(mine(m1), Opaque("oauth")),
   Holding(mine(m1), Opaque("alien")),
   Holding(Mixed, stored),
   Holding(Mixed, Opaque("alien")),
   Holding(ForeignName(f1), stored),
   [Holding(ForeignName(f1), Opaque("oauth")) EXCEPT
      ![FileName(a1, u2, m1)] = Stored(a1, u2, m1, t2, FALSE)]}

ResolveInputs ==
  {[kind |-> "import", token |-> t1, name |-> NoName]} \cup
  {[kind |-> "revalidate", token |-> NoToken, name |-> n] :
     n \in {FileName(a1, u1, m1), Mixed}}

-----------------------------------------------------------------------------
(* Two users, a host that may be arbitrarily late, an operator, a crash: what *)
(* the stored documents and the runtime rest on.                           *)

EvidenceNames == {FileName(a1, u, m1) : u \in {u1, u2}}
EvidenceDirs == {[n \in EvidenceNames |->
                    IF n = TheName THEN Stored(a1, u1, m1, t2, FALSE) ELSE Absent]}
Drops == {Opaque("oauth")}

-----------------------------------------------------------------------------
(* Two requests on one file, for progress.                                 *)

LiveDirs == {[n \in OneName |-> Stored(a1, u1, m1, t2, FALSE)]}
LiveInputs == {i \in SettleInputs : i.kind = "revalidate"}
=============================================================================
