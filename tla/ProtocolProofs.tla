--------------------------- MODULE ProtocolProofs ---------------------------
(***************************************************************************)
(* Proofs about Protocol, for every base path that Mounted allows, every   *)
(* set of ids, all switches and both routers: URLs lead back to the        *)
(* uploads they were made for, and what is announced is served.            *)
(*                                                                         *)
(* Part 1 is about texts, part 2 about one deployment, part 3 about what   *)
(* requests do.                                                            *)
(***************************************************************************)
EXTENDS Protocol, SequenceTheorems, TLAPS

(* The set of strings; the provers do not see that it has the literals.      *)
Symbol == STRING \cup {"/", "http:", "host"}

Text == Seq(Symbol)

-----------------------------------------------------------------------------
(* Part 1: texts. *)

LEMMA Joining == \A s, t \in Text : s \o t \in Text
  BY ConcatProperties DEF Text

LEMMA Associative == \A s, t, u \in Text : (s \o t) \o u = s \o (t \o u)
  BY ConcatAssociative DEF Text

(* Concatenation as a symbol without a meaning: the provers take nested ones *)
(* apart instead of applying associativity.                                  *)
Join(s, t) == s \o t

LEMMA FourTexts ==
    ASSUME NEW s \in Text, NEW t \in Text, NEW u \in Text, NEW v \in Text
    PROVE  Join(Join(Join(s, t), u), v) = Join(s, Join(t, Join(u, v)))
<1>1. \A x, y \in Text : Join(x, y) \in Text
  BY Joining, Zenon DEF Join
<1>2. \A x, y, z \in Text : Join(Join(x, y), z) = Join(x, Join(y, z))
  BY Associative, Zenon DEF Join
<1> QED BY <1>1, <1>2

LEMMA Cancel == \A s, t, u \in Text : s \o u = t \o u => s = t
  BY ConcatSimplifications, Zenon DEF Text

(* What stands behind a prefix.                                              *)
LEMMA AfterPrefix ==
    ASSUME NEW s \in Text, NEW t \in Text
    PROVE  /\ s \o t \in Text
           /\ SubSeq(s \o t, Len(s) + 1, Len(s \o t)) = t
           /\ IsPrefix(s, s \o t)
<1>1. /\ s \o t \in Text /\ Len(s \o t) = Len(s) + Len(t)
      /\ \A i \in 1 .. Len(s) + Len(t) : (s \o t)[i] =
             IF i <= Len(s) THEN s[i] ELSE t[i - Len(s)]
  BY ConcatProperties DEF Text
<1>2. Len(s) \in Nat /\ Len(t) \in Nat
  BY LenProperties DEF Text
<1>3. SubSeq(s \o t, Len(s) + 1, Len(s \o t)) = t
  <2> DEFINE u == SubSeq(s \o t, Len(s) + 1, Len(s \o t))
  <2>1. \A i \in Len(s) + 1 .. Len(s) + Len(t) : (s \o t)[i] \in Symbol
    BY <1>1, <1>2, ElementOfSeq DEF Text
  <2>2. /\ u \in Text
        /\ Len(u) = IF Len(s) + 1 <= Len(s) + Len(t) THEN Len(s) + Len(t) - (Len(s) + 1) + 1 ELSE 0
        /\ \A i \in 1 .. Len(s) + Len(t) - (Len(s) + 1) + 1 : u[i] = (s \o t)[Len(s) + 1 + i - 1]
    BY <1>1, <1>2, <2>1, SubSeqProperties DEF Text
  <2>3. Len(u) = Len(t)
    BY <1>2, <2>2
  <2>4. \A i \in 1 .. Len(u) : u[i] = t[i]
    BY <1>1, <1>2, <2>2, <2>3
  <2> HIDE DEF u
  <2>5. u = t
    BY <2>2, <2>3, <2>4, SeqEqual DEF Text
  <2> QED BY <2>5 DEF u
<1>4. IsPrefix(s, s \o t)
  <2>1. SubSeq(s, 1, Len(s)) = s
    BY SubSeqFull DEF Text
  <2>2. CASE Len(s) = 0
    <3>1. s = <<>> /\ SubSeq(s \o t, 1, Len(s)) = <<>>
      BY <2>2, <1>1, EmptySeq, SubSeqEmpty, SeqEqual DEF Text
    <3> QED BY <1>1, <1>2, <2>1, <3>1 DEF IsPrefix
  <2>3. CASE Len(s) # 0
    <3>1. SubSeq(s \o t, 1, Len(s)) = SubSeq(s, 1, Len(s))
      BY <1>2, <2>3, SubSeqOfConcat1 DEF Text
    <3> QED BY <1>1, <1>2, <3>1 DEF IsPrefix
  <2> QED BY <2>2, <2>3
<1> QED BY <1>1, <1>3, <1>4

(* A prefix agrees symbol by symbol.                                         *)
LEMMA PrefixElements ==
    ASSUME NEW s \in Text, NEW t \in Text, IsPrefix(s, t), NEW i \in 1 .. Len(s)
    PROVE  i \in 1 .. Len(t) /\ t[i] = s[i]
<1>1. Len(s) \in Nat /\ Len(t) \in Nat /\ Len(s) <= Len(t)
  BY LenProperties DEF Text, IsPrefix
<1>2. (\A j \in 1 .. Len(s) : s[j] \in Symbol) /\ (\A j \in 1 .. Len(s) : t[j] \in Symbol)
  BY <1>1, ElementOfSeq DEF Text
<1>3. SubSeq(s, 1, Len(s))[i] = s[1 + i - 1] /\ SubSeq(t, 1, Len(s))[i] = t[1 + i - 1]
  BY <1>1, <1>2, SubSeqProperties
<1> QED BY <1>1, <1>3 DEF IsPrefix

(* The two ends of a concatenation.                                          *)
LEMMA FirstOf ==
    ASSUME NEW s \in Text, NEW t \in Text, s # <<>>
    PROVE  /\ s \o t \in Text /\ s \o t # <<>>
           /\ Head(s \o t) = Head(s) /\ Tail(s \o t) = Tail(s) \o t
<1>1. Len(s) \in Nat \ {0} /\ Len(t) \in Nat
  BY EmptySeq, LenProperties DEF Text
<1>2. /\ s \o t \in Text /\ Len(s \o t) = Len(s) + Len(t)
      /\ \A i \in 1 .. Len(s) + Len(t) : (s \o t)[i] =
             IF i <= Len(s) THEN s[i] ELSE t[i - Len(s)]
  BY ConcatProperties DEF Text
<1>3. s \o t # <<>>
  BY <1>1, <1>2, EmptySeq
<1>4. /\ Tail(s) \in Text /\ Len(Tail(s)) = Len(s) - 1
      /\ \A i \in 1 .. Len(Tail(s)) : Tail(s)[i] = s[i + 1]
  BY HeadTailProperties DEF Text
<1>5. /\ Tail(s \o t) \in Text /\ Len(Tail(s \o t)) = Len(s \o t) - 1
      /\ \A i \in 1 .. Len(Tail(s \o t)) : Tail(s \o t)[i] = (s \o t)[i + 1]
  BY <1>2, <1>3, HeadTailProperties DEF Text
<1>6. /\ Tail(s) \o t \in Text /\ Len(Tail(s) \o t) = Len(Tail(s)) + Len(t)
      /\ \A i \in 1 .. Len(Tail(s)) + Len(t) : (Tail(s) \o t)[i] =
             IF i <= Len(Tail(s)) THEN Tail(s)[i] ELSE t[i - Len(Tail(s))]
  BY <1>4, ConcatProperties DEF Text
<1>7. Tail(s \o t) = Tail(s) \o t
  <2>1. Len(Tail(s \o t)) = Len(Tail(s) \o t)
    BY <1>1, <1>2, <1>4, <1>5, <1>6
  <2>2. ASSUME NEW i \in 1 .. Len(Tail(s \o t)) PROVE Tail(s \o t)[i] = (Tail(s) \o t)[i]
    BY <1>1, <1>2, <1>4, <1>5, <1>6
  <2> QED BY <1>5, <1>6, <2>1, <2>2, SeqEqual DEF Text
<1>8. Head(s \o t) = Head(s)
  BY <1>1, <1>2
<1> QED BY <1>2, <1>3, <1>7, <1>8

(* Texts and their pieces.                                                   *)
LEMMA Pieces ==
    ASSUME NEW s \in Text
    PROVE  /\ Len(s) \in Nat /\ (s # <<>> => Len(s) > 0)
           /\ s \o <<>> = s /\ <<>> \o s = s
           /\ s # <<>> => /\ Head(s) \in Symbol /\ Tail(s) \in Text
                          /\ s = <<Head(s)>> \o Tail(s)
                          /\ Last(s) \in Symbol /\ Front(s) \in Text
                          /\ s = Front(s) \o <<Last(s)>>
<1>1. Len(s) \in Nat /\ (s # <<>> => Len(s) > 0) /\ s \o <<>> = s /\ <<>> \o s = s
  BY LenProperties, EmptySeq, ConcatEmptySeq DEF Text
<1>2. ASSUME s # <<>>
      PROVE  /\ Head(s) \in Symbol /\ Tail(s) \in Text /\ s = <<Head(s)>> \o Tail(s)
             /\ Last(s) \in Symbol /\ Front(s) \in Text /\ s = Front(s) \o <<Last(s)>>
  <2>1. Len(s) \in Nat \ {0} /\ 1 \in 1 .. Len(s) /\ Len(s) \in 1 .. Len(s)
    BY <1>1, <1>2
  <2>2. SubSeq(s, 1, Len(s)) = s
    BY SubSeqFull DEF Text
  <2>3. s = <<s[1]>> \o SubSeq(s, 2, Len(s))
    BY <2>1, <2>2, SubSeqRecursiveFirst DEF Text
  <2>4. s = SubSeq(s, 1, Len(s) - 1) \o <<s[Len(s)]>>
    BY <2>1, <2>2, SubSeqRecursiveSecond DEF Text
  <2>5. Tail(s) = SubSeq(s, 2, Len(s)) /\ Tail(s) \in Text /\ Head(s) \in Symbol
    BY <1>2, TailIsSubSeq, HeadTailProperties DEF Text
  <2>6. Head(s) = s[1]
    BY <2>1
  <2>7. Last(s) \in Symbol
    BY <2>1, ElementOfSeq DEF Last, Text
  <2>8. SubSeq(s, 1, Len(s) - 1) \in Text
    <3>1. \A i \in 1 .. Len(s) - 1 : s[i] \in Symbol
      BY <2>1, ElementOfSeq DEF Text
    <3> QED BY <2>1, <3>1, SubSeqProperties DEF Text
  <2> QED BY <2>3, <2>4, <2>5, <2>6, <2>7, <2>8 DEF Last, Front
<1> QED BY <1>1, <1>2

LEMMA LastOf ==
    ASSUME NEW s \in Text, NEW t \in Text, t # <<>>
    PROVE  /\ s \o t \in Text /\ s \o t # <<>>
           /\ Last(s \o t) = Last(t) /\ Front(s \o t) = s \o Front(t)
<1>1. Len(s) \in Nat /\ Len(t) \in Nat \ {0}
  BY EmptySeq, LenProperties DEF Text
<1>2. /\ s \o t \in Text /\ Len(s \o t) = Len(s) + Len(t)
      /\ \A i \in 1 .. Len(s) + Len(t) : (s \o t)[i] =
             IF i <= Len(s) THEN s[i] ELSE t[i - Len(s)]
  BY ConcatProperties DEF Text
<1>3. s \o t # <<>>
  BY <1>1, <1>2, EmptySeq
<1>4. Last(s \o t) = Last(t)
  BY <1>1, <1>2 DEF Last
<1>5. Front(s \o t) = s \o Front(t)
  <2> DEFINE l == <<Last(t)>>
  <2>1. Front(t) \in Text /\ t = Front(t) \o l /\ Last(t) \in Symbol
    BY Pieces
  <2>2. Front(s \o t) \in Text /\ s \o t = Front(s \o t) \o l
    BY <1>2, <1>3, <1>4, Pieces
  <2>3. l \in Text
    BY <2>1 DEF Text
  <2> HIDE DEF l
  <2>4. (s \o Front(t)) \o l = s \o (Front(t) \o l) /\ s \o Front(t) \in Text
    BY <2>1, <2>3, Joining, Associative
  <2>5. (s \o Front(t)) \o l = Front(s \o t) \o l
    BY <2>1, <2>2, <2>4
  <2> QED BY <2>2, <2>3, <2>4, <2>5, Cancel
<1> QED BY <1>2, <1>3, <1>4, <1>5

(* Slashes put before and behind a text, and taken off again.                *)
LEMMA Slashes ==
    ASSUME NEW t \in Text
    PROVE  /\ Slash \in Text /\ Slash \o t \in Text /\ t \o Slash \in Text
           /\ Slash \o t # <<>> /\ Head(Slash \o t) = "/" /\ Tail(Slash \o t) = t
           /\ t \o Slash # <<>> /\ Last(t \o Slash) = "/" /\ Front(t \o Slash) = t
           /\ t # <<>> => /\ Len(Slash \o t) > 1 /\ Last(Slash \o t) = Last(t)
                          /\ Len(t \o Slash) > 1 /\ Head(t \o Slash) = Head(t)
<1>1. Slash \in Text /\ Slash # <<>> /\ Head(Slash) = "/" /\ Tail(Slash) = <<>>
      /\ Last(Slash) = "/" /\ Len(Slash) = 1
  <2>1. Slash \in Text /\ Len(Slash) = 1 /\ Slash[1] = "/"
    <3>1. "/" \in Symbol
      BY DEF Symbol
    <3> QED BY <3>1 DEF Slash, Text
  <2>2. Slash # <<>>
    BY <2>1, EmptySeq
  <2>3. Tail(Slash) \in Text /\ Len(Tail(Slash)) = 0
    BY <2>1, <2>2, HeadTailProperties DEF Text
  <2>4. Tail(Slash) = <<>>
    BY <2>3, EmptySeq DEF Text
  <2>5. Head(Slash) = "/"
    BY DEF Slash
  <2> QED BY <2>1, <2>2, <2>4, <2>5 DEF Last
<1>2. Front(Slash) = <<>>
  BY <1>1, SubSeqEmpty DEF Front
<1>3. Slash \o t \in Text /\ Slash \o t # <<>> /\ Head(Slash \o t) = "/" /\ Tail(Slash \o t) = t
  <2>1. <<>> \o t = t
    BY Pieces
  <2>2. /\ Slash \o t \in Text /\ Slash \o t # <<>>
        /\ Head(Slash \o t) = Head(Slash) /\ Tail(Slash \o t) = Tail(Slash) \o t
    BY <1>1, FirstOf
  <2> QED BY <1>1, <2>1, <2>2
<1>4. t \o Slash \in Text /\ t \o Slash # <<>> /\ Last(t \o Slash) = "/" /\ Front(t \o Slash) = t
  <2>1. t \o <<>> = t
    BY Pieces
  <2>2. /\ t \o Slash \in Text /\ t \o Slash # <<>>
        /\ Last(t \o Slash) = Last(Slash) /\ Front(t \o Slash) = t \o Front(Slash)
    BY <1>1, LastOf
  <2> QED BY <1>1, <1>2, <2>1, <2>2
<1>5. Len(Slash \o t) = 1 + Len(t) /\ Len(t \o Slash) = Len(t) + 1 /\ Len(t) \in Nat
  BY <1>1, ConcatProperties, LenProperties DEF Text
<1>6. ASSUME t # <<>> PROVE /\ Len(Slash \o t) > 1 /\ Last(Slash \o t) = Last(t)
                            /\ Len(t \o Slash) > 1 /\ Head(t \o Slash) = Head(t)
  <2>1. Len(t) > 0
    BY <1>6, Pieces
  <2>2. Last(Slash \o t) = Last(t)
    BY <1>1, <1>6, LastOf
  <2>3. Head(t \o Slash) = Head(t)
    BY <1>1, <1>6, FirstOf
  <2> QED BY <1>5, <2>1, <2>2, <2>3
<1> QED BY <1>1, <1>3, <1>4, <1>6

(* Trimmed takes one slash off each end, where there is one.                 *)
LEMMA TrimmedEnds ==
    ASSUME NEW b \in Text, Trimmed(b) # <<>>
    PROVE  LET core == Trimmed(b)
           IN /\ b # <<>> /\ core \in Text
              /\ Head(b) = "/" /\ Last(b) = "/" => b = Slash \o (core \o Slash)
              /\ Head(b) = "/" /\ Last(b) # "/" => b = Slash \o core
              /\ Head(b) # "/" /\ Last(b) = "/" => b = core \o Slash
              /\ Head(b) # "/" /\ Last(b) # "/" => b = core
<1> DEFINE t == IF Head(b) = "/" THEN Tail(b) ELSE b
<1>1. b # <<>>
  BY DEF Trimmed
<1>2. t \in Text /\ b = (IF Head(b) = "/" THEN Slash \o t ELSE t)
  BY <1>1, Pieces DEF Slash
<1>3. Trimmed(b) = IF t # <<>> /\ Last(t) = "/" THEN Front(t) ELSE t
  BY <1>1 DEF Trimmed
<1> HIDE DEF t
<1>4. t # <<>>
  BY <1>3
<1>5. Last(b) = Last(t)
  BY <1>2, <1>4, Slashes
<1>6. Last(t) = "/" => t = Trimmed(b) \o Slash /\ Trimmed(b) \in Text
  BY <1>2, <1>3, <1>4, Pieces DEF Slash
<1>7. Last(t) # "/" => t = Trimmed(b)
  BY <1>3
<1> QED BY <1>1, <1>2, <1>5, <1>6, <1>7

LEMMA TrimmedOf ==
    ASSUME NEW t \in Text, t # <<>>, Last(t) # "/"
    PROVE  /\ Trimmed(Slash \o t) = t /\ Trimmed(Slash \o (t \o Slash)) = t
           /\ Head(t) # "/" => Trimmed(t) = t /\ Trimmed(t \o Slash) = t
<1>1. Trimmed(Slash \o t) = t
  <2>1. Slash \o t # <<>> /\ Head(Slash \o t) = "/" /\ Tail(Slash \o t) = t
    BY Slashes
  <2> QED BY <2>1 DEF Trimmed
<1>2. t \o Slash \in Text /\ t \o Slash # <<>> /\ Last(t \o Slash) = "/" /\ Front(t \o Slash) = t
      /\ Head(t \o Slash) = Head(t)
  BY Slashes
<1>3. Trimmed(Slash \o (t \o Slash)) = t
  <2>1. /\ Slash \o (t \o Slash) # <<>> /\ Head(Slash \o (t \o Slash)) = "/"
        /\ Tail(Slash \o (t \o Slash)) = t \o Slash
    BY <1>2, Slashes
  <2> QED BY <1>2, <2>1 DEF Trimmed
<1>4. Head(t) # "/" => Trimmed(t) = t /\ Trimmed(t \o Slash) = t
  BY <1>2 DEF Trimmed
<1> QED BY <1>1, <1>3, <1>4

(* A text without slashes at its ends loses nothing to strings.Trim.         *)
LEMMA NothingToTrim ==
    ASSUME NEW t \in Text, t # <<>>, Head(t) # "/", Last(t) # "/"
    PROVE  TrimmedOfSlashes(t) = t
<1> DEFINE others == {i \in DOMAIN t : t[i] # "/"}
<1>1. Len(t) \in Nat \ {0} /\ DOMAIN t = 1 .. Len(t)
  BY EmptySeq, LenProperties DEF Text
<1>2. t[1] # "/" /\ t[Len(t)] # "/"
  BY <1>1 DEF Last
<1>3. 1 \in others /\ Len(t) \in others /\ \A i \in others : 1 <= i /\ i <= Len(t) /\ i \in Nat
  BY <1>1, <1>2
<1> HIDE DEF others
<1>4. Min(others) = 1
  BY <1>1, <1>3 DEF Min
<1>5. Max(others) = Len(t)
  BY <1>1, <1>3 DEF Max
<1>6. TrimmedOfSlashes(t) = SubSeq(t, 1, Len(t))
  <2>1. others # {}
    BY <1>3
  <2> QED BY <1>4, <1>5, <2>1 DEF TrimmedOfSlashes, others
<1> QED BY <1>6, SubSeqFull DEF Text

-----------------------------------------------------------------------------
(* Part 2: one deployment. *)

(* The state knows one of the deployments.                                   *)
Deployed == [router |-> config.router, base |-> config.base] \in Setups

(* The base path without slashes at its ends.                                *)
Core == Trimmed(config.base)

LEMMA SymbolFacts ==
    /\ "/" \in Symbol /\ "http:" \in Symbol /\ "host" \in Symbol
    /\ \A s \in Setups : s.base \in Text /\ s.router \in {"register", "middleware"}
    /\ \A id \in Ids : id \in Text /\ id # <<>> /\ Head(id) # "/" /\ Last(id) # "/"
<1>1. \A t \in Seq(STRING) : t \in Text
  <2>1. STRING \subseteq Symbol
    BY DEF Symbol
  <2> QED BY <2>1, SeqMonotonic DEF Text
<1> QED BY <1>1, ConstantsAssumption DEF Symbol, ValidId

(* Whatever slashes the configuration has, the two copies of the base path   *)
(* are the same text with and without the last slash.                        *)
LEMMA BaseShape ==
    ASSUME Mounted, Deployed
    PROVE  /\ Core \in Text /\ Core # <<>> /\ Head(Core) \notin {"/", "host"} /\ Last(Core) # "/"
           /\ ~IsAbs(config.base) /\ config.base # <<>>
           /\ Normalised(config.base) = Slash \o (Core \o Slash)
           /\ WithLeadingSlash(TrimmedBase) = Slash \o Core
           /\ WithLeadingSlash(TrimmedBase \o Slash) = Slash \o (Core \o Slash)
           /\ Head(config.base) = "/" => TrimmedBase = Slash \o Core
           /\ config.router \in {"register", "middleware"}
           /\ config.router = "middleware" => Head(config.base) = "/"
<1> DEFINE b == config.base
<1>1. b \in Text /\ config.router \in {"register", "middleware"}
  BY SymbolFacts DEF Deployed
<1>2. /\ ~IsAbs(b) /\ Core # <<>> /\ Head(Core) \notin {"/", "host"} /\ Last(Core) # "/"
      /\ config.router = "middleware" => Head(b) = "/"
  BY DEF Mounted, Deployed, Core
<1>3. /\ b # <<>> /\ Core \in Text
      /\ Head(b) = "/" /\ Last(b) = "/" => b = Slash \o (Core \o Slash)
      /\ Head(b) = "/" /\ Last(b) # "/" => b = Slash \o Core
      /\ Head(b) # "/" /\ Last(b) = "/" => b = Core \o Slash
      /\ Head(b) # "/" /\ Last(b) # "/" => b = Core
  BY <1>1, <1>2, TrimmedEnds DEF Core
<1>4. /\ Slash \in Text /\ Slash \o Core \in Text /\ Core \o Slash \in Text
      /\ Slash \o Core # <<>> /\ Head(Slash \o Core) = "/"
      /\ Core \o Slash # <<>> /\ Front(Core \o Slash) = Core
      /\ Head(Core \o Slash) = Head(Core) /\ Len(Core \o Slash) > 1
  BY <1>2, <1>3, Slashes
<1>5. /\ (Slash \o Core) \o Slash = Slash \o (Core \o Slash)
      /\ Slash \o (Core \o Slash) # <<>> /\ Head(Slash \o (Core \o Slash)) = "/"
  <2>1. (Slash \o Core) \o Slash = Slash \o (Core \o Slash)
    BY <1>3, <1>4, Associative, Zenon
  <2>2. Slash \o (Core \o Slash) # <<>> /\ Head(Slash \o (Core \o Slash)) = "/"
    BY <1>4, Slashes
  <2> QED BY <2>1, <2>2
<1>6. Front((Slash \o Core) \o Slash) = Slash \o Core /\ Len((Slash \o Core) \o Slash) > 1
  BY <1>4, Slashes
<1>7. TrimmedBase = IF Head(b) = "/" THEN Slash \o Core ELSE Core
  BY <1>3, <1>4, <1>5, <1>6 DEF TrimmedBase
<1>8. WithTrailingSlash(b) = IF Head(b) = "/" THEN Slash \o (Core \o Slash) ELSE Core \o Slash
  BY <1>3, <1>5 DEF WithTrailingSlash
<1>9. Normalised(b) = Slash \o (Core \o Slash)
  BY <1>2, <1>4, <1>5, <1>8 DEF Normalised, WithLeadingSlash
<1>10. WithLeadingSlash(TrimmedBase) = Slash \o Core
  BY <1>2, <1>4, <1>7 DEF WithLeadingSlash
<1>11. WithLeadingSlash(TrimmedBase \o Slash) = Slash \o (Core \o Slash)
  BY <1>2, <1>4, <1>5, <1>7 DEF WithLeadingSlash
<1> QED BY <1>1, <1>2, <1>3, <1>7, <1>9, <1>10, <1>11

(* extractIDFromURL returns what follows the base path, if that does not     *)
(* occur earlier in the URL.                                                 *)
LEMMA Cut ==
    ASSUME NEW pre \in Text, NEW base \in Text, NEW t \in Text, base # <<>>,
           base = Normalised(config.base),
           LET url == pre \o (base \o t)
           IN \A i \in 1 .. Len(pre) : ~IsPrefix(base, SubSeq(url, i, Len(url)))
    PROVE  ExtractID(pre \o (base \o t)) = TrimmedOfSlashes(t)
<1> DEFINE url == pre \o (base \o t)
           Here == {i \in 1 .. Len(url) : IsPrefix(base, SubSeq(url, i, Len(url)))}
           n == Len(pre) + 1
<1>1. /\ base \o t \in Text /\ pre \o base \in Text /\ url \in Text
      /\ url = (pre \o base) \o t
  BY Joining, Associative
<1>2. /\ Len(pre) \in Nat /\ Len(base) \in Nat \ {0} /\ Len(t) \in Nat
      /\ Len(base \o t) = Len(base) + Len(t) /\ Len(pre \o base) = Len(pre) + Len(base)
      /\ Len(url) = Len(pre) + (Len(base) + Len(t))
  BY <1>1, ConcatProperties, LenProperties, EmptySeq DEF Text
<1>3. SubSeq(url, n, Len(url)) = base \o t /\ IsPrefix(base, base \o t)
  BY <1>1, AfterPrefix
<1>4. n \in Here /\ \A i \in Here : n <= i
  <2>1. n \in 1 .. Len(url)
    BY <1>2
  <2>2. IsPrefix(base, SubSeq(url, n, Len(url)))
    BY <1>3
  <2>3. ASSUME NEW i \in 1 .. Len(url), IsPrefix(base, SubSeq(url, i, Len(url))) PROVE n <= i
    <3>1. i \notin 1 .. Len(pre)
      BY <2>3
    <3> QED BY <1>2, <2>3, <3>1
  <2> QED BY <2>1, <2>2, <2>3
<1>5. \A m \in Here : (\A i \in Here : m <= i) => m = n
  BY <1>2, <1>4
<1>6. SubSeq(url, n + Len(base), Len(url)) = t
  <2>1. SubSeq((pre \o base) \o t, Len(pre \o base) + 1, Len((pre \o base) \o t)) = t
    BY <1>1, AfterPrefix
  <2> QED BY <1>1, <1>2, <2>1
<1>7. ExtractID(url) = TrimmedOfSlashes(
          SubSeq(url, (CHOOSE m \in Here : \A i \in Here : m <= i) + Len(base), Len(url)))
  BY <1>4 DEF ExtractID
<1> HIDE DEF Here, n, url
<1>8. (CHOOSE m \in Here : \A i \in Here : m <= i) = n
  BY <1>4, <1>5
<1> QED BY <1>6, <1>7, <1>8 DEF url

LEMMA ServerText ==
    /\ Server \in Text /\ Len(Server) = 4 /\ Server # <<>>
    /\ Server[1] = "http:" /\ Server[2] = "/" /\ Server[3] = "/" /\ Server[4] = "host"
<1>1. \A a, b, c, d \in Symbol : <<a, b, c, d>> \in Text
  BY DEF Text
<1>2. Server \in Text
  BY <1>1, SymbolFacts DEF Server
<1> QED BY <1>2 DEF Server

(* A reference to an upload, its Location or the path of it, names it.       *)
LEMMA ReferenceNames ==
    ASSUME Mounted, Deployed, NEW id \in Ids
    PROVE  ExtractID(Location(id)) = id /\ ExtractID(Normalised(config.base) \o id) = id
<1> DEFINE base == Slash \o (Core \o Slash)
<1>1. /\ id \in Text /\ id # <<>> /\ Head(id) # "/" /\ Last(id) # "/"
      /\ Core \in Text /\ Core # <<>> /\ Head(Core) \notin {"/", "host"}
      /\ base = Normalised(config.base) /\ ~IsAbs(config.base)
  BY SymbolFacts, BaseShape
<1>2. TrimmedOfSlashes(id) = id
  BY <1>1, NothingToTrim
<1>3. /\ Core \o Slash \in Text /\ Core \o Slash # <<>> /\ Head(Core \o Slash) = Head(Core)
      /\ base \in Text /\ base # <<>> /\ Head(base) = "/" /\ Tail(base) = Core \o Slash
  <2>1. Core \o Slash \in Text /\ Core \o Slash # <<>> /\ Head(Core \o Slash) = Head(Core)
    BY <1>1, Slashes
  <2> QED BY <2>1, Slashes
<1>4. Len(base) >= 2 /\ base[1] = "/" /\ base[2] = Head(Core)
  <2>1. Len(base) \in Nat /\ Len(Core \o Slash) \in Nat \ {0} /\ Len(Core \o Slash) = Len(base) - 1
    BY <1>3, HeadTailProperties, EmptySeq, LenProperties DEF Text
  <2>2. base[1] = Head(base)
    BY <1>3, <2>1
  <2>3. base[2] = (Core \o Slash)[1]
    <3>1. \A i \in 1 .. Len(Tail(base)) : Tail(base)[i] = base[i + 1]
      BY <1>3, HeadTailProperties DEF Text
    <3> QED BY <1>3, <2>1, <3>1
  <2>4. (Core \o Slash)[1] = Head(Core \o Slash)
    BY <1>3
  <2> QED BY <1>3, <2>1, <2>2, <2>3, <2>4
<1> HIDE DEF base
<1>5. base \o id \in Text /\ Server \o (base \o id) \in Text
  BY <1>1, <1>3, ServerText, Joining
<1>6. ExtractID(base \o id) = id
  <2>1. <<>> \in Text /\ Len(<<>>) = 0 /\ <<>> \o (base \o id) = base \o id
    BY <1>5, Pieces, EmptySeq DEF Text
  <2>2. ExtractID(<<>> \o (base \o id)) = TrimmedOfSlashes(id)
    <3>1. \A i \in 1 .. Len(<<>>) : FALSE
      BY <2>1
    <3> QED BY <1>1, <1>3, <2>1, <3>1, Cut
  <2> QED BY <1>2, <2>1, <2>2
<1>7. ExtractID(Server \o (base \o id)) = id
  <2> DEFINE url == Server \o (base \o id)
  <2>1. /\ Len(base \o id) \in Nat /\ Len(base \o id) >= 2 /\ Len(url) = 4 + Len(base \o id)
        /\ url[1] = "http:" /\ url[2] = "/" /\ url[3] = "/" /\ url[4] = "host"
    <3>1. Len(base \o id) = Len(base) + Len(id) /\ Len(base) \in Nat /\ Len(id) \in Nat
      BY <1>1, <1>3, ConcatProperties, LenProperties DEF Text
    <3>2. /\ Len(url) = Len(Server) + Len(base \o id)
          /\ \A i \in 1 .. Len(Server) + Len(base \o id) : url[i] =
                IF i <= Len(Server) THEN Server[i] ELSE (base \o id)[i - Len(Server)]
      BY <1>5, ServerText, ConcatProperties DEF Text
    <3> QED BY <1>4, <3>1, <3>2, ServerText
  <2>2. ASSUME NEW i \in 1 .. Len(Server), IsPrefix(base, SubSeq(url, i, Len(url))) PROVE FALSE
    <3>1. \A j \in i .. Len(url) : url[j] \in Symbol
      BY <1>5, <2>1, <2>2, ServerText, ElementOfSeq DEF Text
    <3>2. /\ SubSeq(url, i, Len(url)) \in Text
          /\ \A j \in 1 .. Len(url) - i + 1 : SubSeq(url, i, Len(url))[j] = url[i + j - 1]
      BY <2>1, <2>2, <3>1, ServerText, SubSeqProperties DEF Text
    <3>3. /\ SubSeq(url, i, Len(url))[1] = base[1] /\ SubSeq(url, i, Len(url))[2] = base[2]
      <4> DEFINE behind == SubSeq(url, i, Len(url))
      <4>1. Len(base) \in Nat /\ 1 \in 1 .. Len(base) /\ 2 \in 1 .. Len(base)
        BY <1>3, <1>4, LenProperties DEF Text
      <4>2. behind \in Text /\ IsPrefix(base, behind)
        BY <2>2, <3>2
      <4> HIDE DEF behind
      <4>3. behind[1] = base[1] /\ behind[2] = base[2]
        BY <1>3, <4>1, <4>2, PrefixElements
      <4> QED BY <4>3 DEF behind
    <3>4. url[i] = "/" /\ url[i + 1] = Head(Core)
      BY <1>4, <2>1, <2>2, <3>2, <3>3, ServerText
    <3>5. i \in {1, 2, 3, 4}
      BY <2>2, ServerText
    <3> QED BY <1>1, <2>1, <3>4, <3>5
  <2>3. ExtractID(url) = TrimmedOfSlashes(id)
    BY <1>1, <1>3, <2>2, ServerText, Cut
  <2> QED BY <1>2, <2>3
<1>8. Location(id) = Server \o (base \o id)
  <2>1. base \in Text /\ id \in Text /\ Server \in Text
    BY <1>1, <1>3, ServerText
  <2>2. (Server \o base) \o id = Server \o (base \o id)
    BY <2>1, Associative, Zenon
  <2> QED BY <1>1, <2>2 DEF Location
<1> QED BY <1>1, <1>6, <1>7, <1>8

(* The paths of a deployment: the base path, and what is under it.           *)
Root == Slash \o Core
Under(t) == Root \o (Slash \o t)

LEMMA Paths ==
    ASSUME Mounted, Deployed
    PROVE  /\ Root \in Text /\ Root # <<>> /\ Len(Root) > 1 /\ Last(Root) # "/"
           /\ Normalised(config.base) = Root \o Slash
           /\ WithLeadingSlash(TrimmedBase) = Root
           /\ WithLeadingSlash(TrimmedBase \o Slash) = Root \o Slash
           /\ Head(config.base) = "/" => TrimmedBase = Root
<1>1. /\ Core \in Text /\ Core # <<>> /\ Last(Core) # "/"
      /\ Normalised(config.base) = Slash \o (Core \o Slash)
      /\ WithLeadingSlash(TrimmedBase) = Root
      /\ WithLeadingSlash(TrimmedBase \o Slash) = Slash \o (Core \o Slash)
      /\ Head(config.base) = "/" => TrimmedBase = Root
  BY BaseShape DEF Root
<1>2. Root \in Text /\ Root # <<>> /\ Len(Root) > 1 /\ Last(Root) # "/"
  BY <1>1, Slashes DEF Root
<1>3. Slash \in Text
  BY <1>1, Slashes
<1>4. (Slash \o Core) \o Slash = Slash \o (Core \o Slash)
  BY <1>1, <1>3, Associative, Zenon
<1> QED BY <1>1, <1>2, <1>4 DEF Root

LEMMA UnderRoot ==
    ASSUME Mounted, Deployed, NEW t \in Text
    PROVE  /\ Slash \o t \in Text /\ Under(t) \in Text
           /\ Under(t) = (Root \o Slash) \o t
           /\ t \o Slash \in Text /\ Under(t) \o Slash = Under(t \o Slash)
<1>1. Root \in Text /\ Slash \in Text /\ Slash \o t \in Text /\ t \o Slash \in Text
  BY Paths, Slashes
<1>2. Root \o (Slash \o t) \in Text /\ Root \o (Slash \o t) = (Root \o Slash) \o t
  <2>1. Root \o (Slash \o t) \in Text
    BY <1>1, Joining
  <2>2. (Root \o Slash) \o t = Root \o (Slash \o t)
    BY <1>1, Associative, Zenon
  <2> QED BY <2>1, <2>2
<1>3. (Root \o (Slash \o t)) \o Slash = Root \o ((Slash \o t) \o Slash)
  <2> DEFINE u == Slash \o t
  <2>1. u \in Text
    BY <1>1
  <2> HIDE DEF u
  <2>2. (Root \o u) \o Slash = Root \o (u \o Slash)
    BY <1>1, <2>1, Associative, Zenon
  <2> QED BY <2>2 DEF u
<1>4. (Slash \o t) \o Slash = Slash \o (t \o Slash)
  BY <1>1, Associative, Zenon
<1> QED BY <1>1, <1>2, <1>3, <1>4 DEF Under

(* Register sends the base path, with or without a slash, to the handlers    *)
(* for it, and an id under it to those for an upload if it is one segment,   *)
(* and nowhere if it is not.                                                 *)
LEMMA RegisterServes ==
    ASSUME Mounted, Deployed, NEW method
    PROVE  /\ RegisterRoute(method, Root) = BaseRoute(method)
           /\ RegisterRoute(method, Root \o Slash) = BaseRoute(method)
           /\ \A id \in Ids : \A t \in {id, id \o Slash} :
                RegisterRoute(method, Under(t)) =
                  IF OneSegment(id) THEN ResourceRoute(method, id) ELSE NoRoute
<1>1. /\ Root \in Text /\ Root # <<>> /\ Len(Root) > 1 /\ Last(Root) # "/" /\ Slash \in Text
      /\ Root \o Slash \in Text
  BY Paths, Slashes
<1>2. FiberPath(Root) = Root
  BY <1>1 DEF FiberPath
<1>3. FiberPath(Root \o Slash) = Root
  BY <1>1, Slashes DEF FiberPath
<1>4. WithLeadingSlash(TrimmedBase) = Root /\ WithLeadingSlash(TrimmedBase \o Slash) = Root \o Slash
  BY Paths
<1>5. ASSUME NEW id \in Ids, NEW t \in {id, id \o Slash}
      PROVE  RegisterRoute(method, Under(t)) =
               IF OneSegment(id) THEN ResourceRoute(method, id) ELSE NoRoute
  <2>1. id \in Text /\ id # <<>> /\ Last(id) # "/"
    BY SymbolFacts
  <2>2. /\ Under(id) \in Text /\ Under(id) = (Root \o Slash) \o id
        /\ Under(id) \o Slash = Under(id \o Slash)
    BY <2>1, UnderRoot
  <2>3. Last(Under(id)) = Last(id) /\ Under(id) # <<>>
    BY <1>1, <2>1, <2>2, LastOf
  <2>4. FiberPath(Under(t)) = Under(id)
    <3>1. FiberPath(Under(id)) = Under(id)
      BY <2>1, <2>3 DEF FiberPath
    <3>2. Len(Under(id) \o Slash) > 1 /\ Last(Under(id) \o Slash) = "/"
          /\ Front(Under(id) \o Slash) = Under(id)
      BY <2>2, <2>3, Slashes
    <3>3. FiberPath(Under(id \o Slash)) = Under(id)
      BY <2>2, <3>2 DEF FiberPath
    <3> QED BY <1>5, <3>1, <3>3
  <2>5. Under(id) # Root
    <3>1. Len(Under(id)) = Len(Root) + Len(Slash \o id) /\ Len(Root) \in Nat
      BY <1>1, <2>1, Slashes, ConcatProperties, LenProperties DEF Text, Under
    <3>2. Len(Slash \o id) > 1
      BY <2>1, Slashes
    <3> QED BY <3>1, <3>2
  <2>6. /\ IsPrefix(Root \o Slash, Under(id))
        /\ SubSeq(Under(id), Len(Root \o Slash) + 1, Len(Under(id))) = id
    BY <1>1, <2>1, <2>2, AfterPrefix
  <2>7. FiberParam(Root \o Slash, Under(t)) = IF OneSegment(id) THEN id ELSE NoId
    BY <2>4, <2>6 DEF FiberParam, OneSegment
  <2> QED BY <1>4, <2>1, <2>4, <2>5, <2>7 DEF RegisterRoute, NoId
<1>6. /\ RegisterRoute(method, Root) = BaseRoute(method)
      /\ RegisterRoute(method, Root \o Slash) = BaseRoute(method)
  BY <1>2, <1>3, <1>4 DEF RegisterRoute
<1> QED BY <1>5, <1>6

(* So does Middleware, for a base path with a slash in front.                *)
LEMMA MiddlewareServes ==
    ASSUME Mounted, Deployed, Head(config.base) = "/", NEW method
    PROVE  /\ MiddlewareRoute(method, Root) = BaseRoute(method)
           /\ MiddlewareRoute(method, Root \o Slash) = BaseRoute(method)
           /\ \A id \in Ids :
                /\ MiddlewareRoute(method, Under(id)) = ResourceRoute(method, id)
                /\ MiddlewareRoute(method, Under(id \o Slash)) = ResourceRoute(method, id)
<1>1. Root \in Text /\ TrimmedBase = Root /\ Slash \in Text
  BY Paths, Slashes
<1>2. ASSUME NEW t \in Text
      PROVE  /\ IsPrefix(TrimmedBase, Root \o t)
             /\ SubSeq(Root \o t, Len(TrimmedBase) + 1, Len(Root \o t)) = t
  BY <1>1, AfterPrefix
<1>3. MiddlewareRoute(method, Root) = BaseRoute(method)
  <2>1. <<>> \in Text /\ Root \o <<>> = Root
    BY <1>1, Pieces, EmptySeq DEF Text
  <2>2. /\ IsPrefix(TrimmedBase, Root)
        /\ SubSeq(Root, Len(TrimmedBase) + 1, Len(Root)) = <<>>
    BY <1>2, <2>1
  <2> QED BY <2>2 DEF MiddlewareRoute
<1>4. MiddlewareRoute(method, Root \o Slash) = BaseRoute(method)
  BY <1>1, <1>2 DEF MiddlewareRoute
<1>5. ASSUME NEW t \in Text, NEW id \in Ids, t \in {id, id \o Slash}
      PROVE  MiddlewareRoute(method, Under(t)) = ResourceRoute(method, id)
  <2>1. id \in Text /\ id # <<>> /\ Last(id) # "/"
    BY SymbolFacts
  <2>2. t # <<>>
    BY <1>5, <2>1, Slashes
  <2>3. Slash \o t \in Text /\ Slash \o t # <<>> /\ Len(Slash \o t) > 1
    BY <2>2, Slashes
  <2>4. Len(Slash) = 1
    BY DEF Slash
  <2>5. Trimmed(Slash \o t) = id
    BY <1>5, <2>1, TrimmedOf
  <2>6. /\ IsPrefix(TrimmedBase, Under(t))
        /\ SubSeq(Under(t), Len(TrimmedBase) + 1, Len(Under(t))) = Slash \o t
    BY <1>2, <2>3 DEF Under
  <2>7. Slash \o t \notin {<<>>, Slash}
    BY <2>3, <2>4
  <2> QED BY <2>1, <2>5, <2>6, <2>7 DEF MiddlewareRoute, NoId
<1>6. \A id \in Ids : id \in Text /\ id \o Slash \in Text
  BY SymbolFacts, Slashes
<1> QED BY <1>3, <1>4, <1>5, <1>6

(* A request to a path of this server is answered by the router in use.      *)
LEMMA Routed ==
    ASSUME NEW method, NEW t \in Text
    PROVE  Route(method, Server \o (Slash \o t)) =
             IF config.router = "register" THEN RegisterRoute(method, Slash \o t)
             ELSE MiddlewareRoute(method, Slash \o t)
<1> DEFINE url == Server \o (Slash \o t)
<1>1. Server \in Text /\ Slash \in Text /\ Slash \o t \in Text /\ Server \o Slash \in Text
  BY ServerText, Slashes, Joining
<1>2. url = (Server \o Slash) \o t
  BY <1>1, Associative, Zenon
<1>3. IsPrefix(Server \o Slash, url)
  BY <1>1, <1>2, AfterPrefix
<1>4. SubSeq(url, Len(Server) + 1, Len(url)) = Slash \o t
  BY <1>1, AfterPrefix
<1> QED BY <1>3, <1>4 DEF Route

(* The creation URL is served, with and without the last slash.              *)
LEMMA EndpointServed ==
    ASSUME Mounted, Deployed, NEW method
    PROVE  /\ \A url \in Endpoints : Route(method, url) = BaseRoute(method)
           /\ Server \o Normalised(config.base) \in Endpoints
<1>1. /\ Root \in Text /\ Core \in Text /\ Core \o Slash \in Text
      /\ Root \o Slash = Slash \o (Core \o Slash) /\ Front(Root \o Slash) = Root
  <2>1. Root \in Text /\ Core \in Text
    BY Paths, BaseShape
  <2>2. Core \o Slash \in Text /\ Slash \in Text /\ Front(Root \o Slash) = Root
    BY <2>1, Slashes
  <2>3. (Slash \o Core) \o Slash = Slash \o (Core \o Slash)
    BY <2>1, <2>2, Associative, Zenon
  <2> QED BY <2>1, <2>2, <2>3 DEF Root
<1>2. Endpoints = {Server \o (Root \o Slash), Server \o Root}
  BY <1>1, Paths DEF Endpoints
<1>3. config.router = "middleware" \/ config.router = "register"
  BY BaseShape
<1>4. config.router = "middleware" => Head(config.base) = "/"
  BY BaseShape
<1>5. Route(method, Server \o Root) = BaseRoute(method)
  <2>1. Route(method, Server \o Root) =
           IF config.router = "register" THEN RegisterRoute(method, Root)
           ELSE MiddlewareRoute(method, Root)
    BY <1>1, Routed DEF Root
  <2> QED BY <1>3, <1>4, <2>1, RegisterServes, MiddlewareServes
<1>6. Route(method, Server \o (Root \o Slash)) = BaseRoute(method)
  <2>1. Route(method, Server \o (Root \o Slash)) =
           IF config.router = "register" THEN RegisterRoute(method, Root \o Slash)
           ELSE MiddlewareRoute(method, Root \o Slash)
    BY <1>1, Routed
  <2> QED BY <1>3, <1>4, <2>1, RegisterServes, MiddlewareServes
<1> QED BY <1>2, <1>5, <1>6, Paths DEF Endpoints

(* The Location of an upload leads to its handlers, or nowhere: if the id    *)
(* has several segments and Register serves it.                              *)
LEMMA LocationLeadsBack ==
    ASSUME Mounted, Deployed, NEW method, NEW id \in Ids, NEW slash \in {<<>>, Slash}
    PROVE  Route(method, Location(id) \o slash) =
             IF Routable(id) THEN ResourceRoute(method, id) ELSE NoRoute
<1> DEFINE tail == id \o slash
           rest == Core \o (Slash \o tail)
<1>1. /\ id \in Text /\ Core \in Text /\ Server \in Text /\ Slash \in Text /\ slash \in Text
      /\ Root \in Text /\ ~IsAbs(config.base)
  BY SymbolFacts, BaseShape, ServerText, Slashes, Paths, EmptySeq DEF Text
<1>2. tail \in Text /\ Slash \o tail \in Text /\ rest \in Text
  BY <1>1, Joining
<1>3. tail \in {id, id \o Slash}
  BY <1>1, Pieces
<1>4. Location(id) \o slash = Server \o Under(tail)
  <2>1. Location(id) = (Server \o (Root \o Slash)) \o id /\ Under(tail) = (Root \o Slash) \o tail
    BY <1>1, <1>2, Paths, UnderRoot DEF Location
  <2>2. Root \o Slash \in Text
    BY <1>1, Joining
  <2> DEFINE base == Root \o Slash
  <2> HIDE DEF base
  <2>3. Join(Join(Join(Server, base), id), slash) = Join(Server, Join(base, Join(id, slash)))
    BY <1>1, <2>2, FourTexts DEF base
  <2>4. Location(id) = Join(Join(Server, base), id) /\ Under(tail) = Join(base, Join(id, slash))
    BY <2>1 DEF Join, base
  <2> QED BY <2>3, <2>4 DEF Join
<1>5. Under(tail) = Slash \o rest
  BY <1>1, <1>2, Associative, Zenon DEF Under, Root
<1> HIDE DEF tail, rest
<1>6. Route(method, Server \o Under(tail)) =
        IF config.router = "register" THEN RegisterRoute(method, Under(tail))
        ELSE MiddlewareRoute(method, Under(tail))
  BY <1>2, <1>5, Routed
<1>7. CASE config.router = "register"
  <2>1. RegisterRoute(method, Under(tail)) =
          IF OneSegment(id) THEN ResourceRoute(method, id) ELSE NoRoute
    BY <1>3, RegisterServes
  <2>2. Routable(id) <=> OneSegment(id)
    BY <1>7 DEF Routable
  <2> QED BY <1>4, <1>6, <1>7, <2>1, <2>2
<1>8. CASE config.router # "register"
  <2>1. Head(config.base) = "/" /\ Routable(id)
    BY <1>8, BaseShape DEF Routable
  <2>2. MiddlewareRoute(method, Under(tail)) = ResourceRoute(method, id)
    BY <1>3, <2>1, MiddlewareServes
  <2> QED BY <1>4, <1>6, <1>8, <2>1, <2>2
<1> QED BY <1>7, <1>8

-----------------------------------------------------------------------------
(* Part 3: requests. *)

Stored == [state : {"free", "live", "gone"}, parts : Seq(Ids)]

TypeInv ==
    /\ Deployed /\ config.flags \subseteq Flags
    /\ uploads \in [Ids -> Stored]
    /\ advertised \in {Unasked, Extensions}
    /\ last.method \in Methods /\ last.target \in Ids \cup {NoId} /\ last.id \in Ids \cup {NoId}

(* What the last request has left behind: its id is that of its target, an   *)
(* extension is granted if it is announced, and a final upload has the parts *)
(* that were meant.                                                          *)
Outcome ==
    /\ last.extension = "concatenation" /\ last.granted =>
         last.id \in Ids /\ uploads[last.id].parts = last.meant
    /\ last.extension # None /\ (last.target = NoId \/ Routable(last.target)) =>
         (last.granted <=> last.extension \in Extensions)
    /\ LocationServed

LEMMA InitProtocol == Init => TypeInv /\ Outcome
<1> SUFFICES ASSUME Init PROVE TypeInv /\ Outcome
  OBVIOUS
<1>1. Deployed /\ config.flags \subseteq Flags
  BY DEF Init, Deployed
<1>2. Absent \in Stored
  <2>1. <<>> \in Seq(Ids)
    BY EmptySeq
  <2> QED BY <2>1 DEF Absent, Stored
<1>3. last.method \in Methods /\ last.target = NoId /\ last.id = NoId
      /\ last.extension = None
  BY DEF Init, Nothing, Methods
<1>4. TypeInv
  BY <1>1, <1>2, <1>3 DEF Init, TypeInv
<1>5. Outcome
  BY <1>3 DEF Outcome, LocationServed, None
<1> QED BY <1>4, <1>5

LEMMA TurnedAwayOutcome ==
    ASSUME TypeInv, Outcome, TurnedAway
    PROVE  TypeInv' /\ Outcome'
<1>1. PICK q \in Request :
        /\ ~Passes(q)
        /\ last' = [Nothing EXCEPT !.method = q.method]
  BY DEF TurnedAway
<1>2. /\ last'.method \in Methods /\ last'.target = NoId /\ last'.id = NoId
      /\ last'.extension = None
  BY <1>1 DEF Nothing, Request
<1>3. UNCHANGED <<config, uploads, advertised>>
  BY DEF TurnedAway
<1>4. TypeInv'
  BY <1>2, <1>3 DEF TypeInv, Deployed, Extensions, On
<1>5. Outcome'
  BY <1>2 DEF Outcome, LocationServed, None
<1> QED BY <1>4, <1>5

LEMMA DiscoverOutcome ==
    ASSUME Mounted, TypeInv, Outcome, Discover
    PROVE  TypeInv' /\ Outcome'
<1>1. PICK url \in Endpoints :
        /\ last' = [Nothing EXCEPT !.method = "OPTIONS", !.handler = Route("OPTIONS", url).handler]
        /\ advertised' \in {Extensions, advertised}
  BY DEF Discover
<1>2. UNCHANGED <<config, uploads>>
  BY DEF Discover
<1>3. "OPTIONS" \in Methods
  BY DEF Methods
<1>4. /\ last'.method = "OPTIONS" /\ last'.target = NoId /\ last'.id = NoId
      /\ last'.extension = None
  BY <1>1 DEF Nothing
<1>5. TypeInv'
  BY <1>1, <1>2, <1>3, <1>4 DEF TypeInv, Deployed, Extensions, On
<1>6. Outcome'
  BY <1>4 DEF Outcome, LocationServed, None
<1> QED BY <1>5, <1>6

LEMMA CreateOutcome ==
    ASSUME Mounted, TypeInv, Outcome, Create
    PROVE  TypeInv' /\ Outcome'
<1>1. "POST" \in Methods
  BY DEF Methods
<1>2. PICK url \in Endpoints, deferred \in BOOLEAN, id \in Ids :
        LET handler == Route("POST", url).handler
            served  == handler = "PostFile" /\ (deferred => AcceptsDeferred)
        IN /\ uploads' = IF served THEN [uploads EXCEPT ![id].state = "live"] ELSE uploads
           /\ last' = [Nothing EXCEPT !.method = "POST", !.handler = handler,
                         !.extension = IF deferred THEN "creation-defer-length" ELSE None,
                         !.granted = served]
  BY DEF Create
<1>3. Route("POST", url).handler = "PostFile"
  BY <1>2, EndpointServed DEF TypeInv, BaseRoute, BaseHandler
<1>4. /\ last'.method = "POST" /\ last'.target = NoId /\ last'.id = NoId
      /\ last'.extension = IF deferred THEN "creation-defer-length" ELSE None
      /\ last'.granted = (deferred => AcceptsDeferred)
  BY <1>2, <1>3 DEF Nothing
<1>5. UNCHANGED <<config, advertised>>
  BY DEF Create
<1>6. uploads' \in [Ids -> Stored]
  BY <1>2 DEF TypeInv, Stored
<1>7. TypeInv'
  BY <1>1, <1>4, <1>5, <1>6 DEF TypeInv, Deployed, Extensions, On
<1>8. "creation-defer-length" \in Extensions <=> AcceptsDeferred
  BY DEF Extensions, AcceptsDeferred
<1>9. Extensions' = Extensions
  BY <1>5 DEF Extensions, On
<1>10. Outcome'
  BY <1>4, <1>8, <1>9 DEF Outcome, LocationServed, None
<1> QED BY <1>7, <1>10

(* The parts that parseConcat finds are those the client meant.              *)
LEMMA ConcatNames ==
    ASSUME Mounted, Deployed, NEW n \in Nat, NEW meant \in [1 .. n -> Ids], NEW short \in BOOLEAN
    PROVE  LET Reference(u) == IF short THEN Normalised(config.base) \o u ELSE Location(u)
           IN ParseConcat([i \in 1 .. n |-> Reference(meant[i])]) = meant
<1> DEFINE Reference(u) == IF short THEN Normalised(config.base) \o u ELSE Location(u)
           refs == [i \in 1 .. n |-> Reference(meant[i])]
<1>1. \A u \in Ids : ExtractID(Reference(u)) = u
  BY ReferenceNames
<1> HIDE DEF Reference
<1>2. DOMAIN refs = 1 .. n /\ \A i \in 1 .. n : ExtractID(refs[i]) = meant[i]
  BY <1>1
<1> HIDE DEF refs
<1>3. ParseConcat(refs) = [i \in 1 .. n |-> meant[i]]
  BY <1>2 DEF ParseConcat
<1>4. ParseConcat(refs) = meant
  BY <1>3
<1> QED BY <1>4 DEF refs, Reference

LEMMA CreateFinalOutcome ==
    ASSUME Mounted, TypeInv, Outcome, CreateFinal
    PROVE  TypeInv' /\ Outcome'
<1>1. "POST" \in Methods
  BY DEF Methods
<1>2. PICK n \in 1 .. MaxRefs, id \in Ids :
      \E meant \in [1 .. n -> {u \in Ids : uploads[u].state = "live"}], short \in BOOLEAN :
        LET Reference(u) == IF short THEN Normalised(config.base) \o u ELSE Location(u)
            parts == ParseConcat([i \in 1 .. n |-> Reference(meant[i])])
            handler == Route("POST", Server \o Normalised(config.base)).handler
            served == /\ handler = "PostFile"
                      /\ On("concater") /\ ~On("disableConcatenation")
                      /\ \A i \in 1 .. n : parts[i] \in Ids /\ uploads[parts[i]].state = "live"
        IN /\ uploads[id].state = "free"
           /\ uploads' = IF served
                         THEN [uploads EXCEPT ![id] = [state |-> "live", parts |-> parts]]
                         ELSE uploads
           /\ last' = [Nothing EXCEPT !.method = "POST", !.handler = handler,
                         !.id = IF served THEN id ELSE NoId,
                         !.extension = "concatenation", !.granted = served,
                         !.meant = meant]
  BY DEF CreateFinal
<1>2a. PICK meant \in [1 .. n -> {u \in Ids : uploads[u].state = "live"}], short \in BOOLEAN :
        LET Reference(u) == IF short THEN Normalised(config.base) \o u ELSE Location(u)
            parts == ParseConcat([i \in 1 .. n |-> Reference(meant[i])])
            handler == Route("POST", Server \o Normalised(config.base)).handler
            served == /\ handler = "PostFile"
                      /\ On("concater") /\ ~On("disableConcatenation")
                      /\ \A i \in 1 .. n : parts[i] \in Ids /\ uploads[parts[i]].state = "live"
        IN /\ uploads[id].state = "free"
           /\ uploads' = IF served
                         THEN [uploads EXCEPT ![id] = [state |-> "live", parts |-> parts]]
                         ELSE uploads
           /\ last' = [Nothing EXCEPT !.method = "POST", !.handler = handler,
                         !.id = IF served THEN id ELSE NoId,
                         !.extension = "concatenation", !.granted = served,
                         !.meant = meant]
  BY <1>2
<1>3. Route("POST", Server \o Normalised(config.base)).handler = "PostFile"
  BY EndpointServed DEF TypeInv, BaseRoute, BaseHandler
<1>4. n \in Nat /\ meant \in [1 .. n -> Ids] /\ \A i \in 1 .. n : uploads[meant[i]].state = "live"
  BY <1>2a, ConstantsAssumption
<1>5. LET Reference(u) == IF short THEN Normalised(config.base) \o u ELSE Location(u)
      IN ParseConcat([i \in 1 .. n |-> Reference(meant[i])]) = meant
  BY <1>4, ConcatNames DEF TypeInv
<1> DEFINE allowed == On("concater") /\ ~On("disableConcatenation")
<1>6. /\ uploads' = IF allowed THEN [uploads EXCEPT ![id] = [state |-> "live", parts |-> meant]]
                    ELSE uploads
      /\ last' = [Nothing EXCEPT !.method = "POST", !.handler = "PostFile",
                    !.id = IF allowed THEN id ELSE NoId,
                    !.extension = "concatenation", !.granted = allowed, !.meant = meant]
  BY <1>2a, <1>3, <1>4, <1>5
<1>7. /\ last'.method = "POST" /\ last'.target = NoId
      /\ last'.id = (IF allowed THEN id ELSE NoId)
      /\ last'.extension = "concatenation" /\ last'.granted = allowed /\ last'.meant = meant
  BY <1>6 DEF Nothing
<1>8. UNCHANGED <<config, advertised>>
  BY DEF CreateFinal
<1>9. meant \in Seq(Ids)
  BY <1>4, SeqDef
<1>10. uploads' \in [Ids -> Stored]
  BY <1>6, <1>9 DEF TypeInv, Stored
<1>11. TypeInv'
  BY <1>1, <1>7, <1>8, <1>10 DEF TypeInv, Deployed, Extensions, On
<1>12. "concatenation" \in Extensions' <=> allowed
  BY <1>8 DEF Extensions, On
<1>13. allowed => uploads'[id].parts = meant
  BY <1>6 DEF TypeInv
<1> HIDE DEF allowed
<1>14. Outcome'
  BY <1>7, <1>12, <1>13 DEF Outcome, LocationServed, None
<1> QED BY <1>11, <1>14

LEMMA AccessOutcome ==
    ASSUME Mounted, TypeInv, Outcome, Access
    PROVE  TypeInv' /\ Outcome'
<1>1. PICK method \in Served \ {"POST"}, target \in Ids, slash \in {<<>>, Slash} :
        LET route == Route(method, Location(target) \o slash)
            deleted == /\ route.handler = "DelFile" /\ route.id \in Ids
                       /\ uploads[route.id].state = "live"
        IN /\ uploads[target].state # "free"
           /\ uploads' = IF deleted THEN [uploads EXCEPT ![route.id].state = "gone"]
                         ELSE uploads
           /\ last' = [Nothing EXCEPT !.method = method, !.target = target,
                         !.handler = route.handler, !.id = route.id,
                         !.extension = IF method = "DELETE" THEN "termination" ELSE None,
                         !.granted = route.handler = "DelFile"]
  BY DEF Access
<1> DEFINE route == Route(method, Location(target) \o slash)
<1>2. route = IF Routable(target) THEN ResourceRoute(method, target) ELSE NoRoute
  BY LocationLeadsBack DEF TypeInv
<1> HIDE DEF route
<1>3. /\ uploads' \in {uploads, [uploads EXCEPT ![route.id].state = "gone"]}
      /\ uploads' # uploads => route.id \in Ids
      /\ last' = [Nothing EXCEPT !.method = method, !.target = target,
                    !.handler = route.handler, !.id = route.id,
                    !.extension = IF method = "DELETE" THEN "termination" ELSE None,
                    !.granted = route.handler = "DelFile"]
  BY <1>1 DEF route
<1>4. /\ last'.method = method /\ last'.target = target
      /\ last'.handler = route.handler /\ last'.id = route.id
      /\ last'.extension = (IF method = "DELETE" THEN "termination" ELSE None)
      /\ last'.granted = (route.handler = "DelFile")
  BY <1>3 DEF Nothing
<1>4a. method \in Methods
  BY <1>1 DEF Served, Request
<1>5. UNCHANGED <<config, advertised>>
  BY DEF Access
<1>6. route.id \in Ids \cup {NoId}
  BY <1>2 DEF ResourceRoute, NoRoute
<1>7. uploads' \in [Ids -> Stored]
  BY <1>3 DEF TypeInv, Stored
<1>8. TypeInv'
  BY <1>4, <1>4a, <1>5, <1>6, <1>7 DEF TypeInv, Deployed, Extensions, On
<1>9. "termination" \in Extensions' <=> On("terminater") /\ ~On("disableTermination")
  BY <1>5 DEF Extensions, On
<1>10. Routable(target)' <=> Routable(target)
  BY <1>5 DEF Routable
<1>11. /\ Routable(target) => route.id = target /\ route.handler = ResourceHandler(method)
       /\ ~Routable(target) => route.handler = None
  BY <1>2 DEF ResourceRoute, NoRoute
<1>12. LocationServed'
  <2>1. /\ method \in {"HEAD", "PATCH"} => ResourceHandler(method) # None
        /\ method = "GET" => (ResourceHandler(method) # None <=> ~On("disableDownload"))
    BY DEF ResourceHandler, None
  <2>2. On("disableDownload")' <=> On("disableDownload")
    BY <1>5 DEF On
  <2>3. last'.handler # None => Routable(target) /\ last'.id = target
    BY <1>4, <1>11
  <2>4. Routable(target) => last'.handler = ResourceHandler(method)
    BY <1>4, <1>11
  <2>5. Routable(last.target)' <=> Routable(target)
    BY <1>4, <1>5 DEF Routable
  <2> QED BY <1>4, <2>1, <2>2, <2>3, <2>4, <2>5 DEF LocationServed
<1>13. ASSUME last'.extension # None, last'.target = NoId \/ Routable(last.target)'
       PROVE  last'.granted <=> last'.extension \in Extensions'
  <2>1. method = "DELETE" /\ last'.extension = "termination"
    BY <1>4, <1>13
  <2>2. Routable(target)
    <3>1. target # NoId
      BY SymbolFacts DEF NoId
    <3> QED BY <1>4, <1>5, <1>13, <3>1 DEF Routable
  <2>3. ResourceHandler("DELETE") = "DelFile" <=> On("terminater") /\ ~On("disableTermination")
    BY DEF ResourceHandler, None
  <2>4. last'.granted <=> ResourceHandler("DELETE") = "DelFile"
    BY <1>4, <1>11, <2>1, <2>2
  <2> QED BY <1>9, <2>1, <2>3, <2>4
<1>14. last'.extension # "concatenation"
  BY <1>4 DEF None
<1> QED BY <1>8, <1>12, <1>13, <1>14 DEF Outcome

LEMMA StepProtocol ==
    ASSUME Mounted, TypeInv, Outcome, [Next]_vars
    PROVE  TypeInv' /\ Outcome'
<1>1. CASE UNCHANGED vars
  BY <1>1 DEF vars, TypeInv, Outcome, Deployed, Extensions, On, LocationServed, Routable
<1>2. CASE Next
  BY <1>2, TurnedAwayOutcome, DiscoverOutcome, CreateOutcome, CreateFinalOutcome, AccessOutcome
     DEF Next
<1> QED BY <1>1, <1>2

(* The inductive invariant: after every request, what it has left behind.    *)
THEOREM ProtocolInvariant ==
    ASSUME Mounted
    PROVE  Spec => [](TypeInv /\ Outcome)
<1>1. TypeInv /\ Outcome /\ [Next]_vars => TypeInv' /\ Outcome'
  BY StepProtocol
<1> QED BY <1>1, InitProtocol, PTL DEF Spec

(* The state keeps its types: parts are ids, announced extensions are those  *)
(* the source knows.                                                         *)
THEOREM ProtocolTypeCorrect ==
    ASSUME Mounted
    PROVE  Spec => []TypeOK
<1>1. TypeInv => TypeOK
  <2> SUFFICES ASSUME TypeInv PROVE TypeOK
    OBVIOUS
  <2>1. advertised \in (SUBSET Extension) \cup {Unasked}
    BY DEF TypeInv, Extensions, Extension
  <2>2. \A id \in Ids : /\ uploads[id].state \in {"free", "live", "gone"}
                        /\ \A i \in DOMAIN uploads[id].parts : uploads[id].parts[i] \in Ids
    <3>1. ASSUME NEW id \in Ids PROVE uploads[id].state \in {"free", "live", "gone"} /\ uploads[id].parts \in Seq(Ids)
      BY <3>1 DEF TypeInv, Stored
    <3>2. ASSUME NEW s \in Seq(Ids), NEW i \in DOMAIN s PROVE s[i] \in Ids
      BY <3>2
    <3> QED BY <3>1, <3>2
  <2> QED BY <2>1, <2>2 DEF TypeInv, TypeOK, Deployed
<1> QED BY <1>1, ProtocolInvariant, PTL

(* The Location of an upload, made from one copy of the base path, leads     *)
(* through the router, which has the other, to that upload's handlers, or    *)
(* nowhere if Register serves an id of several segments.                     *)
THEOREM LocationServedHolds ==
    ASSUME Mounted
    PROVE  Spec => []LocationServed
<1>1. Outcome => LocationServed
  BY DEF Outcome
<1> QED BY <1>1, ProtocolInvariant, PTL

(* extractIDFromURL undoes absFileURL: a final upload has the parts whose    *)
(* Locations the client listed, and reads its own list back.                 *)
THEOREM FinalNamesItsPartsHolds ==
    ASSUME Mounted
    PROVE  Spec => []FinalNamesItsParts
<1>1. ASSUME TypeInv, Outcome PROVE FinalNamesItsParts
  <2>1. ASSUME NEW parts \in Seq(Ids) PROVE ParseConcat(ConcatHeader(parts)) = parts
    <3> DEFINE list == ConcatHeader(parts)
    <3>1. DOMAIN list = DOMAIN parts /\ \A i \in DOMAIN parts : list[i] = Location(parts[i])
      BY DEF ConcatHeader
    <3>2. \A i \in DOMAIN parts : parts[i] \in Ids
      BY <2>1
    <3>3. \A i \in DOMAIN parts : ExtractID(list[i]) = parts[i]
      BY <1>1, <3>1, <3>2, ReferenceNames DEF TypeInv
    <3> HIDE DEF list
    <3>4. ParseConcat(list) = [i \in DOMAIN parts |-> parts[i]]
      BY <3>1, <3>3 DEF ParseConcat
    <3>5. parts = [i \in DOMAIN parts |-> parts[i]]
      BY <2>1
    <3> QED BY <3>4, <3>5 DEF list
  <2>2. \A id \in Ids : uploads[id].parts \in Seq(Ids)
    BY <1>1 DEF TypeInv, Stored
  <2> QED BY <1>1, <2>1, <2>2 DEF FinalNamesItsParts, Outcome
<1> QED BY <1>1, ProtocolInvariant, PTL

(* The extension list, put together at start, is what the routes and the     *)
(* handlers grant, whatever Config disables and the store can do.            *)
THEOREM AdvertisedServedHolds ==
    ASSUME Mounted
    PROVE  Spec => []AdvertisedServed
<1>1. TypeInv /\ Outcome => AdvertisedServed
  BY DEF TypeInv, Outcome, AdvertisedServed
<1> QED BY <1>1, ProtocolInvariant, PTL

(* Register and Middleware serve one URL space.                              *)
THEOREM RoutersAgreeHolds ==
    ASSUME Mounted
    PROVE  Spec => []RoutersAgree
<1>1. ASSUME TypeInv PROVE RoutersAgree
  <2> DEFINE path == TrimmedBase \o
                     (IF last.target = NoId THEN <<>> ELSE Slash \o last.target)
  <2> SUFFICES ASSUME Head(config.base) = "/"
               PROVE  (last.target # NoId => OneSegment(last.target)) =>
                      \A p \in {path, path \o Slash} :
                        RegisterRoute(last.method, p) = MiddlewareRoute(last.method, p)
    BY DEF RoutersAgree
  <2>1. Deployed /\ last.target \in Ids \cup {NoId}
    BY <1>1 DEF TypeInv
  <2>2. TrimmedBase = Root /\ Root \in Text /\ Root \o <<>> = Root
    BY <2>1, Paths, Pieces
  <2>3. CASE last.target = NoId
    <3>1. path = Root
      BY <2>2, <2>3
    <3> QED BY <2>1, <3>1, RegisterServes, MiddlewareServes
  <2>4. CASE last.target \in Ids /\ last.target # NoId
    <3>1. path = Under(last.target)
      BY <2>2, <2>4 DEF Under
    <3>2. Under(last.target) \o Slash = Under(last.target \o Slash)
      BY <2>1, <2>4, SymbolFacts, UnderRoot
    <3> HIDE DEF path
    <3> QED BY <2>1, <2>4, <3>1, <3>2, RegisterServes, MiddlewareServes
  <2> QED BY <2>1, <2>3, <2>4
<1> QED BY <1>1, ProtocolInvariant, PTL
=============================================================================
