----------------------------- MODULE FormatProofs -----------------------------
(***************************************************************************)
(* What the text formats on the way to the program do, for texts of any    *)
(* length over any characters: op run reads from the written env file the  *)
(* env it was written from, DotenvFile.parse reads from a user's file what *)
(* the file declares, and OpRunner.parseOutput takes from op inject's      *)
(* output the values of the references.                                    *)
(*                                                                         *)
(* The model computes these by recursive functions and by FlattenSeq.  An  *)
(* induction over texts is stated on a set of texts, as the provers cannot *)
(* instantiate a predicate (TextInduction); each recursive function is     *)
(* unfolded once at either end, and everything else is algebra: Text, One  *)
(* and ++ hide the sequences from the provers, FlatMap is the one way in   *)
(* which a text is made from a text.                                       *)
(***************************************************************************)
EXTENDS Dotenv, InjectTemplate, SequenceTheorems, FiniteSetTheorems, TLAPS

(* Induction over numbers and texts, and FlattenSeq. *)

LEMMA LeastNumber ==
    ASSUME NEW N, N \subseteq Nat, N # {}
    PROVE  \E n \in N : \A m \in N : n <= m
  <1>1. PICK R : R = OpToRel(<, Nat)
    OBVIOUS
  <1>2. \E n \in N : \A m \in N : <<m, n>> \notin R
    <2>1. IsWellFoundedOn(R, Nat)
      BY <1>1, NatLessThanWellFounded
    <2> QED
      BY <2>1, WFMin
  <1>3. PICK n \in N : \A m \in N : <<m, n>> \notin R
    BY <1>2
  <1>4. \A m, k \in Nat : m < k => <<m, k>> \in R
    BY <1>1 DEF OpToRel
  <1>5. \A m \in N : ~(m < n) /\ m \in Nat /\ n \in Nat
    BY <1>3, <1>4
  <1> QED
    BY <1>5

LEMMA NumbersByInduction ==
    ASSUME NEW N, 0 \in N, \A n \in Nat : n \in N => n + 1 \in N
    PROVE  Nat \subseteq N
  <1> SUFFICES ASSUME Nat \ N # {} PROVE FALSE
    OBVIOUS
  <1>1. PICK n \in Nat \ N : \A m \in Nat \ N : n <= m
    BY LeastNumber
  <1>2. n # 0 /\ n - 1 \in Nat
    BY <1>1
  <1>3. n - 1 \in N
    BY <1>1, <1>2
  <1> QED
    BY <1>1, <1>2, <1>3

LEMMA TextsByInduction ==
    ASSUME NEW C, NEW T, <<>> \in T,
           \A t \in Seq(C), c \in C : t \in T => Append(t, c) \in T
    PROVE  Seq(C) \subseteq T
  <1> DEFINE N == {n \in Nat : \A t \in Seq(C) : Len(t) = n => t \in T}
  <1>1. 0 \in N
    <2>1. \A t \in Seq(C) : Len(t) = 0 => t = <<>>
      BY EmptySeq
    <2> QED
      BY <2>1
  <1>2. ASSUME NEW n \in Nat, n \in N
        PROVE  n + 1 \in N
    <2> SUFFICES ASSUME NEW t \in Seq(C), Len(t) = n + 1
                 PROVE  t \in T
      OBVIOUS
    <2>1. t # <<>>
      OBVIOUS
    <2>2. PICK s \in Seq(C), c \in C : t = Append(s, c)
      BY <2>1, SequenceEmptyOrAppend
    <2>3. Len(s) = n
      BY <2>2, AppendProperties
    <2> QED
      BY <1>2, <2>2, <2>3
  <1> HIDE DEF N
  <1>3. Nat \subseteq N
    BY <1>1, <1>2, NumbersByInduction
  <1> QED
    BY <1>3 DEF N

LEMMA TextsFromTheLeft ==
    ASSUME NEW C, NEW T, <<>> \in T,
           \A t \in Seq(C), c \in C : t \in T => <<c>> \o t \in T
    PROVE  Seq(C) \subseteq T
  <1> DEFINE N == {n \in Nat : \A t \in Seq(C) : Len(t) = n => t \in T}
  <1>1. 0 \in N
    <2>1. \A t \in Seq(C) : Len(t) = 0 => t = <<>>
      BY EmptySeq
    <2> QED
      BY <2>1
  <1>2. ASSUME NEW n \in Nat, n \in N
        PROVE  n + 1 \in N
    <2> SUFFICES ASSUME NEW t \in Seq(C), Len(t) = n + 1
                 PROVE  t \in T
      OBVIOUS
    <2>1. t # <<>>
      OBVIOUS
    <2>2. Head(t) \in C /\ Tail(t) \in Seq(C) /\ Len(Tail(t)) = n
      BY <2>1, HeadTailProperties
    <2>3. t = <<Head(t)>> \o Tail(t)
      BY <2>1, <2>2
    <2> QED
      BY <1>2, <2>2, <2>3
  <1> HIDE DEF N
  <1>3. Nat \subseteq N
    BY <1>1, <1>2, NumbersByInduction
  <1> QED
    BY <1>3 DEF N

Joined(seqs, f, n) ==
    f = [i \in 1..n |-> IF i = 1 THEN seqs[i] ELSE f[i - 1] \o seqs[i]]

LEMMA JoinedStep ==
    ASSUME NEW seqs, NEW n \in Nat, NEW f, Joined(seqs, f, n)
    PROVE  \E g : Joined(seqs, g, n + 1)
  <1> DEFINE next == IF n = 0 THEN seqs[1] ELSE f[n] \o seqs[n + 1]
             g == [i \in 1..n + 1 |-> IF i = n + 1 THEN next ELSE f[i]]
  <1>1. \A i \in 1..n : f[i] = IF i = 1 THEN seqs[i] ELSE f[i - 1] \o seqs[i]
    BY DEF Joined
  <1>2. ASSUME NEW i \in 1..n + 1
        PROVE  g[i] = IF i = 1 THEN seqs[i] ELSE g[i - 1] \o seqs[i]
    <2>1. CASE i = n + 1
      <3>1. g[i] = next
        BY <2>1
      <3>2. n # 0 => g[i - 1] = f[n]
        BY <2>1
      <3> QED
        BY <2>1, <3>1, <3>2
    <2>2. CASE i # n + 1
      <3>1. i \in 1..n
        BY <2>2
      <3>2. g[i] = f[i]
        BY <3>1
      <3>3. i # 1 => g[i - 1] = f[i - 1]
        BY <3>1
      <3> QED
        BY <1>1, <3>1, <3>2, <3>3
    <2> QED
      BY <2>1, <2>2
  <1>3. g = [i \in 1..n + 1 |-> g[i]]
    OBVIOUS
  <1> HIDE DEF g
  <1>4. Joined(seqs, g, n + 1)
    BY <1>2, <1>3 DEF Joined
  <1> QED
    BY <1>4

LEMMA JoinedExists ==
    ASSUME NEW seqs, NEW n \in Nat
    PROVE  \E f : Joined(seqs, f, n)
  <1> DEFINE N == {k \in Nat : \E f : Joined(seqs, f, k)}
  <1>1. 0 \in N
    <2> DEFINE g == [i \in 1..0 |-> seqs[i]]
    <2>1. Joined(seqs, g, 0)
      BY DEF Joined
    <2> QED
      BY <2>1
  <1>2. \A k \in Nat : k \in N => k + 1 \in N
    BY JoinedStep
  <1> HIDE DEF N
  <1>3. n \in N
    BY <1>1, <1>2, NumbersByInduction
  <1> QED
    BY <1>3 DEF N

LEMMA FlattenIsJoined ==
    ASSUME NEW C, NEW seqs \in Seq(C), seqs # <<>>
    PROVE  \E f : Joined(seqs, f, Len(seqs)) /\ FlattenSeq(seqs) = f[Len(seqs)]
  <1> DEFINE f == CHOOSE f : f = [i \in 1..Len(seqs) |->
                                     IF i = 1 THEN seqs[i] ELSE f[i - 1] \o seqs[i]]
  <1>1. Joined(seqs, f, Len(seqs))
    <2>1. \E g : Joined(seqs, g, Len(seqs))
      BY JoinedExists, LenProperties
    <2>2. \E g : g = [i \in 1..Len(seqs) |-> IF i = 1 THEN seqs[i] ELSE g[i - 1] \o seqs[i]]
      BY <2>1 DEF Joined
    <2> QED
      BY <2>2 DEF Joined
  <1>2. FlattenSeq(seqs) = f[Len(seqs)]
    BY DEF FlattenSeq
  <1> QED
    BY <1>1, <1>2

LEMMA FlattenNothing == FlattenSeq(<<>>) = <<>>
  BY DEF FlattenSeq

LEMMA FlattenAppend ==
    ASSUME NEW C, NEW seqs \in Seq(Seq(C)), NEW last \in Seq(C)
    PROVE  FlattenSeq(Append(seqs, last)) = FlattenSeq(seqs) \o last
  <1> DEFINE more == Append(seqs, last)
  <1>1. /\ more \in Seq(Seq(C)) /\ more # <<>> /\ Len(more) = Len(seqs) + 1
        /\ Len(seqs) \in Nat /\ more[Len(more)] = last
        /\ \A i \in 1..Len(seqs) : more[i] = seqs[i]
    BY AppendProperties
  <1> HIDE DEF more
  <1>2. PICK g : Joined(more, g, Len(more)) /\ FlattenSeq(more) = g[Len(more)]
    BY <1>1, FlattenIsJoined
  <1>3. \A i \in 1..Len(more) : g[i] = IF i = 1 THEN more[i] ELSE g[i - 1] \o more[i]
    BY <1>2 DEF Joined
  <1>4. CASE seqs = <<>>
    <2>1. Len(more) = 1
      BY <1>1, <1>4
    <2>2. g[1] = more[1] /\ more[1] = last
      BY <1>1, <1>3, <2>1
    <2>3. FlattenSeq(more) = last
      BY <1>2, <2>1, <2>2
    <2> QED
      BY <1>4, <2>3, FlattenNothing, ConcatEmptySeq DEF more
  <1>5. CASE seqs # <<>>
    <2>1. PICK f : Joined(seqs, f, Len(seqs)) /\ FlattenSeq(seqs) = f[Len(seqs)]
      BY <1>5, FlattenIsJoined
    <2>2. \A i \in 1..Len(seqs) : f[i] = IF i = 1 THEN seqs[i] ELSE f[i - 1] \o seqs[i]
      BY <2>1 DEF Joined
    <2> DEFINE N == {n \in Nat : n \in 1..Len(seqs) => f[n] = g[n]}
    <2>3. 0 \in N
      OBVIOUS
    <2>4. ASSUME NEW n \in Nat, n \in N
          PROVE  n + 1 \in N
      <3> SUFFICES ASSUME n + 1 \in 1..Len(seqs)
                   PROVE  f[n + 1] = g[n + 1]
        OBVIOUS
      <3>1. /\ f[n + 1] = IF n + 1 = 1 THEN seqs[n + 1] ELSE f[n] \o seqs[n + 1]
            /\ g[n + 1] = IF n + 1 = 1 THEN seqs[n + 1] ELSE g[n] \o seqs[n + 1]
        BY <1>1, <1>3, <2>2
      <3> QED
        BY <2>4, <3>1
    <2> HIDE DEF N
    <2>6. Len(seqs) \in N
      BY <2>3, <2>4, <1>1, NumbersByInduction
    <2>7. f[Len(seqs)] = g[Len(seqs)]
      BY <1>5, <1>1, <2>6 DEF N
    <2>8. g[Len(more)] = g[Len(seqs)] \o last
      <3>1. Len(seqs) # 0
        BY <1>5, EmptySeq
      <3>2. Len(more) \in 1..Len(more) /\ Len(more) # 1 /\ Len(more) - 1 = Len(seqs)
        BY <1>1, <3>1
      <3> QED
        BY <1>1, <1>3, <3>2
    <2> QED
      BY <1>2, <2>1, <2>7, <2>8 DEF more
  <1> QED
    BY <1>4, <1>5

LEMMA SeqFlattenType ==
    ASSUME NEW C, NEW seqs \in Seq(Seq(C))
    PROVE  FlattenSeq(seqs) \in Seq(C)
  <1> DEFINE T == {t \in Seq(Seq(C)) : FlattenSeq(t) \in Seq(C)}
  <1>1. <<>> \in T
    BY FlattenNothing, EmptySeq
  <1>2. \A t \in Seq(Seq(C)), c \in Seq(C) : t \in T => Append(t, c) \in T
    BY FlattenAppend, AppendProperties, ConcatProperties
  <1> HIDE DEF T
  <1>3. seqs \in T
    BY <1>1, <1>2, TextsByInduction
  <1> QED
    BY <1>3 DEF T

LEMMA Associative ==
    ASSUME NEW C, NEW s \in Seq(C), NEW t \in Seq(C), NEW u \in Seq(C)
    PROVE  (s \o t) \o u = s \o (t \o u)
  OBVIOUS

LEMMA SeqFlattenConcat ==
    ASSUME NEW C, NEW seqs \in Seq(Seq(C)), NEW others \in Seq(Seq(C))
    PROVE  FlattenSeq(seqs \o others) = FlattenSeq(seqs) \o FlattenSeq(others)
  <1> DEFINE T == {t \in Seq(Seq(C)) : FlattenSeq(seqs \o t) = FlattenSeq(seqs) \o FlattenSeq(t)}
  <1>1. <<>> \in T
    BY FlattenNothing, SeqFlattenType, ConcatEmptySeq
  <1>2. ASSUME NEW t \in Seq(Seq(C)), NEW c \in Seq(C), t \in T
        PROVE  Append(t, c) \in T
    <2>1. seqs \o Append(t, c) = Append(seqs \o t, c) /\ Append(t, c) \in Seq(Seq(C))
      OBVIOUS
    <2>2. /\ FlattenSeq(Append(seqs \o t, c)) = FlattenSeq(seqs \o t) \o c
          /\ FlattenSeq(Append(t, c)) = FlattenSeq(t) \o c
      BY FlattenAppend, ConcatProperties
    <2>3. (FlattenSeq(seqs) \o FlattenSeq(t)) \o c = FlattenSeq(seqs) \o (FlattenSeq(t) \o c)
      <3>1. FlattenSeq(seqs) \in Seq(C) /\ FlattenSeq(t) \in Seq(C)
        BY SeqFlattenType
      <3> QED
        BY <3>1, Associative, SMTT(30)
    <2> QED
      BY <1>2, <2>1, <2>2, <2>3
  <1> HIDE DEF T
  <1>3. others \in T
    BY <1>1, <1>2, TextsByInduction
  <1> QED
    BY <1>3 DEF T

LEMMA SeqFlattenOne ==
    ASSUME NEW C, NEW text \in Seq(C)
    PROVE  FlattenSeq(<<text>>) = text
  <1>1. <<text>> = Append(<<>>, text) /\ <<>> \in Seq(Seq(C))
    OBVIOUS
  <1>2. FlattenSeq(Append(<<>>, text)) = <<>> \o text
    BY <1>1, FlattenAppend, FlattenNothing
  <1> QED
    BY <1>1, <1>2, ConcatEmptySeq

-----------------------------------------------------------------------------
(* Texts as an algebra: the provers know of it what the lemmas below say. *)
Text(C) == Seq(C)
One(c) == <<c>>
s ++ t == s \o t

LEMMA NothingType ==
    ASSUME NEW C
    PROVE  <<>> \in Text(C)
  BY DEF Text

LEMMA OneType ==
    ASSUME NEW C, NEW c \in C
    PROVE  One(c) \in Text(C)
  BY DEF Text, One

LEMMA CatType ==
    ASSUME NEW C, NEW s \in Text(C), NEW t \in Text(C)
    PROVE  s ++ t \in Text(C)
  BY ConcatProperties DEF ++, Text

LEMMA CatAssoc ==
    ASSUME NEW C, NEW s \in Text(C), NEW t \in Text(C), NEW u \in Text(C)
    PROVE  (s ++ t) ++ u = s ++ (t ++ u)
  BY ConcatAssociative DEF ++, Text

LEMMA CatNothing ==
    ASSUME NEW C, NEW s \in Text(C)
    PROVE  s ++ <<>> = s
  BY ConcatEmptySeq DEF ++, Text

LEMMA NothingCat ==
    ASSUME NEW C, NEW s \in Text(C)
    PROVE  <<>> ++ s = s
  BY ConcatEmptySeq DEF ++, Text

LEMMA CatLen ==
    ASSUME NEW C, NEW s \in Text(C), NEW t \in Text(C)
    PROVE  Len(s ++ t) = Len(s) + Len(t)
  BY ConcatProperties DEF ++, Text

LEMMA TextLen ==
    ASSUME NEW C, NEW s \in Text(C)
    PROVE  Len(s) \in Nat
  BY LenProperties DEF Text

LEMMA CatIndex ==
    ASSUME NEW C, NEW s \in Text(C), NEW t \in Text(C)
    PROVE  /\ \A i \in 1..Len(s) : (s ++ t)[i] = s[i]
           /\ \A i \in 1..Len(t) : (s ++ t)[Len(s) + i] = t[i]
  BY ConcatProperties, LenProperties DEF ++, Text

LEMMA CatLeft ==
    ASSUME NEW C, NEW s \in Text(C), NEW t \in Text(C), NEW i \in 1..Len(s)
    PROVE  (s ++ t)[i] = s[i]
  BY CatIndex

LEMMA CatRight ==
    ASSUME NEW C, NEW s \in Text(C), NEW t \in Text(C), NEW i \in 1..Len(t)
    PROVE  (s ++ t)[Len(s) + i] = t[i]
  BY CatIndex

LEMMA TextEqual ==
    ASSUME NEW C, NEW s \in Text(C), NEW t \in Text(C),
           Len(s) = Len(t), \A i \in 1..Len(s) : s[i] = t[i]
    PROVE  s = t
  BY SeqEqual DEF Text

LEMMA PairIsCat ==
    ASSUME NEW C, NEW x \in C, NEW y \in C
    PROVE  <<x, y>> = One(x) ++ One(y)
  <1> DEFINE s == <<x>> \o <<y>>
             t == <<x, y>>
  <1>1. <<x>> \in Seq(C) /\ <<y>> \in Seq(C)
    OBVIOUS
  <1>2. s \in Seq(C) /\ Len(s) = 2 /\ s[1] = x /\ s[2] = y
    BY <1>1
  <1>3. t \in Seq(C) /\ Len(t) = 2 /\ t[1] = x /\ t[2] = y
    OBVIOUS
  <1> HIDE DEF s, t
  <1>4. \A i \in 1..Len(s) : i = 1 \/ i = 2
    BY <1>2
  <1>5. s = t
    BY <1>2, <1>3, <1>4, SeqEqual
  <1> QED
    BY <1>5 DEF s, t, ++, One

LEMMA TextInduction ==
    ASSUME NEW C, NEW T, <<>> \in T,
           \A t \in Text(C), c \in C : t \in T => One(c) ++ t \in T
    PROVE  Text(C) \subseteq T
  BY TextsFromTheLeft DEF Text, One, ++

LEMMA FlattenType ==
    ASSUME NEW C, NEW seqs \in Text(Text(C))
    PROVE  FlattenSeq(seqs) \in Text(C)
  BY SeqFlattenType DEF Text

LEMMA FlattenCat ==
    ASSUME NEW C, NEW seqs \in Text(Text(C)), NEW others \in Text(Text(C))
    PROVE  FlattenSeq(seqs ++ others) = FlattenSeq(seqs) ++ FlattenSeq(others)
  BY SeqFlattenConcat DEF ++, Text

LEMMA FlattenOne ==
    ASSUME NEW C, NEW text \in Text(C)
    PROVE  FlattenSeq(One(text)) = text
  BY SeqFlattenOne DEF One, Text

-----------------------------------------------------------------------------
(* f gives a text over D for every element of C. *)
Texts(f, C, D) == \A c \in C : f[c] \in Text(D)

Mapped(f, text) == [i \in DOMAIN text |-> f[text[i]]]
FlatMap(f, text) == FlattenSeq(Mapped(f, text))

LEMMA MappedType ==
    ASSUME NEW C, NEW D, NEW f, Texts(f, C, D), NEW text \in Text(C)
    PROVE  Mapped(f, text) \in Text(Text(D))
  <1>1. DOMAIN text = 1..Len(text) /\ Len(text) \in Nat
    BY LenProperties DEF Text
  <1>2. \A i \in 1..Len(text) : f[text[i]] \in Text(D)
    BY ElementOfSeq DEF Texts, Text
  <1> QED
    BY <1>1, <1>2 DEF Mapped, Text

LEMMA MappedIndex ==
    ASSUME NEW C, NEW f, NEW text \in Text(C)
    PROVE  /\ Len(Mapped(f, text)) = Len(text)
           /\ \A i \in 1..Len(text) : Mapped(f, text)[i] = f[text[i]]
  <1>1. DOMAIN text = 1..Len(text) /\ Len(text) \in Nat
    BY LenProperties DEF Text
  <1> QED
    BY <1>1 DEF Mapped

LEMMA FlatMapType ==
    ASSUME NEW C, NEW D, NEW f, Texts(f, C, D), NEW text \in Text(C)
    PROVE  FlatMap(f, text) \in Text(D)
  <1>1. Mapped(f, text) \in Text(Text(D))
    BY MappedType
  <1> QED
    BY <1>1, FlattenType DEF FlatMap

LEMMA FlatMapNothing ==
    ASSUME NEW f
    PROVE  FlatMap(f, <<>>) = <<>>
  <1>1. Mapped(f, <<>>) = <<>>
    BY DEF Mapped
  <1> QED
    BY <1>1, FlattenNothing DEF FlatMap

LEMMA FlatMapOne ==
    ASSUME NEW C, NEW D, NEW f, Texts(f, C, D), NEW c \in C
    PROVE  FlatMap(f, One(c)) = f[c]
  <1>1. Mapped(f, One(c)) = One(f[c])
    BY DEF Mapped, One
  <1>2. f[c] \in Text(D)
    BY DEF Texts
  <1> QED
    BY <1>1, <1>2, FlattenOne DEF FlatMap

LEMMA MappedCat ==
    ASSUME NEW C, NEW D, NEW f, Texts(f, C, D), NEW s \in Text(C), NEW t \in Text(C)
    PROVE  Mapped(f, s ++ t) = Mapped(f, s) ++ Mapped(f, t)
  <1>1. PICK whole : whole = s ++ t
    OBVIOUS
  <1>2. PICK a, b, c : a = Mapped(f, s) /\ b = Mapped(f, t) /\ c = Mapped(f, whole)
    OBVIOUS
  <1>3. PICK both : both = a ++ b
    OBVIOUS
  <1>4. whole \in Text(C)
    BY <1>1, CatType
  <1>5. a \in Text(Text(D)) /\ b \in Text(Text(D)) /\ c \in Text(Text(D))
    BY <1>2, <1>4, MappedType
  <1>6. both \in Text(Text(D))
    BY <1>3, <1>5, CatType
  <1>7. Len(a) = Len(s) /\ Len(b) = Len(t) /\ Len(c) = Len(whole)
    BY <1>2, <1>4, MappedIndex
  <1>8. Len(whole) = Len(s) + Len(t) /\ Len(both) = Len(a) + Len(b)
    BY <1>1, <1>3, <1>5, CatLen
  <1>9. Len(s) \in Nat /\ Len(t) \in Nat
    BY TextLen
  <1>10. ASSUME NEW i \in 1..Len(s)
         PROVE  c[i] = both[i]
    <2>1. whole[i] = s[i]
      BY <1>1, CatIndex
    <2>2. a[i] = f[s[i]]
      BY <1>2, MappedIndex
    <2>3. both[i] = a[i]
      BY <1>3, <1>5, <1>7, CatIndex
    <2>4. i \in 1..Len(whole)
      BY <1>8, <1>9
    <2>5. c[i] = f[whole[i]]
      BY <1>2, <1>4, <2>4, MappedIndex
    <2> QED
      BY <2>1, <2>2, <2>3, <2>5
  <1>11. ASSUME NEW j \in 1..Len(t)
         PROVE  c[Len(s) + j] = both[Len(s) + j]
    <2>1. whole[Len(s) + j] = t[j]
      BY <1>1, CatIndex
    <2>2. b[j] = f[t[j]]
      BY <1>2, MappedIndex
    <2>3. both[Len(a) + j] = b[j]
      <3>1. j \in 1..Len(b)
        BY <1>7
      <3> QED
        BY <1>3, <1>5, <3>1, CatIndex
    <2>4. Len(s) + j \in 1..Len(whole)
      BY <1>8, <1>9
    <2>5. c[Len(s) + j] = f[whole[Len(s) + j]]
      BY <1>2, <1>4, <2>4, MappedIndex
    <2> QED
      BY <1>7, <2>1, <2>2, <2>3, <2>5
  <1>12. ASSUME NEW i \in 1..Len(c)
         PROVE  c[i] = both[i]
    <2>1. i \in 1..Len(s) \/ \E j \in 1..Len(t) : i = Len(s) + j
      <3>1. CASE i <= Len(s)
        BY <1>9, <3>1
      <3>2. CASE ~(i <= Len(s))
        <4>1. i - Len(s) \in 1..Len(t) /\ i = Len(s) + (i - Len(s))
          BY <1>7, <1>8, <1>9, <3>2
        <4> QED
          BY <4>1
      <3> QED
        BY <3>1, <3>2
    <2> QED
      BY <1>10, <1>11, <2>1
  <1>13. Len(c) = Len(both)
    BY <1>7, <1>8
  <1>14. c = both
    BY <1>5, <1>6, <1>12, <1>13, TextEqual
  <1> QED
    BY <1>1, <1>2, <1>3, <1>14

LEMMA FlatMapCat ==
    ASSUME NEW C, NEW D, NEW f, Texts(f, C, D), NEW s \in Text(C), NEW t \in Text(C)
    PROVE  FlatMap(f, s ++ t) = FlatMap(f, s) ++ FlatMap(f, t)
  <1>1. Mapped(f, s) \in Text(Text(D)) /\ Mapped(f, t) \in Text(Text(D))
    BY MappedType
  <1>2. Mapped(f, s ++ t) = Mapped(f, s) ++ Mapped(f, t)
    BY MappedCat
  <1> QED
    BY <1>1, <1>2, FlattenCat DEF FlatMap

LEMMA FlatMapCons ==
    ASSUME NEW C, NEW D, NEW f, Texts(f, C, D), NEW c \in C, NEW t \in Text(C)
    PROVE  FlatMap(f, One(c) ++ t) = f[c] ++ FlatMap(f, t)
  <1>1. FlatMap(f, One(c) ++ t) = FlatMap(f, One(c)) ++ FlatMap(f, t)
    BY OneType, FlatMapCat
  <1> QED
    BY <1>1, FlatMapOne

-----------------------------------------------------------------------------
(* Replaced *)

(* c can give way to by in a text over C. *)
Replaces(C, c, by) == by \in Text(C)

Replacement(C, c, by) == [x \in C |-> IF x = c THEN by ELSE One(x)]

LEMMA ReplacementTexts ==
    ASSUME NEW C, NEW c, NEW by, Replaces(C, c, by)
    PROVE  Texts(Replacement(C, c, by), C, C)
  BY OneType DEF Replacement, Replaces, Texts

LEMMA ReplacedIsFlatMap ==
    ASSUME NEW C, NEW c, NEW by, Replaces(C, c, by), NEW text \in Text(C)
    PROVE  Replaced(text, c, by) = FlatMap(Replacement(C, c, by), text)
  <1>1. DOMAIN text = 1..Len(text) /\ \A i \in 1..Len(text) : text[i] \in C
    BY LenProperties, ElementOfSeq DEF Text
  <1>2. [i \in DOMAIN text |-> IF text[i] = c THEN by ELSE <<text[i]>>]
            = Mapped(Replacement(C, c, by), text)
    BY <1>1 DEF Replacement, Mapped, One
  <1> QED
    BY <1>2 DEF Replaced, FlatMap

LEMMA ReplacedType ==
    ASSUME NEW C, NEW c, NEW by, Replaces(C, c, by), NEW text \in Text(C)
    PROVE  Replaced(text, c, by) \in Text(C)
  BY ReplacedIsFlatMap, ReplacementTexts, FlatMapType

LEMMA ReplacedCat ==
    ASSUME NEW C, NEW c, NEW by, Replaces(C, c, by), NEW s \in Text(C), NEW t \in Text(C)
    PROVE  Replaced(s ++ t, c, by) = Replaced(s, c, by) ++ Replaced(t, c, by)
  <1>1. PICK f : f = Replacement(C, c, by) /\ Texts(f, C, C)
    BY ReplacementTexts
  <1>2. PICK whole : whole = s ++ t /\ whole \in Text(C)
    BY CatType
  <1>3. FlatMap(f, whole) = FlatMap(f, s) ++ FlatMap(f, t)
    BY <1>1, <1>2, FlatMapCat
  <1>4. /\ Replaced(s, c, by) = FlatMap(f, s)
        /\ Replaced(t, c, by) = FlatMap(f, t)
        /\ Replaced(whole, c, by) = FlatMap(f, whole)
    BY <1>1, <1>2, ReplacedIsFlatMap
  <1> QED
    BY <1>2, <1>3, <1>4

LEMMA ReplacedOne ==
    ASSUME NEW C, NEW c, NEW by, Replaces(C, c, by), NEW x \in C
    PROVE  Replaced(One(x), c, by) = IF x = c THEN by ELSE One(x)
  <1>1. PICK f : f = Replacement(C, c, by) /\ Texts(f, C, C)
    BY ReplacementTexts
  <1>2. f[x] = IF x = c THEN by ELSE One(x)
    BY <1>1 DEF Replacement
  <1>3. Replaced(One(x), c, by) = FlatMap(f, One(x))
    BY <1>1, OneType, ReplacedIsFlatMap
  <1>4. FlatMap(f, One(x)) = f[x]
    BY <1>1, FlatMapOne
  <1> QED
    BY <1>2, <1>3, <1>4

LEMMA ReplacedTwo ==
    ASSUME NEW C, NEW c, NEW by, Replaces(C, c, by), NEW x \in C, NEW y \in C, x # c, y # c
    PROVE  Replaced(One(x) ++ One(y), c, by) = One(x) ++ One(y)
  <1>1. Replaced(One(x) ++ One(y), c, by) = Replaced(One(x), c, by) ++ Replaced(One(y), c, by)
    BY OneType, ReplacedCat
  <1>2. Replaced(One(x), c, by) = One(x) /\ Replaced(One(y), c, by) = One(y)
    BY ReplacedOne
  <1> QED
    BY <1>1, <1>2

LEMMA ReplacedNothing ==
    ASSUME NEW c, NEW by
    PROVE  Replaced(<<>>, c, by) = <<>>
  <1>1. [i \in DOMAIN <<>> |-> IF <<>>[i] = c THEN by ELSE << <<>>[i] >>] = <<>>
    OBVIOUS
  <1> QED
    BY <1>1, FlattenNothing DEF Replaced

-----------------------------------------------------------------------------
(* Escaped *)

Marks == {"\\", Quote, "$", "\n", "\r", "n", "r"}

Pair(c) == One("\\") ++ One(c)

EscapeOf(c) ==
    IF c \in {"\\", Quote, "$"} THEN Pair(c)
    ELSE IF c = "\n" THEN Pair("n") ELSE IF c = "\r" THEN Pair("r") ELSE One(c)

LEMMA EscapedNothing == Escaped(<<>>) = <<>>
  BY ReplacedNothing DEF Escaped, EscapedQuotes, EscapedRest

LEMMA EscapePairs ==
    ASSUME NEW c
    PROVE  Pair(c) = <<"\\", c>>
  <1>1. Pair(c) = One("\\") ++ One(c)
    BY DEF Pair
  <1>2. "\\" \in {"\\", c} /\ c \in {"\\", c}
    OBVIOUS
  <1> QED
    BY <1>1, <1>2, PairIsCat

LEMMA Escapes ==
    ASSUME NEW C, Marks \subseteq C
    PROVE  /\ Replaces(C, "\\", Pair("\\")) /\ Replaces(C, Quote, Pair(Quote))
           /\ Replaces(C, "$", Pair("$")) /\ Replaces(C, "\n", Pair("n"))
           /\ Replaces(C, "\r", Pair("r"))
  <1>1. ASSUME NEW c \in C
        PROVE  Pair(c) \in Text(C)
    <2>1. "\\" \in C
      BY DEF Marks
    <2> QED
      BY <2>1, OneType, CatType DEF Pair
  <1> QED
    BY <1>1 DEF Replaces, Marks

LEMMA EscapedSteps ==
    ASSUME NEW v
    PROVE  Escaped(v) =
               Replaced(Replaced(Replaced(Replaced(Replaced(v, "\\", Pair("\\")),
                   Quote, Pair(Quote)), "$", Pair("$")), "\n", Pair("n")), "\r", Pair("r"))
  BY EscapePairs DEF Escaped, EscapedQuotes, EscapedRest

LEMMA EscapedType ==
    ASSUME NEW C, Marks \subseteq C, NEW v \in Text(C)
    PROVE  Escaped(v) \in Text(C)
  <1>1. /\ Replaces(C, "\\", Pair("\\")) /\ Replaces(C, Quote, Pair(Quote))
        /\ Replaces(C, "$", Pair("$")) /\ Replaces(C, "\n", Pair("n"))
        /\ Replaces(C, "\r", Pair("r"))
    BY Escapes
  <1>2. PICK b : b = Replaced(v, "\\", Pair("\\")) /\ b \in Text(C)
    BY <1>1, ReplacedType
  <1>3. PICK q : q = Replaced(b, Quote, Pair(Quote)) /\ q \in Text(C)
    BY <1>1, <1>2, ReplacedType
  <1>4. PICK d : d = Replaced(q, "$", Pair("$")) /\ d \in Text(C)
    BY <1>1, <1>3, ReplacedType
  <1>5. PICK n : n = Replaced(d, "\n", Pair("n")) /\ n \in Text(C)
    BY <1>1, <1>4, ReplacedType
  <1>6. Replaced(n, "\r", Pair("r")) \in Text(C)
    BY <1>1, <1>5, ReplacedType
  <1> QED
    BY <1>2, <1>3, <1>4, <1>5, <1>6, EscapedSteps

LEMMA EscapedCat ==
    ASSUME NEW C, Marks \subseteq C, NEW s \in Text(C), NEW t \in Text(C)
    PROVE  Escaped(s ++ t) = Escaped(s) ++ Escaped(t)
  <1>1. Replaces(C, "\\", Pair("\\"))
    BY Escapes
  <1>2. Replaces(C, Quote, Pair(Quote))
    BY Escapes
  <1>3. Replaces(C, "$", Pair("$"))
    BY Escapes
  <1>4. Replaces(C, "\n", Pair("n"))
    BY Escapes
  <1>5. Replaces(C, "\r", Pair("r"))
    BY Escapes
  <1>6. PICK b1 \in Text(C) : b1 = Replaced(s, "\\", Pair("\\"))
    BY <1>1, ReplacedType
  <1>7. PICK b2 \in Text(C) : b2 = Replaced(t, "\\", Pair("\\"))
    BY <1>1, ReplacedType
  <1>8. Replaced(s ++ t, "\\", Pair("\\")) = b1 ++ b2
    BY <1>1, <1>6, <1>7, ReplacedCat
  <1>9. PICK q1 \in Text(C) : q1 = Replaced(b1, Quote, Pair(Quote))
    BY <1>2, ReplacedType
  <1>10. PICK q2 \in Text(C) : q2 = Replaced(b2, Quote, Pair(Quote))
    BY <1>2, ReplacedType
  <1>11. Replaced(b1 ++ b2, Quote, Pair(Quote)) = q1 ++ q2
    <2>1. Replaced(b1 ++ b2, Quote, Pair(Quote))
             = Replaced(b1, Quote, Pair(Quote)) ++ Replaced(b2, Quote, Pair(Quote))
      BY <1>2, ReplacedCat
    <2> QED
      BY <2>1, <1>9, <1>10
  <1>12. PICK d1 \in Text(C) : d1 = Replaced(q1, "$", Pair("$"))
    BY <1>3, ReplacedType
  <1>13. PICK d2 \in Text(C) : d2 = Replaced(q2, "$", Pair("$"))
    BY <1>3, ReplacedType
  <1>14. Replaced(q1 ++ q2, "$", Pair("$")) = d1 ++ d2
    BY <1>3, <1>12, <1>13, ReplacedCat
  <1>15. PICK n1 \in Text(C) : n1 = Replaced(d1, "\n", Pair("n"))
    BY <1>4, ReplacedType
  <1>16. PICK n2 \in Text(C) : n2 = Replaced(d2, "\n", Pair("n"))
    BY <1>4, ReplacedType
  <1>17. Replaced(d1 ++ d2, "\n", Pair("n")) = n1 ++ n2
    BY <1>4, <1>15, <1>16, ReplacedCat
  <1>18. Replaced(n1 ++ n2, "\r", Pair("r"))
             = Replaced(n1, "\r", Pair("r")) ++ Replaced(n2, "\r", Pair("r"))
    BY <1>5, ReplacedCat
  <1> QED
    BY <1>6, <1>7, <1>8, <1>9, <1>10, <1>11, <1>12, <1>13, <1>14, <1>15, <1>16, <1>17,
       <1>18, EscapedSteps

LEMMA EscapedOne ==
    ASSUME NEW C, Marks \subseteq C, NEW c \in C
    PROVE  Escaped(One(c)) = EscapeOf(c)
  <1>1. /\ Replaces(C, "\\", Pair("\\")) /\ Replaces(C, Quote, Pair(Quote))
        /\ Replaces(C, "$", Pair("$")) /\ Replaces(C, "\n", Pair("n"))
        /\ Replaces(C, "\r", Pair("r"))
    BY Escapes
  <1>2. "\\" \in C /\ Quote \in C /\ "$" \in C /\ "n" \in C /\ "r" \in C
    BY DEF Marks
  <1>3. PICK one : one = One(c)
    OBVIOUS
  <1>4. Replaced(one, "\\", Pair("\\")) = IF c = "\\" THEN Pair("\\") ELSE one
    BY <1>1, <1>3, ReplacedOne
  <1>5. Replaced(one, Quote, Pair(Quote)) = IF c = Quote THEN Pair(Quote) ELSE one
    BY <1>1, <1>3, ReplacedOne
  <1>6. Replaced(one, "$", Pair("$")) = IF c = "$" THEN Pair("$") ELSE one
    BY <1>1, <1>3, ReplacedOne
  <1>7. Replaced(one, "\n", Pair("n")) = IF c = "\n" THEN Pair("n") ELSE one
    BY <1>1, <1>3, ReplacedOne
  <1>8. Replaced(one, "\r", Pair("r")) = IF c = "\r" THEN Pair("r") ELSE one
    BY <1>1, <1>3, ReplacedOne
  <1>9. \A x \in C : x # Quote => Replaced(Pair(x), Quote, Pair(Quote)) = Pair(x)
    <2>1. Quote # "\\"
      BY DEF Quote
    <2> QED
      BY <1>1, <1>2, <2>1, ReplacedTwo DEF Pair
  <1>10. \A x \in C : x # "$" => Replaced(Pair(x), "$", Pair("$")) = Pair(x)
    BY <1>1, <1>2, ReplacedTwo DEF Pair
  <1>11. \A x \in C : x # "\n" => Replaced(Pair(x), "\n", Pair("n")) = Pair(x)
    BY <1>1, <1>2, ReplacedTwo DEF Pair
  <1>12. \A x \in C : x # "\r" => Replaced(Pair(x), "\r", Pair("r")) = Pair(x)
    BY <1>1, <1>2, ReplacedTwo DEF Pair
  <1>13. CASE c = "\\"
    <2>1. Replaced(one, "\\", Pair("\\")) = Pair(c)
      BY <1>4, <1>13
    <2>2. Replaced(Pair(c), Quote, Pair(Quote)) = Pair(c)
      BY <1>9, <1>13 DEF Quote
    <2>3. /\ Replaced(Pair(c), "$", Pair("$")) = Pair(c)
          /\ Replaced(Pair(c), "\n", Pair("n")) = Pair(c)
          /\ Replaced(Pair(c), "\r", Pair("r")) = Pair(c)
      BY <1>10, <1>11, <1>12, <1>13
    <2>4. EscapeOf(c) = Pair(c)
      BY <1>13 DEF EscapeOf
    <2> QED
      BY <1>3, <2>1, <2>2, <2>3, <2>4, EscapedSteps
  <1>14. CASE c = Quote
    <2>1. Replaced(one, "\\", Pair("\\")) = one /\ Replaced(one, Quote, Pair(Quote)) = Pair(c)
      BY <1>4, <1>5, <1>14 DEF Quote
    <2>2. /\ Replaced(Pair(c), "$", Pair("$")) = Pair(c)
          /\ Replaced(Pair(c), "\n", Pair("n")) = Pair(c)
          /\ Replaced(Pair(c), "\r", Pair("r")) = Pair(c)
      BY <1>10, <1>11, <1>12, <1>14 DEF Quote
    <2>3. EscapeOf(c) = Pair(c)
      BY <1>14 DEF EscapeOf
    <2> QED
      BY <1>3, <2>1, <2>2, <2>3, EscapedSteps
  <1>15. CASE c = "$"
    <2>1. Replaced(one, "\\", Pair("\\")) = one /\ Replaced(one, Quote, Pair(Quote)) = one
      BY <1>4, <1>5, <1>15 DEF Quote
    <2>2. /\ Replaced(one, "$", Pair("$")) = Pair(c)
          /\ Replaced(Pair(c), "\n", Pair("n")) = Pair(c)
          /\ Replaced(Pair(c), "\r", Pair("r")) = Pair(c)
      BY <1>6, <1>11, <1>12, <1>15
    <2>3. EscapeOf(c) = Pair(c)
      BY <1>15 DEF EscapeOf
    <2> QED
      BY <1>3, <2>1, <2>2, <2>3, EscapedSteps
  <1>16. CASE c = "\n"
    <2>1. Replaced(one, "\\", Pair("\\")) = one /\ Replaced(one, Quote, Pair(Quote)) = one
      BY <1>4, <1>5, <1>16 DEF Quote
    <2>2. /\ Replaced(one, "$", Pair("$")) = one
          /\ Replaced(one, "\n", Pair("n")) = Pair("n")
          /\ Replaced(Pair("n"), "\r", Pair("r")) = Pair("n")
      BY <1>2, <1>6, <1>7, <1>12, <1>16
    <2>3. EscapeOf(c) = Pair("n")
      BY <1>16 DEF EscapeOf, Quote
    <2> QED
      BY <1>3, <2>1, <2>2, <2>3, EscapedSteps
  <1>17. CASE c = "\r"
    <2>1. Replaced(one, "\\", Pair("\\")) = one /\ Replaced(one, Quote, Pair(Quote)) = one
      BY <1>4, <1>5, <1>17 DEF Quote
    <2>2. /\ Replaced(one, "$", Pair("$")) = one
          /\ Replaced(one, "\n", Pair("n")) = one
          /\ Replaced(one, "\r", Pair("r")) = Pair("r")
      BY <1>6, <1>7, <1>8, <1>17
    <2>3. EscapeOf(c) = Pair("r")
      BY <1>17 DEF EscapeOf, Quote
    <2> QED
      BY <1>3, <2>1, <2>2, <2>3, EscapedSteps
  <1>18. CASE c \notin {"\\", Quote, "$", "\n", "\r"}
    <2>1. Replaced(one, "\\", Pair("\\")) = one /\ Replaced(one, Quote, Pair(Quote)) = one
      BY <1>4, <1>5, <1>18
    <2>2. /\ Replaced(one, "$", Pair("$")) = one
          /\ Replaced(one, "\n", Pair("n")) = one
          /\ Replaced(one, "\r", Pair("r")) = one
      BY <1>6, <1>7, <1>8, <1>18
    <2>3. EscapeOf(c) = one
      BY <1>3, <1>18 DEF EscapeOf
    <2> QED
      BY <1>3, <2>1, <2>2, <2>3, EscapedSteps
  <1> QED
    BY <1>13, <1>14, <1>15, <1>16, <1>17, <1>18

(* Escaped goes character by character. *)
LEMMA EscapedCons ==
    ASSUME NEW C, Marks \subseteq C, NEW c \in C, NEW t \in Text(C)
    PROVE  Escaped(One(c) ++ t) = EscapeOf(c) ++ Escaped(t)
  <1>1. Escaped(One(c) ++ t) = Escaped(One(c)) ++ Escaped(t)
    BY OneType, EscapedCat
  <1> QED
    BY <1>1, EscapedOne

-----------------------------------------------------------------------------
(* Reading what was escaped. *)

(* What op run makes of the character behind a backslash, and of a bare one. *)
Behind(c) == CASE c = "n" -> "\n" [] c = "r" -> "\r" [] OTHER -> c
Bare(c) == IF c \in {"$", Quote} THEN "expanded" ELSE c

UnescapeStep(text, i, one, two) ==
    IF i > Len(text) THEN <<>>
    ELSE IF text[i] = "\\" /\ i < Len(text) THEN One(Behind(text[i + 1])) ++ two
    ELSE One(Bare(text[i])) ++ one

Unescapes(text, f) == f = [i \in 1..Len(text) + 1 |-> UnescapeStep(text, i, f[i + 1], f[i + 2])]

LEMMA UnescapedIsChosen ==
    ASSUME NEW text
    PROVE  Unescaped(text) = (CHOOSE f : Unescapes(text, f))[1]
  BY DEF Unescaped, Unescapes, UnescapeStep, One, ++, Behind, Bare

LEMMA UnescapesAt ==
    ASSUME NEW text, NEW f, Unescapes(text, f)
    PROVE  \A i \in 1..Len(text) + 1 : f[i] = UnescapeStep(text, i, f[i + 1], f[i + 2])
  BY DEF Unescapes

LEMMA UnescapesDomain ==
    ASSUME NEW text, NEW f, Unescapes(text, f)
    PROVE  DOMAIN f = 1..Len(text) + 1 /\ f = [i \in 1..Len(text) + 1 |-> f[i]]
  BY DEF Unescapes

LEMMA UnescapeAtEnd ==
    ASSUME NEW C, NEW text \in Text(C), NEW one, NEW two
    PROVE  UnescapeStep(text, Len(text) + 1, one, two) = <<>>
  BY TextLen DEF UnescapeStep

(* Downwards from the end, a text leaves no choice. *)
LEMMA UnescapesOnce ==
    ASSUME NEW C, NEW text \in Text(C), NEW f, NEW g, Unescapes(text, f), Unescapes(text, g)
    PROVE  f = g
  <1>1. PICK n : n = Len(text) /\ n \in Nat
    BY TextLen
  <1>2. /\ DOMAIN f = 1..n + 1 /\ f = [i \in 1..n + 1 |-> f[i]]
        /\ DOMAIN g = 1..n + 1 /\ g = [i \in 1..n + 1 |-> g[i]]
    BY <1>1, UnescapesDomain
  <1>3. \A i \in 1..n + 1 : f[i] = UnescapeStep(text, i, f[i + 1], f[i + 2])
    BY <1>1, UnescapesAt
  <1>4. \A i \in 1..n + 1 : g[i] = UnescapeStep(text, i, g[i + 1], g[i + 2])
    BY <1>1, UnescapesAt
  <1> DEFINE N == {k \in Nat : \A i \in 1..n + 1 : i + k > n => f[i] = g[i]}
  <1>5. 0 \in N
    <2>1. UnescapeStep(text, n + 1, f[n + 1 + 1], f[n + 1 + 2]) = <<>>
      BY <1>1, UnescapeAtEnd
    <2>2. UnescapeStep(text, n + 1, g[n + 1 + 1], g[n + 1 + 2]) = <<>>
      BY <1>1, UnescapeAtEnd
    <2>3. f[n + 1] = g[n + 1]
      BY <1>1, <1>3, <1>4, <2>1, <2>2
    <2> QED
      BY <1>1, <2>3
  <1>6. ASSUME NEW k \in Nat, k \in N
        PROVE  k + 1 \in N
    <2> SUFFICES ASSUME NEW i \in 1..n + 1, i + k + 1 > n
                 PROVE  f[i] = g[i]
      OBVIOUS
    <2>1. CASE i = n + 1
      BY <1>1, <1>5, <2>1
    <2>2. CASE i = n
      <3>1. f[i + 1] = g[i + 1]
        BY <1>1, <1>5, <2>2
      <3>2. UnescapeStep(text, i, f[i + 1], f[i + 2]) = UnescapeStep(text, i, g[i + 1], g[i + 2])
        BY <1>1, <2>2, <3>1 DEF UnescapeStep
      <3> QED
        BY <1>3, <1>4, <3>2
    <2>3. CASE i < n
      <3>1. i + 1 \in 1..n + 1 /\ i + 2 \in 1..n + 1 /\ i + 1 + k > n /\ i + 2 + k > n
        BY <1>1, <2>3
      <3>2. f[i + 1] = g[i + 1] /\ f[i + 2] = g[i + 2]
        BY <1>6, <3>1
      <3> QED
        BY <1>3, <1>4, <3>2
    <2> QED
      BY <1>1, <2>1, <2>2, <2>3
  <1> HIDE DEF N
  <1>7. n \in N
    BY <1>1, <1>5, <1>6, NumbersByInduction
  <1>8. \A i \in 1..n + 1 : f[i] = g[i]
    BY <1>1, <1>7 DEF N
  <1> QED
    BY <1>2, <1>8

LEMMA ConsIndex ==
    ASSUME NEW C, NEW c \in C, NEW t \in Text(C)
    PROVE  /\ One(c) ++ t \in Text(C)
           /\ Len(One(c) ++ t) = Len(t) + 1
           /\ (One(c) ++ t)[1] = c
           /\ \A i \in 1..Len(t) : (One(c) ++ t)[i + 1] = t[i]
  <1>1. PICK one : one = One(c) /\ one \in Text(C)
    BY OneType
  <1>2. Len(one) = 1 /\ one[1] = c
    BY <1>1 DEF One
  <1>3. Len(one ++ t) = 1 + Len(t) /\ Len(t) \in Nat
    BY <1>1, <1>2, CatLen, TextLen
  <1>4. (one ++ t)[1] = c
    <2>1. 1 \in 1..Len(one)
      BY <1>2
    <2> QED
      BY <1>1, <1>2, <2>1, CatIndex
  <1>5. ASSUME NEW i \in 1..Len(t)
        PROVE  (one ++ t)[i + 1] = t[i]
    <2>1. (one ++ t)[Len(one) + i] = t[i]
      BY <1>1, CatRight
    <2>2. Len(one) + i = i + 1
      BY <1>2
    <2> QED
      BY <2>1, <2>2
  <1>6. one ++ t \in Text(C)
    BY <1>1, CatType
  <1> QED
    BY <1>1, <1>3, <1>4, <1>5, <1>6

(* One character further on everything is as it was. *)
LEMMA UnescapeShift ==
    ASSUME NEW C, NEW c \in C, NEW t \in Text(C), NEW i \in 1..Len(t) + 1, NEW one, NEW two
    PROVE  UnescapeStep(One(c) ++ t, i + 1, one, two) = UnescapeStep(t, i, one, two)
  <1>1. PICK whole : whole = One(c) ++ t
    OBVIOUS
  <1>2. PICK n \in Nat : n = Len(t)
    BY TextLen
  <1>3. Len(whole) = n + 1
    BY <1>1, <1>2, ConsIndex
  <1>4. \A k \in 1..n : whole[k + 1] = t[k]
    BY <1>1, <1>2, ConsIndex
  <1>5. CASE i = n + 1
    <2>1. UnescapeStep(t, i, one, two) = <<>>
      BY <1>2, <1>5 DEF UnescapeStep
    <2>2. UnescapeStep(whole, i + 1, one, two) = <<>>
      BY <1>2, <1>3, <1>5 DEF UnescapeStep
    <2> QED
      BY <1>1, <2>1, <2>2
  <1>6. CASE i = n
    <2>1. whole[i + 1] = t[i] /\ ~(i > Len(t)) /\ ~(i < Len(t))
      BY <1>2, <1>4, <1>6
    <2>2. ~(i + 1 > Len(whole)) /\ ~(i + 1 < Len(whole))
      BY <1>2, <1>3, <1>6
    <2>3. UnescapeStep(t, i, one, two) = One(Bare(t[i])) ++ one
      BY <2>1 DEF UnescapeStep
    <2>4. UnescapeStep(whole, i + 1, one, two) = One(Bare(t[i])) ++ one
      BY <2>1, <2>2 DEF UnescapeStep
    <2> QED
      BY <1>1, <2>3, <2>4
  <1>7. CASE i < n
    <2>1. whole[i + 1] = t[i] /\ whole[i + 1 + 1] = t[i + 1] /\ ~(i > Len(t)) /\ i < Len(t)
      BY <1>2, <1>4, <1>7
    <2>2. ~(i + 1 > Len(whole)) /\ i + 1 < Len(whole)
      BY <1>2, <1>3, <1>7
    <2>3. UnescapeStep(t, i, one, two) = UnescapeStep(whole, i + 1, one, two)
      BY <2>1, <2>2 DEF UnescapeStep
    <2> QED
      BY <1>1, <2>3
  <1> QED
    BY <1>2, <1>5, <1>6, <1>7

LEMMA UnescapesShift ==
    ASSUME NEW C, NEW c \in C, NEW t \in Text(C), NEW f, Unescapes(t, f)
    PROVE  \E g : Unescapes(One(c) ++ t, g) /\ \A i \in 1..Len(t) + 1 : g[i + 1] = f[i]
  <1>1. PICK whole : whole = One(c) ++ t
    OBVIOUS
  <1>2. PICK n \in Nat : n = Len(t)
    BY TextLen
  <1>3. Len(whole) = n + 1
    BY <1>1, <1>2, ConsIndex
  <1>4. PICK first : first = UnescapeStep(whole, 1, f[1], f[2])
    OBVIOUS
  <1> DEFINE g == [i \in 1..n + 2 |-> IF i = 1 THEN first ELSE f[i - 1]]
  <1>5. \A i \in 1..n + 1 : g[i + 1] = f[i]
    OBVIOUS
  <1>6. \A i \in 1..n + 1 : f[i] = UnescapeStep(t, i, f[i + 1], f[i + 2])
    BY <1>2, UnescapesAt
  <1>7. g[1] = first /\ g = [i \in 1..n + 2 |-> g[i]] /\ g[2] = f[1] /\ (n > 0 => g[3] = f[2])
    OBVIOUS
  <1> HIDE DEF g
  <1>8. ASSUME NEW i \in 1..n + 1
        PROVE  g[i + 1] = UnescapeStep(whole, i + 1, g[i + 2], g[i + 3])
    <2>1. UnescapeStep(whole, i + 1, g[i + 2], g[i + 3]) = UnescapeStep(t, i, g[i + 2], g[i + 3])
      BY <1>1, <1>2, UnescapeShift
    <2>2. CASE i = n + 1
      BY <1>2, <1>5, <1>6, <2>1, <2>2 DEF UnescapeStep
    <2>3. CASE i = n
      <3>1. g[i + 2] = f[i + 1]
        <4>1. i + 1 \in 1..n + 1 /\ i + 1 + 1 = i + 2
          BY <2>3
        <4> QED
          BY <1>5, <4>1
      <3>2. UnescapeStep(t, i, g[i + 2], g[i + 3]) = UnescapeStep(t, i, f[i + 1], f[i + 2])
        BY <1>2, <2>3, <3>1 DEF UnescapeStep
      <3> QED
        BY <1>5, <1>6, <2>1, <3>2
    <2>4. CASE i < n
      <3>1. g[i + 2] = f[i + 1] /\ g[i + 3] = f[i + 2]
        <4>1. /\ i + 1 \in 1..n + 1 /\ i + 1 + 1 = i + 2
              /\ i + 2 \in 1..n + 1 /\ i + 2 + 1 = i + 3
          BY <2>4
        <4> QED
          BY <1>5, <4>1
      <3> QED
        BY <1>5, <1>6, <2>1, <3>1
    <2> QED
      BY <2>2, <2>3, <2>4
  <1>9. g[1] = UnescapeStep(whole, 1, g[2], g[3])
    <2>1. CASE n > 0
      BY <1>4, <1>7, <2>1
    <2>2. CASE n = 0
      BY <1>3, <1>4, <1>7, <2>2 DEF UnescapeStep
    <2> QED
      BY <2>1, <2>2
  <1>10. ASSUME NEW k \in 1..n + 2
         PROVE  g[k] = UnescapeStep(whole, k, g[k + 1], g[k + 2])
    <2>1. CASE k = 1
      BY <1>9, <2>1
    <2>2. CASE k # 1
      <3>1. k - 1 \in 1..n + 1 /\ k - 1 + 1 = k /\ k - 1 + 2 = k + 1 /\ k - 1 + 3 = k + 2
        BY <2>2
      <3> QED
        BY <1>8, <3>1
    <2> QED
      BY <2>1, <2>2
  <1>11. g = [i \in 1..n + 2 |-> UnescapeStep(whole, i, g[i + 1], g[i + 2])]
    BY <1>7, <1>10
  <1>12. Len(whole) + 1 = n + 2
    BY <1>3
  <1>13. Unescapes(whole, g)
    BY <1>11, <1>12 DEF Unescapes
  <1> QED
    BY <1>1, <1>2, <1>5, <1>13

LEMMA UnescapesExists ==
    ASSUME NEW C, NEW text \in Text(C)
    PROVE  \E f : Unescapes(text, f)
  <1> DEFINE T == {t \in Text(C) : \E f : Unescapes(t, f)}
  <1>1. <<>> \in T
    <2> DEFINE f == [i \in 1..1 |-> <<>>]
    <2>1. f = [i \in 1..Len(<<>>) + 1 |-> UnescapeStep(<<>>, i, f[i + 1], f[i + 2])]
      BY DEF UnescapeStep
    <2>2. Unescapes(<<>>, f)
      BY <2>1 DEF Unescapes
    <2> QED
      BY <2>2, NothingType
  <1>2. ASSUME NEW t \in Text(C), NEW c \in C, t \in T
        PROVE  One(c) ++ t \in T
    <2>1. One(c) ++ t \in Text(C)
      BY ConsIndex
    <2>2. PICK f : Unescapes(t, f)
      BY <1>2
    <2>3. \E g : Unescapes(One(c) ++ t, g)
      BY <2>2, UnescapesShift
    <2> QED
      BY <2>1, <2>3
  <1> HIDE DEF T
  <1>3. text \in T
    BY <1>1, <1>2, TextInduction
  <1> QED
    BY <1>3 DEF T

LEMMA UnescapedBy ==
    ASSUME NEW C, NEW text \in Text(C), NEW f, Unescapes(text, f)
    PROVE  Unescaped(text) = f[1]
  <1>1. Unescapes(text, CHOOSE g : Unescapes(text, g))
    OBVIOUS
  <1>2. (CHOOSE g : Unescapes(text, g)) = f
    BY <1>1, UnescapesOnce
  <1> QED
    BY <1>2, UnescapedIsChosen

LEMMA UnescapedNothing == Unescaped(<<>>) = <<>>
  <1>1. <<>> \in Text({})
    BY NothingType
  <1>2. PICK f : Unescapes(<<>>, f)
    BY <1>1, UnescapesExists
  <1>3. f[1] = <<>>
    <2>1. 1 \in 1..Len(<<>>) + 1 /\ 1 > Len(<<>>)
      OBVIOUS
    <2> QED
      BY <1>2, <2>1, UnescapesAt DEF UnescapeStep
  <1> QED
    BY <1>1, <1>2, <1>3, UnescapedBy

LEMMA UnescapedBare ==
    ASSUME NEW C, NEW c \in C, NEW t \in Text(C), c # "\\"
    PROVE  Unescaped(One(c) ++ t) = One(Bare(c)) ++ Unescaped(t)
  <1>1. PICK whole : whole = One(c) ++ t /\ whole \in Text(C)
    BY ConsIndex
  <1>2. PICK f : Unescapes(t, f)
    BY UnescapesExists
  <1>3. PICK g : Unescapes(whole, g) /\ \A i \in 1..Len(t) + 1 : g[i + 1] = f[i]
    BY <1>1, <1>2, UnescapesShift
  <1>4. g[2] = f[1]
    <2>1. 1 \in 1..Len(t) + 1 /\ 1 + 1 = 2
      BY TextLen
    <2> QED
      BY <1>3, <2>1
  <1>5. g[1] = UnescapeStep(whole, 1, g[2], g[3])
    <2>1. 1 \in 1..Len(whole) + 1 /\ 1 + 1 = 2 /\ 1 + 2 = 3
      BY <1>1, TextLen
    <2> QED
      BY <1>3, <2>1, UnescapesAt
  <1>6. whole[1] = c /\ ~(1 > Len(whole))
    BY <1>1, ConsIndex, TextLen
  <1>7. g[1] = One(Bare(c)) ++ f[1]
    BY <1>4, <1>5, <1>6 DEF UnescapeStep
  <1>8. Unescaped(whole) = g[1] /\ Unescaped(t) = f[1]
    BY <1>1, <1>2, <1>3, UnescapedBy
  <1> QED
    BY <1>1, <1>7, <1>8

LEMMA UnescapedBehind ==
    ASSUME NEW C, "\\" \in C, NEW c \in C, NEW t \in Text(C)
    PROVE  Unescaped(One("\\") ++ (One(c) ++ t)) = One(Behind(c)) ++ Unescaped(t)
  <1>1. PICK u : u = One(c) ++ t /\ u \in Text(C)
    BY ConsIndex
  <1>2. PICK whole : whole = One("\\") ++ u /\ whole \in Text(C)
    BY <1>1, ConsIndex
  <1>3. PICK f : Unescapes(t, f)
    BY UnescapesExists
  <1>4. PICK g : Unescapes(u, g) /\ \A i \in 1..Len(t) + 1 : g[i + 1] = f[i]
    BY <1>1, <1>3, UnescapesShift
  <1>5. PICK h : Unescapes(whole, h) /\ \A i \in 1..Len(u) + 1 : h[i + 1] = g[i]
    BY <1>1, <1>2, <1>4, UnescapesShift
  <1>6. Len(u) = Len(t) + 1 /\ Len(whole) = Len(u) + 1 /\ Len(t) \in Nat
    BY <1>1, <1>2, ConsIndex, TextLen
  <1>7. h[3] = f[1]
    <2>1. /\ 2 \in 1..Len(u) + 1 /\ 2 + 1 = 3
          /\ 1 \in 1..Len(t) + 1 /\ 1 + 1 = 2
      BY <1>6
    <2> QED
      BY <1>4, <1>5, <2>1
  <1>8. h[1] = UnescapeStep(whole, 1, h[2], h[3])
    <2>1. 1 \in 1..Len(whole) + 1 /\ 1 + 1 = 2 /\ 1 + 2 = 3
      BY <1>6
    <2> QED
      BY <1>5, <2>1, UnescapesAt
  <1>9. whole[1] = "\\" /\ whole[2] = c
    <2>1. whole[1] = "\\"
      BY <1>1, <1>2, ConsIndex
    <2>2. u[1] = c
      BY <1>1, ConsIndex
    <2>3. 1 \in 1..Len(u) /\ 1 + 1 = 2
      BY <1>6
    <2>4. whole[2] = u[1]
      BY <1>1, <1>2, <2>3, ConsIndex
    <2> QED
      BY <2>1, <2>2, <2>4
  <1>10. h[1] = One(Behind(c)) ++ f[1]
    <2>1. ~(1 > Len(whole)) /\ 1 < Len(whole) /\ 1 + 1 = 2
      BY <1>6
    <2> QED
      BY <1>7, <1>8, <1>9, <2>1 DEF UnescapeStep
  <1>11. Unescaped(whole) = h[1] /\ Unescaped(t) = f[1]
    BY <1>2, <1>3, <1>5, UnescapedBy
  <1> QED
    BY <1>1, <1>2, <1>10, <1>11

(* dotenv.ts:164-169 and op run's reader: what is escaped is read back as it was, *)
(* whatever it holds.                                                          *)
THEOREM UnescapedEscaped ==
    ASSUME NEW C, Marks \subseteq C, NEW v \in Text(C)
    PROVE  Unescaped(Escaped(v)) = v
  <1> DEFINE T == {t \in Text(C) : Unescaped(Escaped(t)) = t}
  <1>1. <<>> \in T
    BY NothingType, EscapedNothing, UnescapedNothing
  <1>2. ASSUME NEW t \in Text(C), NEW c \in C, t \in T
        PROVE  One(c) ++ t \in T
    <2>1. PICK e \in Text(C) : e = Escaped(t)
      BY EscapedType
    <2>2. Unescaped(e) = t
      BY <1>2, <2>1
    <2>3. Escaped(One(c) ++ t) = EscapeOf(c) ++ e
      BY <2>1, EscapedCons
    <2>4. "\\" \in C /\ "n" \in C /\ "r" \in C
      BY DEF Marks
    <2>5. ASSUME NEW d \in C
          PROVE  Unescaped(Pair(d) ++ e) = One(Behind(d)) ++ t
      <3>1. Pair(d) ++ e = One("\\") ++ (One(d) ++ e)
        <4>1. One("\\") \in Text(C) /\ One(d) \in Text(C)
          BY <2>4, OneType
        <4> QED
          BY <4>1, CatAssoc DEF Pair
      <3> QED
        BY <2>2, <2>4, <3>1, UnescapedBehind
    <2>6. Unescaped(EscapeOf(c) ++ e) = One(c) ++ t
      <3>1. CASE c \in {"\\", Quote, "$"}
        <4>1. EscapeOf(c) = Pair(c)
          BY <3>1 DEF EscapeOf
        <4>2. Behind(c) = c
          BY <3>1 DEF Behind, Quote
        <4> QED
          BY <2>5, <4>1, <4>2
      <3>2. CASE c = "\n"
        <4>1. EscapeOf(c) = Pair("n")
          BY <3>2 DEF EscapeOf, Quote
        <4>2. Behind("n") = c
          BY <3>2 DEF Behind
        <4> QED
          BY <2>4, <2>5, <4>1, <4>2
      <3>3. CASE c = "\r"
        <4>1. EscapeOf(c) = Pair("r")
          BY <3>3 DEF EscapeOf, Quote
        <4>2. Behind("r") = c
          BY <3>3 DEF Behind
        <4> QED
          BY <2>4, <2>5, <4>1, <4>2
      <3>4. CASE c \notin {"\\", Quote, "$", "\n", "\r"}
        <4>1. EscapeOf(c) = One(c)
          BY <3>4 DEF EscapeOf
        <4>2. Bare(c) = c /\ c # "\\"
          BY <3>4 DEF Bare
        <4> QED
          BY <2>2, <4>1, <4>2, UnescapedBare
      <3> QED
        BY <3>1, <3>2, <3>3, <3>4
    <2>7. One(c) ++ t \in Text(C)
      BY ConsIndex
    <2> QED
      BY <2>3, <2>6, <2>7
  <1> HIDE DEF T
  <1>3. v \in T
    BY <1>1, <1>2, TextInduction
  <1> QED
    BY <1>3 DEF T

-----------------------------------------------------------------------------
(* Parts of texts. *)

LEMMA TextOfMore ==
    ASSUME NEW C, NEW D, C \subseteq D, NEW t \in Text(C)
    PROVE  t \in Text(D)
  BY DEF Text

LEMMA ConsRight ==
    ASSUME NEW C, NEW c \in C, NEW t \in Text(C), NEW i \in 1..Len(t)
    PROVE  (One(c) ++ t)[i + 1] = t[i]
  BY ConsIndex

LEMMA HeadOfCons ==
    ASSUME NEW C, NEW c \in C, NEW t \in Text(C)
    PROVE  Head(One(c) ++ t) = c
  <1>1. PICK whole : whole = One(c) ++ t /\ whole \in Text(C)
    BY ConsIndex
  <1>2. Len(whole) = Len(t) + 1 /\ whole[1] = c /\ Len(t) \in Nat
    BY <1>1, ConsIndex, TextLen
  <1> QED
    BY <1>1, <1>2 DEF Text

LEMMA ConsIsNotNothing ==
    ASSUME NEW C, NEW c \in C, NEW t \in Text(C)
    PROVE  One(c) ++ t # <<>>
  <1>1. PICK whole : whole = One(c) ++ t
    OBVIOUS
  <1>2. Len(whole) = Len(t) + 1 /\ Len(t) \in Nat
    BY <1>1, ConsIndex, TextLen
  <1>3. whole # <<>>
    BY <1>2
  <1> QED
    BY <1>1, <1>3

LEMMA TailOfCons ==
    ASSUME NEW C, NEW c \in C, NEW t \in Text(C)
    PROVE  Tail(One(c) ++ t) = t
  <1>1. PICK whole : whole = One(c) ++ t /\ whole \in Text(C) /\ whole # <<>>
    BY ConsIndex, ConsIsNotNothing
  <1>2. PICK rest : rest = Tail(whole)
    OBVIOUS
  <1>3. /\ rest \in Text(C) /\ Len(rest) = Len(whole) - 1
        /\ \A i \in 1..Len(rest) : rest[i] = whole[i + 1]
    BY <1>1, <1>2, HeadTailProperties DEF Text
  <1>4. Len(whole) = Len(t) + 1 /\ Len(t) \in Nat
    BY <1>1, ConsIndex, TextLen
  <1>5. \A i \in 1..Len(t) : whole[i + 1] = t[i]
    BY <1>1, ConsIndex
  <1>6. Len(rest) = Len(t)
    BY <1>3, <1>4
  <1>7. \A i \in 1..Len(rest) : rest[i] = t[i]
    BY <1>3, <1>5, <1>6
  <1>8. rest = t
    BY <1>3, <1>6, <1>7, TextEqual
  <1> QED
    BY <1>1, <1>2, <1>8

LEMMA PartIndex ==
    ASSUME NEW C, NEW s \in Text(C), NEW m \in 1..Len(s) + 1, NEW n \in m - 1..Len(s)
    PROVE  /\ SubSeq(s, m, n) \in Text(C)
           /\ Len(SubSeq(s, m, n)) = n - m + 1
           /\ \A i \in 1..n - m + 1 : SubSeq(s, m, n)[i] = s[m + i - 1]
  <1>1. Len(s) \in Nat
    BY TextLen
  <1>2. \A i \in m..n : s[i] \in C
    BY <1>1, ElementOfSeq DEF Text
  <1>3. m \in Int /\ n \in Int
    BY <1>1
  <1>4. /\ SubSeq(s, m, n) \in Text(C)
        /\ Len(SubSeq(s, m, n)) = IF m <= n THEN n - m + 1 ELSE 0
        /\ \A i \in 1..n - m + 1 : SubSeq(s, m, n)[i] = s[m + i - 1]
    BY <1>2, <1>3, SubSeqProperties DEF Text
  <1>5. ~(m <= n) => n - m + 1 = 0
    BY <1>1
  <1> QED
    BY <1>4, <1>5

LEMMA LeftPart ==
    ASSUME NEW C, NEW s \in Text(C), NEW t \in Text(C)
    PROVE  SubSeq(s ++ t, 1, Len(s)) = s
  <1>1. PICK whole : whole = s ++ t /\ whole \in Text(C)
    BY CatType
  <1>2. Len(whole) = Len(s) + Len(t) /\ Len(s) \in Nat /\ Len(t) \in Nat
    BY <1>1, CatLen, TextLen
  <1>3. PICK part : part = SubSeq(whole, 1, Len(s))
    OBVIOUS
  <1>4. 1 \in 1..Len(whole) + 1 /\ Len(s) \in 1 - 1..Len(whole) /\ Len(s) - 1 + 1 = Len(s)
    BY <1>2
  <1>5. /\ part \in Text(C) /\ Len(part) = Len(s)
        /\ \A i \in 1..Len(s) : part[i] = whole[1 + i - 1]
    BY <1>1, <1>3, <1>4, PartIndex
  <1>6. ASSUME NEW i \in 1..Len(s)
        PROVE  part[i] = s[i]
    <2>1. whole[i] = s[i]
      BY <1>1, CatLeft
    <2>2. 1 + i - 1 = i
      BY <1>2
    <2> QED
      BY <1>5, <2>1, <2>2
  <1>7. part = s
    BY <1>5, <1>6, TextEqual
  <1> QED
    BY <1>1, <1>3, <1>7

LEMMA RightPart ==
    ASSUME NEW C, NEW s \in Text(C), NEW t \in Text(C)
    PROVE  SubSeq(s ++ t, Len(s) + 1, Len(s ++ t)) = t
  <1>1. PICK whole : whole = s ++ t /\ whole \in Text(C)
    BY CatType
  <1>2. Len(whole) = Len(s) + Len(t) /\ Len(s) \in Nat /\ Len(t) \in Nat
    BY <1>1, CatLen, TextLen
  <1>3. PICK part : part = SubSeq(whole, Len(s) + 1, Len(whole))
    OBVIOUS
  <1>4. /\ Len(s) + 1 \in 1..Len(whole) + 1 /\ Len(whole) \in Len(s) + 1 - 1..Len(whole)
        /\ Len(whole) - (Len(s) + 1) + 1 = Len(t)
    BY <1>2
  <1>5. /\ part \in Text(C) /\ Len(part) = Len(t)
        /\ \A i \in 1..Len(t) : part[i] = whole[Len(s) + 1 + i - 1]
    BY <1>1, <1>3, <1>4, PartIndex
  <1>6. ASSUME NEW i \in 1..Len(t)
        PROVE  part[i] = t[i]
    <2>1. whole[Len(s) + i] = t[i]
      BY <1>1, CatRight
    <2>2. Len(s) + 1 + i - 1 = Len(s) + i
      BY <1>2
    <2> QED
      BY <1>5, <2>1, <2>2
  <1>7. part = t
    BY <1>5, <1>6, TextEqual
  <1> QED
    BY <1>1, <1>3, <1>7

(* The text between one character and the last. *)
LEMMA MiddlePart ==
    ASSUME NEW C, NEW a \in C, NEW s \in Text(C), NEW z \in C
    PROVE  LET whole == One(a) ++ (s ++ One(z))
           IN /\ whole \in Text(C) /\ Len(whole) = Len(s) + 2
              /\ Head(whole) = a /\ Last(whole) = z
              /\ SubSeq(whole, 2, Len(whole) - 1) = s
  <1>1. PICK last : last = One(z) /\ last \in Text(C)
    BY OneType
  <1>2. PICK rest : rest = s ++ last /\ rest \in Text(C)
    BY <1>1, CatType
  <1>3. PICK whole : whole = One(a) ++ rest /\ whole \in Text(C)
    BY <1>2, ConsIndex
  <1>4. Len(last) = 1 /\ last[1] = z
    BY <1>1 DEF One
  <1>5. Len(s) \in Nat /\ Len(rest) = Len(s) + 1 /\ Len(whole) = Len(s) + 2
    <2>1. Len(s) \in Nat
      BY TextLen
    <2>2. Len(rest) = Len(s) + Len(last)
      BY <1>1, <1>2, CatLen
    <2>3. Len(whole) = Len(rest) + 1
      BY <1>2, <1>3, ConsIndex
    <2> QED
      BY <1>4, <2>1, <2>2, <2>3
  <1>6. Head(whole) = a
    BY <1>2, <1>3, HeadOfCons
  <1>7. Last(whole) = z
    <2>1. rest[Len(s) + 1] = z
      <3>1. 1 \in 1..Len(last)
        BY <1>4
      <3> QED
        BY <1>1, <1>2, <1>4, <3>1, CatRight
    <2>2. whole[Len(s) + 1 + 1] = rest[Len(s) + 1]
      <3>1. Len(s) + 1 \in 1..Len(rest)
        BY <1>5
      <3> QED
        BY <1>2, <1>3, <3>1, ConsRight
    <2>3. Len(s) + 1 + 1 = Len(whole)
      BY <1>5
    <2> QED
      BY <2>1, <2>2, <2>3 DEF Last
  <1>8. PICK part : part = SubSeq(whole, 2, Len(whole) - 1)
    OBVIOUS
  <1>9. /\ part \in Text(C) /\ Len(part) = Len(s)
        /\ \A i \in 1..Len(s) : part[i] = whole[2 + i - 1]
    <2>1. /\ 2 \in 1..Len(whole) + 1 /\ Len(whole) - 1 \in 2 - 1..Len(whole)
          /\ Len(whole) - 1 - 2 + 1 = Len(s)
      BY <1>5
    <2> QED
      BY <1>3, <1>8, <2>1, PartIndex
  <1>10. ASSUME NEW i \in 1..Len(s)
         PROVE  part[i] = s[i]
    <2>1. rest[i] = s[i]
      BY <1>1, <1>2, CatLeft
    <2>2. whole[i + 1] = rest[i]
      <3>1. i \in 1..Len(rest)
        BY <1>5
      <3> QED
        BY <1>2, <1>3, <3>1, ConsRight
    <2>3. 2 + i - 1 = i + 1
      BY <1>5
    <2> QED
      BY <1>9, <2>1, <2>2, <2>3
  <1>11. part = s
    BY <1>9, <1>10, TextEqual
  <1> QED
    BY <1>1, <1>2, <1>3, <1>5, <1>6, <1>7, <1>8, <1>11

-----------------------------------------------------------------------------
(* Lines of a text. *)

(* A character in front of the first of the lines. *)
Glued(c, lines) == One(One(c) ++ Head(lines)) ++ Tail(lines)

LinesStep(text, i, rest) ==
    IF i > Len(text) THEN One(<<>>)
    ELSE IF text[i] = "\n" THEN One(<<>>) ++ rest
    ELSE IF text[i] = "\r" /\ i < Len(text) /\ text[i + 1] = "\n" THEN rest
    ELSE Glued(text[i], rest)

Splits(text, f) == f = [i \in 1..Len(text) + 1 |-> LinesStep(text, i, f[i + 1])]

LEMMA LinesIsChosen ==
    ASSUME NEW text
    PROVE  Lines(text) = (CHOOSE f : Splits(text, f))[1]
  BY DEF Lines, Splits, LinesStep, Glued, One, ++

LEMMA SplitsAt ==
    ASSUME NEW text, NEW f, Splits(text, f)
    PROVE  \A i \in 1..Len(text) + 1 : f[i] = LinesStep(text, i, f[i + 1])
  BY DEF Splits

LEMMA SplitsDomain ==
    ASSUME NEW text, NEW f, Splits(text, f)
    PROVE  DOMAIN f = 1..Len(text) + 1 /\ f = [i \in 1..Len(text) + 1 |-> f[i]]
  BY DEF Splits

LEMMA SplitsOnce ==
    ASSUME NEW C, NEW text \in Text(C), NEW f, NEW g, Splits(text, f), Splits(text, g)
    PROVE  f = g
  <1>1. PICK n : n = Len(text) /\ n \in Nat
    BY TextLen
  <1>2. /\ DOMAIN f = 1..n + 1 /\ f = [i \in 1..n + 1 |-> f[i]]
        /\ DOMAIN g = 1..n + 1 /\ g = [i \in 1..n + 1 |-> g[i]]
    BY <1>1, SplitsDomain
  <1>3. \A i \in 1..n + 1 : f[i] = LinesStep(text, i, f[i + 1])
    BY <1>1, SplitsAt
  <1>4. \A i \in 1..n + 1 : g[i] = LinesStep(text, i, g[i + 1])
    BY <1>1, SplitsAt
  <1>5. f[n + 1] = g[n + 1]
    <2>1. /\ LinesStep(text, n + 1, f[n + 1 + 1]) = One(<<>>)
          /\ LinesStep(text, n + 1, g[n + 1 + 1]) = One(<<>>)
      BY <1>1 DEF LinesStep
    <2> QED
      BY <1>1, <1>3, <1>4, <2>1
  <1> DEFINE N == {k \in Nat : \A i \in 1..n + 1 : i + k > n => f[i] = g[i]}
  <1>6. 0 \in N
    BY <1>1, <1>5
  <1>7. ASSUME NEW k \in Nat, k \in N
        PROVE  k + 1 \in N
    <2> SUFFICES ASSUME NEW i \in 1..n + 1, i + k + 1 > n
                 PROVE  f[i] = g[i]
      OBVIOUS
    <2>1. CASE i = n + 1
      BY <1>5, <2>1
    <2>2. CASE i # n + 1
      <3>1. i + 1 \in 1..n + 1 /\ i + 1 + k > n
        BY <1>1, <2>2
      <3>2. f[i + 1] = g[i + 1]
        BY <1>7, <3>1
      <3> QED
        BY <1>3, <1>4, <3>2
    <2> QED
      BY <2>1, <2>2
  <1> HIDE DEF N
  <1>8. n \in N
    BY <1>1, <1>6, <1>7, NumbersByInduction
  <1>9. \A i \in 1..n + 1 : f[i] = g[i]
    BY <1>1, <1>8 DEF N
  <1> QED
    BY <1>2, <1>9

LEMMA LinesShift ==
    ASSUME NEW C, NEW c \in C, NEW t \in Text(C), NEW i \in 1..Len(t) + 1, NEW rest
    PROVE  LinesStep(One(c) ++ t, i + 1, rest) = LinesStep(t, i, rest)
  <1>1. PICK whole : whole = One(c) ++ t
    OBVIOUS
  <1>2. PICK n \in Nat : n = Len(t)
    BY TextLen
  <1>3. Len(whole) = n + 1
    BY <1>1, <1>2, ConsIndex
  <1>4. \A k \in 1..n : whole[k + 1] = t[k]
    BY <1>1, <1>2, ConsIndex
  <1>5. CASE i = n + 1
    <2>1. LinesStep(t, i, rest) = One(<<>>)
      BY <1>2, <1>5 DEF LinesStep
    <2>2. LinesStep(whole, i + 1, rest) = One(<<>>)
      BY <1>2, <1>3, <1>5 DEF LinesStep
    <2> QED
      BY <1>1, <2>1, <2>2
  <1>6. CASE i = n
    <2>1. whole[i + 1] = t[i] /\ ~(i > Len(t)) /\ ~(i < Len(t))
      BY <1>2, <1>4, <1>6
    <2>2. ~(i + 1 > Len(whole)) /\ ~(i + 1 < Len(whole))
      BY <1>2, <1>3, <1>6
    <2>3. LinesStep(t, i, rest) = LinesStep(whole, i + 1, rest)
      BY <2>1, <2>2 DEF LinesStep
    <2> QED
      BY <1>1, <2>3
  <1>7. CASE i < n
    <2>1. whole[i + 1] = t[i] /\ whole[i + 1 + 1] = t[i + 1] /\ ~(i > Len(t)) /\ i < Len(t)
      BY <1>2, <1>4, <1>7
    <2>2. ~(i + 1 > Len(whole)) /\ i + 1 < Len(whole)
      BY <1>2, <1>3, <1>7
    <2>3. LinesStep(t, i, rest) = LinesStep(whole, i + 1, rest)
      BY <2>1, <2>2 DEF LinesStep
    <2> QED
      BY <1>1, <2>3
  <1> QED
    BY <1>2, <1>5, <1>6, <1>7

LEMMA SplitsShift ==
    ASSUME NEW C, NEW c \in C, NEW t \in Text(C), NEW f, Splits(t, f)
    PROVE  \E g : Splits(One(c) ++ t, g) /\ \A i \in 1..Len(t) + 1 : g[i + 1] = f[i]
  <1>1. PICK whole : whole = One(c) ++ t
    OBVIOUS
  <1>2. PICK n \in Nat : n = Len(t)
    BY TextLen
  <1>3. Len(whole) = n + 1
    BY <1>1, <1>2, ConsIndex
  <1>4. PICK first : first = LinesStep(whole, 1, f[1])
    OBVIOUS
  <1> DEFINE g == [i \in 1..n + 2 |-> IF i = 1 THEN first ELSE f[i - 1]]
  <1>5. \A i \in 1..n + 1 : g[i + 1] = f[i]
    OBVIOUS
  <1>6. \A i \in 1..n + 1 : f[i] = LinesStep(t, i, f[i + 1])
    BY <1>2, SplitsAt
  <1>7. g[1] = first /\ g = [i \in 1..n + 2 |-> g[i]] /\ g[2] = f[1]
    OBVIOUS
  <1> HIDE DEF g
  <1>8. ASSUME NEW i \in 1..n + 1
        PROVE  g[i + 1] = LinesStep(whole, i + 1, g[i + 2])
    <2>1. LinesStep(whole, i + 1, g[i + 2]) = LinesStep(t, i, g[i + 2])
      BY <1>1, <1>2, LinesShift
    <2>2. CASE i = n + 1
      BY <1>2, <1>5, <1>6, <2>1, <2>2 DEF LinesStep
    <2>3. CASE i # n + 1
      <3>1. g[i + 2] = f[i + 1]
        <4>1. i + 1 \in 1..n + 1 /\ i + 1 + 1 = i + 2
          BY <2>3
        <4> QED
          BY <1>5, <4>1
      <3> QED
        BY <1>5, <1>6, <2>1, <3>1
    <2> QED
      BY <2>2, <2>3
  <1>9. g[1] = LinesStep(whole, 1, g[2])
    BY <1>4, <1>7
  <1>10. ASSUME NEW k \in 1..n + 2
         PROVE  g[k] = LinesStep(whole, k, g[k + 1])
    <2>1. CASE k = 1
      BY <1>9, <2>1
    <2>2. CASE k # 1
      <3>1. k - 1 \in 1..n + 1 /\ k - 1 + 1 = k /\ k - 1 + 2 = k + 1
        BY <2>2
      <3> QED
        BY <1>8, <3>1
    <2> QED
      BY <2>1, <2>2
  <1>11. g = [i \in 1..n + 2 |-> LinesStep(whole, i, g[i + 1])]
    BY <1>7, <1>10
  <1>12. Len(whole) + 1 = n + 2
    BY <1>3
  <1>13. Splits(whole, g)
    BY <1>11, <1>12 DEF Splits
  <1> QED
    BY <1>1, <1>2, <1>5, <1>13

LEMMA SplitsExists ==
    ASSUME NEW C, NEW text \in Text(C)
    PROVE  \E f : Splits(text, f)
  <1> DEFINE T == {t \in Text(C) : \E f : Splits(t, f)}
  <1>1. <<>> \in T
    <2> DEFINE f == [i \in 1..1 |-> One(<<>>)]
    <2>1. f = [i \in 1..Len(<<>>) + 1 |-> LinesStep(<<>>, i, f[i + 1])]
      BY DEF LinesStep
    <2>2. Splits(<<>>, f)
      BY <2>1 DEF Splits
    <2> QED
      BY <2>2, NothingType
  <1>2. ASSUME NEW t \in Text(C), NEW c \in C, t \in T
        PROVE  One(c) ++ t \in T
    <2>1. One(c) ++ t \in Text(C)
      BY ConsIndex
    <2>2. PICK f : Splits(t, f)
      BY <1>2
    <2>3. \E g : Splits(One(c) ++ t, g)
      BY <2>2, SplitsShift
    <2> QED
      BY <2>1, <2>3
  <1> HIDE DEF T
  <1>3. text \in T
    BY <1>1, <1>2, TextInduction
  <1> QED
    BY <1>3 DEF T

LEMMA LinesBy ==
    ASSUME NEW C, NEW text \in Text(C), NEW f, Splits(text, f)
    PROVE  Lines(text) = f[1]
  <1>1. Splits(text, CHOOSE g : Splits(text, g))
    OBVIOUS
  <1>2. (CHOOSE g : Splits(text, g)) = f
    BY <1>1, SplitsOnce
  <1> QED
    BY <1>2, LinesIsChosen

LEMMA LinesCons ==
    ASSUME NEW C, NEW c \in C, NEW t \in Text(C)
    PROVE  Lines(One(c) ++ t) = LinesStep(One(c) ++ t, 1, Lines(t))
  <1>1. PICK whole : whole = One(c) ++ t /\ whole \in Text(C)
    BY ConsIndex
  <1>2. PICK f : Splits(t, f)
    BY SplitsExists
  <1>3. PICK g : Splits(whole, g) /\ \A i \in 1..Len(t) + 1 : g[i + 1] = f[i]
    BY <1>1, <1>2, SplitsShift
  <1>4. g[2] = f[1]
    <2>1. 1 \in 1..Len(t) + 1 /\ 1 + 1 = 2
      BY TextLen
    <2> QED
      BY <1>3, <2>1
  <1>5. g[1] = LinesStep(whole, 1, g[2])
    <2>1. 1 \in 1..Len(whole) + 1 /\ 1 + 1 = 2
      BY <1>1, TextLen
    <2> QED
      BY <1>3, <2>1, SplitsAt
  <1>6. Lines(whole) = g[1] /\ Lines(t) = f[1]
    BY <1>1, <1>2, <1>3, LinesBy
  <1> QED
    BY <1>1, <1>4, <1>5, <1>6

LEMMA ConsFirst ==
    ASSUME NEW C, NEW c \in C, NEW t \in Text(C)
    PROVE  (One(c) ++ t)[1] = c /\ ~(1 > Len(One(c) ++ t))
  BY ConsIndex, TextLen

LEMMA LinesNothing == Lines(<<>>) = One(<<>>)
  <1>1. <<>> \in Text({})
    BY NothingType
  <1>2. PICK f : Splits(<<>>, f)
    BY <1>1, SplitsExists
  <1>3. f[1] = One(<<>>)
    <2>1. 1 \in 1..Len(<<>>) + 1 /\ 1 > Len(<<>>)
      OBVIOUS
    <2> QED
      BY <1>2, <2>1, SplitsAt DEF LinesStep
  <1> QED
    BY <1>1, <1>2, <1>3, LinesBy

LEMMA LinesAtNewline ==
    ASSUME NEW C, "\n" \in C, NEW t \in Text(C)
    PROVE  Lines(One("\n") ++ t) = One(<<>>) ++ Lines(t)
  <1>1. PICK whole : whole = One("\n") ++ t
    OBVIOUS
  <1>2. whole[1] = "\n" /\ ~(1 > Len(whole))
    BY <1>1, ConsIndex, TextLen
  <1>3. LinesStep(whole, 1, Lines(t)) = One(<<>>) ++ Lines(t)
    BY <1>2 DEF LinesStep
  <1> QED
    BY <1>1, <1>3, LinesCons

LEMMA LinesAtReturn ==
    ASSUME NEW C, {"\r", "\n"} \subseteq C, NEW t \in Text(C)
    PROVE  Lines(One("\r") ++ (One("\n") ++ t)) = One(<<>>) ++ Lines(t)
  <1>1. "\r" \in C /\ "\n" \in C
    OBVIOUS
  <1>2. PICK u : u = One("\n") ++ t /\ u \in Text(C)
    BY <1>1, ConsIndex
  <1>3. PICK whole : whole = One("\r") ++ u
    OBVIOUS
  <1>4. u[1] = "\n" /\ Len(u) = Len(t) + 1 /\ Len(t) \in Nat
    BY <1>1, <1>2, ConsIndex, TextLen
  <1>5. whole[1] = "\r" /\ Len(whole) = Len(u) + 1
    BY <1>1, <1>2, <1>3, ConsIndex
  <1>6. whole[2] = "\n"
    <2>1. 1 \in 1..Len(u) /\ 1 + 1 = 2
      BY <1>4
    <2> QED
      BY <1>1, <1>2, <1>3, <1>4, <2>1, ConsRight
  <1>7. ~(1 > Len(whole)) /\ 1 < Len(whole) /\ 1 + 1 = 2
    BY <1>4, <1>5
  <1>8. LinesStep(whole, 1, Lines(u)) = Lines(u)
    BY <1>5, <1>6, <1>7 DEF LinesStep
  <1>9. Lines(whole) = Lines(u)
    BY <1>1, <1>2, <1>3, <1>8, LinesCons
  <1>10. Lines(u) = One(<<>>) ++ Lines(t)
    BY <1>1, <1>2, LinesAtNewline
  <1> QED
    BY <1>2, <1>3, <1>9, <1>10

LEMMA LinesAtOther ==
    ASSUME NEW C, NEW c \in C, NEW t \in Text(C), c \notin {"\r", "\n"}
    PROVE  Lines(One(c) ++ t) = Glued(c, Lines(t))
  <1>1. PICK whole : whole = One(c) ++ t
    OBVIOUS
  <1>2. whole[1] = c /\ ~(1 > Len(whole))
    BY <1>1, ConsIndex, TextLen
  <1>3. LinesStep(whole, 1, Lines(t)) = Glued(c, Lines(t))
    BY <1>2 DEF LinesStep
  <1> QED
    BY <1>1, <1>3, LinesCons

LEMMA GluedFirst ==
    ASSUME NEW C, NEW c \in C, NEW l \in Text(C), NEW ls \in Text(Text(C))
    PROVE  Glued(c, One(l) ++ ls) = One(One(c) ++ l) ++ ls
  <1>1. Head(One(l) ++ ls) = l
    BY HeadOfCons
  <1>2. Tail(One(l) ++ ls) = ls
    BY TailOfCons
  <1> QED
    BY <1>1, <1>2 DEF Glued

(* The characters of a line. *)
Inline(C) == C \ {"\r", "\n"}

LEMMA LinesGlue ==
    ASSUME NEW C, NEW u \in Text(C), NEW ls \in Text(Text(C)), Lines(u) = One(<<>>) ++ ls,
           NEW line \in Text(Inline(C))
    PROVE  Lines(line ++ u) = One(line) ++ ls
  <1> DEFINE T == {l \in Text(C) : Lines(l ++ u) = One(l) ++ ls}
  <1>1. <<>> \in T
    BY NothingType, NothingCat
  <1>2. ASSUME NEW l \in Text(Inline(C)), NEW c \in Inline(C), l \in T
        PROVE  One(c) ++ l \in T
    <2>1. c \in C /\ c \notin {"\r", "\n"}
      BY DEF Inline
    <2>2. l \in Text(C) /\ Lines(l ++ u) = One(l) ++ ls
      BY <1>2
    <2>3. One(c) \in Text(C)
      BY <2>1, OneType
    <2>4. (One(c) ++ l) ++ u = One(c) ++ (l ++ u)
      BY <2>2, <2>3, CatAssoc
    <2>5. l ++ u \in Text(C)
      BY <2>2, CatType
    <2>6. Lines(One(c) ++ (l ++ u)) = Glued(c, Lines(l ++ u))
      BY <2>1, <2>5, LinesAtOther
    <2>7. Glued(c, One(l) ++ ls) = One(One(c) ++ l) ++ ls
      BY <2>1, <2>2, GluedFirst
    <2>8. One(c) ++ l \in Text(C)
      BY <2>2, <2>3, CatType
    <2> QED
      BY <2>2, <2>4, <2>6, <2>7, <2>8
  <1> HIDE DEF T
  <1>3. line \in T
    BY <1>1, <1>2, TextInduction
  <1> QED
    BY <1>3 DEF T

LEMMA LinesType ==
    ASSUME NEW C, NEW t \in Text(C)
    PROVE  \E l \in Text(C), ls \in Text(Text(C)) : Lines(t) = One(l) ++ ls
  <1> DEFINE T == {s \in Text(C) : \E l \in Text(C), ls \in Text(Text(C)) : Lines(s) = One(l) ++ ls}
  <1>1. <<>> \in T
    <2>1. <<>> \in Text(C) /\ <<>> \in Text(Text(C))
      BY NothingType
    <2>2. One(<<>>) \in Text(Text(C))
      BY <2>1, OneType
    <2>3. One(<<>>) ++ <<>> = One(<<>>)
      BY <2>2, CatNothing
    <2>4. Lines(<<>>) = One(<<>>) ++ <<>>
      BY <2>3, LinesNothing
    <2> QED
      BY <2>1, <2>4
  <1>2. ASSUME NEW s \in Text(C), NEW c \in C, s \in T
        PROVE  One(c) ++ s \in T
    <2>1. PICK l \in Text(C), ls \in Text(Text(C)) : Lines(s) = One(l) ++ ls
      BY <1>2
    <2>2. PICK whole : whole = One(c) ++ s /\ whole \in Text(C)
      BY ConsIndex
    <2>3. Lines(whole) = LinesStep(whole, 1, Lines(s))
      BY <2>2, LinesCons
    <2>4. /\ <<>> \in Text(C) /\ One(l) ++ ls \in Text(Text(C)) /\ One(c) ++ l \in Text(C)
          /\ <<>> \in Text(Text(C))
      BY NothingType, ConsIndex
    <2>5. One(<<>>) \in Text(Text(C))
      BY <2>4, OneType
    <2>6. One(<<>>) ++ <<>> = One(<<>>)
      BY <2>5, CatNothing
    <2>7. Glued(c, One(l) ++ ls) = One(One(c) ++ l) ++ ls
      BY GluedFirst
    <2>8. whole[1] = c /\ ~(1 > Len(whole))
      BY <2>2, ConsFirst
    <2>9. \/ Lines(whole) = One(<<>>) ++ (One(l) ++ ls)
          \/ Lines(whole) = One(l) ++ ls
          \/ Lines(whole) = One(One(c) ++ l) ++ ls
      BY <2>1, <2>3, <2>7, <2>8 DEF LinesStep
    <2> QED
      BY <2>2, <2>4, <2>9
  <1> HIDE DEF T
  <1>3. t \in T
    BY <1>1, <1>2, TextInduction
  <1> QED
    BY <1>3 DEF T

LEMMA LinesAreTexts ==
    ASSUME NEW C, NEW t \in Text(C)
    PROVE  Lines(t) \in Text(Text(C))
  <1>1. PICK l \in Text(C), ls \in Text(Text(C)) : Lines(t) = One(l) ++ ls
    BY LinesType
  <1> QED
    BY <1>1, ConsIndex

(* A line ends at a newline, with or without a carriage return before it. *)
LEMMA FirstLine ==
    ASSUME NEW C, "\n" \in C, NEW line \in Text(Inline(C)), NEW t \in Text(C)
    PROVE  Lines(line ++ (One("\n") ++ t)) = One(line) ++ Lines(t)
  <1>1. PICK u : u = One("\n") ++ t /\ u \in Text(C)
    BY ConsIndex
  <1>2. Lines(u) = One(<<>>) ++ Lines(t)
    BY <1>1, LinesAtNewline
  <1>3. Lines(t) \in Text(Text(C))
    BY LinesAreTexts
  <1> QED
    BY <1>1, <1>2, <1>3, LinesGlue

LEMMA FirstLineWithReturn ==
    ASSUME NEW C, {"\r", "\n"} \subseteq C, NEW line \in Text(Inline(C)), NEW t \in Text(C)
    PROVE  Lines(line ++ (One("\r") ++ (One("\n") ++ t))) = One(line) ++ Lines(t)
  <1>1. "\r" \in C /\ "\n" \in C
    OBVIOUS
  <1>2. PICK u : u = One("\r") ++ (One("\n") ++ t) /\ u \in Text(C)
    BY <1>1, ConsIndex
  <1>3. Lines(u) = One(<<>>) ++ Lines(t)
    BY <1>2, LinesAtReturn
  <1>4. Lines(t) \in Text(Text(C))
    BY LinesAreTexts
  <1> QED
    BY <1>2, <1>3, <1>4, LinesGlue

-----------------------------------------------------------------------------
(* The first of a character, and op run's reader line by line. *)

LEMMA LeastOf ==
    ASSUME NEW I, I \subseteq Nat, NEW m \in I, \A i \in I : m <= i
    PROVE  Min(I) = m
  <1>1. \A x \in I : (\A y \in I : x <= y) => x = m
    OBVIOUS
  <1> QED
    BY <1>1 DEF Min

LEMMA GreatestOf ==
    ASSUME NEW I, I \subseteq Nat, NEW m \in I, \A i \in I : i <= m
    PROVE  Max(I) = m
  <1>1. \A x \in I : (\A y \in I : x >= y) => x = m
    OBVIOUS
  <1> QED
    BY <1>1 DEF Max

IndexOf(text, c) == SelectInSeq(text, LAMBDA x : x = c)

LEMMA IndexOfFirst ==
    ASSUME NEW C, NEW c \in C, NEW s \in Text(C \ {c}), NEW t \in Text(C)
    PROVE  IndexOf(s ++ (One(c) ++ t), c) = Len(s) + 1
  <1>1. s \in Text(C)
    BY TextOfMore
  <1>2. PICK u : u = One(c) ++ t /\ u \in Text(C)
    BY ConsIndex
  <1>3. PICK whole : whole = s ++ u /\ whole \in Text(C)
    BY <1>1, <1>2, CatType
  <1>4. Len(s) \in Nat /\ Len(u) = Len(t) + 1 /\ Len(t) \in Nat /\ Len(whole) = Len(s) + Len(u)
    <2>1. Len(u) = Len(t) + 1
      BY <1>2, ConsIndex
    <2>2. Len(whole) = Len(s) + Len(u)
      BY <1>1, <1>2, <1>3, CatLen
    <2>3. Len(s) \in Nat /\ Len(t) \in Nat
      BY TextLen
    <2> QED
      BY <2>1, <2>2, <2>3
  <1>5. \A i \in 1..Len(s) : whole[i] # c
    <2> SUFFICES ASSUME NEW i \in 1..Len(s)
                 PROVE  whole[i] # c
      OBVIOUS
    <2>1. whole[i] = s[i]
      BY <1>1, <1>2, <1>3, CatLeft
    <2>2. s[i] \in C \ {c}
      BY ElementOfSeq DEF Text
    <2> QED
      BY <2>1, <2>2
  <1>6. whole[Len(s) + 1] = c
    <2>1. u[1] = c
      BY <1>2, ConsFirst
    <2>2. 1 \in 1..Len(u)
      BY <1>4
    <2>3. whole[Len(s) + 1] = u[1]
      BY <1>1, <1>2, <1>3, <2>2, CatRight
    <2> QED
      BY <2>1, <2>3
  <1> DEFINE I == {i \in 1..Len(whole) : whole[i] = c}
  <1>7. I \subseteq Nat /\ Len(s) + 1 \in I
    BY <1>4, <1>6
  <1>8. \A i \in I : Len(s) + 1 <= i
    BY <1>4, <1>5
  <1>9. IndexOf(whole, c) = IF I # {} THEN Min(I) ELSE 0
    BY DEF IndexOf, SelectInSeq
  <1> HIDE DEF I
  <1>10. Min(I) = Len(s) + 1
    BY <1>7, <1>8, LeastOf
  <1> QED
    BY <1>2, <1>3, <1>7, <1>9, <1>10

(* What stands before and after the first c. *)
LEMMA AroundFirst ==
    ASSUME NEW C, NEW c \in C, NEW s \in Text(C \ {c}), NEW t \in Text(C)
    PROVE  LET whole == s ++ (One(c) ++ t)
           IN /\ SubSeq(whole, 1, IndexOf(whole, c) - 1) = s
              /\ SubSeq(whole, IndexOf(whole, c) + 1, Len(whole)) = t
  <1>1. s \in Text(C) /\ Len(s) \in Nat
    BY TextOfMore, TextLen
  <1>2. PICK one : one = One(c) /\ one \in Text(C)
    BY OneType
  <1>3. PICK u : u = one ++ t /\ u \in Text(C)
    BY <1>2, CatType
  <1>4. PICK whole : whole = s ++ u
    OBVIOUS
  <1>5. IndexOf(whole, c) = Len(s) + 1
    BY <1>2, <1>3, <1>4, IndexOfFirst
  <1>6. SubSeq(whole, 1, Len(s)) = s
    BY <1>1, <1>3, <1>4, LeftPart
  <1>7. SubSeq(whole, Len(s) + 2, Len(whole)) = t
    <2>1. PICK before : before = s ++ one /\ before \in Text(C)
      BY <1>1, <1>2, CatType
    <2>2. whole = before ++ t
      BY <1>1, <1>2, <1>3, <1>4, <2>1, CatAssoc
    <2>3. SubSeq(whole, Len(before) + 1, Len(whole)) = t
      BY <2>1, <2>2, RightPart
    <2>4. Len(one) = 1
      BY <1>2 DEF One
    <2>5. Len(before) = Len(s) + Len(one)
      BY <1>1, <1>2, <2>1, CatLen
    <2>6. Len(before) + 1 = Len(s) + 2
      BY <1>1, <2>4, <2>5
    <2> QED
      BY <2>3, <2>6
  <1>8. IndexOf(whole, c) - 1 = Len(s) /\ IndexOf(whole, c) + 1 = Len(s) + 2
    BY <1>1, <1>5
  <1> QED
    BY <1>2, <1>3, <1>4, <1>6, <1>7, <1>8

-----------------------------------------------------------------------------
(* Format, and op run's reading of it. *)

OpEntry(line) ==
    <<SubSeq(line, 1, IndexOf(line, "=") - 1),
      OpValue(SubSeq(line, IndexOf(line, "=") + 1, Len(line)))>>
OpEntries(line) == IF line = <<>> THEN <<>> ELSE One(OpEntry(line))
OpReader(C) == [line \in Text(C) |-> OpEntries(line)]

LEMMA OpReaderTexts ==
    ASSUME NEW C
    PROVE  Texts(OpReader(C), Text(C), {OpEntry(line) : line \in Text(C)})
  <1> DEFINE D == {OpEntry(line) : line \in Text(C)}
  <1> SUFFICES ASSUME NEW line \in Text(C)
               PROVE  OpReader(C)[line] \in Text(D)
    BY DEF Texts
  <1>1. PICK entry : entry = OpEntry(line) /\ entry \in D
    OBVIOUS
  <1> HIDE DEF D
  <1>2. OpReader(C)[line] = OpEntries(line)
    BY DEF OpReader
  <1>3. <<>> \in Text(D) /\ One(entry) \in Text(D)
    BY <1>1, NothingType, OneType
  <1> QED
    BY <1>1, <1>2, <1>3 DEF OpEntries

LEMMA OpReadsByLine ==
    ASSUME NEW C, NEW text \in Text(C)
    PROVE  OpReads(text) = FlatMap(OpReader(C), Lines(text))
  <1>1. PICK lines : lines = Lines(text) /\ lines \in Text(Text(C))
    BY LinesAreTexts
  <1>2. \A k \in DOMAIN lines : lines[k] \in Text(C)
    BY <1>1, LenProperties, ElementOfSeq DEF Text
  <1>3. [k \in DOMAIN lines |-> OpEntries(lines[k])] = Mapped(OpReader(C), lines)
    BY <1>2 DEF OpReader, Mapped
  <1>4. OpReads(text) = FlattenSeq([k \in DOMAIN lines |-> OpEntries(lines[k])])
    BY <1>1 DEF OpReads, OpEntries, OpEntry, IndexOf, SelectInSeq, One
  <1> QED
    BY <1>1, <1>3, <1>4 DEF FlatMap

(* The names an env file can hold. *)
ValidKeys(C) == {key \in Text(C) : VALID_KEY(key)}

LEMMA RangeOfText ==
    ASSUME NEW C, NEW s \in Text(C), NEW S, Range(s) \cap S = {}
    PROVE  s \in Text(C \ S)
  <1>1. DOMAIN s = 1..Len(s) /\ Len(s) \in Nat /\ s = [i \in 1..Len(s) |-> s[i]]
    BY LenProperties, SeqDef DEF Text
  <1>2. \A i \in 1..Len(s) : s[i] \in C
    BY ElementOfSeq DEF Text
  <1>3. \A i \in 1..Len(s) : s[i] \notin S
    BY <1>1 DEF Range
  <1> QED
    BY <1>1, <1>2, <1>3 DEF Text

LEMMA ValidKeyType ==
    ASSUME NEW C, NEW key \in ValidKeys(C)
    PROVE  /\ key \in Text(C) /\ key # <<>> /\ Head(key) # "#"
           /\ key \in Text(C \ (Spaces \cup {"="}))
  <1>1. key \in Text(C) /\ VALID_KEY(key)
    BY DEF ValidKeys
  <1> QED
    BY <1>1, RangeOfText DEF VALID_KEY

(* Escaping leaves no line break. *)
LEMMA EscapedIsInline ==
    ASSUME NEW C, Marks \subseteq C, NEW v \in Text(C)
    PROVE  Escaped(v) \in Text(Inline(C))
  <1> DEFINE T == {t \in Text(C) : Escaped(t) \in Text(Inline(C))}
  <1>1. <<>> \in T
    BY NothingType, EscapedNothing
  <1>2. ASSUME NEW t \in Text(C), NEW c \in C, t \in T
        PROVE  One(c) ++ t \in T
    <2>1. One(c) ++ t \in Text(C)
      BY ConsIndex
    <2>2. "\\" \in Inline(C) /\ "n" \in Inline(C) /\ "r" \in Inline(C)
      BY DEF Marks, Inline
    <2>3. \A x \in Inline(C) : Pair(x) \in Text(Inline(C))
      BY <2>2, OneType, CatType DEF Pair
    <2>4. EscapeOf(c) \in Text(Inline(C))
      <3>1. CASE c = "\n" \/ c = "\r"
        <4>1. EscapeOf(c) = Pair("n") \/ EscapeOf(c) = Pair("r")
          BY <3>1 DEF EscapeOf, Quote
        <4> QED
          BY <2>2, <2>3, <4>1
      <3>2. CASE ~(c = "\n" \/ c = "\r")
        <4>1. c \in Inline(C)
          BY <3>2 DEF Inline
        <4>2. EscapeOf(c) = Pair(c) \/ EscapeOf(c) = One(c)
          BY <3>2 DEF EscapeOf
        <4> QED
          BY <2>3, <4>1, <4>2, OneType
      <3> QED
        BY <3>1, <3>2
    <2>5. Escaped(One(c) ++ t) = EscapeOf(c) ++ Escaped(t)
      BY EscapedCons
    <2>6. Escaped(t) \in Text(Inline(C))
      BY <1>2
    <2> QED
      BY <2>1, <2>4, <2>5, <2>6, CatType
  <1> HIDE DEF T
  <1>3. v \in T
    BY <1>1, <1>2, TextInduction
  <1> QED
    BY <1>3 DEF T

-----------------------------------------------------------------------------
(* The written env file. *)

LEMMA SafeValue ==
    ASSUME NEW C, NEW v \in Text(C), SAFE_UNQUOTED(v)
    PROVE  v \in Text(Inline(C)) /\ OpValue(v) = v
  <1>1. v # <<>> /\ Range(v) \subseteq Letters
    BY DEF SAFE_UNQUOTED
  <1>2. v \in Text(Inline(C))
    <2>1. Range(v) \cap {"\r", "\n"} = {}
      BY <1>1 DEF Letters
    <2> QED
      BY <2>1, RangeOfText DEF Inline
  <1>3. Head(v) # Quote
    <2>1. v \in Seq(C) /\ DOMAIN v = 1..Len(v) /\ Len(v) \in Nat /\ Len(v) # 0
      BY <1>1, LenProperties, EmptySeq DEF Text
    <2>2. Head(v) = v[1] /\ 1 \in DOMAIN v
      BY <2>1
    <2>3. v[1] \in Letters
      BY <1>1, <2>2 DEF Range
    <2> QED
      BY <2>2, <2>3 DEF Letters, Quote
  <1> QED
    BY <1>2, <1>3 DEF OpValue

LEMMA QuotedValue ==
    ASSUME NEW C, Marks \subseteq C, Quote \in C, NEW v \in Text(C)
    PROVE  LET written == One(Quote) ++ (Escaped(v) ++ One(Quote))
           IN written \in Text(Inline(C)) /\ OpValue(written) = v
  <1>1. PICK e : e = Escaped(v) /\ e \in Text(C) /\ e \in Text(Inline(C))
    BY EscapedType, EscapedIsInline
  <1>2. Quote \in Inline(C)
    BY DEF Inline, Quote
  <1>3. PICK written : written = One(Quote) ++ (e ++ One(Quote))
    OBVIOUS
  <1>4. written \in Text(Inline(C))
    BY <1>1, <1>2, <1>3, MiddlePart
  <1>5. /\ Len(written) = Len(e) + 2
        /\ Head(written) = Quote /\ Last(written) = Quote
        /\ SubSeq(written, 2, Len(written) - 1) = e
    BY <1>1, <1>3, MiddlePart
  <1>6. Len(written) >= 2
    BY <1>1, <1>5, TextLen
  <1>7. OpValue(written) = Unescaped(e)
    BY <1>5, <1>6 DEF OpValue
  <1>8. Unescaped(e) = v
    BY <1>1, UnescapedEscaped
  <1> QED
    BY <1>1, <1>3, <1>4, <1>7, <1>8

(* A value, formatted, stays on its line, and op run reads it back.  *)
LEMMA FormattedValue ==
    ASSUME NEW C, Marks \subseteq C, Quote \in C, NEW v \in Text(C)
    PROVE  FormatValue(v) \in Text(Inline(C)) /\ OpValue(FormatValue(v)) = v
  <1>1. CASE SAFE_UNQUOTED(v)
    <2>1. FormatValue(v) = v
      BY <1>1 DEF FormatValue
    <2> QED
      BY <1>1, <2>1, SafeValue
  <1>2. CASE ~SAFE_UNQUOTED(v)
    <2>1. PICK e : e = Escaped(v) /\ e \in Text(C)
      BY EscapedType
    <2>2. FormatValue(v) = (One(Quote) ++ e) ++ One(Quote)
      BY <1>2, <2>1 DEF FormatValue, One, ++
    <2>3. One(Quote) \in Text(C)
      BY OneType
    <2>4. FormatValue(v) = One(Quote) ++ (e ++ One(Quote))
      BY <2>1, <2>2, <2>3, CatAssoc
    <2> QED
      BY <2>1, <2>4, QuotedValue
  <1> QED
    BY <1>1, <1>2

EnvEntries(C) == ValidKeys(C) \X Text(C)

WrittenLine(e) == e[1] ++ (One("=") ++ FormatValue(e[2]))
Writer(C) == [e \in EnvEntries(C) |-> WrittenLine(e) ++ One("\n")]

LEMMA EntryParts ==
    ASSUME NEW C, NEW e \in EnvEntries(C)
    PROVE  e[1] \in ValidKeys(C) /\ e[2] \in Text(C) /\ e = <<e[1], e[2]>>
  BY DEF EnvEntries


LEMMA CharactersIn ==
    ASSUME NEW C, FormatCharacters \subseteq C
    PROVE  /\ Marks \subseteq C /\ Quote \in C /\ "=" \in C /\ "\n" \in C /\ "\r" \in C
           /\ "=" \in Inline(C) /\ "'" \in C /\ "#" \in C /\ "export" \in C /\ Blank \in C
           /\ Bom \in C /\ "A" \in C /\ "x" \in C
  BY DEF FormatCharacters, Spaces, Inline, Letters, Marks

LEMMA WrittenLineType ==
    ASSUME NEW C, FormatCharacters \subseteq C, NEW e \in EnvEntries(C)
    PROVE  WrittenLine(e) \in Text(Inline(C))
  <1>1. e[1] \in ValidKeys(C) /\ e[2] \in Text(C)
    BY EntryParts
  <1>2. e[1] \in Text(Inline(C))
    <2>1. e[1] \in Text(C \ (Spaces \cup {"="}))
      BY <1>1, ValidKeyType
    <2>2. C \ (Spaces \cup {"="}) \subseteq Inline(C)
      BY DEF Spaces, Inline
    <2> QED
      BY <2>1, <2>2, TextOfMore
  <1>3. FormatValue(e[2]) \in Text(Inline(C))
    BY <1>1, CharactersIn, FormattedValue
  <1>4. "=" \in Inline(C)
    BY CharactersIn
  <1>5. One("=") ++ FormatValue(e[2]) \in Text(Inline(C))
    BY <1>3, <1>4, ConsIndex
  <1> QED
    BY <1>2, <1>5, CatType DEF WrittenLine

LEMMA WrittenLineIsRead ==
    ASSUME NEW C, FormatCharacters \subseteq C, NEW e \in EnvEntries(C)
    PROVE  OpEntries(WrittenLine(e)) = One(e)
  <1>1. PICK key \in ValidKeys(C), v \in Text(C) : e = <<key, v>> /\ key = e[1] /\ v = e[2]
    BY EntryParts
  <1>2. PICK fv : fv = FormatValue(v) /\ fv \in Text(C) /\ OpValue(fv) = v
    <2>1. FormatValue(v) \in Text(Inline(C)) /\ OpValue(FormatValue(v)) = v
      BY CharactersIn, FormattedValue
    <2>2. Inline(C) \subseteq C
      BY DEF Inline
    <2> QED
      BY <2>1, <2>2, TextOfMore
  <1>3. "=" \in C
    BY CharactersIn
  <1>4. key \in Text(C \ {"="}) /\ key \in Text(C)
    <2>1. key \in Text(C \ (Spaces \cup {"="})) /\ key \in Text(C)
      BY ValidKeyType
    <2>2. C \ (Spaces \cup {"="}) \subseteq C \ {"="}
      OBVIOUS
    <2> QED
      BY <2>1, <2>2, TextOfMore
  <1>5. PICK line : line = key ++ (One("=") ++ fv)
    OBVIOUS
  <1>6. /\ SubSeq(line, 1, IndexOf(line, "=") - 1) = key
        /\ SubSeq(line, IndexOf(line, "=") + 1, Len(line)) = fv
    BY <1>2, <1>3, <1>4, <1>5, AroundFirst
  <1>7. OpEntry(line) = e
    BY <1>1, <1>2, <1>6 DEF OpEntry
  <1>8. line # <<>>
    <2>1. PICK rest : rest = One("=") ++ fv /\ rest \in Text(C) /\ Len(rest) = Len(fv) + 1
      BY <1>2, <1>3, ConsIndex
    <2>2. Len(line) = Len(key) + Len(rest)
      BY <1>4, <1>5, <2>1, CatLen
    <2>3. Len(key) \in Nat /\ Len(fv) \in Nat
      BY <1>2, <1>4, TextLen
    <2>4. Len(line) > 0
      BY <2>1, <2>2, <2>3
    <2> QED
      BY <2>4
  <1>9. OpEntries(line) = One(e)
    BY <1>7, <1>8 DEF OpEntries
  <1>10. WrittenLine(e) = line
    BY <1>1, <1>2, <1>5 DEF WrittenLine
  <1> QED
    BY <1>9, <1>10

LEMMA WriterTexts ==
    ASSUME NEW C, FormatCharacters \subseteq C
    PROVE  Texts(Writer(C), EnvEntries(C), C)
  <1> SUFFICES ASSUME NEW e \in EnvEntries(C)
               PROVE  Writer(C)[e] \in Text(C)
    BY DEF Texts
  <1>1. WrittenLine(e) \in Text(C)
    <2>1. WrittenLine(e) \in Text(Inline(C))
      BY WrittenLineType
    <2>2. Inline(C) \subseteq C
      BY DEF Inline
    <2> QED
      BY <2>1, <2>2, TextOfMore
  <1>2. One("\n") \in Text(C)
    BY CharactersIn, OneType
  <1>3. Writer(C)[e] = WrittenLine(e) ++ One("\n")
    BY DEF Writer
  <1> QED
    BY <1>1, <1>2, <1>3, CatType

LEMMA FormatByEntry ==
    ASSUME NEW C, FormatCharacters \subseteq C, NEW env \in Text(EnvEntries(C))
    PROVE  Format(env) = FlatMap(Writer(C), env)
  <1>1. \A i \in DOMAIN env : env[i] \in EnvEntries(C)
    BY LenProperties, ElementOfSeq DEF Text
  <1>2. ASSUME NEW e \in EnvEntries(C)
        PROVE  ((e[1] ++ One("=")) ++ FormatValue(e[2])) ++ One("\n") = Writer(C)[e]
    <2>1. PICK key : key = e[1] /\ key \in Text(C)
      BY EntryParts, ValidKeyType
    <2>2. PICK fv : fv = FormatValue(e[2]) /\ fv \in Text(C)
      <3>1. FormatValue(e[2]) \in Text(Inline(C))
        BY EntryParts, CharactersIn, FormattedValue
      <3>2. Inline(C) \subseteq C
        BY DEF Inline
      <3> QED
        BY <3>1, <3>2, TextOfMore
    <2>3. PICK eq : eq = One("=") /\ eq \in Text(C)
      BY CharactersIn, OneType
    <2>4. (key ++ eq) ++ fv = key ++ (eq ++ fv)
      BY <2>1, <2>2, <2>3, CatAssoc
    <2> QED
      BY <2>1, <2>2, <2>3, <2>4 DEF Writer, WrittenLine
  <1>3. [i \in DOMAIN env |-> ((env[i][1] ++ One("=")) ++ FormatValue(env[i][2])) ++ One("\n")]
            = Mapped(Writer(C), env)
    BY <1>1, <1>2 DEF Mapped
  <1>4. Format(env) = FlattenSeq([i \in DOMAIN env |->
            ((env[i][1] ++ One("=")) ++ FormatValue(env[i][2])) ++ One("\n")])
    BY DEF Format, One, ++
  <1> QED
    BY <1>3, <1>4 DEF FlatMap

(* dotenv.ts:128-173 and op run: whatever the values hold, the file that the *)
(* extension writes is read back entry by entry.                             *)
THEOREM OpReadsWhatFormatWrites ==
    ASSUME NEW C, FormatCharacters \subseteq C, NEW env \in Text(EnvEntries(C))
    PROVE  OpReads(Format(env)) = env
  <1>1. Texts(Writer(C), EnvEntries(C), C)
    BY WriterTexts
  <1>2. PICK r, D : r = OpReader(C) /\ Texts(r, Text(C), D)
    BY OpReaderTexts
  <1> DEFINE T == {t \in Text(EnvEntries(C)) : OpReads(Format(t)) = t}
  <1>3. <<>> \in T
    <2>1. <<>> \in Text(EnvEntries(C)) /\ <<>> \in Text(C)
      BY NothingType
    <2>2. Format(<<>>) = <<>>
      BY <2>1, FormatByEntry, FlatMapNothing
    <2>3. OpReads(<<>>) = FlatMap(r, One(<<>>))
      BY <1>2, <2>1, OpReadsByLine, LinesNothing
    <2>4. FlatMap(r, One(<<>>)) = r[<<>>]
      BY <1>2, <2>1, FlatMapOne
    <2>5. r[<<>>] = <<>>
      BY <1>2, <2>1 DEF OpReader, OpEntries
    <2> QED
      BY <2>1, <2>2, <2>3, <2>4, <2>5
  <1>4. ASSUME NEW t \in Text(EnvEntries(C)), NEW e \in EnvEntries(C), t \in T
        PROVE  One(e) ++ t \in T
    <2>1. PICK es : es = One(e) ++ t /\ es \in Text(EnvEntries(C))
      BY ConsIndex
    <2>2. PICK rest : rest = Format(t) /\ rest \in Text(C) /\ OpReads(rest) = t
      BY <1>1, <1>4, FormatByEntry, FlatMapType
    <2>3. PICK line : line = WrittenLine(e) /\ line \in Text(Inline(C)) /\ line \in Text(C)
      <3>1. WrittenLine(e) \in Text(Inline(C))
        BY WrittenLineType
      <3>2. Inline(C) \subseteq C
        BY DEF Inline
      <3> QED
        BY <3>1, <3>2, TextOfMore
    <2>4. "\n" \in C /\ One("\n") \in Text(C)
      BY CharactersIn, OneType
    <2>5. Format(es) = line ++ (One("\n") ++ rest)
      <3>1. Format(es) = FlatMap(Writer(C), es)
        BY <2>1, FormatByEntry
      <3>2. rest = FlatMap(Writer(C), t)
        BY <2>2, FormatByEntry
      <3>3. FlatMap(Writer(C), One(e) ++ t) = Writer(C)[e] ++ FlatMap(Writer(C), t)
        BY <1>1, FlatMapCons
      <3>4. Writer(C)[e] = line ++ One("\n")
        BY <2>3 DEF Writer
      <3>5. (line ++ One("\n")) ++ rest = line ++ (One("\n") ++ rest)
        BY <2>2, <2>3, <2>4, CatAssoc
      <3> QED
        BY <2>1, <3>1, <3>2, <3>3, <3>4, <3>5
    <2>6. PICK written : written = line ++ (One("\n") ++ rest) /\ written \in Text(C)
      BY <2>2, <2>3, <2>4, ConsIndex, CatType
    <2>7. Lines(written) = One(line) ++ Lines(rest)
      BY <2>2, <2>3, <2>4, <2>6, FirstLine
    <2>8. PICK others : others = Lines(rest) /\ others \in Text(Text(C))
      BY <2>2, LinesAreTexts
    <2>9. OpReads(written) = FlatMap(r, One(line) ++ others)
      BY <1>2, <2>6, <2>7, <2>8, OpReadsByLine
    <2>10. FlatMap(r, One(line) ++ others) = r[line] ++ FlatMap(r, others)
      BY <1>2, <2>3, <2>8, FlatMapCons
    <2>11. r[line] = One(e)
      BY <1>2, <2>3, WrittenLineIsRead DEF OpReader
    <2>12. FlatMap(r, others) = t
      BY <1>2, <2>2, <2>8, OpReadsByLine
    <2> QED
      BY <2>1, <2>5, <2>6, <2>9, <2>10, <2>11, <2>12
  <1> HIDE DEF T
  <1>5. env \in T
    BY <1>3, <1>4, TextInduction
  <1> QED
    BY <1>5 DEF T

-----------------------------------------------------------------------------
(* Trimming. *)

(* What stands around the text of an env file. *)

LEMMA HeadIsFirst ==
    ASSUME NEW C, NEW t \in Text(C), t # <<>>
    PROVE  Head(t) = t[1] /\ Head(t) \in C /\ Len(t) \in Nat /\ 1 \in 1..Len(t)
  <1>1. t \in Seq(C) /\ Len(t) \in Nat /\ Len(t) # 0
    BY LenProperties, EmptySeq DEF Text
  <1>2. Head(t) = t[1] /\ 1 \in 1..Len(t)
    BY <1>1
  <1>3. t[1] \in C
    BY <1>1, <1>2, ElementOfSeq
  <1> QED
    BY <1>1, <1>2, <1>3

(* The place of the first character that is no blank. *)
FirstOutside(text) == SelectInSeq(text, LAMBDA c : c \notin Spaces)

LEMMA TrimStartByPlace ==
    ASSUME NEW text
    PROVE  TrimStart(text) = IF FirstOutside(text) = 0 THEN <<>>
                             ELSE SubSeq(text, FirstOutside(text), Len(text))
  BY DEF TrimStart, FirstOutside, SelectInSeq

LEMMA TrimStartNothing == TrimStart(<<>>) = <<>>
  <1>1. FirstOutside(<<>>) = 0
    BY DEF FirstOutside, SelectInSeq
  <1> QED
    BY <1>1, TrimStartByPlace

LEMMA TrimStartKeeps ==
    ASSUME NEW C, NEW t \in Text(C), t # <<>>, Head(t) \notin Spaces
    PROVE  TrimStart(t) = t
  <1>1. Head(t) = t[1] /\ Len(t) \in Nat /\ 1 \in 1..Len(t)
    BY HeadIsFirst
  <1> DEFINE I == {i \in 1..Len(t) : t[i] \notin Spaces}
  <1>2. I \subseteq Nat /\ 1 \in I /\ \A i \in I : 1 <= i
    BY <1>1
  <1>3. FirstOutside(t) = IF I # {} THEN Min(I) ELSE 0
    BY DEF FirstOutside, SelectInSeq
  <1> HIDE DEF I
  <1>4. Min(I) = 1
    BY <1>2, LeastOf
  <1>5. TrimStart(t) = SubSeq(t, 1, Len(t))
    BY <1>2, <1>3, <1>4, TrimStartByPlace
  <1> QED
    BY <1>5, SubSeqFull DEF Text

LEMMA TrimStartDrops ==
    ASSUME NEW C, NEW c \in C, c \in Spaces, NEW t \in Text(C), t # <<>>, Head(t) \notin Spaces
    PROVE  TrimStart(One(c) ++ t) = t
  <1>1. PICK one : one = One(c) /\ one \in Text(C) /\ Len(one) = 1
    <2>1. Len(One(c)) = 1
      BY DEF One
    <2> QED
      BY <2>1, OneType
  <1>2. PICK whole : whole = one ++ t
    OBVIOUS
  <1>3. whole[1] = c /\ Len(whole) = Len(t) + 1
    BY <1>1, <1>2, ConsIndex
  <1>4. Head(t) = t[1] /\ Len(t) \in Nat /\ 1 \in 1..Len(t)
    BY HeadIsFirst
  <1>5. whole[2] = t[1]
    <2>1. whole[1 + 1] = t[1]
      BY <1>1, <1>2, <1>4, ConsRight
    <2> QED
      BY <2>1
  <1> DEFINE I == {i \in 1..Len(whole) : whole[i] \notin Spaces}
  <1>6. I \subseteq Nat /\ 2 \in I /\ \A i \in I : 2 <= i
    <2>1. 2 \in I
      BY <1>3, <1>4, <1>5
    <2>2. 1 \notin I
      BY <1>3
    <2> QED
      BY <2>1, <2>2
  <1>7. FirstOutside(whole) = IF I # {} THEN Min(I) ELSE 0
    BY DEF FirstOutside, SelectInSeq
  <1> HIDE DEF I
  <1>8. Min(I) = 2
    BY <1>6, LeastOf
  <1>9. TrimStart(whole) = SubSeq(whole, 2, Len(whole))
    BY <1>6, <1>7, <1>8, TrimStartByPlace
  <1>10. SubSeq(whole, Len(one) + 1, Len(whole)) = t
    BY <1>1, <1>2, RightPart
  <1>11. Len(one) + 1 = 2
    BY <1>1
  <1> QED
    BY <1>1, <1>2, <1>9, <1>10, <1>11

LEMMA ReverseType ==
    ASSUME NEW C, NEW t \in Text(C)
    PROVE  /\ Reverse(t) \in Text(C) /\ Len(Reverse(t)) = Len(t)
           /\ \A i \in 1..Len(t) : Reverse(t)[i] = t[Len(t) - i + 1]
  <1>1. Len(t) \in Nat
    BY TextLen
  <1>2. \A i \in 1..Len(t) : t[Len(t) - i + 1] \in C
    BY <1>1, ElementOfSeq DEF Text
  <1>3. Reverse(t) = [i \in 1..Len(t) |-> t[Len(t) - i + 1]]
    BY DEF Reverse
  <1>4. Reverse(t) \in Seq(C)
    BY <1>1, <1>2, <1>3
  <1>5. Len(Reverse(t)) = Len(t)
    BY <1>1, <1>3
  <1> QED
    BY <1>3, <1>4, <1>5 DEF Text

LEMMA ReverseAt ==
    ASSUME NEW C, NEW t \in Text(C), NEW i \in 1..Len(t)
    PROVE  Reverse(t)[i] = t[Len(t) - i + 1]
  BY ReverseType

LEMMA ReverseTwice ==
    ASSUME NEW C, NEW t \in Text(C)
    PROVE  Reverse(Reverse(t)) = t
  <1>1. PICK r : r = Reverse(t) /\ r \in Text(C) /\ Len(r) = Len(t)
    BY ReverseType
  <1>2. PICK rr : rr = Reverse(r) /\ rr \in Text(C) /\ Len(rr) = Len(r)
    BY <1>1, ReverseType
  <1>3. ASSUME NEW i \in 1..Len(rr)
        PROVE  rr[i] = t[i]
    <2>1. Len(t) \in Nat
      BY TextLen
    <2>2. i \in 1..Len(r) /\ Len(r) - i + 1 \in 1..Len(t)
      BY <1>1, <1>2, <2>1
    <2>3. rr[i] = r[Len(r) - i + 1]
      BY <1>1, <1>2, <2>2, ReverseAt
    <2>4. r[Len(r) - i + 1] = t[Len(t) - (Len(r) - i + 1) + 1]
      BY <1>1, <2>2, ReverseAt
    <2>5. Len(t) - (Len(r) - i + 1) + 1 = i
      BY <1>1, <2>1, <2>2
    <2> QED
      BY <2>3, <2>4, <2>5
  <1>4. rr = t
    BY <1>1, <1>2, <1>3, TextEqual
  <1> QED
    BY <1>1, <1>2, <1>4

LEMMA ReverseSnoc ==
    ASSUME NEW C, NEW t \in Text(C), NEW c \in C
    PROVE  Reverse(t ++ One(c)) = One(c) ++ Reverse(t)
  <1>1. PICK one : one = One(c) /\ one \in Text(C) /\ Len(one) = 1 /\ one[1] = c
    <2>1. Len(One(c)) = 1 /\ One(c)[1] = c
      BY DEF One
    <2> QED
      BY <2>1, OneType
  <1>2. PICK whole : whole = t ++ one /\ whole \in Text(C)
    BY <1>1, CatType
  <1>3. Len(whole) = Len(t) + 1 /\ Len(t) \in Nat
    <2>1. Len(whole) = Len(t) + Len(one)
      BY <1>1, <1>2, CatLen
    <2> QED
      BY <1>1, <2>1, TextLen
  <1>4. PICK r : r = Reverse(t) /\ r \in Text(C) /\ Len(r) = Len(t)
    BY ReverseType
  <1>5. PICK rw : rw = Reverse(whole) /\ rw \in Text(C) /\ Len(rw) = Len(whole)
    BY <1>2, ReverseType
  <1>6. PICK other : other = One(c) ++ r /\ other \in Text(C) /\ Len(other) = Len(r) + 1
    BY <1>4, ConsIndex
  <1>7. ASSUME NEW i \in 1..Len(rw)
        PROVE  rw[i] = other[i]
    <2>1. i \in 1..Len(whole)
      BY <1>5
    <2>2. rw[i] = whole[Len(whole) - i + 1]
      BY <1>2, <1>5, <2>1, ReverseAt
    <2>3. CASE i = 1
      <3>1. Len(whole) - i + 1 = Len(t) + 1
        BY <1>3, <2>3
      <3>2. whole[Len(t) + 1] = one[1]
        <4>1. 1 \in 1..Len(one)
          BY <1>1
        <4> QED
          BY <1>1, <1>2, <4>1, CatRight
      <3>3. other[1] = c
        BY <1>4, <1>6, ConsFirst
      <3> QED
        BY <1>1, <2>2, <2>3, <3>1, <3>2, <3>3
    <2>4. CASE i # 1
      <3>1. i - 1 \in 1..Len(t) /\ Len(whole) - i + 1 \in 1..Len(t)
        BY <1>3, <2>1, <2>4
      <3>2. whole[Len(whole) - i + 1] = t[Len(whole) - i + 1]
        BY <1>1, <1>2, <3>1, CatLeft
      <3>3. other[i - 1 + 1] = r[i - 1]
        <4>1. PICK m : m = i - 1 /\ m \in 1..Len(r)
          BY <1>4, <3>1
        <4>2. r \in Text(C) /\ m \in 1..Len(r)
          BY <1>4, <4>1
        <4>3. (One(c) ++ r)[m + 1] = r[m]
          BY <4>2, ConsRight
        <4> QED
          BY <1>6, <4>1, <4>3
      <3>4. r[i - 1] = t[Len(t) - (i - 1) + 1]
        BY <1>4, <3>1, ReverseAt
      <3>5. i - 1 + 1 = i /\ Len(t) - (i - 1) + 1 = Len(whole) - i + 1
        BY <1>3, <2>1
      <3> QED
        BY <2>2, <3>2, <3>3, <3>4, <3>5
    <2> QED
      BY <2>3, <2>4
  <1>8. Len(rw) = Len(other)
    BY <1>3, <1>4, <1>5, <1>6
  <1>9. rw = other
    BY <1>5, <1>6, <1>7, <1>8, TextEqual
  <1> QED
    BY <1>1, <1>2, <1>4, <1>5, <1>6, <1>9

(* A word has no blanks. *)
LEMMA WordHead ==
    ASSUME NEW C, NEW w \in Text(C \ Spaces), w # <<>>
    PROVE  Head(w) \notin Spaces
  BY HeadIsFirst

LEMMA ReversedWord ==
    ASSUME NEW C, NEW w \in Text(C \ Spaces), w # <<>>
    PROVE  /\ Reverse(w) \in Text(C) /\ Reverse(w) # <<>>
           /\ Head(Reverse(w)) \notin Spaces /\ Reverse(Reverse(w)) = w
  <1>1. PICK r : r = Reverse(w) /\ r \in Text(C \ Spaces) /\ Len(r) = Len(w)
    BY ReverseType
  <1>2. r # <<>>
    <2>1. Len(w) \in Nat /\ 1 \in 1..Len(w)
      BY HeadIsFirst
    <2> QED
      BY <1>1, <2>1
  <1>3. Head(r) \notin Spaces
    BY <1>1, <1>2, WordHead
  <1>4. r \in Text(C)
    BY <1>1, TextOfMore
  <1>5. Reverse(r) = w
    BY <1>1, ReverseTwice
  <1> QED
    BY <1>1, <1>2, <1>3, <1>4, <1>5

LEMMA TrimWord ==
    ASSUME NEW C, NEW w \in Text(C \ Spaces), w # <<>>
    PROVE  Trim(w) = w
  <1>1. TrimStart(w) = w
    BY WordHead, TrimStartKeeps
  <1>2. PICK r : /\ r = Reverse(w) /\ r \in Text(C) /\ r # <<>>
                 /\ Head(r) \notin Spaces /\ Reverse(r) = w
    BY ReversedWord
  <1>3. TrimStart(r) = r
    BY <1>2, TrimStartKeeps
  <1> QED
    BY <1>1, <1>2, <1>3 DEF Trim

LEMMA TrimWordAndBlank ==
    ASSUME NEW C, Blank \in C, NEW w \in Text(C \ Spaces), w # <<>>
    PROVE  Trim(w ++ One(Blank)) = w
  <1>1. w \in Text(C) /\ Head(w) \notin Spaces
    <2>1. C \ Spaces \subseteq C
      OBVIOUS
    <2> QED
      BY <2>1, TextOfMore, WordHead
  <1>2. PICK blank : blank = One(Blank) /\ blank \in Text(C)
    BY OneType
  <1>3. PICK whole : whole = w ++ blank /\ whole \in Text(C)
    BY <1>1, <1>2, CatType
  <1>4. Head(w) = w[1] /\ Len(w) \in Nat /\ 1 \in 1..Len(w)
    BY HeadIsFirst
  <1>5. whole # <<>>
    <2>1. Len(whole) = Len(w) + Len(blank)
      BY <1>1, <1>2, <1>3, CatLen
    <2>2. Len(blank) \in Nat
      BY <1>2, TextLen
    <2>3. Len(w) >= 1
      BY <1>4
    <2>4. Len(whole) > 0
      BY <1>4, <2>1, <2>2, <2>3
    <2> QED
      BY <2>4
  <1>6. Head(whole) = w[1]
    <2>1. Head(whole) = whole[1]
      BY <1>3, <1>5, HeadIsFirst
    <2>2. whole[1] = w[1]
      BY <1>1, <1>2, <1>3, <1>4, CatLeft
    <2> QED
      BY <2>1, <2>2
  <1>7. TrimStart(whole) = whole
    BY <1>1, <1>3, <1>4, <1>5, <1>6, TrimStartKeeps
  <1>8. PICK r : /\ r = Reverse(w) /\ r \in Text(C) /\ r # <<>>
                 /\ Head(r) \notin Spaces /\ Reverse(r) = w
    BY ReversedWord
  <1>9. Reverse(whole) = One(Blank) ++ r
    BY <1>1, <1>2, <1>3, <1>8, ReverseSnoc
  <1>10. TrimStart(One(Blank) ++ r) = r
    <2>1. Blank \in Spaces
      BY DEF Spaces
    <2> QED
      BY <1>8, <2>1, TrimStartDrops
  <1> QED
    BY <1>2, <1>3, <1>7, <1>8, <1>9, <1>10 DEF Trim

-----------------------------------------------------------------------------
(* DotenvFile.parse line by line. *)

(* EntriesOf, with the searched places named. *)
LEMMA EntriesOfLine ==
    ASSUME NEW C, "=" \in C, NEW raw, NEW line, line = TrimStart(raw),
           line # <<>>, Head(line) # "#",
           NEW s \in Text(C \ {"="}), s # <<>>, NEW t \in Text(C),
           WithoutExport(line) = s ++ (One("=") ++ t),
           NEW key, key = Trim(s), key # <<>>
    PROVE  EntriesOf(raw) = One(<<key, StripValueQuotes(t)>>)
  <1>1. PICK stripped : stripped = WithoutExport(line)
    OBVIOUS
  <1>2. PICK eq : eq = IndexOf(stripped, "=")
    OBVIOUS
  <1>3. SubSeq(stripped, 1, eq - 1) = s /\ SubSeq(stripped, eq + 1, Len(stripped)) = t
    BY <1>1, <1>2, AroundFirst
  <1>4. eq = Len(s) + 1
    BY <1>1, <1>2, IndexOfFirst
  <1>5. Len(s) \in Nat /\ 1 \in 1..Len(s)
    BY HeadIsFirst
  <1>6. ~(eq <= 1)
    BY <1>4, <1>5
  <1>7. EntriesOf(raw) =
            IF line = <<>> \/ Head(line) = "#" \/ eq <= 1 \/ Trim(SubSeq(stripped, 1, eq - 1)) = <<>>
            THEN <<>>
            ELSE << <<Trim(SubSeq(stripped, 1, eq - 1)),
                      StripValueQuotes(SubSeq(stripped, eq + 1, Len(stripped)))>> >>
    BY <1>1, <1>2 DEF EntriesOf, IndexOf, SelectInSeq
  <1> QED
    BY <1>3, <1>6, <1>7 DEF One

LEMMA NoEntryInNothing == EntriesOf(<<>>) = <<>>
  BY TrimStartNothing DEF EntriesOf

LEMMA NoEntryInComment ==
    ASSUME NEW C, "#" \in C, NEW t \in Text(C)
    PROVE  EntriesOf(One("#") ++ t) = <<>>
  <1>1. PICK raw : raw = One("#") ++ t /\ raw \in Text(C) /\ raw # <<>> /\ Head(raw) = "#"
    BY ConsIndex, ConsIsNotNothing, HeadOfCons
  <1>2. "#" \notin Spaces
    BY DEF Spaces, Blank, Bom
  <1>3. TrimStart(raw) = raw
    BY <1>1, <1>2, TrimStartKeeps
  <1> QED
    BY <1>1, <1>3 DEF EntriesOf

(* The reader of a file, line by line. *)
Reader(C) == [line \in Text(C) |-> EntriesOf(line)]

LEMMA ReaderTexts ==
    ASSUME NEW C
    PROVE  Texts(Reader(C), Text(C), {EntriesOf(line)[1] : line \in Text(C)})
  <1> DEFINE D == {EntriesOf(line)[1] : line \in Text(C)}
  <1> SUFFICES ASSUME NEW line \in Text(C)
               PROVE  Reader(C)[line] \in Text(D)
    BY DEF Texts
  <1>1. \E e : EntriesOf(line) = <<>> \/ EntriesOf(line) = One(e)
    BY DEF EntriesOf, One
  <1>2. PICK e : EntriesOf(line) = <<>> \/ EntriesOf(line) = One(e)
    BY <1>1
  <1>3. EntriesOf(line) = One(e) => e \in D
    <2>1. One(e)[1] = e
      BY DEF One
    <2> QED
      BY <2>1
  <1> HIDE DEF D
  <1>4. Reader(C)[line] = EntriesOf(line)
    BY DEF Reader
  <1> QED
    BY <1>2, <1>3, <1>4, NothingType, OneType

LEMMA ParseByLine ==
    ASSUME NEW C, NEW text, NEW rest \in Text(C), WithoutBom(text) = rest
    PROVE  Parse(text) = FlatMap(Reader(C), Lines(rest))
  <1>1. PICK lines : lines = Lines(rest) /\ lines \in Text(Text(C))
    BY LinesAreTexts
  <1>2. \A k \in DOMAIN lines : lines[k] \in Text(C)
    BY <1>1, LenProperties, ElementOfSeq DEF Text
  <1>3. [k \in DOMAIN lines |-> EntriesOf(lines[k])] = Mapped(Reader(C), lines)
    BY <1>2 DEF Reader, Mapped
  <1>4. Parse(text) = FlattenSeq([k \in DOMAIN lines |-> EntriesOf(lines[k])])
    BY <1>1 DEF Parse
  <1> QED
    BY <1>1, <1>3, <1>4 DEF FlatMap

-----------------------------------------------------------------------------
(* WithoutExport *)

LEMMA ExportIsCat == Export = One("export") ++ One(Blank)
  <1>1. "export" \in {"export", Blank} /\ Blank \in {"export", Blank}
    OBVIOUS
  <1> QED
    BY <1>1, PairIsCat DEF Export

LEMMA ExportDropped ==
    ASSUME NEW C, "export" \in C, Blank \in C, NEW t \in Text(C)
    PROVE  WithoutExport(One("export") ++ (One(Blank) ++ t)) = t
  <1>1. PICK word, blank : /\ word = One("export") /\ word \in Text(C)
                           /\ blank = One(Blank) /\ blank \in Text(C)
    BY OneType
  <1>2. PICK before : before = word ++ blank /\ before \in Text(C)
    BY <1>1, CatType
  <1>3. Export = before
    BY <1>1, <1>2, ExportIsCat
  <1>4. PICK whole : whole = before ++ t /\ whole \in Text(C)
    BY <1>2, CatType
  <1>5. whole = word ++ (blank ++ t)
    BY <1>1, <1>2, <1>4, CatAssoc
  <1>6. SubSeq(whole, 1, Len(before)) = before
    BY <1>2, <1>4, LeftPart
  <1>7. SubSeq(before, 1, Len(before)) = before
    BY <1>2, SubSeqFull DEF Text
  <1>8. Len(before) <= Len(whole)
    <2>1. Len(whole) = Len(before) + Len(t)
      BY <1>2, <1>4, CatLen
    <2>2. Len(before) \in Nat /\ Len(t) \in Nat
      BY <1>2, TextLen
    <2> QED
      BY <2>1, <2>2
  <1>9. IsPrefix(Export, whole)
    BY <1>3, <1>6, <1>7, <1>8 DEF IsPrefix
  <1>10. SubSeq(whole, Len(before) + 1, Len(whole)) = t
    BY <1>2, <1>4, RightPart
  <1> QED
    BY <1>1, <1>3, <1>5, <1>9, <1>10 DEF WithoutExport

(* Without a blank behind its first character a line keeps what it starts with. *)
LEMMA ExportKept ==
    ASSUME NEW C, NEW line \in Text(C), Len(line) < 2 \/ line[2] # Blank
    PROVE  WithoutExport(line) = line
  <1>1. Len(Export) = 2 /\ Export[2] = Blank /\ Export \in Text({"export", Blank})
    BY DEF Export, Text
  <1>2. PICK export : export = Export
    OBVIOUS
  <1>3. Len(line) \in Nat
    BY TextLen
  <1>4. SUFFICES ASSUME IsPrefix(export, line)
                 PROVE  FALSE
    BY <1>2 DEF WithoutExport
  <1>5. 2 <= Len(line) /\ SubSeq(export, 1, 2) = SubSeq(line, 1, 2)
    BY <1>1, <1>2, <1>4 DEF IsPrefix
  <1>6. SubSeq(export, 1, 2)[2] = Blank
    <2>1. SubSeq(export, 1, 2) = export
      BY <1>1, <1>2, SubSeqFull DEF Text
    <2> QED
      BY <1>1, <1>2, <2>1
  <1>7. SubSeq(line, 1, 2)[2] = line[2]
    <2>1. 1 \in 1..Len(line) + 1 /\ 2 \in 1 - 1..Len(line) /\ 2 - 1 + 1 = 2
      BY <1>3, <1>5
    <2>2. \A i \in 1..2 : SubSeq(line, 1, 2)[i] = line[1 + i - 1]
      BY <2>1, PartIndex
    <2>3. 2 \in 1..2 /\ 1 + 2 - 1 = 2
      OBVIOUS
    <2> QED
      BY <2>2, <2>3
  <1>8. Len(line) >= 2
    BY <1>3, <1>5
  <1> QED
    BY <1>3, <1>5, <1>6, <1>7, <1>8

(* A key has no blank, nor has the equals sign behind it. *)
LEMMA KeyKept ==
    ASSUME NEW C, "=" \in C, NEW key \in Text(C), key \in Text(C \ Spaces), key # <<>>,
           NEW t \in Text(C)
    PROVE  /\ WithoutExport(key ++ (One("=") ++ t)) = key ++ (One("=") ++ t)
           /\ key ++ (One("=") ++ t) \in Text(C)
           /\ key ++ (One("=") ++ t) # <<>>
           /\ Head(key ++ (One("=") ++ t)) = Head(key)
  <1>1. PICK rest : /\ rest = One("=") ++ t /\ rest \in Text(C)
                    /\ rest[1] = "=" /\ Len(rest) = Len(t) + 1
    BY ConsIndex
  <1>2. PICK line : line = key ++ rest /\ line \in Text(C)
    BY <1>1, CatType
  <1>3. Len(line) = Len(key) + Len(rest)
    BY <1>1, <1>2, CatLen
  <1>4. Head(key) = key[1] /\ Len(key) \in Nat /\ 1 \in 1..Len(key) /\ Len(t) \in Nat
    BY HeadIsFirst, TextLen
  <1>5. line[2] # Blank
    <2>1. CASE Len(key) = 1
      <3>1. 1 \in 1..Len(rest)
        BY <1>1, <1>4
      <3>2. line[Len(key) + 1] = rest[1]
        BY <1>1, <1>2, <3>1, CatRight
      <3>3. line[2] = "="
        BY <1>1, <2>1, <3>2
      <3> QED
        BY <3>3 DEF Blank
    <2>2. CASE Len(key) # 1
      <3>1. 2 \in 1..Len(key)
        <4>1. PICK n : n = Len(key)
          OBVIOUS
        <4>2. n \in Nat /\ n >= 1 /\ n # 1
          BY <1>4, <2>2, <4>1
        <4>3. 2 \in 1..n
          BY <4>2
        <4> QED
          BY <4>1, <4>3
      <3>2. line[2] = key[2]
        BY <1>1, <1>2, <3>1, CatLeft
      <3>3. key[2] \in C \ Spaces
        BY <3>1, ElementOfSeq DEF Text
      <3> QED
        BY <3>2, <3>3 DEF Spaces
    <2> QED
      BY <2>1, <2>2
  <1>6. WithoutExport(line) = line
    BY <1>2, <1>5, ExportKept
  <1>7. line # <<>>
    <2>1. Len(line) > 0
      BY <1>1, <1>3, <1>4
    <2> QED
      BY <2>1
  <1>8. Head(line) = Head(key)
    <2>1. Head(line) = line[1]
      BY <1>2, <1>7, HeadIsFirst
    <2>2. line[1] = key[1]
      BY <1>1, <1>2, <1>4, CatLeft
    <2> QED
      BY <1>4, <2>1, <2>2
  <1> QED
    BY <1>1, <1>2, <1>6, <1>7, <1>8

-----------------------------------------------------------------------------
(* The lines of a user's file. *)

(* A user's file: a line for each entry, in one of the styles. *)
StyledLine(style, e) ==
    IF style = "exported"
    THEN One("export") ++ (One(Blank) ++ ((e[1] ++ One(Blank)) ++ (One("=") ++ e[2])))
    ELSE IF style = "quoted"
    THEN One(Blank) ++ (e[1] ++ (One("=") ++ (One("'") ++ (e[2] ++ One("'")))))
    ELSE e[1] ++ (One("=") ++ e[2])

Ending(style) == IF style = "exported" THEN One("\r") ++ One("\n") ELSE One("\n")

(* What a file can declare: a value on one line, which is quoted or does not  *)
(* look as if it were.                                                        *)
FileEntries(C, style) ==
    {e \in ValidKeys(C) \X Text(Inline(C)) : style # "quoted" => StripValueQuotes(e[2]) = e[2]}

LEMMA FileEntryParts ==
    ASSUME NEW C, NEW style, NEW e \in FileEntries(C, style)
    PROVE  /\ e[1] \in Text(C) /\ e[1] # <<>> /\ Head(e[1]) # "#" /\ Head(e[1]) \notin Spaces
           /\ e[1] \in Text(C \ Spaces) /\ e[1] \in Text(C \ {"="}) /\ e[1] \in Text(Inline(C))
           /\ e[2] \in Text(C) /\ e[2] \in Text(Inline(C))
           /\ style # "quoted" => StripValueQuotes(e[2]) = e[2]
           /\ e = <<e[1], e[2]>>
  <1>1. /\ e[1] \in ValidKeys(C) /\ e[2] \in Text(Inline(C)) /\ e = <<e[1], e[2]>>
        /\ style # "quoted" => StripValueQuotes(e[2]) = e[2]
    BY DEF FileEntries
  <1>2. PICK key : key = e[1]
    OBVIOUS
  <1>3. key \in Text(C) /\ key # <<>> /\ Head(key) # "#" /\ key \in Text(C \ (Spaces \cup {"="}))
    BY <1>1, <1>2, ValidKeyType
  <1>4. /\ C \ (Spaces \cup {"="}) \subseteq C \ Spaces
        /\ C \ (Spaces \cup {"="}) \subseteq C \ {"="}
        /\ C \ (Spaces \cup {"="}) \subseteq Inline(C)
        /\ Inline(C) \subseteq C
    BY DEF Spaces, Inline
  <1>5. key \in Text(C \ Spaces) /\ key \in Text(C \ {"="}) /\ key \in Text(Inline(C))
    BY <1>3, <1>4, TextOfMore
  <1>6. Head(key) \notin Spaces
    BY <1>3, <1>5, WordHead
  <1>7. e[2] \in Text(C)
    BY <1>1, <1>4, TextOfMore
  <1> QED
    BY <1>1, <1>2, <1>3, <1>5, <1>6, <1>7

LEMMA FileEntryValue ==
    ASSUME NEW C, NEW style, style # "quoted", NEW e \in FileEntries(C, style)
    PROVE  StripValueQuotes(e[2]) = e[2]
  BY DEF FileEntries

LEMMA InlineCharacters ==
    ASSUME NEW C, FormatCharacters \subseteq C
    PROVE  /\ "=" \in Inline(C) /\ "'" \in Inline(C) /\ "export" \in Inline(C)
           /\ Blank \in Inline(C) /\ Blank \in Spaces /\ Inline(C) \subseteq C
           /\ "#" \in Inline(C) /\ "A" \in Inline(C) /\ "x" \in Inline(C)
  BY DEF FormatCharacters, Inline, Spaces, Letters, Blank

LEMMA StyledLineType ==
    ASSUME NEW C, FormatCharacters \subseteq C, NEW style, NEW e \in FileEntries(C, style)
    PROVE  StyledLine(style, e) \in Text(Inline(C))
  <1>1. PICK key, v, D : /\ key = e[1] /\ v = e[2] /\ D = Inline(C)
                         /\ key \in Text(D) /\ v \in Text(D)
    <2>1. e[1] \in Text(Inline(C)) /\ e[2] \in Text(Inline(C))
      BY FileEntryParts
    <2> QED
      BY <2>1
  <1>2. PICK eq, quote, export, blank :
            /\ eq = One("=") /\ quote = One("'") /\ export = One("export") /\ blank = One(Blank)
            /\ eq \in Text(D) /\ quote \in Text(D) /\ export \in Text(D) /\ blank \in Text(D)
    BY <1>1, InlineCharacters, OneType
  <1>3. eq ++ v \in Text(D)
    BY <1>1, <1>2, CatType
  <1>4. key ++ (eq ++ v) \in Text(D)
    BY <1>1, <1>3, CatType
  <1>5. export ++ (blank ++ ((key ++ blank) ++ (eq ++ v))) \in Text(D)
    <2>1. key ++ blank \in Text(D)
      BY <1>1, <1>2, CatType
    <2>2. (key ++ blank) ++ (eq ++ v) \in Text(D)
      BY <1>3, <2>1, CatType
    <2>3. blank ++ ((key ++ blank) ++ (eq ++ v)) \in Text(D)
      BY <1>2, <2>2, CatType
    <2> QED
      BY <1>2, <2>3, CatType
  <1>6. blank ++ (key ++ (eq ++ (quote ++ (v ++ quote)))) \in Text(D)
    <2>1. v ++ quote \in Text(D)
      BY <1>1, <1>2, CatType
    <2>2. quote ++ (v ++ quote) \in Text(D)
      BY <1>2, <2>1, CatType
    <2>3. eq ++ (quote ++ (v ++ quote)) \in Text(D)
      BY <1>2, <2>2, CatType
    <2>4. key ++ (eq ++ (quote ++ (v ++ quote))) \in Text(D)
      BY <1>1, <2>3, CatType
    <2> QED
      BY <1>2, <2>4, CatType
  <1> QED
    BY <1>1, <1>2, <1>4, <1>5, <1>6 DEF StyledLine

LEMMA SingleQuotesStripped ==
    ASSUME NEW C, "'" \in C, NEW v \in Text(C)
    PROVE  StripValueQuotes(One("'") ++ (v ++ One("'"))) = v
  <1>1. PICK quoted : quoted = One("'") ++ (v ++ One("'"))
    OBVIOUS
  <1>2. /\ Len(quoted) = Len(v) + 2
        /\ Head(quoted) = "'" /\ Last(quoted) = "'"
        /\ SubSeq(quoted, 2, Len(quoted) - 1) = v
    BY <1>1, MiddlePart
  <1>3. Len(quoted) >= 2
    BY <1>2, TextLen
  <1>4. StripValueQuotes(quoted) = v
    BY <1>2, <1>3 DEF StripValueQuotes
  <1> QED
    BY <1>1, <1>4

LEMMA PlainLineIsRead ==
    ASSUME NEW C, FormatCharacters \subseteq C, NEW e \in FileEntries(C, "plain")
    PROVE  EntriesOf(e[1] ++ (One("=") ++ e[2])) = One(e)
  <1>1. PICK key, v : /\ key = e[1] /\ v = e[2] /\ e = <<key, v>>
                      /\ key \in Text(C) /\ key # <<>> /\ Head(key) # "#" /\ Head(key) \notin Spaces
                      /\ key \in Text(C \ Spaces) /\ key \in Text(C \ {"="})
                      /\ v \in Text(C) /\ StripValueQuotes(v) = v
    BY FileEntryParts
  <1>2. "=" \in C
    BY CharactersIn
  <1>3. PICK line : line = key ++ (One("=") ++ v)
    OBVIOUS
  <1>4. /\ WithoutExport(line) = line /\ line \in Text(C) /\ line # <<>>
        /\ Head(line) = Head(key)
    BY <1>1, <1>2, <1>3, KeyKept
  <1>5. TrimStart(line) = line
    BY <1>1, <1>4, TrimStartKeeps
  <1>6. Trim(key) = key
    BY <1>1, TrimWord
  <1>7. EntriesOf(line) = One(<<key, StripValueQuotes(v)>>)
    BY <1>1, <1>2, <1>3, <1>4, <1>5, <1>6, EntriesOfLine
  <1> QED
    BY <1>1, <1>3, <1>7

LEMMA QuotedLineIsRead ==
    ASSUME NEW C, FormatCharacters \subseteq C, NEW e \in FileEntries(C, "quoted")
    PROVE  EntriesOf(One(Blank) ++ (e[1] ++ (One("=") ++ (One("'") ++ (e[2] ++ One("'"))))))
             = One(e)
  <1>1. PICK key, v : /\ key = e[1] /\ v = e[2] /\ e = <<key, v>>
                      /\ key \in Text(C) /\ key # <<>> /\ Head(key) # "#" /\ Head(key) \notin Spaces
                      /\ key \in Text(C \ Spaces) /\ key \in Text(C \ {"="})
                      /\ v \in Text(C)
    BY FileEntryParts
  <1>2. "=" \in C /\ "'" \in C /\ Blank \in C /\ Blank \in Spaces
    BY CharactersIn, InlineCharacters
  <1>3. PICK quoted : /\ quoted = One("'") ++ (v ++ One("'")) /\ quoted \in Text(C)
                      /\ StripValueQuotes(quoted) = v
    BY <1>1, <1>2, MiddlePart, SingleQuotesStripped
  <1>4. PICK line : line = key ++ (One("=") ++ quoted)
    OBVIOUS
  <1>5. /\ WithoutExport(line) = line /\ line \in Text(C) /\ line # <<>>
        /\ Head(line) = Head(key)
    BY <1>1, <1>2, <1>3, <1>4, KeyKept
  <1>6. PICK raw : raw = One(Blank) ++ line
    OBVIOUS
  <1>7. TrimStart(raw) = line
    BY <1>1, <1>2, <1>5, <1>6, TrimStartDrops
  <1>8. Trim(key) = key
    BY <1>1, TrimWord
  <1>9. EntriesOf(raw) = One(<<key, StripValueQuotes(quoted)>>)
    BY <1>1, <1>2, <1>3, <1>4, <1>5, <1>7, <1>8, EntriesOfLine
  <1> QED
    BY <1>1, <1>3, <1>4, <1>6, <1>9

LEMMA ExportedLineIsRead ==
    ASSUME NEW C, FormatCharacters \subseteq C, NEW e \in FileEntries(C, "exported")
    PROVE  EntriesOf(One("export") ++ (One(Blank) ++ ((e[1] ++ One(Blank)) ++ (One("=") ++ e[2]))))
               = One(e)
  <1>1. PICK key, v : /\ key = e[1] /\ v = e[2] /\ e = <<key, v>>
                      /\ key \in Text(C) /\ key # <<>>
                      /\ key \in Text(C \ Spaces) /\ key \in Text(C \ {"="})
                      /\ v \in Text(C) /\ StripValueQuotes(v) = v
    <2>1. "exported" # "quoted"
      OBVIOUS
    <2>2. StripValueQuotes(e[2]) = e[2]
      BY <2>1, FileEntryValue
    <2> QED
      BY <2>2, FileEntryParts
  <1>2. "=" \in C /\ "export" \in C /\ Blank \in C /\ Blank \in C \ {"="}
    BY CharactersIn, InlineCharacters DEF Blank
  <1>3. PICK name : name = key ++ One(Blank) /\ name \in Text(C) /\ name \in Text(C \ {"="})
    BY <1>1, <1>2, OneType, CatType
  <1>4. name # <<>>
    <2>1. One(Blank) \in Text(C)
      BY <1>2, OneType
    <2>2. Len(name) = Len(key) + Len(One(Blank))
      BY <1>1, <1>3, <2>1, CatLen
    <2>3. Len(One(Blank)) = 1
      BY DEF One
    <2>4. Len(key) \in Nat
      BY <1>1, TextLen
    <2>5. Len(name) > 0
      BY <2>2, <2>3, <2>4
    <2> QED
      BY <2>5
  <1>5. Trim(name) = key
    BY <1>1, <1>2, <1>3, TrimWordAndBlank
  <1>6. PICK stripped : stripped = name ++ (One("=") ++ v) /\ stripped \in Text(C)
    BY <1>1, <1>2, <1>3, ConsIndex, CatType
  <1>7. PICK rest : rest = One(Blank) ++ stripped /\ rest \in Text(C)
    BY <1>2, <1>6, ConsIndex
  <1>8. PICK line : /\ line = One("export") ++ rest /\ line \in Text(C)
                    /\ line # <<>> /\ Head(line) = "export"
    <2>1. One("export") ++ rest \in Text(C)
      BY <1>2, <1>7, ConsIndex
    <2>2. One("export") ++ rest # <<>>
      BY <1>2, <1>7, ConsIsNotNothing
    <2>3. Head(One("export") ++ rest) = "export"
      BY <1>2, <1>7, HeadOfCons
    <2> QED
      BY <2>1, <2>2, <2>3
  <1>9. WithoutExport(line) = stripped
    BY <1>2, <1>6, <1>7, <1>8, ExportDropped
  <1>10. TrimStart(line) = line
    <2>1. Head(line) \notin Spaces
      BY <1>8 DEF Spaces, Blank, Bom
    <2> QED
      BY <1>8, <2>1, TrimStartKeeps
  <1>11. Head(line) # "#"
    BY <1>8
  <1>12. EntriesOf(line) = One(<<key, StripValueQuotes(v)>>)
    BY <1>1, <1>2, <1>3, <1>4, <1>5, <1>6, <1>8, <1>9, <1>10, <1>11, EntriesOfLine
  <1> QED
    BY <1>1, <1>3, <1>6, <1>7, <1>8, <1>12

LEMMA StyledLineIsRead ==
    ASSUME NEW C, FormatCharacters \subseteq C, NEW style \in {"plain", "exported", "quoted"},
           NEW e \in FileEntries(C, style)
    PROVE  EntriesOf(StyledLine(style, e)) = One(e)
  <1>1. CASE style = "plain"
    BY <1>1, PlainLineIsRead DEF StyledLine
  <1>2. CASE style = "exported"
    BY <1>2, ExportedLineIsRead DEF StyledLine
  <1>3. CASE style = "quoted"
    BY <1>3, QuotedLineIsRead DEF StyledLine
  <1> QED
    BY <1>1, <1>2, <1>3

-----------------------------------------------------------------------------
(* A user's file. *)

(* A file line by line, each with the ending of its style. *)
StyleWriter(C, style) == [e \in FileEntries(C, style) |-> StyledLine(style, e) ++ Ending(style)]

LEMMA EndingType ==
    ASSUME NEW C, FormatCharacters \subseteq C, NEW style
    PROVE  Ending(style) \in Text(C)
  <1>1. "\r" \in C /\ "\n" \in C
    BY CharactersIn
  <1>2. One("\r") \in Text(C) /\ One("\n") \in Text(C)
    BY <1>1, OneType
  <1> QED
    BY <1>2, CatType DEF Ending

LEMMA LineEnds ==
    ASSUME NEW C, FormatCharacters \subseteq C, NEW style, NEW line \in Text(Inline(C)),
           NEW t \in Text(C)
    PROVE  Lines((line ++ Ending(style)) ++ t) = One(line) ++ Lines(t)
  <1>1. "\r" \in C /\ "\n" \in C /\ {"\r", "\n"} \subseteq C
    BY CharactersIn
  <1>2. PICK cr, nl : cr = One("\r") /\ nl = One("\n") /\ cr \in Text(C) /\ nl \in Text(C)
    BY <1>1, OneType
  <1>3. line \in Text(C)
    <2>1. Inline(C) \subseteq C
      BY DEF Inline
    <2> QED
      BY <2>1, TextOfMore
  <1>4. CASE style = "exported"
    <2>1. Ending(style) = cr ++ nl
      BY <1>2, <1>4 DEF Ending
    <2>2. cr ++ nl \in Text(C)
      BY <1>2, CatType
    <2>3. (line ++ (cr ++ nl)) ++ t = line ++ ((cr ++ nl) ++ t)
      BY <1>3, <2>2, CatAssoc
    <2>4. (cr ++ nl) ++ t = cr ++ (nl ++ t)
      BY <1>2, CatAssoc
    <2>5. Lines(line ++ (One("\r") ++ (One("\n") ++ t))) = One(line) ++ Lines(t)
      BY <1>1, FirstLineWithReturn
    <2> QED
      BY <1>2, <2>1, <2>3, <2>4, <2>5
  <1>5. CASE style # "exported"
    <2>1. Ending(style) = nl
      BY <1>2, <1>5 DEF Ending
    <2>2. (line ++ nl) ++ t = line ++ (nl ++ t)
      BY <1>2, <1>3, CatAssoc
    <2>3. Lines(line ++ (One("\n") ++ t)) = One(line) ++ Lines(t)
      BY <1>1, FirstLine
    <2> QED
      BY <1>2, <2>1, <2>2, <2>3
  <1> QED
    BY <1>4, <1>5

LEMMA StyleWriterTexts ==
    ASSUME NEW C, FormatCharacters \subseteq C, NEW style
    PROVE  Texts(StyleWriter(C, style), FileEntries(C, style), C)
  <1> SUFFICES ASSUME NEW e \in FileEntries(C, style)
               PROVE  StyleWriter(C, style)[e] \in Text(C)
    BY DEF Texts
  <1>1. StyledLine(style, e) \in Text(C)
    <2>1. StyledLine(style, e) \in Text(Inline(C))
      BY StyledLineType
    <2>2. Inline(C) \subseteq C
      BY DEF Inline
    <2> QED
      BY <2>1, <2>2, TextOfMore
  <1>2. StyleWriter(C, style)[e] = StyledLine(style, e) ++ Ending(style)
    BY DEF StyleWriter
  <1> QED
    BY <1>1, <1>2, EndingType, CatType

LEMMA StyledFileIsRead ==
    ASSUME NEW C, FormatCharacters \subseteq C, NEW style \in {"plain", "exported", "quoted"},
           NEW es \in Text(FileEntries(C, style))
    PROVE  FlatMap(Reader(C), Lines(FlatMap(StyleWriter(C, style), es))) = es
  <1>1. PICK w, E : w = StyleWriter(C, style) /\ E = FileEntries(C, style) /\ Texts(w, E, C)
    BY StyleWriterTexts
  <1>2. PICK r, D : r = Reader(C) /\ Texts(r, Text(C), D)
    BY ReaderTexts
  <1> DEFINE T == {t \in Text(E) : FlatMap(r, Lines(FlatMap(w, t))) = t}
  <1>3. <<>> \in T
    <2>1. <<>> \in Text(E) /\ <<>> \in Text(C)
      BY NothingType
    <2>2. Lines(FlatMap(w, <<>>)) = One(<<>>)
      BY FlatMapNothing, LinesNothing
    <2>3. FlatMap(r, One(<<>>)) = r[<<>>]
      BY <1>2, <2>1, FlatMapOne
    <2>4. r[<<>>] = <<>>
      BY <1>2, <2>1, NoEntryInNothing DEF Reader
    <2> QED
      BY <2>1, <2>2, <2>3, <2>4
  <1>4. ASSUME NEW t \in Text(E), NEW e \in E, t \in T
        PROVE  One(e) ++ t \in T
    <2>1. PICK more : more = One(e) ++ t /\ more \in Text(E)
      BY ConsIndex
    <2>2. PICK rest : rest = FlatMap(w, t) /\ rest \in Text(C)
      BY <1>1, FlatMapType
    <2>3. FlatMap(r, Lines(rest)) = t
      BY <1>4, <2>2
    <2>4. PICK line : line = StyledLine(style, e) /\ line \in Text(Inline(C)) /\ line \in Text(C)
      <3>1. StyledLine(style, e) \in Text(Inline(C))
        BY <1>1, StyledLineType
      <3>2. Inline(C) \subseteq C
        BY DEF Inline
      <3> QED
        BY <3>1, <3>2, TextOfMore
    <2>5. FlatMap(w, more) = w[e] ++ rest
      BY <1>1, <2>1, <2>2, FlatMapCons
    <2>6. w[e] = line ++ Ending(style)
      BY <1>1, <2>4 DEF StyleWriter
    <2>7. Lines((line ++ Ending(style)) ++ rest) = One(line) ++ Lines(rest)
      BY <2>2, <2>4, LineEnds
    <2>8. PICK others : others = Lines(rest) /\ others \in Text(Text(C))
      BY <2>2, LinesAreTexts
    <2>9. FlatMap(r, One(line) ++ others) = r[line] ++ FlatMap(r, others)
      BY <1>2, <2>4, <2>8, FlatMapCons
    <2>10. r[line] = One(e)
      <3>1. EntriesOf(line) = One(e)
        BY <1>1, <2>4, StyledLineIsRead
      <3> QED
        BY <1>2, <2>4, <3>1 DEF Reader
    <2> QED
      BY <2>1, <2>3, <2>5, <2>6, <2>7, <2>8, <2>9, <2>10
  <1> HIDE DEF T
  <1>5. es \in T
    BY <1>1, <1>3, <1>4, TextInduction
  <1> QED
    BY <1>1, <1>2, <1>5 DEF T

-----------------------------------------------------------------------------
(* What stands before the entries: a byte order mark, or an empty line and a *)
(* comment.                                                                  *)
Preamble(style) == IF style = "exported" THEN One(Bom) ELSE <<"\n", "#", "A", "=", "x", "\n">>

LEMMA ConsOfText ==
    ASSUME NEW C, NEW t \in Text(C), t # <<>>
    PROVE  t = One(Head(t)) ++ Tail(t)
  <1>1. PICK c, rest : /\ c = Head(t) /\ c \in C
                       /\ rest = Tail(t) /\ rest \in Text(C) /\ Len(rest) = Len(t) - 1
                       /\ \A i \in 1..Len(rest) : rest[i] = t[i + 1]
    <2>1. t \in Seq(C)
      BY DEF Text
    <2>2. Head(t) \in C /\ Tail(t) \in Seq(C) /\ Len(Tail(t)) = Len(t) - 1
      BY <2>1, HeadTailProperties
    <2>3. \A i \in 1..Len(Tail(t)) : Tail(t)[i] = t[i + 1]
      BY <2>1, HeadTailProperties
    <2>4. Tail(t) \in Text(C)
      BY <2>2 DEF Text
    <2> QED
      BY <2>2, <2>3, <2>4
  <1>2. c = t[1] /\ Len(t) \in Nat
    BY <1>1, HeadIsFirst
  <1>3. PICK whole : whole = One(c) ++ rest /\ whole \in Text(C)
    <2>1. c \in C /\ rest \in Text(C)
      BY <1>1
    <2> QED
      BY <2>1, ConsIndex
  <1>4. Len(whole) = Len(rest) + 1 /\ whole[1] = c
    <2>1. c \in C /\ rest \in Text(C)
      BY <1>1
    <2>2. Len(One(c) ++ rest) = Len(rest) + 1 /\ (One(c) ++ rest)[1] = c
      BY <2>1, ConsIndex
    <2> QED
      BY <1>3, <2>2
  <1>5. ASSUME NEW i \in 1..Len(t)
        PROVE  t[i] = whole[i]
    <2>1. CASE i = 1
      BY <1>2, <1>4, <2>1
    <2>2. CASE i # 1
      <3>1. i - 1 \in 1..Len(rest) /\ i - 1 + 1 = i
        BY <1>1, <1>2, <2>2
      <3>2. whole[i - 1 + 1] = rest[i - 1]
        <4>1. PICK j \in 1..Len(rest) : j = i - 1
          BY <3>1
        <4>2. rest \in Text(C) /\ c \in C
          BY <1>1
        <4>3. whole[j + 1] = rest[j]
          BY <1>3, <4>2, ConsRight
        <4> QED
          BY <4>1, <4>3
      <3>3. rest[i - 1] = t[i - 1 + 1]
        BY <1>1, <3>1
      <3> QED
        BY <3>1, <3>2, <3>3
    <2> QED
      BY <2>1, <2>2
  <1>6. Len(whole) = Len(t)
    BY <1>1, <1>2, <1>4
  <1>7. t = whole
    BY <1>3, <1>5, <1>6, TextEqual
  <1> QED
    BY <1>1, <1>3, <1>7

Comment == <<"#", "A", "=", "x">>

LEMMA PreambleLines ==
    ASSUME NEW C, FormatCharacters \subseteq C
    PROVE  /\ <<"\n", "#", "A", "=", "x", "\n">> = One("\n") ++ (Comment ++ One("\n"))
           /\ Comment \in Text(Inline(C))
           /\ EntriesOf(Comment) = <<>>
  <1>1. /\ "\n" \in C /\ "#" \in C /\ "A" \in C /\ "=" \in C /\ "x" \in C
        /\ "#" \in Inline(C) /\ "A" \in Inline(C) /\ "=" \in Inline(C) /\ "x" \in Inline(C)
    BY CharactersIn, InlineCharacters
  <1>2. PICK all : all = <<"\n", "#", "A", "=", "x", "\n">>
    OBVIOUS
  <1>3. /\ all \in Text(C) /\ all # <<>> /\ Head(all) = "\n"
        /\ Tail(all) = <<"#", "A", "=", "x", "\n">>
    BY <1>1, <1>2 DEF Text
  <1>4. all = One("\n") ++ <<"#", "A", "=", "x", "\n">>
    BY <1>3, ConsOfText
  <1>5. Comment \in Text(Inline(C)) /\ Comment \in Text(C) /\ Len(Comment) = 4
    BY <1>1 DEF Comment, Text
  <1>6. <<"#", "A", "=", "x", "\n">> = Comment ++ One("\n")
    <2>1. PICK nl : nl = One("\n") /\ nl \in Text(C) /\ Len(nl) = 1 /\ nl[1] = "\n"
      <3>1. Len(One("\n")) = 1 /\ One("\n")[1] = "\n"
        BY DEF One
      <3> QED
        BY <1>1, <3>1, OneType
    <2>2. PICK comment : comment = Comment /\ comment \in Text(C) /\ Len(comment) = 4
      BY <1>5
    <2>3. PICK both : both = comment ++ nl /\ both \in Text(C)
      BY <2>1, <2>2, CatType
    <2>4. Len(both) = 5
      <3>1. Len(both) = Len(comment) + Len(nl)
        BY <2>1, <2>2, <2>3, CatLen
      <3> QED
        BY <2>1, <2>2, <3>1
    <2>5. \A i \in 1..4 : both[i] = comment[i]
      <3>1. nl \in Text(C) /\ comment \in Text(C)
        BY <2>1, <2>2
      <3>2. \A i \in 1..Len(comment) : both[i] = comment[i]
        BY <2>3, <3>1, CatLeft
      <3>3. Len(comment) = 4
        BY <2>2
      <3> QED
        BY <3>2, <3>3
    <2>6. both[5] = "\n"
      <3>1. 1 \in 1..Len(nl)
        BY <2>1
      <3>2. both[Len(comment) + 1] = nl[1]
        <4>1. nl \in Text(C) /\ comment \in Text(C)
          BY <2>1, <2>2
        <4> QED
          BY <2>3, <3>1, <4>1, CatRight
      <3>3. Len(comment) + 1 = 5
        BY <2>2
      <3> QED
        BY <2>1, <3>2, <3>3
    <2>7. PICK five : five = <<"#", "A", "=", "x", "\n">> /\ five \in Text(C) /\ Len(five) = 5
      <3>1. <<"#", "A", "=", "x", "\n">> \in Seq(C)
        BY <1>1
      <3>2. Len(<<"#", "A", "=", "x", "\n">>) = 5
        OBVIOUS
      <3>3. Text(C) = Seq(C)
        BY DEF Text
      <3> QED
        BY <3>1, <3>2, <3>3
    <2>8. /\ comment[1] = five[1] /\ comment[2] = five[2] /\ comment[3] = five[3]
          /\ comment[4] = five[4] /\ five[5] = "\n"
      BY <2>2, <2>7 DEF Comment
    <2>9. /\ both[1] = comment[1] /\ both[2] = comment[2] /\ both[3] = comment[3]
          /\ both[4] = comment[4]
      BY <2>5
    <2>10. \A i \in 1..Len(five) : five[i] = both[i]
      <3>1. \A i \in 1..5 : i = 1 \/ i = 2 \/ i = 3 \/ i = 4 \/ i = 5
        OBVIOUS
      <3> QED
        BY <2>6, <2>7, <2>8, <2>9, <3>1
    <2>11. five = both
      BY <2>3, <2>4, <2>7, <2>10, TextEqual
    <2> QED
      BY <2>1, <2>2, <2>3, <2>7, <2>11
  <1>7. EntriesOf(Comment) = <<>>
    <2>1. Comment # <<>> /\ Head(Comment) = "#" /\ Tail(Comment) \in Text(C)
      <3>1. Tail(Comment) = <<"A", "=", "x">>
        BY DEF Comment
      <3> QED
        BY <1>1, <3>1 DEF Comment, Text
    <2>2. Comment = One("#") ++ Tail(Comment)
      BY <1>5, <2>1, ConsOfText
    <2> QED
      BY <1>1, <2>1, <2>2, NoEntryInComment
  <1> QED
    BY <1>2, <1>4, <1>5, <1>6, <1>7

LEMMA PreambleIsSkipped ==
    ASSUME NEW C, FormatCharacters \subseteq C, NEW style, NEW t \in Text(C)
    PROVE  Parse(Preamble(style) ++ t) = FlatMap(Reader(C), Lines(t))
  <1>1. /\ "\n" \in C /\ Bom \in C /\ "\n" # Bom
    BY CharactersIn DEF Bom
  <1>2. CASE style = "exported"
    <2>1. PICK whole : /\ whole = One(Bom) ++ t /\ whole # <<>>
                       /\ Head(whole) = Bom /\ Tail(whole) = t
      BY <1>1, ConsIsNotNothing, HeadOfCons, TailOfCons
    <2>2. WithoutBom(whole) = t
      BY <2>1 DEF WithoutBom
    <2>3. Preamble(style) ++ t = whole
      BY <1>2, <2>1 DEF Preamble
    <2> QED
      BY <2>2, <2>3, ParseByLine
  <1>3. CASE style # "exported"
    <2>1. PICK nl : nl = One("\n") /\ nl \in Text(C)
      BY <1>1, OneType
    <2>2. PICK comment : /\ comment = Comment /\ comment \in Text(Inline(C)) /\ comment \in Text(C)
                         /\ EntriesOf(comment) = <<>>
      <3>1. Comment \in Text(Inline(C)) /\ EntriesOf(Comment) = <<>>
        BY PreambleLines
      <3>2. Inline(C) \subseteq C
        BY DEF Inline
      <3> QED
        BY <3>1, <3>2, TextOfMore
    <2>3. Preamble(style) = nl ++ (comment ++ nl)
      BY <1>3, <2>1, <2>2, PreambleLines DEF Preamble
    <2>4. PICK second : second = comment ++ (nl ++ t) /\ second \in Text(C)
      BY <2>1, <2>2, CatType
    <2>5. PICK whole : /\ whole = One("\n") ++ second /\ whole \in Text(C) /\ whole # <<>>
                       /\ Head(whole) = "\n"
      <3>1. One("\n") ++ second \in Text(C)
        BY <1>1, <2>4, ConsIndex
      <3>2. One("\n") ++ second # <<>> /\ Head(One("\n") ++ second) = "\n"
        BY <1>1, <2>4, ConsIsNotNothing, HeadOfCons
      <3> QED
        BY <3>1, <3>2
    <2>6. Preamble(style) ++ t = whole
      <3>1. comment ++ nl \in Text(C)
        BY <2>1, <2>2, CatType
      <3>2. (nl ++ (comment ++ nl)) ++ t = nl ++ ((comment ++ nl) ++ t)
        BY <2>1, <3>1, CatAssoc
      <3>3. (comment ++ nl) ++ t = comment ++ (nl ++ t)
        BY <2>1, <2>2, CatAssoc
      <3> QED
        BY <2>1, <2>3, <2>4, <2>5, <3>2, <3>3
    <2>7. WithoutBom(whole) = whole
      BY <1>1, <2>5 DEF WithoutBom
    <2>8. PICK others : others = Lines(t) /\ others \in Text(Text(C))
      BY LinesAreTexts
    <2>9. Lines(second) = One(comment) ++ others
      BY <1>1, <2>1, <2>2, <2>4, <2>8, FirstLine
    <2>10. Lines(whole) = One(<<>>) ++ (One(comment) ++ others)
      BY <1>1, <2>4, <2>5, <2>9, LinesAtNewline
    <2>11. PICK r, D : r = Reader(C) /\ Texts(r, Text(C), D)
      BY ReaderTexts
    <2>12. <<>> \in Text(C) /\ r[<<>>] = <<>> /\ r[comment] = <<>>
      BY <2>2, <2>11, NothingType, NoEntryInNothing DEF Reader
    <2>13. PICK more : more = One(comment) ++ others /\ more \in Text(Text(C))
      BY <2>2, <2>8, ConsIndex
    <2>14. FlatMap(r, One(<<>>) ++ more) = r[<<>>] ++ FlatMap(r, more)
      BY <2>11, <2>12, <2>13, FlatMapCons
    <2>15. FlatMap(r, more) = r[comment] ++ FlatMap(r, others)
      BY <2>2, <2>8, <2>11, <2>13, FlatMapCons
    <2>16. FlatMap(r, others) \in Text(D)
      BY <2>8, <2>11, FlatMapType
    <2>17. FlatMap(r, One(<<>>) ++ more) = FlatMap(r, others)
      BY <2>12, <2>14, <2>15, <2>16, NothingCat
    <2>18. Parse(whole) = FlatMap(r, Lines(whole))
      BY <2>5, <2>7, <2>11, ParseByLine
    <2> QED
      BY <2>6, <2>8, <2>10, <2>11, <2>13, <2>17, <2>18
  <1> QED
    BY <1>2, <1>3

(* dotenv.ts:83-118: an env file is read back entry by entry, with blanks,     *)
(* exports, quotes, a byte order mark and either kind of line break.           *)
THEOREM ParseReadsWhatAFileDeclares ==
    ASSUME NEW C, FormatCharacters \subseteq C, NEW style \in {"plain", "exported", "quoted"},
           NEW es \in Text(FileEntries(C, style))
    PROVE  Parse(Preamble(style) ++ FlatMap(StyleWriter(C, style), es)) = es
  <1>1. FlatMap(StyleWriter(C, style), es) \in Text(C)
    BY StyleWriterTexts, FlatMapType
  <1> QED
    BY <1>1, PreambleIsSkipped, StyledFileIsRead

-----------------------------------------------------------------------------
(* Texts in three parts, and characters that occur once. *)

LEMMA PartType ==
    ASSUME NEW C, NEW s \in Text(C), NEW m \in 1..Len(s) + 1, NEW n \in m - 1..Len(s)
    PROVE  SubSeq(s, m, n) \in Text(C) /\ Len(SubSeq(s, m, n)) = n - m + 1
  BY PartIndex

LEMMA PartAt ==
    ASSUME NEW C, NEW s \in Text(C), NEW m \in 1..Len(s) + 1, NEW n \in m - 1..Len(s),
           NEW i \in 1..n - m + 1
    PROVE  SubSeq(s, m, n)[i] = s[m + i - 1]
  BY PartIndex

LEMMA PartBetween ==
    ASSUME NEW C, NEW s \in Text(C), NEW u \in Text(C), NEW t \in Text(C)
    PROVE  SubSeq(s ++ (u ++ t), Len(s) + 1, Len(s) + Len(u)) = u
  <1>1. PICK rest : rest = u ++ t /\ rest \in Text(C)
    BY CatType
  <1>2. PICK whole : whole = s ++ rest /\ whole \in Text(C)
    BY <1>1, CatType
  <1>3. PICK ls, lu, lt : ls = Len(s) /\ lu = Len(u) /\ lt = Len(t)
    OBVIOUS
  <1>4. ls \in Nat /\ lu \in Nat /\ lt \in Nat
    BY <1>3, TextLen
  <1>5. Len(rest) = lu + lt
    BY <1>1, <1>3, CatLen
  <1>6. Len(whole) = ls + (lu + lt)
    BY <1>1, <1>2, <1>3, <1>5, CatLen
  <1>7. PICK m, n : m = ls + 1 /\ n = ls + lu
    OBVIOUS
  <1>8. PICK part : part = SubSeq(whole, m, n)
    OBVIOUS
  <1>9. part \in Text(C) /\ Len(part) = lu /\ \A i \in 1..lu : part[i] = whole[m + i - 1]
    <2>1. m \in 1..Len(whole) + 1 /\ n \in m - 1..Len(whole) /\ n - m + 1 = lu
      BY <1>4, <1>6, <1>7
    <2>2. whole \in Text(C)
      BY <1>2
    <2>3. part \in Text(C) /\ Len(part) = n - m + 1
      BY <1>8, <2>1, <2>2, PartType
    <2>4. \A i \in 1..n - m + 1 : part[i] = whole[m + i - 1]
      BY <1>8, <2>1, <2>2, PartAt
    <2> QED
      BY <2>1, <2>3, <2>4
  <1>10. ASSUME NEW i \in 1..lu
         PROVE  part[i] = u[i]
    <2>1. i \in 1..Len(u) /\ i \in 1..Len(rest) /\ m + i - 1 = ls + i
      BY <1>3, <1>4, <1>5, <1>7
    <2>2. rest[i] = u[i]
      BY <1>1, <2>1, CatLeft
    <2>3. whole[Len(s) + i] = rest[i]
      BY <1>1, <1>2, <2>1, CatRight
    <2> QED
      BY <1>3, <1>9, <2>1, <2>2, <2>3
  <1>11. part = u
    BY <1>3, <1>9, <1>10, TextEqual
  <1> QED
    BY <1>1, <1>2, <1>3, <1>7, <1>8, <1>11

LEMMA OnlyPlace ==
    ASSUME NEW C, NEW c, c \notin C, NEW s \in Text(C), NEW t \in Text(C),
           NEW i \in 1..Len(s ++ (One(c) ++ t))
    PROVE  (s ++ (One(c) ++ t))[i] = c <=> i = Len(s) + 1
  <1>1. PICK D : D = C \cup {c}
    OBVIOUS
  <1>2. c \in D /\ s \in Text(D) /\ t \in Text(D)
    <2>1. C \subseteq D /\ c \in D
      BY <1>1
    <2> QED
      BY <2>1, TextOfMore
  <1>3. PICK u : u = One(c) ++ t /\ u \in Text(D)
    BY <1>2, ConsIndex
  <1>4. u[1] = c /\ Len(u) = Len(t) + 1
    BY <1>2, <1>3, ConsIndex
  <1>5. PICK whole : whole = s ++ u
    OBVIOUS
  <1>6. Len(whole) = Len(s) + Len(u)
    BY <1>2, <1>3, <1>5, CatLen
  <1>7. Len(s) \in Nat /\ Len(t) \in Nat /\ i \in 1..Len(whole)
    BY <1>3, <1>5, TextLen
  <1>8. CASE i \in 1..Len(s)
    <2>1. whole[i] = s[i]
      BY <1>2, <1>3, <1>5, <1>8, CatLeft
    <2>2. s[i] \in C
      BY <1>8, ElementOfSeq DEF Text
    <2>3. i # Len(s) + 1
      BY <1>7, <1>8
    <2> QED
      BY <1>3, <1>5, <2>1, <2>2, <2>3
  <1>9. CASE i = Len(s) + 1
    <2>1. 1 \in 1..Len(u)
      BY <1>4, <1>7
    <2>2. whole[Len(s) + 1] = u[1]
      BY <1>2, <1>3, <1>5, <2>1, CatRight
    <2> QED
      BY <1>3, <1>4, <1>5, <1>9, <2>2
  <1>10. CASE ~(i \in 1..Len(s)) /\ i # Len(s) + 1
    <2>1. PICK k : k = i - Len(s) - 1
      OBVIOUS
    <2>2. k \in 1..Len(t) /\ k + 1 \in 1..Len(u) /\ Len(s) + (k + 1) = i
      BY <1>4, <1>6, <1>7, <1>10, <2>1
    <2>3. u[k + 1] = t[k]
      BY <1>2, <1>3, <2>2, ConsRight
    <2>4. whole[Len(s) + (k + 1)] = u[k + 1]
      BY <1>2, <1>3, <1>5, <2>2, CatRight
    <2>5. t[k] \in C
      BY <2>2, ElementOfSeq DEF Text
    <2> QED
      BY <1>3, <1>5, <1>10, <2>2, <2>3, <2>4, <2>5
  <1> QED
    BY <1>8, <1>9, <1>10

LEMMA SplitAt ==
    ASSUME NEW C, NEW s \in Text(C), NEW i \in 1..Len(s)
    PROVE  s = SubSeq(s, 1, i - 1) ++ (One(s[i]) ++ SubSeq(s, i + 1, Len(s)))
  <1>1. Len(s) \in Nat /\ s[i] \in C
    BY TextLen, ElementOfSeq DEF Text
  <1>2. PICK pre, c, post : pre = SubSeq(s, 1, i - 1) /\ c = s[i] /\ post = SubSeq(s, i + 1, Len(s))
    OBVIOUS
  <1>3. pre \in Text(C) /\ Len(pre) = i - 1 /\ \A k \in 1..i - 1 : pre[k] = s[k]
    <2>1. 1 \in 1..Len(s) + 1 /\ i - 1 \in 1 - 1..Len(s) /\ i - 1 - 1 + 1 = i - 1
      BY <1>1
    <2>2. /\ pre \in Text(C) /\ Len(pre) = i - 1
          /\ \A k \in 1..i - 1 : pre[k] = s[1 + k - 1]
      BY <1>2, <2>1, PartIndex
    <2>3. \A k \in 1..i - 1 : 1 + k - 1 = k
      OBVIOUS
    <2> QED
      BY <2>2, <2>3
  <1>4. post \in Text(C) /\ Len(post) = Len(s) - i /\ \A k \in 1..Len(s) - i : post[k] = s[i + k]
    <2>1. PICK m, n : m = i + 1 /\ n = Len(s)
      OBVIOUS
    <2>2. m \in 1..Len(s) + 1 /\ n \in m - 1..Len(s) /\ n - m + 1 = Len(s) - i
      BY <1>1, <2>1
    <2>3. post = SubSeq(s, m, n)
      BY <1>2, <2>1
    <2>4. post \in Text(C) /\ Len(post) = n - m + 1
      BY <2>2, <2>3, PartType
    <2>5. \A k \in 1..n - m + 1 : post[k] = s[m + k - 1]
      BY <2>2, <2>3, PartAt
    <2>6. \A k \in 1..Len(s) - i : m + k - 1 = i + k
      BY <1>1, <2>1
    <2> QED
      BY <2>2, <2>4, <2>5, <2>6
  <1>5. PICK u : u = One(c) ++ post /\ u \in Text(C) /\ Len(u) = Len(post) + 1 /\ u[1] = c
    <2>1. c \in C /\ post \in Text(C)
      BY <1>1, <1>2, <1>4
    <2> QED
      BY <2>1, ConsIndex
  <1>6. PICK whole : whole = pre ++ u /\ whole \in Text(C)
    BY <1>3, <1>5, CatType
  <1>7. Len(whole) = Len(pre) + Len(u)
    BY <1>3, <1>5, <1>6, CatLen
  <1>8. Len(whole) = Len(s)
    BY <1>1, <1>3, <1>4, <1>5, <1>7
  <1>9. ASSUME NEW k \in 1..Len(s)
        PROVE  s[k] = whole[k]
    <2>1. CASE k \in 1..i - 1
      <3>1. k \in 1..Len(pre) /\ pre \in Text(C) /\ u \in Text(C)
        BY <1>3, <1>5, <2>1
      <3>2. whole[k] = pre[k]
        BY <1>6, <3>1, CatLeft
      <3> QED
        BY <1>3, <2>1, <3>2
    <2>2. CASE k = i
      <3>1. 1 \in 1..Len(u) /\ pre \in Text(C) /\ u \in Text(C) /\ Len(pre) + 1 = k
        BY <1>1, <1>3, <1>4, <1>5, <2>2
      <3>2. whole[Len(pre) + 1] = u[1]
        <4>1. 1 \in 1..Len(u) /\ pre \in Text(C) /\ u \in Text(C)
          BY <3>1
        <4>2. (pre ++ u)[Len(pre) + 1] = u[1]
          BY <4>1, CatRight
        <4> QED
          BY <1>6, <4>2
      <3> QED
        BY <1>2, <1>5, <2>2, <3>1, <3>2
    <2>3. CASE ~(k \in 1..i - 1) /\ k # i
      <3>1. PICK j : j = k - i
        OBVIOUS
      <3>2. /\ j \in 1..Len(s) - i /\ j \in 1..Len(post) /\ j + 1 \in 1..Len(u)
            /\ Len(pre) + (j + 1) = k /\ i + j = k
        BY <1>1, <1>3, <1>4, <1>5, <2>3, <3>1
      <3>3. pre \in Text(C) /\ u \in Text(C) /\ post \in Text(C) /\ c \in C
        BY <1>1, <1>2, <1>3, <1>4, <1>5
      <3>4. whole[Len(pre) + (j + 1)] = u[j + 1]
        <4>1. PICK m : m = j + 1 /\ m \in 1..Len(u)
          BY <3>2
        <4>2. pre \in Text(C) /\ u \in Text(C) /\ m \in 1..Len(u)
          BY <3>3, <4>1
        <4>3. (pre ++ u)[Len(pre) + m] = u[m]
          BY <4>2, CatRight
        <4> QED
          BY <1>6, <4>1, <4>3
      <3>5. u[j + 1] = post[j]
        <4>1. u = One(c) ++ post
          BY <1>5
        <4>2. j \in 1..Len(post)
          BY <3>2
        <4> QED
          BY <3>3, <4>1, <4>2, ConsRight
      <3> QED
        BY <1>4, <3>2, <3>4, <3>5
    <2> QED
      BY <2>1, <2>2, <2>3
  <1>10. s = whole
    BY <1>6, <1>8, <1>9, TextEqual
  <1> QED
    BY <1>2, <1>5, <1>6, <1>10

-----------------------------------------------------------------------------
(* What op inject prints of a template. *)

Newline == <<"\n">>
Placed(r) == <<"ref", r>>

TemplateTokens(R) ==
    {BEGIN(i) : i \in Nat} \cup {END(i) : i \in Nat} \cup {Newline} \cup {Placed(r) : r \in R}

Chars(value) == [k \in DOMAIN value |-> <<value[k]>>]
Render(R, vault) ==
    [x \in TemplateTokens(R) |-> IF x[1] # "ref" THEN One(x) ELSE Chars(vault[x[2]])]

(* What is printed: the sentinels, but for those of i, and the characters of values. *)
Printed(V, I) == {BEGIN(i) : i \in I} \cup {END(i) : i \in I} \cup {<<c>> : c \in V}

(* op knows the references: each has a text. *)
Knows(vault, R, V) == "\n" \in V /\ \A r \in R : vault[r] \in Text(V)

LEMMA TokenKinds ==
    ASSUME NEW i, NEW j, NEW c, NEW r
    PROVE  /\ BEGIN(i)[1] # "ref" /\ END(i)[1] # "ref" /\ Newline[1] # "ref"
           /\ Placed(r)[1] = "ref" /\ Placed(r)[2] = r
           /\ BEGIN(i) # END(j) /\ BEGIN(i) # <<c>> /\ END(i) # <<c>>
           /\ BEGIN(i) = BEGIN(j) => i = j
           /\ END(i) = END(j) => i = j
  <1>1. BEGIN(i)[1] # "ref" /\ END(i)[1] # "ref" /\ Newline[1] # "ref"
    BY DEF BEGIN, END, Newline
  <1>2. Placed(r)[1] = "ref" /\ Placed(r)[2] = r
    BY DEF Placed
  <1>3. BEGIN(i) # END(j)
    BY DEF BEGIN, END
  <1>4. BEGIN(i) # <<c>> /\ END(i) # <<c>>
    <2>1. Len(BEGIN(i)) = 2 /\ Len(END(i)) = 2 /\ Len(<<c>>) = 1
      BY DEF BEGIN, END
    <2> QED
      BY <2>1
  <1>5. BEGIN(i) = BEGIN(j) => i = j
    <2>1. BEGIN(i)[2] = i /\ BEGIN(j)[2] = j
      BY DEF BEGIN
    <2> QED
      BY <2>1
  <1>6. END(i) = END(j) => i = j
    <2>1. END(i)[2] = i /\ END(j)[2] = j
      BY DEF END
    <2> QED
      BY <2>1
  <1> QED
    BY <1>1, <1>2, <1>3, <1>4, <1>5, <1>6

LEMMA CharsType ==
    ASSUME NEW V, NEW value \in Text(V), NEW I
    PROVE  /\ Chars(value) \in Text(Printed(V, I)) /\ Len(Chars(value)) = Len(value)
           /\ [k \in DOMAIN Chars(value) |-> Chars(value)[k][1]] = value
  <1>1. /\ DOMAIN value = 1..Len(value) /\ Len(value) \in Nat
        /\ value = [k \in 1..Len(value) |-> value[k]]
    BY LenProperties, SeqDef DEF Text
  <1>2. \A k \in 1..Len(value) : value[k] \in V
    BY ElementOfSeq DEF Text
  <1>3. PICK n \in Nat : n = Len(value)
    BY <1>1
  <1>4. PICK chars : chars = Chars(value) /\ chars = [k \in 1..n |-> <<value[k]>>]
    BY <1>1, <1>3 DEF Chars
  <1>5. \A k \in 1..n : <<value[k]>> \in Printed(V, I)
    BY <1>2, <1>3 DEF Printed
  <1>6. chars \in Text(Printed(V, I)) /\ Len(chars) = n /\ DOMAIN chars = 1..n
    <2> DEFINE D == Printed(V, I)
    <2> HIDE DEF D
    <2>1. \A k \in 1..n : <<value[k]>> \in D
      BY <1>5 DEF D
    <2>2. chars \in Seq(D)
      BY <1>4, <2>1
    <2>3. DOMAIN chars = 1..n
      BY <1>4
    <2>4. Len(chars) = n
      BY <2>2, <2>3, LenProperties
    <2> QED
      BY <2>2, <2>3, <2>4 DEF Text, D
  <1>7. \A k \in 1..n : chars[k][1] = value[k]
    <2> SUFFICES ASSUME NEW k \in 1..n
                 PROVE  chars[k][1] = value[k]
      OBVIOUS
    <2>1. chars[k] = <<value[k]>>
      BY <1>4
    <2> QED
      BY <2>1
  <1>8. [k \in DOMAIN chars |-> chars[k][1]] = value
    BY <1>1, <1>3, <1>6, <1>7
  <1> QED
    BY <1>3, <1>4, <1>6, <1>8

LEMMA RenderAt ==
    ASSUME NEW R, NEW vault, NEW i \in Nat, NEW r \in R
    PROVE  /\ Render(R, vault)[BEGIN(i)] = One(BEGIN(i))
           /\ Render(R, vault)[END(i)] = One(END(i))
           /\ Render(R, vault)[Newline] = One(Newline)
           /\ Render(R, vault)[Placed(r)] = Chars(vault[r])
           /\ BEGIN(i) \in TemplateTokens(R) /\ END(i) \in TemplateTokens(R)
           /\ Newline \in TemplateTokens(R) /\ Placed(r) \in TemplateTokens(R)
  <1>1. /\ BEGIN(i) \in TemplateTokens(R) /\ END(i) \in TemplateTokens(R)
        /\ Newline \in TemplateTokens(R) /\ Placed(r) \in TemplateTokens(R)
    BY DEF TemplateTokens
  <1>2. \A x \in TemplateTokens(R) :
            Render(R, vault)[x] = IF x[1] # "ref" THEN One(x) ELSE Chars(vault[x[2]])
    BY DEF Render
  <1>3. /\ BEGIN(i)[1] # "ref" /\ END(i)[1] # "ref" /\ Newline[1] # "ref"
        /\ Placed(r)[1] = "ref" /\ Placed(r)[2] = r
    BY TokenKinds
  <1> QED
    BY <1>1, <1>2, <1>3

LEMMA RenderTexts ==
    ASSUME NEW R, NEW vault, NEW V, Knows(vault, R, V)
    PROVE  Texts(Render(R, vault), TemplateTokens(R), Printed(V, Nat))
  <1> SUFFICES ASSUME NEW x \in TemplateTokens(R)
               PROVE  Render(R, vault)[x] \in Text(Printed(V, Nat))
    BY DEF Texts
  <1>1. CASE \E i \in Nat : x = BEGIN(i) \/ x = END(i)
    <2>1. PICK i \in Nat : x = BEGIN(i) \/ x = END(i)
      BY <1>1
    <2>2. x \in Printed(V, Nat)
      BY <2>1 DEF Printed
    <2>3. x[1] # "ref"
      BY <2>1, TokenKinds
    <2>4. Render(R, vault)[x] = One(x)
      BY <2>3 DEF Render
    <2> QED
      BY <2>2, <2>4, OneType
  <1>2. CASE x = Newline
    <2>1. x \in Printed(V, Nat)
      BY <1>2 DEF Printed, Newline, Knows
    <2>2. x[1] # "ref"
      BY <1>2, TokenKinds
    <2>3. Render(R, vault)[x] = One(x)
      BY <2>2 DEF Render
    <2> QED
      BY <2>1, <2>3, OneType
  <1>3. CASE \E r \in R : x = Placed(r)
    <2>1. PICK r \in R : x = Placed(r)
      BY <1>3
    <2>2. x[1] = "ref" /\ x[2] = r
      BY <2>1, TokenKinds
    <2>3. Render(R, vault)[x] = Chars(vault[r])
      BY <2>2 DEF Render
    <2>4. vault[r] \in Text(V)
      BY DEF Knows
    <2> QED
      BY <2>3, <2>4, CharsType
  <1> QED
    BY <1>1, <1>2, <1>3 DEF TemplateTokens

LEMMA RenderedIsFlatMap ==
    ASSUME NEW R, NEW vault, NEW template \in Text(TemplateTokens(R))
    PROVE  Rendered(template, vault) = FlatMap(Render(R, vault), template)
  <1>1. \A i \in DOMAIN template : template[i] \in TemplateTokens(R)
    BY LenProperties, ElementOfSeq DEF Text
  <1>2. [i \in DOMAIN template |-> IF template[i][1] # "ref" THEN <<template[i]>>
                                   ELSE Chars(vault[template[i][2]])]
            = Mapped(Render(R, vault), template)
    BY <1>1 DEF Mapped, Render, One
  <1>3. Rendered(template, vault) =
            FlattenSeq([i \in DOMAIN template |-> IF template[i][1] # "ref" THEN <<template[i]>>
                                                  ELSE Chars(vault[template[i][2]])])
    BY DEF Rendered, Chars
  <1> QED
    BY <1>2, <1>3 DEF FlatMap

-----------------------------------------------------------------------------
(* The part of the template and of the output that belongs to one reference. *)

Block(i, r) == <<BEGIN(i), Newline, Placed(r), Newline, END(i), Newline>>
Blocks(refs) == [i \in DOMAIN refs |-> Block(i, refs[i])]

Output(i, value) ==
    One(BEGIN(i)) ++ (One(Newline) ++ (Chars(value) ++ (One(Newline) ++ (One(END(i)) ++ One(Newline)))))

LEMMA BlockIsCat ==
    ASSUME NEW i, NEW r
    PROVE  Block(i, r) =
               One(BEGIN(i)) ++ (One(Newline) ++ (One(Placed(r)) ++
                   (One(Newline) ++ (One(END(i)) ++ One(Newline)))))
  <1>1. PICK b, n, p, e : b = BEGIN(i) /\ n = Newline /\ p = Placed(r) /\ e = END(i)
    OBVIOUS
  <1>2. PICK C : C = {b, n, p, e}
    OBVIOUS
  <1>3. b \in C /\ n \in C /\ p \in C /\ e \in C
    BY <1>2
  <1>4. <<b, n, p, n, e, n>> = One(b) ++ <<n, p, n, e, n>>
    <2>1. PICK t : t = <<b, n, p, n, e, n>>
      OBVIOUS
    <2>2. t \in Text(C) /\ t # <<>> /\ Head(t) = b /\ Tail(t) = <<n, p, n, e, n>>
      BY <1>3, <2>1 DEF Text
    <2> QED
      BY <2>1, <2>2, ConsOfText
  <1>5. <<n, p, n, e, n>> = One(n) ++ <<p, n, e, n>>
    <2>1. PICK t : t = <<n, p, n, e, n>>
      OBVIOUS
    <2>2. t \in Text(C) /\ t # <<>> /\ Head(t) = n /\ Tail(t) = <<p, n, e, n>>
      BY <1>3, <2>1 DEF Text
    <2> QED
      BY <2>1, <2>2, ConsOfText
  <1>6. <<p, n, e, n>> = One(p) ++ <<n, e, n>>
    <2>1. PICK t : t = <<p, n, e, n>>
      OBVIOUS
    <2>2. t \in Text(C) /\ t # <<>> /\ Head(t) = p /\ Tail(t) = <<n, e, n>>
      BY <1>3, <2>1 DEF Text
    <2> QED
      BY <2>1, <2>2, ConsOfText
  <1>7. <<n, e, n>> = One(n) ++ <<e, n>>
    <2>1. PICK t : t = <<n, e, n>>
      OBVIOUS
    <2>2. t \in Text(C) /\ t # <<>> /\ Head(t) = n /\ Tail(t) = <<e, n>>
      BY <1>3, <2>1 DEF Text
    <2> QED
      BY <2>1, <2>2, ConsOfText
  <1>8. <<e, n>> = One(e) ++ One(n)
    BY <1>3, PairIsCat
  <1> QED
    BY <1>1, <1>4, <1>5, <1>6, <1>7, <1>8 DEF Block

LEMMA BlockType ==
    ASSUME NEW R, NEW i \in Nat, NEW r \in R
    PROVE  Block(i, r) \in Text(TemplateTokens(R))
  <1>1. PICK T : T = TemplateTokens(R)
    OBVIOUS
  <1>2. BEGIN(i) \in T /\ END(i) \in T /\ Newline \in T /\ Placed(r) \in T
    BY <1>1 DEF TemplateTokens
  <1>3. PICK b, n, p, e : b = BEGIN(i) /\ n = Newline /\ p = Placed(r) /\ e = END(i)
    OBVIOUS
  <1>4. <<b, n, p, n, e, n>> \in Seq(T)
    BY <1>2, <1>3
  <1> QED
    BY <1>1, <1>3, <1>4 DEF Block, Text

LEMMA BlockIsRendered ==
    ASSUME NEW R, NEW vault, NEW V, Knows(vault, R, V), NEW i \in Nat, NEW r \in R
    PROVE  FlatMap(Render(R, vault), Block(i, r)) = Output(i, vault[r])
  <1>1. PICK f, T, D : f = Render(R, vault) /\ T = TemplateTokens(R) /\ Texts(f, T, D)
    BY RenderTexts
  <1>2. PICK b, n, p, e : b = BEGIN(i) /\ n = Newline /\ p = Placed(r) /\ e = END(i)
    OBVIOUS
  <1>3. b \in T /\ n \in T /\ p \in T /\ e \in T
    BY <1>1, <1>2, RenderAt
  <1>4. f[b] = One(b) /\ f[n] = One(n) /\ f[p] = Chars(vault[r]) /\ f[e] = One(e)
    BY <1>1, <1>2, RenderAt
  <1>5. PICK t1 : t1 = One(n) /\ t1 \in Text(T) /\ FlatMap(f, t1) = One(n)
    <2>1. FlatMap(f, One(n)) = f[n]
      BY <1>1, <1>3, FlatMapOne
    <2> QED
      BY <1>3, <1>4, <2>1, OneType
  <1>6. PICK t2 : t2 = One(e) ++ t1 /\ t2 \in Text(T) /\ FlatMap(f, t2) = One(e) ++ One(n)
    <2>1. FlatMap(f, One(e) ++ t1) = f[e] ++ FlatMap(f, t1)
      BY <1>1, <1>3, <1>5, FlatMapCons
    <2> QED
      BY <1>3, <1>4, <1>5, <2>1, ConsIndex
  <1>7. PICK t3 : /\ t3 = One(n) ++ t2 /\ t3 \in Text(T)
                  /\ FlatMap(f, t3) = One(n) ++ (One(e) ++ One(n))
    <2>1. FlatMap(f, One(n) ++ t2) = f[n] ++ FlatMap(f, t2)
      BY <1>1, <1>3, <1>6, FlatMapCons
    <2> QED
      BY <1>3, <1>4, <1>6, <2>1, ConsIndex
  <1>8. PICK t4 : /\ t4 = One(p) ++ t3 /\ t4 \in Text(T)
                  /\ FlatMap(f, t4) = Chars(vault[r]) ++ (One(n) ++ (One(e) ++ One(n)))
    <2>1. FlatMap(f, One(p) ++ t3) = f[p] ++ FlatMap(f, t3)
      BY <1>1, <1>3, <1>7, FlatMapCons
    <2> QED
      BY <1>3, <1>4, <1>7, <2>1, ConsIndex
  <1>9. PICK t5 : /\ t5 = One(n) ++ t4 /\ t5 \in Text(T)
                  /\ FlatMap(f, t5) = One(n) ++ (Chars(vault[r]) ++ (One(n) ++ (One(e) ++ One(n))))
    <2>1. FlatMap(f, One(n) ++ t4) = f[n] ++ FlatMap(f, t4)
      BY <1>1, <1>3, <1>8, FlatMapCons
    <2> QED
      BY <1>3, <1>4, <1>8, <2>1, ConsIndex
  <1>10. FlatMap(f, One(b) ++ t5) = f[b] ++ FlatMap(f, t5)
    BY <1>1, <1>3, <1>9, FlatMapCons
  <1>11. Block(i, r) = One(b) ++ t5
    BY <1>2, <1>5, <1>6, <1>7, <1>8, <1>9, BlockIsCat
  <1> QED
    BY <1>1, <1>2, <1>4, <1>9, <1>10, <1>11 DEF Output

-----------------------------------------------------------------------------
(* A text between two sentinels. *)

Framed(a, b, n, s, e, z) ==
    a ++ ((One(b) ++ (One(n) ++ (s ++ (One(n) ++ (One(e) ++ One(n)))))) ++ z)

LEMMA LenOfAppended ==
    ASSUME NEW C, NEW s \in Text(C), NEW c \in C
    PROVE  Len(s ++ One(c)) = Len(s) + 1
  <1>1. Len(One(c)) = 1
    BY DEF One
  <1>2. Len(s ++ One(c)) = Len(s) + Len(One(c))
    BY OneType, CatLen
  <1> QED
    BY <1>1, <1>2

LEMMA AtPlace ==
    ASSUME NEW C, NEW s \in Text(C), NEW c \in C, NEW t \in Text(C)
    PROVE  (s ++ (One(c) ++ t))[Len(s) + 1] = c
  <1>1. PICK u : u = One(c) ++ t /\ u \in Text(C)
    BY ConsIndex
  <1>2. u[1] = c /\ Len(u) = Len(t) + 1 /\ Len(t) \in Nat
    BY <1>1, ConsIndex, TextLen
  <1>3. 1 \in 1..Len(u)
    BY <1>2
  <1>4. (s ++ u)[Len(s) + 1] = u[1]
    BY <1>1, <1>3, CatRight
  <1> QED
    BY <1>1, <1>2, <1>4

LEMMA FramedTails ==
    ASSUME NEW C, NEW a \in Text(C), NEW b \in C, NEW n \in C, NEW s \in Text(C), NEW e \in C,
           NEW z \in Text(C)
    PROVE  Framed(a, b, n, s, e, z) =
               a ++ (One(b) ++ (One(n) ++ (s ++ (One(n) ++ (One(e) ++ (One(n) ++ z))))))
  <1>1. PICK ob, on, oe : /\ ob = One(b) /\ on = One(n) /\ oe = One(e)
                          /\ ob \in Text(C) /\ on \in Text(C) /\ oe \in Text(C)
    BY OneType
  <1>2. PICK u1 : u1 = oe ++ on /\ u1 \in Text(C) /\ u1 ++ z = oe ++ (on ++ z)
    BY <1>1, CatType, CatAssoc
  <1>3. PICK u2 : u2 = on ++ u1 /\ u2 \in Text(C) /\ u2 ++ z = on ++ (u1 ++ z)
    BY <1>1, <1>2, CatType, CatAssoc
  <1>4. PICK u3 : u3 = s ++ u2 /\ u3 \in Text(C) /\ u3 ++ z = s ++ (u2 ++ z)
    BY <1>3, CatType, CatAssoc
  <1>5. PICK u4 : u4 = on ++ u3 /\ u4 \in Text(C) /\ u4 ++ z = on ++ (u3 ++ z)
    BY <1>1, <1>4, CatType, CatAssoc
  <1>6. (ob ++ u4) ++ z = ob ++ (u4 ++ z)
    BY <1>1, <1>5, CatAssoc
  <1>7. Framed(a, b, n, s, e, z) = a ++ ((ob ++ u4) ++ z)
    BY <1>1, <1>2, <1>3, <1>4, <1>5 DEF Framed
  <1>8. (ob ++ u4) ++ z = ob ++ (on ++ (s ++ (on ++ (oe ++ (on ++ z)))))
    BY <1>2, <1>3, <1>4, <1>5, <1>6
  <1> QED
    BY <1>1, <1>7, <1>8

(* A text cut at each of its seams. *)
Staged(C, whole, a, b, n, s, e, z, t5, s2, s3, s4, s5, t4, t3, t1) ==
    /\ t1 \in Text(C) /\ t3 \in Text(C) /\ t4 \in Text(C) /\ t5 \in Text(C)
    /\ s2 \in Text(C) /\ s3 \in Text(C) /\ s4 \in Text(C) /\ s5 \in Text(C)
    /\ t1 = One(n) ++ z /\ t3 = One(n) ++ (One(e) ++ t1) /\ t4 = s ++ t3
    /\ t5 = One(n) ++ t4
    /\ s2 = a ++ One(b) /\ s3 = s2 ++ One(n) /\ s4 = s3 ++ s /\ s5 = s4 ++ One(n)
    /\ whole = a ++ (One(b) ++ t5)
    /\ whole = s2 ++ (One(n) ++ t4)
    /\ whole = s3 ++ (s ++ t3)
    /\ whole = s4 ++ (One(n) ++ (One(e) ++ t1))
    /\ whole = s5 ++ (One(e) ++ t1)

LEMMA FramedStarts ==
    ASSUME NEW C, NEW a \in Text(C), NEW b \in C, NEW n \in C, NEW s \in Text(C), NEW e \in C,
           NEW z \in Text(C)
    PROVE  \E t5, s2, s3, s4, s5, t4, t3, t1 :
              Staged(C, Framed(a, b, n, s, e, z), a, b, n, s, e, z, t5, s2, s3, s4, s5, t4, t3, t1)
  <1>1. PICK ob, on, oe : /\ ob = One(b) /\ on = One(n) /\ oe = One(e)
                          /\ ob \in Text(C) /\ on \in Text(C) /\ oe \in Text(C)
    BY OneType
  <1>2. PICK t1 : t1 = on ++ z /\ t1 \in Text(C)
    BY <1>1, CatType
  <1>3. PICK t2 : t2 = oe ++ t1 /\ t2 \in Text(C)
    BY <1>1, <1>2, CatType
  <1>4. PICK t3 : t3 = on ++ t2 /\ t3 \in Text(C)
    BY <1>1, <1>3, CatType
  <1>5. PICK t4 : t4 = s ++ t3 /\ t4 \in Text(C)
    BY <1>4, CatType
  <1>6. PICK t5 : t5 = on ++ t4 /\ t5 \in Text(C)
    BY <1>1, <1>5, CatType
  <1>7. PICK whole : whole = Framed(a, b, n, s, e, z) /\ whole = a ++ (ob ++ t5)
    BY <1>1, <1>2, <1>3, <1>4, <1>5, <1>6, FramedTails
  <1>8. PICK s2 : s2 = a ++ ob /\ s2 \in Text(C) /\ s2 ++ t5 = a ++ (ob ++ t5)
    BY <1>1, <1>6, CatType, CatAssoc
  <1>9. PICK s3 : s3 = s2 ++ on /\ s3 \in Text(C) /\ s3 ++ t4 = s2 ++ (on ++ t4)
    BY <1>1, <1>5, <1>8, CatType, CatAssoc
  <1>10. PICK s4 : s4 = s3 ++ s /\ s4 \in Text(C) /\ s4 ++ t3 = s3 ++ (s ++ t3)
    BY <1>4, <1>9, CatType, CatAssoc
  <1>11. PICK s5 : s5 = s4 ++ on /\ s5 \in Text(C) /\ s5 ++ t2 = s4 ++ (on ++ t2)
    BY <1>1, <1>3, <1>10, CatType, CatAssoc
  <1>12. whole = s2 ++ (on ++ t4)
    BY <1>6, <1>7, <1>8
  <1>13. whole = s3 ++ (s ++ t3)
    BY <1>5, <1>9, <1>12
  <1>14. whole = s4 ++ (on ++ (oe ++ t1))
    BY <1>3, <1>4, <1>10, <1>13
  <1>15. whole = s5 ++ (oe ++ t1)
    BY <1>3, <1>11, <1>14
  <1>16. /\ t1 = One(n) ++ z /\ t3 = One(n) ++ (One(e) ++ t1) /\ t4 = s ++ t3
         /\ t5 = One(n) ++ t4
    BY <1>1, <1>2, <1>3, <1>4, <1>5, <1>6
  <1>17. s2 = a ++ One(b) /\ s3 = s2 ++ One(n) /\ s4 = s3 ++ s /\ s5 = s4 ++ One(n)
    BY <1>1, <1>8, <1>9, <1>10, <1>11
  <1>18. Staged(C, whole, a, b, n, s, e, z, t5, s2, s3, s4, s5, t4, t3, t1)
    BY <1>1, <1>2, <1>4, <1>5, <1>6, <1>7, <1>8, <1>9, <1>10, <1>11, <1>12, <1>13, <1>14, <1>15,
       <1>16, <1>17 DEF Staged
  <1> QED
    BY <1>7, <1>18, Zenon

(* b stands at p and e at q and nowhere else, with s between them. *)
SentinelsAt(whole, b, n, s, e, p, q) ==
    /\ q = p + Len(s) + 3
    /\ p \in 1..Len(whole) /\ q \in 1..Len(whole)
    /\ \A k \in 1..Len(whole) : whole[k] = b <=> k = p
    /\ \A k \in 1..Len(whole) : whole[k] = e <=> k = q
    /\ whole[p + 1] = n /\ whole[q - 1] = n
    /\ SubSeq(whole, p + 2, q - 2) = s

LEMMA FramedAt ==
    ASSUME NEW C, NEW b, NEW e, b \notin C, e \notin C, b # e, NEW n \in C,
           NEW a \in Text(C), NEW s \in Text(C), NEW z \in Text(C)
    PROVE  \E p, q \in Nat : SentinelsAt(Framed(a, b, n, s, e, z), b, n, s, e, p, q)
  <1>1. PICK D, CB, CE : D = C \cup {b, e} /\ CB = C \cup {b} /\ CE = C \cup {e}
    OBVIOUS
  <1>2. /\ C \subseteq D /\ C \subseteq CB /\ C \subseteq CE /\ CB \subseteq D /\ CE \subseteq D
        /\ b \in D /\ e \in D /\ n \in D /\ b \in CB /\ n \in CB /\ n \in CE /\ e \in CE
        /\ b \notin CE /\ e \notin CB
    BY <1>1
  <1>3. a \in Text(D) /\ s \in Text(D) /\ z \in Text(D)
    BY <1>2, TextOfMore
  <1>4. a \in Text(CB) /\ s \in Text(CB) /\ z \in Text(CB)
    BY <1>2, TextOfMore
  <1>5. a \in Text(CE) /\ s \in Text(CE) /\ z \in Text(CE)
    BY <1>2, TextOfMore
  <1>6. PICK whole : whole = Framed(a, b, n, s, e, z)
    OBVIOUS
  <1>7. PICK t5, s2, s3, s4, s5, t4, t3, t1 :
              Staged(D, whole, a, b, n, s, e, z, t5, s2, s3, s4, s5, t4, t3, t1)
    <2>1. \E t5, s2, s3, s4, s5, t4, t3, t1 :
              Staged(D, Framed(a, b, n, s, e, z), a, b, n, s, e, z, t5, s2, s3, s4, s5, t4, t3, t1)
      BY <1>2, <1>3, FramedStarts
    <2> QED
      BY <1>6, <2>1
  <1>70. t1 = One(n) ++ z /\ t3 = One(n) ++ (One(e) ++ t1) /\ t4 = s ++ t3 /\ t5 = One(n) ++ t4
    BY <1>7 DEF Staged
  <1>71. s2 = a ++ One(b) /\ s3 = s2 ++ One(n) /\ s4 = s3 ++ s /\ s5 = s4 ++ One(n)
    BY <1>7 DEF Staged
  <1>72. whole = a ++ (One(b) ++ t5) /\ whole = s2 ++ (One(n) ++ t4) /\ whole = s3 ++ (s ++ t3)
    BY <1>7 DEF Staged
  <1>73. whole = s4 ++ (One(n) ++ (One(e) ++ t1)) /\ whole = s5 ++ (One(e) ++ t1)
    BY <1>7 DEF Staged
  <1>74. /\ t1 \in Text(D) /\ t3 \in Text(D) /\ t4 \in Text(D) /\ t5 \in Text(D)
         /\ s2 \in Text(D) /\ s3 \in Text(D) /\ s4 \in Text(D) /\ s5 \in Text(D)
    BY <1>7 DEF Staged
  <1>8. PICK p, q : p = Len(a) + 1 /\ q = Len(a) + Len(s) + 4
    OBVIOUS
  <1>9. /\ Len(a) \in Nat /\ Len(s) \in Nat /\ Len(t1) \in Nat
        /\ p \in Nat /\ q \in Nat /\ q = p + Len(s) + 3
    <2>1. Len(a) \in Nat /\ Len(s) \in Nat /\ Len(t1) \in Nat
      BY <1>3, <1>74, TextLen
    <2> QED
      BY <1>8, <2>1
  <1>10. Len(s2) = Len(a) + 1
    BY <1>2, <1>3, <1>71, LenOfAppended
  <1>11. Len(s3) = Len(s2) + 1
    BY <1>2, <1>71, <1>74, LenOfAppended
  <1>12. Len(s4) = Len(s3) + Len(s)
    <2>1. s3 \in Text(D) /\ s \in Text(D)
      BY <1>3, <1>74
    <2>2. Len(s3 ++ s) = Len(s3) + Len(s)
      BY <2>1, CatLen
    <2> QED
      BY <1>71, <2>2
  <1>13. Len(s5) = Len(s4) + 1
    BY <1>2, <1>71, <1>74, LenOfAppended
  <1>14. Len(whole) = Len(s5) + (Len(t1) + 1)
    <2>1. PICK u : u = One(e) ++ t1 /\ u \in Text(D) /\ Len(u) = Len(t1) + 1
      BY <1>2, <1>74, ConsIndex
    <2>2. Len(s5 ++ u) = Len(s5) + Len(u)
      <3>1. s5 \in Text(D) /\ u \in Text(D)
        BY <1>74, <2>1
      <3> QED
        BY <3>1, CatLen
    <2> QED
      BY <1>73, <2>1, <2>2
  <1>15. /\ p = Len(a) + 1 /\ p + 1 = Len(s2) + 1 /\ p + 2 = Len(s3) + 1 /\ q - 2 = Len(s3) + Len(s)
         /\ q - 1 = Len(s4) + 1 /\ q = Len(s5) + 1
         /\ p \in 1..Len(whole) /\ q \in 1..Len(whole)
    BY <1>8, <1>9, <1>10, <1>11, <1>12, <1>13, <1>14
  <1>16. t5 \in Text(CE) /\ t1 \in Text(CE)
    <2>1. t1 \in Text(CE)
      BY <1>2, <1>5, <1>70, ConsIndex
    <2>2. One(e) ++ t1 \in Text(CE)
      BY <1>2, <2>1, ConsIndex
    <2>3. t3 \in Text(CE)
      BY <1>2, <1>70, <2>2, ConsIndex
    <2>4. t4 \in Text(CE)
      BY <1>5, <1>70, <2>3, CatType
    <2>5. t5 \in Text(CE)
      BY <1>2, <1>70, <2>4, ConsIndex
    <2> QED
      BY <2>1, <2>5
  <1>17. s5 \in Text(CB) /\ t1 \in Text(CB)
    <2>1. One(b) \in Text(CB) /\ One(n) \in Text(CB)
      BY <1>2, OneType
    <2>2. s2 \in Text(CB)
      BY <1>4, <1>71, <2>1, CatType
    <2>3. s3 \in Text(CB)
      BY <1>71, <2>1, <2>2, CatType
    <2>4. s4 \in Text(CB)
      BY <1>4, <1>71, <2>3, CatType
    <2>5. s5 \in Text(CB)
      BY <1>71, <2>1, <2>4, CatType
    <2>6. t1 \in Text(CB)
      BY <1>4, <1>70, <2>1, CatType
    <2> QED
      BY <2>5, <2>6
  <1>18. \A k \in 1..Len(whole) : whole[k] = b <=> k = p
    <2> SUFFICES ASSUME NEW k \in 1..Len(whole)
                 PROVE  whole[k] = b <=> k = p
      OBVIOUS
    <2>1. k \in 1..Len(a ++ (One(b) ++ t5))
      BY <1>72
    <2>2. (a ++ (One(b) ++ t5))[k] = b <=> k = Len(a) + 1
      BY <1>2, <1>5, <1>16, <2>1, OnlyPlace
    <2> QED
      BY <1>72, <1>8, <2>2
  <1>19. \A k \in 1..Len(whole) : whole[k] = e <=> k = q
    <2> SUFFICES ASSUME NEW k \in 1..Len(whole)
                 PROVE  whole[k] = e <=> k = q
      OBVIOUS
    <2>1. k \in 1..Len(s5 ++ (One(e) ++ t1))
      BY <1>73
    <2>2. (s5 ++ (One(e) ++ t1))[k] = e <=> k = Len(s5) + 1
      BY <1>2, <1>17, <2>1, OnlyPlace
    <2> QED
      BY <1>73, <1>15, <2>2
  <1>20. whole[p + 1] = n
    <2>1. (s2 ++ (One(n) ++ t4))[Len(s2) + 1] = n
      <3>1. s2 \in Text(D) /\ n \in D /\ t4 \in Text(D)
        BY <1>2, <1>74
      <3> QED
        BY <3>1, AtPlace
    <2> QED
      BY <1>72, <1>15, <2>1
  <1>21. whole[q - 1] = n
    <2>1. PICK u : u = One(e) ++ t1 /\ u \in Text(D)
      BY <1>2, <1>74, ConsIndex
    <2>2. (s4 ++ (One(n) ++ u))[Len(s4) + 1] = n
      <3>1. s4 \in Text(D) /\ n \in D /\ u \in Text(D)
        BY <1>2, <1>74, <2>1
      <3> QED
        BY <3>1, AtPlace
    <2> QED
      BY <1>73, <1>15, <2>1, <2>2
  <1>22. SubSeq(whole, p + 2, q - 2) = s
    <2>1. SubSeq(s3 ++ (s ++ t3), Len(s3) + 1, Len(s3) + Len(s)) = s
      <3>1. s3 \in Text(D) /\ s \in Text(D) /\ t3 \in Text(D)
        BY <1>3, <1>74
      <3> QED
        BY <3>1, PartBetween
    <2> QED
      BY <1>72, <1>15, <2>1
  <1>23. SentinelsAt(whole, b, n, s, e, p, q)
    BY <1>9, <1>15, <1>18, <1>19, <1>20, <1>21, <1>22 DEF SentinelsAt
  <1> QED
    BY <1>6, <1>9, <1>23

LEMMA FramedType ==
    ASSUME NEW C, NEW a \in Text(C), NEW b \in C, NEW n \in C, NEW s \in Text(C), NEW e \in C,
           NEW z \in Text(C)
    PROVE  Framed(a, b, n, s, e, z) \in Text(C)
  <1>1. PICK t5 : t5 \in Text(C) /\ Framed(a, b, n, s, e, z) = a ++ (One(b) ++ t5)
    <2>1. PICK t5, s2, s3, s4, s5, t4, t3, t1 :
              Staged(C, Framed(a, b, n, s, e, z), a, b, n, s, e, z, t5, s2, s3, s4, s5, t4, t3, t1)
      BY FramedStarts
    <2> QED
      BY <2>1 DEF Staged
  <1>2. One(b) ++ t5 \in Text(C)
    BY <1>1, ConsIndex
  <1> QED
    BY <1>1, <1>2, CatType

-----------------------------------------------------------------------------
(* op inject's output taken apart. *)

LEMMA TextOfElements ==
    ASSUME NEW C, NEW D, NEW t \in Text(D), \A i \in 1..Len(t) : t[i] \in C
    PROVE  t \in Text(C)
  <1>1. Len(t) \in Nat /\ t = [i \in 1..Len(t) |-> t[i]]
    BY LenProperties, SeqDef DEF Text
  <1> QED
    BY <1>1 DEF Text

LEMMA FlatMapOfFlatten ==
    ASSUME NEW C, NEW D, NEW f, Texts(f, C, D), NEW g, g = [b \in Text(C) |-> FlatMap(f, b)],
           NEW blocks \in Text(Text(C))
    PROVE  FlatMap(f, FlattenSeq(blocks)) = FlatMap(g, blocks)
  <1>1. Texts(g, Text(C), D)
    BY FlatMapType DEF Texts
  <1> DEFINE T == {t \in Text(Text(C)) : FlatMap(f, FlattenSeq(t)) = FlatMap(g, t)}
  <1>2. <<>> \in T
    BY NothingType, FlattenNothing, FlatMapNothing
  <1>3. ASSUME NEW t \in Text(Text(C)), NEW b \in Text(C), t \in T
        PROVE  One(b) ++ t \in T
    <2>1. One(b) \in Text(Text(C)) /\ One(b) ++ t \in Text(Text(C))
      BY OneType, CatType
    <2>2. FlattenSeq(One(b) ++ t) = b ++ FlattenSeq(t)
      <3>1. FlattenSeq(One(b) ++ t) = FlattenSeq(One(b)) ++ FlattenSeq(t)
        BY <2>1, FlattenCat
      <3>2. FlattenSeq(One(b)) = b
        BY FlattenOne
      <3> QED
        BY <3>1, <3>2
    <2>3. PICK rest : rest = FlattenSeq(t) /\ rest \in Text(C)
      BY FlattenType
    <2>4. FlatMap(f, b ++ rest) = FlatMap(f, b) ++ FlatMap(f, rest)
      BY <2>3, FlatMapCat
    <2>5. FlatMap(g, One(b) ++ t) = g[b] ++ FlatMap(g, t)
      BY <1>1, FlatMapCons
    <2>6. g[b] = FlatMap(f, b)
      OBVIOUS
    <2>7. FlatMap(f, rest) = FlatMap(g, t)
      BY <1>3, <2>3
    <2> QED
      BY <2>1, <2>2, <2>3, <2>4, <2>5, <2>6, <2>7
  <1> HIDE DEF T
  <1>4. Text(Text(C)) \subseteq T
    BY <1>2, <1>3, TextInduction
  <1>5. blocks \in T
    BY <1>4
  <1> QED
    BY <1>5 DEF T

LEMMA BlocksType ==
    ASSUME NEW R, NEW refs \in Text(R)
    PROVE  /\ Blocks(refs) \in Text(Text(TemplateTokens(R)))
           /\ Len(Blocks(refs)) = Len(refs) /\ Len(refs) \in Nat
           /\ \A i \in 1..Len(refs) : Blocks(refs)[i] = Block(i, refs[i]) /\ refs[i] \in R
  <1>1. Len(refs) \in Nat /\ DOMAIN refs = 1..Len(refs) /\ \A i \in 1..Len(refs) : refs[i] \in R
    BY LenProperties, ElementOfSeq DEF Text
  <1>2. \A i \in 1..Len(refs) : Block(i, refs[i]) \in Text(TemplateTokens(R))
    BY <1>1, BlockType
  <1>3. PICK n, T : n = Len(refs) /\ T = Text(TemplateTokens(R))
    OBVIOUS
  <1>4. Blocks(refs) = [i \in 1..n |-> Block(i, refs[i])]
    BY <1>1, <1>3 DEF Blocks
  <1>5. Blocks(refs) \in Text(T)
    BY <1>1, <1>2, <1>3, <1>4 DEF Text
  <1> QED
    BY <1>1, <1>3, <1>4, <1>5

Outputs(refs, vault) == [i \in DOMAIN refs |-> Output(i, vault[refs[i]])]

LEMMA OutputIsFramed ==
    ASSUME NEW C, NEW i, NEW value, NEW a \in Text(C), NEW z \in Text(C)
    PROVE  a ++ (Output(i, value) ++ z) = Framed(a, BEGIN(i), Newline, Chars(value), END(i), z)
  BY DEF Output, Framed

LEMMA OutputType ==
    ASSUME NEW V, "\n" \in V, NEW I, I \subseteq Nat, NEW i \in I, NEW value \in Text(V)
    PROVE  Output(i, value) \in Text(Printed(V, I))
  <1>1. PICK D : D = Printed(V, I)
    OBVIOUS
  <1>2. BEGIN(i) \in D /\ END(i) \in D /\ Newline \in D
    BY <1>1 DEF Printed, Newline
  <1>3. Chars(value) \in Text(D)
    BY <1>1, CharsType
  <1>4. PICK b, n, e, s : /\ b = One(BEGIN(i)) /\ n = One(Newline)
                          /\ e = One(END(i)) /\ s = Chars(value)
                          /\ b \in Text(D) /\ n \in Text(D) /\ e \in Text(D) /\ s \in Text(D)
    BY <1>2, <1>3, OneType
  <1>5. PICK t : t = n ++ (e ++ n) /\ t \in Text(D)
    BY <1>4, CatType
  <1>6. PICK u : u = n ++ (s ++ t) /\ u \in Text(D)
    BY <1>4, <1>5, CatType
  <1>7. b ++ u \in Text(D)
    BY <1>4, <1>6, CatType
  <1> QED
    BY <1>1, <1>4, <1>5, <1>6, <1>7 DEF Output

LEMMA OutputsType ==
    ASSUME NEW R, NEW vault, NEW V, Knows(vault, R, V), NEW refs \in Text(R)
    PROVE  /\ Outputs(refs, vault) \in Text(Text(Printed(V, Nat)))
           /\ Len(Outputs(refs, vault)) = Len(refs) /\ Len(refs) \in Nat
           /\ \A i \in 1..Len(refs) : Outputs(refs, vault)[i] = Output(i, vault[refs[i]])
  <1>1. Len(refs) \in Nat /\ DOMAIN refs = 1..Len(refs) /\ \A i \in 1..Len(refs) : refs[i] \in R
    BY LenProperties, ElementOfSeq DEF Text
  <1>2. \A i \in 1..Len(refs) : Output(i, vault[refs[i]]) \in Text(Printed(V, Nat))
    <2> SUFFICES ASSUME NEW i \in 1..Len(refs)
                 PROVE  Output(i, vault[refs[i]]) \in Text(Printed(V, Nat))
      OBVIOUS
    <2>1. "\n" \in V /\ vault[refs[i]] \in Text(V) /\ i \in Nat /\ Nat \subseteq Nat
      BY <1>1 DEF Knows
    <2> QED
      BY <2>1, OutputType
  <1>3. PICK n, T : n = Len(refs) /\ T = Text(Printed(V, Nat))
    OBVIOUS
  <1>4. Outputs(refs, vault) = [i \in 1..n |-> Output(i, vault[refs[i]])]
    BY <1>1, <1>3 DEF Outputs
  <1>5. Outputs(refs, vault) \in Text(T)
    BY <1>1, <1>2, <1>3, <1>4 DEF Text
  <1> QED
    BY <1>1, <1>3, <1>4, <1>5

LEMMA RenderedIsOutputs ==
    ASSUME NEW R, NEW vault, NEW V, Knows(vault, R, V), NEW refs \in Text(R)
    PROVE  Rendered(BuildTemplate(refs), vault) = FlattenSeq(Outputs(refs, vault))
  <1>1. PICK f, T, D : f = Render(R, vault) /\ T = TemplateTokens(R) /\ Texts(f, T, D)
    BY RenderTexts
  <1>2. BuildTemplate(refs) = FlattenSeq(Blocks(refs))
    BY DEF BuildTemplate, Blocks, Block, Newline, Placed
  <1>3. PICK blocks : /\ blocks = Blocks(refs) /\ blocks \in Text(Text(T))
                      /\ Len(blocks) = Len(refs) /\ Len(refs) \in Nat
                      /\ \A i \in 1..Len(refs) : blocks[i] = Block(i, refs[i]) /\ refs[i] \in R
    BY <1>1, BlocksType
  <1>4. FlattenSeq(blocks) \in Text(T)
    BY <1>3, FlattenType
  <1>5. Rendered(BuildTemplate(refs), vault) = FlatMap(f, FlattenSeq(blocks))
    BY <1>1, <1>2, <1>3, <1>4, RenderedIsFlatMap
  <1>6. PICK g : g = [b \in Text(T) |-> FlatMap(f, b)]
    OBVIOUS
  <1>7. FlatMap(f, FlattenSeq(blocks)) = FlatMap(g, blocks)
    BY <1>1, <1>3, <1>6, FlatMapOfFlatten
  <1>8. \A i \in 1..Len(refs) : g[blocks[i]] = Output(i, vault[refs[i]])
    <2> SUFFICES ASSUME NEW i \in 1..Len(refs)
                 PROVE  g[blocks[i]] = Output(i, vault[refs[i]])
      OBVIOUS
    <2>1. blocks[i] \in Text(T) /\ blocks[i] = Block(i, refs[i]) /\ refs[i] \in R /\ i \in Nat
      BY <1>3, ElementOfSeq DEF Text
    <2>2. FlatMap(f, Block(i, refs[i])) = Output(i, vault[refs[i]])
      BY <1>1, <2>1, BlockIsRendered
    <2> QED
      BY <1>6, <2>1, <2>2
  <1>9. Mapped(g, blocks) = Outputs(refs, vault)
    <2>1. DOMAIN blocks = 1..Len(refs) /\ DOMAIN refs = 1..Len(refs)
      BY <1>3, LenProperties DEF Text
    <2> QED
      BY <1>8, <2>1 DEF Mapped, Outputs
  <1> QED
    BY <1>5, <1>7, <1>9 DEF FlatMap

-----------------------------------------------------------------------------
(* A value is found between its own sentinels. *)

LEMMA OtherOutputs ==
    ASSUME NEW R, NEW vault, NEW V, Knows(vault, R, V), NEW refs \in Text(R),
           NEW i \in 1..Len(refs), NEW m \in 1..Len(refs) + 1, NEW n \in m - 1..Len(refs),
           i \notin m..n
    PROVE  FlattenSeq(SubSeq(Outputs(refs, vault), m, n)) \in Text(Printed(V, Nat \ {i}))
  <1>1. PICK outs, D : outs = Outputs(refs, vault) /\ D = Text(Printed(V, Nat)) /\ outs \in Text(D)
    BY OutputsType
  <1>2. /\ Len(outs) = Len(refs) /\ Len(refs) \in Nat
        /\ \A k \in 1..Len(refs) : outs[k] = Output(k, vault[refs[k]]) /\ refs[k] \in R
    <2>1. /\ Len(outs) = Len(refs) /\ Len(refs) \in Nat
          /\ \A k \in 1..Len(refs) : outs[k] = Output(k, vault[refs[k]])
      BY <1>1, OutputsType
    <2>2. \A k \in 1..Len(refs) : refs[k] \in R
      BY BlocksType
    <2> QED
      BY <2>1, <2>2
  <1>3. PICK part : part = SubSeq(outs, m, n)
    OBVIOUS
  <1>4. part \in Text(D) /\ Len(part) = n - m + 1
    BY <1>1, <1>2, <1>3, PartType
  <1>5. ASSUME NEW k \in 1..Len(part)
        PROVE  part[k] \in Text(Printed(V, Nat \ {i}))
    <2>1. PICK j : j = m + k - 1
      OBVIOUS
    <2>2. j \in m..n /\ j \in 1..Len(refs) /\ j \in Nat \ {i}
      BY <1>2, <1>4, <2>1
    <2>3. part[k] = outs[j]
      <3>1. m \in 1..Len(outs) + 1 /\ n \in m - 1..Len(outs) /\ k \in 1..n - m + 1
        BY <1>2, <1>4
      <3> QED
        BY <1>1, <1>3, <2>1, <3>1, PartAt
    <2>4. part[k] = Output(j, vault[refs[j]]) /\ refs[j] \in R
      BY <1>2, <2>2, <2>3
    <2>5. "\n" \in V /\ vault[refs[j]] \in Text(V) /\ Nat \ {i} \subseteq Nat
      BY <2>4 DEF Knows
    <2>6. PICK I, v : I = Nat \ {i} /\ v = vault[refs[j]]
      OBVIOUS
    <2>7. I \subseteq Nat /\ j \in I /\ v \in Text(V) /\ "\n" \in V
      BY <2>2, <2>5, <2>6
    <2>8. Output(j, v) \in Text(Printed(V, I))
      BY <2>7, OutputType
    <2> QED
      BY <2>4, <2>6, <2>8
  <1>6. part \in Text(Text(Printed(V, Nat \ {i})))
    BY <1>4, <1>5, TextOfElements
  <1> QED
    BY <1>1, <1>3, <1>6, FlattenType

Encloses(text, i, value, C) ==
    \E a, z \in Text(C) : text = Framed(a, BEGIN(i), Newline, Chars(value), END(i), z)

LEMMA OutputInItsPlace ==
    ASSUME NEW R, NEW vault, NEW V, Knows(vault, R, V), NEW refs \in Text(R), NEW i \in 1..Len(refs)
    PROVE  Encloses(FlattenSeq(Outputs(refs, vault)), i, vault[refs[i]], Printed(V, Nat \ {i}))
  <1>1. PICK outs, D : /\ outs = Outputs(refs, vault) /\ D = Printed(V, Nat)
                       /\ outs \in Text(Text(D))
                       /\ Len(outs) = Len(refs) /\ Len(refs) \in Nat
                       /\ outs[i] = Output(i, vault[refs[i]])
    BY OutputsType
  <1>2. PICK before, after : /\ before = SubSeq(outs, 1, i - 1)
                             /\ after = SubSeq(outs, i + 1, Len(outs))
    OBVIOUS
  <1>3. before \in Text(Text(D)) /\ FlattenSeq(before) \in Text(Printed(V, Nat \ {i}))
    <2>1. PICK m, n : m = 1 /\ n = i - 1
      OBVIOUS
    <2>2. /\ m \in 1..Len(outs) + 1 /\ n \in m - 1..Len(outs)
          /\ m \in 1..Len(refs) + 1 /\ n \in m - 1..Len(refs) /\ i \notin m..n
      BY <1>1, <2>1
    <2>3. SubSeq(outs, m, n) \in Text(Text(D))
      BY <1>1, <2>2, PartType
    <2>4. FlattenSeq(SubSeq(Outputs(refs, vault), m, n)) \in Text(Printed(V, Nat \ {i}))
      BY <2>2, OtherOutputs
    <2> QED
      BY <1>1, <1>2, <2>1, <2>3, <2>4
  <1>4. after \in Text(Text(D)) /\ FlattenSeq(after) \in Text(Printed(V, Nat \ {i}))
    <2>1. PICK m, n : m = i + 1 /\ n = Len(outs)
      OBVIOUS
    <2>2. /\ m \in 1..Len(outs) + 1 /\ n \in m - 1..Len(outs)
          /\ m \in 1..Len(refs) + 1 /\ n \in m - 1..Len(refs) /\ i \notin m..n
      BY <1>1, <2>1
    <2>3. SubSeq(outs, m, n) \in Text(Text(D))
      BY <1>1, <2>2, PartType
    <2>4. FlattenSeq(SubSeq(Outputs(refs, vault), m, n)) \in Text(Printed(V, Nat \ {i}))
      BY <2>2, OtherOutputs
    <2> QED
      BY <1>1, <1>2, <2>1, <2>3, <2>4
  <1>5. outs = before ++ (One(outs[i]) ++ after)
    BY <1>1, <1>2, SplitAt
  <1>6. outs[i] \in Text(D)
    BY <1>1, ElementOfSeq DEF Text
  <1>7. FlattenSeq(outs) = FlattenSeq(before) ++ (outs[i] ++ FlattenSeq(after))
    <2>1. One(outs[i]) \in Text(Text(D)) /\ One(outs[i]) ++ after \in Text(Text(D))
      BY <1>4, <1>6, OneType, CatType
    <2>2. FlattenSeq(before ++ (One(outs[i]) ++ after)) =
              FlattenSeq(before) ++ FlattenSeq(One(outs[i]) ++ after)
      BY <1>3, <2>1, FlattenCat
    <2>3. FlattenSeq(One(outs[i]) ++ after) = FlattenSeq(One(outs[i])) ++ FlattenSeq(after)
      BY <1>4, <2>1, FlattenCat
    <2>4. FlattenSeq(One(outs[i])) = outs[i]
      BY <1>6, FlattenOne
    <2> QED
      BY <1>5, <2>2, <2>3, <2>4
  <1>8. FlattenSeq(before) ++ (Output(i, vault[refs[i]]) ++ FlattenSeq(after)) =
            Framed(FlattenSeq(before), BEGIN(i), Newline, Chars(vault[refs[i]]), END(i),
                   FlattenSeq(after))
    BY <1>3, <1>4, OutputIsFramed
  <1> QED
    BY <1>1, <1>3, <1>4, <1>7, <1>8 DEF Encloses

LEMMA NoSentinelOfItself ==
    ASSUME NEW V, NEW i \in Nat
    PROVE  BEGIN(i) \notin Printed(V, Nat \ {i}) /\ END(i) \notin Printed(V, Nat \ {i})
  <1>1. ASSUME BEGIN(i) \in Printed(V, Nat \ {i})
        PROVE  FALSE
    BY <1>1, TokenKinds DEF Printed
  <1>2. ASSUME END(i) \in Printed(V, Nat \ {i})
        PROVE  FALSE
    BY <1>2, TokenKinds DEF Printed
  <1> QED
    BY <1>1, <1>2

(* The text between the sentinels of i, the shortest where there are several. *)
Between(stdout, i) ==
    LET text == Captured(stdout, CHOOSE m \in Matches(stdout, i) :
                                     \A o \in Matches(stdout, i) : m[2] <= o[2])
    IN [k \in DOMAIN text |-> text[k][1]]

LEMMA ValueIsFound ==
    ASSUME NEW R, NEW vault, NEW V, Knows(vault, R, V), NEW refs \in Text(R), NEW i \in 1..Len(refs),
           NEW stdout, stdout = Rendered(BuildTemplate(refs), vault)
    PROVE  Matches(stdout, i) # {} /\ Between(stdout, i) = vault[refs[i]]
  <1>1. PICK C, v : C = Printed(V, Nat \ {i}) /\ v = vault[refs[i]]
    OBVIOUS
  <1>2. Len(refs) \in Nat /\ i \in Nat /\ refs[i] \in R /\ v \in Text(V)
    <2>1. Len(refs) \in Nat /\ refs[i] \in R
      BY BlocksType
    <2> QED
      BY <1>1, <2>1 DEF Knows
  <1>3. PICK a, z \in Text(C) : stdout = Framed(a, BEGIN(i), Newline, Chars(v), END(i), z)
    <2>1. stdout = FlattenSeq(Outputs(refs, vault))
      BY RenderedIsOutputs
    <2>2. Encloses(FlattenSeq(Outputs(refs, vault)), i, vault[refs[i]], Printed(V, Nat \ {i}))
      BY OutputInItsPlace
    <2> QED
      BY <1>1, <2>1, <2>2 DEF Encloses
  <1>4. PICK b, e, n, s : b = BEGIN(i) /\ e = END(i) /\ n = Newline /\ s = Chars(v)
    OBVIOUS
  <1>5. b \notin C /\ e \notin C /\ b # e
    BY <1>1, <1>2, <1>4, NoSentinelOfItself, TokenKinds
  <1>6. n \in C
    BY <1>1, <1>4 DEF Knows, Printed, Newline
  <1>7. s \in Text(C) /\ [k \in DOMAIN s |-> s[k][1]] = v
    BY <1>1, <1>2, <1>4, CharsType
  <1>8. PICK p, q \in Nat : SentinelsAt(stdout, b, n, s, e, p, q)
    <2>1. stdout = Framed(a, b, n, s, e, z)
      BY <1>3, <1>4
    <2>2. \E p, q \in Nat : SentinelsAt(Framed(a, b, n, s, e, z), b, n, s, e, p, q)
      BY <1>3, <1>5, <1>6, <1>7, FramedAt
    <2> QED
      BY <2>1, <2>2
  <1>9. DOMAIN stdout = 1..Len(stdout)
    <2>1. PICK D : D = C \cup {b, e}
      OBVIOUS
    <2>2. C \subseteq D /\ b \in D /\ e \in D
      BY <2>1
    <2>3. a \in Text(D) /\ z \in Text(D) /\ s \in Text(D) /\ n \in D
      BY <1>3, <1>6, <1>7, <2>2, TextOfMore
    <2>4. stdout \in Text(D)
      BY <1>3, <1>4, <2>2, <2>3, FramedType
    <2> QED
      BY <2>4, LenProperties DEF Text
  <1>80. /\ q = p + Len(s) + 3
         /\ p \in 1..Len(stdout) /\ q \in 1..Len(stdout)
         /\ \A k \in 1..Len(stdout) : stdout[k] = b <=> k = p
         /\ \A k \in 1..Len(stdout) : stdout[k] = e <=> k = q
         /\ stdout[p + 1] = n /\ stdout[q - 1] = n
         /\ SubSeq(stdout, p + 2, q - 2) = s
    BY <1>8 DEF SentinelsAt
  <1>10. PICK m : m = <<p, q>>
    OBVIOUS
  <1>101. m[1] = p /\ m[2] = q
    BY <1>10
  <1>11. Matches(stdout, i) = {m}
    <2>1. m \in Matches(stdout, i)
      <3>1. Len(s) \in Nat
        BY <1>7, TextLen
      <3>2. p + 2 < q
        BY <1>80, <3>1
      <3>3. m \in (DOMAIN stdout) \X (DOMAIN stdout)
        BY <1>80, <1>9, <1>10, <1>101
      <3>4. stdout[p] = b /\ stdout[q] = e
        BY <1>80
      <3> QED
        BY <1>4, <1>80, <1>10, <1>101, <3>2, <3>3, <3>4 DEF Matches, Newline
    <2>2. ASSUME NEW o \in Matches(stdout, i)
          PROVE  o = m
      <3>1. /\ o \in (DOMAIN stdout) \X (DOMAIN stdout)
            /\ stdout[o[1]] = b /\ stdout[o[2]] = e
        BY <1>4 DEF Matches
      <3>2. o = <<o[1], o[2]>> /\ o[1] \in 1..Len(stdout) /\ o[2] \in 1..Len(stdout)
        BY <1>9, <3>1
      <3>3. o[1] = p /\ o[2] = q
        BY <1>80, <3>1, <3>2
      <3> QED
        BY <1>10, <1>101, <3>2, <3>3
    <2> QED
      BY <2>1, <2>2
  <1>12. (CHOOSE x \in Matches(stdout, i) : \A o \in Matches(stdout, i) : x[2] <= o[2]) = m
    <2>1. m[2] <= m[2]
      BY <1>80, <1>10, <1>101
    <2> QED
      BY <1>11, <2>1
  <1>13. Captured(stdout, m) = s
    BY <1>80, <1>10, <1>101 DEF Captured
  <1>14. Between(stdout, i) = v
    <2>1. PICK c : c = CHOOSE x \in Matches(stdout, i) : \A o \in Matches(stdout, i) : x[2] <= o[2]
      OBVIOUS
    <2>2. Between(stdout, i) = [k \in DOMAIN Captured(stdout, c) |-> Captured(stdout, c)[k][1]]
      BY <2>1 DEF Between
    <2>3. Captured(stdout, c) = s
      BY <1>12, <1>13, <2>1
    <2> QED
      BY <1>7, <2>2, <2>3
  <1> QED
    BY <1>1, <1>11, <1>14

(* opRunner.ts:445-478: what op prints of the template is taken apart again,   *)
(* for as many references and whatever lines their values hold.                *)
THEOREM TemplateReturnsTheValues ==
    ASSUME NEW R, NEW vault, NEW V, Knows(vault, R, V), NEW refs \in Text(R)
    PROVE  ParseOutput(Rendered(BuildTemplate(refs), vault), refs)
             = [r \in Range(refs) |-> vault[r]]
  <1>1. DOMAIN refs = 1..Len(refs)
    BY LenProperties DEF Text
  <1>2. PICK stdout : stdout = Rendered(BuildTemplate(refs), vault)
    OBVIOUS
  <1>3. \A i \in 1..Len(refs) : Matches(stdout, i) # {} /\ Between(stdout, i) = vault[refs[i]]
    BY <1>2, ValueIsFound
  <1>4. PICK found : found = {i \in DOMAIN refs : Matches(stdout, i) # {}} /\ found = DOMAIN refs
    BY <1>1, <1>3
  <1>5. Range(refs) = {refs[i] : i \in DOMAIN refs}
    BY DEF Range
  <1>6. ParseOutput(stdout, refs) =
            [r \in Range(refs) |-> Between(stdout, CHOOSE i \in DOMAIN refs : refs[i] = r)]
    <2>1. ParseOutput(stdout, refs) =
              [r \in {refs[i] : i \in found} |-> Between(stdout, CHOOSE i \in found : refs[i] = r)]
      BY <1>4 DEF ParseOutput, Between
    <2> QED
      BY <1>4, <1>5, <2>1
  <1>7. ASSUME NEW r \in Range(refs)
        PROVE  Between(stdout, CHOOSE i \in DOMAIN refs : refs[i] = r) = vault[r]
    <2>1. \E i \in DOMAIN refs : refs[i] = r
      BY <1>5
    <2>2. PICK i : /\ i = (CHOOSE j \in DOMAIN refs : refs[j] = r)
                   /\ i \in DOMAIN refs /\ refs[i] = r
      BY <2>1
    <2> QED
      BY <1>1, <1>3, <2>2
  <1> QED
    BY <1>2, <1>6, <1>7

===============================================================================
