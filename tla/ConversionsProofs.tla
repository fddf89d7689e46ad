-------------------------- MODULE ConversionsProofs --------------------------
(***************************************************************************)
(* Proofs about Conversions: for names, paths and files of every length,   *)
(* over every alphabet and at every capacity.                              *)
(***************************************************************************)
EXTENDS Conversions, Iteration, SequenceTheorems, FiniteSetTheorems, TLAPS

-----------------------------------------------------------------------------
(* Names: the parts of a name in capitals.                                 *)

IsText(s) == \E S : s \in Seq(S)

LEMMA TextOf ==
    ASSUME NEW s, IsText(s)
    PROVE  /\ Len(s) \in Nat /\ DOMAIN s = 1..Len(s)
           /\ \A n \in Nat : n <= Len(s) =>
                /\ IsText(SubSeq(s, 1, n)) /\ Len(SubSeq(s, 1, n)) = n
                /\ \A i \in 1..n : SubSeq(s, 1, n)[i] = s[i]
<1>1. PICK S : s \in Seq(S)
  BY DEF IsText
<1>2. ASSUME NEW n \in Nat, n <= Len(s)
      PROVE  /\ IsText(SubSeq(s, 1, n)) /\ Len(SubSeq(s, 1, n)) = n
             /\ \A i \in 1..n : SubSeq(s, 1, n)[i] = s[i]
  <2>1. \A i \in 1..n : s[i] \in S
    BY <1>1, <1>2
  <2>2. /\ SubSeq(s, 1, n) \in Seq(S)
        /\ Len(SubSeq(s, 1, n)) = IF 1 <= n THEN n - 1 + 1 ELSE 0
        /\ \A i \in 1..(n - 1 + 1) : SubSeq(s, 1, n)[i] = s[1 + i - 1]
    BY <2>1, SubSeqProperties
  <2>3. Len(SubSeq(s, 1, n)) = n /\ \A i \in 1..n : SubSeq(s, 1, n)[i] = s[i]
    BY <2>2
  <2>4. IsText(SubSeq(s, 1, n))
    BY <2>2 DEF IsText
  <2> QED
    BY <2>3, <2>4
<1> QED
  BY <1>1, <1>2

LEMMA UpperText ==
    ASSUME NEW s, IsText(s)
    PROVE  IsText(Upper(s)) /\ Len(Upper(s)) = Len(s)
<1> DEFINE S == {ToUpper(s[i]) : i \in 1..Len(s)}
<1>1. Len(s) \in Nat /\ DOMAIN s = 1..Len(s)
  BY TextOf
<1>2. Upper(s) \in [1..Len(s) -> S]
  BY <1>1 DEF Upper
<1> HIDE DEF S
<1>3. Upper(s) \in Seq(S)
  BY <1>1, <1>2, SeqDef
<1> QED
  BY <1>1, <1>2, <1>3 DEF IsText

\* What stands before the first dot, and after it.
LEMMA DotPlace ==
    ASSUME NEW s, IsText(s)
    PROVE  /\ BeforeDot(s) \in 0..Len(s)
           /\ \A i \in 1..BeforeDot(s) : s[i] # Dot
           /\ BeforeDot(s) = Len(s) \/ s[BeforeDot(s) + 1] = Dot
<1> DEFINE T == {n \in 0..Len(s) : n = Len(s) \/ s[n + 1] = Dot}
<1>1. Len(s) \in Nat
  BY TextOf
<1>2. T \subseteq Nat /\ Len(s) \in T
  BY <1>1
<1>3. PICK n \in T : \A m \in T : n <= m
  BY <1>2, Smallest
<1>4. ASSUME NEW i \in 1..n PROVE s[i] # Dot
  <2>1. i - 1 \in 0..Len(s) /\ ~(n <= i - 1) /\ (i - 1) + 1 = i
    BY <1>1
  <2>2. i - 1 \notin T
    BY <1>3, <2>1
  <2> QED
    BY <2>1, <2>2
<1>5. \E m \in 0..Len(s) : (\A i \in 1..m : s[i] # Dot) /\ (m = Len(s) \/ s[m + 1] = Dot)
  BY <1>4
<1> QED
  BY <1>5 DEF BeforeDot

LEMMA AfterDotText ==
    ASSUME NEW s, IsText(s), BeforeDot(s) < Len(s)
    PROVE  /\ Len(AfterDot(s)) = Len(s) - BeforeDot(s) - 1
           /\ DOMAIN AfterDot(s) = 1..(Len(s) - BeforeDot(s) - 1)
           /\ \A i \in 1..(Len(s) - BeforeDot(s) - 1) :
                AfterDot(s)[i] = s[BeforeDot(s) + 1 + i]
<1> DEFINE b == BeforeDot(s)
<1>1. PICK S : s \in Seq(S)
  BY DEF IsText
<1>2. Len(s) \in Nat /\ b \in 0..Len(s) /\ DOMAIN s = 1..Len(s)
  BY DotPlace, TextOf
<1> HIDE DEF b
<1>3. \A i \in (b + 2)..Len(s) : s[i] \in S
  BY <1>1, <1>2
<1>4. b + 2 \in Int /\ Len(s) \in Int
  BY <1>2
<1>5. /\ SubSeq(s, b + 2, Len(s)) \in Seq(S)
      /\ Len(SubSeq(s, b + 2, Len(s))) = IF b + 2 <= Len(s) THEN Len(s) - (b + 2) + 1 ELSE 0
      /\ \A i \in 1..(Len(s) - (b + 2) + 1) : SubSeq(s, b + 2, Len(s))[i] = s[b + 2 + i - 1]
  BY <1>3, <1>4, SubSeqProperties
<1>6. b < Len(s) /\ AfterDot(s) = SubSeq(s, b + 2, Len(s))
  BY DEF AfterDot, b
<1>7. Len(AfterDot(s)) = Len(s) - b - 1
  <2> DEFINE l == Len(s)
  <2>1. b \in Nat /\ l \in Nat /\ b < l
    BY <1>2, <1>6
  <2>2. Len(AfterDot(s)) = IF b + 2 <= l THEN l - (b + 2) + 1 ELSE 0
    BY <1>5, <1>6
  <2> HIDE DEF l
  <2>3. Len(AfterDot(s)) = l - b - 1
    BY <2>1, <2>2
  <2> QED
    BY <2>3 DEF l
<1>8. \A i \in 1..(Len(s) - b - 1) : AfterDot(s)[i] = s[b + 1 + i]
  BY <1>2, <1>5, <1>6
<1> QED
  BY <1>5, <1>6, <1>7, <1>8, LenProperties DEF b

\* A name the client takes is short, so that its copy is the whole name.
LEMMA TakenWhole ==
    ASSUME NEW s, IsText(s), NEW f \in BOOLEAN, proto_is_valid_component(s, f)
    PROVE  Beginning(s, NameRoom - 1) = s
<1> DEFINE n == IF Len(s) <= NameRoom - 1 THEN Len(s) ELSE NameRoom - 1
           t == SubSeq(s, 1, n)
           u == Upper(t)
           b == BeforeDot(u)
<1>1. Len(s) \in Nat /\ NameRoom \in Nat /\ BaseMax \in Nat /\ ExtMax \in Nat
      /\ BaseMax + ExtMax + 2 < NameRoom
  BY TextOf, NameRulesAssumption
<1>2. n \in Nat /\ n <= Len(s)
  BY <1>1
<1>3. Beginning(s, NameRoom - 1) = t
  BY DEF Beginning
<1> HIDE DEF n
<1>4. IsText(t) /\ Len(t) = n
  BY <1>2, TextOf
<1> HIDE DEF t
<1>5. IsText(u) /\ Len(u) = n
  BY <1>4, UpperText
<1>6. /\ Len(SubSeq(u, 1, b)) \in 1..BaseMax
      /\ Dots(u) # {} => Len(AfterDot(u)) \in 1..ExtMax
  BY <1>3, Zenon DEF proto_is_valid_component
<1> HIDE DEF u
<1>7. /\ b \in 0..n /\ (b = n \/ u[b + 1] = Dot)
      /\ DOMAIN u = 1..n
  BY <1>5, DotPlace, TextOf
<1> HIDE DEF b
<1>8. b <= BaseMax
  BY <1>2, <1>5, <1>6, <1>7, TextOf
<1>9. n <= BaseMax + ExtMax + 1
  <2>1. CASE b = n
    BY <1>1, <1>2, <1>8, <2>1
  <2>2. CASE b < n
    <3>1. b + 1 \in Dots(u)
      BY <1>2, <1>7, <2>2 DEF Dots
    <3>2. Len(AfterDot(u)) = n - b - 1
      BY <1>5, <2>2, AfterDotText DEF b
    <3> QED
      BY <1>1, <1>2, <1>6, <1>7, <1>8, <3>1, <3>2
  <2> QED
    BY <1>2, <1>7, <2>1, <2>2
<1>10. n = Len(s)
  BY <1>1, <1>2, <1>9 DEF n
<1> QED
  <2>1. PICK S : s \in Seq(S)
    BY DEF IsText
  <2> QED
    BY <1>3, <1>10, <2>1, SubSeqFull DEF t

LEMMA OnlyPlace ==
    ASSUME NEW s, IsText(s), NEW n \in 0..Len(s),
           \A i \in 1..n : s[i] # Dot, n = Len(s) \/ s[n + 1] = Dot
    PROVE  BeforeDot(s) = n
<1> DEFINE b == BeforeDot(s)
<1>1. /\ Len(s) \in Nat /\ b \in 0..Len(s)
      /\ \A i \in 1..b : s[i] # Dot
      /\ b = Len(s) \/ s[b + 1] = Dot
  BY TextOf, DotPlace
<1> HIDE DEF b
<1>2. ~(b < n)
  BY <1>1
<1>3. ~(n < b)
  BY <1>1
<1> QED
  BY <1>1, <1>2, <1>3 DEF b

\* The base, the extension and the dots of a text.
LEMMA PartsOf ==
    ASSUME NEW s, IsText(s)
    PROVE  /\ Len(SubSeq(s, 1, BeforeDot(s))) = BeforeDot(s)
           /\ Dots(s) # {} <=> BeforeDot(s) < Len(s)
           /\ BeforeDot(s) = Len(s) => Dots(AfterDot(s)) = {}
           /\ Dots(AfterDot(s)) = {} => Cardinality(Dots(s)) <= 1
           /\ BeforeDot(s) < Len(s) => Len(AfterDot(s)) = Len(s) - BeforeDot(s) - 1
<1> DEFINE b == BeforeDot(s)
           e == AfterDot(s)
<1>1. /\ Len(s) \in Nat /\ DOMAIN s = 1..Len(s) /\ b \in 0..Len(s)
      /\ \A i \in 1..b : s[i] # Dot
      /\ b = Len(s) \/ s[b + 1] = Dot
  BY TextOf, DotPlace
<1>2. Len(SubSeq(s, 1, b)) = b
  BY <1>1, TextOf
<1>3. Dots(s) # {} <=> b < Len(s)
  <2> DEFINE l == Len(s)
  <2>0. l \in Nat /\ b \in 0..l
    BY <1>1
  <2> HIDE DEF b, l
  <2>1. CASE b = l
    <3>1. \A i \in 1..l : s[i] # Dot
      BY <1>1, <2>1 DEF l
    <3> QED
      BY <1>1, <2>0, <2>1, <3>1 DEF Dots, l
  <2>2. CASE b # l
    <3>1. b + 1 \in 1..l /\ b < l
      BY <2>0, <2>2, SMTT(30)
    <3>2. b + 1 \in Dots(s)
      BY <1>1, <2>2, <3>1 DEF Dots, l
    <3> QED
      BY <3>1, <3>2 DEF l
  <2> QED
    BY <2>1, <2>2
<1>4. ASSUME b = Len(s) PROVE Dots(e) = {}
  <2>1. e = <<>>
    BY <1>1, <1>4, SubSeqEmpty DEF AfterDot
  <2> QED
    BY <2>1 DEF Dots
<1>5. ASSUME b < Len(s) PROVE Len(e) = Len(s) - b - 1
  BY <1>5, AfterDotText
<1>6. ASSUME Dots(e) = {} PROVE Cardinality(Dots(s)) <= 1
  <2>1. Dots(s) \subseteq {b + 1}
    <3> SUFFICES ASSUME NEW j \in 1..Len(s), s[j] = Dot, j # b + 1 PROVE FALSE
      BY <1>1 DEF Dots
    <3>1. b < Len(s)
      BY <1>1
    <3>2. DOMAIN e = 1..(Len(s) - b - 1) /\ \A i \in 1..(Len(s) - b - 1) : e[i] = s[b + 1 + i]
      BY <3>1, AfterDotText
    <3> HIDE DEF b, e
    <3>3. j - b - 1 \in 1..(Len(s) - b - 1) /\ b + 1 + (j - b - 1) = j
      <4> DEFINE l == Len(s)
      <4>1. l \in Nat /\ b \in 0..l /\ j \in 1..l /\ j \notin 1..b /\ j # b + 1
        BY <1>1
      <4> HIDE DEF l
      <4>2. j - b - 1 \in 1..(l - b - 1) /\ b + 1 + (j - b - 1) = j
        BY <4>1, SMTT(30)
      <4> QED
        BY <4>2 DEF l
    <3>4. e[j - b - 1] = Dot
      BY <3>2, <3>3
    <3> QED
      BY <1>6, <3>2, <3>3, <3>4 DEF Dots
  <2>2. Dots(s) = {} \/ Dots(s) = {b + 1}
    BY <2>1
  <2>3. Cardinality({}) = 0 /\ Cardinality({b + 1}) = 1
    BY FS_EmptySet, FS_Singleton
  <2> QED
    BY <2>2, <2>3
<1> QED
  BY <1>2, <1>3, <1>4, <1>5, <1>6

LEMMA LegalNoDots ==
    ASSUME NEW s, AllLegal(s)
    PROVE  Dots(s) = {}
BY NameRulesAssumption DEF AllLegal, Dots

\* The rule of 8.3, of the parts before and behind the first dot.
Proper(s) ==
    /\ BeforeDot(s) \in 1..BaseMax /\ AllLegal(SubSeq(s, 1, BeforeDot(s)))
    /\ BeforeDot(s) < Len(s) =>
         Len(s) - BeforeDot(s) - 1 \in 1..ExtMax /\ AllLegal(AfterDot(s))

LEMMA ProperIs83 ==
    ASSUME NEW s, IsText(s)
    PROVE  Is83(s) <=> Proper(s)
<1> DEFINE b == BeforeDot(s)
<1>1. /\ Len(s) \in Nat /\ b \in 0..Len(s)
      /\ b = Len(s) \/ s[b + 1] = Dot
  BY TextOf, DotPlace
<1>2. ASSUME Proper(s) PROVE Is83(s)
  <2>1. b \in 1..BaseMax /\ b <= Len(s) /\ AllLegal(SubSeq(s, 1, b))
    BY <1>1, <1>2 DEF Proper
  <2>2. \/ b = Len(s)
        \/ s[b + 1] = Dot /\ Len(s) - b - 1 \in 1..ExtMax /\ AllLegal(SubSeq(s, b + 2, Len(s)))
    BY <1>1, <1>2 DEF Proper, AfterDot
  <2> QED
    BY <2>1, <2>2 DEF Is83
<1>3. ASSUME Is83(s) PROVE Proper(s)
  <2>1. PICK n \in 1..BaseMax :
          /\ n <= Len(s) /\ AllLegal(SubSeq(s, 1, n))
          /\ \/ n = Len(s)
             \/ /\ s[n + 1] = Dot
                /\ Len(s) - n - 1 \in 1..ExtMax
                /\ AllLegal(SubSeq(s, n + 2, Len(s)))
    BY <1>3 DEF Is83
  <2>2. n \in 0..Len(s) /\ n \in Nat
    BY <1>1, <2>1, NameRulesAssumption
  <2>3. \A i \in 1..n : s[i] # Dot
    <3>1. Dots(SubSeq(s, 1, n)) = {}
      BY <2>1, LegalNoDots
    <3>2. /\ Len(SubSeq(s, 1, n)) = n /\ DOMAIN SubSeq(s, 1, n) = 1..n
          /\ \A i \in 1..n : SubSeq(s, 1, n)[i] = s[i]
      BY <2>1, <2>2, TextOf
    <3> QED
      BY <3>1, <3>2 DEF Dots
  <2>4. n = b
    BY <2>1, <2>2, <2>3, OnlyPlace
  <2> QED
    BY <1>1, <2>1, <2>4 DEF Proper, AfterDot
<1> QED
  BY <1>2, <1>3

LEMMA UpperOf ==
    ASSUME NEW s, IsText(s)
    PROVE  /\ IsText(Upper(s)) /\ Len(Upper(s)) = Len(s) /\ DOMAIN Upper(s) = 1..Len(s)
           /\ \A i \in 1..Len(s) : Upper(s)[i] = ToUpper(s[i])
           /\ Upper(Upper(s)) = Upper(s)
<1>1. IsText(Upper(s)) /\ Len(Upper(s)) = Len(s) /\ DOMAIN s = 1..Len(s)
  BY UpperText, TextOf
<1>2. DOMAIN Upper(s) = 1..Len(s) /\ \A i \in 1..Len(s) : Upper(s)[i] = ToUpper(s[i])
  BY <1>1 DEF Upper
<1>3. \A c : ToUpper(ToUpper(c)) = ToUpper(c)
  BY NameRulesAssumption DEF ToUpper
<1>4. Upper(Upper(s)) = Upper(s)
  BY <1>1, <1>2, <1>3 DEF Upper
<1> QED
  BY <1>1, <1>2, <1>4

LEMMA ProperName ==
    ASSUME NEW s, IsText(s), Proper(Upper(s))
    PROVE  s # <<>> /\ s \notin DotNames
<1> DEFINE u == Upper(s)
           b == BeforeDot(u)
<1>1. /\ IsText(u) /\ Len(u) = Len(s) /\ Len(s) \in Nat
      /\ \A i \in 1..Len(s) : u[i] = ToUpper(s[i])
  BY UpperOf, TextOf
<1>2. b \in 1..Len(s) /\ AllLegal(SubSeq(u, 1, b))
  BY <1>1, DotPlace, NameRulesAssumption DEF Proper
<1> HIDE DEF u, b
<1>3. /\ DOMAIN SubSeq(u, 1, b) = 1..b /\ SubSeq(u, 1, b)[1] = u[1]
  BY <1>1, <1>2, TextOf
<1>4. u[1] # Dot
  <2>1. 1 \in 1..b
    BY <1>1, <1>2
  <2> QED
    BY <1>2, <1>3, <2>1, NameRulesAssumption DEF AllLegal
<1>5. s # <<>>
  BY <1>1, <1>2
<1>6. s[1] # Dot
  BY <1>1, <1>2, <1>4, NameRulesAssumption DEF ToUpper
<1> QED
  BY <1>5, <1>6 DEF DotNames

LEMMA ServerTakesProper ==
    ASSUME NEW s, IsText(s)
    PROVE  is_valid_fat_component(s, TRUE) <=> Proper(Upper(s))
<1> DEFINE u == Upper(s)
           b == BeforeDot(u)
<1>1. /\ IsText(u) /\ Len(u) \in Nat /\ b \in 0..Len(u)
  BY UpperOf, TextOf, DotPlace
<1>2. /\ Len(SubSeq(u, 1, b)) = b
      /\ Dots(u) # {} <=> b < Len(u)
      /\ b = Len(u) => Dots(AfterDot(u)) = {}
      /\ Dots(AfterDot(u)) = {} => Cardinality(Dots(u)) <= 1
      /\ b < Len(u) => Len(AfterDot(u)) = Len(u) - b - 1
  BY <1>1, PartsOf
<1>3. Proper(u) => s # <<>> /\ s \notin DotNames /\ Cardinality(Dots(u)) <= 1
  <2>1. Proper(u) => Dots(AfterDot(u)) = {}
    BY <1>1, <1>2, LegalNoDots DEF Proper
  <2> QED
    BY <1>2, <2>1, ProperName
<1> HIDE DEF u, b
<1>4. is_valid_fat_component(s, TRUE) <=>
        /\ s # <<>> /\ s \notin DotNames
        /\ Cardinality(Dots(u)) <= 1
        /\ Len(SubSeq(u, 1, b)) \in 1..BaseMax /\ AllLegal(SubSeq(u, 1, b))
        /\ Dots(u) # {} => Len(AfterDot(u)) \in 1..ExtMax /\ AllLegal(AfterDot(u))
  BY DEF is_valid_fat_component, u, b
<1>5. Proper(u) <=> /\ b \in 1..BaseMax /\ AllLegal(SubSeq(u, 1, b))
                    /\ b < Len(u) => Len(u) - b - 1 \in 1..ExtMax /\ AllLegal(AfterDot(u))
  BY DEF Proper, b
<1> QED
  BY <1>2, <1>3, <1>4, <1>5 DEF u

LEMMA ClientTakesProper ==
    ASSUME NEW s, IsText(s)
    PROVE  /\ proto_is_valid_component(s, TRUE) <=> Proper(Upper(s))
           /\ proto_is_valid_component(s, FALSE) => Proper(Upper(s))
<1> DEFINE u == Upper(s)
           b == BeforeDot(u)
<1>1. /\ IsText(u) /\ Len(u) \in Nat /\ Len(u) = Len(s) /\ b \in 0..Len(u)
  BY UpperOf, TextOf, DotPlace
<1>2. /\ Len(SubSeq(u, 1, b)) = b
      /\ Dots(u) # {} <=> b < Len(u)
      /\ b = Len(u) => Dots(AfterDot(u)) = {}
      /\ b < Len(u) => Len(AfterDot(u)) = Len(u) - b - 1
  BY <1>1, PartsOf
<1>3. Proper(u) => Beginning(s, NameRoom - 1) = s
  <2>1. Proper(u) => Len(s) <= NameRoom - 1
    <3> HIDE DEF u, b
    <3>1. Proper(u) => b \in 1..BaseMax /\ (b < Len(u) => Len(u) - b - 1 \in 1..ExtMax)
      BY DEF Proper, b
    <3> QED
      BY <1>1, <3>1, NameRulesAssumption
  <2>2. SubSeq(s, 1, Len(s)) = s
    BY SubSeqFull DEF IsText
  <2> QED
    BY <2>1, <2>2 DEF Beginning
<1>4. Proper(u) => s # <<>> /\ s \notin DotNames /\ Dots(AfterDot(u)) = {}
  BY <1>1, <1>2, LegalNoDots, ProperName DEF Proper
<1> HIDE DEF u, b
<1>5. ASSUME NEW f \in BOOLEAN, Beginning(s, NameRoom - 1) = s
      PROVE  proto_is_valid_component(s, f) <=>
               /\ s # <<>> /\ s \notin DotNames
               /\ IF f THEN Dots(AfterDot(u)) = {} ELSE Dots(u) = {}
               /\ Len(SubSeq(u, 1, b)) \in 1..BaseMax /\ AllLegal(SubSeq(u, 1, b))
               /\ Dots(u) # {} => Len(AfterDot(u)) \in 1..ExtMax /\ AllLegal(AfterDot(u))
  BY <1>5 DEF proto_is_valid_component, u, b
<1>6. Proper(u) <=> /\ b \in 1..BaseMax /\ AllLegal(SubSeq(u, 1, b))
                    /\ b < Len(u) => Len(u) - b - 1 \in 1..ExtMax /\ AllLegal(AfterDot(u))
  BY DEF Proper, b
<1>7. \A f \in BOOLEAN : proto_is_valid_component(s, f) => Beginning(s, NameRoom - 1) = s
  BY TakenWhole
<1>8. proto_is_valid_component(s, TRUE) <=> Proper(u)
  BY <1>2, <1>3, <1>4, <1>5, <1>6, <1>7
<1>9. proto_is_valid_component(s, FALSE) => Proper(u)
  BY <1>2, <1>5, <1>6, <1>7
<1> QED
  BY <1>8, <1>9 DEF u

\* A name of any length over any alphabet.
LEMMA NameJudged ==
    ASSUME NEW s, IsText(s)
    PROVE  /\ is_valid_fat_component(s, TRUE) <=> Is83(Upper(s))
           /\ proto_is_valid_component(s, TRUE) <=> Is83(Upper(s))
           /\ proto_is_valid_component(s, FALSE) => is_valid_fat_component(Upper(s), TRUE)
<1>1. IsText(Upper(s)) /\ Upper(Upper(s)) = Upper(s)
  BY UpperOf
<1>2. is_valid_fat_component(Upper(s), TRUE) <=> Proper(Upper(s))
  BY <1>1, ServerTakesProper
<1> QED
  BY <1>1, <1>2, ProperIs83, ServerTakesProper, ClientTakesProper

-----------------------------------------------------------------------------
(* Checksums: words are sets of bits.                                      *)

Word == SUBSET (0..31)
Byte == SUBSET (0..7)

LEMMA SameWord ==
    ASSUME NEW a \in Word, NEW b \in Word, \A i \in 0..31 : i \in a <=> i \in b
    PROVE  a = b
BY Zenon DEF Word

LEMMA XorOf ==
    ASSUME NEW a, NEW b
    PROVE  /\ \A i : i \in Xor(a, b) <=> (i \in a) # (i \in b)
           /\ Xor(a, b) = {} <=> a = b
           /\ Xor(a, b) = Xor(b, a)
BY DEF Xor, SymDiff

LEMMA XorTypes ==
    ASSUME NEW a, NEW b
    PROVE  /\ a \in Word /\ b \in Word => Xor(a, b) \in Word
           /\ a \in Word /\ b \in Byte => Xor(a, b) \in Word
BY XorOf DEF Word, Byte

LEMMA RightOf ==
    ASSUME NEW a \in Word, NEW n \in Nat
    PROVE  /\ Right(a, n) \in Word
           /\ \A i \in Nat : i \in Right(a, n) <=> i + n \in a
<1>1. \A i : i \in Right(a, n) => i \in 0..31 /\ i + n \in a
  BY DEF Right, Word
<1>2. \A i \in Nat : i + n \in a => i \in Right(a, n)
  <2> SUFFICES ASSUME NEW i \in Nat, i + n \in a PROVE i \in Right(a, n)
    OBVIOUS
  <2>1. i + n >= n /\ (i + n) - n = i
    OBVIOUS
  <2> QED
    BY <2>1 DEF Right
<1> QED
  BY <1>1, <1>2 DEF Word

LEMMA PolyOf == Poly \in Word /\ 31 \in Poly /\ 0 \notin Poly
BY DEF Poly, Word

\* The bits of a word that has been reduced.
LEMMA ReducedOf ==
    ASSUME NEW a \in Word
    PROVE  /\ Reduced(a) \in Word
           /\ \A i \in 0..31 : i \in Reduced(a) <=>
                (i + 1 \in a) # (0 \in a /\ i \in Poly)
<1>1. Right(a, 1) \in Word /\ \A i \in Nat : i \in Right(a, 1) <=> i + 1 \in a
  BY RightOf
<1>2. Reduced(a) \in Word
  BY <1>1, PolyOf, XorTypes DEF Reduced
<1>3. ASSUME NEW i \in 0..31
      PROVE  i \in Reduced(a) <=> (i + 1 \in a) # (0 \in a /\ i \in Poly)
  BY <1>1, XorOf DEF Reduced
<1> QED
  BY <1>2, <1>3

\* Reducing is linear, and loses nothing.
LEMMA ReducedXor ==
    ASSUME NEW a \in Word, NEW b \in Word
    PROVE  /\ Reduced(Xor(a, b)) = Xor(Reduced(a), Reduced(b))
           /\ Reduced(a) = Reduced(b) => a = b
<1>1. /\ Xor(a, b) \in Word /\ Reduced(a) \in Word /\ Reduced(b) \in Word
      /\ Reduced(Xor(a, b)) \in Word /\ Xor(Reduced(a), Reduced(b)) \in Word
  BY XorTypes, ReducedOf
<1>2. ASSUME NEW i \in 0..31
      PROVE  i \in Reduced(Xor(a, b)) <=> i \in Xor(Reduced(a), Reduced(b))
  <2>1. i \in Reduced(Xor(a, b)) <=> (i + 1 \in Xor(a, b)) # (0 \in Xor(a, b) /\ i \in Poly)
    BY <1>1, ReducedOf
  <2>2. /\ i \in Reduced(a) <=> (i + 1 \in a) # (0 \in a /\ i \in Poly)
        /\ i \in Reduced(b) <=> (i + 1 \in b) # (0 \in b /\ i \in Poly)
    BY ReducedOf
  <2>3. /\ i + 1 \in Xor(a, b) <=> (i + 1 \in a) # (i + 1 \in b)
        /\ 0 \in Xor(a, b) <=> (0 \in a) # (0 \in b)
        /\ i \in Xor(Reduced(a), Reduced(b)) <=> (i \in Reduced(a)) # (i \in Reduced(b))
    BY XorOf
  <2> QED
    BY <2>1, <2>2, <2>3
<1>3. ASSUME Reduced(a) = Reduced(b) PROVE a = b
  <2>1. 0 \in a <=> 0 \in b
    <3>1. /\ 31 \in Reduced(a) <=> (31 + 1 \in a) # (0 \in a /\ 31 \in Poly)
          /\ 31 \in Reduced(b) <=> (31 + 1 \in b) # (0 \in b /\ 31 \in Poly)
      BY ReducedOf
    <3>2. 31 + 1 \notin a /\ 31 + 1 \notin b
      BY DEF Word
    <3> QED
      BY <1>3, <3>1, <3>2, PolyOf
  <2>2. ASSUME NEW j \in 1..31 PROVE j \in a <=> j \in b
    <3>1. j - 1 \in 0..31 /\ (j - 1) + 1 = j
      OBVIOUS
    <3>2. /\ j - 1 \in Reduced(a) <=> (j \in a) # (0 \in a /\ j - 1 \in Poly)
          /\ j - 1 \in Reduced(b) <=> (j \in b) # (0 \in b /\ j - 1 \in Poly)
      BY <3>1, ReducedOf
    <3> QED
      BY <1>3, <2>1, <3>2
  <2> QED
    <3>1. ASSUME NEW i \in 0..31 PROVE i \in a <=> i \in b
      <4>1. i = 0 \/ i \in 1..31
        OBVIOUS
      <4> QED
        BY <2>1, <2>2, <4>1
    <3> QED
      BY <3>1, SameWord
<1> QED
  BY <1>1, <1>2, <1>3, SameWord

LEMMA EightXor ==
    ASSUME NEW a \in Word, NEW b \in Word
    PROVE  /\ Eight(a) \in Word
           /\ Eight(Xor(a, b)) = Xor(Eight(a), Eight(b))
           /\ Eight(a) = Eight(b) => a = b
<1>1. ASSUME NEW x \in Word, NEW y \in Word
      PROVE  /\ Reduced2(x) \in Word
             /\ Reduced2(Xor(x, y)) = Xor(Reduced2(x), Reduced2(y))
             /\ Reduced2(x) = Reduced2(y) => x = y
  <2>1. Reduced(x) \in Word /\ Reduced(y) \in Word
    BY ReducedOf
  <2> QED
    BY <2>1, ReducedOf, ReducedXor DEF Reduced2
<1> DEFINE R4(x) == Reduced2(Reduced2(x))
<1>2. ASSUME NEW x \in Word, NEW y \in Word
      PROVE  /\ R4(x) \in Word
             /\ R4(Xor(x, y)) = Xor(R4(x), R4(y))
             /\ R4(x) = R4(y) => x = y
  <2>1. Reduced2(x) \in Word /\ Reduced2(y) \in Word
    BY <1>1
  <2> QED
    BY <1>1, <2>1
<1> HIDE DEF R4
<1>3. \A x : Eight(x) = R4(R4(x))
  BY DEF Eight, R4
<1>4. R4(a) \in Word /\ R4(b) \in Word
  BY <1>2
<1> QED
  BY <1>2, <1>3, <1>4

\* A word whose low bits are 0 is only shifted.
LEMMA EightShifts ==
    ASSUME NEW a \in Word, a \cap 0..7 = {}
    PROVE  Eight(a) = Right(a, 8)
<1>1. ASSUME NEW x \in Word, NEW n \in Nat, x = Right(a, n), n < 8
      PROVE  Reduced(x) = Right(a, n + 1) /\ Right(a, n + 1) \in Word
  <2>0. n \in 0..7 /\ 0 + n = n /\ n + 1 \in Nat
    BY <1>1
  <2>5. \A i \in Nat : i \in Right(a, n) <=> i + n \in a
    BY RightOf
  <2>6. \A i \in Nat : i \in x <=> i + n \in a
    BY <1>1, <2>5
  <2>1. 0 \notin x
    BY <2>0, <2>6
  <2>2. /\ Right(x, 1) \in Word /\ Right(a, n + 1) \in Word
        /\ \A i \in Nat : i \in Right(x, 1) <=> i + 1 \in x
        /\ \A i \in Nat : i \in Right(a, n + 1) <=> i + (n + 1) \in a
    BY <1>1, <2>0, RightOf
  <2>3. ASSUME NEW i \in 0..31 PROVE i \in Right(x, 1) <=> i \in Right(a, n + 1)
    <3>1. i \in Nat /\ i + 1 \in Nat /\ (i + 1) + n = i + (n + 1)
      BY <1>1
    <3>2. i \in Right(x, 1) <=> (i + 1) + n \in a
      BY <2>2, <2>6, <3>1
    <3> QED
      BY <2>2, <3>1, <3>2
  <2>4. Right(x, 1) = Right(a, n + 1)
    BY <2>2, <2>3, SameWord
  <2> QED
    BY <2>1, <2>2, <2>4 DEF Reduced
<1>2. a = Right(a, 0)
  <2>1. Right(a, 0) \in Word /\ \A i \in Nat : i \in Right(a, 0) <=> i + 0 \in a
    BY RightOf
  <2>2. ASSUME NEW i \in 0..31 PROVE i \in a <=> i \in Right(a, 0)
    <3>1. i \in Nat /\ i + 0 = i
      OBVIOUS
    <3> QED
      BY <2>1, <3>1
  <2> QED
    BY <2>1, <2>2, SameWord
<1>3. Reduced(a) = Right(a, 1) /\ Right(a, 1) \in Word
  BY <1>1, <1>2
<1>4. Reduced(Right(a, 1)) = Right(a, 2) /\ Right(a, 2) \in Word
  BY <1>1, <1>3
<1>5. Reduced(Right(a, 2)) = Right(a, 3) /\ Right(a, 3) \in Word
  BY <1>1, <1>4
<1>6. Reduced(Right(a, 3)) = Right(a, 4) /\ Right(a, 4) \in Word
  BY <1>1, <1>5
<1>7. Reduced(Right(a, 4)) = Right(a, 5) /\ Right(a, 5) \in Word
  BY <1>1, <1>6
<1>8. Reduced(Right(a, 5)) = Right(a, 6) /\ Right(a, 6) \in Word
  BY <1>1, <1>7
<1>9. Reduced(Right(a, 6)) = Right(a, 7) /\ Right(a, 7) \in Word
  BY <1>1, <1>8
<1>10. Reduced(Right(a, 7)) = Right(a, 8)
  BY <1>1, <1>9
<1> QED
  BY <1>3, <1>4, <1>5, <1>6, <1>7, <1>8, <1>9, <1>10 DEF Eight, Reduced2

\* Both implementations compute the same step.
LEMMA SameStep ==
    ASSUME NEW c \in Word, NEW b \in Byte
    PROVE  proto_crc32_step(c, b) = crc32_update(c, b)
<1> DEFINE x == Xor(c, b)
           low == x \cap 0..7
           high == x \ 0..7
<1>1. x \in Word /\ low \in Word /\ high \in Word /\ high \cap 0..7 = {}
  BY XorTypes DEF Word
<1>2. Xor(low, high) = x
  BY DEF Xor, SymDiff
<1>3. \A i \in Nat : i + 8 \in high <=> i + 8 \in c
  BY XorOf DEF Byte
<1> HIDE DEF x
<1>4. Eight(x) = Xor(Eight(low), Eight(high))
  BY <1>1, <1>2, EightXor
<1>5. Eight(high) = Right(c, 8)
  <2>1. Eight(high) = Right(high, 8)
    BY <1>1, EightShifts
  <2>2. Right(high, 8) = Right(c, 8)
    <3> HIDE DEF high
    <3>1. /\ Right(high, 8) \in Word
          /\ \A i \in Nat : i \in Right(high, 8) <=> i + 8 \in high
      BY <1>1, RightOf
    <3>2. /\ Right(c, 8) \in Word
          /\ \A i \in Nat : i \in Right(c, 8) <=> i + 8 \in c
      BY RightOf
    <3>3. \A i \in 0..31 : i \in Right(high, 8) <=> i \in Right(c, 8)
      BY <1>3, <3>1, <3>2
    <3> QED
      BY <3>1, <3>2, <3>3, SameWord
  <2> QED
    BY <2>1, <2>2
<1>6. Xor(Right(c, 8), Eight(low)) = Xor(Eight(low), Right(c, 8))
  BY XorOf
<1> QED
  BY <1>4, <1>5, <1>6 DEF proto_crc32_step, crc32_update, x

\* What is left of a difference after 1 to 4 bytes more.
After(n, w) ==
    IF n = 1 THEN Eight(w)
    ELSE IF n = 2 THEN Eight(Eight(w))
    ELSE IF n = 3 THEN Eight(Eight(Eight(w)))
    ELSE Eight(Eight(Eight(Eight(w))))

LEMMA AfterNext ==
    ASSUME NEW n \in 1..3, NEW w PROVE After(n + 1, w) = Eight(After(n, w))
BY DEF After

LEMMA AfterXor ==
    ASSUME NEW n \in 1..4, NEW a \in Word, NEW b \in Word
    PROVE  /\ After(n, a) \in Word
           /\ After(n, Xor(a, b)) = Xor(After(n, a), After(n, b))
           /\ After(n, a) = After(n, b) => a = b
<1> DEFINE Good(i) == /\ After(i, a) \in Word /\ After(i, b) \in Word
                      /\ After(i, Xor(a, b)) = Xor(After(i, a), After(i, b))
                      /\ After(i, a) = After(i, b) => a = b
<1>1. Good(1)
  BY EightXor DEF After
<1>2. ASSUME NEW i \in 1..3, Good(i) PROVE Good(i + 1)
  BY <1>2, AfterNext, EightXor
<1>3. Good(2) /\ Good(3) /\ Good(4)
  <2>1. Good(1 + 1)
    BY <1>1, <1>2
  <2>2. Good(2 + 1)
    BY <1>2, <2>1
  <2>3. Good(3 + 1)
    BY <1>2, <2>2
  <2> QED
    BY <2>1, <2>2, <2>3
<1> QED
  BY <1>1, <1>3

\* The bits of a byte, n bytes higher.
Lifted(byte, n) == {i + 8 * n : i \in byte}

LEMMA LiftedOf ==
    ASSUME NEW byte \in Byte, NEW n \in 0..3
    PROVE  /\ Lifted(byte, n) \in Word
           /\ Lifted(byte, n) \subseteq (8 * n)..(8 * n + 7)
           /\ \A i \in Nat : i \in Lifted(byte, n) <=> i - 8 * n \in byte
<1>1. \A i \in byte : i \in 0..7
  BY DEF Byte
<1>2. Lifted(byte, n) \subseteq (8 * n)..(8 * n + 7)
  BY <1>1 DEF Lifted
<1>3. Lifted(byte, n) \in Word
  BY <1>2 DEF Word
<1>4. ASSUME NEW i \in Nat PROVE i \in Lifted(byte, n) <=> i - 8 * n \in byte
  <2>1. (i - 8 * n) + 8 * n = i /\ \A j \in 0..7 : j + 8 * n = i => i - 8 * n = j
    OBVIOUS
  <2> QED
    BY <1>1, <2>1 DEF Lifted
<1> QED
  BY <1>2, <1>3, <1>4

LEMMA LiftedDown ==
    ASSUME NEW byte \in Byte, NEW n \in 0..2
    PROVE  Eight(Lifted(byte, n + 1)) = Lifted(byte, n)
<1> DEFINE a == Lifted(byte, n + 1)
<1>1. n + 1 \in 0..3 /\ n \in 0..3
  OBVIOUS
<1>2. /\ a \in Word /\ a \subseteq (8 * (n + 1))..(8 * (n + 1) + 7)
      /\ \A i \in Nat : i \in a <=> i - 8 * (n + 1) \in byte
  BY <1>1, LiftedOf
<1>3. /\ Lifted(byte, n) \in Word
      /\ \A i \in Nat : i \in Lifted(byte, n) <=> i - 8 * n \in byte
  BY <1>1, LiftedOf
<1> HIDE DEF a
<1>4. a \cap 0..7 = {}
  BY <1>2
<1>5. Eight(a) = Right(a, 8)
  BY <1>2, <1>4, EightShifts
<1>6. Right(a, 8) \in Word /\ \A i \in Nat : i \in Right(a, 8) <=> i + 8 \in a
  BY <1>2, RightOf
<1>7. ASSUME NEW i \in 0..31 PROVE i \in Right(a, 8) <=> i \in Lifted(byte, n)
  <2>1. i \in Nat /\ i + 8 \in Nat /\ (i + 8) - 8 * (n + 1) = i - 8 * n
    OBVIOUS
  <2>2. i + 8 \in a <=> i - 8 * n \in byte
    BY <1>2, <2>1
  <2> QED
    BY <1>3, <1>6, <2>1, <2>2
<1>8. Right(a, 8) = Lifted(byte, n)
  BY <1>3, <1>6, <1>7, SameWord
<1> QED
  BY <1>5, <1>8 DEF a

LEMMA AfterLifted ==
    ASSUME NEW byte \in Byte, NEW n \in 1..3
    PROVE  After(n, Lifted(byte, n)) = byte
<1>1. Lifted(byte, 0) = byte
  <2>1. \A i \in byte : i + 8 * 0 = i
    BY DEF Byte
  <2>2. Lifted(byte, 0) = {i : i \in byte}
    BY <2>1 DEF Lifted
  <2> QED
    BY <2>2
<1>2. Eight(Lifted(byte, 0 + 1)) = Lifted(byte, 0)
  BY LiftedDown
<1>3. Eight(Lifted(byte, 1 + 1)) = Lifted(byte, 1)
  BY LiftedDown
<1>4. Eight(Lifted(byte, 2 + 1)) = Lifted(byte, 2)
  BY LiftedDown
<1> QED
  BY <1>1, <1>2, <1>3, <1>4 DEF After

\* The differences of the two checksums, n bytes after the first wrong one:
\* where a difference came in, and that it is one.
Burst(n) == {w \in SUBSET (0..(8 * n - 1)) : w # {}}
Damages(d) ==
    /\ d \in Word
    /\ damaged = 0 => d = {}
    /\ damaged > 0 => d # {}
    /\ damaged \in 1..4 => \E w \in Burst(damaged) : d = After(damaged, w)

\* A wrong byte that comes while the burst lasts does not make up for it.
LEMMA BurstGrows ==
    ASSUME NEW n \in 1..3, NEW w \in Burst(n), NEW error \in Byte
    PROVE  \E v \in Burst(n + 1) : Eight(Xor(After(n, w), error)) = After(n + 1, v)
<1> DEFINE e == Lifted(error, n)
           v == Xor(w, e)
<1>1. /\ e \in Word /\ e \subseteq (8 * n)..(8 * n + 7)
      /\ w \in Word /\ w \subseteq 0..(8 * n - 1) /\ w # {}
  BY LiftedOf DEF Burst, Word
<1>2. After(n, e) = error
  BY AfterLifted
<1> HIDE DEF e
<1>3. After(n, v) = Xor(After(n, w), error)
  BY <1>1, <1>2, AfterXor
<1>4. v \in Burst(n + 1)
  <2>1. PICK i : i \in w
    BY <1>1
  <2>2. i \notin e
    BY <1>1, <2>1
  <2>3. i \in v
    BY <2>1, <2>2, XorOf
  <2>4. \A j \in v : j \in w \/ j \in e
    BY XorOf
  <2>5. v \subseteq 0..(8 * (n + 1) - 1)
    <3>1. (8 * n)..(8 * n + 7) \subseteq 0..(8 * (n + 1) - 1)
      OBVIOUS
    <3>2. 0..(8 * n - 1) \subseteq 0..(8 * (n + 1) - 1)
      OBVIOUS
    <3> HIDE DEF v
    <3> QED
      BY <1>1, <2>4, <3>1, <3>2, Zenon
  <2> QED
    BY <2>3, <2>5 DEF Burst
<1> QED
  BY <1>3, <1>4, AfterNext

LEMMA NothingReduced == Eight({}) = {}
<1>1. {} \in Word /\ Xor({}, {}) = {}
  BY XorOf DEF Word
<1>2. Eight({}) = Xor(Eight({}), Eight({}))
  BY <1>1, EightXor
<1> QED
  BY <1>2, XorOf

\* One byte on: the difference is reduced, the error of the byte with it.
LEMMA DifferenceStep ==
    ASSUME NEW c \in Word, NEW s \in Word, NEW byte \in Byte, NEW error \in Byte
    PROVE  LET c2 == proto_crc32_step(c, byte)
               s2 == crc32_update(s, Xor(byte, error))
           IN  /\ c2 \in Word /\ s2 \in Word
               /\ Xor(c2, s2) = Eight(Xor(Xor(c, s), error))
<1> DEFINE wrong == Xor(byte, error)
           x == Xor(c, byte)
           y == Xor(s, wrong)
<1>1. wrong \in Byte
  <2>1. \A i \in wrong : i \in byte \/ i \in error
    BY XorOf
  <2> QED
    BY <2>1, Zenon DEF Byte
<1>2. x \in Word /\ y \in Word
  BY <1>1, XorTypes
<1>3. Xor(x, y) = Xor(Xor(c, s), error)
  <2>1. \A i : i \in Xor(x, y) <=> i \in Xor(Xor(c, s), error)
    <3> TAKE i
    <3>1. i \in Xor(x, y) <=> (i \in x) # (i \in y)
      BY XorOf
    <3>2. /\ i \in x <=> (i \in c) # (i \in byte)
          /\ i \in y <=> (i \in s) # (i \in wrong)
          /\ i \in wrong <=> (i \in byte) # (i \in error)
      BY XorOf
    <3>3. /\ i \in Xor(Xor(c, s), error) <=> (i \in Xor(c, s)) # (i \in error)
          /\ i \in Xor(c, s) <=> (i \in c) # (i \in s)
      BY XorOf
    <3> HIDE DEF x, y, wrong
    <3> QED
      BY <3>1, <3>2, <3>3
  <2> QED
    BY <2>1, Zenon
<1> HIDE DEF wrong
<1>4. proto_crc32_step(c, byte) = Eight(x)
  BY SameStep DEF crc32_update
<1>5. crc32_update(s, wrong) = Eight(y)
  BY DEF crc32_update
<1> HIDE DEF x, y
<1>6. Eight(x) \in Word /\ Eight(y) \in Word /\ Xor(Eight(x), Eight(y)) = Eight(Xor(x, y))
  BY <1>2, EightXor
<1> QED
  BY <1>3, <1>4, <1>5, <1>6 DEF wrong

-----------------------------------------------------------------------------
(* Paths in hexadecimal digits.                                            *)

\* A sequence has its elements, and is one over any larger set.
LEMMA Elements ==
    ASSUME NEW S, NEW s \in Seq(S)
    PROVE  /\ Len(s) \in Nat /\ DOMAIN s = 1..Len(s)
           /\ s = [i \in 1..Len(s) |-> s[i]] /\ \A i \in 1..Len(s) : s[i] \in S
           /\ \A T : S \subseteq T => s \in Seq(T)
<1>1. /\ Len(s) \in Nat /\ DOMAIN s = 1..Len(s)
      /\ s \in [1..Len(s) -> S]
  BY LenProperties
<1> QED
  BY <1>1, SeqDef

LEMMA ByteDigits ==
    ASSUME NEW x \in 0..255
    PROVE  /\ x \div 16 \in Int /\ x % 16 \in Int
           /\ \A high, low : high = x \div 16 /\ low = x % 16 => 16 * high + low = x
<1> DEFINE q == x \div 16
           r == x % 16
<1>1. q \in Int /\ r \in Int
  OBVIOUS
<1>2. r = x - 16 * q
  OBVIOUS
<1> HIDE DEF q, r
<1>3. \A high, low : high = q /\ low = r => 16 * high + low = x
  BY <1>1, <1>2
<1> QED
  BY <1>1, <1>3, Zenon DEF q, r

LEMMA Digits ==
    ASSUME NEW s \in Seq(0..255)
    PROVE  /\ encode_hex(s) \in Seq(Int) /\ Len(encode_hex(s)) = 2 * Len(s)
           /\ \A i \in 1..Len(s) : /\ encode_hex(s)[2 * i - 1] = s[i] \div 16
                                  /\ encode_hex(s)[2 * i] = s[i] % 16
<1> DEFINE l == Len(s)
           hex == encode_hex(s)
<1>1. l \in Nat /\ 2 * l \in Nat /\ \A i \in 1..l : s[i] \in 0..255
  BY Elements
<1>2. hex = [i \in 1..(2 * l) |-> IF i % 2 = 1 THEN s[(i + 1) \div 2] \div 16 ELSE s[i \div 2] % 16]
  BY DEF encode_hex
<1> HIDE DEF l, hex
<1>3. ASSUME NEW i \in 1..(2 * l) PROVE hex[i] \in Int
  <2>1. /\ i % 2 = 1 => (i + 1) \div 2 \in 1..l
        /\ i % 2 # 1 => i \div 2 \in 1..l
    BY <1>1
  <2>2. \A x \in 0..255 : x \div 16 \in Int /\ x % 16 \in Int
    BY ByteDigits
  <2>3. CASE i % 2 = 1
    <3>1. hex[i] = s[(i + 1) \div 2] \div 16
      BY <1>2, <2>3
    <3> QED
      BY <1>1, <2>1, <2>2, <2>3, <3>1
  <2>4. CASE i % 2 # 1
    <3>1. hex[i] = s[i \div 2] % 16
      BY <1>2, <2>4
    <3> QED
      BY <1>1, <2>1, <2>2, <2>4, <3>1
  <2> QED
    BY <2>3, <2>4
<1>4. hex \in [1..(2 * l) -> Int]
  BY <1>2, <1>3
<1>5. hex \in Seq(Int) /\ Len(hex) = 2 * l
  BY <1>1, <1>4, SeqDef
<1>6. ASSUME NEW i \in 1..l PROVE hex[2 * i - 1] = s[i] \div 16 /\ hex[2 * i] = s[i] % 16
  <2>1. /\ 2 * i - 1 \in 1..(2 * l) /\ (2 * i - 1) % 2 = 1 /\ ((2 * i - 1) + 1) \div 2 = i
        /\ 2 * i \in 1..(2 * l) /\ (2 * i) % 2 # 1 /\ (2 * i) \div 2 = i
    BY <1>1
  <2> QED
    BY <1>2, <2>1
<1> QED
  BY <1>5, <1>6 DEF l, hex

\* The digits of a path are read as the path; an odd number of them is refused.
LEMMA DigitsRead ==
    ASSUME NEW s \in Seq(0..255)
    PROVE  decode_hex(encode_hex(s)) = s
<1> DEFINE l == Len(s)
           hex == encode_hex(s)
<1>1. l \in Nat /\ s = [i \in 1..l |-> s[i]] /\ \A i \in 1..l : s[i] \in 0..255
  BY Elements
<1>2. /\ Len(hex) = 2 * l
      /\ \A i \in 1..l : hex[2 * i - 1] = s[i] \div 16 /\ hex[2 * i] = s[i] % 16
  BY Digits
<1> HIDE DEF l, hex
<1>3. Len(hex) % 2 = 0 /\ Len(hex) \div 2 = l
  BY <1>1, <1>2
<1>4. decode_hex(hex) = [i \in 1..l |-> 16 * hex[2 * i - 1] + hex[2 * i]]
  BY <1>3 DEF decode_hex
<1>5. ASSUME NEW i \in 1..l PROVE 16 * hex[2 * i - 1] + hex[2 * i] = s[i]
  <2>1. hex[2 * i - 1] = s[i] \div 16 /\ hex[2 * i] = s[i] % 16
    BY <1>2
  <2> QED
    BY <1>1, <2>1, ByteDigits
<1>6. decode_hex(hex) = [i \in 1..l |-> s[i]]
  BY <1>4, <1>5
<1> QED
  BY <1>1, <1>6 DEF hex

\* The path of an ACTION, as the client and as the server read it.
LEMMA PathParam ==
    ASSUME NEW v, NEW capacity
    PROVE  /\ proto_extract_param(ActionLine(v), "path", capacity) =
                IF v = <<>> THEN Fail ELSE Cut(v, capacity)
           /\ parse_line(ActionLine(v), "path") = v
<1> DEFINE line == ActionLine(v)
           at == {i \in DOMAIN line : line[i].key = "path"}
<1>1. /\ DOMAIN line = 1..3 /\ line[2].key = "path" /\ line[2].value = v
      /\ line[1].key # "path" /\ line[3].key # "path"
  BY DEF ActionLine
<1>2. at = {2}
  <2> HIDE DEF line
  <2>1. \A i \in 1..3 : i = 1 \/ i = 2 \/ i = 3
    OBVIOUS
  <2> QED
    BY <1>1, <2>1
<1>3. Min(at) = 2 /\ Max(at) = 2
  BY <1>2 DEF Min, Max
<1> HIDE DEF line
<1> QED
  BY <1>1, <1>2, <1>3 DEF proto_extract_param, parse_line, line

\* A path of any length, in lines and buffers of any capacity.
LEMMA PathTravels ==
    ASSUME NEW s \in Seq(0..255)
    PROVE  LET hex == proto_encode_hex(s, 2 * PathCapacity)
           IN  /\ ActionPath(ActionLine(encode_hex(s))) \in {s, Fail}
               /\ (hex # Fail) = (Len(s) < PathCapacity)
               /\ hex # Fail =>
                    /\ parse_line(ActionLine(hex), "path") = hex /\ decode_hex(hex) = s
                    /\ s # <<>> => ActionPath(ActionLine(hex)) = s
<1> DEFINE p == PathCapacity
           l == Len(s)
           hex == encode_hex(s)
           got == ActionPath(ActionLine(hex))
<1>1. /\ p \in Nat /\ p >= 1 /\ l \in Nat
      /\ hex \in Seq(Int) /\ Len(hex) = 2 * l /\ hex # Fail
      /\ s \in Seq(Int) /\ s # Fail /\ (s = <<>> <=> l = 0)
  <2>1. s \in Seq(Int)
    <3>1. 0..255 \subseteq Int
      OBVIOUS
    <3> QED
      BY <3>1, SeqMonotonic
  <2> QED
    BY <2>1, Digits, TextAssumption
<1>2. decode_hex(hex) = s
  BY DigitsRead
<1>3. hex = <<>> <=> s = <<>>
  <2> HIDE DEF hex, l
  <2>1. hex = <<>> <=> Len(hex) = 0
    BY <1>1
  <2> QED
    BY <1>1, <2>1
<1> HIDE DEF hex, l, p
<1>4. got = LET value == IF hex = <<>> THEN Fail ELSE Cut(hex, 2 * p)
            IN  IF value = Fail THEN Fail ELSE proto_decode_hex(value, p)
  BY PathParam DEF ActionPath, p
<1>5. CASE l < p
  <2>1. Cut(hex, 2 * p) = hex
    BY <1>1, <1>5 DEF Cut
  <2>2. proto_decode_hex(hex, p) = s
    <3>1. ~(Len(s) >= p)
      BY <1>1, <1>5 DEF l
    <3> QED
      BY <1>1, <1>2, <3>1 DEF proto_decode_hex
  <2>3. IF s = <<>> THEN got = Fail ELSE got = s
    BY <1>1, <1>3, <1>4, <2>1, <2>2
  <2>4. proto_encode_hex(s, 2 * p) = hex
    <3>1. ~(2 * l + 1 >= 2 * p)
      BY <1>1, <1>5
    <3> QED
      BY <3>1 DEF proto_encode_hex, hex, l
  <2>5. parse_line(ActionLine(hex), "path") = hex
    BY PathParam
  <2> QED
    BY <1>1, <1>2, <1>5, <2>3, <2>4, <2>5 DEF hex, l, p
<1>6. CASE ~(l < p)
  <2>1. 2 * l >= 2 * p /\ s # <<>> /\ hex # <<>> /\ 2 * p - 1 \in Nat
    BY <1>1, <1>3, <1>6
  <2>2. Cut(hex, 2 * p) = SubSeq(hex, 1, 2 * p - 1)
    <3>1. ~(Len(hex) < 2 * p)
      BY <1>1, <2>1
    <3> QED
      BY <3>1 DEF Cut
  <2> DEFINE cut == SubSeq(hex, 1, 2 * p - 1)
  <2>3. cut \in Seq(Int) /\ Len(cut) = 2 * p - 1
    <3>1. 2 * p - 1 <= Len(hex)
      BY <1>1, <2>1
    <3>2. \A i \in 1..(2 * p - 1) : hex[i] \in Int
      BY <1>1, <3>1
    <3>3. /\ cut \in Seq(Int)
          /\ Len(cut) = IF 1 <= 2 * p - 1 THEN (2 * p - 1) - 1 + 1 ELSE 0
      BY <2>1, <3>2, SubSeqProperties
    <3> HIDE DEF cut
    <3> QED
      BY <1>1, <3>3
  <2> HIDE DEF cut
  <2>4. cut # Fail
    BY <2>3, TextAssumption
  <2>5. decode_hex(cut) = Fail
    <3>1. (2 * p - 1) % 2 # 0
      BY <1>1
    <3> QED
      BY <2>3, <3>1 DEF decode_hex
  <2>6. got = Fail
    BY <1>4, <2>1, <2>2, <2>4, <2>5 DEF proto_decode_hex, cut
  <2>7. proto_encode_hex(s, 2 * p) = Fail
    <3>1. 2 * l + 1 >= 2 * p
      BY <1>1, <2>1
    <3> QED
      BY <2>1, <3>1 DEF proto_encode_hex, l
  <2> QED
    BY <1>6, <2>6, <2>7 DEF hex, l, p
<1> QED
  BY <1>5, <1>6

-----------------------------------------------------------------------------
(* Paths on the client's disk.                                             *)

Text == Seq(Characters)

LEMMA Prefix ==
    ASSUME NEW s \in Text, NEW n \in 0..Len(s)
    PROVE  /\ SubSeq(s, 1, n) \in Text /\ Len(SubSeq(s, 1, n)) = n
           /\ \A i \in 1..n : SubSeq(s, 1, n)[i] = s[i]
<1>1. Len(s) \in Nat /\ n \in Nat /\ n <= Len(s) /\ \A i \in 1..Len(s) : s[i] \in Characters
  BY Elements DEF Text
<1>2. \A i \in 1..n : s[i] \in Characters
  BY <1>1
<1>3. /\ SubSeq(s, 1, n) \in Seq(Characters)
      /\ Len(SubSeq(s, 1, n)) = IF 1 <= n THEN n - 1 + 1 ELSE 0
      /\ \A i \in 1..(n - 1 + 1) : SubSeq(s, 1, n)[i] = s[1 + i - 1]
  BY <1>1, <1>2, SubSeqProperties
<1> QED
  BY <1>1, <1>3 DEF Text

LEMMA SameText ==
    ASSUME NEW s \in Text, NEW t \in Text, Len(s) = Len(t), \A i \in 1..Len(s) : s[i] = t[i]
    PROVE  s = t
BY SeqEqual DEF Text

LEMMA Joined ==
    ASSUME NEW s \in Text, NEW t \in Text
    PROVE  /\ s \o t \in Text /\ s \o t # TooLong /\ Len(s \o t) = Len(s) + Len(t)
           /\ s # TooLong
           /\ \A i \in 1..(Len(s) + Len(t)) :
                (s \o t)[i] = IF i <= Len(s) THEN s[i] ELSE t[i - Len(s)]
           /\ append_text(s, t) = IF Len(s) + Len(t) < PathRoom THEN s \o t ELSE TooLong
           /\ append_text(TooLong, t) = TooLong
<1>1. /\ s \o t \in Text /\ Len(s \o t) = Len(s) + Len(t)
      /\ \A i \in 1..(Len(s) + Len(t)) :
           (s \o t)[i] = IF i <= Len(s) THEN s[i] ELSE t[i - Len(s)]
  BY ConcatProperties DEF Text
<1>2. s # TooLong /\ s \o t # TooLong
  BY <1>1, InputsAssumption DEF Text
<1>3. Len(s) \in Nat /\ Len(t) \in Nat /\ PathRoom \in Nat
  BY Elements, NameRulesAssumption DEF Text
<1>4. append_text(s, t) = IF Len(s) + Len(t) < PathRoom THEN s \o t ELSE TooLong
  BY <1>2, <1>3 DEF append_text
<1>5. append_text(TooLong, t) = TooLong
  BY DEF append_text
<1> QED
  BY <1>1, <1>2, <1>4, <1>5

\* A folder without the backslash at its end; with it, it is what the client
\* joins paths to.
Folder(r) ==
    /\ r \in Text /\ Len(r) >= 3
    /\ \A i \in 2..Len(r) : r[i] # Slash /\ ~(IsSep(r[i - 1]) /\ IsSep(r[i]))
Bared(r) == IF EndsOpen(r) THEN r ELSE SubSeq(r, 1, Len(r) - 1)

LEMMA OneSep == <<Back>> \in Text /\ Len(<<Back>>) = 1 /\ <<Back>>[1] = Back
BY DEF Text, Characters

LEMMA BaredOf ==
    ASSUME NEW r, Folder(r)
    PROVE  /\ Bared(r) \in Text /\ Len(Bared(r)) >= 2 /\ Len(Bared(r)) \in Nat
           /\ EndsOpen(Bared(r))
           /\ EndsOpen(r) => Bared(r) = r
           /\ ~EndsOpen(r) => Bared(r) \o <<Back>> = r /\ Len(r) = Len(Bared(r)) + 1
<1>1. /\ r \in Text /\ Len(r) \in Nat /\ Len(r) >= 3 /\ r # <<>>
      /\ \A i \in 2..Len(r) : r[i] # Slash /\ ~(IsSep(r[i - 1]) /\ IsSep(r[i]))
  <2>1. r \in Text /\ Len(r) \in Nat /\ Len(r) >= 3
    BY Elements DEF Folder, Text
  <2>2. Len(<<>>) = 0
    BY EmptySeq
  <2> QED
    BY <2>1, <2>2 DEF Folder
<1>2. CASE EndsOpen(r)
  <2>1. Bared(r) = r
    BY <1>2 DEF Bared
  <2> QED
    BY <1>1, <1>2, <2>1
<1>3. CASE ~EndsOpen(r)
  <2> DEFINE l == Len(r)
             b == SubSeq(r, 1, l - 1)
  <2>1. l \in Nat /\ l >= 3 /\ l - 1 \in 0..l /\ l - 1 \in 1..(l - 1) /\ l \in 2..l /\ l - 1 >= 2
    BY <1>1
  <2>2. Bared(r) = b
    BY <1>3 DEF Bared
  <2>3. b \in Text /\ Len(b) = l - 1 /\ \A i \in 1..(l - 1) : b[i] = r[i]
    BY <1>1, <2>1, Prefix
  <2>4. IsSep(r[l]) /\ r[l] = Back /\ ~IsSep(r[l - 1])
    <3>1. IsSep(r[l])
      BY <1>1, <1>3 DEF EndsOpen
    <3>2. r[l] # Slash /\ ~(IsSep(r[l - 1]) /\ IsSep(r[l]))
      BY <1>1, <2>1
    <3> QED
      BY <3>1, <3>2 DEF IsSep
  <2> HIDE DEF l, b
  <2>5. b # <<>> /\ EndsOpen(b)
    <3>1. Len(b) # 0 /\ Len(<<>>) = 0
      BY <2>1, <2>3, EmptySeq
    <3>2. b[Len(b)] = r[l - 1]
      BY <2>1, <2>3
    <3> QED
      BY <2>4, <3>1, <3>2 DEF EndsOpen
  <2>6. b \o <<Back>> = r
    <3>1. /\ b \o <<Back>> \in Text /\ Len(b \o <<Back>>) = Len(b) + Len(<<Back>>)
          /\ \A i \in 1..(Len(b) + Len(<<Back>>)) :
               (b \o <<Back>>)[i] = IF i <= Len(b) THEN b[i] ELSE <<Back>>[i - Len(b)]
      BY <2>3, OneSep, Joined
    <3>2. Len(b \o <<Back>>) = l /\ Len(b) + Len(<<Back>>) = l
      BY <2>1, <2>3, <3>1, OneSep
    <3>3. ASSUME NEW i \in 1..l PROVE (b \o <<Back>>)[i] = r[i]
      <4>1. (b \o <<Back>>)[i] = IF i <= Len(b) THEN b[i] ELSE <<Back>>[i - Len(b)]
        BY <3>1, <3>2
      <4>2. CASE i <= l - 1
        <5>1. i \in 1..(l - 1)
          BY <2>1, <4>2
        <5> QED
          BY <2>3, <4>1, <4>2, <5>1
      <4>3. CASE ~(i <= l - 1)
        <5>1. i = l /\ i - Len(b) = 1
          BY <2>1, <2>3, <4>3
        <5> QED
          BY <2>3, <2>4, <4>1, <4>3, <5>1, OneSep
      <4> QED
        BY <4>2, <4>3
    <3>4. Len(r) = l
      BY DEF l
    <3> QED
      BY <1>1, <3>1, <3>2, <3>3, <3>4, SameText
  <2>7. Len(r) = Len(b) + 1
    BY <2>1, <2>3 DEF l
  <2> QED
    BY <1>3, <2>1, <2>2, <2>3, <2>5, <2>6, <2>7
<1> QED
  BY <1>2, <1>3

\* Where a path lies: the function, with both ways it takes a folder.
Place(r, p) == Bared(r) \o <<Back>> \o Local(p)

LEMMA LocalText ==
    ASSUME NEW p \in Text PROVE Local(p) \in Text /\ Len(Local(p)) = Len(p)
<1>1. Len(p) \in Nat /\ DOMAIN p = 1..Len(p) /\ \A i \in 1..Len(p) : p[i] \in Characters
  BY Elements DEF Text
<1>2. Local(p) \in [1..Len(p) -> Characters]
  BY <1>1 DEF Local, Characters
<1> QED
  BY <1>1, <1>2, SeqDef DEF Text

LEMMA PlaceOf ==
    ASSUME NEW r, Folder(r), NEW p \in Text, p # <<>>
    PROVE  /\ Place(r, p) \in Text /\ Place(r, p) # TooLong
           /\ Len(Place(r, p)) = Len(Bared(r)) + 1 + Len(p)
           /\ protocol_to_local(r, p) = IF Len(Place(r, p)) < PathRoom THEN Place(r, p) ELSE TooLong
<1> DEFINE b == Bared(r)
           open == b \o <<Back>>
           t == Local(p)
           n == Len(b)
           k == Len(p)
<1>1. /\ b \in Text /\ n \in Nat /\ n >= 2 /\ EndsOpen(b)
      /\ EndsOpen(r) => b = r
      /\ ~EndsOpen(r) => open = r /\ Len(r) = n + 1
      /\ r \in Text
  BY BaredOf DEF Folder
<1>2. t \in Text /\ Len(t) = k /\ k \in Nat /\ PathRoom \in Nat
  BY LocalText, Elements, NameRulesAssumption DEF Text
<1>3. /\ open \in Text /\ open # TooLong /\ Len(open) = n + 1
      /\ append_text(b, <<Back>>) = IF n + 1 < PathRoom THEN open ELSE TooLong
  BY <1>1, OneSep, Joined
<1>4. /\ open \o t \in Text /\ open \o t # TooLong /\ Len(open \o t) = n + 1 + k
      /\ append_text(open, t) = IF n + 1 + k < PathRoom THEN open \o t ELSE TooLong
      /\ append_text(TooLong, t) = TooLong
  <2> HIDE DEF open, t, k
  <2>1. /\ open \o t \in Text /\ open \o t # TooLong /\ Len(open \o t) = Len(open) + Len(t)
        /\ append_text(open, t) = IF Len(open) + Len(t) < PathRoom THEN open \o t ELSE TooLong
        /\ append_text(TooLong, t) = TooLong
    BY <1>2, <1>3, Joined
  <2> QED
    BY <1>2, <1>3, <2>1
<1>5. /\ append_text(open, <<>>) = IF n + 1 < PathRoom THEN open ELSE TooLong
      /\ append_text(TooLong, <<>>) = TooLong
  <2>1. <<>> \in Text /\ Len(<<>>) = 0 /\ open \o <<>> = open
    BY <1>3, EmptySeq, ConcatEmptySeq DEF Text
  <2>2. /\ append_text(open, <<>>) = IF Len(open) + Len(<<>>) < PathRoom THEN open \o <<>> ELSE TooLong
        /\ append_text(TooLong, <<>>) = TooLong
    BY <1>3, <2>1, Joined
  <2>3. Len(open) + Len(<<>>) = n + 1
    BY <1>1, <1>3, <2>1
  <2> QED
    BY <2>1, <2>2, <2>3
<1>6. open[n + 1] = Back /\ SubSeq(open, 1, n) = b /\ open # <<>>
  <2>1. \A i \in 1..(n + 1) : open[i] = IF i <= n THEN b[i] ELSE <<Back>>[i - n]
    BY <1>1, OneSep, Joined
  <2>2. n + 1 \in 1..(n + 1) /\ ~(n + 1 <= n) /\ (n + 1) - n = 1 /\ n \in 0..(n + 1) /\ n + 1 # 0
    BY <1>1
  <2>3. open[n + 1] = Back
    BY <2>1, <2>2, OneSep
  <2>4. /\ SubSeq(open, 1, n) \in Text /\ Len(SubSeq(open, 1, n)) = n
        /\ \A i \in 1..n : SubSeq(open, 1, n)[i] = open[i]
    BY <1>3, <2>2, Prefix
  <2>5. \A i \in 1..n : SubSeq(open, 1, n)[i] = b[i]
    BY <1>1, <2>1, <2>4
  <2>6. SubSeq(open, 1, n) = b
    BY <1>1, <2>4, <2>5, SameText
  <2>7. open # <<>>
    BY <1>3, <2>2, EmptySeq
  <2> QED
    BY <2>3, <2>6, <2>7
<1> HIDE DEF t
<1> DEFINE joined == local_join(r, <<>>)
<1>7. joined = IF n + 1 < PathRoom THEN open ELSE TooLong
  <2> HIDE DEF b, open, n
  <2> QED
    BY <1>1, <1>3, <1>5 DEF local_join
<1>8. n + 1 < PathRoom \/ ~(n + 1 + k < PathRoom)
  BY <1>1, <1>2
<1>9. (n + 1) - 1 = n
  BY <1>1
<1>10. CASE n + 1 < PathRoom
  <2>1. joined = open /\ joined # TooLong
    BY <1>3, <1>7, <1>10
  <2>2. (IF joined # <<>> /\ joined[Len(joined)] = Back
           THEN SubSeq(joined, 1, Len(joined) - 1) ELSE joined) = b
    <3> HIDE DEF joined, open, b, n
    <3>1. Len(joined) = n + 1 /\ joined # <<>> /\ joined[n + 1] = Back
      BY <1>3, <1>6, <2>1
    <3> QED
      BY <1>6, <1>9, <2>1, <3>1
  <2>3. protocol_to_local(r, p) = append_text(append_text(b, <<Back>>), t)
    <3> HIDE DEF b, open, n
    <3> QED
      BY <1>1, <2>1, <2>2 DEF protocol_to_local, t
  <2>4. protocol_to_local(r, p) = IF n + 1 + k < PathRoom THEN open \o t ELSE TooLong
    <3> HIDE DEF b, open, n, k
    <3> QED
      BY <1>3, <1>4, <1>10, <2>3
  <2> QED
    BY <1>4, <2>4 DEF Place, t
<1>11. CASE ~(n + 1 < PathRoom)
  <2>1. joined = TooLong
    BY <1>7, <1>11
  <2>2. protocol_to_local(r, p) = TooLong
    BY <2>1 DEF protocol_to_local
  <2>3. ~(Len(open \o t) < PathRoom)
    <3> HIDE DEF b, open, n, k
    <3> QED
      BY <1>4, <1>8, <1>11
  <2> QED
    BY <1>4, <2>2, <2>3 DEF Place, t
<1> QED
  BY <1>10, <1>11

\* The last separator.
IsLastSep(s, n) ==
    /\ n \in 0..Len(s) /\ (n = 0 \/ IsSep(s[n]))
    /\ \A i \in (n + 1)..Len(s) : ~IsSep(s[i])

LEMMA LastSepOf ==
    ASSUME NEW s \in Text PROVE IsLastSep(s, LastSep(s))
<1> DEFINE l == Len(s)
           T == {k \in 0..l : k = l \/ IsSep(s[l - k])}
<1>1. l \in Nat
  BY Elements DEF Text
<1> HIDE DEF l
<1>2. T \subseteq Nat /\ l \in T
  BY <1>1
<1>3. PICK k \in T : \A m \in T : k <= m
  BY <1>2, Smallest
<1>4. k \in 0..l /\ (k = l \/ IsSep(s[l - k]))
  OBVIOUS
<1>5. l - k \in 0..l /\ (l - k = 0 \/ IsSep(s[l - k]))
  BY <1>1, <1>4
<1>6. ASSUME NEW i \in (l - k + 1)..l PROVE ~IsSep(s[i])
  <2>1. l - i \in 0..l /\ ~(k <= l - i) /\ l - (l - i) = i
    BY <1>1, <1>4
  <2>2. l - i \notin T
    BY <1>3, <2>1
  <2> QED
    BY <2>1, <2>2
<1>7. \E n \in 0..l : (n = 0 \/ IsSep(s[n])) /\ \A i \in (n + 1)..l : ~IsSep(s[i])
  BY <1>5, <1>6
<1> QED
  BY <1>7 DEF LastSep, IsLastSep, l

LEMMA LastSepIs ==
    ASSUME NEW s \in Text, NEW n, IsLastSep(s, n) PROVE LastSep(s) = n
<1> DEFINE l == Len(s)
           m == LastSep(s)
<1>1. l \in Nat
  BY Elements DEF Text
<1>2. /\ n \in 0..l /\ (n = 0 \/ IsSep(s[n])) /\ \A i \in (n + 1)..l : ~IsSep(s[i])
      /\ m \in 0..l /\ (m = 0 \/ IsSep(s[m])) /\ \A i \in (m + 1)..l : ~IsSep(s[i])
  BY LastSepOf DEF IsLastSep
<1> HIDE DEF l, m
<1>3. ~(n < m)
  <2>1. n < m => m # 0 /\ m \in (n + 1)..l
    BY <1>1, <1>2
  <2> QED
    BY <1>2, <2>1
<1>4. ~(m < n)
  <2>1. m < n => n # 0 /\ n \in (m + 1)..l
    BY <1>1, <1>2
  <2> QED
    BY <1>2, <2>1
<1>5. m = n
  BY <1>1, <1>2, <1>3, <1>4
<1> QED
  BY <1>5 DEF m

\* The beginning of a beginning.
LEMMA PrefixOfPrefix ==
    ASSUME NEW s \in Text, NEW n \in 0..Len(s), NEW m \in 0..n
    PROVE  SubSeq(SubSeq(s, 1, n), 1, m) = SubSeq(s, 1, m)
<1> DEFINE a == SubSeq(s, 1, n)
           b == SubSeq(s, 1, m)
           c == SubSeq(a, 1, m)
<1>0. Len(s) \in Nat
  BY Elements DEF Text
<1>1. m \in 0..Len(s) /\ m <= n /\ m \in Nat /\ n \in Nat
  BY <1>0
<1>2. a \in Text /\ Len(a) = n /\ \A i \in 1..n : a[i] = s[i]
  BY Prefix
<1>3. b \in Text /\ Len(b) = m /\ \A i \in 1..m : b[i] = s[i]
  BY <1>1, Prefix
<1>4. c \in Text /\ Len(c) = m /\ \A i \in 1..m : c[i] = a[i]
  <2> HIDE DEF a
  <2> QED
    BY <1>2, Prefix
<1> HIDE DEF a, b, c
<1>5. \A i \in 1..m : c[i] = b[i]
  BY <1>1, <1>2, <1>3, <1>4
<1>6. c = b
  BY <1>3, <1>4, <1>5, SameText
<1> QED
  BY <1>6 DEF a, b, c

\* A temporary file beside a file: with the file's own last separator.
LEMMA TempBeside ==
    ASSUME NEW s \in Text, build_temp_path(s) # TooLong
    PROVE  LET t == build_temp_path(s)
           IN  SubSeq(t, 1, LastSep(t) - 1) = SubSeq(s, 1, LastSep(s) - 1)
<1> DEFINE n == LastSep(s)
           a == SubSeq(s, 1, n)
           t == build_temp_path(s)
<1>1. Len(s) \in Nat /\ n \in 0..Len(s) /\ (n = 0 \/ IsSep(s[n]))
  BY LastSepOf, Elements DEF IsLastSep, Text
<1>2. a \in Text /\ Len(a) = n /\ \A i \in 1..n : a[i] = s[i]
  BY <1>1, Prefix
<1>3. TempName \in Text /\ Len(TempName) = 1 /\ ~IsSep(TempName[1])
  BY DEF TempName, Text, Characters, IsSep, Back, Slash
<1>4. t = append_text(a, TempName)
  BY DEF build_temp_path
<1> HIDE DEF n, a, t
<1>5. /\ a \o TempName \in Text /\ Len(a \o TempName) = n + 1
      /\ \A i \in 1..(n + 1) : (a \o TempName)[i] = IF i <= n THEN a[i] ELSE TempName[i - n]
      /\ append_text(a, TempName) \in {a \o TempName, TooLong}
  <2>1. /\ a \o TempName \in Text /\ Len(a \o TempName) = Len(a) + Len(TempName)
        /\ \A i \in 1..(Len(a) + Len(TempName)) :
             (a \o TempName)[i] = IF i <= Len(a) THEN a[i] ELSE TempName[i - Len(a)]
        /\ append_text(a, TempName) \in {a \o TempName, TooLong}
    BY <1>2, <1>3, Joined
  <2>2. Len(a) + Len(TempName) = n + 1
    BY <1>2, <1>3
  <2> QED
    BY <1>2, <1>3, <2>1, <2>2
<1>6. t = a \o TempName
  BY <1>4, <1>5 DEF t
<1>7. /\ t \in Text /\ Len(t) = n + 1
      /\ \A i \in 1..(n + 1) : t[i] = IF i <= n THEN s[i] ELSE TempName[i - n]
  BY <1>1, <1>2, <1>5, <1>6
<1>8. IsLastSep(t, n)
  <2>1. n \in 0..(n + 1) /\ \A i \in (n + 1)..(n + 1) : i = n + 1
    BY <1>1
  <2>2. n = 0 \/ IsSep(t[n])
    <3>1. n # 0 => n \in 1..(n + 1) /\ n <= n
      BY <1>1
    <3> QED
      BY <1>1, <1>7, <3>1
  <2>3. ~IsSep(t[n + 1])
    <3>1. n + 1 \in 1..(n + 1) /\ ~(n + 1 <= n) /\ (n + 1) - n = 1
      BY <1>1
    <3> QED
      BY <1>3, <1>7, <3>1
  <2> QED
    BY <1>7, <2>1, <2>2, <2>3 DEF IsLastSep
<1>9. LastSep(t) = n
  BY <1>7, <1>8, LastSepIs
<1>10. SubSeq(t, 1, n - 1) = SubSeq(s, 1, n - 1)
  <2>1. CASE n = 0
    <3>1. n - 1 \in Int /\ n - 1 < 1
      BY <2>1
    <3>2. SubSeq(t, 1, n - 1) = <<>> /\ SubSeq(s, 1, n - 1) = <<>>
      BY <3>1, SubSeqEmpty
    <3> QED
      BY <3>2
  <2>2. CASE n # 0
    <3>1. n - 1 \in 0..Len(s) /\ n - 1 \in 0..(n + 1) /\ \A i \in 1..(n - 1) : i \in 1..(n + 1) /\ i <= n
      BY <1>1, <2>2
    <3>2. /\ SubSeq(t, 1, n - 1) \in Text /\ Len(SubSeq(t, 1, n - 1)) = n - 1
          /\ \A i \in 1..(n - 1) : SubSeq(t, 1, n - 1)[i] = t[i]
      BY <1>7, <3>1, Prefix
    <3>3. /\ SubSeq(s, 1, n - 1) \in Text /\ Len(SubSeq(s, 1, n - 1)) = n - 1
          /\ \A i \in 1..(n - 1) : SubSeq(s, 1, n - 1)[i] = s[i]
      BY <3>1, Prefix
    <3>4. \A i \in 1..(n - 1) : SubSeq(t, 1, n - 1)[i] = SubSeq(s, 1, n - 1)[i]
      BY <1>7, <3>1, <3>2, <3>3
    <3> QED
      BY <3>2, <3>3, <3>4, SameText
  <2> QED
    BY <2>1, <2>2
<1> QED
  BY <1>9, <1>10 DEF n, t

\* The directories that are made: the one a file lies in, and all above.
LEMMA ParentsMade ==
    ASSUME NEW s \in Text
    PROVE  /\ LastSep(s) > 3 => SubSeq(s, 1, LastSep(s) - 1) \in ensure_parent_dirs(s)
           /\ \A d \in ensure_parent_dirs(s) :
                LastSep(d) > 3 => SubSeq(d, 1, LastSep(d) - 1) \in ensure_parent_dirs(s)
<1>1. Len(s) \in Nat /\ DOMAIN s = 1..Len(s)
  BY Elements DEF Text
<1>2. ASSUME NEW n \in 1..Len(s), n > 3, IsSep(s[n])
      PROVE  SubSeq(s, 1, n - 1) \in ensure_parent_dirs(s)
  <2>1. n - 1 > 2
    BY <1>1, <1>2
  <2> QED
    BY <1>1, <1>2, <2>1 DEF ensure_parent_dirs
<1>3. LastSep(s) > 3 => SubSeq(s, 1, LastSep(s) - 1) \in ensure_parent_dirs(s)
  <2> SUFFICES ASSUME LastSep(s) > 3 PROVE SubSeq(s, 1, LastSep(s) - 1) \in ensure_parent_dirs(s)
    OBVIOUS
  <2>1. LastSep(s) \in 0..Len(s) /\ (LastSep(s) = 0 \/ IsSep(s[LastSep(s)]))
    BY LastSepOf DEF IsLastSep
  <2>2. LastSep(s) \in 1..Len(s) /\ IsSep(s[LastSep(s)])
    BY <1>1, <2>1
  <2> QED
    BY <1>2, <2>2
<1>4. ASSUME NEW d \in ensure_parent_dirs(s), LastSep(d) > 3
      PROVE  SubSeq(d, 1, LastSep(d) - 1) \in ensure_parent_dirs(s)
  <2> DEFINE n == LastSep(d)
  <2>1. PICK j \in 1..Len(s) : d = SubSeq(s, 1, j - 1) /\ j - 1 > 2
    BY <1>1 DEF ensure_parent_dirs
  <2>2. j - 1 \in 0..Len(s)
    BY <1>1, <2>1
  <2>3. d \in Text /\ Len(d) = j - 1 /\ \A i \in 1..(j - 1) : d[i] = s[i]
    BY <2>1, <2>2, Prefix
  <2>4. n \in 0..(j - 1) /\ (n = 0 \/ IsSep(d[n])) /\ n > 3
    BY <1>4, <2>3, LastSepOf DEF IsLastSep
  <2> HIDE DEF n
  <2>5. /\ n \in 1..(j - 1) /\ n \in 1..Len(s) /\ n - 1 \in 0..(j - 1)
        /\ IsSep(s[n])
    <3>1. n \in 1..(j - 1) /\ n \in 1..Len(s) /\ n - 1 \in 0..(j - 1) /\ n # 0
      BY <1>1, <2>2, <2>4
    <3> QED
      BY <2>3, <2>4, <3>1
  <2>6. SubSeq(d, 1, n - 1) = SubSeq(s, 1, n - 1)
    BY <2>1, <2>2, <2>5, PrefixOfPrefix
  <2>7. SubSeq(s, 1, n - 1) \in ensure_parent_dirs(s)
    BY <1>2, <2>4, <2>5
  <2> QED
    BY <2>6, <2>7 DEF n
<1> QED
  BY <1>3, <1>4

\* A path with a directory of the protocol in it lies below that directory.
LEMMA PlaceHasDir ==
    ASSUME NEW r, Folder(r), NEW p \in Text, Len(p) >= 2, p[2] = Slash
    PROVE  LastSep(Place(r, p)) > 3
<1> DEFINE b == Bared(r)
           open == b \o <<Back>>
           t == Local(p)
           s == Place(r, p)
           n == Len(b)
           k == Len(p)
<1>1. b \in Text /\ n \in Nat /\ n >= 2
  BY BaredOf
<1>2. k \in Nat /\ k >= 2 /\ DOMAIN p = 1..k
  BY Elements DEF Text
<1>3. t \in Text /\ Len(t) = k
  BY LocalText
<1>4. open \in Text /\ Len(open) = n + 1
  BY <1>1, OneSep, Joined
<1>5. s = open \o t
  BY DEF Place
<1>6. t[2] = Back
  <2>1. 2 \in 1..k
    BY <1>2
  <2> QED
    BY <1>2, <2>1 DEF Local
<1> HIDE DEF b, open, t, s, n, k
<1>7. /\ s \in Text /\ Len(s) = n + 1 + k
      /\ \A i \in 1..(n + 1 + k) : s[i] = IF i <= n + 1 THEN open[i] ELSE t[i - (n + 1)]
  <2>1. /\ open \o t \in Text /\ Len(open \o t) = Len(open) + Len(t)
        /\ \A i \in 1..(Len(open) + Len(t)) :
             (open \o t)[i] = IF i <= Len(open) THEN open[i] ELSE t[i - Len(open)]
        /\ append_text(open, t) \in {open \o t, TooLong}
    BY <1>3, <1>4, <1>5, Joined
  <2>2. Len(open) + Len(t) = n + 1 + k
    BY <1>3, <1>4, <1>5
  <2> QED
    BY <1>3, <1>4, <1>5, <2>1, <2>2
<1>8. IsSep(s[n + 3])
  <2>1. n + 3 \in 1..(n + 1 + k) /\ ~(n + 3 <= n + 1) /\ (n + 3) - (n + 1) = 2
    BY <1>1, <1>2
  <2>2. s[n + 3] = Back
    BY <1>6, <1>7, <2>1
  <2> QED
    BY <2>2 DEF IsSep
<1>9. /\ LastSep(s) \in 0..(n + 1 + k)
      /\ \A i \in (LastSep(s) + 1)..(n + 1 + k) : ~IsSep(s[i])
  BY <1>7, LastSepOf DEF IsLastSep
<1>10. ~(LastSep(s) <= 3)
  <2>1. LastSep(s) <= 3 => n + 3 \in (LastSep(s) + 1)..(n + 1 + k)
    BY <1>1, <1>2, <1>9
  <2> QED
    BY <1>8, <1>9, <2>1
<1>11. LastSep(s) > 3
  BY <1>1, <1>2, <1>9, <1>10
<1> QED
  BY <1>11 DEF s

-----------------------------------------------------------------------------
(* Versions: the comparison is a loop over both texts.                     *)

Version == Seq(Token)

\* One round of the loop, with what it goes on with.
Compare(vl, vr, f, i, j) ==
    LET l == NextSpot(vl, i)
        r == NextSpot(vr, j)
    IN  IF i > Len(vl) /\ j > Len(vr) THEN 0
        ELSE IF Number(vl, i) < Number(vr, j) THEN -1
        ELSE IF Number(vl, i) > Number(vr, j) THEN 1
        ELSE IF Stops(vl, l) \/ Stops(vr, r) THEN 0 ELSE f[<<l, r>>]

IsLoop(vl, vr, f) ==
    f = [at \in Spots(vl, vr) |-> Compare(vl, vr, f, at[1], at[2])]
Loop(vl, vr) == CHOOSE f : IsLoop(vl, vr, f)

LEMMA LoopTaken ==
    ASSUME NEW vl, NEW vr
    PROVE  proto_compare_versions(vl, vr) = Loop(vl, vr)[<<1, 1>>]
BY DEF proto_compare_versions, Loop, IsLoop, Compare

\* The loop moves on in a text, or is behind it, or stops.
LEMMA SpotMoves ==
    ASSUME NEW t \in Version, NEW i \in 1..(Len(t) + 1)
    PROVE  /\ Len(t) \in Nat /\ Number(t, i) \in Nat
           /\ NextSpot(t, i) \in i..(Len(t) + 1)
           /\ i <= Len(t) /\ ~Stops(t, NextSpot(t, i)) => NextSpot(t, i) > i
<1> DEFINE n == Len(t)
           b == Behind(t, i)
<1>1. n \in Nat /\ \A k \in 1..n : t[k] \in Token
  BY Elements DEF Version
<1>2. i <= n => i \in 1..n
  BY <1>1
<1>3. Number(t, i) \in Nat
  BY <1>1, <1>2, InputsAssumption DEF Number, AtNumber, IsNumber, Token
<1> HIDE DEF n
<1>4. /\ b \in i..(n + 1)
      /\ AtNumber(t, i) => b = i + 1
      /\ ~AtNumber(t, i) => b = i
  <2>1. AtNumber(t, i) => i <= n
    BY DEF AtNumber, n
  <2>2. (i \in i..(n + 1)) /\ (i <= n => i + 1 \in i..(n + 1))
    BY <1>1 DEF n
  <2> QED
    BY <2>1, <2>2 DEF Behind
<1> HIDE DEF b
<1>5. NextSpot(t, i) = PastDot(t, b)
  BY DEF NextSpot, b
<1>6. PastDot(t, b) \in {b, b + 1} /\ (b > n => PastDot(t, b) = b)
  BY <1>1, <1>4 DEF PastDot, n
<1>7. NextSpot(t, i) \in i..(n + 1)
  BY <1>1, <1>4, <1>5, <1>6
<1>8. ASSUME i <= n, ~Stops(t, NextSpot(t, i)) PROVE NextSpot(t, i) > i
  <2>1. CASE AtNumber(t, i)
    BY <1>1, <1>4, <1>5, <1>6, <2>1
  <2>2. CASE ~AtNumber(t, i)
    <3>1. b = i /\ ~IsNumber(t[i])
      BY <1>4, <1>8, <2>2 DEF AtNumber, n
    <3>2. PastDot(t, i) # i
      BY <1>5, <1>8, <3>1 DEF Stops, n
    <3>3. PastDot(t, i) = i + 1
      BY <1>6, <3>1, <3>2
    <3> QED
      BY <1>5, <3>1, <3>3
  <2> QED
    BY <2>1, <2>2
<1> QED
  BY <1>1, <1>3, <1>7, <1>8 DEF n

\* How far the loop is from the ends of both texts.
Left(vl, vr, i, j) == (Len(vl) + 1 - i) + (Len(vr) + 1 - j)

\* A round depends on what is nearer to the ends, only.
LEMMA RoundNeeds ==
    ASSUME NEW vl \in Version, NEW vr \in Version,
           NEW i \in 1..(Len(vl) + 1), NEW j \in 1..(Len(vr) + 1)
    PROVE  LET l == NextSpot(vl, i)
               r == NextSpot(vr, j)
           IN  /\ l \in 1..(Len(vl) + 1) /\ r \in 1..(Len(vr) + 1)
               /\ \/ Left(vl, vr, l, r) < Left(vl, vr, i, j)
                  \/ i > Len(vl) /\ j > Len(vr)
                  \/ Stops(vl, l) \/ Stops(vr, r)
               /\ Left(vl, vr, i, j) \in 0..(Len(vl) + Len(vr))
<1> DEFINE n == Len(vl)
           m == Len(vr)
           l == NextSpot(vl, i)
           r == NextSpot(vr, j)
<1>1. /\ n \in Nat /\ l \in i..(n + 1)
      /\ i <= n /\ ~Stops(vl, l) => l > i
  BY SpotMoves
<1>2. /\ m \in Nat /\ r \in j..(m + 1)
      /\ j <= m /\ ~Stops(vr, r) => r > j
  BY SpotMoves
<1>3. i \in 1..(n + 1) /\ j \in 1..(m + 1)
  OBVIOUS
<1>4. /\ Left(vl, vr, l, r) = (n + 1 - l) + (m + 1 - r)
      /\ Left(vl, vr, i, j) = (n + 1 - i) + (m + 1 - j)
  BY DEF Left
<1> HIDE DEF n, m, l, r
<1>5. l \in 1..(n + 1) /\ r \in 1..(m + 1)
  BY <1>1, <1>2, <1>3
<1>6. Left(vl, vr, i, j) \in 0..(n + m)
  BY <1>1, <1>2, <1>3, <1>4
<1>7. ASSUME ~(i > n /\ j > m), ~Stops(vl, l), ~Stops(vr, r)
      PROVE  Left(vl, vr, l, r) < Left(vl, vr, i, j)
  <2>1. l > i \/ r > j
    BY <1>1, <1>2, <1>3, <1>7
  <2> QED
    BY <1>1, <1>2, <1>3, <1>4, <2>1
<1> QED
  BY <1>5, <1>6, <1>7 DEF n, m, l, r

LEMMA SpotsOf ==
    ASSUME NEW vl, NEW vr
    PROVE  /\ \A i \in 1..(Len(vl) + 1), j \in 1..(Len(vr) + 1) : <<i, j>> \in Spots(vl, vr)
           /\ \A at \in Spots(vl, vr) :
                /\ at[1] \in 1..(Len(vl) + 1) /\ at[2] \in 1..(Len(vr) + 1)
                /\ at = <<at[1], at[2]>>
BY DEF Spots

LEMMA RoundTypes ==
    ASSUME NEW vl \in Version, NEW vr \in Version, NEW f \in [Spots(vl, vr) -> Int],
           NEW i \in 1..(Len(vl) + 1), NEW j \in 1..(Len(vr) + 1)
    PROVE  Compare(vl, vr, f, i, j) \in Int
<1> DEFINE l == NextSpot(vl, i)
           r == NextSpot(vr, j)
<1>1. <<l, r>> \in Spots(vl, vr)
  BY RoundNeeds, SpotsOf
<1>2. f[<<l, r>>] \in Int
  BY <1>1
<1> QED
  BY <1>2 DEF Compare

\* The loop's function exists: by induction over the distance to the ends.
Holds(vl, vr, f, k) ==
    \A i \in 1..(Len(vl) + 1), j \in 1..(Len(vr) + 1) :
        Left(vl, vr, i, j) <= k => f[<<i, j>>] = Compare(vl, vr, f, i, j)

LEMMA LoopFurther ==
    ASSUME NEW vl \in Version, NEW vr \in Version, NEW f \in [Spots(vl, vr) -> Int],
           NEW k \in Int, Holds(vl, vr, f, k)
    PROVE  \E g \in [Spots(vl, vr) -> Int] : Holds(vl, vr, g, k + 1)
<1> DEFINE S == Spots(vl, vr)
           g == [at \in S |-> Compare(vl, vr, f, at[1], at[2])]
<1>1. g \in [S -> Int]
  BY RoundTypes, SpotsOf
<1>2. ASSUME NEW i \in 1..(Len(vl) + 1), NEW j \in 1..(Len(vr) + 1)
      PROVE  g[<<i, j>>] = Compare(vl, vr, f, i, j)
  BY SpotsOf
<1> HIDE DEF g
<1>3. ASSUME NEW i \in 1..(Len(vl) + 1), NEW j \in 1..(Len(vr) + 1),
             Left(vl, vr, i, j) <= k + 1
      PROVE  g[<<i, j>>] = Compare(vl, vr, g, i, j)
  <2> DEFINE l == NextSpot(vl, i)
             r == NextSpot(vr, j)
  <2>1. /\ l \in 1..(Len(vl) + 1) /\ r \in 1..(Len(vr) + 1)
        /\ \/ Left(vl, vr, l, r) < Left(vl, vr, i, j)
           \/ i > Len(vl) /\ j > Len(vr)
           \/ Stops(vl, l) \/ Stops(vr, r)
        /\ Left(vl, vr, i, j) \in Int
    BY RoundNeeds
  <2>2. Left(vl, vr, l, r) \in Int
    <3>1. LET l2 == NextSpot(vl, l)
              r2 == NextSpot(vr, r)
          IN  Left(vl, vr, l, r) \in 0..(Len(vl) + Len(vr))
      BY <2>1, RoundNeeds
    <3> QED
      BY <3>1
  <2> HIDE DEF l, r
  <2>3. Left(vl, vr, l, r) < Left(vl, vr, i, j) => g[<<l, r>>] = f[<<l, r>>]
    <3> SUFFICES ASSUME Left(vl, vr, l, r) < Left(vl, vr, i, j)
                 PROVE  g[<<l, r>>] = f[<<l, r>>]
      OBVIOUS
    <3>1. Left(vl, vr, l, r) <= k
      BY <1>3, <2>1, <2>2
    <3>2. f[<<l, r>>] = Compare(vl, vr, f, l, r)
      BY <2>1, <3>1 DEF Holds
    <3> QED
      BY <1>2, <2>1, <3>2
  <2>4. Compare(vl, vr, g, i, j) = Compare(vl, vr, f, i, j)
    BY <2>1, <2>3, Zenon DEF Compare, l, r
  <2> QED
    BY <1>2, <2>4
<1>4. Holds(vl, vr, g, k + 1)
  BY <1>3 DEF Holds
<1> QED
  BY <1>1, <1>4

LEMMA LoopExists ==
    ASSUME NEW vl \in Version, NEW vr \in Version
    PROVE  \A i \in 1..(Len(vl) + 1), j \in 1..(Len(vr) + 1) :
             Loop(vl, vr)[<<i, j>>] = Compare(vl, vr, Loop(vl, vr), i, j)
<1> DEFINE N == Len(vl) + Len(vr)
           F == [Spots(vl, vr) -> Int]
           S == {k \in 0..N : \E f \in F : Holds(vl, vr, f, k)}
<1>1. Len(vl) \in Nat /\ Len(vr) \in Nat /\ N \in Nat
  BY Elements DEF Version
<1>2. 0 \in S
  <2> DEFINE f == [at \in Spots(vl, vr) |-> 0]
  <2>1. f \in F
    OBVIOUS
  <2>2. ASSUME NEW i \in 1..(Len(vl) + 1), NEW j \in 1..(Len(vr) + 1),
               Left(vl, vr, i, j) <= 0
        PROVE  f[<<i, j>>] = Compare(vl, vr, f, i, j)
    <3>1. i > Len(vl) /\ j > Len(vr)
      BY <1>1, <2>2 DEF Left
    <3>2. f[<<i, j>>] = 0
      BY SpotsOf
    <3> QED
      BY <3>1, <3>2 DEF Compare
  <2> HIDE DEF f
  <2>3. Holds(vl, vr, f, 0)
    BY <2>2 DEF Holds
  <2> QED
    BY <1>1, <2>1, <2>3
<1>3. ASSUME NEW k \in 0..N, k \in S, k < N PROVE k + 1 \in S
  <2>1. PICK f \in F : Holds(vl, vr, f, k)
    BY <1>3
  <2>2. \E g \in F : Holds(vl, vr, g, k + 1)
    BY <2>1, LoopFurther
  <2>3. k + 1 \in 0..N
    BY <1>1, <1>3
  <2> QED
    BY <2>2, <2>3
<1>4. 0..N \subseteq S
  <2> HIDE DEF S, N
  <2> QED
    BY <1>1, <1>2, <1>3, UpTo
<1>5. PICK f \in F : Holds(vl, vr, f, N)
  <2>1. N \in S
    BY <1>1, <1>4
  <2> QED
    BY <2>1
<1>6. ASSUME NEW i \in 1..(Len(vl) + 1), NEW j \in 1..(Len(vr) + 1)
      PROVE  f[<<i, j>>] = Compare(vl, vr, f, i, j)
  <2>1. Left(vl, vr, i, j) <= N
    BY <1>1, RoundNeeds
  <2> QED
    BY <1>5, <2>1 DEF Holds
<1>7. IsLoop(vl, vr, f)
  <2>1. \A at \in Spots(vl, vr) : f[at] = Compare(vl, vr, f, at[1], at[2])
    BY <1>6, SpotsOf
  <2> QED
    BY <2>1 DEF IsLoop
<1>8. IsLoop(vl, vr, Loop(vl, vr))
  BY <1>7 DEF Loop
<1> DEFINE c == Loop(vl, vr)
<1>9. c = [at \in Spots(vl, vr) |-> Compare(vl, vr, c, at[1], at[2])]
  BY <1>8 DEF IsLoop
<1> HIDE DEF c
<1>10. \A i \in 1..(Len(vl) + 1), j \in 1..(Len(vr) + 1) :
         c[<<i, j>>] = Compare(vl, vr, c, i, j)
  BY <1>9, SpotsOf
<1> QED
  BY <1>10 DEF c

\* The two comparisons of two texts are opposite, from any two spots on.
Opposite(vl, vr, k) ==
    \A i \in 1..(Len(vl) + 1), j \in 1..(Len(vr) + 1) :
        Left(vl, vr, i, j) <= k =>
          Loop(vl, vr)[<<i, j>>] \in {-1, 0, 1}
          /\ Loop(vr, vl)[<<j, i>>] = -Loop(vl, vr)[<<i, j>>]

LEMMA OppositeFurther ==
    ASSUME NEW vl \in Version, NEW vr \in Version, NEW k \in Int, Opposite(vl, vr, k)
    PROVE  Opposite(vl, vr, k + 1)
<1> SUFFICES ASSUME NEW i \in 1..(Len(vl) + 1), NEW j \in 1..(Len(vr) + 1),
                    Left(vl, vr, i, j) <= k + 1
             PROVE  /\ Loop(vl, vr)[<<i, j>>] \in {-1, 0, 1}
                    /\ Loop(vr, vl)[<<j, i>>] = -Loop(vl, vr)[<<i, j>>]
  BY DEF Opposite
<1> DEFINE c == Loop(vl, vr)
           e == Loop(vr, vl)
           l == NextSpot(vl, i)
           r == NextSpot(vr, j)
           a == Number(vl, i)
           b == Number(vr, j)
<1>0. \A x, y : (x = 0 /\ y = 0) \/ (x = -1 /\ y = 1) \/ (x = 1 /\ y = -1) =>
        x \in {-1, 0, 1} /\ y = -x
  OBVIOUS
<1>1. /\ c[<<i, j>>] = Compare(vl, vr, c, i, j)
      /\ e[<<j, i>>] = Compare(vr, vl, e, j, i)
  BY LoopExists
<1>2. /\ l \in 1..(Len(vl) + 1) /\ r \in 1..(Len(vr) + 1)
      /\ \/ Left(vl, vr, l, r) < Left(vl, vr, i, j)
         \/ i > Len(vl) /\ j > Len(vr)
         \/ Stops(vl, l) \/ Stops(vr, r)
      /\ Left(vl, vr, i, j) \in Int
  BY RoundNeeds
<1>3. Left(vl, vr, l, r) \in Int
  <2>1. LET l2 == NextSpot(vl, l)
            r2 == NextSpot(vr, r)
        IN  Left(vl, vr, l, r) \in 0..(Len(vl) + Len(vr))
    BY <1>2, RoundNeeds
  <2> QED
    BY <2>1
<1>4. a \in Nat /\ b \in Nat
  BY SpotMoves
<1>5. /\ Compare(vl, vr, c, i, j) =
            IF i > Len(vl) /\ j > Len(vr) THEN 0
            ELSE IF a < b THEN -1 ELSE IF a > b THEN 1
            ELSE IF Stops(vl, l) \/ Stops(vr, r) THEN 0 ELSE c[<<l, r>>]
      /\ Compare(vr, vl, e, j, i) =
            IF j > Len(vr) /\ i > Len(vl) THEN 0
            ELSE IF b < a THEN -1 ELSE IF b > a THEN 1
            ELSE IF Stops(vr, r) \/ Stops(vl, l) THEN 0 ELSE e[<<r, l>>]
  BY DEF Compare
<1> HIDE DEF c, e, l, r, a, b
<1>6. Left(vl, vr, l, r) < Left(vl, vr, i, j) =>
        c[<<l, r>>] \in {-1, 0, 1} /\ e[<<r, l>>] = -c[<<l, r>>]
  <2> SUFFICES ASSUME Left(vl, vr, l, r) < Left(vl, vr, i, j)
               PROVE  c[<<l, r>>] \in {-1, 0, 1} /\ e[<<r, l>>] = -c[<<l, r>>]
    OBVIOUS
  <2>1. Left(vl, vr, l, r) <= k
    BY <1>2, <1>3
  <2> QED
    BY <1>2, <2>1 DEF Opposite, c, e
<1>7. CASE (i > Len(vl) /\ j > Len(vr)) \/ a # b
  <2>1. \/ c[<<i, j>>] = 0 /\ e[<<j, i>>] = 0
        \/ c[<<i, j>>] = -1 /\ e[<<j, i>>] = 1
        \/ c[<<i, j>>] = 1 /\ e[<<j, i>>] = -1
    BY <1>1, <1>4, <1>5, <1>7
  <2>2. c[<<i, j>>] \in {-1, 0, 1} /\ e[<<j, i>>] = -c[<<i, j>>]
    BY <1>0, <2>1
  <2> QED
    BY <2>2 DEF c, e
<1>8. CASE ~(i > Len(vl) /\ j > Len(vr)) /\ a = b /\ (Stops(vl, l) \/ Stops(vr, r))
  <2>1. c[<<i, j>>] = 0 /\ e[<<j, i>>] = 0
    BY <1>1, <1>4, <1>5, <1>8
  <2>2. c[<<i, j>>] \in {-1, 0, 1} /\ e[<<j, i>>] = -c[<<i, j>>]
    BY <1>0, <2>1
  <2> QED
    BY <2>2 DEF c, e
<1>9. CASE ~(i > Len(vl) /\ j > Len(vr)) /\ a = b /\ ~(Stops(vl, l) \/ Stops(vr, r))
  <2>1. c[<<i, j>>] = c[<<l, r>>] /\ e[<<j, i>>] = e[<<r, l>>]
    BY <1>1, <1>4, <1>5, <1>9
  <2>2. c[<<l, r>>] \in {-1, 0, 1} /\ e[<<r, l>>] = -c[<<l, r>>]
    BY <1>2, <1>6, <1>9
  <2> QED
    BY <2>1, <2>2 DEF c, e
<1> QED
  BY <1>7, <1>8, <1>9

LEMMA VersionsOpposite ==
    ASSUME NEW vl \in Version, NEW vr \in Version
    PROVE  proto_compare_versions(vl, vr) = -proto_compare_versions(vr, vl)
<1> DEFINE N == Len(vl) + Len(vr)
           S == {k \in 0..N : Opposite(vl, vr, k)}
<1>1. Len(vl) \in Nat /\ Len(vr) \in Nat /\ N \in Nat
  BY Elements DEF Version
<1>2. 0 \in S
  <2>1. Opposite(vl, vr, -1)
    <3>1. ASSUME NEW i \in 1..(Len(vl) + 1), NEW j \in 1..(Len(vr) + 1)
          PROVE  ~(Left(vl, vr, i, j) <= -1)
      BY <1>1 DEF Left
    <3> QED
      BY <3>1 DEF Opposite
  <2>2. Opposite(vl, vr, -1 + 1)
    BY <2>1, OppositeFurther
  <2> QED
    BY <1>1, <2>2
<1>3. ASSUME NEW k \in 0..N, k \in S, k < N PROVE k + 1 \in S
  BY <1>1, <1>3, OppositeFurther
<1>4. 0..N \subseteq S
  <2> HIDE DEF S, N
  <2> QED
    BY <1>1, <1>2, <1>3, UpTo
<1>5. Opposite(vl, vr, N)
  BY <1>1, <1>4
<1>6. 1 \in 1..(Len(vl) + 1) /\ 1 \in 1..(Len(vr) + 1) /\ Left(vl, vr, 1, 1) <= N
  BY <1>1 DEF Left
<1> HIDE DEF N
<1>7. /\ Loop(vl, vr)[<<1, 1>>] \in {-1, 0, 1}
      /\ Loop(vr, vl)[<<1, 1>>] = -Loop(vl, vr)[<<1, 1>>]
  BY <1>5, <1>6 DEF Opposite
<1>8. \A x, y : x \in {-1, 0, 1} /\ y = -x => x = -y
  OBVIOUS
<1> QED
  BY <1>7, <1>8, LoopTaken

\* The n-th number of a release stands at an odd place, or is missing.
Spot(t, n) == IF 2 * n - 1 <= Len(t) THEN 2 * n - 1 ELSE Len(t) + 1

LEMMA ReleaseSpot ==
    ASSUME NEW t \in Version, IsRelease(t), NEW n \in Nat \ {0}
    PROVE  /\ Spot(t, n) \in 1..(Len(t) + 1)
           /\ Spot(t, n) > Len(t) <=> 2 * n - 1 > Len(t)
           /\ Number(t, Spot(t, n)) = Part(t, n)
           /\ Part(t, n) \in Nat /\ (2 * n - 1 > Len(t) => Part(t, n) = 0)
           /\ NextSpot(t, Spot(t, n)) = Spot(t, n + 1)
           /\ ~Stops(t, Spot(t, n + 1))
<1> DEFINE l == Len(t)
           p == 2 * n - 1
<1>1. /\ l \in Nat /\ DOMAIN t = 1..l
      /\ \A i \in 1..l : IF i % 2 = 1 THEN IsNumber(t[i]) ELSE t[i] = Point
      /\ t # <<>> /\ IsNumber(t[l])
      /\ \A i \in 1..l : t[i] \in Token
  BY Elements DEF Version, IsRelease, Last
<1>2. p \in Nat /\ p >= 1 /\ p % 2 = 1 /\ (p + 1) % 2 = 0 /\ (p + 2) % 2 = 1
  OBVIOUS
<1>3. 2 * (n + 1) - 1 = p + 2
  OBVIOUS
<1>4. /\ Spot(t, n) = IF p <= l THEN p ELSE l + 1
      /\ Spot(t, n + 1) = IF p + 2 <= l THEN p + 2 ELSE l + 1
      /\ Part(t, n) = IF p \in 1..l THEN t[p] ELSE 0
  BY <1>1, <1>3 DEF Spot, Part
<1> HIDE DEF l, p
<1>5. ASSUME p <= l PROVE IsNumber(t[p]) /\ t[p] \in Nat /\ p \in 1..l
  <2>1. p \in 1..l
    BY <1>1, <1>2, <1>5
  <2>2. IsNumber(t[p]) /\ t[p] \in Token
    BY <1>1, <1>2, <2>1
  <2>3. t[p] \in Nat
    BY <2>2, InputsAssumption DEF Token, IsNumber
  <2> QED
    BY <2>1, <2>2, <2>3
<1>6. CASE ~(p <= l)
  <2>1. Spot(t, n) = l + 1 /\ Spot(t, n + 1) = l + 1 /\ Part(t, n) = 0 /\ p > l
        /\ ~(l + 1 <= l) /\ l + 1 \in 1..(l + 1) /\ l + 1 > l
    BY <1>1, <1>2, <1>4, <1>6
  <2>2. /\ ~AtNumber(t, l + 1) /\ Behind(t, l + 1) = l + 1 /\ PastDot(t, l + 1) = l + 1
        /\ ~Stops(t, l + 1) /\ Number(t, l + 1) = 0
    BY <2>1 DEF AtNumber, Behind, PastDot, Stops, Number, l
  <2> QED
    BY <2>1, <2>2 DEF NextSpot, l, p
<1>7. CASE p <= l
  <2>1. AtNumber(t, p) /\ Behind(t, p) = p + 1 /\ Number(t, p) = t[p]
    BY <1>5, <1>7 DEF AtNumber, Behind, Number, l
  <2>2. /\ Spot(t, n) = p /\ Part(t, n) = t[p] /\ p \in 1..(l + 1) /\ ~(p > l)
        /\ t[p] \in Nat
    BY <1>1, <1>4, <1>5, <1>7
  <2>3. CASE p + 1 <= l
    <3>1. p + 1 \in 1..l /\ ~((p + 1) % 2 = 1)
      BY <1>2, <2>3, <1>1
    <3>2. t[p + 1] = Point
      BY <1>1, <3>1
    <3>3. p + 1 # l
      BY <1>1, <3>2 DEF IsNumber
    <3>4. p + 2 \in 1..l /\ p + 2 <= l /\ (p + 1) + 1 = p + 2
      BY <1>1, <1>2, <2>3, <3>3
    <3>5. PastDot(t, p + 1) = p + 2
      BY <2>3, <3>2, <3>4 DEF PastDot, l
    <3>6. IsNumber(t[p + 2])
      BY <1>1, <1>2, <3>4
    <3>7. ~Stops(t, p + 2) /\ Spot(t, n + 1) = p + 2
      BY <1>4, <3>4, <3>6 DEF Stops
    <3> QED
      BY <2>1, <2>2, <3>5, <3>7 DEF NextSpot, l, p
  <2>4. CASE ~(p + 1 <= l)
    <3>1. p = l /\ Spot(t, n + 1) = l + 1 /\ ~(l + 1 <= l)
      BY <1>1, <1>2, <1>4, <1>7, <2>4
    <3>2. PastDot(t, l + 1) = l + 1 /\ ~Stops(t, l + 1)
      BY <3>1 DEF PastDot, Stops, l
    <3> QED
      BY <2>1, <2>2, <3>1, <3>2 DEF NextSpot, l, p
  <2> QED
    BY <2>3, <2>4
<1> QED
  BY <1>6, <1>7

\* As long as the numbers are equal, the loop stands before the next ones.
LEMMA EqualSoFar ==
    ASSUME NEW vl \in Version, NEW vr \in Version, IsRelease(vl), IsRelease(vr),
           NEW k \in Nat, \A i \in 1..k : Part(vl, i) = Part(vr, i)
    PROVE  proto_compare_versions(vl, vr) =
             Loop(vl, vr)[<<Spot(vl, k + 1), Spot(vr, k + 1)>>]
<1> DEFINE c == Loop(vl, vr)
           At(n) == c[<<Spot(vl, n), Spot(vr, n)>>]
           S == {n \in 0..k : c[<<1, 1>>] = At(n + 1)}
<1>1. Spot(vl, 1) = 1 /\ Spot(vr, 1) = 1
  <2>1. ASSUME NEW t \in Version PROVE Spot(t, 1) = 1
    <3>1. Len(t) \in Nat /\ 2 * 1 - 1 = 1
      BY Elements DEF Version
    <3>2. ~(1 <= Len(t)) => Len(t) + 1 = 1
      BY <3>1
    <3> QED
      BY <3>1, <3>2 DEF Spot
  <2> QED
    BY <2>1
<1>2. 0 \in S
  BY <1>1
<1>3. ASSUME NEW n \in 0..k, n < k PROVE At(n + 1) = At(n + 2)
  <2> DEFINE i == Spot(vl, n + 1)
             j == Spot(vr, n + 1)
             l == Spot(vl, n + 2)
             r == Spot(vr, n + 2)
  <2>1. n + 1 \in Nat \ {0} /\ n + 1 \in 1..k /\ (n + 1) + 1 = n + 2
    BY <1>3
  <2>2. /\ i \in 1..(Len(vl) + 1) /\ Number(vl, i) = Part(vl, n + 1)
        /\ Part(vl, n + 1) \in Nat
        /\ NextSpot(vl, i) = l /\ ~Stops(vl, l)
        /\ i > Len(vl) => l = i
    <3>1. /\ i \in 1..(Len(vl) + 1) /\ Number(vl, i) = Part(vl, n + 1)
          /\ Part(vl, n + 1) \in Nat
          /\ NextSpot(vl, i) = l /\ ~Stops(vl, l)
      BY <2>1, ReleaseSpot
    <3>2. Len(vl) \in Nat /\ NextSpot(vl, i) \in i..(Len(vl) + 1)
      BY <3>1, SpotMoves
    <3>3. i > Len(vl) => l = i
      BY <3>1, <3>2
    <3> QED
      BY <3>1, <3>3
  <2>3. /\ j \in 1..(Len(vr) + 1) /\ Number(vr, j) = Part(vr, n + 1)
        /\ NextSpot(vr, j) = r /\ ~Stops(vr, r)
        /\ j > Len(vr) => r = j
    <3>1. /\ j \in 1..(Len(vr) + 1) /\ Number(vr, j) = Part(vr, n + 1)
          /\ NextSpot(vr, j) = r /\ ~Stops(vr, r)
      BY <2>1, ReleaseSpot
    <3>2. Len(vr) \in Nat /\ NextSpot(vr, j) \in j..(Len(vr) + 1)
      BY <3>1, SpotMoves
    <3>3. j > Len(vr) => r = j
      BY <3>1, <3>2
    <3> QED
      BY <3>1, <3>3
  <2>4. c[<<i, j>>] = Compare(vl, vr, c, i, j)
    <3> HIDE DEF i, j
    <3> QED
      BY <2>2, <2>3, LoopExists
  <2>5. Part(vl, n + 1) = Part(vr, n + 1)
    BY <2>1
  <2> HIDE DEF i, j, l, r, c
  <2>6. CASE i > Len(vl) /\ j > Len(vr)
    <3>1. c[<<i, j>>] = c[<<l, r>>]
      BY <2>2, <2>3, <2>6
    <3> QED
      BY <3>1 DEF i, j, l, r
  <2>7. CASE ~(i > Len(vl) /\ j > Len(vr))
    <3>1. Number(vl, i) \in Nat /\ Number(vr, j) = Number(vl, i)
      BY <2>2, <2>3, <2>5
    <3>2. ~(Number(vl, i) < Number(vr, j)) /\ ~(Number(vl, i) > Number(vr, j))
      BY <3>1
    <3>3. c[<<i, j>>] = c[<<l, r>>]
      BY <2>2, <2>3, <2>4, <2>7, <3>2 DEF Compare
    <3> QED
      BY <3>3 DEF i, j, l, r
  <2> QED
    BY <2>6, <2>7
<1>4. ASSUME NEW n \in 0..k, n \in S, n < k PROVE n + 1 \in S
  <2>1. At(n + 1) = At(n + 2) /\ c[<<1, 1>>] = At(n + 1)
    BY <1>3, <1>4
  <2>2. n + 1 \in 0..k /\ (n + 1) + 1 = n + 2
    BY <1>4
  <2> HIDE DEF At, c
  <2> QED
    BY <2>1, <2>2
<1>5. 0..k \subseteq S
  <2> HIDE DEF S
  <2> QED
    BY <1>2, <1>4, UpTo
<1>6. k \in S
  BY <1>5
<1>7. c[<<1, 1>>] = At(k + 1)
  <2> HIDE DEF At, c
  <2> QED
    BY <1>6
<1> QED
  BY <1>7, LoopTaken

LEMMA ReleasesOrdered ==
    ASSUME NEW vl \in Version, NEW vr \in Version, IsRelease(vl), IsRelease(vr),
           Len(vl) <= MaxVersion, Len(vr) <= MaxVersion
    PROVE  proto_compare_versions(vl, vr) = Compared(vl, vr)
<1> DEFINE c == Loop(vl, vr)
           D == {i \in 1..MaxVersion : Part(vl, i) # Part(vr, i)}
<1>1. MaxVersion \in Nat /\ Len(vl) \in Nat /\ Len(vr) \in Nat
  BY InputsAssumption, Elements DEF Version
<1>2. Compared(vl, vr) =
        IF D = {} THEN 0 ELSE IF Part(vl, Min(D)) < Part(vr, Min(D)) THEN -1 ELSE 1
  BY DEF Compared
<1>3. CASE D = {}
  <2> DEFINE n == MaxVersion + 1
             i == Spot(vl, n)
             j == Spot(vr, n)
  <2>1. \A k \in 1..MaxVersion : Part(vl, k) = Part(vr, k)
    BY <1>3
  <2>2. proto_compare_versions(vl, vr) = c[<<i, j>>]
    BY <1>1, <2>1, EqualSoFar
  <2>3. n \in Nat \ {0} /\ 2 * n - 1 > Len(vl) /\ 2 * n - 1 > Len(vr)
    BY <1>1
  <2> HIDE DEF n
  <2>4. i \in 1..(Len(vl) + 1) /\ i > Len(vl)
    BY <2>3, ReleaseSpot
  <2>5. j \in 1..(Len(vr) + 1) /\ j > Len(vr)
    BY <2>3, ReleaseSpot
  <2> HIDE DEF i, j
  <2>6. c[<<i, j>>] = Compare(vl, vr, c, i, j)
    BY <2>4, <2>5, LoopExists
  <2>7. c[<<i, j>>] = 0
    BY <2>4, <2>5, <2>6 DEF Compare
  <2> QED
    BY <1>2, <1>3, <2>2, <2>7
<1>4. CASE D # {}
  <2> DEFINE d == Min(D)
             i == Spot(vl, d)
             j == Spot(vr, d)
  <2>1. \E x \in D : \A y \in D : x <= y
    <3>1. D \subseteq Nat
      BY <1>1
    <3> HIDE DEF D
    <3> QED
      BY <1>4, <3>1, Smallest
  <2>2. d \in D /\ \A y \in D : d <= y
    <3> HIDE DEF D
    <3> QED
      BY <2>1 DEF Min
  <2>3. d \in 1..MaxVersion /\ Part(vl, d) # Part(vr, d)
    BY <2>2
  <2>4. \A k \in 1..(d - 1) : Part(vl, k) = Part(vr, k)
    <3> SUFFICES ASSUME NEW k \in 1..(d - 1) PROVE Part(vl, k) = Part(vr, k)
      OBVIOUS
    <3>1. k \in 1..MaxVersion /\ ~(d <= k)
      BY <1>1, <2>3
    <3>2. k \notin D
      BY <2>2, <3>1
    <3> QED
      BY <3>1, <3>2
  <2> HIDE DEF d, D
  <2>5. d - 1 \in Nat /\ (d - 1) + 1 = d /\ d \in Nat \ {0}
    BY <1>1, <2>3
  <2>6. proto_compare_versions(vl, vr) = c[<<i, j>>]
    <3>1. proto_compare_versions(vl, vr) =
            Loop(vl, vr)[<<Spot(vl, (d - 1) + 1), Spot(vr, (d - 1) + 1)>>]
      BY <2>4, <2>5, EqualSoFar
    <3> QED
      BY <2>5, <3>1
  <2>7. /\ i \in 1..(Len(vl) + 1) /\ Number(vl, i) = Part(vl, d) /\ Part(vl, d) \in Nat
        /\ i > Len(vl) => Part(vl, d) = 0
    BY <2>5, ReleaseSpot
  <2>8. /\ j \in 1..(Len(vr) + 1) /\ Number(vr, j) = Part(vr, d) /\ Part(vr, d) \in Nat
        /\ j > Len(vr) => Part(vr, d) = 0
    BY <2>5, ReleaseSpot
  <2> HIDE DEF i, j
  <2>9. c[<<i, j>>] = Compare(vl, vr, c, i, j)
    BY <2>7, <2>8, LoopExists
  <2>10. ~(i > Len(vl) /\ j > Len(vr))
    BY <2>3, <2>7, <2>8
  <2>11. c[<<i, j>>] = IF Part(vl, d) < Part(vr, d) THEN -1 ELSE 1
    <3>1. Part(vl, d) < Part(vr, d) \/ Part(vl, d) > Part(vr, d)
      BY <2>3, <2>7, <2>8
    <3> QED
      BY <2>7, <2>8, <2>9, <2>10, <3>1 DEF Compare
  <2> QED
    BY <1>2, <1>4, <2>6, <2>11 DEF d
<1> QED
  BY <1>3, <1>4

-----------------------------------------------------------------------------
(* The calendar: both conversions count days from 1 March of the year 0.   *)

\* Of 400 years the first 300 and the last 100, of those the groups of four.
YearParts(a, e, c, q, k) ==
    /\ e \in Nat /\ c \in 0..3 /\ q \in 0..24 /\ k \in 0..3
    /\ a = 400 * e + 100 * c + 4 * q + k

LEMMA YearInParts ==
    ASSUME NEW a \in Nat PROVE \E e, c, q, k : YearParts(a, e, c, q, k)
<1> DEFINE e == a \div 400
           y == a - 400 * e
           c == y \div 100
           z == y - 100 * c
           q == z \div 4
           k == z - 4 * q
<1>1. e \in Nat /\ y \in 0..399
  OBVIOUS
<1> HIDE DEF e
<1>2. c \in 0..3 /\ z \in 0..99
  BY <1>1
<1> HIDE DEF c
<1>3. q \in 0..24 /\ k \in 0..3
  BY <1>2
<1> HIDE DEF q
<1>4. a = 400 * e + 100 * c + 4 * q + k
  BY <1>1, <1>2, <1>3
<1>5. YearParts(a, e, c, q, k)
  BY <1>1, <1>2, <1>3, <1>4 DEF YearParts
<1> QED
  BY <1>5

\* With the next February: it has 29 days at the end of four years.
LongYear(c, q, k) == k = 3 /\ (q = 24 => c = 3)

LEMMA YearDivided ==
    ASSUME NEW a \in Nat, NEW e, NEW c, NEW q, NEW k, YearParts(a, e, c, q, k)
    PROVE  /\ a \div 400 = e
           /\ (a - e * 400) \div 4 = 25 * c + q
           /\ (a - e * 400) \div 100 = c
           /\ IsLeap(a + 1) <=> LongYear(c, q, k)
<1>1. /\ e \in Nat /\ c \in 0..3 /\ q \in 0..24 /\ k \in 0..3
      /\ a = 400 * e + 100 * c + 4 * q + k
  BY DEF YearParts
<1>2. a \div 400 = e /\ (a - e * 400) \div 100 = c /\ (a - e * 400) \div 4 = 25 * c + q
  BY <1>1
<1>3. (a + 1) % 4 = 0 <=> k = 3
  BY <1>1
<1>4. (a + 1) % 100 = 0 <=> k = 3 /\ q = 24
  BY <1>1
<1>5. (a + 1) % 400 = 0 <=> k = 3 /\ q = 24 /\ c = 3
  BY <1>1
<1> QED
  BY <1>2, <1>3, <1>4, <1>5 DEF IsLeap, LongYear

\* The year that begins with the last March, and the day in it.
YearOf(yr, mon) == yr - IF mon <= 2 THEN 1 ELSE 0
MonthOf(mon) == mon + IF mon > 2 THEN -3 ELSE 9
DayOf(mon, dy) == (153 * MonthOf(mon) + 2) \div 5 + dy - 1

LEMMA MonthTable ==
    ASSUME NEW mon \in 1..12
    PROVE  \/ mon = 1 /\ MonthOf(mon) = 10 /\ (153 * MonthOf(mon) + 2) \div 5 = 306
           \/ mon = 2 /\ MonthOf(mon) = 11 /\ (153 * MonthOf(mon) + 2) \div 5 = 337
           \/ mon = 3 /\ MonthOf(mon) = 0 /\ (153 * MonthOf(mon) + 2) \div 5 = 0
           \/ mon = 4 /\ MonthOf(mon) = 1 /\ (153 * MonthOf(mon) + 2) \div 5 = 31
           \/ mon = 5 /\ MonthOf(mon) = 2 /\ (153 * MonthOf(mon) + 2) \div 5 = 61
           \/ mon = 6 /\ MonthOf(mon) = 3 /\ (153 * MonthOf(mon) + 2) \div 5 = 92
           \/ mon = 7 /\ MonthOf(mon) = 4 /\ (153 * MonthOf(mon) + 2) \div 5 = 122
           \/ mon = 8 /\ MonthOf(mon) = 5 /\ (153 * MonthOf(mon) + 2) \div 5 = 153
           \/ mon = 9 /\ MonthOf(mon) = 6 /\ (153 * MonthOf(mon) + 2) \div 5 = 184
           \/ mon = 10 /\ MonthOf(mon) = 7 /\ (153 * MonthOf(mon) + 2) \div 5 = 214
           \/ mon = 11 /\ MonthOf(mon) = 8 /\ (153 * MonthOf(mon) + 2) \div 5 = 245
           \/ mon = 12 /\ MonthOf(mon) = 9 /\ (153 * MonthOf(mon) + 2) \div 5 = 275
<1>1. ASSUME NEW f \in 0..11 PROVE
        /\ f = 0 => (153 * f + 2) \div 5 = 0
        /\ f = 1 => (153 * f + 2) \div 5 = 31
        /\ f = 2 => (153 * f + 2) \div 5 = 61
        /\ f = 3 => (153 * f + 2) \div 5 = 92
        /\ f = 4 => (153 * f + 2) \div 5 = 122
        /\ f = 5 => (153 * f + 2) \div 5 = 153
        /\ f = 6 => (153 * f + 2) \div 5 = 184
        /\ f = 7 => (153 * f + 2) \div 5 = 214
        /\ f = 8 => (153 * f + 2) \div 5 = 245
        /\ f = 9 => (153 * f + 2) \div 5 = 275
        /\ f = 10 => (153 * f + 2) \div 5 = 306
        /\ f = 11 => (153 * f + 2) \div 5 = 337
  OBVIOUS
<1>2. MonthOf(mon) = IF mon > 2 THEN mon - 3 ELSE mon + 9
  BY DEF MonthOf
<1>3. MonthOf(mon) \in 0..11
  BY <1>2
<1>4. mon \in {1, 2, 3, 4, 5, 6, 7, 8, 9, 10, 11, 12}
  OBVIOUS
<1> QED
  BY <1>1, <1>2, <1>3, <1>4

\* A day of a year is found again in its month.
DayFound(yr, mon, dy, doy, mp) ==
    /\ dy \in 1..31
    /\ doy \in 0..365 /\ (doy = 365 => mon = 2 /\ IsLeap(yr))
    /\ (5 * doy + 2) \div 153 = mp
    /\ doy - (153 * mp + 2) \div 5 + 1 = dy
    /\ mp + (IF mp < 10 THEN 3 ELSE -9) = mon

LEMMA DayBack ==
    ASSUME NEW yr \in Nat, NEW mon \in 1..12, NEW dy \in 1..DaysOf(yr, mon)
    PROVE  DayFound(yr, mon, dy, DayOf(mon, dy), MonthOf(mon))
<1> DEFINE mp == MonthOf(mon)
           first == (153 * mp + 2) \div 5
           doy == DayOf(mon, dy)
<1>1. doy = first + dy - 1
  BY DEF DayOf
<1>2. /\ mon \in {4, 6, 9, 11} => dy \in 1..30
      /\ mon = 2 => dy \in 1..29 /\ (dy = 29 => IsLeap(yr))
      /\ dy \in 1..31
  BY DEF DaysOf
<1>3. /\ mp \in 0..11 /\ first \in Int /\ mp + (IF mp < 10 THEN 3 ELSE -9) = mon
      /\ doy \in 0..365 /\ (doy = 365 => mon = 2 /\ IsLeap(yr))
      /\ 0 <= 5 * doy + 2 - 153 * mp /\ 5 * doy + 2 - 153 * mp < 153
      /\ doy - first + 1 = dy
  <2> HIDE DEF mp, first, doy
  <2>1. \/ mon = 1 /\ mp = 10 /\ first = 306
        \/ mon = 2 /\ mp = 11 /\ first = 337
        \/ mon = 3 /\ mp = 0 /\ first = 0
        \/ mon = 4 /\ mp = 1 /\ first = 31
        \/ mon = 5 /\ mp = 2 /\ first = 61
        \/ mon = 6 /\ mp = 3 /\ first = 92
        \/ mon = 7 /\ mp = 4 /\ first = 122
        \/ mon = 8 /\ mp = 5 /\ first = 153
        \/ mon = 9 /\ mp = 6 /\ first = 184
        \/ mon = 10 /\ mp = 7 /\ first = 214
        \/ mon = 11 /\ mp = 8 /\ first = 245
        \/ mon = 12 /\ mp = 9 /\ first = 275
    BY MonthTable DEF mp, first
  <2> QED
    BY <1>1, <1>2, <2>1
<1>4. (5 * doy + 2) \div 153 = mp
  <2> HIDE DEF mp, first, doy
  <2> QED
    BY <1>3, SMT
<1> HIDE DEF doy, mp
<1> QED
  BY <1>2, <1>3, <1>4 DEF DayFound, doy, mp

\* A day of 400 years is found again in its year.
YearFound(doe, yoe) ==
    /\ doe \in Int /\ 0 <= doe /\ doe < 146097
    /\ (doe - doe \div 1460 + doe \div 36524 - doe \div 146096) \div 365 = yoe

DayOfYears(c, q, k, doy, doe, yoe) ==
    /\ c \in 0..3 /\ q \in 0..24 /\ k \in 0..3
    /\ doy \in 0..365 /\ (doy = 365 => LongYear(c, q, k))
    /\ doe = 36524 * c + 1461 * q + 365 * k + doy
    /\ yoe = 100 * c + 4 * q + k

LEMMA YearBack ==
    \A c, q, k, doy, doe, yoe : DayOfYears(c, q, k, doy, doe, yoe) => YearFound(doe, yoe)
<1> SUFFICES ASSUME NEW c, NEW q, NEW k, NEW doy, NEW days0, NEW years0,
                    DayOfYears(c, q, k, doy, days0, years0)
             PROVE  YearFound(days0, years0)
  OBVIOUS
<1>0. /\ c \in 0..3 /\ q \in 0..24 /\ k \in 0..3
      /\ doy \in 0..365 /\ (doy = 365 => LongYear(c, q, k))
      /\ days0 = 36524 * c + 1461 * q + 365 * k + doy
      /\ years0 = 100 * c + 4 * q + k
  BY DEF DayOfYears
<1> DEFINE doe == 36524 * c + 1461 * q + 365 * k + doy
           s == IF doe = 146096 THEN 1 ELSE 0
           rest == 24 * c + q + 365 * k + doy
           b == IF rest >= 1460 THEN 1 ELSE 0
           x == doe - doe \div 1460 + doe \div 36524 - doe \div 146096
<1>1. /\ doe \in Int /\ 0 <= doe /\ doe < 146097
      /\ 0 <= doe - 36524 * (c + s) /\ doe - 36524 * (c + s) < 36524
      /\ c + s \in Int /\ s \in Int
  BY <1>0, SMT DEF LongYear
<1>2. /\ doe - 1460 * (25 * c + q + b) = rest - 1460 * b
      /\ 0 <= rest - 1460 * b /\ rest - 1460 * b < 1460
      /\ 25 * c + q + b \in Int
  BY <1>0, SMT
<1>3. 0 <= doy - b /\ doy - b < 365 /\ doy - b \in Int
  BY <1>0, SMT DEF LongYear
<1>4. doe - (25 * c + q + b) + (c + s) - s = 365 * (100 * c + 4 * q + k) + (doy - b)
  <2>1. b \in Int
    OBVIOUS
  <2> HIDE DEF b, s
  <2> QED
    BY <1>0, <1>1, <2>1, SMT
<1>5. doe \div 146096 = s
  <2> HIDE DEF doe
  <2> QED
    BY <1>1, SMT
<1>6. doe \div 36524 = c + s
  <2> DEFINE m == c + s
  <2> HIDE DEF doe, s, m
  <2> SUFFICES doe \div 36524 = m
    BY DEF m
  <2>1. m \in Int /\ 0 <= doe - 36524 * m /\ doe - 36524 * m < 36524
    BY <1>1 DEF m
  <2> QED
    BY <1>1, <2>1, SMT
<1>7. doe \div 1460 = 25 * c + q + b
  <2> DEFINE m == 25 * c + q + b
  <2> HIDE DEF m
  <2> SUFFICES doe \div 1460 = m
    BY DEF m
  <2>1. m \in Int /\ 0 <= doe - 1460 * m /\ doe - 1460 * m < 1460
    BY <1>2 DEF m
  <2> HIDE DEF doe
  <2> QED
    BY <1>1, <2>1, SMT
<1>8. x = 365 * (100 * c + 4 * q + k) + (doy - b)
  <2> HIDE DEF doe, b, s
  <2> QED
    BY <1>0, <1>4, <1>5, <1>6, <1>7, SMT
<1>9. x \div 365 = 100 * c + 4 * q + k
  <2> DEFINE m == 100 * c + 4 * q + k
  <2>1. m \in Int
    BY <1>0
  <2> HIDE DEF b, x, m
  <2>2. x = 365 * m + (doy - b)
    BY <1>8 DEF m
  <2>3. x \div 365 = m
    BY <1>3, <2>1, <2>2, SMT
  <2> QED
    BY <2>3 DEF m
<1> DEFINE yoe == 100 * c + 4 * q + k
<1>10. x \div 365 = yoe
  BY <1>9
<1> HIDE DEF s, rest, b, doe, yoe
<1>11. YearFound(doe, yoe)
  BY <1>1, <1>10 DEF YearFound
<1> QED
  BY <1>0, <1>11 DEF doe, yoe

\* The days since 1970, in parts of the calendar.
LEMMA DaysInParts ==
    ASSUME NEW yr \in Nat, NEW mon \in 1..12, NEW dy \in Int,
           NEW e, NEW c, NEW q, NEW k, YearParts(YearOf(yr, mon), e, c, q, k),
           YearOf(yr, mon) \in Nat
    PROVE  /\ days_from_civil(yr, mon, dy) =
                e * 146097 + (36524 * c + 1461 * q + 365 * k + DayOf(mon, dy)) - 719468
           /\ DayOf(mon, dy) \in Int
<1> DEFINE a == YearOf(yr, mon)
           doy == DayOf(mon, dy)
           yoe == a - e * 400
<1>1. /\ e \in Nat /\ c \in 0..3 /\ q \in 0..24 /\ k \in 0..3
      /\ a = 400 * e + 100 * c + 4 * q + k
  BY DEF YearParts
<1>2. a \div 400 = e /\ yoe \div 4 = 25 * c + q /\ yoe \div 100 = c
  BY YearDivided
<1>3. doy \in Int
  <2>1. (153 * MonthOf(mon) + 2) \div 5 \in Int
    BY MonthTable
  <2> QED
    BY <2>1 DEF DayOf
<1>4. days_from_civil(yr, mon, dy) =
        (a \div 400) * 146097
          + ((a - (a \div 400) * 400) * 365 + (a - (a \div 400) * 400) \div 4
               - (a - (a \div 400) * 400) \div 100 + doy) - 719468
  BY DEF days_from_civil, YearOf, DayOf, MonthOf
<1> HIDE DEF a, doy
<1>5. days_from_civil(yr, mon, dy) =
        e * 146097 + (yoe * 365 + (25 * c + q) - c + doy) - 719468
  BY <1>2, <1>4
<1>6. yoe * 365 + (25 * c + q) - c + doy = 36524 * c + 1461 * q + 365 * k + doy
  <2>1. yoe = 100 * c + 4 * q + k
    BY <1>1
  <2> HIDE DEF yoe
  <2> QED
    BY <1>1, <1>3, <2>1
<1> HIDE DEF yoe
<1> QED
  BY <1>3, <1>5, <1>6 DEF doy

IsDay(yr, mon, dy) ==
    yr \in Nat /\ yr >= 1 /\ mon \in 1..12 /\ dy \in 1..DaysOf(yr, mon)

LEMMA DayInParts ==
    ASSUME NEW yr, NEW mon, NEW dy, IsDay(yr, mon, dy)
    PROVE  /\ YearOf(yr, mon) \in Nat
           /\ \E e, c, q, k :
                /\ YearParts(YearOf(yr, mon), e, c, q, k)
                /\ DayOf(mon, dy) = 365 => LongYear(c, q, k)
<1>1. yr \in Nat /\ yr >= 1 /\ mon \in 1..12 /\ dy \in 1..DaysOf(yr, mon)
  BY DEF IsDay
<1>2. YearOf(yr, mon) \in Nat /\ (mon = 2 => YearOf(yr, mon) + 1 = yr)
  BY <1>1 DEF YearOf
<1>3. PICK e, c, q, k : YearParts(YearOf(yr, mon), e, c, q, k)
  BY <1>2, YearInParts
<1>4. IsLeap(YearOf(yr, mon) + 1) <=> LongYear(c, q, k)
  BY <1>2, <1>3, YearDivided
<1>5. DayOf(mon, dy) = 365 => mon = 2 /\ IsLeap(yr)
  BY <1>1, DayBack DEF DayFound
<1>6. DayOf(mon, dy) = 365 => LongYear(c, q, k)
  BY <1>2, <1>4, <1>5
<1> QED
  BY <1>2, <1>3, <1>6

Dated(yr, mon, dy, sec) ==
    [year |-> yr, month |-> mon, day |-> dy, hour |-> sec \div 3600,
     minute |-> (sec % 3600) \div 60, second |-> sec % 60]

LEMMA CivilIs ==
    ASSUME NEW time, NEW era, NEW doe, NEW yoe, NEW doy, NEW mp, NEW mon,
           (time.days + 719468) \div 146097 = era,
           (time.days + 719468) - era * 146097 = doe,
           (doe - doe \div 1460 + doe \div 36524 - doe \div 146096) \div 365 = yoe,
           doe - (365 * yoe + yoe \div 4 - yoe \div 100) = doy,
           mp = (5 * doy + 2) \div 153,
           mp + (IF mp < 10 THEN 3 ELSE -9) = mon
    PROVE  unix_to_ymdhms(time) =
             Dated(yoe + era * 400 + (IF mon <= 2 THEN 1 ELSE 0), mon,
                   doy - (153 * mp + 2) \div 5 + 1, time.seconds)
BY SMT DEF unix_to_ymdhms, Dated

LEMMA DaysCounted ==
    ASSUME NEW yr, NEW mon, NEW dy, IsDay(yr, mon, dy)
    PROVE  days_from_civil(yr, mon, dy) \in Int
<1>1. yr \in Nat /\ mon \in 1..12 /\ dy \in Int
  BY DEF IsDay
<1>2. PICK e, c, q, k : YearParts(YearOf(yr, mon), e, c, q, k)
  BY DayInParts
<1>3. /\ days_from_civil(yr, mon, dy) =
           e * 146097 + (36524 * c + 1461 * q + 365 * k + DayOf(mon, dy)) - 719468
      /\ DayOf(mon, dy) \in Int
  BY <1>1, <1>2, DaysInParts, DayInParts
<1>4. e \in Int /\ c \in Int /\ q \in Int /\ k \in Int
  BY <1>2 DEF YearParts
<1> QED
  BY <1>3, <1>4, SMT

\* The server's calendar gives back the day whose days it counts.
LEMMA CivilBack ==
    ASSUME NEW yr, NEW mon, NEW dy, IsDay(yr, mon, dy), NEW sec
    PROVE  unix_to_ymdhms([days |-> days_from_civil(yr, mon, dy), seconds |-> sec])
             = Dated(yr, mon, dy, sec)
<1> DEFINE z == days_from_civil(yr, mon, dy)
           a == YearOf(yr, mon)
           doy == DayOf(mon, dy)
<1>1. yr \in Nat /\ mon \in 1..12 /\ dy \in 1..DaysOf(yr, mon)
  BY DEF IsDay
<1>2. /\ dy \in 1..31 /\ doy \in 0..365
      /\ (5 * doy + 2) \div 153 = MonthOf(mon)
      /\ doy - (153 * MonthOf(mon) + 2) \div 5 + 1 = dy
      /\ MonthOf(mon) + (IF MonthOf(mon) < 10 THEN 3 ELSE -9) = mon
  <2>1. DayFound(yr, mon, dy, doy, MonthOf(mon))
    BY <1>1, DayBack
  <2> HIDE DEF doy
  <2> QED
    BY <2>1 DEF DayFound
<1>3. PICK e, c, q, k : YearParts(a, e, c, q, k) /\ (doy = 365 => LongYear(c, q, k))
  BY DayInParts
<1>4. a \in Nat
  BY DayInParts
<1>5. /\ e \in Nat /\ c \in 0..3 /\ q \in 0..24 /\ k \in 0..3
      /\ a = 400 * e + 100 * c + 4 * q + k
  BY <1>3 DEF YearParts
<1> DEFINE doe == 36524 * c + 1461 * q + 365 * k + doy
           yoe == 100 * c + 4 * q + k
<1>6. z = e * 146097 + doe - 719468
  <2>1. z = e * 146097 + (36524 * c + 1461 * q + 365 * k + doy) - 719468
    BY <1>1, <1>2, <1>3, <1>4, DaysInParts
  <2> QED
    BY <2>1
<1>7. /\ doe \in Int /\ 0 <= doe /\ doe < 146097
      /\ (doe - doe \div 1460 + doe \div 36524 - doe \div 146096) \div 365 = yoe
  <2> HIDE DEF doy
  <2>1. DayOfYears(c, q, k, doy, doe, yoe)
    BY <1>2, <1>3, <1>5 DEF DayOfYears
  <2> HIDE DEF doe, yoe
  <2>2. YearFound(doe, yoe)
    BY <2>1, YearBack
  <2> QED
    BY <2>2 DEF YearFound
<1>8. yoe \div 4 = 25 * c + q /\ yoe \div 100 = c /\ yoe + e * 400 = a /\ yoe \in Int
  BY <1>5
<1>9. doe - (365 * yoe + yoe \div 4 - yoe \div 100) = doy
  <2> HIDE DEF doy
  <2>1. doe - (365 * yoe + (25 * c + q) - c) = doy
    BY <1>2, <1>5
  <2> HIDE DEF yoe, doe
  <2> QED
    BY <1>8, <2>1
<1> HIDE DEF doe, yoe, z, a, doy
<1>10. (z + 719468) \div 146097 = e /\ (z + 719468) - e * 146097 = doe
  <2> DEFINE y == z + 719468
  <2>1. y = e * 146097 + doe /\ y \in Int /\ e \in Int
    BY <1>5, <1>6, <1>7, SMT
  <2> HIDE DEF y
  <2>2. y \div 146097 = e /\ y - e * 146097 = doe
    BY <1>7, <2>1, SMT
  <2> QED
    BY <2>2, SMT DEF y
<1>11. a + (IF mon <= 2 THEN 1 ELSE 0) = yr
  BY <1>1 DEF a, YearOf
<1> DEFINE time == [days |-> z, seconds |-> sec]
           mp == MonthOf(mon)
           t == unix_to_ymdhms(time)
<1>12. time.days = z /\ time.seconds = sec
  OBVIOUS
<1> HIDE DEF time, mp
<1>13. mp + (IF mp < 10 THEN 3 ELSE -9) = mon
  BY <1>2 DEF mp
<1>14. mp = (5 * doy + 2) \div 153
  BY <1>2 DEF mp
<1>15. t = Dated(yoe + e * 400 + (IF mon <= 2 THEN 1 ELSE 0), mon,
                 doy - (153 * mp + 2) \div 5 + 1, sec)
  BY <1>7, <1>9, <1>10, <1>12, <1>13, <1>14, CivilIs
<1>16. yoe + e * 400 + (IF mon <= 2 THEN 1 ELSE 0) = yr
  BY <1>8, <1>11
<1>17. doy - (153 * mp + 2) \div 5 + 1 = dy
  BY <1>2 DEF mp
<1>18. t = Dated(yr, mon, dy, sec)
  BY <1>15, <1>16, <1>17
<1> QED
  BY <1>18 DEF t, time, z

\* The day after a day of the calendar is the next one counted.
NextTo(y1, m1, d1, y2, m2, d2) ==
    IsDay(y2, m2, d2) /\ days_from_civil(y2, m2, d2) = days_from_civil(y1, m1, d1) + 1

\* Within a year that begins in March.
LEMMA NextInYear ==
    ASSUME NEW y1, NEW m1, NEW d1, IsDay(y1, m1, d1),
           NEW y2, NEW m2, NEW d2, IsDay(y2, m2, d2),
           YearOf(y2, m2) = YearOf(y1, m1), DayOf(m2, d2) = DayOf(m1, d1) + 1
    PROVE  NextTo(y1, m1, d1, y2, m2, d2)
<1>1. /\ y1 \in Nat /\ m1 \in 1..12 /\ d1 \in Int
      /\ y2 \in Nat /\ m2 \in 1..12 /\ d2 \in Int
  BY DEF IsDay
<1>2. YearOf(y1, m1) \in Nat
  BY DayInParts
<1>3. PICK e, c, q, k : YearParts(YearOf(y1, m1), e, c, q, k)
  BY DayInParts
<1>4. /\ e \in Nat /\ c \in 0..3 /\ q \in 0..24 /\ k \in 0..3
  BY <1>3 DEF YearParts
<1> DEFINE n1 == days_from_civil(y1, m1, d1)
           n2 == days_from_civil(y2, m2, d2)
           f1 == DayOf(m1, d1)
           f2 == DayOf(m2, d2)
<1>5. n1 = e * 146097 + (36524 * c + 1461 * q + 365 * k + f1) - 719468 /\ f1 \in Int
  BY <1>1, <1>2, <1>3, DaysInParts, SMTT(30)
<1>6. n2 = e * 146097 + (36524 * c + 1461 * q + 365 * k + f2) - 719468
  BY <1>1, <1>2, <1>3, DaysInParts, SMTT(30)
<1>7. f2 = f1 + 1
  OBVIOUS
<1> HIDE DEF n1, n2, f1, f2
<1>8. n2 = n1 + 1
  BY <1>4, <1>5, <1>6, <1>7, SMT
<1> QED
  BY <1>8 DEF NextTo, n1, n2

\* The year after a year has the parts of the one or of the other.
LEMMA NextYear ==
    ASSUME NEW a \in Nat, NEW e, NEW c, NEW q, NEW k, YearParts(a, e, c, q, k)
    PROVE  \/ k < 3 /\ YearParts(a + 1, e, c, q, k + 1)
           \/ k = 3 /\ q < 24 /\ YearParts(a + 1, e, c, q + 1, 0)
           \/ k = 3 /\ q = 24 /\ c < 3 /\ YearParts(a + 1, e, c + 1, 0, 0)
           \/ k = 3 /\ q = 24 /\ c = 3 /\ YearParts(a + 1, e + 1, 0, 0, 0)
BY DEF YearParts

\* From the last of February to 1 March.
LEMMA NextMarch ==
    ASSUME NEW yr, NEW dy, IsDay(yr, 2, dy), dy = DaysOf(yr, 2)
    PROVE  NextTo(yr, 2, dy, yr, 3, 1)
<1>1. yr \in Nat /\ yr >= 1 /\ IsDay(yr, 3, 1)
  BY DEF IsDay, DaysOf
<1>2. dy = IF IsLeap(yr) THEN 29 ELSE 28
  BY DEF DaysOf
<1> DEFINE a == YearOf(yr, 2)
           n1 == days_from_civil(yr, 2, dy)
           n2 == days_from_civil(yr, 3, 1)
<1>3. a \in Nat /\ a + 1 = yr /\ YearOf(yr, 3) = a + 1
  BY <1>1 DEF YearOf
<1>4. DayOf(2, dy) = 336 + dy /\ DayOf(3, 1) = 0
  <2>1. (153 * MonthOf(2) + 2) \div 5 = 337 /\ (153 * MonthOf(3) + 2) \div 5 = 0
    BY MonthTable
  <2> QED
    BY <1>2, <2>1 DEF DayOf
<1>5. PICK e, c, q, k : YearParts(a, e, c, q, k)
  BY <1>3, YearInParts
<1>6. e \in Nat /\ c \in 0..3 /\ q \in 0..24 /\ k \in 0..3
  BY <1>5 DEF YearParts
<1>7. IsLeap(yr) <=> LongYear(c, q, k)
  BY <1>3, <1>5, YearDivided
<1>8. n1 = e * 146097 + (36524 * c + 1461 * q + 365 * k + 336 + dy) - 719468
  <2>1. n1 = e * 146097 + (36524 * c + 1461 * q + 365 * k + DayOf(2, dy)) - 719468
    BY <1>1, <1>2, <1>3, <1>5, DaysInParts
  <2> HIDE DEF n1
  <2> QED
    BY <1>2, <1>4, <1>6, <2>1, SMT
<1>9. ASSUME NEW e2, NEW c2, NEW q2, NEW k2, YearParts(a + 1, e2, c2, q2, k2)
      PROVE  n2 = e2 * 146097 + (36524 * c2 + 1461 * q2 + 365 * k2) - 719468
  <2>1. YearParts(YearOf(yr, 3), e2, c2, q2, k2) /\ YearOf(yr, 3) \in Nat
    BY <1>3, <1>9
  <2>2. n2 = e2 * 146097 + (36524 * c2 + 1461 * q2 + 365 * k2 + DayOf(3, 1)) - 719468
    BY <1>1, <2>1, DaysInParts
  <2>3. e2 \in Nat /\ c2 \in Nat /\ q2 \in Nat /\ k2 \in Nat
    BY <1>9 DEF YearParts
  <2> HIDE DEF n2
  <2> QED
    BY <1>4, <2>2, <2>3, SMT
<1>10. \/ k < 3 /\ n2 = e * 146097 + (36524 * c + 1461 * q + 365 * (k + 1)) - 719468
       \/ k = 3 /\ q < 24 /\ n2 = e * 146097 + (36524 * c + 1461 * (q + 1) + 365 * 0) - 719468
       \/ /\ k = 3 /\ q = 24 /\ c < 3
          /\ n2 = e * 146097 + (36524 * (c + 1) + 1461 * 0 + 365 * 0) - 719468
       \/ /\ k = 3 /\ q = 24 /\ c = 3
          /\ n2 = (e + 1) * 146097 + (36524 * 0 + 1461 * 0 + 365 * 0) - 719468
  <2> HIDE DEF a, n2
  <2> QED
    BY <1>3, <1>5, <1>9, NextYear
<1>11. dy = IF k = 3 /\ (q = 24 => c = 3) THEN 29 ELSE 28
  BY <1>2, <1>7 DEF LongYear
<1> HIDE DEF n1, n2
<1>12. n2 = n1 + 1
  BY <1>6, <1>8, <1>10, <1>11, SMT
<1> QED
  BY <1>1, <1>12 DEF NextTo, n1, n2

\* A day within a month, and the last one of a month.
LEMMA NextInMonth ==
    ASSUME NEW yr, NEW mon, NEW dy, IsDay(yr, mon, dy), dy < DaysOf(yr, mon)
    PROVE  NextTo(yr, mon, dy, yr, mon, dy + 1)
<1>1. yr \in Nat /\ mon \in 1..12 /\ dy \in 1..DaysOf(yr, mon)
  BY DEF IsDay
<1>2. DaysOf(yr, mon) \in Int
  BY <1>1 DEF DaysOf
<1>3. IsDay(yr, mon, dy + 1)
  BY <1>1, <1>2 DEF IsDay
<1>4. (153 * MonthOf(mon) + 2) \div 5 \in Int
  BY <1>1, MonthTable
<1>5. DayOf(mon, dy + 1) = DayOf(mon, dy) + 1
  BY <1>1, <1>2, <1>4 DEF DayOf
<1> QED
  BY <1>3, <1>5, NextInYear

LEMMA NextMonth ==
    ASSUME NEW yr, NEW mon, NEW dy, IsDay(yr, mon, dy), dy = DaysOf(yr, mon)
    PROVE  NextTo(yr, mon, dy, IF mon = 12 THEN yr + 1 ELSE yr, (mon % 12) + 1, 1)
<1>1. /\ yr \in Nat /\ yr >= 1
      /\ mon \in {1, 2, 3, 4, 5, 6, 7, 8, 9, 10, 11, 12} /\ mon \in 1..12
  BY DEF IsDay
<1> DEFINE y2 == IF mon = 12 THEN yr + 1 ELSE yr
           m2 == (mon % 12) + 1
<1>2. m2 = (IF mon = 12 THEN 1 ELSE mon + 1) /\ m2 \in 1..12
  BY <1>1
<1>3. y2 \in Nat /\ y2 >= 1
  BY <1>1
<1> HIDE DEF y2, m2
<1>4. IsDay(y2, m2, 1)
  BY <1>2, <1>3 DEF IsDay, DaysOf
<1>5. CASE mon = 2
  <2>1. y2 = yr /\ m2 = 3
    BY <1>2, <1>5 DEF y2
  <2> QED
    BY <1>5, <2>1, NextMarch DEF y2, m2
<1>6. CASE mon # 2
  <2>1. YearOf(y2, m2) = YearOf(yr, mon)
    BY <1>1, <1>2, <1>6 DEF YearOf, y2
  <2>2. dy = IF mon \in {4, 6, 9, 11} THEN 30 ELSE 31
    BY <1>6 DEF DaysOf
  <2> DEFINE f1 == (153 * MonthOf(mon) + 2) \div 5
             f2 == (153 * MonthOf(m2) + 2) \div 5
  <2>3. f2 = f1 + dy
    <3>1. \/ mon = 1 /\ f1 = 306
          \/ mon = 3 /\ f1 = 0
          \/ mon = 4 /\ f1 = 31
          \/ mon = 5 /\ f1 = 61
          \/ mon = 6 /\ f1 = 92
          \/ mon = 7 /\ f1 = 122
          \/ mon = 8 /\ f1 = 153
          \/ mon = 9 /\ f1 = 184
          \/ mon = 10 /\ f1 = 214
          \/ mon = 11 /\ f1 = 245
          \/ mon = 12 /\ f1 = 275
      BY <1>1, <1>6, MonthTable
    <3>2. \/ m2 = 1 /\ f2 = 306
          \/ m2 = 2 /\ f2 = 337
          \/ m2 = 3 /\ f2 = 0
          \/ m2 = 4 /\ f2 = 31
          \/ m2 = 5 /\ f2 = 61
          \/ m2 = 6 /\ f2 = 92
          \/ m2 = 7 /\ f2 = 122
          \/ m2 = 8 /\ f2 = 153
          \/ m2 = 9 /\ f2 = 184
          \/ m2 = 10 /\ f2 = 214
          \/ m2 = 11 /\ f2 = 245
          \/ m2 = 12 /\ f2 = 275
      BY <1>2, MonthTable
    <3> HIDE DEF f1, f2
    <3> QED
      BY <1>2, <2>2, <3>1, <3>2
  <2>4. f1 \in Int /\ f2 \in Int /\ dy \in Int
    BY <1>1, <1>2, <2>2, MonthTable
  <2>5. DayOf(mon, dy) = f1 + dy - 1 /\ DayOf(m2, 1) = f2 + 1 - 1
    BY DEF DayOf
  <2> HIDE DEF f1, f2
  <2>6. DayOf(m2, 1) = DayOf(mon, dy) + 1
    BY <2>3, <2>4, <2>5
  <2>7. NextTo(yr, mon, dy, y2, m2, 1)
    BY <1>4, <2>1, <2>6, NextInYear
  <2> QED
    BY <2>7 DEF y2, m2
<1> QED
  BY <1>5, <1>6

\* A time with the year and the second of its stamp; the rest stays.
Time(y, mo, d, h, m, s) ==
    [year |-> y, month |-> mo, day |-> d, hour |-> h, minute |-> m, second |-> s]
WithYear(t, y) == [t EXCEPT !.year = y]
WithSecond(t, s) == [t EXCEPT !.second = s]

LEMMA Restamped ==
    \A y1, mo, d, h, m, s1, y2, s2 :
      WithSecond(WithYear(Time(y1, mo, d, h, m, s1), y2), s2) = Time(y2, mo, d, h, m, s2)
<1>1. \A y1, mo, d, h, m, s1, y2 :
        WithYear(Time(y1, mo, d, h, m, s1), y2) = Time(y2, mo, d, h, m, s1)
  BY DEF WithYear, Time
<1>2. \A y1, mo, d, h, m, s1, s2 :
        WithSecond(Time(y1, mo, d, h, m, s1), s2) = Time(y1, mo, d, h, m, s2)
  BY DEF WithSecond, Time
<1> QED
  BY <1>1, <1>2

\* A second of a day, and the even second a stamp has room for.
LEMMA SecondBack ==
    ASSUME NEW s \in Nat, s < 86400
    PROVE  LET even == (s \div 3600) * 3600 + ((s \div 60) % 60) * 60 + ((s % 60) \div 2) * 2
           IN  /\ s \div 3600 \in 0..23 /\ (s \div 60) % 60 \in 0..59 /\ (s % 60) \div 2 \in 0..29
               /\ (s % 3600) \div 60 = (s \div 60) % 60
               /\ even \in Int
               /\ even \div 3600 = s \div 3600
               /\ (even % 3600) \div 60 = (s \div 60) % 60
               /\ (even % 60) \div 2 = (s % 60) \div 2
<1> DEFINE h == s \div 3600
           r == s % 3600
           m == r \div 60
           t == r % 60
           u == t \div 2
           b == t % 2
<1>1. s = 3600 * h + r /\ h \in 0..23 /\ r \in 0..3599
  BY SMTT(30)
<1> HIDE DEF h, r
<1>2. r = 60 * m + t /\ m \in 0..59 /\ t \in 0..59
  BY <1>1, SMTT(30)
<1> HIDE DEF m, t
<1>3. t = 2 * u + b /\ u \in 0..29 /\ b \in 0..1
  BY <1>2, SMTT(30)
<1> HIDE DEF u, b
<1>4. s = 60 * (60 * h + m) + t
  BY <1>1, <1>2, SMTT(30)
<1>5. s \div 60 = 60 * h + m /\ s % 60 = t
  <2> DEFINE x == 60 * h + m
  <2>1. x \in Int /\ s = 60 * x + t
    BY <1>1, <1>2, <1>4, SMTT(30)
  <2> HIDE DEF x
  <2>2. s \div 60 = x /\ s % 60 = t
    BY <1>2, <2>1, SMTT(30)
  <2> QED
    BY <2>2 DEF x
<1>6. (60 * h + m) % 60 = m
  BY <1>1, <1>2, SMTT(30)
<1> DEFINE even == h * 3600 + m * 60 + u * 2
<1>7. even = 60 * (60 * h + m) + 2 * u /\ even = 3600 * h + (60 * m + 2 * u) /\ even \in Int
  BY <1>1, <1>2, <1>3, SMTT(30)
<1>8. 60 * m + 2 * u \in 0..3599 /\ 60 * h + m \in Int
  BY <1>1, <1>2, <1>3, SMTT(30)
<1> HIDE DEF even
<1>9. even \div 3600 = h /\ even % 3600 = 60 * m + 2 * u
  <2> DEFINE x == 60 * m + 2 * u
  <2> HIDE DEF x
  <2>1. even = 3600 * h + x /\ x \in 0..3599
    BY <1>7, <1>8 DEF x
  <2>2. even \div 3600 = h /\ even % 3600 = x
    BY <1>1, <2>1, SMTT(30)
  <2> QED
    BY <2>2 DEF x
<1>10. (60 * m + 2 * u) \div 60 = m
  BY <1>2, <1>3, SMTT(30)
<1>11. even % 60 = 2 * u /\ (2 * u) \div 2 = u
  <2> DEFINE x == 60 * h + m
  <2> HIDE DEF x
  <2>1. even = 60 * x + 2 * u /\ x \in Int
    BY <1>7, <1>8 DEF x
  <2> QED
    BY <1>3, <2>1, SMTT(30)
<1>12. /\ s \div 3600 = h /\ (s \div 60) % 60 = m /\ (s % 60) \div 2 = u /\ (s % 3600) \div 60 = m
  BY <1>5, <1>6 DEF h, u, m, r
<1>13. even = (s \div 3600) * 3600 + ((s \div 60) % 60) * 60 + ((s % 60) \div 2) * 2
  BY <1>12 DEF even
<1> QED
  BY <1>1, <1>2, <1>3, <1>7, <1>9, <1>10, <1>11, <1>12, <1>13

-----------------------------------------------------------------------------
(* The behaviours of Conversions.                                          *)

Types ==
    /\ name \in Seq(Letters) /\ root \in Roots
    /\ path \in Seq(PathBytes)
    /\ left \in Version /\ Len(left) <= MaxVersion
    /\ right \in Version /\ Len(right) <= MaxVersion
    /\ client \in Word /\ server \in Word
    /\ length \in Nat /\ damaged \in Nat

\* The days counted are those of the day in the calendar.
Calendar ==
    /\ IsDay(year, month, day) /\ days = days_from_civil(year, month, day)
    /\ seconds \in Nat /\ seconds < 86400

ConversionsInv == Types /\ Damages(Xor(client, server)) /\ Calendar

LEMMA InitInv == Init => ConversionsInv
<1> SUFFICES ASSUME Init PROVE ConversionsInv
  OBVIOUS
<1>1. Types
  <2>1. <<>> \in Version /\ Len(<<>>) <= MaxVersion
    BY EmptySeq, InputsAssumption DEF Version
  <2> QED
    BY <2>1 DEF Init, Types, Start, Word
<1>2. Xor(client, server) = {}
  BY XorOf DEF Init
<1>3. Damages(Xor(client, server))
  BY <1>2 DEF Damages, Init, Word
<1>4. Calendar
  <2>1. year = 1970 /\ month = 1 /\ day = 1 /\ days = 0 /\ seconds = 0
    BY DEF Init
  <2>2. IsDay(1970, 1, 1)
    BY DEF IsDay, DaysOf
  <2>3. days_from_civil(1970, 1, 1) = 0
    <3>1. 1969 \div 400 = 4 /\ (1969 - 4 * 400) \div 4 = 92 /\ (1969 - 4 * 400) \div 100 = 3
      OBVIOUS
    <3>2. (153 * (1 + 9) + 2) \div 5 = 306
      OBVIOUS
    <3> QED
      BY <3>1, <3>2, SMT DEF days_from_civil
  <2> QED
    BY <2>1, <2>2, <2>3, SMT DEF Calendar
<1> QED
  BY <1>1, <1>3, <1>4 DEF ConversionsInv

LEMMA TravelInv ==
    ASSUME NEW byte \in Byte, NEW error \in Byte,
           ConversionsInv, error # {} => damaged < 4, Travel(byte, error)
    PROVE  ConversionsInv'
<1> DEFINE d == Xor(client, server)
<1>1. /\ client \in Word /\ server \in Word /\ damaged \in Nat /\ d \in Word
      /\ damaged = 0 => d = {}
      /\ damaged > 0 => d # {}
      /\ damaged \in 1..4 => \E w \in Burst(damaged) : d = After(damaged, w)
  BY DEF ConversionsInv, Types, Damages
<1>2. /\ client' \in Word /\ server' \in Word
      /\ Xor(client', server') = Eight(Xor(d, error))
  BY <1>1, DifferenceStep DEF Travel
<1>3. /\ damaged' = IF damaged > 0 THEN damaged + 1 ELSE IF error # {} THEN 1 ELSE 0
      /\ damaged' \in Nat
  BY <1>1 DEF Travel
<1>4. Types' /\ Calendar'
  <2>1. Types'
    BY <1>2, <1>3 DEF ConversionsInv, Types, Travel, names, texts
  <2>2. Calendar'
    BY DEF ConversionsInv, Calendar, Travel, times
  <2> QED
    BY <2>1, <2>2
<1>5. error \in Word /\ Xor({}, error) = error /\ Xor(d, {}) = d
  BY DEF Word, Byte, Xor, SymDiff
<1> HIDE DEF d
<1> DEFINE d2 == Eight(Xor(d, error))
<1>6. d2 \in Word
  BY <1>1, <1>5, XorTypes, EightXor
<1>7. CASE damaged = 0 /\ error = {}
  <2>1. d2 = {} /\ damaged' = 0
    BY <1>1, <1>3, <1>5, <1>7, NothingReduced
  <2> QED
    BY <1>2, <1>4, <1>6, <2>1 DEF ConversionsInv, Damages
<1>8. CASE damaged = 0 /\ error # {}
  <2>1. d2 = After(1, error) /\ damaged' = 1
    BY <1>1, <1>3, <1>5, <1>8 DEF After
  <2>2. error \in Burst(1)
    BY <1>8 DEF Burst, Byte
  <2>3. d2 # {}
    <3>1. {} \in Word
      BY DEF Word
    <3>2. Eight(error) # Eight({})
      BY <1>5, <1>8, <3>1, EightXor
    <3> QED
      BY <2>1, <3>2, NothingReduced DEF After
  <2> HIDE DEF d2
  <2>4. Damages(Xor(client, server))'
    BY <1>2, <1>6, <2>1, <2>2, <2>3 DEF Damages, d2
  <2> QED
    BY <1>4, <2>4 DEF ConversionsInv
<1>9. CASE damaged \in 1..3
  <2>1. PICK w \in Burst(damaged) : d = After(damaged, w)
    BY <1>1, <1>9
  <2>2. PICK v \in Burst(damaged + 1) : d2 = After(damaged + 1, v)
    BY <1>9, <2>1, BurstGrows
  <2>3. damaged' = damaged + 1 /\ damaged' \in 1..4
    BY <1>3, <1>9
  <2>4. d2 # {}
    <3>1. {} \in Word /\ v \in Word /\ v # {}
      BY <1>9 DEF Burst, Word
    <3>2. damaged + 1 \in 1..4
      BY <1>9
    <3>3. After(damaged + 1, v) # After(damaged + 1, {})
      BY <3>1, <3>2, AfterXor
    <3>4. After(damaged + 1, {}) = {}
      BY <3>2, NothingReduced DEF After
    <3> QED
      BY <2>2, <3>3, <3>4
  <2> HIDE DEF d2
  <2>5. Damages(Xor(client, server))'
    BY <1>2, <1>6, <2>2, <2>3, <2>4 DEF Damages, d2
  <2> QED
    BY <1>4, <2>5 DEF ConversionsInv
<1>10. CASE damaged >= 4
  <2>1. error = {} /\ damaged' > 4
    BY <1>1, <1>3, <1>10
  <2>2. d2 # {}
    <3>1. {} \in Word /\ d # {}
      BY <1>1, <1>10 DEF Word
    <3>2. Eight(d) # Eight({})
      BY <1>1, <3>1, EightXor
    <3> QED
      BY <1>5, <2>1, <3>2, NothingReduced
  <2> HIDE DEF d2
  <2>3. Damages(Xor(client, server))'
    BY <1>2, <1>3, <1>6, <2>1, <2>2 DEF Damages, d2
  <2> QED
    BY <1>4, <2>3 DEF ConversionsInv
<1>11. damaged = 0 \/ damaged \in 1..3 \/ damaged >= 4
  BY <1>1
<1> QED
  BY <1>7, <1>8, <1>9, <1>10, <1>11

LEMMA InvStep == ConversionsInv /\ [Next]_vars => ConversionsInv'
<1> SUFFICES ASSUME ConversionsInv, [Next]_vars PROVE ConversionsInv'
  OBVIOUS
<1>1. CASE TypeName
  <2>1. Types'
    BY <1>1 DEF ConversionsInv, Types, TypeName, texts, sums
  <2>2. client' = client /\ server' = server /\ damaged' = damaged
    BY <1>1 DEF TypeName, sums
  <2>3. Calendar'
    BY <1>1 DEF ConversionsInv, Calendar, TypeName, times
  <2> QED
    BY <2>1, <2>2, <2>3 DEF ConversionsInv, Damages
<1>2. CASE TypePath
  <2>1. Types'
    BY <1>2 DEF ConversionsInv, Types, TypePath, names, sums
  <2>2. client' = client /\ server' = server /\ damaged' = damaged
    BY <1>2 DEF TypePath, sums
  <2>3. Calendar'
    BY <1>2 DEF ConversionsInv, Calendar, TypePath, times
  <2> QED
    BY <2>1, <2>2, <2>3 DEF ConversionsInv, Damages
<1>3. CASE TypeVersion
  <2>1. /\ client' = client /\ server' = server /\ damaged' = damaged /\ length' = length
        /\ name' = name /\ root' = root /\ path' = path
    BY <1>3 DEF TypeVersion, sums, names
  <2>2. ASSUME NEW t \in Version, Len(t) < MaxVersion, NEW u \in Appends(t)
        PROVE  u \in Version /\ Len(u) <= MaxVersion
    <3>1. PICK x \in Token : u = Append(t, x)
      BY <2>2 DEF Appends
    <3>2. u \in Version /\ Len(u) = Len(t) + 1 /\ Len(t) \in Nat
      BY <3>1, AppendProperties, Elements DEF Version
    <3> QED
      BY <2>2, <3>2, InputsAssumption
  <2>3. \/ left' \in Appends(left) /\ Len(left) < MaxVersion /\ right' = right
        \/ right' \in Appends(right) /\ Len(right) < MaxVersion /\ left' = left
    BY <1>3 DEF TypeVersion
  <2>4. left \in Version /\ right \in Version /\ Len(left) <= MaxVersion /\ Len(right) <= MaxVersion
    BY DEF ConversionsInv, Types
  <2>5. /\ left' \in Version /\ Len(left') <= MaxVersion
        /\ right' \in Version /\ Len(right') <= MaxVersion
    BY <2>2, <2>3, <2>4
  <2>6. Calendar'
    BY <1>3 DEF ConversionsInv, Calendar, TypeVersion, times
  <2> QED
    BY <2>1, <2>5, <2>6 DEF ConversionsInv, Damages, Types
<1>4. CASE FirstByte
  <2>1. PICK byte \in SUBSET (0..7) : Travel(byte, {})
    BY <1>4 DEF FirstByte
  <2>2. byte \in Byte /\ {} \in Byte
    BY DEF Byte
  <2> QED
    BY <2>1, <2>2, TravelInv
<1>5. CASE FileByte
  <2>1. PICK byte \in FileBytes, error \in BitErrors :
          (error # {} => damaged < 4) /\ Travel(byte, error)
    BY <1>5 DEF FileByte
  <2>2. byte \in Byte /\ error \in Byte
    BY InputsAssumption DEF Byte
  <2> QED
    BY <2>1, <2>2, TravelInv
<1>6. CASE NextDay \/ NextSecond \/ UNCHANGED vars
  <2>1. /\ client' = client /\ server' = server /\ damaged' = damaged /\ length' = length
        /\ name' = name /\ root' = root /\ path' = path /\ left' = left /\ right' = right
    BY <1>6 DEF NextDay, NextSecond, vars, names, texts, sums
  <2>2. Calendar'
    <3>1. CASE NextDay /\ day < DaysOf(year, month)
      <4>1. /\ year' = year /\ month' = month /\ day' = day + 1
            /\ days' = days + 1 /\ seconds' = seconds
        BY <3>1 DEF NextDay
      <4>2. NextTo(year, month, day, year, month, day + 1)
        BY <3>1, NextInMonth DEF ConversionsInv, Calendar
      <4> QED
        BY <4>1, <4>2 DEF NextTo, ConversionsInv, Calendar
    <3>2. CASE NextDay /\ ~(day < DaysOf(year, month))
      <4>1. /\ year' = (IF month = 12 THEN year + 1 ELSE year) /\ month' = (month % 12) + 1
            /\ day' = 1 /\ days' = days + 1 /\ seconds' = seconds
        BY <3>2 DEF NextDay
      <4>2. day = DaysOf(year, month)
        BY <3>2 DEF ConversionsInv, Calendar, IsDay, DaysOf
      <4>3. NextTo(year, month, day, IF month = 12 THEN year + 1 ELSE year, (month % 12) + 1, 1)
        BY <4>2, NextMonth DEF ConversionsInv, Calendar
      <4>4. NextTo(year, month, day, year', month', day')
        BY <4>1, <4>3
      <4> QED
        BY <4>1, <4>4 DEF NextTo, ConversionsInv, Calendar
    <3>3. CASE NextSecond
      <4>1. /\ year' = year /\ month' = month /\ day' = day /\ days' = days
            /\ seconds' = seconds + 1 /\ seconds < 86399
        BY <3>3 DEF NextSecond
      <4> QED
        BY <4>1, SMT DEF ConversionsInv, Calendar
    <3>4. CASE UNCHANGED vars
      BY <3>4 DEF ConversionsInv, Calendar, vars, times
    <3> QED
      BY <1>6, <3>1, <3>2, <3>3, <3>4
  <2> QED
    BY <2>1, <2>2 DEF ConversionsInv, Damages, Types
<1> QED
  BY <1>1, <1>2, <1>3, <1>4, <1>5, <1>6 DEF Next

LEMMA ConversionsInvariant == Spec => []ConversionsInv
BY InitInv, InvStep, PTL DEF Spec

\* Both sides judge every name alike, of any length over any alphabet: a file
\* is synchronized just if it is 8.3 in capitals, and the server accepts the
\* path of every directory the client descends into.
THEOREM EveryNameJudged == Spec => []NamesAgree
<1>1. ConversionsInv => NamesAgree
  <2> SUFFICES ASSUME ConversionsInv PROVE NamesAgree
    OBVIOUS
  <2>1. IsText(name)
    BY DEF ConversionsInv, Types, IsText
  <2> QED
    BY <2>1, NameJudged DEF NamesAgree
<1> QED
  BY <1>1, ConversionsInvariant, PTL

\* For a file of any length and of any bytes the client's table and the
\* server's shifts give the same checksum; and when up to four consecutive
\* bytes arrive wrong, in whatever bits, the two are never the same again.
THEOREM ChecksumsTellDamage == Spec => []TellsDamage
<1>1. ConversionsInv => TellsDamage
  <2> SUFFICES ASSUME ConversionsInv, subject = "sums"
               PROVE  Not(client) = Not(server) <=> damaged = 0
    BY DEF TellsDamage
  <2>1. client = server <=> damaged = 0
    <3>1. Xor(client, server) = {} <=> client = server
      BY XorOf
    <3> QED
      BY <3>1 DEF ConversionsInv, Damages, Types
  <2>2. Not(client) = Not(server) => client = server
    BY SameWord DEF Not, ConversionsInv, Types
  <2> QED
    BY <2>1, <2>2
<1> QED
  BY <1>1, ConversionsInvariant, PTL

\* A path of any length that is sent to a client with buffers of any size
\* arrives whole or is refused; never is it cut to the path of another file.
THEOREM PathsArriveWhole == Spec => []PathsTravel
<1>1. ConversionsInv => PathsTravel
  <2> SUFFICES ASSUME ConversionsInv PROVE PathsTravel
    OBVIOUS
  <2>1. path \in Seq(0..255)
    BY InputsAssumption, Elements DEF ConversionsInv, Types
  <2> QED
    BY <2>1, PathTravels DEF PathsTravel
<1> QED
  BY <1>1, ConversionsInvariant, PTL

\* Below every folder, with a backslash at its end or without, a path has one
\* place; it is refused when it does not fit and never cut; and a download
\* into it is renamed within a directory that has been made.
THEOREM FilesInTheirPlaces == Spec => []PlacesHold
<1>1. ConversionsInv => PlacesHold
  <2> SUFFICES ASSUME ConversionsInv PROVE PlaceIsBelow /\ RenamesInPlace
    BY DEF PlacesHold
  <2> DEFINE dir == <<"A", "/">>
             p == dir \o name
             place == Place(root, p)
             at == protocol_to_local(root, p)
  <2>1. Folder(root) /\ root \in Text /\ Len(root) \in Nat
    <3>1. root \in Roots /\ Folder(root)
      BY InputsAssumption DEF ConversionsInv, Types, Folder, IsText, Text
    <3> QED
      BY <3>1, Elements DEF Folder, Text
  <2>2. p \in Text /\ Len(p) >= 2 /\ Len(p) \in Nat /\ p # <<>> /\ p[2] = Slash
    <3>1. dir \in Text /\ Len(dir) = 2 /\ dir[2] = Slash
      BY DEF Text, Characters, Slash
    <3>2. name \in Text /\ Len(name) \in Nat
      BY InputsAssumption, Elements, SeqMonotonic DEF ConversionsInv, Types, Text
    <3> HIDE DEF dir
    <3>3. /\ p \in Text /\ Len(p) = 2 + Len(name)
          /\ \A i \in 1..(2 + Len(name)) : p[i] = IF i <= 2 THEN dir[i] ELSE name[i - 2]
      <4>1. /\ dir \o name \in Text /\ Len(dir \o name) = Len(dir) + Len(name)
            /\ \A i \in 1..(Len(dir) + Len(name)) :
                 (dir \o name)[i] = IF i <= Len(dir) THEN dir[i] ELSE name[i - Len(dir)]
            /\ append_text(dir, name) \in {dir \o name, TooLong}
        BY <3>1, <3>2, Joined
      <4>2. Len(dir) + Len(name) = 2 + Len(name)
        BY <3>1, <3>2
      <4> QED
        BY <3>1, <3>2, <4>1, <4>2
    <3>4. 2 \in 1..(2 + Len(name)) /\ Len(p) >= 2 /\ Len(p) \in Nat /\ Len(p) # 0
      BY <3>2, <3>3
    <3>5. p # <<>>
      BY <3>4, EmptySeq
    <3> QED
      BY <3>1, <3>3, <3>4, <3>5
  <2>3. at = LocalOf /\ p = PathTo
    BY DEF LocalOf, PathTo
  <2> HIDE DEF p
  <2>4. /\ place \in Text /\ place # TooLong /\ Len(place) = Len(Bared(root)) + 1 + Len(p)
        /\ at = IF Len(place) < PathRoom THEN place ELSE TooLong
    BY <2>1, <2>2, PlaceOf
  <2>5. PlaceIsBelow
    <3>1. (IF EndsOpen(root) THEN root ELSE SubSeq(root, 1, Len(root) - 1)) \o <<Back>> \o Local(p)
            = place
      BY DEF Place, Bared
    <3>2. Len(place) \in Nat /\ PathRoom \in Nat
      BY <2>4, NameRulesAssumption, Elements DEF Text
    <3> HIDE DEF place, at
    <3>3. (at = TooLong \/ at = place) /\ (Len(place) + 1 <= PathRoom => at = place)
      BY <2>4, <3>2
    <3> QED
      BY <2>3, <3>1, <3>3 DEF PlaceIsBelow
  <2>6. RenamesInPlace
    <3> SUFFICES ASSUME at # TooLong, build_temp_path(at) # TooLong
                 PROVE  LET temp == build_temp_path(at)
                            d0 == SubSeq(at, 1, LastSep(at) - 1)
                        IN  /\ SubSeq(temp, 1, LastSep(temp) - 1) = d0
                            /\ d0 \in ensure_parent_dirs(at)
                            /\ \A d \in ensure_parent_dirs(at) :
                                  LastSep(d) > 3 =>
                                    SubSeq(d, 1, LastSep(d) - 1) \in ensure_parent_dirs(at)
      BY <2>3 DEF RenamesInPlace
    <3>1. at = place
      BY <2>4
    <3>2. LastSep(place) > 3
      BY <2>1, <2>2, PlaceHasDir
    <3> HIDE DEF place, at
    <3>3. at \in Text /\ LastSep(at) > 3
      BY <2>4, <3>1, <3>2
    <3> QED
      BY <3>3, TempBeside, ParentsMade
  <2> QED
    BY <2>5, <2>6
<1> QED
  BY <1>1, ConversionsInvariant, PTL

\* Releases are ordered part by part, however many parts and of whatever size,
\* and no two texts are each newer than the other.
THEOREM UpdatesOneWay == Spec => []VersionsOrdered
<1>1. ConversionsInv => VersionsOrdered
  <2> SUFFICES ASSUME ConversionsInv PROVE VersionsOrdered
    OBVIOUS
  <2>1. left \in Version /\ right \in Version /\ Len(left) <= MaxVersion /\ Len(right) <= MaxVersion
    BY DEF ConversionsInv, Types
  <2> QED
    BY <2>1, VersionsOpposite, ReleasesOrdered DEF VersionsOrdered
<1> QED
  BY <1>1, ConversionsInvariant, PTL

\* On every day of every year DOS has a stamp comes back from the server's
\* disk as it was, and every time on the server has the stamp of its calendar
\* day and its even second; before 1980 it has none.
THEOREM StampsComeBack == Spec => []StampsTrue
<1>1. ConversionsInv => StampsTrue
  <2> SUFFICES ASSUME ConversionsInv, year <= 2107
               PROVE  /\ year >= 1980 =>
                           system_time_to_dos(set_file_dos_time(None, Stamp)) = Stamp
                      /\ system_time_to_dos(Now) = IF year < 1980 THEN Zero ELSE Stamp
    BY DEF StampsTrue, ConversionsInv, Calendar, IsDay
  <2>1. /\ IsDay(year, month, day) /\ days = days_from_civil(year, month, day)
        /\ seconds \in Nat /\ seconds < 86400
    BY DEF ConversionsInv, Calendar
  <2>2. /\ year \in Nat /\ month \in 1..12 /\ day \in 1..31
    <3>1. year \in Nat /\ month \in 1..12 /\ day \in 1..DaysOf(year, month)
      BY <2>1 DEF IsDay
    <3> QED
      BY <3>1 DEF DaysOf
  <2> DEFINE h == seconds \div 3600
             m == (seconds \div 60) % 60
             u == (seconds % 60) \div 2
             even == h * 3600 + m * 60 + u * 2
  <2>3. /\ h \in 0..23 /\ m \in 0..59 /\ u \in 0..29
        /\ (seconds % 3600) \div 60 = m
        /\ even \in Int /\ even \div 3600 = h
        /\ (even % 3600) \div 60 = m /\ (even % 60) \div 2 = u
    BY <2>1, SecondBack
  <2>4. Stamp = [year |-> year - 1980, month |-> month, day |-> day,
                 hour |-> h, minute |-> m, second |-> u]
    BY DEF Stamp
  <2>5. ASSUME NEW s, year >= 1980,
               s \div 3600 = h, (s % 3600) \div 60 = m, (s % 60) \div 2 = u
        PROVE  system_time_to_dos([days |-> days, seconds |-> s]) = Stamp
    <3> DEFINE t == unix_to_ymdhms([days |-> days, seconds |-> s])
    <3>1. t = Dated(year, month, day, s)
      BY <2>1, CivilBack
    <3>2. (year - 1980) % 128 = year - 1980
      BY <2>2, <2>5
    <3> HIDE DEF t, h, m, u
    <3>3. t.year = year /\ ~(t.year < 1980)
      BY <2>2, <2>5, <3>1 DEF Dated
    <3>4. [t EXCEPT !.year = (@ - 1980) % 128, !.second = @ \div 2] = Stamp
      <4>1. t = [year |-> year, month |-> month, day |-> day,
                 hour |-> h, minute |-> m, second |-> s % 60]
        BY <2>5, <3>1 DEF Dated
      <4>2. t.second = s % 60
        BY <4>1
      <4>3. (t.year - 1980) % 128 = year - 1980 /\ t.second \div 2 = u
        BY <2>5, <3>2, <3>3, <4>2
      <4>4. t = Time(year, month, day, h, m, s % 60) /\ Stamp = Time(year - 1980, month, day, h, m, u)
        BY <2>4, <4>1 DEF Time
      <4>5. WithSecond(WithYear(t, year - 1980), u) = Stamp
        BY <4>4, Restamped
      <4>6. [t EXCEPT !.year = (@ - 1980) % 128, !.second = @ \div 2] =
              WithSecond(WithYear(t, (t.year - 1980) % 128), t.second \div 2)
        BY DEF WithSecond, WithYear
      <4> QED
        BY <4>3, <4>5, <4>6
    <3>5. system_time_to_dos([days |-> days, seconds |-> s]) =
            IF t.year < 1980 THEN Zero
            ELSE [t EXCEPT !.year = (@ - 1980) % 128, !.second = @ \div 2]
      BY DEF system_time_to_dos, t
    <3> QED
      BY <3>3, <3>4, <3>5
  <2>6. ASSUME year < 1980 PROVE system_time_to_dos(Now) = Zero
    <3>1. unix_to_ymdhms(Now) = Dated(year, month, day, seconds)
      BY <2>1, CivilBack DEF Now
    <3>2. unix_to_ymdhms(Now).year = year
      BY <3>1 DEF Dated
    <3> QED
      BY <2>6, <3>2 DEF system_time_to_dos
  <2>7. ASSUME year >= 1980
        PROVE  set_file_dos_time(None, Stamp) = [days |-> days, seconds |-> even]
    <3> HIDE DEF h, m, u
    <3>1. /\ Stamp.year = year - 1980 /\ Stamp.month = month /\ Stamp.day = day
          /\ Stamp.hour = h /\ Stamp.minute = m /\ Stamp.second = u
      BY <2>4
    <3>2. Stamp # Zero
      BY <2>2, <3>1 DEF Zero
    <3>3. ~(\/ Stamp.month \notin 1..12 \/ Stamp.day \notin 1..31
            \/ Stamp.hour > 23 \/ Stamp.minute > 59 \/ Stamp.second > 29)
      BY <2>2, <2>3, <3>1
    <3>4. Stamp.year + 1980 = year
      BY <2>2, <3>1
    <3>5. dos_time_to_unix(Stamp) = [days |-> days, seconds |-> even]
      BY <2>1, <3>1, <3>3, <3>4 DEF dos_time_to_unix
    <3>6. days \in Int
      BY <2>1, DaysCounted
    <3> HIDE DEF even
    <3>7. dos_time_to_unix(Stamp) # None
      BY <2>3, <3>5, <3>6, InputsAssumption
    <3> QED
      BY <3>2, <3>5, <3>7 DEF set_file_dos_time
  <2>8. ASSUME year >= 1980
        PROVE  /\ system_time_to_dos(Now) = Stamp
               /\ system_time_to_dos(set_file_dos_time(None, Stamp)) = Stamp
    <3>1. system_time_to_dos([days |-> days, seconds |-> seconds]) = Stamp
      BY <2>3, <2>5, <2>8
    <3> HIDE DEF even
    <3>2. system_time_to_dos([days |-> days, seconds |-> even]) = Stamp
      BY <2>3, <2>5, <2>8
    <3> QED
      BY <2>7, <2>8, <3>1, <3>2 DEF Now
  <2> QED
    BY <2>2, <2>6, <2>8
<1> QED
  BY <1>1, ConversionsInvariant, PTL
=============================================================================
