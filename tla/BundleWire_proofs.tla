--------------------------- MODULE BundleWire_proofs ---------------------------
(***************************************************************************)
(* Theorems about BundleWire, for any names, bundles and documents.        *)
(***************************************************************************)
EXTENDS BundleWire, SequenceTheorems, FiniteSetTheorems, TLAPS

------------------------------------------------------------------------------
(* Keys *)

LEMMA Named == ASSUME NEW n \in Names PROVE named(spelling[n]) = n
BY SpellingAssumption DEF named

\* The characters of a joined key.
LEMMA JoinedText ==
    ASSUME NEW key \in Names \X Names
    PROVE  LET k == Len(spelling[key[1]])
               l == Len(spelling[key[2]])
               text == joinKey(key)
           IN  /\ k \in Nat /\ l \in Nat
               /\ text \in Seq(Characters \cup {Sep}) /\ Len(text) = k + 1 + l
               /\ \A i \in 1..k : text[i] = spelling[key[1]][i]
               /\ text[k + 1] = Sep
               /\ \A i \in 1..l : text[k + 1 + i] = spelling[key[2]][i]
<1> DEFINE S == Characters \cup {Sep}
<1>1. PICK first, second : first = spelling[key[1]] /\ second = spelling[key[2]]
  OBVIOUS
<1>2. first \in Seq(S) /\ second \in Seq(S)
  BY <1>1, SpellingAssumption, SeqMonotonic
<1>3. <<Sep>> \in Seq(S) /\ Len(<<Sep>>) = 1 /\ <<Sep>>[1] = Sep
  OBVIOUS
<1> HIDE DEF S
<1>4. Len(first) \in Nat /\ Len(second) \in Nat
  BY <1>2, LenProperties
<1>5. PICK front : front = first \o <<Sep>>
  OBVIOUS
<1>6. /\ front \in Seq(S) /\ Len(front) = Len(first) + 1
      /\ \A i \in 1..Len(first) : front[i] = first[i]
      /\ front[Len(first) + 1] = Sep
  BY <1>2, <1>3, <1>4, <1>5, ConcatProperties
<1>7. PICK text : text = front \o second
  OBVIOUS
<1>8. /\ text \in Seq(S) /\ Len(text) = Len(first) + 1 + Len(second)
      /\ \A i \in 1..Len(first) + 1 : text[i] = front[i]
      /\ \A i \in 1..Len(second) : text[Len(first) + 1 + i] = second[i]
  <2>1. /\ text \in Seq(S) /\ Len(text) = Len(front) + Len(second)
        /\ \A i \in 1..Len(front) + Len(second) :
                text[i] = IF i <= Len(front) THEN front[i] ELSE second[i - Len(front)]
    <3>1. front \in Seq(S)
      BY <1>6
    <3> QED
      BY <1>2, <1>7, <3>1, ConcatProperties
  <2>2. \A i \in 1..Len(first) + 1 : text[i] = front[i]
    BY <1>4, <1>6, <2>1
  <2>3. ASSUME NEW i \in 1..Len(second)
        PROVE  text[Len(first) + 1 + i] = second[i]
    <3>1. PICK j : j = Len(first) + 1 + i
      OBVIOUS
    <3>2. j \in 1..Len(front) + Len(second) /\ ~(j <= Len(front)) /\ j - Len(front) = i
      BY <1>4, <1>6, <3>1
    <3> QED
      BY <2>1, <3>1, <3>2
  <2> QED
    BY <1>6, <2>1, <2>2, <2>3
<1>9. text = joinKey(key)
  BY <1>1, <1>5, <1>7 DEF joinKey
<1>10. \A i \in 1..Len(first) : text[i] = first[i]
  BY <1>4, <1>6, <1>8
<1>11. text[Len(first) + 1] = Sep
  BY <1>4, <1>6, <1>8
<1> QED
  BY <1>1, <1>4, <1>8, <1>9, <1>10, <1>11 DEF S

\* A key whose first name is clean is what is split from its text.
LEMMA SplitJoined ==
    ASSUME NEW key \in Names \X Names, CleanKey(key)
    PROVE  HasSep(joinKey(key)) /\ splitKey(joinKey(key)) = key
<1> DEFINE S == Characters \cup {Sep}
<1>1. PICK first, second, text :
        first = spelling[key[1]] /\ second = spelling[key[2]] /\ text = joinKey(key)
  OBVIOUS
<1>2. /\ Len(first) \in Nat /\ Len(second) \in Nat
      /\ text \in Seq(S) /\ Len(text) = Len(first) + 1 + Len(second)
      /\ \A i \in 1..Len(first) : text[i] = first[i]
      /\ text[Len(first) + 1] = Sep
      /\ \A i \in 1..Len(second) : text[Len(first) + 1 + i] = second[i]
  BY <1>1, JoinedText
<1>3. first \in Seq(S) /\ second \in Seq(S)
  BY <1>1, SpellingAssumption, SeqMonotonic
<1>4. \A i \in 1..Len(first) : first[i] # Sep
  BY <1>1, <1>3, LenProperties DEF CleanKey, Clean
<1> HIDE DEF S
<1>5. DOMAIN text = 1..Len(first) + 1 + Len(second)
  BY <1>2, LenProperties
<1>6. cut(text) = Len(first) + 1
  <2> DEFINE IsCut(i) == text[i] = Sep /\ \A j \in 1..(i - 1) : text[j] # Sep
  <2>1. Len(first) + 1 \in DOMAIN text /\ IsCut(Len(first) + 1)
    BY <1>2, <1>4, <1>5
  <2>2. ASSUME NEW i \in DOMAIN text, IsCut(i)
        PROVE  i = Len(first) + 1
    <3>1. i \in Int /\ 1 <= i
      BY <1>2, <1>5
    <3>2. ~(i < Len(first) + 1)
      BY <1>2, <1>4, <2>2, <3>1
    <3>3. ~(Len(first) + 1 < i)
      BY <1>2, <2>2, <3>1
    <3> QED
      BY <1>2, <3>1, <3>2, <3>3
  <2> HIDE DEF IsCut
  <2>3. cut(text) = CHOOSE i \in DOMAIN text : IsCut(i)
    BY DEF cut, IsCut
  <2> QED
    BY <2>1, <2>2, <2>3
<1>7. SubSeq(text, 1, cut(text) - 1) = first
  <2>1. \A i \in 1..Len(first) : text[i] \in S
    BY <1>2, <1>3, ElementOfSeq
  <2>2. PICK part : part = SubSeq(text, 1, Len(first))
    OBVIOUS
  <2>3. part \in Seq(S) /\ Len(part) = Len(first)
        /\ \A i \in 1..Len(first) : part[i] = first[i]
    BY <1>2, <2>1, <2>2, SubSeqProperties
  <2> QED
    BY <1>2, <1>3, <1>6, <2>2, <2>3, SeqEqual
<1>8. SubSeq(text, cut(text) + 1, Len(text)) = second
  <2>1. PICK m, n : m = Len(first) + 2 /\ n = Len(first) + 1 + Len(second)
    OBVIOUS
  <2>2. m \in Int /\ n \in Int /\ \A i \in m..n : text[i] \in S
    BY <1>2, <2>1, ElementOfSeq
  <2>3. PICK part : part = SubSeq(text, m, n)
    OBVIOUS
  <2>4. /\ part \in Seq(S) /\ Len(part) = IF m <= n THEN n - m + 1 ELSE 0
        /\ \A i \in 1..n - m + 1 : part[i] = text[m + i - 1]
    BY <2>2, <2>3, SubSeqProperties
  <2>5. Len(part) = Len(second) /\ n - m + 1 = Len(second)
    BY <1>2, <2>1, <2>4
  <2>6. \A i \in 1..Len(second) : part[i] = second[i]
    <3>1. ASSUME NEW i \in 1..Len(second)
          PROVE  part[i] = second[i]
      <4>1. m + i - 1 = Len(first) + 1 + i
        BY <1>2, <2>1
      <4> QED
        BY <1>2, <2>4, <2>5, <4>1
    <3> QED
      BY <3>1
  <2>7. part = second
    BY <1>3, <2>4, <2>5, <2>6, SeqEqual
  <2>8. cut(text) + 1 = m /\ Len(text) = n
    BY <1>2, <1>6, <2>1
  <2> QED
    BY <2>3, <2>7, <2>8
<1>9. key[1] \in Names /\ key[2] \in Names /\ key = <<key[1], key[2]>>
  OBVIOUS
<1>10. splitKey(text) = key
  BY <1>1, <1>7, <1>8, <1>9, Named DEF splitKey
<1>11. HasSep(text)
  BY <1>2, <1>5 DEF HasSep
<1> QED
  BY <1>1, <1>10, <1>11

------------------------------------------------------------------------------
(* Texts *)

LEMMA LeastNumber ==
    ASSUME NEW T, T \subseteq Nat, T # {}
    PROVE  \E x \in T : \A y \in T : x <= y
<1>1. \A y, z \in Nat : y < z => <<y, z>> \in OpToRel(<, Nat)
  BY DEF OpToRel
<1>2. \E less : IsWellFoundedOn(less, Nat) /\ \A y, z \in Nat : y < z => <<y, z>> \in less
  BY <1>1, NatLessThanWellFounded, Zenon
<1>3. PICK less : IsWellFoundedOn(less, Nat) /\ \A y, z \in Nat : y < z => <<y, z>> \in less
  BY <1>2
<1>4. IsWellFoundedOn(less, Nat)
  BY <1>3, Zenon
<1>5. \A y, z \in Nat : y < z => <<y, z>> \in less
  BY <1>3, Zenon
<1>6. \E x \in T : \A y \in T : ~(<<y, x>> \in less)
  BY <1>4, WFMin, Zenon
<1>7. PICK x \in T : \A y \in T : ~(<<y, x>> \in less)
  BY <1>6
<1>8. ASSUME NEW y \in T
      PROVE  x <= y
  <2>1. x \in Nat /\ y \in Nat
    OBVIOUS
  <2>2. ~(y < x)
    BY <1>5, <1>7, <2>1, Zenon
  <2> QED
    BY <2>1, <2>2
<1> QED
  BY <1>8

LEMMA CutIsSep ==
    ASSUME NEW text \in Seq(Characters), HasSep(text)
    PROVE  cut(text) \in 1..Len(text) /\ text[cut(text)] = Sep
<1>1. Len(text) \in Nat /\ DOMAIN text = 1..Len(text)
  BY LenProperties
<1> DEFINE seps == {i \in 1..Len(text) : text[i] = Sep}
<1>2. seps # {} /\ seps \subseteq Nat
  BY <1>1 DEF HasSep
<1>3. PICK i \in seps : \A j \in seps : i <= j
  BY <1>2, LeastNumber
<1>4. ASSUME NEW j \in 1..(i - 1)
      PROVE  text[j] # Sep
  <2>1. i \in 1..Len(text)
    BY <1>3
  <2>2. j \in 1..Len(text) /\ ~(i <= j)
    BY <1>1, <2>1
  <2> QED
    BY <1>3, <2>2
<1>5. i \in DOMAIN text /\ text[i] = Sep /\ \A j \in 1..(i - 1) : text[j] # Sep
  BY <1>1, <1>3, <1>4
<1>6. cut(text) \in DOMAIN text /\ text[cut(text)] = Sep
  BY <1>5, Zenon DEF cut
<1> QED
  BY <1>1, <1>6

\* The text of a document is that of the key it is split into.
LEMMA JoinSplit ==
    ASSUME NEW text \in Seq(Characters), HasSep(text),
           {SubSeq(text, 1, cut(text) - 1), SubSeq(text, cut(text) + 1, Len(text))}
                \subseteq {spelling[n] : n \in Names}
    PROVE  splitKey(text) \in Names \X Names /\ joinKey(splitKey(text)) = text
<1>1. Len(text) \in Nat /\ DOMAIN text = 1..Len(text)
  BY LenProperties
<1>2. PICK c : c = cut(text)
  OBVIOUS
<1>3. c \in 1..Len(text) /\ text[c] = Sep
  BY <1>2, CutIsSep
<1>4. PICK m \in Names : SubSeq(text, 1, c - 1) = spelling[m]
  BY <1>2
<1>5. PICK n \in Names : SubSeq(text, c + 1, Len(text)) = spelling[n]
  BY <1>2
<1>6. splitKey(text) = <<m, n>>
  BY <1>2, <1>4, <1>5, Named DEF splitKey
<1>7. PICK key : key = <<m, n>>
  OBVIOUS
<1>8. key \in Names \X Names /\ key[1] = m /\ key[2] = n
  BY <1>7
<1>9. PICK joined : joined = joinKey(key)
  OBVIOUS
<1> DEFINE S == Characters \cup {Sep}
<1>10. PICK k, l : k = Len(spelling[m]) /\ l = Len(spelling[n])
  OBVIOUS
<1>11. /\ k \in Nat /\ l \in Nat /\ joined \in Seq(S) /\ Len(joined) = k + 1 + l
       /\ \A i \in 1..k : joined[i] = spelling[m][i]
       /\ joined[k + 1] = Sep
       /\ \A i \in 1..l : joined[k + 1 + i] = spelling[n][i]
  BY <1>8, <1>9, <1>10, JoinedText
<1>12. text \in Seq(S)
  BY SeqMonotonic
<1>13. \A i \in 1..Len(text) : text[i] \in S
  BY <1>12, ElementOfSeq
<1> HIDE DEF S
<1>14. k = c - 1 /\ \A i \in 1..k : spelling[m][i] = text[i]
  <2>1. 1 \in Int /\ c - 1 \in Int /\ \A i \in 1..(c - 1) : text[i] \in S
    BY <1>1, <1>3, <1>13
  <2>2. PICK part : part = SubSeq(text, 1, c - 1)
    OBVIOUS
  <2>3. PICK last : last = c - 1
    OBVIOUS
  <2>4. /\ Len(part) = IF 1 <= last THEN last - 1 + 1 ELSE 0
        /\ \A i \in 1..last - 1 + 1 : part[i] = text[1 + i - 1]
    BY <2>1, <2>2, <2>3, SubSeqProperties
  <2>5. last \in Nat /\ Len(part) = last
    BY <1>1, <1>3, <2>3, <2>4
  <2>6. ASSUME NEW i \in 1..last
        PROVE  part[i] = text[i]
    <3>1. i \in 1..last - 1 + 1 /\ 1 + i - 1 = i
      BY <2>5
    <3> QED
      BY <2>4, <3>1
  <2> QED
    BY <1>4, <1>10, <2>2, <2>3, <2>5, <2>6
<1>15. l = Len(text) - c /\ \A i \in 1..l : spelling[n][i] = text[c + i]
  <2>1. PICK first, last : first = c + 1 /\ last = Len(text)
    OBVIOUS
  <2>2. first \in Int /\ last \in Int /\ \A i \in first..last : text[i] \in S
    BY <1>1, <1>3, <1>13, <2>1
  <2>3. PICK part : part = SubSeq(text, first, last)
    OBVIOUS
  <2>4. /\ Len(part) = IF first <= last THEN last - first + 1 ELSE 0
        /\ \A i \in 1..last - first + 1 : part[i] = text[first + i - 1]
    BY <2>2, <2>3, SubSeqProperties
  <2>5. Len(part) = Len(text) - c /\ last - first + 1 = Len(text) - c
    <3>1. c \in Nat /\ last \in Nat /\ c <= last /\ first = c + 1
      BY <1>1, <1>3, <2>1
    <3>2. last - first + 1 = last - c /\ (~(first <= last) => last - c = 0)
      BY <3>1
    <3>3. Len(part) = last - c
      BY <2>4, <3>2
    <3> QED
      BY <2>1, <3>2, <3>3
  <2>6. ASSUME NEW i \in 1..Len(text) - c
        PROVE  part[i] = text[c + i]
    <3>1. first + i - 1 = c + i
      BY <1>1, <1>3, <2>1
    <3> QED
      BY <2>4, <2>5, <3>1
  <2> QED
    BY <1>5, <1>10, <2>1, <2>3, <2>5, <2>6
<1>16. Len(joined) = Len(text)
  BY <1>1, <1>3, <1>11, <1>14, <1>15
<1>17. ASSUME NEW i \in 1..Len(text)
       PROVE  joined[i] = text[i]
  <2>1. CASE i \in 1..k
    BY <1>11, <1>14, <2>1
  <2>2. CASE i = k + 1
    BY <1>1, <1>3, <1>11, <1>14, <2>2
  <2>3. CASE i \notin 1..k /\ i # k + 1
    <3>1. PICK j : j = i - c
      OBVIOUS
    <3>2. j \in 1..l /\ k + 1 + j = i /\ c + j = i
      BY <1>1, <1>3, <1>11, <1>14, <1>15, <2>3, <3>1
    <3> QED
      BY <1>11, <1>15, <3>2
  <2> QED
    BY <2>1, <2>2, <2>3
<1>18. joined = text
  BY <1>11, <1>12, <1>16, <1>17, SeqEqual
<1> QED
  BY <1>6, <1>7, <1>8, <1>9, <1>18

------------------------------------------------------------------------------
(* Maps *)

\* A map under other keys has its values under them, when no two become one.
LEMMA RenamedMap ==
    ASSUME NEW map, NEW name, DOMAIN name = DOMAIN map,
           \A k, l \in DOMAIN map : name[k] = name[l] => k = l
    PROVE  /\ DOMAIN Renamed(map, name) = {name[k] : k \in DOMAIN map}
           /\ \A k \in DOMAIN map : Renamed(map, name)[name[k]] = map[k]
           /\ IsFiniteSet(DOMAIN map) =>
                /\ IsFiniteSet(DOMAIN Renamed(map, name))
                /\ Cardinality(DOMAIN Renamed(map, name)) = Cardinality(DOMAIN map)
<1> DEFINE T == {name[k] : k \in DOMAIN map}
           back(t) == CHOOSE k \in DOMAIN map : name[k] = t
<1>1. DOMAIN Renamed(map, name) = T /\ \A t \in T : Renamed(map, name)[t] = map[back(t)]
  BY DEF Renamed
<1>2. \A k \in DOMAIN map : name[k] \in T /\ back(name[k]) = k
  OBVIOUS
<1>3. ASSUME IsFiniteSet(DOMAIN map)
      PROVE  IsFiniteSet(T) /\ Cardinality(T) = Cardinality(DOMAIN map)
  <2> DEFINE f == [k \in DOMAIN map |-> name[k]]
  <2>1. f \in [DOMAIN map -> T] /\ \A k \in DOMAIN map : f[k] = name[k]
    OBVIOUS
  <2>2. \A t \in T : \E k \in DOMAIN map : name[k] = t
    OBVIOUS
  <2>3. PICK D, g : D = DOMAIN map /\ g = f
    OBVIOUS
  <2> HIDE DEF f, T
  <2>4. g \in Surjection(D, T)
    BY <2>1, <2>2, <2>3 DEF Surjection
  <2>5. g \in Injection(D, T)
    BY <2>1, <2>3 DEF Injection, IsInjective
  <2> QED
    BY <1>3, <2>3, <2>4, <2>5, FS_Surjection
<1> QED
  BY <1>1, <1>2, <1>3

\* The keys of a map that MarshalJSON accepts become texts, one each.
LEMMA JoinedMap ==
    ASSUME NEW map, IsKeyed(map), \A k \in DOMAIN map : CleanKey(k)
    PROVE  /\ DOMAIN Joined(map) = {joinKey(k) : k \in DOMAIN map}
           /\ \A k \in DOMAIN map : Joined(map)[joinKey(k)] = map[k]
           /\ IsFiniteSet(DOMAIN Joined(map))
           /\ \A text \in DOMAIN Joined(map) :
                HasSep(text) /\ splitKey(text) \in DOMAIN map
                             /\ joinKey(splitKey(text)) = text
<1> DEFINE name == [k \in DOMAIN map |-> joinKey(k)]
<1>1. \A k \in DOMAIN map : HasSep(joinKey(k)) /\ splitKey(joinKey(k)) = k
  BY SplitJoined DEF IsKeyed
<1>2. DOMAIN name = DOMAIN map /\ \A k \in DOMAIN map : name[k] = joinKey(k)
  OBVIOUS
<1>3. Joined(map) = Renamed(map, name) /\ IsFiniteSet(DOMAIN map)
  BY DEF Joined, IsKeyed
<1> HIDE DEF name
<1>4. \A k, l \in DOMAIN map : name[k] = name[l] => k = l
  BY <1>1, <1>2
<1>5. /\ DOMAIN Joined(map) = {name[k] : k \in DOMAIN map}
      /\ \A k \in DOMAIN map : Joined(map)[name[k]] = map[k]
      /\ IsFiniteSet(DOMAIN Joined(map))
  <2>1. DOMAIN name = DOMAIN map
    BY <1>2
  <2>2. /\ DOMAIN Renamed(map, name) = {name[k] : k \in DOMAIN map}
        /\ \A k \in DOMAIN map : Renamed(map, name)[name[k]] = map[k]
        /\ IsFiniteSet(DOMAIN map) => IsFiniteSet(DOMAIN Renamed(map, name))
    BY <1>4, <2>1, RenamedMap, Zenon
  <2> QED
    BY <1>3, <2>2
<1> QED
  BY <1>1, <1>2, <1>5

\* Splitting gives the map back.
LEMMA SplitJoinedMap ==
    ASSUME NEW map, IsKeyed(map), \A k \in DOMAIN map : CleanKey(k)
    PROVE  Split(Joined(map)) = map
<1>1. PICK texts : texts = Joined(map)
  OBVIOUS
<1>2. /\ DOMAIN texts = {joinKey(k) : k \in DOMAIN map}
      /\ \A k \in DOMAIN map : texts[joinKey(k)] = map[k]
      /\ \A text \in DOMAIN texts : splitKey(text) \in DOMAIN map
                                    /\ joinKey(splitKey(text)) = text
  BY <1>1, JoinedMap
<1> DEFINE name == [text \in DOMAIN texts |-> splitKey(text)]
<1>3. DOMAIN name = DOMAIN texts /\ \A text \in DOMAIN texts : name[text] = splitKey(text)
  OBVIOUS
<1>4. Split(texts) = Renamed(texts, name)
  BY DEF Split
<1>5. \A k \in DOMAIN map : splitKey(joinKey(k)) = k
  BY SplitJoined DEF IsKeyed
<1> HIDE DEF name
<1>6. \A s, t \in DOMAIN texts : name[s] = name[t] => s = t
  BY <1>2, <1>3
<1>7. /\ DOMAIN Split(texts) = {name[t] : t \in DOMAIN texts}
      /\ \A t \in DOMAIN texts : Split(texts)[name[t]] = texts[t]
  <2>1. DOMAIN name = DOMAIN texts
    BY <1>3
  <2>2. /\ DOMAIN Renamed(texts, name) = {name[t] : t \in DOMAIN texts}
        /\ \A t \in DOMAIN texts : Renamed(texts, name)[name[t]] = texts[t]
    BY <1>6, <2>1, RenamedMap, Zenon
  <2> QED
    BY <1>4, <2>2
<1>8. DOMAIN Split(texts) = DOMAIN map
  BY <1>2, <1>3, <1>5, <1>7
<1>9. \A k \in DOMAIN map : Split(texts)[k] = map[k]
  <2>1. ASSUME NEW k \in DOMAIN map
        PROVE  Split(texts)[k] = map[k]
    <3>1. joinKey(k) \in DOMAIN texts /\ name[joinKey(k)] = k
      BY <1>2, <1>3, <1>5
    <3> QED
      BY <1>2, <1>7, <3>1
  <2> QED
    BY <2>1
<1>10. Split(texts) = [k \in DOMAIN Split(texts) |-> Split(texts)[k]]
  BY <1>4 DEF Renamed
<1>11. map = [k \in DOMAIN map |-> map[k]]
  BY DEF IsKeyed, IsMap
<1> QED
  BY <1>1, <1>8, <1>9, <1>10, <1>11

\* No two of a document's texts with separators are split into one key.
LEMMA SplitKeepsNumber ==
    ASSUME NEW map, IsFiniteSet(DOMAIN map),
           \A text \in DOMAIN map : joinKey(splitKey(text)) = text
    PROVE  Cardinality(DOMAIN Split(map)) = Cardinality(DOMAIN map)
<1> DEFINE name == [text \in DOMAIN map |-> splitKey(text)]
<1>1. DOMAIN name = DOMAIN map /\ \A text \in DOMAIN map : name[text] = splitKey(text)
  OBVIOUS
<1>2. Split(map) = Renamed(map, name)
  BY DEF Split
<1> HIDE DEF name
<1>3. \A s, t \in DOMAIN map : name[s] = name[t] => s = t
  BY <1>1
<1> QED
  BY <1>1, <1>2, <1>3, RenamedMap

------------------------------------------------------------------------------
(* Documents *)

Maps == {"system", "tenant", "capabilities", "autonomy"}

\* What the fields of a marshalled bundle read as: an omitted one as the empty
\* map that it stands for.
LEMMA EncodedFields ==
    ASSUME NEW b \in Bundles
    PROVE  /\ Lookup(Encode(b), "version", 0) = b.version
           /\ Field(Encode(b), "system") = Joined(b.system)
           /\ Field(Encode(b), "tenant") = JoinedEach(b.tenant)
           /\ Field(Encode(b), "capabilities") = JoinedEach(b.capabilities)
           /\ Field(Encode(b), "autonomy") = b.autonomy
<1> DEFINE kept == {"version"} \cup {f \in Maps : DOMAIN b[f] # {}}
<1>1. /\ DOMAIN Encode(b) = kept
      /\ Encode(b)["version"] = b.version
      /\ "system" \in kept => Encode(b)["system"] = Joined(b.system)
      /\ "tenant" \in kept => Encode(b)["tenant"] = JoinedEach(b.tenant)
      /\ "capabilities" \in kept => Encode(b)["capabilities"] = JoinedEach(b.capabilities)
      /\ "autonomy" \in kept => Encode(b)["autonomy"] = b.autonomy
  BY DEF Encode, Maps
<1>2. \A f \in Maps : f \in kept <=> DOMAIN b[f] # {}
  BY DEF Maps
<1>3. DOMAIN b.system = {} => Joined(b.system) = NoKeys
  BY DEF Joined, Renamed, NoKeys
<1>4. DOMAIN b.tenant = {} => JoinedEach(b.tenant) = NoKeys
  BY DEF JoinedEach, NoKeys
<1>5. DOMAIN b.capabilities = {} => JoinedEach(b.capabilities) = NoKeys
  BY DEF JoinedEach, NoKeys
<1>6. DOMAIN b.autonomy = {} => b.autonomy = NoKeys
  BY BundleAssumption DEF IsMap, NoKeys
<1> HIDE DEF kept
<1>7. "version" \in kept
  BY DEF kept
<1> QED
  BY <1>1, <1>2, <1>3, <1>4, <1>5, <1>6, <1>7 DEF Field, Lookup, Maps

\* A signed bundle is always parseable ...
LEMMA EncodedUnmarshals ==
    ASSUME NEW b \in Bundles, Marshals(b)
    PROVE  Unmarshals(Encode(b))
<1>1. \A text \in DOMAIN Joined(b.system) : HasSep(text)
  BY JoinedMap, BundleAssumption DEF Marshals
<1>2. \A t \in DOMAIN JoinedEach(b.tenant) :
        \A text \in DOMAIN JoinedEach(b.tenant)[t] : HasSep(text)
  BY JoinedMap, BundleAssumption DEF Marshals, JoinedEach
<1>3. \A t \in DOMAIN JoinedEach(b.capabilities) :
        \A text \in DOMAIN JoinedEach(b.capabilities)[t] : HasSep(text)
  BY JoinedMap, BundleAssumption DEF Marshals, JoinedEach
<1> QED
  BY <1>1, <1>2, <1>3, EncodedFields, InvalidAssumption DEF Unmarshals

\* ... into the bundle that was marshalled.
LEMMA EncodedDecodes ==
    ASSUME NEW b \in Bundles, Marshals(b)
    PROVE  Decode(Encode(b)) = b
<1>1. Split(Joined(b.system)) = b.system
  BY SplitJoinedMap, BundleAssumption DEF Marshals
<1>2. ASSUME NEW maps, IsMap(maps), \A t \in DOMAIN maps : IsKeyed(maps[t]),
             \A t \in DOMAIN maps : \A k \in DOMAIN maps[t] : CleanKey(k)
      PROVE  SplitEach(JoinedEach(maps)) = maps
  <2>1. DOMAIN JoinedEach(maps) = DOMAIN maps
        /\ \A t \in DOMAIN maps : JoinedEach(maps)[t] = Joined(maps[t])
    BY DEF JoinedEach
  <2>2. SplitEach(JoinedEach(maps)) = [t \in DOMAIN maps |-> Split(Joined(maps[t]))]
    BY <2>1 DEF SplitEach
  <2>3. \A t \in DOMAIN maps : Split(Joined(maps[t])) = maps[t]
    BY <1>2, SplitJoinedMap
  <2>4. maps = [t \in DOMAIN maps |-> maps[t]]
    BY <1>2 DEF IsMap
  <2> QED
    BY <2>2, <2>3, <2>4
<1>3. SplitEach(JoinedEach(b.tenant)) = b.tenant
  BY <1>2, BundleAssumption DEF Marshals
<1>4. SplitEach(JoinedEach(b.capabilities)) = b.capabilities
  BY <1>2, BundleAssumption DEF Marshals
<1>5. Decode(Encode(b)) =
        [version |-> b.version, system |-> b.system, tenant |-> b.tenant,
         capabilities |-> b.capabilities, autonomy |-> b.autonomy]
  BY <1>1, <1>3, <1>4, EncodedFields DEF Decode
<1>6. b = [f \in {"version", "system", "tenant", "capabilities", "autonomy"} |-> b[f]]
  BY BundleAssumption DEF IsMap
<1> QED
  BY <1>5, <1>6

\* Every text of a document that UnmarshalJSON accepts is its key's.
Faithful(map) ==
    IsFiniteSet(DOMAIN map) /\ \A text \in DOMAIN map : joinKey(splitKey(text)) = text

FaithfulDoc(doc) ==
    /\ Faithful(Field(doc, "system"))
    /\ \A f \in {"tenant", "capabilities"} :
        \A t \in DOMAIN Field(doc, f) : Faithful(Field(doc, f)[t])

LEMMA DocumentsFaithful ==
    ASSUME NEW doc \in Documents, Unmarshals(doc) PROVE FaithfulDoc(doc)
<1>1. ASSUME NEW map, IsTexts(map), \A text \in DOMAIN map : HasSep(text)
      PROVE  Faithful(map)
  BY <1>1, JoinSplit DEF IsTexts, Faithful
<1> QED
  BY <1>1, DocumentAssumption DEF FaithfulDoc, Unmarshals

LEMMA EncodedFaithful ==
    ASSUME NEW b \in Bundles, Marshals(b) PROVE FaithfulDoc(Encode(b))
<1>1. Faithful(Joined(b.system))
  BY JoinedMap, BundleAssumption DEF Marshals, Faithful
<1>2. \A t \in DOMAIN JoinedEach(b.tenant) : Faithful(JoinedEach(b.tenant)[t])
  BY JoinedMap, BundleAssumption DEF Marshals, JoinedEach, Faithful
<1>3. \A t \in DOMAIN JoinedEach(b.capabilities) : Faithful(JoinedEach(b.capabilities)[t])
  BY JoinedMap, BundleAssumption DEF Marshals, JoinedEach, Faithful
<1> QED
  BY <1>1, <1>2, <1>3, EncodedFields DEF FaithfulDoc

------------------------------------------------------------------------------
(* Marshalling and unmarshalling *)

Encoded(b, doc) == Marshals(b) /\ doc = Encode(b)

\* A document is of a bundle that marshals or of another producer, and what a
\* service decodes is the document's.
WireInv ==
    /\ \/ /\ bundle \in Bundles
          /\ stage \in {"compiled", "refused", "encoded", "decoded"}
          /\ stage \in {"encoded", "decoded"} => Encoded(bundle, wire)
       \/ /\ bundle = NoBundle /\ wire \in Documents
          /\ stage \in {"encoded", "failed", "decoded"}
    /\ stage = "decoded" => Unmarshals(wire) /\ decoded = Decode(wire)

LEMMA WireInvariant == Spec => []WireInv
<1>1. Init => WireInv
  BY DEF Init, WireInv
<1>2. WireInv /\ [Next]_wireVars => WireInv'
  <2> SUFFICES ASSUME WireInv, [Next]_wireVars
               PROVE  WireInv'
    OBVIOUS
  <2>1. CASE Marshal
    BY <2>1, BundleAssumption DEF Marshal, WireInv, Encoded
  <2>2. CASE MarshalFails
    BY <2>2, BundleAssumption DEF MarshalFails, WireInv
  <2>3. CASE Unmarshal
    BY <2>3 DEF Unmarshal, WireInv
  <2>4. CASE UnmarshalFails
    BY <2>4, EncodedUnmarshals DEF UnmarshalFails, WireInv, Encoded
  <2>5. CASE UNCHANGED wireVars
    BY <2>5 DEF wireVars, WireInv
  <2> QED
    BY <2>1, <2>2, <2>3, <2>4, <2>5 DEF Next
<1> QED
  BY <1>1, <1>2, PTL DEF Spec

\* A bundle that marshals is decoded, and into itself: the check of the names
\* on the side that signs is enough, whatever the names.
THEOREM SignedBundlesRoundTrip == Spec => []RoundTrip
<1>1. WireInv => RoundTrip
  BY EncodedDecodes DEF WireInv, Encoded, RoundTrip
<1> QED
  BY <1>1, WireInvariant, PTL

\* Cutting at the first separator loses nothing: a service holds as many rules
\* and capabilities as the document has, wherever its names have separators.
THEOREM DecodingMergesNothing == Spec => []NoRuleMerged
<1>1. WireInv => NoRuleMerged
  <2> SUFFICES ASSUME WireInv, stage = "decoded"
               PROVE  /\ Cardinality(DOMAIN decoded.system)
                            = Cardinality(DOMAIN Field(wire, "system"))
                      /\ \A f \in {"tenant", "capabilities"} :
                            \A t \in DOMAIN Field(wire, f) :
                                Cardinality(DOMAIN decoded[f][t])
                                    = Cardinality(DOMAIN Field(wire, f)[t])
    BY DEF NoRuleMerged
  <2>1. FaithfulDoc(wire)
    BY DocumentsFaithful, EncodedFaithful DEF WireInv, Encoded
  <2>2. \A map : Faithful(map) => Cardinality(DOMAIN Split(map)) = Cardinality(DOMAIN map)
    BY SplitKeepsNumber DEF Faithful
  <2>3. /\ decoded.system = Split(Field(wire, "system"))
        /\ decoded.tenant = SplitEach(Field(wire, "tenant"))
        /\ decoded.capabilities = SplitEach(Field(wire, "capabilities"))
    BY DEF WireInv, Decode
  <2>4. ASSUME NEW f \in {"tenant", "capabilities"}, NEW t \in DOMAIN Field(wire, f)
        PROVE  decoded[f][t] = Split(Field(wire, f)[t]) /\ Faithful(Field(wire, f)[t])
    BY <2>1, <2>3 DEF SplitEach, FaithfulDoc
  <2> QED
    BY <2>1, <2>2, <2>3, <2>4 DEF FaithfulDoc
<1> QED
  BY <1>1, WireInvariant, PTL

------------------------------------------------------------------------------
(* Older documents *)

\* A policy without profiles, or without capabilities, lets no agent act.
LEMMA NoProfilesDeny ==
    ASSUME NEW b, NEW req, b.autonomy = NoKeys \/ b.capabilities = NoKeys
    PROVE  AgentDenial(b, req) # None
<1>1. CASE b.autonomy = NoKeys
  BY <1>1 DEF AgentDenial, None, NoKeys
<1>2. CASE b.capabilities = NoKeys
  <2>1. Lookup(b.capabilities, req.id.tenant, NoKeys) = NoKeys
    BY <1>2 DEF Lookup, NoKeys
  <2>2. CapabilityFor(b, req.id, req.action) = NoCapability
    BY <2>1 DEF CapabilityFor, Lookup, NoKeys
  <2>3. ~CapabilityFor(b, req.id, req.action).allow
    <3>1. NoCapability.allow = FALSE
      BY DEF NoCapability
    <3> QED
      BY <2>2, <3>1, Zenon
  <2> QED
    BY <2>3 DEF AgentDenial, None
<1> QED
  BY <1>1, <1>2

\* A document of a producer that knows no capabilities or no profiles grants
\* no agent anything, approved or not, whatever its role may do.
THEOREM OlderBundlesFailClosed == Spec => []OlderBundleGrantsNoAgent
<1>1. WireInv => OlderBundleGrantsNoAgent
  <2> SUFFICES ASSUME WireInv, stage = "decoded",
                      ~({"capabilities", "autonomy"} \subseteq DOMAIN wire),
                      NEW req \in AgentRequests
               PROVE  Decide(decoded, Answer(TRUE), req).effect = "DENY"
    BY DEF OlderBundleGrantsNoAgent
  <2>1. Field(wire, "autonomy") = NoKeys \/ Field(wire, "capabilities") = NoKeys
    BY DEF Field, Lookup
  <2>2. SplitEach(NoKeys) = NoKeys
    <3>1. DOMAIN NoKeys = {}
      BY DEF NoKeys
    <3>2. SplitEach(NoKeys) = [t \in {} |-> Split(NoKeys[t])]
      BY <3>1 DEF SplitEach
    <3> QED
      BY <3>2 DEF NoKeys
  <2>3. decoded.autonomy = NoKeys \/ decoded.capabilities = NoKeys
    BY <2>1, <2>2 DEF WireInv, Decode
  <2>4. AgentDenial(decoded, req) # None
    BY <2>3, NoProfilesDeny
  <2>5. LateDenial(decoded, Answer(TRUE), req) # None
    BY <2>4, BundleAssumption DEF LateDenial, GateDenial
  <2> QED
    BY <2>5 DEF Decide, Conclude, DenyEarly, deny
<1> QED
  BY <1>1, WireInvariant, PTL

==============================================================================
