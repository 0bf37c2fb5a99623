---------------------------- MODULE Regex_proofs ----------------------------
(***************************************************************************)
(* The theorems about Regex: replace_all stays inside its buffer, the      *)
(* groups a handle tells are those of its last exec, and replace and count *)
(* answer exactly what the matches they dealt with call for. They hold for *)
(* any patterns, texts and replacements, and any regexec that reports      *)
(* matches inside the text it is given and, of a pattern with no anchor    *)
(* and no empty match, the first one.                                      *)
(***************************************************************************)
EXTENDS Regex, FiniteSetTheorems, WellFoundedInduction, TLAPS

(* There are n numbers from 1 to n.                                        *)
LEMMA FirstNumbers ==
  ASSUME NEW n \in Nat
  PROVE  IsFiniteSet(1..n) /\ Cardinality(1..n) = n
<1>1. 1 \in Int /\ n \in Int
  OBVIOUS
<1>2. /\ IsFiniteSet(1..n)
      /\ Cardinality(1..n) = IF 1 > n THEN 0 ELSE n - 1 + 1
  BY <1>1, FS_Interval
<1>3. QED
  BY <1>2

(* The characters kept are some of those counted, so there are finitely    *)
(* many, and of more characters no fewer are kept.                         *)
LEMMA KeptIsBounded ==
  ASSUME NEW cuts, NEW i \in Nat
  PROVE  /\ IsFiniteSet({x \in 1..i : ~CutBy(cuts, x)})
         /\ Kept(cuts, i) \in Nat
<1>1. IsFiniteSet(1..i)
  BY FirstNumbers
<1>2. IsFiniteSet({x \in 1..i : ~CutBy(cuts, x)})
  BY <1>1, FS_Subset
<1>3. QED
  BY <1>2, FS_CardinalityType DEF Kept

(* Of a longer text more characters are kept.                              *)
LEMMA KeptGrows ==
  ASSUME NEW cuts, NEW i \in Nat, NEW j \in Nat, i <= j
  PROVE  Kept(cuts, i) <= Kept(cuts, j)
<1> DEFINE S == {x \in 1..i : ~CutBy(cuts, x)}
           T == {x \in 1..j : ~CutBy(cuts, x)}
<1>1. S \in SUBSET T
  OBVIOUS
<1>2. IsFiniteSet(T)
  BY KeptIsBounded
<1> HIDE DEF S, T
<1>3. Cardinality(S) <= Cardinality(T)
  BY <1>1, <1>2, FS_Subset
<1>4. QED
  BY <1>3 DEF Kept, S, T

(* A character that is kept is one of those kept up to it.                 *)
LEMMA KeptCounts ==
  ASSUME NEW cuts, NEW x \in Nat \ {0}, ~CutBy(cuts, x)
  PROVE  Kept(cuts, x) >= 1
<1> DEFINE S == {y \in 1..x : ~CutBy(cuts, y)}
<1>1. x \in S
  OBVIOUS
<1>2. IsFiniteSet(S) /\ Kept(cuts, x) \in Nat
  BY KeptIsBounded
<1> HIDE DEF S
<1>3. Cardinality(S) # 0
  BY <1>1, <1>2, FS_EmptySet
<1>4. QED
  BY <1>2, <1>3 DEF Kept, S

(* Characters that are all kept are counted, and those of a match are not. *)
LEMMA KeptAll ==
  ASSUME NEW cuts, NEW i \in Nat, NEW j \in Nat, i <= j,
         \A x \in (i + 1)..j : ~CutBy(cuts, x)
  PROVE  Kept(cuts, j) = Kept(cuts, i) + (j - i)
<1> DEFINE S == {x \in 1..i : ~CutBy(cuts, x)}
           T == {x \in 1..j : ~CutBy(cuts, x)}
           U == (i + 1)..j
<1>1. T = S \cup U /\ S \cap U = {}
  OBVIOUS
<1>2. IsFiniteSet(S) /\ Cardinality(S) \in Nat
  BY KeptIsBounded DEF Kept
<1>3. IsFiniteSet(U) /\ Cardinality(U) = j - i
  <2>1. i + 1 \in Int /\ j \in Int
    OBVIOUS
  <2>2. /\ IsFiniteSet(U)
        /\ Cardinality(U) = IF i + 1 > j THEN 0 ELSE j - (i + 1) + 1
    BY <2>1, FS_Interval
  <2>3. QED
    BY <2>2
<1> HIDE DEF S, T, U
<1>4. Cardinality(T) = Cardinality(S) + Cardinality(U) - Cardinality(S \cap U)
  BY <1>1, <1>2, <1>3, FS_Union
<1>5. Cardinality(S \cap U) = 0
  BY <1>1, FS_EmptySet
<1>6. Cardinality(T) = Cardinality(S) + (j - i)
  BY <1>2, <1>3, <1>4, <1>5
<1>7. QED
  BY <1>6 DEF Kept, S, T

(* A stretch that is all cut out adds nothing to what is kept.             *)
LEMMA KeptNone ==
  ASSUME NEW cuts, NEW i \in Nat, NEW j \in Nat, i <= j,
         \A x \in (i + 1)..j : CutBy(cuts, x)
  PROVE  Kept(cuts, j) = Kept(cuts, i)
<1>1. {x \in 1..j : ~CutBy(cuts, x)} = {x \in 1..i : ~CutBy(cuts, x)}
  OBVIOUS
<1>2. QED
  BY <1>1 DEF Kept

(* The matches before a character are some of the matches, all of them     *)
(* behind the last.                                                        *)
LEMMA BeforeIsBounded ==
  ASSUME NEW cuts \in Seq(Nat \X Nat), NEW i \in Nat
  PROVE  Before(cuts, i) \in Nat /\ Before(cuts, i) <= Len(cuts)
<1> DEFINE S == {k \in DOMAIN cuts : cuts[k][2] < i}
<1>1. DOMAIN cuts = 1..Len(cuts) /\ Len(cuts) \in Nat
  OBVIOUS
<1>2. IsFiniteSet(1..Len(cuts)) /\ Cardinality(1..Len(cuts)) = Len(cuts)
  BY <1>1, FirstNumbers
<1>3. S \in SUBSET (1..Len(cuts))
  BY <1>1
<1> HIDE DEF S
<1>4. IsFiniteSet(S) /\ Cardinality(S) <= Len(cuts)
  BY <1>2, <1>3, FS_Subset
<1>5. Cardinality(S) \in Nat
  BY <1>4, FS_CardinalityType
<1>6. QED
  BY <1>4, <1>5 DEF Before, S

(* Cuts that all end before a place are all counted there.                 *)
LEMMA AllBefore ==
  ASSUME NEW cuts \in Seq(Nat \X Nat), NEW i \in Nat,
         \A k \in DOMAIN cuts : cuts[k][2] < i
  PROVE  Before(cuts, i) = Len(cuts)
<1>1. DOMAIN cuts = 1..Len(cuts) /\ Len(cuts) \in Nat
  OBVIOUS
<1>2. {k \in DOMAIN cuts : cuts[k][2] < i} = 1..Len(cuts)
  BY <1>1
<1> DEFINE n == Len(cuts)
<1>3. n \in Nat
  OBVIOUS
<1> HIDE DEF n
<1>4. Cardinality(1..n) = n
  BY <1>3, FirstNumbers
<1>5. QED
  BY <1>2, <1>4 DEF Before, n

(* Numbers of replacements.                                                *)
LEMMA FewerReplacements ==
  ASSUME NEW a \in Nat, NEW n \in Nat, NEW r \in Nat, a <= n
  PROVE  a * r \in Nat /\ n * r \in Nat /\ a * r <= n * r
  OBVIOUS

(* One replacement more is one length more.                                *)
LEMMA OneReplacementMore ==
  ASSUME NEW n \in Nat, NEW r \in Nat
  PROVE  (n + 1) * r = n * r + r /\ n * r \in Nat /\ (n + 1) - 1 = n
  OBVIOUS

(* The numbers of a position: k of n replacements, and a character that is *)
(* number m of the kept ones.                                              *)
LEMMA CharacterFits ==
  ASSUME NEW m \in Nat, NEW all \in Nat, NEW k \in Nat, NEW n \in Nat,
         NEW r \in Nat, 1 <= m, m <= all, k <= n
  PROVE  m + k * r \in 1..(all + n * r)
<1>1. k * r \in Nat /\ n * r \in Nat /\ k * r <= n * r
  BY FewerReplacements
<1>2. QED
  BY <1>1

(* The place of a character of a replacement lies in the answer.           *)
LEMMA ReplacementFits ==
  ASSUME NEW m \in Nat, NEW all \in Nat, NEW k \in Nat, NEW n \in Nat,
         NEW r \in Nat, NEW x \in 1..r, m <= all, 1 <= k, k <= n
  PROVE  m + (k - 1) * r + x \in 1..(all + n * r)
<1> DEFINE j == k - 1
<1>1. j \in Nat /\ j + 1 <= n
  OBVIOUS
<1> HIDE DEF j
<1>2. (j + 1) * r = j * r + r /\ j * r \in Nat
  BY <1>1, OneReplacementMore
<1>3. (j + 1) * r <= n * r /\ n * r \in Nat
  BY <1>1, FewerReplacements
<1>4. m + j * r + x \in 1..(all + n * r)
  BY <1>2, <1>3
<1>5. QED
  BY <1>4 DEF j

(* What a buffer holds of the text and the replacements lies inside it.    *)
LEMMA PositionsFit ==
  ASSUME NEW S, NEW cuts \in Seq(Nat \X Nat), NEW i \in Nat, InOrder(cuts, i),
         NEW repl \in Seq(S), NEW len,
         len = Kept(cuts, i) + Len(cuts) * Len(repl)
  PROVE  /\ \A x \in 1..i : ~CutBy(cuts, x) =>
              Kept(cuts, x) + Before(cuts, x) * Len(repl) \in 1..len
         /\ \A k \in DOMAIN cuts : \A n \in 1..Len(repl) :
              Kept(cuts, cuts[k][1]) + (k - 1) * Len(repl) + n \in 1..len
<1> DEFINE all == Kept(cuts, i)
           r == Len(repl)
           count == Len(cuts)
<1>1. all \in Nat /\ r \in Nat /\ count \in Nat /\ DOMAIN cuts = 1..count
  <2>1. all \in Nat
    BY KeptIsBounded
  <2>2. QED
    BY <2>1
<1>2. ASSUME NEW x \in 1..i, ~CutBy(cuts, x)
      PROVE  Kept(cuts, x) + Before(cuts, x) * r \in 1..(all + count * r)
  <2>1. x \in Nat \ {0} /\ x <= i
    OBVIOUS
  <2>2. Kept(cuts, x) \in Nat /\ 1 <= Kept(cuts, x) /\ Kept(cuts, x) <= all
    BY <1>2, <2>1, KeptIsBounded, KeptCounts, KeptGrows
  <2>3. Before(cuts, x) \in Nat /\ Before(cuts, x) <= count
    BY <2>1, BeforeIsBounded
  <2> HIDE DEF all, r, count
  <2>4. QED
    BY <1>1, <2>2, <2>3, CharacterFits
<1>3. ASSUME NEW k \in DOMAIN cuts, NEW n \in 1..r
      PROVE  Kept(cuts, cuts[k][1]) + (k - 1) * r + n \in 1..(all + count * r)
  <2>1. cuts[k][1] \in Nat /\ cuts[k][1] <= i
    <3>1. cuts[k] \in Nat \X Nat
      OBVIOUS
    <3>2. cuts[k][1] <= cuts[k][2] /\ cuts[k][2] <= i
      BY DEF InOrder
    <3>3. QED
      BY <3>1, <3>2
  <2>2. Kept(cuts, cuts[k][1]) \in Nat /\ Kept(cuts, cuts[k][1]) <= all
    BY <2>1, KeptIsBounded, KeptGrows
  <2>3. k \in Nat /\ 1 <= k /\ k <= count
    BY <1>1
  <2> DEFINE m == Kept(cuts, cuts[k][1])
  <2> HIDE DEF all, r, count, m
  <2>4. m + (k - 1) * r + n \in 1..(all + count * r)
    BY <1>1, <2>2, <2>3, ReplacementFits DEF m
  <2>5. QED
    BY <2>4 DEF m
<1>4. QED
  BY <1>2, <1>3

(* Copying the characters after i, none of them in a match dealt with.     *)
LEMMA TextCopied ==
  ASSUME NEW S, NEW text \in Seq(S), NEW repl \in Seq(S), NEW buf \in Seq(S),
         NEW cuts \in Seq(Nat \X Nat),
         NEW i \in 0..Len(text), NEW j \in i..Len(text),
         InOrder(cuts, i), IsReplaced(text, cuts, repl, i, buf)
  PROVE  /\ InOrder(cuts, j)
         /\ IsReplaced(text, cuts, repl, j, buf \o SubSeq(text, i + 1, j))
         /\ \A x \in (i + 1)..j : ~CutBy(cuts, x)
<1> DEFINE r == Len(repl)
           n == Len(cuts)
           len == Len(buf)
           more == SubSeq(text, i + 1, j)
           new == buf \o more
<1>1. /\ i \in Nat /\ j \in Nat /\ i <= j /\ Len(text) \in Nat /\ j <= Len(text)
      /\ r \in Nat /\ n \in Nat /\ len \in Nat /\ DOMAIN cuts = 1..n
  OBVIOUS
<1>2. /\ more \in Seq(S) /\ Len(more) = j - i
      /\ \A x \in 1..(j - i) : more[x] = text[i + x]
  OBVIOUS
<1> HIDE DEF more
<1>3. /\ new \in Seq(S) /\ Len(new) = len + (j - i)
      /\ \A x \in 1..len : new[x] = buf[x]
      /\ \A x \in 1..(j - i) : new[len + x] = more[x]
  BY <1>1, <1>2
<1> HIDE DEF new
<1>4. \A k \in 1..n : /\ cuts[k][1] \in Nat /\ cuts[k][2] \in Nat
                      /\ cuts[k][1] <= cuts[k][2] /\ cuts[k][2] <= i
  <2>1. \A k \in 1..n : cuts[k] \in Nat \X Nat
    BY <1>1
  <2>2. QED
    BY <1>1, <2>1 DEF InOrder
<1>5. InOrder(cuts, j)
  <2>1. \A k \in DOMAIN cuts : cuts[k][1] <= cuts[k][2] /\ cuts[k][2] <= j
    BY <1>1, <1>4
  <2>2. QED
    BY <2>1 DEF InOrder
<1>6. ASSUME NEW x \in (i + 1)..j PROVE ~CutBy(cuts, x)
  BY <1>1, <1>4 DEF CutBy
<1>7. len = Kept(cuts, i) + n * r
  BY DEF IsReplaced
<1>8. /\ \A x \in 1..i : ~CutBy(cuts, x) =>
              Kept(cuts, x) + Before(cuts, x) * r \in 1..len
      /\ \A k \in 1..n : \A m \in 1..r :
              Kept(cuts, cuts[k][1]) + (k - 1) * r + m \in 1..len
  BY <1>1, <1>7, PositionsFit
<1>9. Kept(cuts, i) \in Nat /\ Kept(cuts, j) = Kept(cuts, i) + (j - i)
      /\ n * r \in Nat
  <2>1. Kept(cuts, i) \in Nat
    BY <1>1, KeptIsBounded
  <2>2. Kept(cuts, j) = Kept(cuts, i) + (j - i)
    BY <1>1, <1>6, KeptAll
  <2>3. n * r \in Nat
    <3> HIDE DEF n, r
    <3>1. QED
      BY <1>1, OneReplacementMore
  <2>4. QED
    BY <2>1, <2>2, <2>3
<1>10. Len(new) = Kept(cuts, j) + n * r
  <2> HIDE DEF n, r, len
  <2>1. QED
    BY <1>1, <1>3, <1>7, <1>9
<1>11. ASSUME NEW x \in 1..j, ~CutBy(cuts, x)
       PROVE  new[Kept(cuts, x) + Before(cuts, x) * r] = text[x]
  <2>1. CASE x <= i
    <3>1. x \in 1..i
      BY <1>1, <2>1
    <3>2. buf[Kept(cuts, x) + Before(cuts, x) * r] = text[x]
      BY <1>11, <3>1 DEF IsReplaced
    <3> HIDE DEF r
    <3>3. QED
      BY <1>3, <1>8, <1>11, <3>1, <3>2
  <2>2. CASE ~(x <= i)
    <3>1. x \in (i + 1)..j /\ x \in Nat /\ x - i \in 1..(j - i) /\ i + (x - i) = x
      BY <1>1, <2>2
    <3>2. Kept(cuts, x) = Kept(cuts, i) + (x - i)
      <4>1. \A y \in (i + 1)..x : ~CutBy(cuts, y)
        BY <1>1, <1>6, <3>1
      <4>2. i <= x
        BY <1>1, <3>1
      <4>3. QED
        BY <1>1, <3>1, <4>1, <4>2, KeptAll
    <3>3. Before(cuts, x) = n
      <4>1. \A k \in DOMAIN cuts : cuts[k][2] < x
        BY <1>1, <1>4, <3>1
      <4>2. QED
        BY <3>1, <4>1, AllBefore
    <3>4. Kept(cuts, x) + Before(cuts, x) * r = len + (x - i)
      <4> DEFINE product == n * r
      <4>1. Before(cuts, x) * r = product /\ product \in Nat
        BY <1>9, <3>3
      <4>2. len = Kept(cuts, i) + product
        BY <1>7
      <4> HIDE DEF product, r, len, n
      <4>3. QED
        BY <1>1, <1>9, <3>1, <3>2, <4>1, <4>2
    <3>5. new[len + (x - i)] = text[x]
      <4>1. new[len + (x - i)] = more[x - i]
        BY <1>3, <3>1
      <4>2. more[x - i] = text[i + (x - i)]
        BY <1>2, <3>1
      <4>3. QED
        BY <3>1, <4>1, <4>2
    <3>6. QED
      BY <3>4, <3>5
  <2>3. QED
    BY <2>1, <2>2
<1>12. ASSUME NEW k \in 1..n, NEW m \in 1..r
       PROVE  new[Kept(cuts, cuts[k][1]) + (k - 1) * r + m] = repl[m]
  <2>1. buf[Kept(cuts, cuts[k][1]) + (k - 1) * r + m] = repl[m]
    BY <1>1 DEF IsReplaced
  <2> HIDE DEF r
  <2>2. QED
    BY <1>3, <1>8, <2>1
<1>13. IsReplaced(text, cuts, repl, j, new)
  BY <1>1, <1>10, <1>11, <1>12 DEF IsReplaced
<1>14. QED
  BY <1>5, <1>6, <1>13 DEF new, more

(* What is dealt with stays in order when more of the text is counted, and *)
(* no match is behind it.                                                  *)
LEMMA InOrderStays ==
  ASSUME NEW cuts \in Seq(Nat \X Nat), NEW i \in Nat, NEW j \in Nat, i <= j,
         InOrder(cuts, i)
  PROVE  /\ InOrder(cuts, j)
         /\ \A x \in (i + 1)..j : ~CutBy(cuts, x)
<1>1. ASSUME NEW k \in DOMAIN cuts
      PROVE  /\ cuts[k][1] \in Nat /\ cuts[k][2] \in Nat
             /\ cuts[k][1] <= cuts[k][2] /\ cuts[k][2] <= i
  <2>1. cuts[k] \in Nat \X Nat
    OBVIOUS
  <2>2. QED
    BY <2>1 DEF InOrder
<1>2. \A k \in DOMAIN cuts : cuts[k][1] <= cuts[k][2] /\ cuts[k][2] <= j
  BY <1>1
<1>3. InOrder(cuts, j)
  BY <1>2 DEF InOrder
<1>4. ASSUME NEW x \in (i + 1)..j PROVE ~CutBy(cuts, x)
  BY <1>1 DEF CutBy
<1>5. QED
  BY <1>3, <1>4

(* One match more, from a to b, behind all that are dealt with.            *)
LEMMA MatchAppended ==
  ASSUME NEW cuts \in Seq(Nat \X Nat), NEW a \in Nat, NEW b \in Nat, a <= b,
         InOrder(cuts, a)
  PROVE  /\ Append(cuts, <<a, b>>) \in Seq(Nat \X Nat)
         /\ InOrder(Append(cuts, <<a, b>>), b)
         /\ \A x \in Nat : CutBy(Append(cuts, <<a, b>>), x) <=>
                             CutBy(cuts, x) \/ (a < x /\ x <= b)
<1> DEFINE n == Len(cuts)
           all == Append(cuts, <<a, b>>)
<1>1. n \in Nat /\ DOMAIN cuts = 1..n
  OBVIOUS
<1>3. /\ all \in Seq(Nat \X Nat) /\ Len(all) = n + 1 /\ DOMAIN all = 1..(n + 1)
      /\ \A k \in 1..n : all[k] = cuts[k]
      /\ all[n + 1] = <<a, b>>
  BY <1>1
<1> HIDE DEF all
<1>4. all[n + 1][1] = a /\ all[n + 1][2] = b
  BY <1>3
<1>5. \A k \in 1..n : /\ cuts[k][1] \in Nat /\ cuts[k][2] \in Nat
                      /\ cuts[k][1] <= cuts[k][2] /\ cuts[k][2] <= a
  <2>1. \A k \in 1..n : cuts[k] \in Nat \X Nat
    BY <1>1
  <2>2. QED
    BY <1>1, <2>1 DEF InOrder
<1>6. \A k \in 1..(n + 1) : k \in 1..n \/ k = n + 1
  BY <1>1
<1>6b. ASSUME NEW k \in 1..n
       PROVE  k \in 1..(n + 1) /\ k \in DOMAIN all /\ all[k] = cuts[k]
  <2> DEFINE last == n
  <2>1. k \in 1..last /\ last \in Nat
    BY <1>1
  <2> HIDE DEF last
  <2>2. k \in 1..(last + 1)
    BY <2>1
  <2>3. k \in 1..(n + 1)
    BY <2>2 DEF last
  <2>4. all[k] = cuts[k]
    BY <1>3
  <2>5. QED
    BY <1>3, <2>3, <2>4
<1>7. InOrder(all, b)
  <2>1. ASSUME NEW k \in 1..(n + 1)
        PROVE  all[k][1] <= all[k][2] /\ all[k][2] <= b
    <3>1. CASE k \in 1..n
      <4>1. all[k] = cuts[k]
        BY <1>6b, <3>1
      <4>2. /\ cuts[k][1] \in Nat /\ cuts[k][2] \in Nat
            /\ cuts[k][1] <= cuts[k][2] /\ cuts[k][2] <= a
        BY <1>5, <3>1
      <4> HIDE DEF n
      <4>3. QED
        BY <1>1, <4>1, <4>2
    <3>2. CASE k = n + 1
      BY <1>1, <1>4, <3>2
    <3>3. QED
      BY <1>6, <3>1, <3>2
  <2>2. ASSUME NEW j \in 1..(n + 1), NEW k \in 1..(n + 1), j < k
        PROVE  all[j][2] <= all[k][1]
    <3>1. j \in 1..n
      BY <1>1, <2>2
    <3>2. CASE k \in 1..n
      BY <1>1, <1>3, <2>2, <3>1, <3>2 DEF InOrder
    <3>3. CASE k = n + 1
      BY <1>3, <1>4, <1>5, <3>1, <3>3
    <3>4. QED
      BY <1>6, <3>2, <3>3
  <2>3. QED
    BY <1>3, <2>1, <2>2 DEF InOrder
<1>8. ASSUME NEW x \in Nat
      PROVE  CutBy(all, x) <=> CutBy(cuts, x) \/ (a < x /\ x <= b)
  <2>1. ASSUME CutBy(cuts, x) PROVE CutBy(all, x)
    <3>1. PICK k \in 1..n : cuts[k][1] < x /\ x <= cuts[k][2]
      BY <1>1, <2>1 DEF CutBy
    <3>2. k \in DOMAIN all /\ all[k] = cuts[k]
      BY <1>6b
    <3>3. QED
      BY <3>1, <3>2 DEF CutBy
  <2>2. ASSUME a < x, x <= b PROVE CutBy(all, x)
    <3>1. n + 1 \in DOMAIN all
      BY <1>1, <1>3
    <3>2. QED
      BY <1>4, <2>2, <3>1 DEF CutBy
  <2>3. ASSUME CutBy(all, x) PROVE CutBy(cuts, x) \/ (a < x /\ x <= b)
    <3>1. PICK k \in 1..(n + 1) : all[k][1] < x /\ x <= all[k][2]
      BY <1>3, <2>3 DEF CutBy
    <3>2. CASE k \in 1..n
      BY <1>1, <1>3, <3>1, <3>2 DEF CutBy
    <3>3. CASE k = n + 1
      BY <1>4, <3>1, <3>3
    <3>4. QED
      BY <1>6, <3>2, <3>3
  <2>4. QED
    BY <2>1, <2>2, <2>3
<1>9. QED
  BY <1>3, <1>7, <1>8 DEF all

(* Dealing with the match from a to b, when the characters before it are   *)
(* dealt with: it is cut out, and the replacement copied.                  *)
LEMMA ReplacementCopied ==
  ASSUME NEW S, NEW text \in Seq(S), NEW repl \in Seq(S), NEW buf \in Seq(S),
         NEW cuts \in Seq(Nat \X Nat),
         NEW a \in 0..Len(text), NEW b \in a..Len(text),
         InOrder(cuts, a), IsReplaced(text, cuts, repl, a, buf)
  PROVE  /\ InOrder(Append(cuts, <<a, b>>), b)
         /\ IsReplaced(text, Append(cuts, <<a, b>>), repl, b, buf \o repl)
<1> DEFINE r == Len(repl)
           n == Len(cuts)
           len == Len(buf)
           new == buf \o repl
           all == Append(cuts, <<a, b>>)
<1>1. /\ a \in Nat /\ b \in Nat /\ a <= b
      /\ r \in Nat /\ n \in Nat /\ len \in Nat /\ DOMAIN cuts = 1..n
  OBVIOUS
<1>2. /\ new \in Seq(S) /\ Len(new) = len + r
      /\ \A x \in 1..len : new[x] = buf[x]
      /\ \A x \in 1..r : new[len + x] = repl[x]
  OBVIOUS
<1>3. /\ all \in Seq(Nat \X Nat) /\ Len(all) = n + 1 /\ DOMAIN all = 1..(n + 1)
      /\ \A k \in 1..n : all[k] = cuts[k]
      /\ all[n + 1] = <<a, b>>
  BY <1>1
<1> HIDE DEF new, all
<1>4. all[n + 1][1] = a /\ all[n + 1][2] = b
  BY <1>3
<1>5. \A k \in 1..n : /\ cuts[k][1] \in Nat /\ cuts[k][2] \in Nat
                      /\ cuts[k][1] <= cuts[k][2] /\ cuts[k][2] <= a
  <2>1. \A k \in 1..n : cuts[k] \in Nat \X Nat
    BY <1>1
  <2>2. QED
    BY <1>1, <2>1 DEF InOrder
<1>6. \A k \in 1..(n + 1) : k \in 1..n \/ k = n + 1
  BY <1>1
<1>6x. ASSUME NEW k \in 1..n
       PROVE  k \in 1..(n + 1) /\ k \in DOMAIN all /\ all[k] = cuts[k]
  <2> DEFINE last == n
  <2>1. k \in 1..last /\ last \in Nat
    BY <1>1
  <2> HIDE DEF last
  <2>2. k \in 1..(last + 1)
    BY <2>1
  <2>3. k \in 1..(n + 1)
    BY <2>2 DEF last
  <2>4. all[k] = cuts[k]
    BY <1>3
  <2>5. QED
    BY <1>3, <2>3, <2>4
<1>7. InOrder(all, b)
  BY <1>1, MatchAppended DEF all
<1>8. ASSUME NEW x \in Nat
      PROVE  CutBy(all, x) <=> CutBy(cuts, x) \/ (a < x /\ x <= b)
  BY <1>1, MatchAppended DEF all
<1>9. ASSUME NEW i \in 0..a PROVE Kept(all, i) = Kept(cuts, i)
  <2>1. \A x \in 1..i : CutBy(all, x) <=> CutBy(cuts, x)
    BY <1>1, <1>8
  <2>2. {x \in 1..i : ~CutBy(all, x)} = {x \in 1..i : ~CutBy(cuts, x)}
    BY <2>1
  <2>3. QED
    BY <2>2 DEF Kept
<1>10. Kept(all, b) = Kept(cuts, a)
  <2>1. \A x \in (a + 1)..b : CutBy(all, x)
    BY <1>1, <1>8
  <2>2. Kept(all, b) = Kept(all, a)
    BY <1>1, <2>1, KeptNone
  <2>3. QED
    BY <1>1, <1>9, <2>2
<1>11. len = Kept(cuts, a) + n * r
  BY DEF IsReplaced
<1>12. /\ \A x \in 1..a : ~CutBy(cuts, x) =>
               Kept(cuts, x) + Before(cuts, x) * r \in 1..len
       /\ \A k \in 1..n : \A m \in 1..r :
               Kept(cuts, cuts[k][1]) + (k - 1) * r + m \in 1..len
  BY <1>1, <1>11, PositionsFit
<1>13. Kept(cuts, a) \in Nat /\ (n + 1) * r = n * r + r /\ n * r \in Nat
       /\ (n + 1) - 1 = n
  <2>1. Kept(cuts, a) \in Nat
    BY <1>1, KeptIsBounded
  <2> HIDE DEF n, r
  <2>2. QED
    BY <1>1, <2>1, OneReplacementMore
<1>14. Len(new) = Kept(all, b) + Len(all) * r
  <2>1. Len(all) * r = n * r + r
    <3> HIDE DEF n, r
    <3>1. QED
      BY <1>3, <1>13
  <2> DEFINE product == n * r
  <2>2. product \in Nat /\ len = Kept(cuts, a) + product /\ Len(all) * r = product + r
    BY <1>11, <1>13, <2>1
  <2> HIDE DEF product, n, r, len
  <2>3. QED
    BY <1>1, <1>2, <1>10, <1>13, <2>2
<1>15. ASSUME NEW x \in 1..b, ~CutBy(all, x)
       PROVE  new[Kept(all, x) + Before(all, x) * r] = text[x]
  <2>1. x \in 1..a /\ x \in 0..a /\ x \in Nat /\ ~CutBy(cuts, x)
    BY <1>1, <1>8, <1>15
  <2>2. Kept(all, x) = Kept(cuts, x)
    BY <1>9, <2>1
  <2>3. Before(all, x) = Before(cuts, x)
    <3>1. ~(all[n + 1][2] < x)
      BY <1>1, <1>4, <2>1
    <3>2. {k \in DOMAIN all : all[k][2] < x} = {k \in DOMAIN cuts : cuts[k][2] < x}
      <4>1. ASSUME NEW k \in DOMAIN all, all[k][2] < x
            PROVE  k \in DOMAIN cuts /\ cuts[k][2] < x
        BY <1>1, <1>3, <1>6, <3>1, <4>1
      <4>2. ASSUME NEW k \in DOMAIN cuts, cuts[k][2] < x
            PROVE  k \in DOMAIN all /\ all[k][2] < x
        <5>1. k \in 1..n
          BY <1>1
        <5>2. k \in DOMAIN all /\ all[k] = cuts[k]
          BY <1>6x, <5>1
        <5>3. QED
          BY <4>2, <5>2
      <4> HIDE DEF n
      <4>3. QED
        BY <4>1, <4>2
    <3>3. QED
      BY <3>2 DEF Before
  <2>4. buf[Kept(cuts, x) + Before(cuts, x) * r] = text[x]
    BY <2>1 DEF IsReplaced
  <2> HIDE DEF r
  <2>5. QED
    BY <1>2, <1>12, <2>1, <2>2, <2>3, <2>4
<1>16. ASSUME NEW k \in 1..(n + 1), NEW m \in 1..r
       PROVE  new[Kept(all, all[k][1]) + (k - 1) * r + m] = repl[m]
  <2>1. CASE k \in 1..n
    <3>1. cuts[k][1] \in 0..a /\ all[k] = cuts[k]
      <4>1. all[k] = cuts[k]
        BY <1>6x, <2>1
      <4>2. /\ cuts[k][1] \in Nat /\ cuts[k][2] \in Nat
            /\ cuts[k][1] <= cuts[k][2] /\ cuts[k][2] <= a
        BY <1>5, <2>1
      <4> HIDE DEF n
      <4>3. QED
        BY <1>1, <4>1, <4>2
    <3>2. Kept(all, all[k][1]) = Kept(cuts, cuts[k][1])
      BY <1>9, <3>1
    <3>3. buf[Kept(cuts, cuts[k][1]) + (k - 1) * r + m] = repl[m]
      BY <1>1, <2>1 DEF IsReplaced
    <3> HIDE DEF r
    <3>4. QED
      BY <1>2, <1>12, <2>1, <3>2, <3>3
  <2>2. CASE k = n + 1
    <3>1. Kept(all, all[k][1]) = Kept(cuts, a)
      BY <1>1, <1>4, <1>9, <2>2
    <3> DEFINE product == n * r
    <3>2. (k - 1) * r = product /\ product \in Nat
      BY <1>13, <2>2
    <3>3. len = Kept(cuts, a) + product
      BY <1>11
    <3> HIDE DEF product, n, r, len
    <3>4. Kept(all, all[k][1]) + (k - 1) * r + m = len + m
      BY <3>1, <3>2, <3>3
    <3>5. QED
      BY <1>2, <3>4
  <2>3. QED
    BY <1>6, <2>1, <2>2
<1>17. IsReplaced(text, all, repl, b, new)
  BY <1>3, <1>14, <1>15, <1>16 DEF IsReplaced
<1>18. QED
  BY <1>7, <1>17 DEF new, all

-----------------------------------------------------------------------------
(* A part of a part of a string.                                           *)
LEMMA PartOfPart ==
  ASSUME NEW S, NEW t \in Seq(S), NEW c \in 0..Len(t),
         NEW a \in c..Len(t), NEW b \in a..Len(t)
  PROVE  /\ a - c \in 0..(Len(t) - c) /\ b - c \in (a - c)..(Len(t) - c)
         /\ SubSeq(t, a + 1, b) =
              SubSeq(SubSeq(t, c + 1, Len(t)), (a - c) + 1, b - c)
<1> DEFINE rest == SubSeq(t, c + 1, Len(t))
           part == SubSeq(t, a + 1, b)
           same == SubSeq(rest, (a - c) + 1, b - c)
           n == Len(t)
<1>1. n \in Nat /\ c \in Nat /\ a \in Nat /\ b \in Nat /\ c <= a /\ a <= b /\ b <= n
  OBVIOUS
<1>2. /\ rest \in Seq(S) /\ Len(rest) = n - c
      /\ \A x \in 1..(n - c) : rest[x] = t[c + x]
  OBVIOUS
<1>3. /\ part \in Seq(S) /\ Len(part) = b - a
      /\ \A x \in 1..(b - a) : part[x] = t[a + x]
  OBVIOUS
<1> HIDE DEF rest, n
<1>4. a - c \in Nat /\ b - c \in Nat /\ (b - c) - (a - c) = b - a /\ b - c <= Len(rest)
  BY <1>1, <1>2
<1>5. /\ same \in Seq(S) /\ Len(same) = b - a
      /\ \A x \in 1..(b - a) : same[x] = rest[(a - c) + x]
  <2> DEFINE i == a - c
             j == b - c
  <2>1. i \in Nat /\ j \in Nat /\ i <= j /\ j <= Len(rest) /\ Len(rest) \in Nat
        /\ j - i = b - a
    BY <1>1, <1>2, <1>4
  <2> HIDE DEF i, j
  <2>2. /\ SubSeq(rest, i + 1, j) \in Seq(S) /\ Len(SubSeq(rest, i + 1, j)) = j - i
        /\ \A x \in 1..(j - i) : SubSeq(rest, i + 1, j)[x] = rest[i + x]
    BY <1>2, <2>1
  <2>3. QED
    BY <2>1, <2>2 DEF i, j
<1>6. \A x \in 1..(b - a) : rest[(a - c) + x] = t[a + x]
  <2> SUFFICES ASSUME NEW x \in 1..(b - a)
               PROVE  rest[(a - c) + x] = t[a + x]
    OBVIOUS
  <2>1. (a - c) + x \in 1..(n - c) /\ c + ((a - c) + x) = a + x
    BY <1>1
  <2>2. rest[(a - c) + x] = t[c + ((a - c) + x)]
    BY <1>2, <2>1
  <2>3. QED
    BY <2>1, <2>2
<1> HIDE DEF part, same
<1>7. part = same
  <2> DEFINE len == b - a
  <2>1. len \in Nat /\ Len(part) = len /\ Len(same) = len
    BY <1>1, <1>3, <1>5
  <2>2. \A x \in 1..len : part[x] = same[x]
    BY <1>3, <1>5, <1>6
  <2> HIDE DEF len
  <2>3. QED
    BY <1>3, <1>5, <2>1, <2>2
<1>8. a - c \in 0..(n - c) /\ b - c \in (a - c)..(n - c)
  BY <1>1
<1>9. QED
  BY <1>7, <1>8 DEF part, same, rest, n

(* A simple pattern has no empty match, so none in an empty string.        *)
LEMMA NoMatchInNothing ==
  ASSUME NEW p \in Simple, NEW t \in Texts, NEW i \in 0..Len(t)
  PROVE  ~IsMatch(p, SubSeq(t, i + 1, i))
<1> DEFINE none == SubSeq(t, i + 1, i)
           m == Regexec[p][none]
<1>1. none \in Texts /\ Len(none) = 0
  <2>1. t \in Seq(Symbols) /\ none \in Texts
    BY TextAssumption
  <2>2. QED
    BY <2>1
<1>2. ASSUME m # NoMatch PROVE FALSE
  <2>1. m[1][1] \in 0..Len(none) /\ m[1][2] \in m[1][1]..Len(none)
    BY <1>1, <1>2, RegexecAssumption, SimpleAssumption
  <2>2. m[1][1] < m[1][2]
    BY <1>1, <1>2, SimpleAssumption
  <2>3. QED
    BY <1>1, <2>1, <2>2
<1>3. QED
  BY <1>2 DEF IsMatch

(* Between the end of the last match and the start of the next one found   *)
(* nothing matches.                                                        *)
LEMMA NothingBetween ==
  ASSUME NEW p \in Simple, NEW t \in Texts, NEW c \in 0..Len(t), NEW cuts,
         c = 0 \/ CutBy(cuts, c), LeavesNoMatch(p, t, cuts, c),
         NEW q \in c..Len(t),
         LET m == Regexec[p][SubSeq(t, c + 1, Len(t))] IN
         m = NoMatch \/ q <= c + m[1][1]
  PROVE  LeavesNoMatch(p, t, cuts, q)
<1> DEFINE rest == SubSeq(t, c + 1, Len(t))
           m == Regexec[p][rest]
<1>1. t \in Seq(Symbols) /\ rest \in Texts /\ Len(rest) = Len(t) - c /\ Len(t) \in Nat
  <2>1. t \in Seq(Symbols) /\ Len(t) \in Nat
    BY TextAssumption
  <2>2. Len(t) \in 0..Len(t)
    BY <2>1
  <2>3. rest \in Texts
    BY <2>2, TextAssumption
  <2>4. QED
    BY <2>1, <2>3
<1> SUFFICES ASSUME NEW a \in 0..q, NEW b \in 0..q, a <= b,
                    \A x \in (a + 1)..b : ~CutBy(cuts, x)
             PROVE  ~IsMatch(p, SubSeq(t, a + 1, b))
  BY DEF LeavesNoMatch
<1>2. CASE b <= c
  <2>1. a \in 0..c /\ b \in 0..c
    BY <1>1, <1>2
  <2>2. QED
    BY <2>1 DEF LeavesNoMatch
<1>3. CASE c < b
  <2>1. c <= a
    <3>1. ASSUME a < c PROVE FALSE
      <4>1. c # 0 /\ c \in (a + 1)..b
        BY <1>1, <1>3, <3>1
      <4>2. QED
        BY <4>1
    <3>2. QED
      BY <1>1, <3>1
  <2>2. a \in c..Len(t) /\ b \in a..Len(t)
    BY <1>1, <2>1
  <2>3. /\ a - c \in 0..(Len(t) - c) /\ b - c \in (a - c)..(Len(t) - c)
        /\ SubSeq(t, a + 1, b) = SubSeq(rest, (a - c) + 1, b - c)
    BY <1>1, <2>2, PartOfPart
  <2>4. ASSUME IsMatch(p, SubSeq(t, a + 1, b))
        PROVE  FALSE
    <3> DEFINE i == a - c
               j == b - c
    <3>1. i \in 0..Len(rest) /\ j \in i..Len(rest)
      BY <1>1, <2>3
    <3>2. Regexec[p][SubSeq(rest, i + 1, j)] # NoMatch
      BY <2>3, <2>4 DEF IsMatch
    <3> HIDE DEF rest, i, j
    <3>3. m # NoMatch /\ m[1][1] < j
      BY <1>1, <3>1, <3>2, SimpleAssumption
    <3>4. p \in Patterns
      BY SimpleAssumption
    <3>5. m[1][1] \in 0..Len(rest)
      BY <1>1, <3>3, <3>4, RegexecAssumption
    <3>6. q <= c + m[1][1]
      BY <3>3 DEF rest
    <3> DEFINE s == m[1][1]
    <3>7. s \in Int /\ s < b - c /\ q <= c + s
      BY <1>1, <3>3, <3>5, <3>6 DEF j
    <3> HIDE DEF s
    <3>8. QED
      BY <1>1, <3>7
  <2>5. QED
    BY <2>4
<1>4. QED
  BY <1>1, <1>2, <1>3

(* Nor does anything in what a match cuts out leave a part that matches.   *)
LEMMA NothingInMatch ==
  ASSUME NEW p \in Simple, NEW t \in Texts, NEW cuts \in Seq(Nat \X Nat),
         NEW a \in 0..Len(t), NEW b \in a..Len(t), InOrder(cuts, a),
         LeavesNoMatch(p, t, cuts, a)
  PROVE  LeavesNoMatch(p, t, Append(cuts, <<a, b>>), b)
<1> DEFINE all == Append(cuts, <<a, b>>)
<1>1. Len(t) \in Nat /\ a \in Nat /\ b \in Nat /\ a <= b
  BY TextAssumption
<1>2. \A x \in Nat : CutBy(all, x) <=> CutBy(cuts, x) \/ (a < x /\ x <= b)
  BY <1>1, MatchAppended
<1> HIDE DEF all
<1> SUFFICES ASSUME NEW i \in 0..b, NEW j \in 0..b, i <= j,
                    \A x \in (i + 1)..j : ~CutBy(all, x)
             PROVE  ~IsMatch(p, SubSeq(t, i + 1, j))
  BY DEF LeavesNoMatch, all
<1>3. CASE i = j
  <2>1. i \in 0..Len(t)
    BY <1>1
  <2>2. QED
    BY <1>3, <2>1, NoMatchInNothing
<1>4. CASE i < j
  <2>1. ~CutBy(all, j) /\ j \in Nat
    BY <1>1, <1>4
  <2>2. j <= a
    BY <1>1, <1>2, <2>1
  <2>3. i \in 0..a /\ j \in 0..a
    BY <1>1, <2>2
  <2>4. \A x \in (i + 1)..j : ~CutBy(cuts, x)
    BY <1>1, <1>2
  <2>5. QED
    BY <2>3, <2>4 DEF LeavesNoMatch
<1>5. QED
  BY <1>1, <1>3, <1>4

-----------------------------------------------------------------------------
(* Where a loop stands: the matches are in order, and of a simple pattern  *)
(* no match is left up to here, the end of the last match.                 *)
StandsAt(p, t, cuts, c) ==
  /\ InOrder(cuts, c)
  /\ p \in Simple =>
       LeavesNoMatch(p, t, cuts, c) /\ (c = 0 \/ CutBy(cuts, c))

(* Offsets in what is left of n characters behind the first c.             *)
LEMMA OffsetsAsNumbers ==
  ASSUME NEW n \in Nat, NEW c \in 0..n, NEW x \in 0..(n - c), NEW y \in x..(n - c)
  PROVE  /\ x \in Nat /\ y \in Nat /\ c + x \in Nat /\ c + y \in Nat
         /\ c <= c + x /\ c + x <= c + y /\ c + y <= n
         /\ (c + y = c <=> y = 0) /\ (x < y => c + x < c + y)
         /\ (c + x) - c = x /\ (c - c) + 1 = 1
  OBVIOUS

(* The match m of what follows the first c characters lies in the text.    *)
LiesIn(t, c, m) ==
  /\ t \in Seq(Symbols) /\ Len(t) \in Nat /\ c \in Nat
  /\ SubSeq(t, c + 1, Len(t)) \in Texts
  /\ Len(SubSeq(t, c + 1, Len(t))) = Len(t) - c
  /\ m[1][1] \in 0..(Len(t) - c) /\ m[1][2] \in m[1][1]..(Len(t) - c)
  /\ c + m[1][1] \in c..Len(t)
  /\ c + m[1][2] \in (c + m[1][1])..Len(t)
  /\ m[1][1] \in Nat /\ m[1][2] \in Nat
  /\ c + m[1][1] \in Nat /\ c + m[1][2] \in Nat
  /\ c <= c + m[1][1] /\ c + m[1][1] <= c + m[1][2]
  /\ c + m[1][2] <= Len(t)
  /\ (c + m[1][2] = c <=> m[1][2] = 0)
  /\ (m[1][1] < m[1][2] => c + m[1][1] < c + m[1][2])
  /\ (c + m[1][1]) - c = m[1][1] /\ (c - c) + 1 = 1

(* Offsets in the rest of a text are offsets in the text.                  *)
LEMMA OffsetsInText ==
  ASSUME NEW p \in Patterns, NEW t \in Texts, NEW c \in 0..Len(t), NEW m,
         m = Regexec[p][SubSeq(t, c + 1, Len(t))], m # NoMatch
  PROVE  LiesIn(t, c, m)
<1> DEFINE rest == SubSeq(t, c + 1, Len(t))
<1>1. t \in Seq(Symbols) /\ Len(t) \in Nat /\ c \in Nat
  BY TextAssumption
<1>2. rest \in Texts /\ Len(rest) = Len(t) - c
  <2>1. Len(t) \in 0..Len(t)
    BY <1>1
  <2>2. QED
    BY <1>1, <2>1, TextAssumption
<1>3. m[1][1] \in 0..Len(rest) /\ m[1][2] \in m[1][1]..Len(rest)
  BY <1>2, RegexecAssumption
<1> DEFINE x == m[1][1]
           y == m[1][2]
           n == Len(t)
<1>4. x \in 0..(n - c) /\ y \in x..(n - c)
  BY <1>2, <1>3
<1> HIDE DEF x, y, n, rest
<1>5. c + x \in c..n /\ c + y \in (c + x)..n
  BY <1>1, <1>4 DEF n
<1>6. n \in Nat /\ c \in 0..n
  BY <1>1 DEF n
<1>7. /\ x \in Nat /\ y \in Nat /\ c + x \in Nat /\ c + y \in Nat
      /\ c <= c + x /\ c + x <= c + y /\ c + y <= n
      /\ (c + y = c <=> y = 0) /\ (x < y => c + x < c + y)
      /\ (c + x) - c = x /\ (c - c) + 1 = 1
  BY <1>4, <1>6, OffsetsAsNumbers
<1>8. QED
  BY <1>1, <1>2, <1>4, <1>5, <1>7 DEF LiesIn, x, y, n, rest

(* A pass deals with the match it finds, and after an empty one it goes on *)
(* behind the next character.                                              *)
LEMMA MatchDealtWith ==
  ASSUME NEW p \in Patterns, NEW t \in Texts, NEW c \in 0..Len(t), NEW m,
         m = Regexec[p][SubSeq(t, c + 1, Len(t))], m # NoMatch,
         NEW cuts \in Seq(Nat \X Nat), StandsAt(p, t, cuts, c),
         NEW to \in 0..Len(t),
         to = c + m[1][2] \/ (m[1][2] = 0 /\ to = c + 1)
  PROVE  StandsAt(p, t, Append(cuts, <<c + m[1][1], c + m[1][2]>>), to)
<1> DEFINE a == c + m[1][1]
           b == c + m[1][2]
           all == Append(cuts, <<a, b>>)
<1>0. LiesIn(t, c, m)
  BY OffsetsInText
<1>1. /\ Len(t) \in Nat /\ c \in Nat /\ SubSeq(t, c + 1, Len(t)) \in Texts
      /\ m[1][1] \in 0..(Len(t) - c) /\ m[1][2] \in m[1][1]..(Len(t) - c)
      /\ a \in c..Len(t) /\ b \in a..Len(t)
  BY <1>0 DEF LiesIn
<1>2. /\ m[1][1] \in Nat /\ m[1][2] \in Nat /\ a \in Nat /\ b \in Nat
      /\ c <= a /\ a <= b /\ b <= Len(t)
      /\ (b = c <=> m[1][2] = 0) /\ (m[1][1] < m[1][2] => a < b)
  BY <1>0 DEF LiesIn
<1>3. p \in Simple => m[1][1] < m[1][2]
  BY <1>1, SimpleAssumption
<1>3a. to = b \/ (b = c /\ to = c + 1)
  BY <1>2
<1> HIDE DEF a, b
<1>4. a \in Nat /\ b \in Nat /\ c <= a /\ a <= b /\ to \in Nat /\ b <= to
      /\ b <= Len(t)
  BY <1>1, <1>2, <1>3a
<1>5. InOrder(cuts, a)
  BY <1>1, <1>4, InOrderStays DEF StandsAt
<1>6. /\ all \in Seq(Nat \X Nat) /\ InOrder(all, b)
      /\ \A x \in Nat : CutBy(all, x) <=> CutBy(cuts, x) \/ (a < x /\ x <= b)
  BY <1>4, <1>5, MatchAppended
<1> HIDE DEF all
<1>7. InOrder(all, to)
  BY <1>4, <1>6, InOrderStays
<1>8. ASSUME p \in Simple
      PROVE  LeavesNoMatch(p, t, all, to) /\ CutBy(all, to)
  <2>1. a < b /\ m[1][2] # 0
    BY <1>2, <1>3, <1>8
  <2>2. to = b
    BY <2>1 DEF b
  <2>3. CutBy(all, b)
    BY <1>4, <1>6, <2>1
  <2>4. LeavesNoMatch(p, t, cuts, a)
    <3>1. a <= c + m[1][1] /\ a \in c..Len(t)
      BY <1>1, <1>4 DEF a
    <3>2. (c = 0 \/ CutBy(cuts, c)) /\ LeavesNoMatch(p, t, cuts, c)
      BY <1>8 DEF StandsAt
    <3> HIDE DEF a
    <3>3. QED
      BY <1>8, <3>1, <3>2, NothingBetween
  <2>5. LeavesNoMatch(p, t, all, b)
    <3>1. a \in 0..Len(t) /\ b \in a..Len(t)
      BY <1>1, <1>4
    <3>2. QED
      BY <1>5, <1>8, <2>4, <3>1, NothingInMatch DEF all
  <2>6. QED
    BY <2>2, <2>3, <2>5
<1>9. StandsAt(p, t, all, to)
  BY <1>7, <1>8 DEF StandsAt
<1>10. QED
  BY <1>9 DEF all, a, b

(* When no match is left, the rest of the text is dealt with.              *)
LEMMA RestDealtWith ==
  ASSUME NEW p \in Patterns, NEW t \in Texts, NEW c \in 0..Len(t),
         Regexec[p][SubSeq(t, c + 1, Len(t))] = NoMatch,
         NEW cuts \in Seq(Nat \X Nat), StandsAt(p, t, cuts, c)
  PROVE  /\ InOrder(cuts, Len(t))
         /\ p \in Simple => LeavesNoMatch(p, t, cuts, Len(t))
<1>1. Len(t) \in Nat /\ c \in Nat /\ c <= Len(t) /\ Len(t) \in c..Len(t)
  BY TextAssumption
<1>2. InOrder(cuts, Len(t))
  BY <1>1, InOrderStays DEF StandsAt
<1>3. p \in Simple => LeavesNoMatch(p, t, cuts, Len(t))
  BY <1>1, NothingBetween DEF StandsAt
<1>4. QED
  BY <1>2, <1>3

(* The copies of a pass: what lies before the match, the replacement, and  *)
(* after an empty match the next character.                                *)
LEMMA MatchReplaced ==
  ASSUME NEW p \in Patterns, NEW t \in Texts, NEW c \in 0..Len(t), NEW m,
         m = Regexec[p][SubSeq(t, c + 1, Len(t))], m # NoMatch,
         NEW cuts \in Seq(Nat \X Nat), InOrder(cuts, c),
         NEW repl \in Seq(Symbols), NEW buf \in Seq(Symbols),
         IsReplaced(t, cuts, repl, c, buf)
  PROVE  LET all == Append(cuts, <<c + m[1][1], c + m[1][2]>>)
             copied == buf \o SubSeq(SubSeq(t, c + 1, Len(t)), 1, m[1][1])
                           \o repl IN
         /\ all \in Seq(Nat \X Nat) /\ copied \in Seq(Symbols)
         /\ InOrder(all, c + m[1][2])
         /\ IsReplaced(t, all, repl, c + m[1][2], copied)
         /\ m[1][2] = 0 /\ c < Len(t) =>
              IsReplaced(t, all, repl, c + 1,
                         Append(copied, Head(SubSeq(t, c + 1, Len(t)))))
<1> DEFINE rest == SubSeq(t, c + 1, Len(t))
           a == c + m[1][1]
           b == c + m[1][2]
<1>0. LiesIn(t, c, m)
  BY OffsetsInText
<1>1. /\ t \in Seq(Symbols) /\ Len(t) \in Nat /\ c \in Nat
      /\ rest \in Texts /\ Len(rest) = Len(t) - c
      /\ m[1][1] \in 0..(Len(t) - c) /\ m[1][2] \in m[1][1]..(Len(t) - c)
      /\ a \in c..Len(t) /\ b \in a..Len(t)
  BY <1>0 DEF LiesIn
<1>2. /\ a \in Nat /\ b \in Nat /\ a <= b /\ b <= Len(t) /\ c <= a
      /\ a - c = m[1][1] /\ (c - c) + 1 = 1 /\ (m[1][2] = 0 => b = c)
  BY <1>0 DEF LiesIn
<1>2a. a \in 0..Len(t) /\ c \in c..Len(t)
  <2> HIDE DEF a, b
  <2>1. QED
    BY <1>1, <1>2
<1> DEFINE pre == SubSeq(rest, 1, m[1][1])
           before == buf \o pre
           all == Append(cuts, <<a, b>>)
           copied == before \o repl
<1>3. pre = SubSeq(t, c + 1, a)
  <2>1. SubSeq(t, c + 1, a) = SubSeq(rest, (c - c) + 1, a - c)
    <3> HIDE DEF a, b
    <3>1. QED
      BY <1>1, <1>2a, PartOfPart
  <2>2. QED
    BY <1>2, <2>1
<1>4. /\ InOrder(cuts, a) /\ IsReplaced(t, cuts, repl, a, before)
  <2> HIDE DEF a, pre
  <2>1. /\ InOrder(cuts, a)
        /\ IsReplaced(t, cuts, repl, a, buf \o SubSeq(t, c + 1, a))
    BY <1>1, TextCopied
  <2>2. QED
    BY <1>3, <2>1
<1>5. pre \in Seq(Symbols)
  <2>1. SubSeq(t, c + 1, a) \in Seq(Symbols)
    <3> HIDE DEF a
    <3>1. QED
      BY <1>1, <1>2, <1>2a
  <2>2. QED
    BY <1>3, <2>1
<1> HIDE DEF pre, a, b
<1>6. before \in Seq(Symbols) /\ copied \in Seq(Symbols)
  BY <1>5
<1> HIDE DEF before
<1>7. all \in Seq(Nat \X Nat) /\ InOrder(all, b)
  BY <1>2, <1>4, MatchAppended
<1>8. IsReplaced(t, all, repl, b, copied)
  BY <1>1, <1>2, <1>4, <1>6, ReplacementCopied
<1> HIDE DEF all, copied
<1>9. ASSUME m[1][2] = 0, c < Len(t)
      PROVE  IsReplaced(t, all, repl, c + 1, Append(copied, Head(rest)))
  <2>1. b = c
    BY <1>2, <1>9
  <2>2. c + 1 \in c..Len(t) /\ c + 1 \in 1..Len(t)
    BY <1>1, <1>9
  <2>3. IsReplaced(t, all, repl, c + 1, copied \o SubSeq(t, c + 1, c + 1))
    BY <1>1, <1>6, <1>7, <1>8, <2>1, <2>2, TextCopied
  <2>4. SubSeq(t, c + 1, c + 1) = <<t[c + 1]>>
    <3> DEFINE i == c + 1
               part == SubSeq(t, i, i)
    <3>1. i \in 1..Len(t) /\ i \in Nat
      BY <1>1, <2>2
    <3> HIDE DEF i
    <3>2. /\ part \in Seq(Symbols) /\ Len(part) = 1 /\ part[1] = t[i]
      BY <1>1, <3>1
    <3> HIDE DEF part
    <3>3. part = <<t[i]>>
      BY <3>2
    <3>4. QED
      BY <3>3 DEF part, i
  <2>5. Head(rest) = t[c + 1]
    BY <1>1, <2>2
  <2>6. copied \o <<t[c + 1]>> = Append(copied, t[c + 1])
    <3>1. t[c + 1] \in Symbols
      BY <1>1, <2>2
    <3> DEFINE x == t[c + 1]
    <3> HIDE DEF x
    <3>2. copied \o <<x>> = Append(copied, x)
      BY <1>6, <3>1 DEF x
    <3>3. QED
      BY <3>2 DEF x
  <2>7. QED
    BY <2>3, <2>4, <2>5, <2>6
<1>10. QED
  BY <1>6, <1>7, <1>8, <1>9 DEF all, copied, before, pre, a, b

-----------------------------------------------------------------------------
(* The buffer.                                                            *)

(* A text is a string of symbols.                                          *)
LEMMA TextsAreStrings ==
  ASSUME NEW t \in Texts
  PROVE  t \in Seq(Symbols) /\ Len(t) \in Nat /\ 0 \in 0..Len(t)
<1>1. t \in Seq(Symbols)
  BY TextAssumption
<1>2. QED
  BY <1>1

(* The rest of a text is a text, shorter by what lies before it.           *)
LEMMA RestOfText ==
  ASSUME NEW t \in Texts, NEW i \in 0..Len(t)
  PROVE  /\ t \in Seq(Symbols)
         /\ SubSeq(t, i + 1, Len(t)) \in Texts
         /\ Len(SubSeq(t, i + 1, Len(t))) = Len(t) - i
<1>1. t \in Seq(Symbols) /\ Len(t) \in 0..Len(t)
  BY TextAssumption
<1>2. SubSeq(t, i + 1, Len(t)) \in Texts
  BY <1>1, TextAssumption
<1>3. QED
  BY <1>1, <1>2

(* What a pass of a loop finds: the rest of the text, and in it a match.   *)
LEMMA MatchInRest ==
  ASSUME TypeOK, CallIsTyped, Running, Found
  PROVE  /\ call.p \in Patterns /\ call.text \in Texts
         /\ call.cursor \in 0..Len(call.text)
         /\ Rest \in Texts /\ Rest \in Seq(Symbols)
         /\ Len(Rest) = Len(call.text) - call.cursor
         /\ Match[2] \in 0..Len(Rest)
         /\ call.op = "all" => Match[1] \in 0..Len(Rest)
<1>1. call.p \in Patterns /\ call.text \in Texts /\ call.cursor \in 0..Len(call.text)
  BY DEF TypeOK, CallTypeOK, CallIsTyped, Running
<1>2. Rest \in Texts /\ Len(Rest) = Len(call.text) - call.cursor
  BY <1>1, RestOfText DEF Rest
<1>3. QED
  BY <1>1, <1>2, TextAssumption DEF Found, Inside

(* Of a pattern with offsets the match is the one regexec reports, it lies *)
(* in the rest, and it is dealt with.                                      *)
LEMMA MatchReported ==
  ASSUME call.p \in Patterns \ NoSub
  PROVE  /\ Match = Regexec[call.p][Rest][1]
         /\ Matched <=> Regexec[call.p][Rest] # NoMatch
         /\ Dealt = Append(call.cuts, Whole)
  BY DEF Match, Offset, Matched, IsMatch, Dealt

(* A match that was reported lies in the rest of the text.                 *)
LEMMA MatchLiesInRest ==
  ASSUME call.p \in Patterns \ NoSub, Rest \in Texts, Matched
  PROVE  Match[1] \in 0..Len(Rest) /\ Match[2] \in Match[1]..Len(Rest)
  BY MatchReported, RegexecAssumption

(* The cuts of a call are spans.                                           *)
LEMMA DealtIsTyped ==
  ASSUME IInv, Running, Matched
  PROVE  Dealt \in Seq(Nat \X Nat)
<1>1. /\ call.p \in Patterns /\ call.text \in Texts
      /\ call.cursor \in 0..Len(call.text) /\ call.cuts \in Seq(Nat \X Nat)
  BY DEF IInv, TypeOK, CallTypeOK, CallIsTyped, Running
<1>2. CASE call.p \in NoSub
  BY <1>1, <1>2 DEF Dealt
<1>3. CASE call.p \notin NoSub
  <2>1. Rest \in Texts
    BY <1>1, RestOfText DEF Rest
  <2>2. Match[1] \in 0..Len(Rest) /\ Match[2] \in Match[1]..Len(Rest)
    BY <1>1, <1>3, <2>1, MatchLiesInRest
  <2>3. Len(call.text) \in Nat /\ Len(Rest) \in Nat
    BY <1>1, <2>1, TextsAreStrings
  <2>4. call.cursor \in Nat /\ Match[1] \in Nat /\ Match[2] \in Nat
    BY <1>1, <2>2, <2>3
  <2>5. Whole \in Nat \X Nat
    BY <2>4 DEF Whole
  <2>6. Append(call.cuts, Whole) \in Seq(Nat \X Nat)
    BY <1>1, <2>5
  <2>7. QED
    BY <1>1, <1>3, <2>6, MatchReported
<1>4. QED
  BY <1>2, <1>3

(* What the copies of one pass amount to, with the numbers apart from the  *)
(* sequences: the buffer grown for the need holds what is copied, the one  *)
(* more character of an empty match included, and leaves room for the rest.*)
LEMMA RoomForOnePass ==
  ASSUME NEW copied \in Nat, NEW rest \in Nat, NEW m2 \in 0..rest,
         NEW grown \in Nat, copied + (rest - m2) + 1 <= grown,
         m2 = 0 => rest > 0
  PROVE  /\ copied <= grown
         /\ m2 = 0 => copied + 1 < grown
         /\ m2 # 0 => copied + (rest - m2) + 1 <= grown
         /\ m2 = 0 => (copied + 1) + (rest - 1) + 1 <= grown
  OBVIOUS

(* Two strings one after the other, and three.                             *)
LEMMA TwoStrings ==
  ASSUME NEW S, NEW a \in Seq(S), NEW b \in Seq(S)
  PROVE  a \o b \in Seq(S) /\ Len(a \o b) = Len(a) + Len(b)
  OBVIOUS

(* Three strings, one after the other.                                     *)
LEMMA ThreeStrings ==
  ASSUME NEW S, NEW a \in Seq(S), NEW b \in Seq(S), NEW c \in Seq(S)
  PROVE  a \o b \o c \in Seq(S) /\ Len(a \o b \o c) = Len(a) + Len(b) + Len(c)
<1>1. a \o b \in Seq(S) /\ Len(a \o b) = Len(a) + Len(b)
  BY TwoStrings
<1>2. (a \o b) \o c \in Seq(S) /\ Len((a \o b) \o c) = Len(a \o b) + Len(c)
  BY <1>1, TwoStrings
<1>3. QED
  BY <1>1, <1>2

(* A call whose buffer, room, cursor and cuts change keeps its types, and  *)
(* the rest of it.                                                         *)
LEMMA CallAdvances ==
  ASSUME CallIsTyped, CallTypeOK, ~call.overrun, Running,
         NEW b \in Seq(Symbols), NEW room \in Nat,
         NEW c \in Nat, c \in 0..Len(call.text),
         NEW k \in Seq(Nat \X Nat), NEW s \in {"running", "done"},
         call' = [call EXCEPT !.state = s, !.buf = b, !.cap = room,
                              !.overrun = FALSE, !.cursor = c, !.cuts = k]
  PROVE  /\ CallIsTyped' /\ CallTypeOK'
         /\ ~call'.overrun
         /\ call'.op = call.op /\ call'.state = s /\ call'.text = call.text
         /\ call'.p = call.p /\ call'.repl = call.repl
         /\ call'.cursor = c /\ call'.buf = b /\ call'.cap = room
<1>1. DOMAIN call = {"op", "state", "p", "text", "repl", "cursor", "buf",
                     "cap", "count", "overrun", "cuts"}
  BY DEF CallIsTyped
<1>2. /\ call'.op = call.op /\ call'.state = s /\ call'.text = call.text
      /\ call'.p = call.p /\ call'.repl = call.repl
      /\ call'.cursor = c /\ call'.buf = b /\ call'.cap = room
      /\ call'.cuts = k /\ call'.count = call.count
  BY <1>1
<1>3. ~call'.overrun
  BY <1>1
<1>4. call' \in
       [op : {"none", "first", "all", "count"},
        state : {"idle", "running", "done", "gave up", "strayed"},
        p : Patterns \cup {NULL}, text : Texts \cup {<<>>},
        repl : Replacements \cup {<<>>}, cursor : Nat, buf : Seq(Symbols),
        cap : Nat, count : Nat, overrun : BOOLEAN, cuts : Seq(Nat \X Nat)]
  BY DEF CallIsTyped
<1>5. Running' => call'.op # "none"
  BY <1>2 DEF CallIsTyped, Running
<1>6. CallTypeOK'
  BY <1>2 DEF CallTypeOK, Running
<1>7. QED
  BY <1>2, <1>3, <1>4, <1>5, <1>6 DEF CallIsTyped

(* Small facts about the numbers of a pass.                                *)
LEMMA RoomIsANumber ==
  ASSUME NEW a \in Nat, NEW b \in Nat, NEW c \in Nat, NEW rest \in Nat,
         NEW m2 \in 0..rest
  PROVE  a + b + c + (rest - m2) + 1 \in Nat
  OBVIOUS

(* What fits with one more fits without it.                                *)
LEMMA OneMoreFits ==
  ASSUME NEW a \in Nat, NEW b \in Nat, NEW room \in Nat, a + b + 1 <= room
  PROVE  a + b <= room
  OBVIOUS

(* The cursor moves on, and what is left is as much shorter.               *)
LEMMA CursorMoves ==
  ASSUME NEW n \in Nat, NEW cursor \in 0..n, NEW step \in 0..(n - cursor)
  PROVE  /\ cursor + step \in Nat /\ cursor + step \in 0..n
         /\ n - (cursor + step) = (n - cursor) - step
  OBVIOUS

(* One pass of replace_all, seen from outside: what is copied, and the     *)
(* room there is for it.                                                   *)
LEMMA ReplaceLocals ==
  ASSUME IInv, Running, call.op = "all", Found
  PROVE  /\ call.buf \in Seq(Symbols) /\ call.repl \in Seq(Symbols)
         /\ call.cap \in Nat /\ ~call.overrun /\ call.cuts \in Seq(Nat \X Nat)
         /\ Pre \in Seq(Symbols) /\ Len(Pre) = Match[1]
         /\ Needed = Len(call.buf) + Len(Pre) + Len(call.repl)
                       + (Len(Rest) - Match[2]) + 1
         /\ Needed \in Nat /\ Grown \in Nat /\ Needed <= Grown
         /\ Dealt \in Seq(Nat \X Nat)
<1>1. /\ call.buf \in Seq(Symbols) /\ call.cap \in Nat
      /\ call.repl \in Replacements \cup {<<>>} /\ call.cuts \in Seq(Nat \X Nat)
  BY DEF IInv, CallIsTyped
<1>2. call.repl \in Seq(Symbols)
  <2>1. CASE call.repl \in Replacements
    BY <2>1, TextAssumption
  <2>2. CASE call.repl = <<>>
    BY <2>2
  <2>3. QED
    BY <1>1, <2>1, <2>2
<1>3. ~call.overrun
  BY DEF IInv, BufferIsNotOverrun
<1>4. /\ call.cursor \in 0..Len(call.text) /\ call.text \in Texts
      /\ Rest \in Seq(Symbols)
      /\ Match[1] \in 0..Len(Rest) /\ Match[2] \in 0..Len(Rest)
  BY MatchInRest DEF IInv
<1>5. Pre \in Seq(Symbols) /\ Len(Pre) = Match[1]
  BY <1>4 DEF Pre
<1>6. Len(Rest) \in Nat /\ Len(call.buf) \in Nat /\ Len(call.repl) \in Nat
  BY <1>1, <1>2, <1>4
<1>7. Needed \in Nat
  <2>1. Match[1] \in Nat /\ Match[2] \in 0..Len(Rest)
    BY <1>4, <1>6
  <2>2. QED
    BY <2>1, <1>5, <1>6, RoomIsANumber DEF Needed
<1>8. Grown \in Nat /\ Needed <= Grown
  BY <1>1, <1>7 DEF Grown
<1>9. Dealt \in Seq(Nat \X Nat)
  BY DealtIsTyped DEF Found
<1>10. QED
  BY <1>1, <1>2, <1>3, <1>5, <1>7, <1>8, <1>9 DEF Needed

(* One pass of replace_all keeps the room: what it computes before the     *)
(* copies is what they take, and what is left is enough for the rest.      *)
LEMMA ReplacePassKeepsRoom ==
  ASSUME IInv, ReplacePass
  PROVE  CallIsTyped' /\ BufferIsNotOverrun' /\ RoomIsLeft' /\ CallTypeOK'
<1> DEFINE m2 == Match[2]
           copied == call.buf \o Pre \o call.repl
           empty == m2 = 0
           cap == IF empty /\ Len(copied) + 1 >= Grown THEN Grown * 2 ELSE Grown
           over == call.overrun \/ Len(copied) > Grown \/ (empty /\ Len(copied) >= cap)
           step == IF empty THEN 1 ELSE m2
           b == IF empty THEN Append(copied, Head(Rest)) ELSE copied
<1>1. Running /\ call.op = "all" /\ Found /\ ~Breaks
  BY DEF ReplacePass
<1>2. /\ call.p \in Patterns /\ call.text \in Texts
      /\ call.cursor \in 0..Len(call.text)
      /\ Rest \in Seq(Symbols)
      /\ Len(Rest) = Len(call.text) - call.cursor
      /\ Match[1] \in 0..Len(Rest) /\ m2 \in 0..Len(Rest)
  BY <1>1, MatchInRest DEF IInv
<1>3. /\ call.buf \in Seq(Symbols) /\ call.repl \in Seq(Symbols)
      /\ call.cap \in Nat /\ ~call.overrun /\ call.cuts \in Seq(Nat \X Nat)
      /\ Pre \in Seq(Symbols)
      /\ Needed = Len(call.buf) + Len(Pre) + Len(call.repl) + (Len(Rest) - m2) + 1
      /\ Grown \in Nat /\ Needed <= Grown
      /\ Dealt \in Seq(Nat \X Nat)
  BY <1>1, ReplaceLocals
<1>4. call' = [call EXCEPT !.state = "running", !.buf = b, !.cap = cap,
                           !.overrun = over, !.cursor = call.cursor + step,
                           !.cuts = Dealt]
  <2>1. call \in
       [op : {"none", "first", "all", "count"},
        state : {"idle", "running", "done", "gave up", "strayed"},
        p : Patterns \cup {NULL}, text : Texts \cup {<<>>},
        repl : Replacements \cup {<<>>}, cursor : Nat, buf : Seq(Symbols),
        cap : Nat, count : Nat, overrun : BOOLEAN, cuts : Seq(Nat \X Nat)]
    BY DEF IInv, CallIsTyped
  <2>2. call = [call EXCEPT !.state = "running"]
    BY <2>1, <1>1 DEF Running
  <2>3. call' = [call EXCEPT !.buf = b, !.cap = cap,
                           !.overrun = over, !.cursor = call.cursor + step,
                           !.cuts = Dealt]
    BY DEF ReplacePass
  <2> HIDE DEF b, cap, over, step
  <2>4. QED
    BY <2>1, <2>2, <2>3
<1>5. copied \in Seq(Symbols) /\ Len(copied) + (Len(Rest) - m2) + 1 = Needed
  <2>1. /\ copied \in Seq(Symbols)
        /\ Len(copied) = Len(call.buf) + Len(Pre) + Len(call.repl)
    BY <1>3, ThreeStrings
  <2>2. QED
    BY <2>1, <1>3
<1>6. empty => Rest # <<>> /\ Len(Rest) > 0 /\ Head(Rest) \in Symbols
  BY <1>1, <1>2 DEF Breaks
<1>7. Len(Rest) \in Nat /\ Len(copied) \in Nat
  <2> HIDE DEF copied
  <2>1. QED
    BY <1>2, <1>5
<1>8. m2 \in 0..Len(Rest)
  BY <1>2, <1>7
<1> HIDE DEF copied, m2
<1>8a. Len(copied) + (Len(Rest) - m2) + 1 <= Grown
  BY <1>3, <1>5
<1>9. /\ Len(copied) <= Grown
      /\ empty => Len(copied) + 1 < Grown
      /\ ~empty => Len(copied) + (Len(Rest) - m2) + 1 <= Grown
      /\ empty => (Len(copied) + 1) + (Len(Rest) - 1) + 1 <= Grown
  BY <1>8a, <1>3, <1>6, <1>7, <1>8, RoomForOnePass
<1>10. cap = Grown
  BY <1>3, <1>7, <1>9
<1>11. over = FALSE
  BY <1>3, <1>7, <1>9, <1>10
<1>12. /\ b \in Seq(Symbols)
       /\ Len(b) = Len(copied) + (IF empty THEN 1 ELSE 0)
  BY <1>5, <1>6
<1>13. /\ step \in 0..Len(Rest)
       /\ Len(b) + (Len(Rest) - step) + 1 <= Grown
  BY <1>6, <1>7, <1>8, <1>9, <1>12
<1> HIDE DEF b, cap, over, step
<1> DEFINE c == call.cursor + step
           k == Dealt
<1>14. c \in Nat /\ c \in 0..Len(call.text)
       /\ Len(call.text) - c = Len(Rest) - step
  <2>1. Len(call.text) \in Nat
    BY <1>2, RestOfText
  <2>2. step \in 0..(Len(call.text) - call.cursor)
    BY <1>2, <1>13
  <2>3. c \in Nat /\ c \in 0..Len(call.text)
        /\ Len(call.text) - c = (Len(call.text) - call.cursor) - step
    BY <2>1, <2>2, <1>2, CursorMoves
  <2>4. QED
    BY <2>3, <1>2
<1>15. k \in Seq(Nat \X Nat)
  BY <1>3
<1> HIDE DEF c, k
<1>16. /\ CallIsTyped' /\ CallTypeOK' /\ ~call'.overrun
       /\ call'.op = call.op /\ call'.state = "running"
       /\ call'.text = call.text /\ call'.cursor = c
       /\ call'.buf = b /\ call'.cap = Grown
  <2>1. call' = [call EXCEPT !.state = "running", !.buf = b, !.cap = Grown,
                             !.overrun = FALSE, !.cursor = c, !.cuts = k]
    BY <1>4, <1>10, <1>11 DEF c, k
  <2>2. CallIsTyped /\ CallTypeOK
    BY DEF IInv, TypeOK
  <2>3. QED
    BY <2>1, <2>2, <1>1, <1>3, <1>12, <1>14, <1>15, CallAdvances
<1>17. BufferIsNotOverrun'
  BY <1>16 DEF BufferIsNotOverrun
<1>18. RoomIsLeft'
  <2>1. Rest' = SubSeq(call.text, c + 1, Len(call.text))
    BY <1>16 DEF Rest
  <2>2. Len(Rest') = Len(Rest) - step
    BY <2>1, <1>2, <1>14, RestOfText
  <2>3. QED
    BY <2>2, <1>13, <1>16 DEF RoomIsLeft
<1>19. QED
  BY <1>16, <1>17, <1>18

(* The last pass of replace_all: the rest of the text fits as well.        *)
LEMMA ReplaceEndsWithRoom ==
  ASSUME IInv, ReplaceEnds
  PROVE  CallIsTyped' /\ BufferIsNotOverrun' /\ RoomIsLeft' /\ CallTypeOK'
<1> DEFINE last == Matched
           copied == IF last THEN call.buf \o call.repl ELSE call.buf
           cap == IF last THEN Grown ELSE call.cap
           room == Len(copied) + Len(Rest) + 1
           over == call.overrun \/ Len(copied) > cap
           b == copied \o Rest
           end == IF room > cap THEN room ELSE cap
           k == IF last THEN Dealt ELSE call.cuts
<1>1. Running /\ call.op = "all" /\ (last => Inside /\ Breaks)
  BY DEF ReplaceEnds
<1>2. /\ call' = [call EXCEPT !.state = "done", !.buf = b, !.cap = end,
                              !.overrun = over, !.cuts = k]
  BY DEF ReplaceEnds
<1>3. /\ call.buf \in Seq(Symbols) /\ call.cap \in Nat /\ ~call.overrun
      /\ call.cuts \in Seq(Nat \X Nat) /\ call.cursor \in 0..Len(call.text)
      /\ call.p \in Patterns /\ call.text \in Texts
  BY <1>1 DEF IInv, TypeOK, CallTypeOK, CallIsTyped, BufferIsNotOverrun, Running
<1>4. Rest \in Seq(Symbols) /\ Len(Rest) \in Nat
  BY <1>3, RestOfText DEF Rest
<1>5. last =>
        /\ call.repl \in Seq(Symbols)
        /\ Len(call.buf) + Len(call.repl) + 1 <= Grown
        /\ Grown \in Nat /\ Dealt \in Seq(Nat \X Nat) /\ Rest = <<>>
  <2> SUFFICES ASSUME last
               PROVE  /\ call.repl \in Seq(Symbols)
                      /\ Len(call.buf) + Len(call.repl) + 1 <= Grown
                      /\ Grown \in Nat /\ Dealt \in Seq(Nat \X Nat) /\ Rest = <<>>
    OBVIOUS
  <2>1. Match[2] = 0 /\ Rest = <<>>
    BY <1>1 DEF Breaks
  <2>2. /\ call.repl \in Seq(Symbols) /\ Grown \in Nat /\ Dealt \in Seq(Nat \X Nat)
        /\ Needed <= Grown /\ Len(Pre) = Match[1]
        /\ Needed = Len(call.buf) + Len(Pre) + Len(call.repl)
                      + (Len(Rest) - Match[2]) + 1
    BY <1>1, ReplaceLocals DEF Found
  <2>3. Match[1] = 0
    <3>1. Match[1] \in 0..Len(Rest) /\ Len(Rest) = 0
      BY <1>1, <2>1, MatchInRest DEF IInv, Found
    <3>2. QED
      BY <3>1
  <2>4. Needed = Len(call.buf) + Len(call.repl) + 1
    <3>1. Len(call.buf) \in Nat /\ Len(call.repl) \in Nat /\ Len(Rest) = 0
      BY <1>3, <2>1, <2>2
    <3>2. QED
      BY <3>1, <2>1, <2>2, <2>3
  <2>5. QED
    BY <2>1, <2>2, <2>4
<1>6. /\ copied \in Seq(Symbols) /\ cap \in Nat
      /\ Len(copied) <= cap
  <2>1. CASE last
    <3>1. /\ copied \in Seq(Symbols)
          /\ Len(copied) = Len(call.buf) + Len(call.repl)
      BY <2>1, <1>3, <1>5, TwoStrings
    <3>2. Len(call.buf) \in Nat /\ Len(call.repl) \in Nat
      BY <2>1, <1>3, <1>5
    <3>3. cap = Grown /\ Grown \in Nat /\ Len(call.buf) + Len(call.repl) + 1 <= Grown
      BY <2>1, <1>5
    <3> HIDE DEF copied, cap
    <3>4. Len(call.buf) + Len(call.repl) <= Grown
      BY <3>2, <3>3, OneMoreFits
    <3>5. Len(copied) <= cap
      BY <3>1, <3>3, <3>4
    <3>6. QED
      BY <3>1, <3>3, <3>5
  <2>2. CASE ~last
    <3>1. Len(call.buf) + Len(Rest) + 1 <= call.cap /\ Len(call.buf) \in Nat
      BY <1>1, <1>3 DEF IInv, RoomIsLeft
    <3>2. QED
      BY <2>2, <3>1, <1>3, <1>4
  <2>3. QED
    BY <2>1, <2>2
<1>7. k \in Seq(Nat \X Nat)
  <2>1. CASE last
    BY <2>1, <1>3, <1>5
  <2>2. CASE ~last
    BY <2>2, <1>3
  <2>3. QED
    BY <2>1, <2>2
<1> HIDE DEF copied, cap, k
<1>8. b \in Seq(Symbols) /\ Len(b) = Len(copied) + Len(Rest) /\ Len(copied) \in Nat
  BY <1>4, <1>6, TwoStrings
<1>9. over = FALSE
  BY <1>3, <1>6, <1>8
<1> HIDE DEF b, over
<1>10. end \in Nat /\ Len(b) + 1 <= end
  BY <1>4, <1>6, <1>8
<1> HIDE DEF end
<1>11. /\ CallIsTyped' /\ CallTypeOK' /\ ~call'.overrun
       /\ call'.state = "done" /\ call'.buf = b /\ call'.cap = end
  <2> DEFINE c == call.cursor
  <2>1. CallIsTyped /\ CallTypeOK /\ c \in Nat /\ c \in 0..Len(call.text)
    BY <1>3 DEF IInv, TypeOK, CallIsTyped
  <2>2. call' = [call EXCEPT !.state = "done", !.buf = b, !.cap = end,
                             !.overrun = FALSE, !.cursor = c, !.cuts = k]
    BY <1>2, <1>9, <2>1 DEF CallIsTyped
  <2> HIDE DEF c
  <2>3. QED
    BY <2>1, <2>2, <1>1, <1>3, <1>7, <1>8, <1>10, CallAdvances
<1>12. BufferIsNotOverrun'
  BY <1>10, <1>11 DEF BufferIsNotOverrun
<1>13. RoomIsLeft'
  BY <1>11 DEF RoomIsLeft, Running
<1>14. QED
  BY <1>11, <1>12, <1>13

(* A count that goes on keeps its types.                                   *)
LEMMA CountAdvances ==
  ASSUME CallIsTyped, CallTypeOK, ~call.overrun, Running, call.op = "count",
         NEW n \in Nat,
         NEW c \in Nat, c \in 0..Len(call.text),
         NEW k \in Seq(Nat \X Nat), NEW s \in {"running", "done"},
         call' = [call EXCEPT !.state = s, !.count = n, !.cursor = c, !.cuts = k]
  PROVE  CallIsTyped' /\ CallTypeOK' /\ BufferIsNotOverrun' /\ RoomIsLeft'
<1>1. DOMAIN call = {"op", "state", "p", "text", "repl", "cursor", "buf",
                     "cap", "count", "overrun", "cuts"}
  BY DEF CallIsTyped
<1>2. /\ call'.op = "count" /\ call'.state = s /\ call'.text = call.text
      /\ call'.p = call.p /\ call'.cursor = c
  BY <1>1
<1>3. ~call'.overrun
  BY <1>1
<1>4. call' \in
       [op : {"none", "first", "all", "count"},
        state : {"idle", "running", "done", "gave up", "strayed"},
        p : Patterns \cup {NULL}, text : Texts \cup {<<>>},
        repl : Replacements \cup {<<>>}, cursor : Nat, buf : Seq(Symbols),
        cap : Nat, count : Nat, overrun : BOOLEAN, cuts : Seq(Nat \X Nat)]
  BY DEF CallIsTyped
<1>5. CallIsTyped'
  BY <1>2, <1>4 DEF CallIsTyped, Running
<1>6. CallTypeOK'
  BY <1>2 DEF CallTypeOK, Running
<1>7. BufferIsNotOverrun' /\ RoomIsLeft'
  BY <1>2, <1>3 DEF BufferIsNotOverrun, RoomIsLeft
<1>8. QED
  BY <1>5, <1>6, <1>7

(* A call that begins, or that is over at once, has its types.             *)
LEMMA CallBegins ==
  ASSUME NEW op \in {"first", "all", "count"}, NEW p \in Patterns,
         NEW t \in Texts, NEW r \in Replacements \cup {<<>>},
         NEW s \in {"running", "done", "strayed"}, NEW b \in Seq(Symbols),
         NEW room \in Nat, NEW k \in Seq(Nat \X Nat),
         call' = [op |-> op, state |-> s, p |-> p, text |-> t, repl |-> r,
                  cursor |-> 0, buf |-> b, cap |-> room, count |-> 0,
                  overrun |-> FALSE, cuts |-> k]
  PROVE  /\ CallIsTyped' /\ CallTypeOK' /\ ~call'.overrun
         /\ call'.op = op /\ call'.state = s /\ call'.text = t /\ call'.p = p
         /\ call'.cursor = 0 /\ call'.buf = b /\ call'.cap = room
<1>1. /\ call'.op = op /\ call'.state = s /\ call'.text = t /\ call'.p = p
      /\ call'.cursor = 0 /\ call'.buf = b /\ call'.cap = room
  OBVIOUS
<1>2. ~call'.overrun
  OBVIOUS
<1>3. call' \in
       [op : {"none", "first", "all", "count"},
        state : {"idle", "running", "done", "gave up", "strayed"},
        p : Patterns \cup {NULL}, text : Texts \cup {<<>>},
        repl : Replacements \cup {<<>>}, cursor : Nat, buf : Seq(Symbols),
        cap : Nat, count : Nat, overrun : BOOLEAN, cuts : Seq(Nat \X Nat)]
  OBVIOUS
<1>4. CallIsTyped'
  BY <1>1, <1>3 DEF CallIsTyped
<1>5. CallTypeOK'
  <2>1. call'.cursor \in 0..Len(call'.text)
    BY <1>1, TextsAreStrings
  <2>2. QED
    BY <1>1, <2>1 DEF CallTypeOK
<1>6. QED
  BY <1>1, <1>2, <1>4, <1>5

(* The steps of a call leave the pool, and the steps of the pool the call, *)
(* so each has its own half of the invariant to keep.                      *)
CallInv == CallIsTyped /\ CallTypeOK /\ BufferIsNotOverrun /\ RoomIsLeft

PoolInv ==
  /\ regex_pool \in [Slots ->
       [compiled : Patterns \cup {NULL}, active : BOOLEAN,
        matches : [Groups -> (Int \X Int)], last_nmatch : 0..MaxGroups]]
  /\ last_error \in BOOLEAN
  /\ examined \in [Slots -> ExecTexts \cup {NULL}]
  /\ GroupsAreStored

AnswerInv == AnswerSoFar /\ AnswerIsExact

MatchTyped == match \in Int \X Int

(* The strengthened invariant is its parts.                                *)
LEMMA IInvHalves ==
  IInv <=> CallInv /\ AnswerInv /\ PoolInv /\ MatchTyped
  BY DEF IInv, CallInv, AnswerInv, PoolInv, TypeOK, MatchTyped

(* What no one has set is a pair all the same.                             *)
LEMMA UnsetIsTyped == Unset \in Int \X Int
  BY DEF Unset

(* A call may be made only on a slot that holds a pattern.                 *)
LEMMA CallablePattern ==
  ASSUME IInv, NEW h, Usable(h)
  PROVE  regex_pool[h].compiled \in Patterns
  BY DEF IInv, GroupsAreStored, GroupsStored, Usable

(* A copy of the text, or nothing.                                         *)
LEMMA CopyIsAString ==
  ASSUME NEW t \in Texts, NEW copy \in {t, <<>>}
  PROVE  copy \in Seq(Symbols)
<1>1. CASE copy = t
  BY <1>1, TextsAreStrings
<1>2. CASE copy = <<>>
  BY <1>2
<1>3. QED
  BY <1>1, <1>2

(* Giving up, in a loop or before one.                                     *)
LEMMA GivingUp ==
  ASSUME NEW op \in {"first", "all", "count"}, NEW t \in Texts,
         \E copy \in {t, <<>>} : call' = GaveUp(op, t, copy)
  PROVE  CallInv' /\ call'.state = "gave up"
<1>1. PICK copy \in {t, <<>>} : call' = GaveUp(op, t, copy)
  OBVIOUS
<1>2. copy \in Seq(Symbols)
  BY CopyIsAString
<1> DEFINE none == <<>>
<1>3. call' = [op |-> op, state |-> "gave up", p |-> NULL, text |-> t,
               repl |-> none, cursor |-> 0, buf |-> copy, cap |-> 0,
               count |-> 0, overrun |-> FALSE, cuts |-> none]
  BY <1>1 DEF GaveUp, Idle, NoMatch
<1>4. none \in Seq(Nat \X Nat) /\ none \in Replacements \cup {<<>>}
  OBVIOUS
<1> HIDE DEF none
<1>5. /\ call'.state = "gave up" /\ call'.op = op /\ call'.text = t
      /\ call'.cursor = 0
  BY <1>3
<1>6. ~call'.overrun
  BY <1>3
<1>7. CallIsTyped'
  BY <1>2, <1>3, <1>4, <1>5 DEF CallIsTyped, Running
<1>8. CallTypeOK'
  <2>1. call'.cursor \in 0..Len(call'.text)
    BY <1>5, TextsAreStrings
  <2>2. QED
    BY <1>5, <2>1 DEF CallTypeOK
<1>9. BufferIsNotOverrun' /\ RoomIsLeft'
  BY <1>5, <1>6 DEF BufferIsNotOverrun, RoomIsLeft, Running
<1>10. QED
  BY <1>5, <1>7, <1>8, <1>9 DEF CallInv

(* Small facts about strings, offsets and cuts.                            *)
LEMMA RestFromTheStart ==
  ASSUME NEW t \in Texts
  PROVE  Len(SubSeq(t, 0 + 1, Len(t))) = Len(t)
  BY RestOfText, TextsAreStrings

(* No cut at all is a sequence of spans.                                   *)
LEMMA NoCuts == <<>> \in Seq(Nat \X Nat)
  OBVIOUS

(* The two parts of a string are strings.                                  *)
LEMMA PartOfAString ==
  ASSUME NEW s \in Seq(Symbols), NEW i \in 0..Len(s)
  PROVE  SubSeq(s, 1, i) \in Seq(Symbols) /\ SubSeq(s, i + 1, Len(s)) \in Seq(Symbols)
  OBVIOUS

(* The locals of a call that begins, one by one.                           *)
LEMMA BeginsAsRecord ==
  ASSUME NEW op, NEW h, NEW t, NEW r
  PROVE  Begins(op, h, t, r) =
           [op |-> op, state |-> "running", p |-> regex_pool[h].compiled,
            text |-> t, repl |-> r, cursor |-> 0, buf |-> <<>>, cap |-> 0,
            count |-> 0, overrun |-> FALSE, cuts |-> <<>>]
<1> DEFINE p == regex_pool[h].compiled
<1>1. Begins(op, h, t, r) =
        [Idle EXCEPT !.op = op, !.state = "running", !.text = t, !.repl = r,
                     !.p = p]
  BY DEF Begins
<1> HIDE DEF p
<1>2. QED
  BY <1>1 DEF Idle, NoMatch, p

(* A replacement is a string.                                              *)
LEMMA ReplacementIsAString ==
  ASSUME NEW r \in Replacements
  PROVE  r \in Seq(Symbols)
  BY TextAssumption

(* replace_first: it gives up, or is over at once. Of a pattern with       *)
(* offsets the answer has the first match replaced, or there is none; by   *)
(* offsets never set it is some string, or the call strays.                *)
FirstCall(s, p, t, r, b, k) ==
  [op |-> "first", state |-> s, p |-> p, text |-> t, repl |-> r, cursor |-> 0,
   buf |-> b, cap |-> 0, count |-> 0, overrun |-> FALSE, cuts |-> k]

Around(t, w, r) == SubSeq(t, 1, w[1]) \o r \o SubSeq(t, w[2] + 1, Len(t))

(* The locals of a call, and what setting one of them makes of them.       *)
Locals(op, s, p, t, r, z, b, v, k) ==
  [op |-> op, state |-> s, p |-> p, text |-> t, repl |-> r, cursor |-> z,
   buf |-> b, cap |-> z, count |-> z, overrun |-> v, cuts |-> k]

WithOp(c, op) == [c EXCEPT !.op = op]
WithState(c, s) == [c EXCEPT !.state = s]
WithPattern(c, p) == [c EXCEPT !.p = p]
WithText(c, t) == [c EXCEPT !.text = t]
WithRepl(c, r) == [c EXCEPT !.repl = r]
WithBuf(c, b) == [c EXCEPT !.buf = b]
WithCuts(c, k) == [c EXCEPT !.cuts = k]

(* One local of a call set, and the others kept.                           *)
LEMMA LocalsSet ==
  ASSUME NEW op, NEW s, NEW p, NEW t, NEW r, NEW z, NEW b, NEW v, NEW k, NEW x
  PROVE  LET c == Locals(op, s, p, t, r, z, b, v, k) IN
         /\ WithOp(c, x) = Locals(x, s, p, t, r, z, b, v, k)
         /\ WithState(c, x) = Locals(op, x, p, t, r, z, b, v, k)
         /\ WithPattern(c, x) = Locals(op, s, x, t, r, z, b, v, k)
         /\ WithText(c, x) = Locals(op, s, p, x, r, z, b, v, k)
         /\ WithRepl(c, x) = Locals(op, s, p, t, x, z, b, v, k)
         /\ WithBuf(c, x) = Locals(op, s, p, t, r, z, x, v, k)
         /\ WithCuts(c, x) = Locals(op, s, p, t, r, z, b, v, x)
<1> DEFINE c == Locals(op, s, p, t, r, z, b, v, k)
<1>1. WithOp(c, x) = Locals(x, s, p, t, r, z, b, v, k)
  BY DEF Locals, WithOp
<1>2. WithState(c, x) = Locals(op, x, p, t, r, z, b, v, k)
  BY DEF Locals, WithState
<1>3. WithPattern(c, x) = Locals(op, s, x, t, r, z, b, v, k)
  BY DEF Locals, WithPattern
<1>4. WithText(c, x) = Locals(op, s, p, x, r, z, b, v, k)
  BY DEF Locals, WithText
<1>5. WithRepl(c, x) = Locals(op, s, p, t, x, z, b, v, k)
  BY DEF Locals, WithRepl
<1>6. WithBuf(c, x) = Locals(op, s, p, t, r, z, x, v, k)
  BY DEF Locals, WithBuf
<1>7. WithCuts(c, x) = Locals(op, s, p, t, r, z, b, v, x)
  BY DEF Locals, WithCuts
<1>8. QED
  BY <1>1, <1>2, <1>3, <1>4, <1>5, <1>6, <1>7

(* The locals replace_first starts from, and the three ways it sets them.  *)
Starts(p, t, r) ==
  WithPattern(WithRepl(WithText(WithState(WithOp(Idle, "first"), "running"),
                                t), r), p)
WithAnswer(c, s, b) == WithBuf(WithState(c, s), b)
WithCut(c, s, k, b) == WithBuf(WithCuts(WithState(c, s), k), b)

(* Each of them, field by field.                                           *)
LEMMA FirstAnswers ==
  ASSUME NEW p, NEW t, NEW r, NEW s, NEW b, NEW k
  PROVE  LET c == Starts(p, t, r) IN
         /\ WithAnswer(c, s, b) = FirstCall(s, p, t, r, b, <<>>)
         /\ WithState(c, s) = FirstCall(s, p, t, r, <<>>, <<>>)
         /\ WithCut(c, s, k, b) = FirstCall(s, p, t, r, b, k)
<1> DEFINE e == <<>>
           f == FALSE
           c == Starts(p, t, r)
<1>1. Idle = Locals("none", "idle", NULL, e, e, 0, e, f, e)
  BY DEF Idle, NoMatch, Locals
<1>2. \A s0, k0, b0 : FirstCall(s0, p, t, r, b0, k0) =
        Locals("first", s0, p, t, r, 0, b0, f, k0)
  BY DEF FirstCall, Locals
<1> HIDE DEF e, f
<1>3. c = Locals("first", "running", p, t, r, 0, e, f, e)
  BY <1>1, LocalsSet DEF Starts
<1> HIDE DEF c
<1>4. WithState(c, s) = Locals("first", s, p, t, r, 0, e, f, e)
  BY <1>3, LocalsSet
<1>5. WithAnswer(c, s, b) = Locals("first", s, p, t, r, 0, b, f, e)
  BY <1>4, LocalsSet DEF WithAnswer
<1>6. WithCut(c, s, k, b) = Locals("first", s, p, t, r, 0, b, f, k)
  BY <1>4, LocalsSet DEF WithCut
<1>7. QED
  BY <1>2, <1>4, <1>5, <1>6 DEF c, e

(* The ways a replace_first can go.                                        *)
LEMMA FirstCases ==
  ASSUME IInv, NEW h, NEW t \in Texts, NEW r \in Replacements,
         ReplaceFirst(h, t, r)
  PROVE  LET p == regex_pool[h].compiled
             w == Regexec[p][t][1] IN
         /\ p \in Patterns
         /\ \/ \E copy \in {t, <<>>} : call' = GaveUp("first", t, copy)
            \/ ~IsMatch(p, t) /\ call' = FirstCall("done", p, t, r, t, <<>>)
            \/ /\ p \in NoSub
               /\ \E s \in {"done", "strayed"}, b \in Seq(Symbols) :
                    call' = FirstCall(s, p, t, r, b, <<>>)
            \/ /\ p \notin NoSub /\ IsMatch(p, t)
               /\ call' = FirstCall("done", p, t, r, Around(t, w, r), <<w>>)
<1> DEFINE p == regex_pool[h].compiled
<1>1. p \in Patterns
  BY CallablePattern DEF ReplaceFirst
<1>2. \A s, b, k :
        /\ WithAnswer(Starts(p, t, r), s, b) = FirstCall(s, p, t, r, b, <<>>)
        /\ WithState(Starts(p, t, r), s) = FirstCall(s, p, t, r, <<>>, <<>>)
        /\ WithCut(Starts(p, t, r), s, k, b) = FirstCall(s, p, t, r, b, k)
  BY FirstAnswers
<1>3. t \in Seq(Symbols) /\ r \in Seq(Symbols) /\ Len(t) \in Nat
  BY TextsAreStrings, ReplacementIsAString
<1>4. CASE ~IsMatch(p, t)
  <2>1. call' \in {WithAnswer(Starts(p, t, r), "done", t), GaveUp("first", t, <<>>)}
    BY <1>4 DEF ReplaceFirst, Begins, Starts, WithAnswer, WithOp,
             WithState, WithText, WithRepl, WithPattern, WithBuf
  <2>2. WithAnswer(Starts(p, t, r), "done", t) = FirstCall("done", p, t, r, t, <<>>)
    BY <1>2
  <2>3. QED
    BY <1>1, <1>4, <2>1, <2>2
<1>5. CASE IsMatch(p, t)
  <2>1. CASE GivesUp("first", t)
    BY <1>1, <2>1 DEF GivesUp
  <2>2. CASE ~GivesUp("first", t)
    <3>1. PICK unset \in Leftovers :
            call' =
              IF /\ Offset(p, t, unset)[1] \in 0..Len(t)
                 /\ Offset(p, t, unset)[2] \in 0..Len(t)
              THEN WithCut(Starts(p, t, r), "done",
                     IF p \in NoSub THEN <<>> ELSE <<Offset(p, t, unset)>>,
                     Around(t, Offset(p, t, unset), r))
              ELSE WithState(Starts(p, t, r), "strayed")
      BY <1>5, <2>2 DEF ReplaceFirst, Around, Begins, Starts, WithCut,
             WithOp, WithState, WithText, WithRepl, WithPattern, WithBuf,
             WithCuts
    <3> DEFINE w == Offset(p, t, unset)
               b == Around(t, w, r)
               k == IF p \in NoSub THEN <<>> ELSE <<w>>
               in == w[1] \in 0..Len(t) /\ w[2] \in 0..Len(t)
    <3>2. call' = IF in THEN FirstCall("done", p, t, r, b, k)
                  ELSE FirstCall("strayed", p, t, r, <<>>, <<>>)
      <4>1. call' = IF in THEN WithCut(Starts(p, t, r), "done", k, b)
                    ELSE WithState(Starts(p, t, r), "strayed")
        BY <3>1
      <4> HIDE DEF b, k, in, p
      <4>2. QED
        BY <4>1, <1>2
    <3>3. in => b \in Seq(Symbols)
      <4> HIDE DEF w
      <4>1. SUFFICES ASSUME w[1] \in 0..Len(t), w[2] \in 0..Len(t)
                     PROVE  b \in Seq(Symbols)
        OBVIOUS
      <4>2. /\ SubSeq(t, 1, w[1]) \in Seq(Symbols)
            /\ SubSeq(t, w[2] + 1, Len(t)) \in Seq(Symbols)
        BY <1>3, <4>1, PartOfAString
      <4>3. QED
        BY <1>3, <4>2, ThreeStrings DEF Around
    <3>4. CASE p \in NoSub
      <4>1. k = <<>> /\ <<>> \in Seq(Symbols)
        BY <3>4
      <4> HIDE DEF b, k, in
      <4>2. \E s \in {"done", "strayed"}, x \in Seq(Symbols) :
              call' = FirstCall(s, p, t, r, x, <<>>)
        <5>1. CASE in
          BY <3>2, <3>3, <4>1, <5>1
        <5>2. CASE ~in
          BY <3>2, <4>1, <5>2
        <5>3. QED
          BY <5>1, <5>2
      <4>3. QED
        BY <1>1, <3>4, <4>2
    <3>5. CASE p \notin NoSub
      <4>1. w = Regexec[p][t][1] /\ k = <<w>>
        BY <3>5 DEF Offset
      <4>2. in
        <5>1. /\ Regexec[p][t][1][1] \in 0..Len(t)
              /\ Regexec[p][t][1][2] \in Regexec[p][t][1][1]..Len(t)
          BY <1>1, <1>5, RegexecAssumption DEF IsMatch
        <5> HIDE DEF w, p
        <5>2. QED
          BY <1>3, <4>1, <5>1 DEF in
      <4>3. call' = FirstCall("done", p, t, r, b, k)
        BY <3>2, <4>2
      <4>4. QED
        BY <1>1, <1>5, <3>5, <4>1, <4>3
    <3>6. QED
      BY <3>4, <3>5
  <2>3. QED
    BY <2>1, <2>2
<1>6. QED
  BY <1>4, <1>5

(* The locals of a replace_first that is over are typed.                   *)
LEMMA FirstCallIsTyped ==
  ASSUME NEW p \in Patterns, NEW t \in Texts, NEW r \in Replacements,
         NEW s \in {"done", "strayed"}, s = "strayed" => p \in NoSub,
         NEW b \in Seq(Symbols), NEW k \in Seq(Nat \X Nat),
         call' = FirstCall(s, p, t, r, b, k)
  PROVE  CallInv'
<1>1. call' = [op |-> "first", state |-> s, p |-> p, text |-> t, repl |-> r,
               cursor |-> 0, buf |-> b, cap |-> 0, count |-> 0,
               overrun |-> FALSE, cuts |-> k]
  BY DEF FirstCall
<1>2. CallIsTyped' /\ CallTypeOK' /\ ~call'.overrun /\ call'.op = "first"
      /\ call'.state = s /\ call'.p = p
  BY <1>1, CallBegins
<1>3. QED
  BY <1>2 DEF CallInv, BufferIsNotOverrun, RoomIsLeft

(* replace_first keeps the half of the invariant that is of the call.      *)
LEMMA ReplaceFirstKeeps ==
  ASSUME IInv, NEW h, NEW t \in Texts, NEW r \in Replacements,
         ReplaceFirst(h, t, r)
  PROVE  CallInv'
<1> DEFINE p == regex_pool[h].compiled
           w == Regexec[p][t][1]
<1>1. /\ p \in Patterns
      /\ \/ \E copy \in {t, <<>>} : call' = GaveUp("first", t, copy)
         \/ ~IsMatch(p, t) /\ call' = FirstCall("done", p, t, r, t, <<>>)
         \/ /\ p \in NoSub
            /\ \E s \in {"done", "strayed"}, b \in Seq(Symbols) :
                 call' = FirstCall(s, p, t, r, b, <<>>)
         \/ /\ p \notin NoSub /\ IsMatch(p, t)
            /\ call' = FirstCall("done", p, t, r, Around(t, w, r), <<w>>)
  BY FirstCases
<1>2. CASE \E copy \in {t, <<>>} : call' = GaveUp("first", t, copy)
  BY <1>2, GivingUp
<1>3. CASE call' = FirstCall("done", p, t, r, t, <<>>)
  BY <1>1, <1>3, NoCuts, TextsAreStrings, FirstCallIsTyped
<1>4. CASE p \in NoSub /\ \E s \in {"done", "strayed"}, b \in Seq(Symbols) :
                              call' = FirstCall(s, p, t, r, b, <<>>)
  BY <1>1, <1>4, NoCuts, FirstCallIsTyped
<1>5. CASE /\ p \notin NoSub /\ IsMatch(p, t)
           /\ call' = FirstCall("done", p, t, r, Around(t, w, r), <<w>>)
  <2>1. w[1] \in 0..Len(t) /\ w[2] \in w[1]..Len(t) /\ w \in Offsets(t)
    <3> DEFINE m == Regexec[p][t]
    <3>1. /\ m[1][1] \in 0..Len(t) /\ m[1][2] \in m[1][1]..Len(t)
          /\ m \in Seq(Offsets(t)) /\ Len(m) = Nsub[p] + 1 /\ Nsub[p] \in Nat
      BY <1>1, <1>5, RegexecAssumption DEF IsMatch
    <3>2. m[1] \in Offsets(t)
      <4> HIDE DEF m
      <4>1. QED
        BY <3>1
    <3>3. QED
      BY <3>1, <3>2
  <2> HIDE DEF w, p
  <2>2. t \in Seq(Symbols) /\ r \in Seq(Symbols) /\ Len(t) \in Nat
    BY TextsAreStrings, ReplacementIsAString
  <2>3. w[2] \in 0..Len(t)
    BY <2>1, <2>2
  <2>4. Around(t, w, r) \in Seq(Symbols)
    <3>1. /\ SubSeq(t, 1, w[1]) \in Seq(Symbols)
          /\ SubSeq(t, w[2] + 1, Len(t)) \in Seq(Symbols)
      BY <2>1, <2>2, <2>3, PartOfAString
    <3>2. QED
      BY <2>2, <3>1, ThreeStrings DEF Around
  <2>5. w \in Nat \X Nat
    <3>1. w # <<-1, -1>>
      BY <2>1
    <3>2. QED
      BY <2>1, <2>2, <3>1 DEF Offsets
  <2>6. <<w>> \in Seq(Nat \X Nat)
    BY <2>5
  <2>7. QED
    BY <1>1, <1>5, <2>4, <2>6, FirstCallIsTyped
<1>6. QED
  BY <1>1, <1>2, <1>3, <1>4, <1>5

(* A handle of no pattern.                                                 *)
LEMMA NoPatternKeeps ==
  ASSUME NEW h, NEW t \in Texts, NoPattern(h, t)
  PROVE  CallInv' /\ call'.state = "gave up"
<1>1. \/ \E copy \in {t, <<>>} : call' = GaveUp("first", t, copy)
      \/ \E copy \in {t, <<>>} : call' = GaveUp("all", t, copy)
      \/ \E copy \in {t, <<>>} : call' = GaveUp("count", t, copy)
  BY DEF NoPattern, GivesUp
<1>2. QED
  BY <1>1, GivingUp

(* replace_all begins with a buffer for twice the text.                    *)
LEMMA StartReplaceAllKeeps ==
  ASSUME IInv, NEW h, NEW t \in Texts, NEW r \in Replacements,
         StartReplaceAll(h, t, r)
  PROVE  CallInv'
<1> DEFINE p == regex_pool[h].compiled
           room == 2 * Len(t) + Spare
<1>1. p \in Patterns
  BY CallablePattern DEF StartReplaceAll
<1>2. room \in Nat /\ Len(t) + 1 <= room /\ Len(t) \in Nat
  BY TextsAreStrings, SizeAssumption
<1>3. CASE GivesUp("all", t)
  BY <1>3, GivingUp DEF GivesUp
<1>4. CASE ~GivesUp("all", t)
  <2>1. call' = [op |-> "all", state |-> "running", p |-> p,
                 text |-> t, repl |-> r, cursor |-> 0, buf |-> <<>>,
                 cap |-> room, count |-> 0, overrun |-> FALSE, cuts |-> <<>>]
    BY <1>4, BeginsAsRecord DEF StartReplaceAll, StartLoop
  <2>2. <<>> \in Seq(Symbols) /\ Len(<<>>) = 0
    OBVIOUS
  <2> HIDE DEF p, room
  <2>3. /\ CallIsTyped' /\ CallTypeOK' /\ ~call'.overrun
        /\ call'.state = "running" /\ call'.text = t /\ call'.cursor = 0
        /\ call'.buf = <<>> /\ call'.cap = room
    BY <1>1, <1>2, <2>1, <2>2, NoCuts, CallBegins
  <2>4. BufferIsNotOverrun'
    BY <2>3 DEF BufferIsNotOverrun
  <2>5. Rest' = SubSeq(t, 0 + 1, Len(t))
    BY <2>3 DEF Rest
  <2>6. Len(Rest') = Len(t)
    BY <2>5, RestFromTheStart
  <2>7. RoomIsLeft'
    BY <1>2, <2>2, <2>3, <2>6 DEF RoomIsLeft
  <2>8. QED
    BY <2>3, <2>4, <2>7 DEF CallInv
<1>5. QED
  BY <1>3, <1>4

(* count_matches.                                                          *)
LEMMA StartCountKeeps ==
  ASSUME IInv, NEW h, NEW t \in Texts, StartCount(h, t)
  PROVE  CallInv'
<1> DEFINE p == regex_pool[h].compiled
           r == <<>>
<1>1. p \in Patterns
  BY CallablePattern DEF StartCount
<1>2. call' = [op |-> "count", state |-> "running", p |-> p,
               text |-> t, repl |-> r, cursor |-> 0, buf |-> <<>>, cap |-> 0,
               count |-> 0, overrun |-> FALSE, cuts |-> <<>>]
  BY BeginsAsRecord DEF StartCount, StartLoop
<1>3. r \in Replacements \cup {<<>>} /\ <<>> \in Seq(Symbols)
  OBVIOUS
<1> HIDE DEF p, r
<1>4. CallIsTyped' /\ CallTypeOK' /\ ~call'.overrun /\ call'.op = "count"
      /\ call'.state = "running"
  BY <1>1, <1>2, <1>3, NoCuts, CallBegins
<1>5. QED
  BY <1>4 DEF CallInv, BufferIsNotOverrun, RoomIsLeft

(* The locals of a count in progress.                                      *)
LEMMA CountLocals ==
  ASSUME IInv, Running, call.op = "count"
  PROVE  /\ CallIsTyped /\ CallTypeOK /\ ~call.overrun
         /\ call.cursor \in Nat /\ call.cursor \in 0..Len(call.text)
         /\ call.count \in Nat
         /\ call.cuts \in Seq(Nat \X Nat)
         /\ call.text \in Texts
<1>1. CallIsTyped /\ CallTypeOK /\ ~call.overrun
  BY DEF IInv, TypeOK, BufferIsNotOverrun
<1>2. /\ call.cursor \in Nat /\ call.count \in Nat
      /\ call.cuts \in Seq(Nat \X Nat)
  BY <1>1 DEF CallIsTyped
<1>3. call.cursor \in 0..Len(call.text) /\ call.text \in Texts
  BY <1>1 DEF CallTypeOK
<1>4. QED
  BY <1>1, <1>2, <1>3

(* A pass of the count, and the last one.                                  *)
LEMMA CountPassKeeps ==
  ASSUME IInv, CountPass
  PROVE  CallInv'
<1> DEFINE m2 == Match[2]
           step == IF m2 = 0 THEN 1 ELSE m2
           n == call.count + 1
           c == call.cursor + step
           k == Dealt
<1>1. Running /\ call.op = "count" /\ Found /\ ~Breaks
  BY DEF CountPass
<1>2. /\ CallIsTyped /\ CallTypeOK /\ ~call.overrun /\ n \in Nat
      /\ call.cuts \in Seq(Nat \X Nat)
      /\ call.cursor \in 0..Len(call.text) /\ Len(call.text) \in Nat
  BY <1>1, CountLocals, TextsAreStrings
<1>3. k \in Seq(Nat \X Nat)
  BY <1>1, DealtIsTyped DEF Found
<1>4. c \in Nat /\ c \in 0..Len(call.text)
  <2>1. /\ Rest \in Seq(Symbols) /\ Len(Rest) = Len(call.text) - call.cursor
        /\ m2 \in 0..Len(Rest)
    BY <1>1, MatchInRest DEF IInv
  <2>2. Len(Rest) \in Nat /\ m2 \in 0..Len(Rest)
    BY <2>1
  <2>3. m2 = 0 => Len(Rest) > 0
    BY <1>1, <2>1 DEF Breaks
  <2> HIDE DEF m2
  <2>4. step \in 0..Len(Rest)
    BY <2>2, <2>3
  <2> HIDE DEF step
  <2>5. step \in 0..(Len(call.text) - call.cursor)
    BY <2>1, <2>4
  <2>6. QED
    BY <2>5, <1>2, CursorMoves
<1>5. call' = [call EXCEPT !.state = "running", !.count = n, !.cursor = c, !.cuts = k]
  <2>1. call' = [call EXCEPT !.count = n, !.cursor = c, !.cuts = k]
    BY DEF CountPass
  <2> HIDE DEF n, c, k
  <2>2. QED
    BY <2>1, <1>1, <1>2 DEF CallIsTyped, Running
<1> HIDE DEF n, c, k
<1>6. QED
  BY <1>1, <1>2, <1>3, <1>4, <1>5, CountAdvances DEF CallInv

(* So does the end of a count.                                             *)
LEMMA CountEndsKeeps ==
  ASSUME IInv, CountEnds
  PROVE  CallInv'
<1> DEFINE last == Matched
           n == IF last THEN call.count + 1 ELSE call.count
           c == call.cursor
           k == IF last THEN Dealt ELSE call.cuts
<1>1. Running /\ call.op = "count"
  BY DEF CountEnds
<1>2. /\ CallIsTyped /\ CallTypeOK /\ ~call.overrun /\ n \in Nat
      /\ call.cuts \in Seq(Nat \X Nat) /\ c \in Nat /\ c \in 0..Len(call.text)
  BY <1>1, CountLocals
<1>3. k \in Seq(Nat \X Nat)
  <2>1. CASE last
    BY <1>1, <2>1, DealtIsTyped
  <2>2. CASE ~last
    BY <1>2, <2>2
  <2>3. QED
    BY <2>1, <2>2
<1>4. call' = [call EXCEPT !.state = "done", !.count = n, !.cursor = c, !.cuts = k]
  <2>1. call' = [call EXCEPT !.state = "done", !.count = n, !.cuts = k]
    BY DEF CountEnds
  <2> HIDE DEF n, k
  <2>2. QED
    BY <2>1, <1>2 DEF CallIsTyped
<1> HIDE DEF n, c, k
<1>5. QED
  BY <1>1, <1>2, <1>3, <1>4, CountAdvances DEF CallInv

(* Only by offsets never set does a pass stray.                            *)
LEMMA StraysKeeps ==
  ASSUME IInv, Strays
  PROVE  CallInv' /\ call'.state = "strayed"
<1>1. Running /\ Matched /\ ~Inside /\ call' = [call EXCEPT !.state = "strayed"]
  BY DEF Strays
<1>2. /\ CallIsTyped /\ CallTypeOK /\ ~call.overrun
      /\ call.p \in Patterns /\ call.text \in Texts
      /\ call.cursor \in 0..Len(call.text)
  BY <1>1 DEF IInv, TypeOK, CallIsTyped, CallTypeOK, BufferIsNotOverrun, Running
<1>3. call.p \in NoSub
  <2> SUFFICES ASSUME call.p \notin NoSub
               PROVE  FALSE
    OBVIOUS
  <2>1. Rest \in Texts
    BY <1>2, RestOfText DEF Rest
  <2>2. Match[1] \in 0..Len(Rest) /\ Match[2] \in Match[1]..Len(Rest)
    BY <1>1, <1>2, <2>1, MatchLiesInRest
  <2>3. Len(Rest) \in Nat
    BY <2>1, TextsAreStrings
  <2>4. Match[2] \in 0..Len(Rest)
    BY <2>2, <2>3
  <2>5. QED
    BY <1>1, <2>2, <2>4 DEF Inside
<1>4. DOMAIN call = {"op", "state", "p", "text", "repl", "cursor", "buf",
                     "cap", "count", "overrun", "cuts"}
  BY <1>2 DEF CallIsTyped
<1>5. /\ call'.state = "strayed" /\ call'.op = call.op /\ call'.p = call.p
      /\ call'.text = call.text /\ call'.cursor = call.cursor
  BY <1>1, <1>4
<1>6. ~call'.overrun
  BY <1>1, <1>2, <1>4
<1>7. call' \in
       [op : {"none", "first", "all", "count"},
        state : {"idle", "running", "done", "gave up", "strayed"},
        p : Patterns \cup {NULL}, text : Texts \cup {<<>>},
        repl : Replacements \cup {<<>>}, cursor : Nat, buf : Seq(Symbols),
        cap : Nat, count : Nat, overrun : BOOLEAN, cuts : Seq(Nat \X Nat)]
  BY <1>1, <1>2 DEF CallIsTyped
<1>8. CallIsTyped'
  BY <1>5, <1>7 DEF CallIsTyped, Running
<1>9. CallTypeOK'
  BY <1>2, <1>5 DEF CallTypeOK
<1>10. BufferIsNotOverrun' /\ RoomIsLeft'
  BY <1>3, <1>5, <1>6 DEF BufferIsNotOverrun, RoomIsLeft, Running
<1>11. QED
  BY <1>5, <1>8, <1>9, <1>10 DEF CallInv

(* The call is over.                                                       *)
LEMMA IdleIsTyped ==
  ASSUME call = Idle
  PROVE  CallInv
<1>1. call =
        [op |-> "none", state |-> "idle", p |-> NULL, text |-> <<>>,
         repl |-> <<>>, cursor |-> 0, buf |-> <<>>, cap |-> 0,
         count |-> 0, overrun |-> FALSE, cuts |-> <<>>]
  BY DEF Idle, NoMatch
<1>2. CallIsTyped
  BY <1>1, NoCuts DEF CallIsTyped, Running
<1>3. CallTypeOK
  BY <1>1 DEF CallTypeOK
<1>4. BufferIsNotOverrun /\ RoomIsLeft
  BY <1>1 DEF BufferIsNotOverrun, RoomIsLeft
<1>5. QED
  BY <1>2, <1>3, <1>4 DEF CallInv

(* So does the return of the call.                                         *)
LEMMA ReturnsKeeps ==
  ASSUME Returns
  PROVE  CallInv'
<1>1. call' = Idle
  BY DEF Returns
<1>2. call' =
        [op |-> "none", state |-> "idle", p |-> NULL, text |-> <<>>,
         repl |-> <<>>, cursor |-> 0, buf |-> <<>>, cap |-> 0,
         count |-> 0, overrun |-> FALSE, cuts |-> <<>>]
  BY <1>1 DEF Idle, NoMatch
<1>3. CallIsTyped'
  BY <1>2, NoCuts DEF CallIsTyped, Running
<1>4. CallTypeOK'
  BY <1>2 DEF CallTypeOK
<1>5. BufferIsNotOverrun' /\ RoomIsLeft'
  BY <1>2 DEF BufferIsNotOverrun, RoomIsLeft
<1>6. QED
  BY <1>3, <1>4, <1>5 DEF CallInv

-----------------------------------------------------------------------------
(* The answer.                                                             *)

(* What a replace or a count has for an answer when it is past the first i *)
(* characters of the text.                                                 *)
Answers(op, t, cuts, repl, i, buf, count) ==
  IF op = "count" THEN count = Len(cuts)
  ELSE IsReplaced(t, cuts, repl, i, buf)

(* A call that gave up or strayed, or none, owes no answer, nor does one   *)
(* on a pattern without offsets.                                           *)
LEMMA NoAnswerIsOwed ==
  ASSUME call'.state \in {"idle", "gave up", "strayed"} \/ call'.p \in NoSub
  PROVE  AnswerInv'
  BY DEF AnswerInv, AnswerSoFar, AnswerIsExact, Running

(* A loop that goes on, and a call that is done.                           *)
LEMMA LoopGoesOn ==
  ASSUME call'.state = "running", call'.op \in {"all", "count"},
         StandsAt(call'.p, call'.text, call'.cuts, call'.cursor),
         Answers(call'.op, call'.text, call'.cuts, call'.repl, call'.cursor,
                 call'.buf, call'.count)
  PROVE  AnswerInv'
<1>1. DealtWith(call.cursor)'
  BY DEF DealtWith, StandsAt, Answers, Searched
<1>2. AnswerSoFar'
  BY <1>1 DEF AnswerSoFar, StandsAt
<1>3. AnswerIsExact'
  BY DEF AnswerIsExact
<1>4. QED
  BY <1>2, <1>3 DEF AnswerInv

(* The facts a finished answer needs, put together.                        *)
LEMMA CallIsDone ==
  ASSUME call'.state = "done",
         InOrder(call'.cuts, Len(call'.text)),
         NEW i, i = IF call'.op = "first" /\ call'.cuts # <<>>
                    THEN call'.cuts[1][2] ELSE Len(call'.text),
         call'.p \in Simple => LeavesNoMatch(call'.p, call'.text, call'.cuts, i),
         Answers(call'.op, call'.text, call'.cuts, call'.repl, Len(call'.text),
                 call'.buf, call'.count)
  PROVE  AnswerInv'
<1>1. DealtWith(Len(call.text))'
  BY DEF DealtWith, Answers, Searched
<1>2. AnswerIsExact'
  BY <1>1 DEF AnswerIsExact
<1>3. AnswerSoFar'
  BY DEF AnswerSoFar, Running
<1>4. QED
  BY <1>2, <1>3 DEF AnswerInv

(* Where a loop stands before a pass.                                      *)
LEMMA LoopStands ==
  ASSUME IInv, Running, call.op \in {"all", "count"}, call.p \notin NoSub
  PROVE  /\ call.p \in Patterns /\ call.text \in Texts
         /\ call.cursor \in 0..Len(call.text) /\ call.cuts \in Seq(Nat \X Nat)
         /\ call.buf \in Seq(Symbols) /\ call.repl \in Seq(Symbols)
         /\ Rest = SubSeq(call.text, call.cursor + 1, Len(call.text))
         /\ Match = Regexec[call.p][Rest][1]
         /\ Matched <=> Regexec[call.p][Rest] # NoMatch
         /\ Dealt = Append(call.cuts, Whole)
         /\ StandsAt(call.p, call.text, call.cuts, call.cursor)
         /\ Answers(call.op, call.text, call.cuts, call.repl, call.cursor,
                    call.buf, call.count)
<1>1. call.p \in Patterns /\ call.text \in Texts /\ call.cursor \in 0..Len(call.text)
  BY DEF IInv, TypeOK, CallTypeOK, CallIsTyped, Running
<1>2. /\ call.cuts \in Seq(Nat \X Nat) /\ call.buf \in Seq(Symbols)
      /\ call.repl \in Replacements \cup {<<>>}
  BY DEF IInv, CallIsTyped
<1>3. call.repl \in Seq(Symbols)
  <2>1. CASE call.repl \in Replacements
    BY <2>1, TextAssumption
  <2>2. CASE call.repl = <<>>
    BY <2>2
  <2>3. QED
    BY <1>2, <2>1, <2>2
<1>4. DealtWith(call.cursor)
      /\ (call.p \in Simple => call.cursor = 0 \/ CutBy(call.cuts, call.cursor))
  BY DEF IInv, AnswerSoFar
<1>5. StandsAt(call.p, call.text, call.cuts, call.cursor)
  BY <1>4 DEF DealtWith, StandsAt, Searched
<1>6. Answers(call.op, call.text, call.cuts, call.repl, call.cursor, call.buf,
              call.count)
  BY <1>4 DEF DealtWith, Answers
<1>7. QED
  BY <1>1, <1>2, <1>3, <1>5, <1>6, MatchReported DEF Rest

(* Where a pass goes on: inside the text, behind the match, or one         *)
(* character behind an empty one.                                          *)
LEMMA PassMovesOn ==
  ASSUME IInv, Running, call.op \in {"all", "count"}, call.p \notin NoSub,
         Found, ~Breaks
  PROVE  LET to == call.cursor + (IF Match[2] = 0 THEN 1 ELSE Match[2]) IN
         /\ to \in 0..Len(call.text)
         /\ IF Match[2] = 0
            THEN to = call.cursor + 1 /\ call.cursor < Len(call.text)
            ELSE to = call.cursor + Match[2]
         /\ StandsAt(call.p, call.text, Dealt, to)
<1> DEFINE t == call.text
           c == call.cursor
           m == Regexec[call.p][Rest]
           to == c + (IF m[1][2] = 0 THEN 1 ELSE m[1][2])
<1>1. /\ call.p \in Patterns /\ t \in Texts /\ c \in 0..Len(t)
      /\ call.cuts \in Seq(Nat \X Nat) /\ Rest = SubSeq(t, c + 1, Len(t))
      /\ m = Regexec[call.p][SubSeq(t, c + 1, Len(t))]
      /\ StandsAt(call.p, t, call.cuts, c)
      /\ Match = m[1] /\ m # NoMatch /\ Dealt = Append(call.cuts, Whole)
  BY LoopStands DEF Found
<1> HIDE DEF m
<1>2. LiesIn(t, c, m)
  BY <1>1, OffsetsInText DEF m
<1>3. /\ Len(t) \in Nat /\ c \in Nat /\ c <= Len(t) /\ m[1][2] \in Nat
      /\ Rest \in Seq(Symbols) /\ Len(Rest) = Len(t) - c
      /\ c + m[1][2] \in Nat /\ c + m[1][2] <= Len(t)
  <2>1. /\ Len(t) \in Nat /\ c \in Nat /\ m[1][2] \in Nat
        /\ Rest \in Texts /\ Len(Rest) = Len(t) - c
        /\ c + m[1][2] \in Nat /\ c + m[1][2] <= Len(t)
    BY <1>1, <1>2 DEF LiesIn
  <2>2. c <= Len(t)
    BY <1>1, <2>1
  <2>3. Rest \in Seq(Symbols)
    BY <2>1, TextAssumption
  <2>4. QED
    BY <2>1, <2>2, <2>3
<1>4. ASSUME m[1][2] = 0 PROVE c < Len(t)
  <2>1. Rest # <<>>
    BY <1>1, <1>4 DEF Breaks
  <2>2. Len(Rest) # 0
    BY <1>3, <2>1
  <2>3. QED
    BY <1>3, <2>2
<1>5. /\ to \in 0..Len(t)
      /\ IF m[1][2] = 0 THEN to = c + 1 /\ c < Len(t) ELSE to = c + m[1][2]
  BY <1>3, <1>4
<1> HIDE DEF to
<1>6. StandsAt(call.p, t, Append(call.cuts, <<c + m[1][1], c + m[1][2]>>), to)
  <2>1. to = c + m[1][2] \/ (m[1][2] = 0 /\ to = c + 1)
    BY <1>5
  <2>2. QED
    BY <1>1, <1>5, <2>1, MatchDealtWith
<1>7. QED
  BY <1>1, <1>5, <1>6 DEF to, Whole

(* A pass of replace_all copies what it is past.                           *)
LEMMA ReplacePassAnswers ==
  ASSUME IInv, ReplacePass, call.p \notin NoSub
  PROVE  AnswerInv'
<1> DEFINE t == call.text
           c == call.cursor
           m2 == Match[2]
           to == c + (IF m2 = 0 THEN 1 ELSE m2)
           copied == call.buf \o Pre \o call.repl
           b == IF m2 = 0 THEN Append(copied, Head(Rest)) ELSE copied
           k == Dealt
<1>1. Running /\ call.op = "all" /\ Found /\ ~Breaks
  BY DEF ReplacePass
<1>2. /\ call.p \in Patterns /\ t \in Texts /\ c \in 0..Len(t)
      /\ call.cuts \in Seq(Nat \X Nat) /\ Rest = SubSeq(t, c + 1, Len(t))
      /\ call.buf \in Seq(Symbols) /\ call.repl \in Seq(Symbols)
      /\ Match = Regexec[call.p][Rest][1]
      /\ (Matched <=> Regexec[call.p][Rest] # NoMatch)
      /\ Dealt = Append(call.cuts, Whole)
      /\ InOrder(call.cuts, c) /\ IsReplaced(t, call.cuts, call.repl, c, call.buf)
  BY <1>1, LoopStands DEF StandsAt, Answers
<1>3. /\ to \in 0..Len(t) /\ StandsAt(call.p, t, k, to)
      /\ IF m2 = 0 THEN to = c + 1 /\ c < Len(t) ELSE to = c + m2
  BY <1>1, PassMovesOn
<1>4. /\ IsReplaced(t, k, call.repl, c + m2, copied)
      /\ m2 = 0 /\ c < Len(t) =>
           IsReplaced(t, k, call.repl, c + 1, Append(copied, Head(Rest)))
  BY <1>1, <1>2, MatchReplaced DEF Pre, Whole, Found
<1>5. /\ call'.state = "running" /\ call'.op = "all" /\ call'.p = call.p
      /\ call'.text = t /\ call'.cuts = k /\ call'.repl = call.repl
      /\ call'.cursor = to /\ call'.buf = b
  <2>1. DOMAIN call = {"op", "state", "p", "text", "repl", "cursor", "buf",
                       "cap", "count", "overrun", "cuts"}
    BY DEF IInv, CallIsTyped
  <2>2. call.state = "running"
    BY <1>1 DEF Running
  <2> DEFINE cap == IF m2 = 0 /\ Len(copied) + 1 >= Grown THEN Grown * 2 ELSE Grown
             over == call.overrun \/ Len(copied) > Grown \/ (m2 = 0 /\ Len(copied) >= cap)
  <2>3. call' = [call EXCEPT !.buf = b, !.cap = cap, !.overrun = over,
                             !.cursor = to, !.cuts = k]
    BY DEF ReplacePass
  <2> HIDE DEF b, cap, over, to, k
  <2>4. QED
    BY <1>1, <2>1, <2>2, <2>3
<1>6. IsReplaced(t, k, call.repl, to, b)
  <2> HIDE DEF k, copied, m2
  <2>1. QED
    BY <1>3, <1>4
<1> HIDE DEF to, b, k
<1>7. QED
  BY <1>3, <1>5, <1>6, LoopGoesOn DEF Answers

(* A pass of the count counts what it is past.                             *)
LEMMA CountPassAnswers ==
  ASSUME IInv, CountPass, call.p \notin NoSub
  PROVE  AnswerInv'
<1> DEFINE to == call.cursor + (IF Match[2] = 0 THEN 1 ELSE Match[2])
           k == Dealt
<1>1. Running /\ call.op = "count" /\ Found /\ ~Breaks
  BY DEF CountPass
<1>2. /\ call.cuts \in Seq(Nat \X Nat) /\ call.count = Len(call.cuts)
      /\ Dealt = Append(call.cuts, Whole)
  BY <1>1, LoopStands DEF Answers
<1>3. StandsAt(call.p, call.text, k, to)
  BY <1>1, PassMovesOn
<1>4. /\ call'.state = "running" /\ call'.op = "count" /\ call'.p = call.p
      /\ call'.text = call.text /\ call'.cuts = k /\ call'.cursor = to
      /\ call'.count = call.count + 1
  <2>1. DOMAIN call = {"op", "state", "p", "text", "repl", "cursor", "buf",
                       "cap", "count", "overrun", "cuts"}
    BY DEF IInv, CallIsTyped
  <2>2. call.state = "running"
    BY <1>1 DEF Running
  <2>3. call' = [call EXCEPT !.count = call.count + 1, !.cursor = to, !.cuts = k]
    BY DEF CountPass
  <2> HIDE DEF to, k
  <2>4. QED
    BY <1>1, <2>1, <2>2, <2>3
<1>5. Len(k) = call.count + 1
  BY <1>2
<1> HIDE DEF to, k
<1>6. QED
  BY <1>3, <1>4, <1>5, LoopGoesOn DEF Answers

(* What a last pass leaves: no match in the rest, or an empty one at the   *)
(* end of the text, which is then dealt with.                              *)
LEMMA LastPass ==
  ASSUME IInv, Running, call.op \in {"all", "count"}, call.p \notin NoSub,
         Matched => Breaks
  PROVE  LET t == call.text
             k == IF Matched THEN Dealt ELSE call.cuts IN
         /\ k \in Seq(Nat \X Nat) /\ InOrder(k, Len(t))
         /\ call.p \in Simple => LeavesNoMatch(call.p, t, k, Len(t))
         /\ Matched =>
              /\ call.cursor = Len(t) /\ Len(k) = Len(call.cuts) + 1
              /\ call.cursor + Match[2] = Len(t) /\ Pre = <<>>
<1> DEFINE t == call.text
           c == call.cursor
           m == Regexec[call.p][Rest]
<1>1. /\ call.p \in Patterns /\ t \in Texts /\ c \in 0..Len(t)
      /\ call.cuts \in Seq(Nat \X Nat) /\ Rest = SubSeq(t, c + 1, Len(t))
      /\ m = Regexec[call.p][SubSeq(t, c + 1, Len(t))]
      /\ StandsAt(call.p, t, call.cuts, c)
      /\ Match = m[1] /\ (Matched <=> m # NoMatch)
      /\ Dealt = Append(call.cuts, Whole)
  BY LoopStands
<1>2. CASE m = NoMatch
  <2>1. /\ InOrder(call.cuts, Len(t))
        /\ call.p \in Simple => LeavesNoMatch(call.p, t, call.cuts, Len(t))
    <3> HIDE DEF m
    <3>1. QED
      BY <1>1, <1>2, RestDealtWith
  <2>2. QED
    BY <1>1, <1>2, <2>1
<1>3. CASE m # NoMatch
  <2> DEFINE k == Dealt
  <2>1. m[1][2] = 0 /\ Rest = <<>>
    BY <1>1, <1>3 DEF Breaks
  <2>2. k \in Seq(Nat \X Nat)
    BY <1>1, <1>3, DealtIsTyped
  <2> HIDE DEF m
  <2>3. LiesIn(t, c, m)
    BY <1>1, <1>3, OffsetsInText
  <2>4. /\ Len(t) \in Nat /\ c \in Nat /\ Len(Rest) = Len(t) - c
        /\ m[1][1] \in Nat /\ c + m[1][2] = c /\ m[1][1] \in 0..(Len(t) - c)
    BY <1>1, <2>1, <2>3 DEF LiesIn
  <2>5. c = Len(t) /\ c + m[1][2] = Len(t) /\ m[1][1] = 0
    <3>1. Len(Rest) = 0
      BY <2>1
    <3>2. QED
      BY <2>4, <3>1
  <2>6. Pre = <<>>
    BY <1>1, <2>1, <2>5 DEF Pre
  <2>7. StandsAt(call.p, t, Append(call.cuts, <<c + m[1][1], c + m[1][2]>>), c)
    BY <1>1, <1>3, <2>4, MatchDealtWith
  <2>8. StandsAt(call.p, t, k, Len(t))
    BY <1>1, <2>5, <2>7 DEF Whole
  <2>9. k \in Seq(Nat \X Nat) /\ Len(k) = Len(call.cuts) + 1
    BY <1>1, <2>2
  <2> HIDE DEF k
  <2>10. QED
    BY <1>1, <1>3, <2>5, <2>6, <2>8, <2>9 DEF StandsAt, k
<1>4. QED
  BY <1>2, <1>3

(* The last pass of replace_all copies the rest.                           *)
LEMMA ReplaceEndsAnswers ==
  ASSUME IInv, ReplaceEnds, call.p \notin NoSub
  PROVE  AnswerInv'
<1> DEFINE t == call.text
           c == call.cursor
           last == Matched
           copied == IF last THEN call.buf \o call.repl ELSE call.buf
           k == IF last THEN Dealt ELSE call.cuts
<1>1. Running /\ call.op = "all" /\ (last => Inside /\ Breaks)
  BY DEF ReplaceEnds
<1>2. /\ call.p \in Patterns /\ t \in Texts /\ c \in 0..Len(t)
      /\ call.cuts \in Seq(Nat \X Nat) /\ Rest = SubSeq(t, c + 1, Len(t))
      /\ call.buf \in Seq(Symbols) /\ call.repl \in Seq(Symbols)
      /\ Match = Regexec[call.p][Rest][1]
      /\ (Matched <=> Regexec[call.p][Rest] # NoMatch)
      /\ Dealt = Append(call.cuts, Whole)
      /\ InOrder(call.cuts, c) /\ IsReplaced(t, call.cuts, call.repl, c, call.buf)
  BY <1>1, LoopStands DEF StandsAt, Answers
<1>3. /\ k \in Seq(Nat \X Nat) /\ InOrder(k, Len(t))
      /\ call.p \in Simple => LeavesNoMatch(call.p, t, k, Len(t))
      /\ last => c = Len(t) /\ c + Match[2] = Len(t) /\ Pre = <<>>
  BY <1>1, LastPass
<1>4. /\ copied \in Seq(Symbols) /\ InOrder(k, c)
      /\ IsReplaced(t, k, call.repl, c, copied)
  <2>1. CASE last
    <3>1. IsReplaced(t, Dealt, call.repl, c + Match[2],
                     call.buf \o Pre \o call.repl)
      BY <1>2, <2>1, MatchReplaced DEF Pre, Whole
    <3>2. call.buf \o <<>> = call.buf
      BY <1>2
    <3>3. copied \in Seq(Symbols)
      BY <1>2, <2>1
    <3>4. QED
      BY <1>3, <2>1, <3>1, <3>2, <3>3
  <2>2. CASE ~last
    BY <1>2, <2>2
  <2>3. QED
    BY <2>1, <2>2
<1>5. /\ call'.state = "done" /\ call'.op = "all" /\ call'.p = call.p
      /\ call'.text = t /\ call'.cuts = k /\ call'.repl = call.repl
      /\ call'.buf = copied \o Rest
  <2>1. DOMAIN call = {"op", "state", "p", "text", "repl", "cursor", "buf",
                       "cap", "count", "overrun", "cuts"}
    BY DEF IInv, CallIsTyped
  <2> DEFINE cap == IF last THEN Grown ELSE call.cap
             room == Len(copied) + Len(Rest) + 1
             end == IF room > cap THEN room ELSE cap
             over == call.overrun \/ Len(copied) > cap
             b == copied \o Rest
  <2>2. call' = [call EXCEPT !.state = "done", !.buf = b, !.cap = end,
                             !.overrun = over, !.cuts = k]
    BY DEF ReplaceEnds
  <2> HIDE DEF b, end, over, k
  <2>3. QED
    BY <1>1, <2>1, <2>2 DEF b
<1> HIDE DEF copied, k
<1>6. IsReplaced(t, k, call.repl, Len(t), copied \o Rest)
  <2>1. t \in Seq(Symbols) /\ Len(t) \in c..Len(t)
    BY <1>2, TextAssumption
  <2>2. QED
    BY <1>2, <1>3, <1>4, <2>1, TextCopied
<1>7. QED
  BY <1>3, <1>5, <1>6, CallIsDone DEF Answers

(* A count that ends has counted the matches of the text.                  *)
LEMMA CountEndsAnswers ==
  ASSUME IInv, CountEnds, call.p \notin NoSub
  PROVE  AnswerInv'
<1> DEFINE last == Matched
           n == IF last THEN call.count + 1 ELSE call.count
           k == IF last THEN Dealt ELSE call.cuts
<1>1. Running /\ call.op = "count" /\ (last => Inside /\ Breaks)
  BY DEF CountEnds
<1>2. call.count = Len(call.cuts)
  BY <1>1, LoopStands DEF Answers
<1>3. /\ InOrder(k, Len(call.text))
      /\ call.p \in Simple => LeavesNoMatch(call.p, call.text, k, Len(call.text))
      /\ last => Len(k) = Len(call.cuts) + 1
  BY <1>1, LastPass
<1>4. n = Len(k)
  BY <1>2, <1>3
<1>5. /\ call'.state = "done" /\ call'.op = "count" /\ call'.p = call.p
      /\ call'.text = call.text /\ call'.cuts = k /\ call'.count = n
  <2>1. DOMAIN call = {"op", "state", "p", "text", "repl", "cursor", "buf",
                       "cap", "count", "overrun", "cuts"}
    BY DEF IInv, CallIsTyped
  <2>2. call' = [call EXCEPT !.state = "done", !.count = n, !.cuts = k]
    BY DEF CountEnds
  <2> HIDE DEF n, k
  <2>3. QED
    BY <1>1, <2>1, <2>2
<1> HIDE DEF n, k
<1>6. QED
  BY <1>3, <1>4, <1>5, CallIsDone DEF Answers

(* Before the first pass nothing is dealt with.                            *)
LEMMA NothingDealtWith ==
  ASSUME NEW p \in Patterns, NEW t \in Texts, NEW r
  PROVE  StandsAt(p, t, <<>>, 0) /\ IsReplaced(t, <<>>, r, 0, <<>>)
<1>1. DOMAIN <<>> = {} /\ Len(<<>>) = 0 /\ 1..0 = {}
  OBVIOUS
<1>2. InOrder(<<>>, 0)
  BY <1>1 DEF InOrder
<1>3. ASSUME p \in Simple PROVE LeavesNoMatch(p, t, <<>>, 0)
  <2>1. 0 \in 0..Len(t)
    BY TextAssumption
  <2>2. ~IsMatch(p, SubSeq(t, 0 + 1, 0))
    BY <1>3, <2>1, NoMatchInNothing
  <2>3. \A i \in 0..0 : i = 0
    OBVIOUS
  <2>4. QED
    BY <2>2, <2>3 DEF LeavesNoMatch
<1>4. Kept(<<>>, 0) = 0
  BY <1>1, FS_EmptySet DEF Kept
<1>5. IsReplaced(t, <<>>, r, 0, <<>>)
  <2>1. Len(<<>>) = Kept(<<>>, 0) + Len(<<>>) * Len(r)
    BY <1>1, <1>4
  <2>2. QED
    BY <1>1, <2>1 DEF IsReplaced
<1>6. QED
  BY <1>2, <1>3, <1>5 DEF StandsAt

(* A replace_all that begins owes nothing yet.                             *)
LEMMA StartReplaceAllAnswers ==
  ASSUME IInv, NEW h, NEW t \in Texts, NEW r \in Replacements,
         StartReplaceAll(h, t, r)
  PROVE  AnswerInv'
<1> DEFINE p == regex_pool[h].compiled
           room == 2 * Len(t) + Spare
<1>1. p \in Patterns
  BY CallablePattern DEF StartReplaceAll
<1>2. CASE GivesUp("all", t)
  BY <1>2, GivingUp, NoAnswerIsOwed DEF GivesUp
<1>3. ASSUME ~GivesUp("all", t)
      PROVE  /\ call'.state = "running" /\ call'.op = "all" /\ call'.p = p
             /\ call'.text = t /\ call'.repl = r /\ call'.cursor = 0
             /\ call'.buf = <<>> /\ call'.cuts = <<>>
  <2> DEFINE none == <<>>
  <2>1. call' = [op |-> "all", state |-> "running", p |-> p,
                 text |-> t, repl |-> r, cursor |-> 0, buf |-> none,
                 cap |-> room, count |-> 0, overrun |-> FALSE, cuts |-> none]
    BY <1>3, BeginsAsRecord DEF StartReplaceAll, StartLoop
  <2> HIDE DEF none, p, room
  <2>2. /\ call'.state = "running" /\ call'.op = "all" /\ call'.p = p
        /\ call'.text = t /\ call'.repl = r /\ call'.cursor = 0
        /\ call'.buf = none /\ call'.cuts = none
    BY <2>1
  <2>3. QED
    BY <2>2 DEF none
<1> HIDE DEF p, room
<1>4. StandsAt(p, t, <<>>, 0) /\ IsReplaced(t, <<>>, r, 0, <<>>)
  BY <1>1, NothingDealtWith
<1>5. QED
  BY <1>2, <1>3, <1>4, LoopGoesOn DEF Answers

(* A count that begins owes nothing yet.                                   *)
LEMMA StartCountAnswers ==
  ASSUME IInv, NEW h, NEW t \in Texts, StartCount(h, t)
  PROVE  AnswerInv'
<1> DEFINE p == regex_pool[h].compiled
<1>1. p \in Patterns
  BY CallablePattern DEF StartCount
<1>2. call' = [op |-> "count", state |-> "running", p |-> p,
               text |-> t, repl |-> <<>>, cursor |-> 0, buf |-> <<>>, cap |-> 0,
               count |-> 0, overrun |-> FALSE, cuts |-> <<>>]
  BY BeginsAsRecord DEF StartCount, StartLoop
<1> HIDE DEF p
<1>3. /\ call'.state = "running" /\ call'.op = "count" /\ call'.p = p
      /\ call'.text = t /\ call'.cursor = 0 /\ call'.cuts = <<>>
      /\ call'.count = 0
  BY <1>2
<1>4. StandsAt(p, t, <<>>, 0)
  BY <1>1, NothingDealtWith
<1>5. Len(<<>>) = 0
  OBVIOUS
<1>6. QED
  BY <1>3, <1>4, <1>5, LoopGoesOn DEF Answers

(* replace_first deals with the first match and copies the rest,           *)
LEMMA FirstMatchDealtWith ==
  ASSUME NEW p \in Patterns, NEW t \in Texts, NEW r \in Replacements,
         Regexec[p][t] # NoMatch
  PROVE  LET w == Regexec[p][t][1] IN
         /\ InOrder(<<w>>, Len(t)) /\ IsReplaced(t, <<w>>, r, Len(t), Around(t, w, r))
         /\ p \in Simple => LeavesNoMatch(p, t, <<w>>, w[2])
<1> DEFINE m == Regexec[p][t]
           b == SubSeq(t, 1, m[1][1]) \o r \o SubSeq(t, m[1][2] + 1, Len(t))
           k == <<m[1]>>
<1>1. p \in Patterns
  OBVIOUS
<1>2. m # NoMatch
  OBVIOUS
<1>3. t \in Seq(Symbols) /\ Len(t) \in Nat /\ r \in Seq(Symbols)
  BY TextAssumption
<1>4. SubSeq(t, 0 + 1, Len(t)) = t /\ 0 \in 0..Len(t)
  BY <1>3
<1>5. InOrder(<<>>, 0) /\ IsReplaced(t, <<>>, r, 0, <<>>)
  BY <1>1, NothingDealtWith DEF StandsAt
<1>6. /\ LiesIn(t, 0, m)
      /\ m = Regexec[p][SubSeq(t, 0 + 1, Len(t))]
  BY <1>1, <1>2, <1>4, OffsetsInText
<1>7. /\ m[1][1] \in Nat /\ m[1][2] \in Nat /\ m[1][2] <= Len(t)
      /\ 0 + m[1][1] = m[1][1] /\ 0 + m[1][2] = m[1][2]
  BY <1>6 DEF LiesIn
<1>8. k = Append(<<>>, <<0 + m[1][1], 0 + m[1][2]>>)
  <2>1. m[1] = <<m[1][1], m[1][2]>>
    <3>1. m \in Seq(Offsets(t)) /\ Len(m) = Nsub[p] + 1 /\ Nsub[p] \in Nat
      BY <1>1, <1>2, RegexecAssumption
    <3>2. m[1] \in Offsets(t)
      <4> HIDE DEF m
      <4>1. QED
        BY <3>1
    <3>3. QED
      BY <3>2 DEF Offsets
  <2> DEFINE w == m[1]
  <2> HIDE DEF m
  <2>2. Append(<<>>, w) = <<w>>
    OBVIOUS
  <2>3. QED
    BY <1>7, <2>1, <2>2
<1> DEFINE pre == SubSeq(t, 1, m[1][1])
           rest == SubSeq(t, m[1][2] + 1, Len(t))
<1>9. /\ k \in Seq(Nat \X Nat) /\ <<>> \o pre \o r \in Seq(Symbols)
      /\ InOrder(k, m[1][2])
      /\ IsReplaced(t, k, r, m[1][2], <<>> \o pre \o r)
  <2> HIDE DEF m, k
  <2>1. <<>> \in Seq(Nat \X Nat) /\ <<>> \in Seq(Symbols)
    OBVIOUS
  <2>2. LET all == Append(<<>>, <<0 + m[1][1], 0 + m[1][2]>>)
            copied == <<>> \o SubSeq(SubSeq(t, 0 + 1, Len(t)), 1, m[1][1]) \o r IN
        /\ all \in Seq(Nat \X Nat) /\ copied \in Seq(Symbols)
        /\ InOrder(all, 0 + m[1][2])
        /\ IsReplaced(t, all, r, 0 + m[1][2], copied)
    BY <1>1, <1>2, <1>3, <1>4, <1>5, <1>6, <2>1, MatchReplaced
  <2>3. QED
    BY <1>4, <1>7, <1>8, <2>2
<1>10. <<>> \o pre = pre
  <2>1. pre \in Seq(Symbols)
    <3> DEFINE i == m[1][1]
    <3>1. i \in 0..Len(t)
      BY <1>6 DEF LiesIn
    <3> HIDE DEF i
    <3>2. SubSeq(t, 1, i) \in Seq(Symbols)
      BY <1>3, <3>1
    <3>3. QED
      BY <3>2 DEF i
  <2> HIDE DEF pre
  <2>2. QED
    BY <2>1
<1>11. m[1][2] \in 0..Len(t) /\ Len(t) \in m[1][2]..Len(t)
  BY <1>3, <1>7
<1>12. /\ InOrder(k, Len(t))
       /\ IsReplaced(t, k, r, Len(t), (pre \o r) \o rest)
  <2> DEFINE i == m[1][2]
  <2>1. /\ k \in Seq(Nat \X Nat) /\ pre \o r \in Seq(Symbols)
        /\ InOrder(k, i) /\ IsReplaced(t, k, r, i, pre \o r)
        /\ i \in 0..Len(t) /\ Len(t) \in i..Len(t)
    BY <1>9, <1>10, <1>11
  <2> HIDE DEF i, k, pre
  <2>2. /\ InOrder(k, Len(t))
        /\ IsReplaced(t, k, r, Len(t), (pre \o r) \o SubSeq(t, i + 1, Len(t)))
    BY <1>3, <2>1, TextCopied
  <2>3. QED
    BY <2>2 DEF i
<1>13. IsReplaced(t, k, r, Len(t), b)
  BY <1>12
<1>14. p \in Simple => LeavesNoMatch(p, t, k, m[1][2])
  <2> DEFINE c == 0
             cuts == <<>>
             to == m[1][2]
  <2>1. /\ c \in 0..Len(t) /\ m = Regexec[p][SubSeq(t, c + 1, Len(t))]
        /\ cuts \in Seq(Nat \X Nat) /\ StandsAt(p, t, cuts, c)
        /\ to \in 0..Len(t) /\ to = c + m[1][2]
        /\ k = Append(cuts, <<c + m[1][1], c + m[1][2]>>)
    BY <1>4, <1>6, <1>7, <1>8, <1>11, NothingDealtWith
  <2> HIDE DEF c, cuts, to, k, m
  <2>2. StandsAt(p, t, k, to)
    BY <1>2, <1>2, <2>1, MatchDealtWith
  <2>3. QED
    BY <2>2 DEF StandsAt, to
<1>15. QED
  BY <1>12, <1>13, <1>14 DEF Around

(* or finds nothing in all of the text.                                    *)
LEMMA NothingFound ==
  ASSUME NEW p \in Patterns, NEW t \in Texts, NEW r \in Replacements,
         Regexec[p][t] = NoMatch
  PROVE  /\ InOrder(<<>>, Len(t)) /\ IsReplaced(t, <<>>, r, Len(t), t)
         /\ p \in Simple => LeavesNoMatch(p, t, <<>>, Len(t))
<1> DEFINE none == <<>>
<1>1. t \in Seq(Symbols) /\ Len(t) \in Nat /\ r \in Seq(Symbols)
  BY TextAssumption
<1>2. SubSeq(t, 0 + 1, Len(t)) = t /\ 0 \in 0..Len(t) /\ Len(t) \in 0..Len(t)
      /\ none \o t = t
  BY <1>1
<1>3. StandsAt(p, t, none, 0) /\ IsReplaced(t, none, r, 0, none)
  BY NothingDealtWith
<1>4. none \in Seq(Nat \X Nat) /\ none \in Seq(Symbols)
  OBVIOUS
<1> HIDE DEF none
<1>5. /\ InOrder(none, Len(t))
      /\ p \in Simple => LeavesNoMatch(p, t, none, Len(t))
  BY <1>2, <1>3, <1>4, RestDealtWith
<1>6. IsReplaced(t, none, r, Len(t), none \o SubSeq(t, 0 + 1, Len(t)))
  BY <1>1, <1>2, <1>3, <1>4, TextCopied DEF StandsAt
<1>7. QED
  BY <1>2, <1>5, <1>6 DEF none

(* What is said of a finished replace_first.                               *)
LEMMA FirstIsDone ==
  ASSUME NEW p, NEW t, NEW r, NEW b, NEW k, NEW i,
         call' = FirstCall("done", p, t, r, b, k),
         i = IF k # <<>> THEN k[1][2] ELSE Len(t),
         InOrder(k, Len(t)), IsReplaced(t, k, r, Len(t), b),
         p \in Simple => LeavesNoMatch(p, t, k, i)
  PROVE  AnswerInv'
<1>1. /\ call'.state = "done" /\ call'.op = "first" /\ call'.p = p
      /\ call'.text = t /\ call'.repl = r /\ call'.buf = b /\ call'.cuts = k
  BY DEF FirstCall
<1>2. QED
  BY <1>1, CallIsDone DEF Answers

(* The answer of replace_first is the one owed.                            *)
LEMMA ReplaceFirstAnswers ==
  ASSUME IInv, NEW h, NEW t \in Texts, NEW r \in Replacements,
         ReplaceFirst(h, t, r)
  PROVE  AnswerInv'
<1> DEFINE p == regex_pool[h].compiled
           w == Regexec[p][t][1]
<1>1. /\ p \in Patterns
      /\ \/ \E copy \in {t, <<>>} : call' = GaveUp("first", t, copy)
         \/ ~IsMatch(p, t) /\ call' = FirstCall("done", p, t, r, t, <<>>)
         \/ /\ p \in NoSub
            /\ \E s \in {"done", "strayed"}, b \in Seq(Symbols) :
                 call' = FirstCall(s, p, t, r, b, <<>>)
         \/ /\ p \notin NoSub /\ IsMatch(p, t)
            /\ call' = FirstCall("done", p, t, r, Around(t, w, r), <<w>>)
  BY FirstCases
<1>2. CASE \E copy \in {t, <<>>} : call' = GaveUp("first", t, copy)
  BY <1>2, GivingUp, NoAnswerIsOwed
<1>3. CASE ~IsMatch(p, t) /\ call' = FirstCall("done", p, t, r, t, <<>>)
  <2> HIDE DEF p
  <2>1. /\ InOrder(<<>>, Len(t)) /\ IsReplaced(t, <<>>, r, Len(t), t)
        /\ p \in Simple => LeavesNoMatch(p, t, <<>>, Len(t))
    BY <1>1, <1>3, NothingFound DEF IsMatch
  <2>2. QED
    BY <1>3, <2>1, FirstIsDone
<1>4. CASE p \in NoSub /\ \E s \in {"done", "strayed"}, b \in Seq(Symbols) :
                              call' = FirstCall(s, p, t, r, b, <<>>)
  <2>1. call'.p = p
    BY <1>4 DEF FirstCall
  <2>2. QED
    BY <1>4, <2>1, NoAnswerIsOwed
<1>5. CASE /\ p \notin NoSub /\ IsMatch(p, t)
           /\ call' = FirstCall("done", p, t, r, Around(t, w, r), <<w>>)
  <2>1. /\ InOrder(<<w>>, Len(t)) /\ IsReplaced(t, <<w>>, r, Len(t), Around(t, w, r))
        /\ p \in Simple => LeavesNoMatch(p, t, <<w>>, w[2])
    BY <1>1, <1>5, FirstMatchDealtWith DEF IsMatch
  <2> DEFINE k == <<w>>
             i == w[2]
  <2>2. k # <<>> /\ k[1][2] = i
    OBVIOUS
  <2> HIDE DEF p, w, k, i
  <2>3. QED
    BY <1>5, <2>1, <2>2, FirstIsDone DEF k, i
<1>6. QED
  BY <1>1, <1>2, <1>3, <1>4, <1>5

-----------------------------------------------------------------------------
(* The pool.                                                               *)

(* The record a slot holds when it has been compiled or released.          *)
LEMMA SlotUpdated ==
  ASSUME PoolInv, NEW i \in Slots, NEW p \in Patterns \cup {NULL},
         NEW used \in BOOLEAN, used => p \in Patterns,
         regex_pool' = [regex_pool EXCEPT ![i].compiled = p, ![i].active = used,
                                          ![i].last_nmatch = 0],
         examined' = [examined EXCEPT ![i] = NULL],
         last_error' \in BOOLEAN
  PROVE  PoolInv'
<1>1. 0 \in 0..MaxGroups
  BY SizeAssumption
<1>2. regex_pool' \in [Slots ->
       [compiled : Patterns \cup {NULL}, active : BOOLEAN,
        matches : [Groups -> (Int \X Int)], last_nmatch : 0..MaxGroups]]
  <2> DEFINE e == [regex_pool[i] EXCEPT !.compiled = p, !.active = used,
                                        !.last_nmatch = 0]
  <2>1. regex_pool' = [regex_pool EXCEPT ![i] = e]
    BY DEF PoolInv
  <2>2. e \in [compiled : Patterns \cup {NULL}, active : BOOLEAN,
           matches : [Groups -> (Int \X Int)], last_nmatch : 0..MaxGroups]
    BY <1>1 DEF PoolInv
  <2> HIDE DEF e
  <2>3. QED
    BY <2>1, <2>2 DEF PoolInv
<1>3. examined' \in [Slots -> ExecTexts \cup {NULL}]
  BY DEF PoolInv
<1>4. GroupsAreStored'
  <2> SUFFICES ASSUME NEW j \in Slots
               PROVE  GroupsStored(regex_pool'[j], examined'[j])
    BY DEF GroupsAreStored
  <2>1. CASE j = i
    <3>1. regex_pool'[i].last_nmatch = 0 /\ regex_pool'[i].active = used
          /\ regex_pool'[i].compiled = p
      BY DEF PoolInv
    <3>2. QED
      BY <2>1, <3>1 DEF GroupsStored
  <2>2. CASE j # i
    <3>1. regex_pool'[j] = regex_pool[j] /\ examined'[j] = examined[j]
      BY <2>2 DEF PoolInv
    <3>2. QED
      BY <3>1 DEF PoolInv, GroupsAreStored
  <2>3. QED
    BY <2>1, <2>2
<1>5. QED
  BY <1>2, <1>3, <1>4 DEF PoolInv

(* A scan of a non-empty set of slots stops at the least of them.          *)
LEMMA FirstOfIsLeast ==
  ASSUME NEW S, S \subseteq Nat, S # {}
  PROVE  FirstOf(S) \in S /\ \A j \in S : FirstOf(S) <= j
<1>1. PICK i \in S : \A j \in S : <<j, i>> \notin OpToRel(<, Nat)
  BY NatLessThanWellFounded, WFMin
<1>2. ASSUME NEW j \in S PROVE i <= j
  BY <1>1, <<j, i>> \in Nat \X Nat DEF OpToRel
<1>3. QED
  BY <1>2 DEF FirstOf

(* Compile takes a free slot; release frees the one it is given.           *)
LEMMA CompileKeeps ==
  ASSUME IInv, NEW p \in Patterns, Compile(p)
  PROVE  PoolInv'
<1> DEFINE i == FirstOf(FreeSlots)
<1>1. i \in Slots
  <2>1. FreeSlots \subseteq Nat /\ FreeSlots # {} /\ FreeSlots \subseteq Slots
    <3>1. Slots \subseteq Nat
      BY SizeAssumption DEF Slots
    <3>2. QED
      BY <3>1 DEF FreeSlots, Compile
  <2>2. QED
    BY <2>1, FirstOfIsLeast
<1>2. /\ regex_pool' = [regex_pool EXCEPT ![i].compiled = p, ![i].active = TRUE,
                                          ![i].last_nmatch = 0]
      /\ examined' = [examined EXCEPT ![i] = NULL]
      /\ last_error' \in BOOLEAN
  BY DEF Compile
<1> HIDE DEF i
<1>3. QED
  BY <1>1, <1>2, IInvHalves, SlotUpdated

(* A release keeps the pool and its groups.                                *)
LEMMA ReleaseKeeps ==
  ASSUME IInv, NEW h, Release(h)
  PROVE  PoolInv'
<1>1. /\ h \in Slots
      /\ regex_pool' = [regex_pool EXCEPT ![h].compiled = NULL, ![h].active = FALSE,
                                          ![h].last_nmatch = 0]
      /\ examined' = [examined EXCEPT ![h] = NULL]
      /\ last_error' \in BOOLEAN
  BY IInvHalves DEF Release, Usable, PoolInv
<1>2. QED
  BY <1>1, IInvHalves, SlotUpdated

(* The groups exec stores, and how many of them it tells.                  *)
LEMMA GroupCountFits ==
  ASSUME NEW p \in Patterns
  PROVE  /\ GroupCount(p) \in 0..MaxGroups
         /\ \A g \in 0..(GroupCount(p) - 1) : g \in Groups /\ g \in 0..Nsub[p]
<1>1. Nsub[p] \in Nat /\ MaxGroups \in Nat
  BY RegexecAssumption, SizeAssumption
<1> DEFINE n == Nsub[p]
<1> HIDE DEF n
<1>2. n \in Nat /\ GroupCount(p) = IF n + 1 > MaxGroups THEN MaxGroups ELSE n + 1
  BY <1>1 DEF GroupCount, n
<1>3. \A g \in 0..(GroupCount(p) - 1) : g \in 0..(MaxGroups - 1) /\ g \in 0..n
  BY <1>1, <1>2
<1>4. QED
  BY <1>1, <1>2, <1>3 DEF Groups, n

(* What an exec stores in the groups are pairs of offsets.                 *)
LEMMA ReportedIsTyped ==
  ASSUME NEW h, NEW t \in Texts, regex_pool[h].compiled \in Patterns
  PROVE  Reported(h, t) \in [Groups -> (Int \X Int)]
<1> DEFINE p == regex_pool[h].compiled
           m == Regexec[p][t]
<1> SUFFICES ASSUME NEW g \in Groups
             PROVE  (IF ~IsMatch(p, t) \/ p \in NoSub THEN <<0, 0>>
                     ELSE IF g <= Nsub[p] THEN m[g + 1] ELSE <<-1, -1>>)
                      \in Int \X Int
  BY DEF Reported
<1>1. CASE IsMatch(p, t) /\ g <= Nsub[p]
  <2>1. /\ m \in Seq(Offsets(t)) /\ Len(m) = Nsub[p] + 1 /\ Nsub[p] \in Nat
    BY <1>1, RegexecAssumption DEF IsMatch
  <2> HIDE DEF m, p
  <2>2. g + 1 \in 1..Len(m)
    BY <1>1, <2>1, SizeAssumption DEF Groups
  <2>3. m[g + 1] \in Offsets(t)
    BY <2>1, <2>2
  <2>4. m[g + 1] \in Int \X Int
    BY <2>3, TextsAreStrings DEF Offsets
  <2>5. QED
    BY <2>4
<1>2. CASE ~(IsMatch(p, t) /\ g <= Nsub[p])
  BY <1>2
<1>3. QED
  BY <1>1, <1>2

(* exec stores the groups of its text, in its slot alone.                  *)
LEMMA ExecKeeps ==
  ASSUME IInv, NEW h, NEW t \in ExecTexts, Exec(h, t)
  PROVE  PoolInv'
<1> DEFINE p == regex_pool[h].compiled
           n == IF IsMatch(p, t) THEN GroupCount(p) ELSE 0
           found == Reported(h, t)
<1>1. /\ h \in Slots /\ regex_pool[h].active
      /\ regex_pool' = [regex_pool EXCEPT ![h].matches = found,
                                          ![h].last_nmatch = n]
      /\ examined' = [examined EXCEPT ![h] = t]
      /\ last_error' = last_error
  BY DEF Exec, Usable
<1>2. PoolInv /\ t \in Texts
  BY IInvHalves, TextAssumption
<1>3. p \in Patterns
  BY <1>1, <1>2 DEF PoolInv, GroupsAreStored, GroupsStored
<1>4. found \in [Groups -> (Int \X Int)]
  BY <1>2, <1>3, ReportedIsTyped
<1>5. n \in 0..MaxGroups
  BY <1>3, GroupCountFits, SizeAssumption
<1>6. IsMatch(p, t) =>
        \A g \in 0..(n - 1) :
          found[g] = IF p \in NoSub THEN <<0, 0>> ELSE Regexec[p][t][g + 1]
  <2> SUFFICES ASSUME IsMatch(p, t), NEW g \in 0..(GroupCount(p) - 1)
               PROVE  found[g] = IF p \in NoSub THEN <<0, 0>>
                                 ELSE Regexec[p][t][g + 1]
    OBVIOUS
  <2>1. g \in Groups /\ g \in 0..Nsub[p]
    BY <1>3, GroupCountFits
  <2>2. g <= Nsub[p]
    BY <2>1, <1>3, RegexecAssumption
  <2>3. QED
    BY <2>1, <2>2 DEF Reported
<1> HIDE DEF n, found
<1>7. /\ regex_pool'[h].matches = found /\ regex_pool'[h].last_nmatch = n
      /\ regex_pool'[h].active = regex_pool[h].active
      /\ regex_pool'[h].compiled = p /\ examined'[h] = t
  BY <1>1, <1>2 DEF PoolInv
<1>8. \A j \in Slots \ {h} :
        regex_pool'[j] = regex_pool[j] /\ examined'[j] = examined[j]
  BY <1>1, <1>2 DEF PoolInv
<1>9. regex_pool' \in [Slots ->
       [compiled : Patterns \cup {NULL}, active : BOOLEAN,
        matches : [Groups -> (Int \X Int)], last_nmatch : 0..MaxGroups]]
  <2> DEFINE e == [regex_pool[h] EXCEPT !.matches = found, !.last_nmatch = n]
  <2>1. regex_pool' = [regex_pool EXCEPT ![h] = e]
    BY <1>1, <1>2 DEF PoolInv
  <2>2. e \in [compiled : Patterns \cup {NULL}, active : BOOLEAN,
           matches : [Groups -> (Int \X Int)], last_nmatch : 0..MaxGroups]
    BY <1>1, <1>2, <1>4, <1>5 DEF PoolInv
  <2> HIDE DEF e
  <2>3. QED
    BY <2>1, <2>2, <1>2 DEF PoolInv
<1>10. examined' \in [Slots -> ExecTexts \cup {NULL}] /\ last_error' \in BOOLEAN
  BY <1>1, <1>2 DEF PoolInv
<1>11. GroupsAreStored'
  <2> SUFFICES ASSUME NEW j \in Slots
               PROVE  GroupsStored(regex_pool'[j], examined'[j])
    BY DEF GroupsAreStored
  <2>1. CASE j = h
    <3>1. n > 0 => IsMatch(p, t) /\ n = GroupCount(p)
      BY DEF n
    <3>2. n \in Nat
      BY <1>5, SizeAssumption
    <3> HIDE DEF p
    <3> DEFINE e == regex_pool'[h]
    <3>3. /\ e.active /\ e.compiled = p /\ e.matches = found
          /\ e.last_nmatch = n /\ examined'[h] = t
      BY <1>1, <1>7
    <3> HIDE DEF e
    <3>4. GroupsStored(e, t)
      BY <3>1, <3>2, <3>3, <1>3, <1>6 DEF GroupsStored
    <3>5. QED
      BY <2>1, <3>3, <3>4 DEF e
  <2>2. CASE j # h
    BY <2>2, <1>2, <1>8 DEF PoolInv, GroupsAreStored
  <2>3. QED
    BY <2>1, <2>2
<1>12. QED
  BY <1>9, <1>10, <1>11 DEF PoolInv

-----------------------------------------------------------------------------
(* The theorems.                                                           *)

(* The strengthened invariant holds at the start and through every step.   *)
LEMMA InitOK == Init => IInv
<1> SUFFICES ASSUME Init
             PROVE  CallInv /\ AnswerInv /\ PoolInv /\ MatchTyped
  BY IInvHalves
<1>1. CallInv
  BY IdleIsTyped DEF Init
<1>2. 0 \in 0..MaxGroups
  BY SizeAssumption
<1>3. PoolInv
  <2> DEFINE none == [g \in Groups |-> <<0, 0>>]
             e == [compiled |-> NULL, active |-> FALSE, matches |-> none,
                   last_nmatch |-> 0]
  <2>1. none \in [Groups -> (Int \X Int)]
    OBVIOUS
  <2>2. regex_pool = [i \in Slots |-> e] /\ last_error = FALSE
        /\ examined = [i \in Slots |-> NULL]
    BY DEF Init
  <2> HIDE DEF none
  <2>3. e \in [compiled : Patterns \cup {NULL}, active : BOOLEAN,
              matches : [Groups -> (Int \X Int)], last_nmatch : 0..MaxGroups]
    BY <1>2, <2>1
  <2>4. \A t : GroupsStored(e, t)
    BY DEF GroupsStored
  <2> HIDE DEF e
  <2>5. GroupsAreStored
    BY <2>2, <2>4 DEF GroupsAreStored
  <2>6. QED
    BY <2>2, <2>3, <2>5 DEF PoolInv
<1>4. AnswerInv
  BY DEF Init, Idle, AnswerInv, AnswerSoFar, AnswerIsExact, Running
<1>5. MatchTyped
  <2>1. match = Unset
    BY DEF Init
  <2>2. QED
    BY <2>1, UnsetIsTyped DEF MatchTyped
<1>6. QED
  BY <1>1, <1>3, <1>4, <1>5

(* What a step of a call keeps of the pool, and a step of the pool of the  *)
(* call.                                                                   *)
LEMMA PoolIsKept ==
  ASSUME PoolInv, KeepsPool
  PROVE  PoolInv'
  BY DEF PoolInv, KeepsPool, GroupsAreStored, GroupsStored, IsMatch, GroupCount

(* What leaves the call alone keeps its half of the invariant.             *)
LEMMA CallIsKept ==
  ASSUME CallInv, call' = call
  PROVE  CallInv' /\ (AnswerInv => AnswerInv')
<1>1. CallInv'
  BY DEF CallInv, CallIsTyped, CallTypeOK, BufferIsNotOverrun, RoomIsLeft,
         Running, Rest
<1>2. AnswerInv => AnswerInv'
  BY DEF AnswerInv, AnswerSoFar, AnswerIsExact, DealtWith, Searched, Running
<1>3. QED
  BY <1>1, <1>2

(* The local no one has set keeps its type.                                *)
LEMMA MatchIsTyped ==
  ASSUME MatchTyped, [Next]_vars
  PROVE  MatchTyped'
<1>1. Unset \in Int \X Int /\ Leftovers \subseteq Int \X Int
  BY SizeAssumption, UnsetIsTyped
<1>2. match' \in Leftovers \cup {Unset} \/ match' = match
  BY DEF Next, PoolCall, TextCall, Loop, Compile, CompileFails, Release, Exec,
         StartCount, StartReplaceAll, StartLoop, ReplaceFirst, NoPattern,
         ReplacePass, ReplaceOutOfMemory, ReplaceEnds, CountPass, CountEnds,
         Strays, Returns, KeepsAllButCall, vars
<1>3. QED
  BY <1>1, <1>2 DEF MatchTyped

(* A step of a loop on a pattern without offsets owes no answer.           *)
LEMMA UnsetOwesNothing ==
  ASSUME IInv, call.p \in NoSub,
         ReplacePass \/ ReplaceEnds \/ CountPass \/ CountEnds
  PROVE  AnswerInv'
<1>1. "p" \in DOMAIN call
  BY DEF IInv, CallIsTyped
<1>2. call'.p = call.p
  BY <1>1 DEF ReplacePass, ReplaceEnds, CountPass, CountEnds
<1>3. QED
  BY <1>2, NoAnswerIsOwed

(* Every step keeps the strengthened invariant.                            *)
LEMMA StepOK == IInv /\ [Next]_vars => IInv'
<1> SUFFICES ASSUME IInv, [Next]_vars
             PROVE  IInv'
  OBVIOUS
<1>1. CallInv /\ AnswerInv /\ PoolInv /\ MatchTyped
  BY IInvHalves
<1>0. SUFFICES CallInv' /\ AnswerInv' /\ PoolInv'
  <2>1. MatchTyped'
    BY <1>1, MatchIsTyped
  <2>2. QED
    BY <2>1 DEF IInv, CallInv, AnswerInv, PoolInv, TypeOK, MatchTyped
<1>2. CASE \E p \in Patterns : Compile(p)
  <2>1. call' = call
    BY <1>2 DEF Compile
  <2>2. QED
    BY <1>1, <1>2, <2>1, CompileKeeps, CallIsKept
<1>3. CASE \E p \in Patterns \cup BadPatterns : CompileFails(p)
  <2>1. /\ call' = call /\ regex_pool' = regex_pool /\ examined' = examined
        /\ last_error' = TRUE
    BY <1>3 DEF CompileFails
  <2>2. PoolInv'
    BY <1>1, <2>1
       DEF PoolInv, GroupsAreStored, GroupsStored, IsMatch, GroupCount
  <2>3. QED
    BY <1>1, <2>1, <2>2, CallIsKept
<1>4. CASE \E h \in HandleArgs : Release(h)
  <2>1. call' = call
    BY <1>4 DEF Release
  <2>2. QED
    BY <1>1, <1>4, <2>1, ReleaseKeeps, CallIsKept
<1>5. CASE \E h \in HandleArgs, t \in ExecTexts : Exec(h, t)
  <2>1. call' = call
    BY <1>5 DEF Exec
  <2>2. QED
    BY <1>1, <1>5, <2>1, ExecKeeps, CallIsKept
<1>6. CASE \E h \in HandleArgs, t \in LoopTexts : StartCount(h, t)
  <2>1. PICK h \in HandleArgs, t \in LoopTexts : StartCount(h, t)
    BY <1>6
  <2>2. t \in Texts /\ KeepsPool
    BY <2>1, TextAssumption DEF StartCount
  <2>3. QED
    BY <1>1, <2>1, <2>2, StartCountKeeps, StartCountAnswers, PoolIsKept
<1>7. CASE \E h \in HandleArgs, t \in LoopTexts, r \in Replacements :
             ReplaceFirst(h, t, r)
  <2>1. PICK h \in HandleArgs, t \in LoopTexts, r \in Replacements :
          ReplaceFirst(h, t, r)
    BY <1>7
  <2>2. t \in Texts /\ KeepsPool
    BY <2>1, TextAssumption DEF ReplaceFirst, KeepsAllButCall, KeepsPool
  <2>3. QED
    BY <1>1, <2>1, <2>2, ReplaceFirstKeeps, ReplaceFirstAnswers, PoolIsKept
<1>8. CASE \E h \in HandleArgs, t \in LoopTexts, r \in Replacements :
             StartReplaceAll(h, t, r)
  <2>1. PICK h \in HandleArgs, t \in LoopTexts, r \in Replacements :
          StartReplaceAll(h, t, r)
    BY <1>8
  <2>2. t \in Texts /\ KeepsPool
    BY <2>1, TextAssumption DEF StartReplaceAll
  <2>3. QED
    BY <1>1, <2>1, <2>2, StartReplaceAllKeeps, StartReplaceAllAnswers, PoolIsKept
<1>9. CASE ReplacePass
  <2>1. CallInv' /\ PoolInv'
    BY <1>1, <1>9, ReplacePassKeepsRoom, PoolIsKept DEF ReplacePass, CallInv, KeepsAllButCall, KeepsPool
  <2>2. AnswerInv'
    BY <1>9, ReplacePassAnswers, UnsetOwesNothing
  <2>3. QED
    BY <2>1, <2>2
<1>10. CASE ReplaceOutOfMemory
  <2>1. call.text \in Texts
    BY <1>1, <1>10 DEF ReplaceOutOfMemory, CallInv, CallTypeOK
  <2>2. CallInv' /\ call'.state = "gave up"
    BY <1>10, <2>1, GivingUp DEF ReplaceOutOfMemory, GivesUp
  <2>3. PoolInv'
    BY <1>1, <1>10, PoolIsKept DEF ReplaceOutOfMemory
  <2>4. QED
    BY <2>2, <2>3, NoAnswerIsOwed
<1>11. CASE ReplaceEnds
  <2>1. CallInv' /\ PoolInv'
    BY <1>1, <1>11, ReplaceEndsWithRoom, PoolIsKept DEF ReplaceEnds, CallInv, KeepsAllButCall, KeepsPool
  <2>2. AnswerInv'
    BY <1>11, ReplaceEndsAnswers, UnsetOwesNothing
  <2>3. QED
    BY <2>1, <2>2
<1>12. CASE CountPass
  <2>1. CallInv' /\ PoolInv'
    BY <1>1, <1>12, CountPassKeeps, PoolIsKept DEF CountPass, KeepsAllButCall, KeepsPool
  <2>2. AnswerInv'
    BY <1>12, CountPassAnswers, UnsetOwesNothing
  <2>3. QED
    BY <2>1, <2>2
<1>13. CASE CountEnds
  <2>1. CallInv' /\ PoolInv'
    BY <1>1, <1>13, CountEndsKeeps, PoolIsKept DEF CountEnds, KeepsAllButCall, KeepsPool
  <2>2. AnswerInv'
    BY <1>13, CountEndsAnswers, UnsetOwesNothing
  <2>3. QED
    BY <2>1, <2>2
<1>14. CASE Returns
  <2>1. CallInv' /\ PoolInv'
    BY <1>1, <1>14, ReturnsKeeps, PoolIsKept DEF Returns
  <2>2. call'.state = "idle"
    BY <1>14 DEF Returns, Idle
  <2>3. QED
    BY <2>1, <2>2, NoAnswerIsOwed
<1>15. CASE UNCHANGED vars
  BY <1>1, <1>15, CallIsKept, PoolIsKept DEF vars, KeepsPool
<1>16. CASE Strays
  BY <1>1, <1>16, StraysKeeps, NoAnswerIsOwed, PoolIsKept
     DEF Strays, KeepsAllButCall, KeepsPool
<1>17. CASE \E h \in HandleArgs, t \in LoopTexts : NoPattern(h, t)
  <2>1. PICK h \in HandleArgs, t \in LoopTexts : NoPattern(h, t)
    BY <1>17
  <2>2. t \in Texts /\ KeepsPool
    BY <2>1, TextAssumption DEF NoPattern, KeepsAllButCall, KeepsPool
  <2>3. QED
    BY <1>1, <2>1, <2>2, NoPatternKeeps, NoAnswerIsOwed, PoolIsKept
<1>18. QED
  BY <1>2, <1>3, <1>4, <1>5, <1>6, <1>7, <1>8, <1>9, <1>10, <1>11, <1>12,
     <1>13, <1>14, <1>15, <1>16, <1>17 DEF Next, Loop, PoolCall, TextCall

(* IInv holds in every state of every run.                                 *)
THEOREM InductiveInvariant == Spec => []IInv
  BY InitOK, StepOK, PTL DEF Spec

(* The pool, the groups and the call in progress keep their types, for any *)
(* number of slots and groups.                                             *)
THEOREM TypeCorrect == Spec => []TypeOK
<1>1. IInv => TypeOK
  BY DEF IInv
<1>2. QED
  BY InductiveInvariant, <1>1, PTL

(* replace_all (lines 203-272) never writes past its buffer, whatever the  *)
(* text, the replacement and the matches.                                  *)
THEOREM BufferStaysWithin == Spec => []BufferIsNotOverrun
<1>1. IInv => BufferIsNotOverrun
  BY DEF IInv
<1>2. QED
  BY InductiveInvariant, <1>1, PTL

(* A finished replace_first, replace_all or count_matches (lines 176-292)  *)
(* answers the text with each match it dealt with replaced, in order and   *)
(* with every other character kept in its place, or their number; and of a *)
(* simple pattern it left no match out. For any texts, replacements and    *)
(* patterns, and any regexec that reports the first match.                 *)
THEOREM AnswersAreExact == Spec => []AnswerIsExact
<1>1. IInv => AnswerIsExact
  BY DEF IInv
<1>2. QED
  BY InductiveInvariant, <1>1, PTL

(* What is known of the text between two offsets.                          *)
LEMMA TextBetween ==
  ASSUME NEW t \in Texts, NEW i \in 0..Len(t), NEW j \in i..Len(t)
  PROVE  Len(IF j - i <= 0 THEN <<>> ELSE SubSeq(t, i + 1, j)) = j - i
<1>1. t \in Seq(Symbols) /\ Len(t) \in Nat
  BY TextsAreStrings
<1>2. CASE i = j
  BY <1>1, <1>2
<1>3. CASE i < j
  BY <1>1, <1>3
<1>4. QED
  BY <1>1, <1>2, <1>3

(* The groups a handle tells (lines 142-173) are those of its last exec,   *)
(* for any patterns, texts and handles.                                    *)
THEOREM GroupsStayFresh == Spec => []GroupsTellLastExec
<1>1. IInv => GroupsTellLastExec
  <2> SUFFICES ASSUME IInv, NEW h \in HandleArgs, NEW g \in GroupArgs,
                      GroupStart(h, g) # -1 \/ GroupEnd(h, g) # -1
               PROVE  /\ examined[h] # NULL
                      /\ 0 <= GroupStart(h, g)
                      /\ GroupStart(h, g) <= GroupEnd(h, g)
                      /\ GroupEnd(h, g) <= Len(examined[h])
                      /\ <<GroupStart(h, g), GroupEnd(h, g)>> =
                           IF regex_pool[h].compiled \in NoSub THEN <<0, 0>>
                           ELSE Regexec[regex_pool[h].compiled][examined[h]][g + 1]
                      /\ Len(GroupString(h, g, examined[h])) =
                           GroupEnd(h, g) - GroupStart(h, g)
    BY DEF GroupsTellLastExec
  <2> DEFINE p == regex_pool[h].compiled
             t == examined[h]
             n == regex_pool[h].last_nmatch
             w == regex_pool[h].matches[g]
  <2>1. GroupKnown(h, g)
    BY DEF GroupStart, GroupEnd
  <2>2. h \in Slots /\ regex_pool[h].active /\ g \in 0..(n - 1)
        /\ GroupStart(h, g) = w[1] /\ GroupEnd(h, g) = w[2]
    BY <2>1 DEF GroupKnown, Usable, GroupStart, GroupEnd
  <2>3. n \in Nat /\ w \in Int \X Int
    <3>1. PoolInv
      BY IInvHalves
    <3>2. n \in 0..MaxGroups
      BY <3>1, <2>2 DEF PoolInv
    <3>3. QED
      BY <3>1, <3>2, <2>2, SizeAssumption DEF PoolInv, Groups
  <2>4. n > 0
    BY <2>2, <2>3
  <2>5. /\ p \in Patterns /\ t \in ExecTexts /\ IsMatch(p, t)
        /\ n = GroupCount(p)
        /\ w = IF p \in NoSub THEN <<0, 0>> ELSE Regexec[p][t][g + 1]
    BY <2>2, <2>4 DEF IInv, GroupsAreStored, GroupsStored
  <2>6. t \in Texts /\ t # NULL
    BY <2>5, TextAssumption, SizeAssumption
  <2> HIDE DEF p, t, n, w
  <2>7. w[1] \in 0..Len(t) /\ w[2] \in w[1]..Len(t)
    <3>1. CASE p \in NoSub
      BY <3>1, <2>5, <2>6, TextsAreStrings
    <3>2. CASE p \notin NoSub
      <4> DEFINE m == Regexec[p][t]
      <4>1. m \in Seq(Offsets(t)) /\ Len(m) = Nsub[p] + 1 /\ Nsub[p] \in Nat
        BY <2>5, <2>6, RegexecAssumption DEF IsMatch
      <4>2. g \in 0..Nsub[p]
        BY <2>2, <2>5, GroupCountFits
      <4>3. w = m[g + 1]
        BY <3>2, <2>5
      <4> HIDE DEF m
      <4>4. g + 1 \in 1..Len(m)
        BY <4>1, <4>2
      <4>5. w \in Offsets(t)
        BY <4>1, <4>3, <4>4
      <4>6. w[1] # -1 \/ w[2] # -1
        BY <2>2
      <4>7. w # <<-1, -1>>
        BY <4>6
      <4>8. QED
        BY <4>5, <4>7, <2>6, TextsAreStrings DEF Offsets
    <3>3. QED
      BY <3>1, <3>2
  <2>8. Len(t) \in Nat
    BY <2>6, TextsAreStrings
  <2>9. 0 <= w[1] /\ w[1] <= w[2] /\ w[2] <= Len(t)
    BY <2>7, <2>8
  <2>10. Len(GroupString(h, g, t)) = w[2] - w[1]
    BY <2>2, <2>6, <2>7, TextBetween DEF GroupString
  <2>11. w = <<w[1], w[2]>>
    BY <2>3
  <2>12. QED
    BY <2>2, <2>5, <2>6, <2>9, <2>10, <2>11 DEF p, t
<1>2. QED
  BY InductiveInvariant, <1>1, PTL
=============================================================================
