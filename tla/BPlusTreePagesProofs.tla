------------------------ MODULE BPlusTreePagesProofs ------------------------
(***************************************************************************)
(* What the methods of the B+ tree's pages do, for pages of any size and   *)
(* any keys: the binary searches find what they look for, and splitting,   *)
(* lending and merging lose nothing and leave pages in which lookups find  *)
(* all of it.  E is a set of entries and P one of page ids.  A page is     *)
(* sound (SoundLeaf, SoundInternal) when it satisfies what TreeSound asks  *)
(* of it, the keys beneath its children being given by a function under.   *)
(*                                                                         *)
(* The last section puts a page, its neighbour and their parent together:  *)
(* one round of InsertIntoParent or HandleUnderflow keeps a sound family   *)
(* sound.  That the rounds follow each other up to the root is recursion   *)
(* over the tree, which BPlusTree leaves to the model checker.             *)
(***************************************************************************)
EXTENDS BPlusTreePages, SequenceTheorems, WellFoundedInduction, TLAPS

-----------------------------------------------------------------------------
(***************************************************************************)
(* The binary search.                                                      *)
(***************************************************************************)
Windows(low, high) == (low .. high + 1) \X (low - 1 .. high)

Mid(w) == w[1] + (w[2] - w[1]) \div 2

\* One turn of the loop, f being what the turns after it return.
SearchTurn(f, before, w) ==
    IF w[1] > w[2] THEN w[1]
    ELSE IF before[Mid(w)] THEN f[<<Mid(w) + 1, w[2]>>]
    ELSE f[<<w[1], Mid(w) - 1>>]

SearchEq(f, before, low, high) ==
    f = [w \in Windows(low, high) |-> SearchTurn(f, before, w)]

\* before holds of the places up to k, and of no other.
Ends(before, low, high, k) == \A i \in low .. high : before[i] <=> i < k

\* What it comes to when the entries before place k are the ones to pass over.
Clamp(k, w) ==
    IF k < w[1] \/ w[1] > w[2] THEN w[1]
    ELSE IF k > w[2] + 1 THEN w[2] + 1
    ELSE k

LEMMA BisectIsSearch ==
  ASSUME NEW before, NEW low, NEW high
  PROVE  Bisect(before, low, high) =
            (CHOOSE f : SearchEq(f, before, low, high))[<<low, high>>]
BY Zenon DEF Bisect, SearchEq, SearchTurn, Windows, Mid

LEMMA MidBetween ==
  ASSUME NEW l \in Int, NEW h \in Int, l <= h
  PROVE  l + (h - l) \div 2 \in l .. h
<1> DEFINE d == h - l
<1>1. d \in Nat
  OBVIOUS
<1>2. d \div 2 \in 0 .. d
  BY <1>1
<1> QED
  BY <1>1, <1>2

\* The window a turn leaves is inside, and smaller.
LEMMA TurnShrinks ==
  ASSUME NEW low \in Int, NEW high \in Int, NEW w \in Windows(low, high), w[1] <= w[2]
  PROVE  /\ w[1] \in Int /\ w[2] \in Int
         /\ Mid(w) \in w[1] .. w[2]
         /\ <<Mid(w) + 1, w[2]>> \in Windows(low, high)
         /\ <<w[1], Mid(w) - 1>> \in Windows(low, high)
<1>1. w[1] \in low .. high + 1 /\ w[2] \in low - 1 .. high
  BY DEF Windows
<1>2. Mid(w) \in w[1] .. w[2]
  BY <1>1, MidBetween DEF Mid
<1> QED
  BY <1>1, <1>2 DEF Windows

\* The turns after w return what they should.
NextRight(f, k, w) ==
    w[1] <= w[2] =>
        /\ f[<<Mid(w) + 1, w[2]>>] = Clamp(k, <<Mid(w) + 1, w[2]>>)
        /\ f[<<w[1], Mid(w) - 1>>] = Clamp(k, <<w[1], Mid(w) - 1>>)

LEMMA ClampTurn ==
  ASSUME NEW before, NEW low \in Int, NEW high \in Int, NEW k \in low .. high + 1,
         Ends(before, low, high, k),
         NEW f, NEW w \in Windows(low, high), NextRight(f, k, w)
  PROVE  SearchTurn(f, before, w) = Clamp(k, w)
<1>0. w[1] \in low .. high + 1 /\ w[2] \in low - 1 .. high
  BY DEF Windows
<1>1. CASE w[1] > w[2]
  BY <1>1, <1>0 DEF SearchTurn, Clamp
<1>2. CASE w[1] <= w[2]
  <2>1. Mid(w) \in w[1] .. w[2]
    BY <1>2, TurnShrinks
  <2>2. Mid(w) \in low .. high
    BY <1>0, <2>1
  <2>3. before[Mid(w)] <=> Mid(w) < k
    BY <2>2 DEF Ends
  <2>4. CASE Mid(w) < k
    <3>1. SearchTurn(f, before, w) = f[<<Mid(w) + 1, w[2]>>]
      BY <1>2, <1>0, <2>3, <2>4 DEF SearchTurn
    <3> QED
      BY <3>1, <2>4, <2>1, <1>2, <1>0 DEF Clamp, NextRight
  <2>5. CASE ~(Mid(w) < k)
    <3>1. SearchTurn(f, before, w) = f[<<w[1], Mid(w) - 1>>]
      BY <1>2, <1>0, <2>3, <2>5 DEF SearchTurn
    <3> QED
      BY <3>1, <2>5, <2>1, <1>2, <1>0 DEF Clamp, NextRight
  <2> QED
    BY <2>4, <2>5
<1> QED
  BY <1>0, <1>1, <1>2

\* So the recursive definition has a solution ...
LEMMA ClampSolves ==
  ASSUME NEW before, NEW low \in Int, NEW high \in Int, NEW k \in low .. high + 1,
         Ends(before, low, high, k)
  PROVE  \E f : SearchEq(f, before, low, high)
<1>0. PICK g : g = [w \in Windows(low, high) |-> Clamp(k, w)]
  OBVIOUS
<1>1. ASSUME NEW w \in Windows(low, high)
      PROVE  SearchTurn(g, before, w) = Clamp(k, w)
  <2>1. NextRight(g, k, w)
    BY <1>0, TurnShrinks DEF NextRight
  <2> QED
    BY <2>1, ClampTurn
<1>2. g = [w \in Windows(low, high) |-> SearchTurn(g, before, w)]
  BY <1>0, <1>1
<1> QED
  BY <1>2 DEF SearchEq

\* ... and only that one: take a smallest window where another solution differs.
LEMMA SearchIsClamp ==
  ASSUME NEW before, NEW low \in Int, NEW high \in Int, NEW k \in low .. high + 1,
         Ends(before, low, high, k),
         NEW f, SearchEq(f, before, low, high)
  PROVE  \A w \in Windows(low, high) : f[w] = Clamp(k, w)
<1> DEFINE Width(w) == IF w[1] > w[2] THEN 0 ELSE w[2] + 1 - w[1]
           Wrong == {d \in Nat : \E w \in Windows(low, high) :
                        Width(w) = d /\ f[w] # Clamp(k, w)}
<1>1. SUFFICES ASSUME Wrong # {} PROVE FALSE
  <2>1. \A w \in Windows(low, high) : Width(w) \in Nat
    BY DEF Windows
  <2> QED
    BY <2>1
<1>2. PICK d \in Wrong : \A e \in Wrong : ~(<<e, d>> \in OpToRel(<, Nat))
  <2>1. Wrong \subseteq Nat
    OBVIOUS
  <2> HIDE DEF Wrong
  <2> QED
    BY <1>1, <2>1, NatLessThanWellFounded, WFMin
<1>3. \A e \in Wrong : ~(e < d)
  BY <1>2 DEF OpToRel
<1>4. PICK w \in Windows(low, high) : Width(w) = d /\ f[w] # Clamp(k, w)
  OBVIOUS
<1>5. ASSUME w[1] <= w[2]
      PROVE  /\ f[<<Mid(w) + 1, w[2]>>] = Clamp(k, <<Mid(w) + 1, w[2]>>)
             /\ f[<<w[1], Mid(w) - 1>>] = Clamp(k, <<w[1], Mid(w) - 1>>)
  <2>1. /\ w[1] \in Int /\ w[2] \in Int
        /\ Mid(w) \in w[1] .. w[2]
        /\ <<Mid(w) + 1, w[2]>> \in Windows(low, high)
        /\ <<w[1], Mid(w) - 1>> \in Windows(low, high)
    BY <1>5, TurnShrinks
  <2>2. Width(<<Mid(w) + 1, w[2]>>) \in Nat /\ Width(<<Mid(w) + 1, w[2]>>) < d
    BY <1>4, <1>5, <2>1
  <2>3. Width(<<w[1], Mid(w) - 1>>) \in Nat /\ Width(<<w[1], Mid(w) - 1>>) < d
    BY <1>4, <1>5, <2>1
  <2> HIDE DEF Width
  <2>4. \A v \in Windows(low, high) : Width(v) \in Nat /\ Width(v) < d => f[v] = Clamp(k, v)
    BY <1>3
  <2> QED
    BY <2>1, <2>2, <2>3, <2>4
<1>6. f[w] = SearchTurn(f, before, w)
  BY DEF SearchEq
<1> HIDE DEF Width, Wrong
<1>7. SearchTurn(f, before, w) = Clamp(k, w)
  <2>1. NextRight(f, k, w)
    BY <1>5 DEF NextRight
  <2> QED
    BY <2>1, ClampTurn
<1> QED
  BY <1>4, <1>6, <1>7

\* The loop of KeyIndex and of Lookup returns the place where the entries to pass
\* over end, for pages of every size.
LEMMA BisectFinds ==
  ASSUME NEW before, NEW low \in Int, NEW high \in Int, NEW k \in low .. high + 1,
         Ends(before, low, high, k)
  PROVE  Bisect(before, low, high) = k
<1> DEFINE f == CHOOSE f : SearchEq(f, before, low, high)
<1>1. SearchEq(f, before, low, high)
  BY ClampSolves, Zenon
<1>2. Bisect(before, low, high) = f[<<low, high>>]
  BY BisectIsSearch
<1> HIDE DEF f
<1>3. <<low, high>> \in Windows(low, high)
  BY DEF Windows
<1>4. f[<<low, high>>] = Clamp(k, <<low, high>>)
  BY <1>1, <1>3, SearchIsClamp
<1>5. Clamp(k, <<low, high>>) = k
  BY DEF Clamp
<1> QED
  BY <1>2, <1>4, <1>5

-----------------------------------------------------------------------------
(***************************************************************************)
(* Sequences.                                                              *)
(***************************************************************************)
LEMMA ToSetOf ==
  ASSUME NEW S, NEW s \in Seq(S)
  PROVE  /\ ToSet(s) = {s[i] : i \in 1 .. Len(s)}
         /\ ToSet(s) \subseteq S
         /\ DOMAIN s = 1 .. Len(s) /\ Len(s) \in Nat
BY DEF ToSet

LEMMA InsertAtFacts ==
  ASSUME NEW S, NEW s \in Seq(S), NEW i \in 1 .. Len(s) + 1, NEW e \in S
  PROVE  /\ InsertAt(s, i, e) \in Seq(S)
         /\ Len(InsertAt(s, i, e)) = Len(s) + 1
         /\ \A j \in 1 .. Len(s) + 1 : InsertAt(s, i, e)[j] =
                IF j < i THEN s[j] ELSE IF j = i THEN e ELSE s[j - 1]
         /\ ToSet(InsertAt(s, i, e)) = ToSet(s) \union {e}
<1> DEFINE a == SubSeq(s, 1, i - 1)
           b == SubSeq(s, i, Len(s))
           c == a \o <<e>>
           t == InsertAt(s, i, e)
<1>1. /\ a \in Seq(S) /\ Len(a) = i - 1
      /\ \A j \in 1 .. i - 1 : a[j] = s[j]
  BY SubSeqProperties
<1>2. /\ b \in Seq(S) /\ Len(b) = Len(s) - i + 1
      /\ \A j \in 1 .. Len(s) - i + 1 : b[j] = s[i + j - 1]
  BY SubSeqProperties
<1>3. t = c \o b
  BY DEF InsertAt
<1> HIDE DEF a, b, t
<1>4. /\ c \in Seq(S) /\ Len(c) = i
      /\ \A j \in 1 .. i : c[j] = IF j < i THEN s[j] ELSE e
  BY <1>1
<1> HIDE DEF c
<1>5. t \in Seq(S) /\ Len(t) = Len(s) + 1
  BY <1>2, <1>3, <1>4, ConcatProperties
<1>6. ASSUME NEW j \in 1 .. Len(s) + 1
      PROVE  t[j] = IF j < i THEN s[j] ELSE IF j = i THEN e ELSE s[j - 1]
  <2>1. CASE j <= i
    BY <1>2, <1>3, <1>4, <2>1
  <2>2. CASE j > i
    <3>1. t[j] = b[j - i]
      BY <1>2, <1>3, <1>4, <2>2
    <3> QED
      BY <1>2, <2>2, <3>1
  <2> QED
    BY <2>1, <2>2
<1>7. ToSet(t) = ToSet(s) \union {e}
  <2>1. \A j \in 1 .. Len(s) + 1 : t[j] \in ToSet(s) \union {e}
    BY <1>6, ToSetOf
  <2>2. \A j \in 1 .. Len(s) : \E m \in 1 .. Len(s) + 1 : t[m] = s[j]
    <3> TAKE j \in 1 .. Len(s)
    <3>1. CASE j < i
      BY <1>6, <3>1
    <3>2. CASE j >= i
      <4>1. j + 1 \in 1 .. Len(s) + 1 /\ t[j + 1] = s[j]
        BY <1>6, <3>2
      <4> QED
        BY <4>1
    <3> QED
      BY <3>1, <3>2
  <2>3. t[i] = e
    BY <1>6
  <2> QED
    BY <2>1, <2>2, <2>3, <1>5, ToSetOf
<1> QED
  BY <1>5, <1>6, <1>7 DEF t

LEMMA RemoveAtFacts ==
  ASSUME NEW S, NEW s \in Seq(S), NEW i \in 1 .. Len(s)
  PROVE  /\ RemoveAt(s, i) \in Seq(S)
         /\ Len(RemoveAt(s, i)) = Len(s) - 1
         /\ \A j \in 1 .. Len(s) - 1 :
                RemoveAt(s, i)[j] = IF j < i THEN s[j] ELSE s[j + 1]
<1> DEFINE a == SubSeq(s, 1, i - 1)
           b == SubSeq(s, i + 1, Len(s))
           t == RemoveAt(s, i)
<1>1. /\ a \in Seq(S) /\ Len(a) = i - 1
      /\ \A j \in 1 .. i - 1 : a[j] = s[j]
  BY SubSeqProperties
<1>2. /\ b \in Seq(S) /\ Len(b) = Len(s) - i
      /\ \A j \in 1 .. Len(s) - i : b[j] = s[i + j]
  BY SubSeqProperties
<1>3. t = a \o b
  BY DEF RemoveAt
<1> HIDE DEF a, b, t
<1>4. t \in Seq(S) /\ Len(t) = Len(s) - 1
  BY <1>1, <1>2, <1>3
<1>5. ASSUME NEW j \in 1 .. Len(s) - 1
      PROVE  t[j] = IF j < i THEN s[j] ELSE s[j + 1]
  <2>1. CASE j < i
    BY <1>1, <1>2, <1>3, <2>1
  <2>2. CASE j >= i
    <3>1. t[j] = b[j - i + 1]
      BY <1>1, <1>2, <1>3, <2>2
    <3> QED
      BY <1>2, <2>2, <3>1
  <2> QED
    BY <2>1, <2>2
<1> QED
  BY <1>4, <1>5 DEF t

-----------------------------------------------------------------------------
(***************************************************************************)
(* Leaves.  E is the set of entries, P the set of page ids.                *)
(***************************************************************************)
HaveKeys(E) == \A e \in E : e.key \in Int

LeafPages(E, P) == [leaf : {TRUE}, parent : P, next : P, entries : Seq(E)]

SoundLeaf(n, E, P) == n \in LeafPages(E, P) /\ InKeyOrder(n.entries)

KeysOf(entries) == {e.key : e \in ToSet(entries)}

LEMMA OrderedFacts ==
  ASSUME NEW E, HaveKeys(E), NEW s \in Seq(E), InKeyOrder(s)
  PROVE  /\ DOMAIN s = 1 .. Len(s) /\ Len(s) \in Nat
         /\ \A i \in 1 .. Len(s) : s[i] \in E /\ s[i].key \in Int
         /\ \A i, j \in 1 .. Len(s) : i < j => s[i].key < s[j].key
         /\ ToSet(s) = {s[i] : i \in 1 .. Len(s)}
         /\ KeysOf(s) = {s[i].key : i \in 1 .. Len(s)}
         /\ KeysOf(s) \subseteq Int
<1>1. /\ DOMAIN s = 1 .. Len(s) /\ Len(s) \in Nat
      /\ ToSet(s) = {s[i] : i \in 1 .. Len(s)}
  BY ToSetOf
<1>2. \A i \in 1 .. Len(s) : s[i] \in E /\ s[i].key \in Int
  BY DEF HaveKeys
<1>3. KeysOf(s) = {s[i].key : i \in 1 .. Len(s)}
  BY <1>1 DEF KeysOf
<1>4. \A i, j \in 1 .. Len(s) : i < j => s[i].key < s[j].key
  BY <1>1 DEF InKeyOrder
<1> QED
  BY <1>1, <1>2, <1>3, <1>4

\* Enough to show order.
LEMMA OrderedIf ==
  ASSUME NEW E, NEW s \in Seq(E),
         \A i, j \in 1 .. Len(s) : i < j => s[i].key < s[j].key
  PROVE  InKeyOrder(s)
BY ToSetOf DEF InKeyOrder

LEMMA LeafFacts ==
  ASSUME NEW E, NEW P, HaveKeys(E), NEW n, SoundLeaf(n, E, P)
  PROVE  /\ n \in LeafPages(E, P) /\ n.leaf = TRUE
         /\ n.parent \in P /\ n.next \in P
         /\ n.entries \in Seq(E) /\ InKeyOrder(n.entries)
         /\ GetSize(n) = Len(n.entries) /\ GetMaxSize(n) = LeafMax
<1>1. n \in LeafPages(E, P) /\ InKeyOrder(n.entries)
  BY DEF SoundLeaf
<1>2. n.leaf = TRUE /\ n.entries \in Seq(E) /\ n.parent \in P /\ n.next \in P
  BY <1>1 DEF LeafPages
<1> QED
  BY <1>1, <1>2 DEF GetSize, GetMaxSize

WithEntries(n, s) == [n EXCEPT !.entries = s]

\* The leaf m is n but for its entries s, which are in order.
LeafGot(m, n, s, E, P) ==
    /\ SoundLeaf(m, E, P) /\ m.leaf = TRUE
    /\ m.entries = s /\ m.parent = n.parent /\ m.next = n.next
    /\ GetSize(m) = Len(s) /\ GetMaxSize(m) = LeafMax

LEMMA LeafWith ==
  ASSUME NEW E, NEW P, NEW n \in LeafPages(E, P), NEW s \in Seq(E), InKeyOrder(s)
  PROVE  LeafGot(WithEntries(n, s), n, s, E, P)
<1>0. PICK m : m = WithEntries(n, s)
  OBVIOUS
<1>1. m \in LeafPages(E, P) /\ m.entries = s /\ m.parent = n.parent /\ m.next = n.next
  BY <1>0 DEF LeafPages, WithEntries
<1>2. m.leaf = TRUE
  BY <1>1 DEF LeafPages
<1>3. SoundLeaf(m, E, P) /\ GetSize(m) = Len(s) /\ GetMaxSize(m) = LeafMax
  BY <1>1, <1>2 DEF SoundLeaf, GetSize, GetMaxSize
<1>4. LeafGot(m, n, s, E, P)
  BY <1>1, <1>2, <1>3 DEF LeafGot
<1> QED
  BY <1>0, <1>4

\* The first place of an ordered sequence whose key is not less than the wanted
\* one, one past the end if there is none.
LEMMA FirstPlace ==
  ASSUME NEW len \in Nat, NEW B \in [1 .. len -> BOOLEAN],
         \A i, j \in 1 .. len : i < j /\ B[j] => B[i]
  PROVE  \E k \in 1 .. len + 1 : \A i \in 1 .. len : B[i] <=> i < k
<1> DEFINE Not == {i \in Nat : i \in 1 .. len + 1 /\ (i <= len => ~B[i])}
<1>1. Not # {} /\ Not \subseteq Nat
  <2>1. len + 1 \in Not
    OBVIOUS
  <2> QED
    BY <2>1
<1>2. PICK k \in Not : \A e \in Not : ~(<<e, k>> \in OpToRel(<, Nat))
  <2> HIDE DEF Not
  <2> QED
    BY <1>1, NatLessThanWellFounded, WFMin
<1>3. \A e \in Not : ~(e < k)
  BY <1>2 DEF OpToRel
<1>4. k \in 1 .. len + 1
  OBVIOUS
<1>5. ASSUME NEW i \in 1 .. len, i < k PROVE B[i]
  BY <1>3, <1>5
<1>6. ASSUME NEW i \in 1 .. len, ~(i < k) PROVE ~B[i]
  BY <1>6
<1> QED
  BY <1>4, <1>5, <1>6

\* KeyIndex returns the first place with a key that is not less than the wanted
\* one, or the place behind the end, in a leaf of any size.
LEMMA KeyIndexFinds ==
  ASSUME NEW E, HaveKeys(E), NEW n, n.entries \in Seq(E), InKeyOrder(n.entries),
         NEW key \in Int
  PROVE  /\ KeyIndex(n, key) \in 1 .. Len(n.entries) + 1
         /\ \A i \in 1 .. Len(n.entries) : n.entries[i].key < key <=> i < KeyIndex(n, key)
<1>0. PICK s : s = n.entries
  OBVIOUS
<1> DEFINE before == [i \in DOMAIN s |-> s[i].key < key]
<1>1. /\ DOMAIN s = 1 .. Len(s) /\ Len(s) \in Nat
      /\ \A i \in 1 .. Len(s) : s[i].key \in Int
      /\ \A i, j \in 1 .. Len(s) : i < j => s[i].key < s[j].key
  BY <1>0, OrderedFacts
<1>2. before \in [1 .. Len(s) -> BOOLEAN]
  BY <1>1
<1>3. \A i \in 1 .. Len(s) : before[i] <=> s[i].key < key
  BY <1>1
<1>4. KeyIndex(n, key) = Bisect(before, 1, Len(s))
  BY <1>0 DEF KeyIndex
<1> HIDE DEF before
<1>5. \A i, j \in 1 .. Len(s) : i < j /\ before[j] => before[i]
  BY <1>1, <1>3
<1>6. PICK k \in 1 .. Len(s) + 1 : \A i \in 1 .. Len(s) : before[i] <=> i < k
  BY <1>1, <1>2, <1>5, FirstPlace
<1>7. Ends(before, 1, Len(s), k)
  BY <1>6 DEF Ends
<1>8. Bisect(before, 1, Len(s)) = k
  BY <1>1, <1>7, BisectFinds
<1> QED
  BY <1>0, <1>3, <1>4, <1>6, <1>8

\* A search of a leaf, by GetValue or before Insert and Delete, finds a key if and
\* only if some entry has it, and then the RID of that entry.
THEOREM LeafLookup ==
  ASSUME NEW E, NEW P, HaveKeys(E), NEW n, SoundLeaf(n, E, P), NEW key \in Int
  PROVE  /\ HasKey(n, key) <=> key \in KeysOf(n.entries)
         /\ \A e \in ToSet(n.entries) : e.key = key => RidAt(n, key) = e.rid
<1>0. PICK s, p : s = n.entries /\ p = KeyIndex(n, key)
  OBVIOUS
<1>s. s \in Seq(E) /\ InKeyOrder(s)
  BY <1>0, LeafFacts
<1>1. /\ Len(s) \in Nat
      /\ \A i \in 1 .. Len(s) : s[i] \in E /\ s[i].key \in Int
      /\ \A i, j \in 1 .. Len(s) : i < j => s[i].key < s[j].key
      /\ ToSet(s) = {s[i] : i \in 1 .. Len(s)}
      /\ KeysOf(s) = {s[i].key : i \in 1 .. Len(s)}
  BY <1>s, OrderedFacts
<1>2. p \in 1 .. Len(s) + 1 /\ \A i \in 1 .. Len(s) : s[i].key < key <=> i < p
  BY <1>0, <1>s, KeyIndexFinds
<1>3. HasKey(n, key) <=> p <= Len(s) /\ s[p].key = key
  BY <1>0 DEF HasKey
<1>4. RidAt(n, key) = s[p].rid
  BY <1>0 DEF RidAt
<1>5. ASSUME NEW i \in 1 .. Len(s), s[i].key = key PROVE i = p
  <2>1. ~(i < p)
    BY <1>1, <1>2, <1>5
  <2>2. p \in 1 .. Len(s) /\ ~(s[p].key < key)
    BY <1>1, <1>2, <2>1
  <2> QED
    BY <1>1, <1>5, <2>1, <2>2
<1>6. HasKey(n, key) <=> key \in KeysOf(s)
  BY <1>1, <1>2, <1>3, <1>5
<1> QED
  BY <1>0, <1>1, <1>4, <1>5, <1>6

LEMMA InsertOrdered ==
  ASSUME NEW E, HaveKeys(E), NEW s \in Seq(E), InKeyOrder(s), NEW e \in E,
         NEW p \in 1 .. Len(s) + 1,
         \A i \in 1 .. Len(s) : s[i].key < e.key <=> i < p,
         e.key \notin KeysOf(s)
  PROVE  InKeyOrder(InsertAt(s, p, e))
<1>0. PICK t : t = InsertAt(s, p, e)
  OBVIOUS
<1>1. /\ Len(s) \in Nat
      /\ \A i \in 1 .. Len(s) : s[i] \in E /\ s[i].key \in Int
      /\ \A i, j \in 1 .. Len(s) : i < j => s[i].key < s[j].key
      /\ KeysOf(s) = {s[i].key : i \in 1 .. Len(s)}
  BY OrderedFacts
<1>2. /\ t \in Seq(E) /\ Len(t) = Len(s) + 1
      /\ \A j \in 1 .. Len(s) + 1 :
            t[j] = IF j < p THEN s[j] ELSE IF j = p THEN e ELSE s[j - 1]
  BY <1>0, InsertAtFacts, SMTT(30)
<1>3. e.key \in Int
  BY DEF HaveKeys
<1>4. \A i \in 1 .. Len(s) : ~(i < p) => e.key < s[i].key
  BY <1>1, <1>3
<1>5. ASSUME NEW i \in 1 .. Len(t), NEW j \in 1 .. Len(t), i < j
      PROVE  t[i].key < t[j].key
  <2>1. CASE j < p
    <3>1. t[i] = s[i] /\ t[j] = s[j] /\ i \in 1 .. Len(s) /\ j \in 1 .. Len(s)
      BY <1>2, <1>5, <2>1
    <3> QED
      BY <3>1, <1>1, <1>5
  <2>2. CASE j = p
    BY <1>1, <1>2, <1>5, <2>2
  <2>3. CASE j > p
    <3>1. t[j] = s[j - 1] /\ j - 1 \in 1 .. Len(s) /\ ~(j - 1 < p)
      BY <1>1, <1>2, <2>3
    <3>2. e.key < s[j - 1].key
      BY <3>1, <1>4
    <3>3. CASE i < p
      <4>1. t[i] = s[i] /\ i \in 1 .. Len(s)
        BY <1>2, <3>3
      <4> QED
        BY <3>1, <3>3, <4>1, <1>1
    <3>4. CASE i = p
      BY <3>1, <3>2, <3>4, <1>2
    <3>5. CASE i > p
      <4>1. t[i] = s[i - 1] /\ i - 1 \in 1 .. Len(s)
        BY <1>2, <3>5
      <4> QED
        BY <3>1, <4>1, <1>1, <1>5
    <3> QED
      BY <3>3, <3>4, <3>5
  <2> QED
    BY <2>1, <2>2, <2>3
<1> QED
  BY <1>0, <1>2, <1>5, OrderedIf

LEMMA RemoveOrdered ==
  ASSUME NEW E, HaveKeys(E), NEW s \in Seq(E), InKeyOrder(s), NEW p \in 1 .. Len(s)
  PROVE  /\ InKeyOrder(RemoveAt(s, p))
         /\ ToSet(RemoveAt(s, p)) = {e \in ToSet(s) : e.key # s[p].key}
<1>0. PICK t : t = RemoveAt(s, p)
  OBVIOUS
<1>1. /\ Len(s) \in Nat
      /\ \A i \in 1 .. Len(s) : s[i] \in E /\ s[i].key \in Int
      /\ \A i, j \in 1 .. Len(s) : i < j => s[i].key < s[j].key
      /\ ToSet(s) = {s[i] : i \in 1 .. Len(s)}
  BY OrderedFacts
<1>2. /\ t \in Seq(E) /\ Len(t) = Len(s) - 1
      /\ \A j \in 1 .. Len(s) - 1 : t[j] = IF j < p THEN s[j] ELSE s[j + 1]
  BY <1>0, RemoveAtFacts
<1>3. \A j \in 1 .. Len(s) - 1 :
        LET q == IF j < p THEN j ELSE j + 1
        IN  q \in 1 .. Len(s) /\ q # p /\ t[j] = s[q]
  BY <1>1, <1>2
<1>4. ASSUME NEW i \in 1 .. Len(t), NEW j \in 1 .. Len(t), i < j
      PROVE  t[i].key < t[j].key
  <2>1. PICK q \in 1 .. Len(s) : t[i] = s[q] /\ q = IF i < p THEN i ELSE i + 1
    BY <1>2, <1>3
  <2>2. PICK r \in 1 .. Len(s) : t[j] = s[r] /\ r = IF j < p THEN j ELSE j + 1
    BY <1>2, <1>3
  <2>3. q < r
    BY <2>1, <2>2, <1>4
  <2> QED
    BY <2>1, <2>2, <2>3, <1>1
<1>5. ToSet(t) = {t[i] : i \in 1 .. Len(s) - 1}
  BY <1>2, ToSetOf
<1>6. \A q \in 1 .. Len(s) : q # p => s[q].key # s[p].key
  BY <1>1
<1>7. \A j \in 1 .. Len(s) - 1 : t[j] \in ToSet(s) /\ t[j].key # s[p].key
  <2> TAKE j \in 1 .. Len(s) - 1
  <2>1. PICK q \in 1 .. Len(s) : q # p /\ t[j] = s[q]
    BY <1>3
  <2>2. s[q] \in ToSet(s)
    BY <1>1
  <2>3. s[q].key # s[p].key
    BY <1>6, <2>1
  <2> QED
    BY <2>1, <2>2, <2>3
<1>8. ASSUME NEW i \in 1 .. Len(s), s[i].key # s[p].key
      PROVE  \E j \in 1 .. Len(s) - 1 : t[j] = s[i]
  <2>1. CASE i < p
    BY <2>1, <1>1, <1>2
  <2>2. CASE i > p
    <3>1. i - 1 \in 1 .. Len(s) - 1 /\ t[i - 1] = s[i]
      BY <2>2, <1>1, <1>2
    <3> QED
      BY <3>1
  <2> QED
    BY <1>8, <2>1, <2>2
<1>9. ToSet(t) = {e \in ToSet(s) : e.key # s[p].key}
  <2>1. ASSUME NEW e \in ToSet(t) PROVE e \in ToSet(s) /\ e.key # s[p].key
    BY <1>5, <1>7
  <2>2. ASSUME NEW e \in ToSet(s), e.key # s[p].key PROVE e \in ToSet(t)
    <3>1. PICK i \in 1 .. Len(s) : e = s[i]
      BY <1>1
    <3>2. PICK j \in 1 .. Len(s) - 1 : t[j] = s[i]
      BY <1>8, <2>2, <3>1
    <3> QED
      BY <1>5, <3>1, <3>2
  <2> QED
    BY <2>1, <2>2
<1> QED
  BY <1>0, <1>2, <1>4, <1>9, OrderedIf

\* Insert into a leaf that lacks the key adds that entry, at its place in the
\* order, and changes nothing else.
THEOREM LeafInsertSound ==
  ASSUME NEW E, NEW P, HaveKeys(E), NEW n, SoundLeaf(n, E, P),
         NEW e \in E, ~HasKey(n, e.key)
  PROVE  /\ SoundLeaf(LeafInsert(n, e), E, P)
         /\ ToSet(LeafInsert(n, e).entries) = ToSet(n.entries) \union {e}
         /\ GetSize(LeafInsert(n, e)) = GetSize(n) + 1
         /\ LeafInsert(n, e).parent = n.parent /\ LeafInsert(n, e).next = n.next
<1>0. PICK s, p, m : s = n.entries /\ p = KeyIndex(n, e.key) /\ m = LeafInsert(n, e)
  OBVIOUS
<1>1. /\ s \in Seq(E) /\ InKeyOrder(s)
      /\ n \in LeafPages(E, P) /\ GetSize(n) = Len(s)
  BY <1>0, LeafFacts
<1>2. e.key \in Int
  BY DEF HaveKeys
<1>3. p \in 1 .. Len(s) + 1 /\ \A i \in 1 .. Len(s) : s[i].key < e.key <=> i < p
  BY <1>0, <1>1, <1>2, KeyIndexFinds
<1>4. e.key \notin KeysOf(s)
  BY <1>0, <1>2, LeafLookup
<1> DEFINE t == InsertAt(s, p, e)
<1>5. InKeyOrder(t)
  BY <1>1, <1>3, <1>4, InsertOrdered
<1>6. t \in Seq(E) /\ Len(t) = Len(s) + 1 /\ ToSet(t) = ToSet(s) \union {e}
  <2>1. s \in Seq(E) /\ p \in 1 .. Len(s) + 1
    BY <1>1, <1>3
  <2> QED
    BY <2>1, InsertAtFacts
<1>7. m = WithEntries(n, t)
  BY <1>0, Zenon DEF LeafInsert, WithEntries
<1> HIDE DEF t
<1>8. /\ SoundLeaf(m, E, P) /\ m.entries = t
      /\ m.parent = n.parent /\ m.next = n.next /\ GetSize(m) = Len(s) + 1
  <2>1. n \in LeafPages(E, P) /\ t \in Seq(E) /\ InKeyOrder(t)
    BY <1>1, <1>5, <1>6
  <2>2. LeafGot(WithEntries(n, t), n, t, E, P)
    BY <2>1, LeafWith
  <2> QED
    BY <2>2, <1>6, <1>7 DEF LeafGot
<1> QED
  BY <1>0, <1>1, <1>6, <1>8

\* Remove from a leaf that has the key takes out that entry and no other.
THEOREM LeafRemoveSound ==
  ASSUME NEW E, NEW P, HaveKeys(E), NEW n, SoundLeaf(n, E, P),
         NEW key \in Int, HasKey(n, key)
  PROVE  /\ SoundLeaf(LeafRemove(n, key), E, P)
         /\ ToSet(LeafRemove(n, key).entries) = {e \in ToSet(n.entries) : e.key # key}
         /\ GetSize(LeafRemove(n, key)) = GetSize(n) - 1
         /\ LeafRemove(n, key).parent = n.parent /\ LeafRemove(n, key).next = n.next
<1>0. PICK s, p, m : s = n.entries /\ p = KeyIndex(n, key) /\ m = LeafRemove(n, key)
  OBVIOUS
<1>1. /\ s \in Seq(E) /\ InKeyOrder(s)
      /\ n \in LeafPages(E, P) /\ GetSize(n) = Len(s)
  BY <1>0, LeafFacts
<1>2. p \in 1 .. Len(s) + 1
  BY <1>0, <1>1, KeyIndexFinds
<1>3. p \in 1 .. Len(s) /\ s[p].key = key
  BY <1>0, <1>1, <1>2 DEF HasKey
<1> DEFINE t == RemoveAt(s, p)
<1>4. InKeyOrder(t) /\ ToSet(t) = {e \in ToSet(s) : e.key # key}
  BY <1>1, <1>3, RemoveOrdered
<1>5. t \in Seq(E) /\ Len(t) = Len(s) - 1
  BY <1>1, <1>3, RemoveAtFacts
<1>6. m = WithEntries(n, t)
  BY <1>0, Zenon DEF LeafRemove, WithEntries
<1> HIDE DEF t
<1>7. /\ SoundLeaf(m, E, P) /\ m.entries = t
      /\ m.parent = n.parent /\ m.next = n.next /\ GetSize(m) = Len(s) - 1
  <2>1. n \in LeafPages(E, P) /\ t \in Seq(E) /\ InKeyOrder(t)
    BY <1>1, <1>4, <1>5
  <2>2. LeafGot(WithEntries(n, t), n, t, E, P)
    BY <2>1, LeafWith
  <2> QED
    BY <2>2, <1>5, <1>6 DEF LeafGot
<1> QED
  BY <1>0, <1>1, <1>4, <1>7

-----------------------------------------------------------------------------
(***************************************************************************)
(* Internal pages.  under[c] is the set of keys beneath the child c.       *)
(***************************************************************************)
InternalPages(P) == [leaf : {FALSE}, parent : P, keys : Seq(Int), children : Seq(P)]

KeySets(P) == [P -> SUBSET Int]

Rising(keys) == \A i, j \in 1 .. Len(keys) : i < j => keys[i] < keys[j]

\* The children are distinct and the separators keep the keys beneath them apart.
Parted(keys, children, under) ==
    /\ Len(children) = Len(keys) + 1
    /\ Rising(keys)
    /\ \A i, j \in 1 .. Len(children) : children[i] = children[j] => i = j
    /\ \A i \in 1 .. Len(children) : Bounds(keys, i, under[children[i]])

SoundInternal(n, under, P) ==
    n \in InternalPages(P) /\ Parted(n.keys, n.children, under)

\* Every child has a key beneath it.
Peopled(children, under) == \A i \in 1 .. Len(children) : under[children[i]] # {}

KeysUnder(children, under) == UNION {under[children[i]] : i \in 1 .. Len(children)}

LEMMA PartedFacts ==
  ASSUME NEW P, NEW under \in KeySets(P), NEW keys \in Seq(Int), NEW children \in Seq(P),
         Parted(keys, children, under)
  PROVE  /\ Len(keys) \in Nat /\ Len(children) = Len(keys) + 1
         /\ DOMAIN keys = 1 .. Len(keys) /\ DOMAIN children = 1 .. Len(children)
         /\ \A i \in 1 .. Len(keys) : keys[i] \in Int
         /\ \A i \in 1 .. Len(children) : children[i] \in P
         /\ \A i, j \in 1 .. Len(keys) : i < j => keys[i] < keys[j]
         /\ \A i, j \in 1 .. Len(children) : children[i] = children[j] => i = j
         /\ \A i \in 1 .. Len(children) : under[children[i]] \subseteq Int
         /\ \A i \in 2 .. Len(children) : \A k \in under[children[i]] : keys[i - 1] <= k
         /\ \A i \in 1 .. Len(keys) : \A k \in under[children[i]] : k < keys[i]
<1>1. /\ Len(children) = Len(keys) + 1
      /\ \A i, j \in 1 .. Len(children) : children[i] = children[j] => i = j
      /\ \A i \in 1 .. Len(children) : Bounds(keys, i, under[children[i]])
  BY DEF Parted
<1>2. /\ Len(keys) \in Nat /\ DOMAIN keys = 1 .. Len(keys)
      /\ DOMAIN children = 1 .. Len(children)
      /\ \A i \in 1 .. Len(keys) : keys[i] \in Int
      /\ \A i \in 1 .. Len(children) : children[i] \in P
  OBVIOUS
<1>3. \A i, j \in 1 .. Len(keys) : i < j => keys[i] < keys[j]
  BY DEF Parted, Rising
<1>4. \A i \in 1 .. Len(children) : under[children[i]] \subseteq Int
  BY <1>2 DEF KeySets
<1>5. \A i \in 2 .. Len(children) : \A k \in under[children[i]] : keys[i - 1] <= k
  BY <1>1, <1>2 DEF Bounds
<1>6. \A i \in 1 .. Len(keys) : \A k \in under[children[i]] : k < keys[i]
  BY <1>1, <1>2 DEF Bounds
<1> QED
  BY <1>1, <1>2, <1>3, <1>4, <1>5, <1>6

LEMMA BoundsIf ==
  ASSUME NEW keys, NEW i, NEW S,
         i > 1 => \A k \in S : keys[i - 1] <= k,
         i <= Len(keys) => \A k \in S : k < keys[i]
  PROVE  Bounds(keys, i, S)
BY DEF Bounds

\* Keys that rise from each to the next rise: look at the first place where one
\* is not above all before it.
LEMMA RisingIf ==
  ASSUME NEW keys \in Seq(Int), \A i \in 1 .. Len(keys) - 1 : keys[i] < keys[i + 1]
  PROVE  Rising(keys)
<1> DEFINE Wrong == {j \in Nat : j \in 1 .. Len(keys)
                                 /\ \E i \in 1 .. Len(keys) : i < j /\ ~(keys[i] < keys[j])}
<1>0. Len(keys) \in Nat /\ \A i \in 1 .. Len(keys) : keys[i] \in Int
  OBVIOUS
<1>1. SUFFICES ASSUME Wrong # {} PROVE FALSE
  BY <1>0, SMTT(30) DEF Rising
<1>2. PICK j \in Wrong : \A e \in Wrong : ~(<<e, j>> \in OpToRel(<, Nat))
  <2>1. Wrong \subseteq Nat
    OBVIOUS
  <2> HIDE DEF Wrong
  <2> QED
    BY <1>1, <2>1, NatLessThanWellFounded, WFMin
<1>3. \A e \in Wrong : ~(e < j)
  BY <1>2 DEF OpToRel
<1>4. PICK i \in 1 .. Len(keys) : i < j /\ ~(keys[i] < keys[j])
  OBVIOUS
<1>5. j \in 1 .. Len(keys) /\ j - 1 \in 1 .. Len(keys) /\ keys[j - 1] < keys[j]
  <2>1. j - 1 \in 1 .. Len(keys) - 1
    BY <1>0, <1>4
  <2> QED
    BY <2>1
<1>6. i < j - 1 /\ ~(keys[i] < keys[j - 1])
  BY <1>0, <1>4, <1>5
<1>7. j - 1 \in Wrong
  BY <1>5, <1>6
<1> HIDE DEF Wrong
<1> QED
  BY <1>3, <1>5, <1>7

\* When every child has a key beneath it, bounds are all it takes: this is how
\* TreeSound, which asks no more of a page, gives Parted.
LEMMA PartedIf ==
  ASSUME NEW P, NEW under \in KeySets(P), NEW keys \in Seq(Int), NEW children \in Seq(P),
         Len(children) = Len(keys) + 1, Peopled(children, under),
         \A i \in 1 .. Len(children) : Bounds(keys, i, under[children[i]])
  PROVE  Parted(keys, children, under)
<1>1. /\ Len(keys) \in Nat
      /\ \A i \in 1 .. Len(keys) : keys[i] \in Int
      /\ \A i \in 1 .. Len(children) : children[i] \in P
  OBVIOUS
<1>2. \A i \in 1 .. Len(children) : under[children[i]] \subseteq Int /\ under[children[i]] # {}
  BY <1>1 DEF KeySets, Peopled
<1>3. ASSUME NEW i \in 2 .. Len(children), NEW k \in under[children[i]]
      PROVE  keys[i - 1] <= k
  <2>1. i \in 1 .. Len(children) /\ i > 1
    BY <1>1
  <2>2. Bounds(keys, i, under[children[i]])
    BY <2>1
  <2> QED
    BY <2>1, <2>2 DEF Bounds
<1>4. \A i \in 1 .. Len(keys) : \A k \in under[children[i]] : k < keys[i]
  BY <1>1 DEF Bounds
<1>5. ASSUME NEW i \in 1 .. Len(keys) - 1 PROVE keys[i] < keys[i + 1]
  <2>1. i + 1 \in 2 .. Len(children) /\ i + 1 \in 1 .. Len(keys) /\ i \in 1 .. Len(keys)
    BY <1>1
  <2>2. PICK k \in under[children[i + 1]] : k \in Int
    <3>1. i + 1 \in 1 .. Len(children)
      BY <2>1
    <3> QED
      BY <1>2, <3>1
  <2>3. keys[i] <= k /\ k < keys[i + 1]
    <3>1. (i + 1) - 1 = i
      OBVIOUS
    <3>2. keys[(i + 1) - 1] <= k
      BY <1>3, <2>1
    <3>3. k < keys[i + 1]
      BY <1>4, <2>1
    <3> QED
      BY <3>1, <3>2, <3>3
  <2> QED
    BY <1>1, <2>1, <2>2, <2>3
<1>6. Rising(keys)
  BY <1>5, RisingIf
<1>7. ASSUME NEW i \in 1 .. Len(children), NEW j \in 1 .. Len(children), i < j
      PROVE  children[i] # children[j]
  <2>1. i \in 1 .. Len(keys) /\ j - 1 \in 1 .. Len(keys) /\ j \in 2 .. Len(children)
    BY <1>1, <1>7
  <2>2. keys[i] <= keys[j - 1]
    BY <1>1, <1>6, <1>7, <2>1, SMTT(30) DEF Rising
  <2>3. PICK k \in under[children[i]] : k \in Int
    BY <1>2
  <2>4. k < keys[i]
    BY <1>4, <2>1
  <2>5. k \in under[children[j]] => keys[j - 1] <= k
    BY <1>3, <2>1
  <2> QED
    BY <1>1, <2>1, <2>2, <2>3, <2>4, <2>5
<1>8. \A i, j \in 1 .. Len(children) : children[i] = children[j] => i = j
  BY <1>1, <1>7
<1> QED
  BY <1>6, <1>8 DEF Parted

\* Lookup leads to the one child whose separators admit the key: if the key is
\* beneath any child of the page, it is beneath that one.
THEOREM ChildForFinds ==
  ASSUME NEW P, NEW under \in KeySets(P), NEW n, SoundInternal(n, under, P), NEW key \in Int
  PROVE  /\ \E i \in 1 .. Len(n.children) :
                ChildFor(n, key) = n.children[i] /\ Bounds(n.keys, i, {key})
         /\ \A c \in ToSet(n.children) : key \in under[c] => ChildFor(n, key) = c
<1>0. PICK K, C : K = n.keys /\ C = n.children
  OBVIOUS
<1>s. K \in Seq(Int) /\ C \in Seq(P) /\ Parted(K, C, under)
  BY <1>0 DEF SoundInternal, InternalPages
<1>1. /\ Len(K) \in Nat /\ Len(C) = Len(K) + 1
      /\ DOMAIN K = 1 .. Len(K)
      /\ \A i \in 1 .. Len(K) : K[i] \in Int
      /\ \A i, j \in 1 .. Len(K) : i < j => K[i] < K[j]
      /\ \A i \in 2 .. Len(C) : \A k \in under[C[i]] : K[i - 1] <= k
      /\ \A i \in 1 .. Len(K) : \A k \in under[C[i]] : k < K[i]
  BY <1>s, PartedFacts
<1> DEFINE before == [i \in DOMAIN K |-> K[i] <= key]
<1>2. before \in [1 .. Len(K) -> BOOLEAN]
  BY <1>1
<1>3. \A i \in 1 .. Len(K) : before[i] <=> K[i] <= key
  BY <1>1
<1>4. ChildFor(n, key) = C[Bisect(before, 1, Len(K))]
  BY <1>0 DEF ChildFor
<1> HIDE DEF before
<1>5. \A i, j \in 1 .. Len(K) : i < j /\ before[j] => before[i]
  BY <1>1, <1>3
<1>6. PICK p \in 1 .. Len(K) + 1 : \A i \in 1 .. Len(K) : before[i] <=> i < p
  BY <1>1, <1>2, <1>5, FirstPlace
<1>7. Ends(before, 1, Len(K), p)
  BY <1>6 DEF Ends
<1>8. Bisect(before, 1, Len(K)) = p
  BY <1>1, <1>7, BisectFinds
<1>9. ChildFor(n, key) = C[p] /\ p \in 1 .. Len(C)
  BY <1>1, <1>4, <1>8
<1>10. Bounds(K, p, {key})
  <2>1. p > 1 => K[p - 1] <= key
    BY <1>1, <1>3, <1>6
  <2>2. p <= Len(K) => key < K[p]
    BY <1>1, <1>3, <1>6
  <2> QED
    BY <2>1, <2>2 DEF Bounds
<1>11. ASSUME NEW i \in 1 .. Len(C), key \in under[C[i]] PROVE i = p
  <2>1. CASE i < p
    <3>1. i \in 1 .. Len(K)
      BY <1>1, <1>9, <2>1
    <3>2. K[i] <= key
      BY <1>3, <1>6, <2>1, <3>1
    <3>3. key < K[i]
      BY <1>1, <1>11, <3>1
    <3> QED
      BY <1>1, <3>1, <3>2, <3>3
  <2>2. CASE i > p
    <3>1. i - 1 \in 1 .. Len(K) /\ i \in 2 .. Len(C) /\ ~(i - 1 < p)
      BY <1>1, <1>9, <2>2
    <3>2. ~(K[i - 1] <= key)
      BY <1>3, <1>6, <3>1
    <3>3. K[i - 1] <= key
      BY <1>1, <1>11, <3>1
    <3> QED
      BY <3>2, <3>3
  <2> QED
    BY <1>9, <2>1, <2>2
<1>12. \A c \in ToSet(C) : key \in under[c] => ChildFor(n, key) = c
  <2>1. ToSet(C) = {C[i] : i \in 1 .. Len(C)}
    BY <1>s, ToSetOf
  <2> QED
    BY <1>9, <1>11, <2>1
<1> QED
  BY <1>0, <1>9, <1>10, <1>12

-----------------------------------------------------------------------------
(***************************************************************************)
(* Leaves cut in two and put together.                                     *)
(***************************************************************************)
\* s and t are in order, and all of s comes before all of t.
KeysApart(s, t) ==
    /\ InKeyOrder(s) /\ InKeyOrder(t)
    /\ \A a \in KeysOf(s), b \in KeysOf(t) : a < b

LEMMA ConcatFacts ==
  ASSUME NEW E, NEW s \in Seq(E), NEW t \in Seq(E)
  PROVE  /\ s \o t \in Seq(E) /\ Len(s \o t) = Len(s) + Len(t)
         /\ \A i \in 1 .. Len(s) : (s \o t)[i] = s[i]
         /\ \A i \in 1 .. Len(t) : (s \o t)[Len(s) + i] = t[i]
         /\ ToSet(s \o t) = ToSet(s) \union ToSet(t)
         /\ KeysOf(s \o t) = KeysOf(s) \union KeysOf(t)
<1>0. PICK u : u = s \o t
  OBVIOUS
<1>1. u \in Seq(E) /\ Len(u) = Len(s) + Len(t)
  BY <1>0
<1>2. \A i \in 1 .. Len(s) : u[i] = s[i]
  BY <1>0
<1>3. \A i \in 1 .. Len(t) : u[Len(s) + i] = t[i]
  BY <1>0
<1>4. ToSet(u) = ToSet(s) \union ToSet(t)
  <2>1. ToSet(u) = {u[i] : i \in 1 .. Len(s) + Len(t)}
    BY <1>1, ToSetOf
  <2>2. ToSet(s) = {s[i] : i \in 1 .. Len(s)} /\ ToSet(t) = {t[i] : i \in 1 .. Len(t)}
    BY ToSetOf
  <2>3. ASSUME NEW i \in 1 .. Len(s) + Len(t) PROVE u[i] \in ToSet(s) \union ToSet(t)
    <3>1. CASE i <= Len(s)
      BY <1>2, <2>2, <3>1
    <3>2. CASE i > Len(s)
      <4>1. i - Len(s) \in 1 .. Len(t) /\ i = Len(s) + (i - Len(s))
        BY <3>2
      <4>2. u[i] = t[i - Len(s)]
        BY <1>3, <4>1
      <4> QED
        BY <2>2, <4>1, <4>2
    <3> QED
      BY <3>1, <3>2
  <2>4. ASSUME NEW i \in 1 .. Len(s) PROVE s[i] \in ToSet(u)
    BY <1>2, <2>1
  <2>5. ASSUME NEW i \in 1 .. Len(t) PROVE t[i] \in ToSet(u)
    <3>1. Len(s) + i \in 1 .. Len(s) + Len(t)
      OBVIOUS
    <3> QED
      BY <1>3, <2>1, <3>1
  <2> QED
    BY <2>1, <2>2, <2>3, <2>4, <2>5
<1>5. KeysOf(u) = KeysOf(s) \union KeysOf(t)
  BY <1>4 DEF KeysOf
<1> QED
  BY <1>0, <1>1, <1>2, <1>3, <1>4, <1>5

LEMMA OrderOfConcat ==
  ASSUME NEW E, HaveKeys(E), NEW s \in Seq(E), NEW t \in Seq(E), KeysApart(s, t)
  PROVE  InKeyOrder(s \o t)
<1>0. PICK u : u = s \o t
  OBVIOUS
<1>1. /\ u \in Seq(E) /\ Len(u) = Len(s) + Len(t)
      /\ \A i \in 1 .. Len(s) : u[i] = s[i]
      /\ \A i \in 1 .. Len(t) : u[Len(s) + i] = t[i]
  BY <1>0, ConcatFacts
<1>2. InKeyOrder(s) /\ InKeyOrder(t) /\ \A a \in KeysOf(s), b \in KeysOf(t) : a < b
  BY DEF KeysApart
<1>3. /\ Len(s) \in Nat /\ KeysOf(s) = {s[i].key : i \in 1 .. Len(s)}
      /\ \A i, j \in 1 .. Len(s) : i < j => s[i].key < s[j].key
  BY <1>2, OrderedFacts
<1>4. /\ Len(t) \in Nat /\ KeysOf(t) = {t[i].key : i \in 1 .. Len(t)}
      /\ \A i, j \in 1 .. Len(t) : i < j => t[i].key < t[j].key
  BY <1>2, OrderedFacts
<1>5. ASSUME NEW i \in 1 .. Len(u), NEW j \in 1 .. Len(u), i < j
      PROVE  u[i].key < u[j].key
  <2>1. CASE j <= Len(s)
    BY <1>1, <1>3, <1>5, <2>1
  <2>2. CASE j > Len(s)
    <3>1. j - Len(s) \in 1 .. Len(t) /\ u[j] = t[j - Len(s)]
      <4>1. j - Len(s) \in 1 .. Len(t) /\ j = Len(s) + (j - Len(s))
        BY <1>1, <1>3, <1>4, <2>2
      <4> QED
        BY <1>1, <4>1
    <3>2. CASE i <= Len(s)
      <4>1. u[i] = s[i] /\ s[i].key \in KeysOf(s)
        BY <1>1, <1>3, <3>2
      <4>2. t[j - Len(s)].key \in KeysOf(t)
        BY <1>4, <3>1
      <4> QED
        BY <1>2, <3>1, <4>1, <4>2
    <3>3. CASE i > Len(s)
      <4>1. i - Len(s) \in 1 .. Len(t) /\ i = Len(s) + (i - Len(s))
        BY <1>1, <1>3, <1>4, <3>3
      <4>2. u[i] = t[i - Len(s)] /\ i - Len(s) < j - Len(s)
        BY <1>1, <1>3, <1>5, <4>1
      <4> QED
        BY <1>4, <3>1, <4>1, <4>2
    <3> QED
      BY <1>3, <3>2, <3>3
  <2> QED
    BY <1>3, <2>1, <2>2
<1> QED
  BY <1>0, <1>1, <1>5, OrderedIf

LEMMA OrderOfParts ==
  ASSUME NEW E, HaveKeys(E), NEW s \in Seq(E), NEW t \in Seq(E), InKeyOrder(s \o t)
  PROVE  KeysApart(s, t)
<1>0. PICK u : u = s \o t
  OBVIOUS
<1>1. /\ u \in Seq(E) /\ Len(u) = Len(s) + Len(t)
      /\ \A i \in 1 .. Len(s) : u[i] = s[i]
      /\ \A i \in 1 .. Len(t) : u[Len(s) + i] = t[i]
  BY <1>0, ConcatFacts
<1>2. /\ \A i \in 1 .. Len(u) : u[i].key \in Int
      /\ \A i, j \in 1 .. Len(u) : i < j => u[i].key < u[j].key
  BY <1>0, <1>1, OrderedFacts
<1>3. Len(s) \in Nat /\ Len(t) \in Nat
  OBVIOUS
<1>4. ASSUME NEW i \in 1 .. Len(s), NEW j \in 1 .. Len(s), i < j
      PROVE  s[i].key < s[j].key
  <2>1. i \in 1 .. Len(u) /\ j \in 1 .. Len(u)
    BY <1>1, <1>3
  <2> QED
    BY <1>1, <1>2, <1>4, <2>1
<1>5. ASSUME NEW i \in 1 .. Len(t), NEW j \in 1 .. Len(t), i < j
      PROVE  t[i].key < t[j].key
  <2>1. Len(s) + i \in 1 .. Len(u) /\ Len(s) + j \in 1 .. Len(u) /\ Len(s) + i < Len(s) + j
    BY <1>1, <1>3, <1>5
  <2> QED
    BY <1>1, <1>2, <2>1
<1>6. ASSUME NEW i \in 1 .. Len(s), NEW j \in 1 .. Len(t)
      PROVE  s[i].key < t[j].key
  <2>1. i \in 1 .. Len(u) /\ Len(s) + j \in 1 .. Len(u) /\ i < Len(s) + j
    BY <1>1, <1>3
  <2> QED
    BY <1>1, <1>2, <2>1
<1>7. InKeyOrder(s) /\ InKeyOrder(t)
  BY <1>4, <1>5, OrderedIf
<1>8. KeysOf(s) = {s[i].key : i \in 1 .. Len(s)} /\ KeysOf(t) = {t[i].key : i \in 1 .. Len(t)}
  BY <1>7, OrderedFacts
<1>9. \A a \in KeysOf(s), b \in KeysOf(t) : a < b
  BY <1>6, <1>8
<1> QED
  BY <1>7, <1>9 DEF KeysApart

\* key keeps the keys of a left page L and those of a right page R apart, and
\* neither is empty: what a split, a loan or a merge owes the parent.
Separates(key, L, R) ==
    /\ key \in Int /\ L # {} /\ R # {}
    /\ \A k \in L : k < key
    /\ \A k \in R : key <= k

LEMMA FirstKeySeparates ==
  ASSUME NEW E, HaveKeys(E), NEW a \in Seq(E), NEW b \in Seq(E),
         KeysApart(a, b), Len(a) >= 1, Len(b) >= 1
  PROVE  Separates(b[1].key, KeysOf(a), KeysOf(b))
<1>1. InKeyOrder(a) /\ InKeyOrder(b) /\ \A x \in KeysOf(a), y \in KeysOf(b) : x < y
  BY DEF KeysApart
<1>2. /\ KeysOf(b) = {b[i].key : i \in 1 .. Len(b)} /\ KeysOf(b) \subseteq Int
      /\ \A i, j \in 1 .. Len(b) : i < j => b[i].key < b[j].key
  BY <1>1, OrderedFacts
<1>3. KeysOf(a) = {a[i].key : i \in 1 .. Len(a)} /\ KeysOf(a) \subseteq Int
  BY <1>1, OrderedFacts
<1>4. 1 \in 1 .. Len(a) /\ 1 \in 1 .. Len(b) /\ Len(b) \in Nat
  OBVIOUS
<1>5. b[1].key \in KeysOf(b) /\ KeysOf(a) # {}
  BY <1>2, <1>3, <1>4
<1>6. ASSUME NEW y \in KeysOf(b) PROVE b[1].key <= y
  <2>1. PICK i \in 1 .. Len(b) : y = b[i].key
    BY <1>2
  <2>2. b[1].key \in Int /\ y \in Int
    BY <1>2, <1>5
  <2>3. CASE i = 1
    BY <2>1, <2>2, <2>3
  <2>4. CASE 1 < i
    <3>1. b[1].key < b[i].key
      BY <1>2, <1>4, <2>4
    <3> QED
      BY <2>1, <2>2, <3>1
  <2> QED
    BY <1>4, <2>3, <2>4
<1> QED
  BY <1>1, <1>2, <1>5, <1>6 DEF Separates

LEMMA Halves ==
  ASSUME NEW max \in Nat, max >= 2
  PROVE  /\ StayOf(max + 1) \in 1 .. max
         /\ StayOf(max + 1) >= max \div 2
         /\ max + 1 - StayOf(max + 1) \in 1 .. max
         /\ max + 1 - StayOf(max + 1) >= max \div 2
BY DEF StayOf

LEMMA CutSeq ==
  ASSUME NEW E, NEW s \in Seq(E), NEW m \in 0 .. Len(s)
  PROVE  /\ SubSeq(s, 1, m) \in Seq(E) /\ Len(SubSeq(s, 1, m)) = m
         /\ SubSeq(s, m + 1, Len(s)) \in Seq(E)
         /\ Len(SubSeq(s, m + 1, Len(s))) = Len(s) - m
         /\ SubSeq(s, 1, m) \o SubSeq(s, m + 1, Len(s)) = s
<1>1. SubSeq(s, 1, m) \in Seq(E) /\ Len(SubSeq(s, 1, m)) = m
  BY SubSeqProperties
<1>2. /\ SubSeq(s, m + 1, Len(s)) \in Seq(E)
      /\ Len(SubSeq(s, m + 1, Len(s))) = Len(s) - m
  BY SubSeqProperties
<1>3. SubSeq(s, 1, m) \o SubSeq(s, m + 1, Len(s)) = SubSeq(s, 1, Len(s))
  <2>1. 1 \in 1 .. Len(s) + 1 /\ m \in 1 - 1 .. Len(s) /\ Len(s) \in m .. Len(s)
    OBVIOUS
  <2> QED
    BY <2>1, ConcatAdjacentSubSeq
<1>4. SubSeq(s, 1, Len(s)) = s
  BY SubSeqFull
<1> QED
  BY <1>1, <1>2, <1>3, <1>4

\* What is left of a full leaf and what moves out of it.
LeafHalves(n, stay, move, E, P) ==
    /\ SoundLeaf(stay, E, P) /\ SoundLeaf(move, E, P)
    /\ stay.entries \o move.entries = n.entries
    /\ Separates(SplitKey(n), KeysOf(stay.entries), KeysOf(move.entries))
    /\ GetSize(stay) \in MinSize(n) .. GetMaxSize(n)
    /\ GetSize(move) \in MinSize(n) .. GetMaxSize(n)
    /\ \A h \in {stay, move} : h.parent = n.parent /\ h.next = n.next

\* MoveHalfTo on a leaf with one entry too many: both halves are in order and
\* between half full and full, together they are the leaf, and KeyAt(0) of the
\* new leaf, which goes up, separates them.
THEOREM LeafSplitSound ==
  ASSUME NEW E, NEW P, HaveKeys(E), NEW n, SoundLeaf(n, E, P),
         GetSize(n) = GetMaxSize(n) + 1
  PROVE  LeafHalves(n, StayingHalf(n), MovingHalf(n), E, P)
<1>0. PICK s, m, a, b : /\ s = n.entries /\ m = StayOf(Len(n.entries))
                        /\ a = SubSeq(s, 1, m) /\ b = SubSeq(s, m + 1, Len(s))
  OBVIOUS
<1>1. /\ s \in Seq(E) /\ InKeyOrder(s) /\ n.leaf = TRUE
      /\ n \in LeafPages(E, P) /\ GetMaxSize(n) = LeafMax /\ GetSize(n) = Len(s)
  BY <1>0, LeafFacts
<1>2. /\ Len(s) = LeafMax + 1 /\ LeafMax \in Nat
      /\ m \in 1 .. LeafMax /\ m >= LeafMax \div 2
      /\ Len(s) - m \in 1 .. LeafMax /\ Len(s) - m >= LeafMax \div 2
  <2>1. LeafMax \in Nat /\ LeafMax >= 2
    BY OrderAssumption DEF OrderAssumption
  <2>2. /\ StayOf(LeafMax + 1) \in 1 .. LeafMax
        /\ StayOf(LeafMax + 1) >= LeafMax \div 2
        /\ LeafMax + 1 - StayOf(LeafMax + 1) \in 1 .. LeafMax
        /\ LeafMax + 1 - StayOf(LeafMax + 1) >= LeafMax \div 2
    BY <2>1, Halves
  <2>3. Len(s) = LeafMax + 1
    BY <1>1
  <2> QED
    BY <1>0, <2>1, <2>2, <2>3
<1>3. /\ a \in Seq(E) /\ Len(a) = m /\ b \in Seq(E) /\ Len(b) = Len(s) - m /\ a \o b = s
  <2>1. s \in Seq(E) /\ m \in 0 .. Len(s)
    BY <1>1, <1>2
  <2> QED
    BY <1>0, <2>1, CutSeq
<1>4. KeysApart(a, b)
  BY <1>1, <1>3, OrderOfParts
<1>5. InKeyOrder(a) /\ InKeyOrder(b) /\ \A x \in KeysOf(a), y \in KeysOf(b) : x < y
  BY <1>4 DEF KeysApart
<1>6. StayingHalf(n) = WithEntries(n, a) /\ MovingHalf(n) = WithEntries(n, b)
  BY <1>0, <1>1, Zenon DEF StayingHalf, MovingHalf, WithEntries
<1>7. LeafGot(WithEntries(n, a), n, a, E, P) /\ LeafGot(WithEntries(n, b), n, b, E, P)
  BY <1>1, <1>3, <1>5, LeafWith
<1>8. Separates(SplitKey(n), KeysOf(a), KeysOf(b))
  <2>1. SplitKey(n) = s[m + 1].key
    BY <1>0, <1>1 DEF SplitKey
  <2>2. b[1] = s[m + 1] /\ Len(a) >= 1 /\ Len(b) >= 1
    <3>1. s = a \o b /\ 1 \in 1 .. Len(b) /\ Len(a) >= 1 /\ Len(b) >= 1
      BY <1>2, <1>3
    <3> QED
      BY <1>3, <3>1, ConcatFacts
  <2> QED
    BY <1>3, <1>4, <2>1, <2>2, FirstKeySeparates
<1>9. MinSize(n) = LeafMax \div 2
  BY <1>1 DEF MinSize
<1>10. LeafHalves(n, WithEntries(n, a), WithEntries(n, b), E, P)
  <2>1. /\ SoundLeaf(WithEntries(n, a), E, P) /\ WithEntries(n, a).entries = a
        /\ WithEntries(n, a).parent = n.parent /\ WithEntries(n, a).next = n.next
        /\ GetSize(WithEntries(n, a)) = m
    BY <1>3, <1>7 DEF LeafGot
  <2>2. /\ SoundLeaf(WithEntries(n, b), E, P) /\ WithEntries(n, b).entries = b
        /\ WithEntries(n, b).parent = n.parent /\ WithEntries(n, b).next = n.next
        /\ GetSize(WithEntries(n, b)) = Len(s) - m
    BY <1>3, <1>7 DEF LeafGot
  <2>3. m \in MinSize(n) .. GetMaxSize(n) /\ Len(s) - m \in MinSize(n) .. GetMaxSize(n)
    BY <1>1, <1>2, <1>9
  <2>4. a \o b = n.entries
    BY <1>0, <1>3
  <2> QED
    BY <1>8, <2>1, <2>2, <2>3, <2>4, Zenon DEF LeafHalves
<1> QED
  BY <1>6, <1>10

\* Insert puts an entry below all others first, and one above all others last.
LEMMA InsertFirst ==
  ASSUME NEW E, NEW P, HaveKeys(E), NEW n, SoundLeaf(n, E, P), NEW e \in E,
         \A k \in KeysOf(n.entries) : e.key < k
  PROVE  LeafInsert(n, e) = WithEntries(n, <<e>> \o n.entries)
<1>0. PICK s, p : s = n.entries /\ p = KeyIndex(n, e.key)
  OBVIOUS
<1>1. s \in Seq(E) /\ InKeyOrder(s)
  BY <1>0, LeafFacts
<1>2. e.key \in Int
  BY DEF HaveKeys
<1>3. /\ Len(s) \in Nat /\ KeysOf(s) = {s[i].key : i \in 1 .. Len(s)}
      /\ \A i \in 1 .. Len(s) : s[i].key \in Int
  BY <1>1, OrderedFacts
<1>4. p \in 1 .. Len(s) + 1 /\ \A i \in 1 .. Len(s) : s[i].key < e.key <=> i < p
  BY <1>0, <1>1, <1>2, KeyIndexFinds
<1>5. ASSUME NEW i \in 1 .. Len(s) PROVE ~(s[i].key < e.key)
  <2>1. s[i].key \in KeysOf(s) /\ s[i].key \in Int
    BY <1>3
  <2>2. e.key < s[i].key
    BY <1>0, <2>1
  <2> QED
    BY <1>2, <2>1, <2>2
<1>6. p = 1
  BY <1>3, <1>4, <1>5
<1>7. InsertAt(s, 1, e) = <<e>> \o s
  <2>1. /\ InsertAt(s, 1, e) \in Seq(E) /\ Len(InsertAt(s, 1, e)) = Len(s) + 1
        /\ \A j \in 1 .. Len(s) + 1 : InsertAt(s, 1, e)[j] =
                IF j < 1 THEN s[j] ELSE IF j = 1 THEN e ELSE s[j - 1]
    <3>1. 1 \in 1 .. Len(s) + 1
      BY <1>3
    <3> QED
      BY <1>1, <3>1, InsertAtFacts
  <2>2. /\ <<e>> \o s \in Seq(E) /\ Len(<<e>> \o s) = Len(s) + 1
        /\ \A j \in 1 .. Len(s) + 1 : (<<e>> \o s)[j] = IF j = 1 THEN e ELSE s[j - 1]
    BY <1>1, <1>3
  <2>3. PICK a, b : a = InsertAt(s, 1, e) /\ b = <<e>> \o s
    OBVIOUS
  <2>4. a \in Seq(E) /\ b \in Seq(E) /\ Len(a) = Len(b)
    BY <2>1, <2>2, <2>3
  <2>5. \A j \in 1 .. Len(a) : a[j] = b[j]
    BY <2>1, <2>2, <2>3, <1>3
  <2> QED
    BY <2>3, <2>4, <2>5, SeqEqual
<1> QED
  BY <1>0, <1>6, <1>7, Zenon DEF LeafInsert, WithEntries

LEMMA InsertLast ==
  ASSUME NEW E, NEW P, HaveKeys(E), NEW n, SoundLeaf(n, E, P), NEW e \in E,
         \A k \in KeysOf(n.entries) : k < e.key
  PROVE  LeafInsert(n, e) = WithEntries(n, n.entries \o <<e>>)
<1>0. PICK s, p : s = n.entries /\ p = KeyIndex(n, e.key)
  OBVIOUS
<1>1. s \in Seq(E) /\ InKeyOrder(s)
  BY <1>0, LeafFacts
<1>2. e.key \in Int
  BY DEF HaveKeys
<1>3. /\ Len(s) \in Nat /\ KeysOf(s) = {s[i].key : i \in 1 .. Len(s)}
      /\ \A i \in 1 .. Len(s) : s[i].key \in Int
  BY <1>1, OrderedFacts
<1>4. p \in 1 .. Len(s) + 1 /\ \A i \in 1 .. Len(s) : s[i].key < e.key <=> i < p
  BY <1>0, <1>1, <1>2, KeyIndexFinds
<1>5. \A i \in 1 .. Len(s) : s[i].key < e.key
  BY <1>0, <1>2, <1>3
<1>6. p = Len(s) + 1
  BY <1>3, <1>4, <1>5
<1>7. InsertAt(s, p, e) = s \o <<e>>
  <2>1. /\ InsertAt(s, p, e) \in Seq(E)
        /\ Len(InsertAt(s, p, e)) = Len(s) + 1
        /\ \A j \in 1 .. Len(s) + 1 : InsertAt(s, p, e)[j] =
                IF j < p THEN s[j] ELSE IF j = p THEN e ELSE s[j - 1]
    BY <1>1, <1>4, InsertAtFacts
  <2>2. /\ s \o <<e>> \in Seq(E) /\ Len(s \o <<e>>) = Len(s) + 1
        /\ \A j \in 1 .. Len(s) + 1 : (s \o <<e>>)[j] = IF j <= Len(s) THEN s[j] ELSE e
    BY <1>1, <1>3
  <2>3. PICK a, b : a = InsertAt(s, p, e) /\ b = s \o <<e>>
    OBVIOUS
  <2>4. a \in Seq(E) /\ b \in Seq(E) /\ Len(a) = Len(b)
    BY <2>1, <2>2, <2>3
  <2>5. \A j \in 1 .. Len(a) : a[j] = b[j]
    BY <2>1, <2>2, <2>3, <1>3, <1>6
  <2> QED
    BY <2>3, <2>4, <2>5, SeqEqual
<1> QED
  BY <1>0, <1>6, <1>7, Zenon DEF LeafInsert, WithEntries

LEMMA FrontAndLast ==
  ASSUME NEW E, NEW s \in Seq(E), Len(s) >= 1
  PROVE  /\ Front(s) \in Seq(E) /\ Len(Front(s)) = Len(s) - 1
         /\ Last(s) \in E /\ <<Last(s)>> \in Seq(E)
         /\ Front(s) \o <<Last(s)>> = s
<1>1. Front(s) = SubSeq(s, 1, Len(s) - 1) /\ Last(s) = s[Len(s)]
  BY DEF Front, Last
<1>2. Len(s) \in Nat /\ Len(s) - 1 \in 0 .. Len(s) /\ Len(s) \in 1 .. Len(s)
  OBVIOUS
<1>3. Front(s) \in Seq(E) /\ Len(Front(s)) = Len(s) - 1
  <2>1. PICK m : m = Len(s) - 1
    OBVIOUS
  <2>2. m \in 0 .. Len(s)
    BY <1>2, <2>1
  <2>3. SubSeq(s, 1, m) \in Seq(E) /\ Len(SubSeq(s, 1, m)) = m
    BY <2>2, CutSeq
  <2> QED
    BY <1>1, <2>1, <2>3
<1>4. SubSeq(s, 1, Len(s)) = SubSeq(s, 1, Len(s) - 1) \o <<s[Len(s)]>>
  <2>1. 1 \in 1 .. Len(s) /\ Len(s) \in 1 .. Len(s)
    BY <1>2
  <2> QED
    BY <2>1, SubSeqRecursiveSecond
<1>5. SubSeq(s, 1, Len(s)) = s
  BY SubSeqFull
<1>6. Last(s) \in E
  BY <1>1, <1>2
<1>7. Front(s) \o <<Last(s)>> = s
  BY <1>1, <1>4, <1>5, Zenon
<1>8. <<Last(s)>> \in Seq(E)
  BY <1>6
<1> QED
  BY <1>3, <1>6, <1>7, <1>8

LEMMA HeadAndTail ==
  ASSUME NEW E, NEW s \in Seq(E), Len(s) >= 1
  PROVE  /\ Tail(s) \in Seq(E) /\ Len(Tail(s)) = Len(s) - 1
         /\ Head(s) \in E /\ <<Head(s)>> \in Seq(E)
         /\ <<Head(s)>> \o Tail(s) = s
<1>1. s # << >>
  OBVIOUS
<1>2. /\ Head(s) \in E /\ Tail(s) \in Seq(E) /\ Len(Tail(s)) = Len(s) - 1
      /\ \A i \in 1 .. Len(Tail(s)) : Tail(s)[i] = s[i + 1]
  BY <1>1, HeadTailProperties
<1>3. PICK t, u : t = Tail(s) /\ u = <<Head(s)>> \o t
  OBVIOUS
<1>4. u \in Seq(E) /\ Len(u) = Len(s)
  BY <1>2, <1>3
<1>5. ASSUME NEW i \in 1 .. Len(u) PROVE u[i] = s[i]
  <2>1. CASE i = 1
    BY <1>2, <1>3, <2>1
  <2>2. CASE i > 1
    <3>1. i - 1 \in 1 .. Len(t) /\ t[i - 1] = s[i]
      <4>1. i - 1 \in 1 .. Len(t) /\ (i - 1) + 1 = i
        BY <1>2, <1>3, <1>4, <2>2
      <4>2. t[i - 1] = s[(i - 1) + 1]
        BY <1>2, <1>3, <4>1
      <4> QED
        BY <4>1, <4>2
    <3>2. u[i] = t[i - 1]
      BY <1>2, <1>3, <2>2, <3>1
    <3> QED
      BY <3>1, <3>2
  <2> QED
    BY <2>1, <2>2
<1>6. u = s
  BY <1>4, <1>5, SeqEqual
<1> QED
  BY <1>2, <1>3, <1>6

\* Two neighbouring leaves after a loan: the same entries in the same order, and
\* key separates them.
LeafPair(left, right, key, entries, E, P) ==
    /\ SoundLeaf(left, E, P) /\ SoundLeaf(right, E, P)
    /\ left.entries \o right.entries = entries
    /\ Separates(key, KeysOf(left.entries), KeysOf(right.entries))

SameLinks(m, n) == m.parent = n.parent /\ m.next = n.next

LEMMA PairOf ==
  ASSUME NEW E, NEW P, HaveKeys(E), NEW l \in LeafPages(E, P), NEW r \in LeafPages(E, P),
         NEW a \in Seq(E), NEW b \in Seq(E), InKeyOrder(a \o b), Len(a) >= 1, Len(b) >= 1
  PROVE  /\ LeafPair(WithEntries(l, a), WithEntries(r, b), b[1].key, a \o b, E, P)
         /\ SameLinks(WithEntries(l, a), l) /\ SameLinks(WithEntries(r, b), r)
         /\ GetSize(WithEntries(l, a)) = Len(a) /\ GetSize(WithEntries(r, b)) = Len(b)
<1>1. KeysApart(a, b)
  BY OrderOfParts
<1>2. InKeyOrder(a) /\ InKeyOrder(b)
  BY <1>1 DEF KeysApart
<1>3. LeafGot(WithEntries(l, a), l, a, E, P) /\ LeafGot(WithEntries(r, b), r, b, E, P)
  BY <1>2, LeafWith
<1>4. Separates(b[1].key, KeysOf(a), KeysOf(b))
  BY <1>1, FirstKeySeparates
<1>5. PICK x, y : x = WithEntries(l, a) /\ y = WithEntries(r, b)
  OBVIOUS
<1>6. /\ SoundLeaf(x, E, P) /\ x.entries = a /\ SameLinks(x, l) /\ GetSize(x) = Len(a)
      /\ SoundLeaf(y, E, P) /\ y.entries = b /\ SameLinks(y, r) /\ GetSize(y) = Len(b)
  BY <1>3, <1>5 DEF LeafGot, SameLinks
<1>7. LeafPair(x, y, b[1].key, a \o b, E, P)
  BY <1>4, <1>6 DEF LeafPair
<1> QED
  BY <1>5, <1>6, <1>7

\* MoveLastToFrontOf between leaves: the last entry of the left one becomes the
\* first of the right one, its key the new separator, and no other entry moves.
THEOREM LeafBorrowsFromLeft ==
  ASSUME NEW E, NEW P, HaveKeys(E), NEW left, NEW n, SoundLeaf(left, E, P),
         SoundLeaf(n, E, P), KeysApart(left.entries, n.entries),
         GetSize(left) > MinSize(left), NEW down
  PROVE  /\ LeafPair(GiveLast(left), TakeLastOf(n, left, down), KeyAfterTakingLast(left),
                     left.entries \o n.entries, E, P)
         /\ SameLinks(GiveLast(left), left) /\ SameLinks(TakeLastOf(n, left, down), n)
         /\ GetSize(GiveLast(left)) \in MinSize(left) .. GetSize(left) - 1
         /\ GetSize(TakeLastOf(n, left, down)) = GetSize(n) + 1
<1>0. PICK s, t, a, e : /\ s = left.entries /\ t = n.entries
                        /\ a = Front(s) /\ e = Last(s)
  OBVIOUS
<1>1. /\ s \in Seq(E) /\ InKeyOrder(s) /\ left.leaf = TRUE /\ left \in LeafPages(E, P)
      /\ GetSize(left) = Len(s) /\ GetMaxSize(left) = LeafMax
  BY <1>0, LeafFacts
<1>2. /\ t \in Seq(E) /\ InKeyOrder(t) /\ n.leaf = TRUE /\ n \in LeafPages(E, P)
      /\ GetSize(n) = Len(t)
  BY <1>0, LeafFacts
<1>3. /\ Len(s) >= 2 /\ Len(s) > LeafMax \div 2 /\ LeafMax \div 2 \in Nat
      /\ MinSize(left) = LeafMax \div 2
  <2>1. LeafMax \in Nat /\ LeafMax >= 2
    BY OrderAssumption DEF OrderAssumption
  <2>2. LeafMax \div 2 \in Nat /\ LeafMax \div 2 >= 1
    BY <2>1
  <2> QED
    BY <1>1, <2>2 DEF MinSize
<1>4. /\ a \in Seq(E) /\ Len(a) = Len(s) - 1 /\ e \in E /\ <<e>> \in Seq(E)
      /\ a \o <<e>> = s
  <2>1. s \in Seq(E) /\ Len(s) >= 1
    BY <1>1, <1>3
  <2> QED
    BY <1>0, <2>1, FrontAndLast
<1>5. \A k \in KeysOf(t) : e.key < k
  <2>1. e.key \in KeysOf(s)
    <3>1. KeysOf(s) = {s[i].key : i \in 1 .. Len(s)}
      BY <1>1, OrderedFacts
    <3>2. e = s[Len(s)] /\ Len(s) \in 1 .. Len(s)
      BY <1>0, <1>1, <1>3 DEF Last
    <3> QED
      BY <3>1, <3>2
  <2> QED
    BY <1>0, <2>1 DEF KeysApart
<1>6. PICK b : b = <<e>> \o t
  OBVIOUS
<1>7. b \in Seq(E) /\ Len(b) = Len(t) + 1 /\ b[1] = e
  BY <1>2, <1>4, <1>6
<1>8. TakeLastOf(n, left, down) = WithEntries(n, b)
  <2>1. TakeLastOf(n, left, down) = LeafInsert(n, e)
    BY <1>0, <1>2, Zenon DEF TakeLastOf
  <2>2. LeafInsert(n, e) = WithEntries(n, <<e>> \o n.entries)
    BY <1>0, <1>4, <1>5, InsertFirst
  <2> QED
    BY <1>0, <1>6, <2>1, <2>2, Zenon
<1>9. GiveLast(left) = WithEntries(left, a)
  BY <1>0, <1>1, Zenon DEF GiveLast, WithEntries
<1>10. KeyAfterTakingLast(left) = b[1].key
  BY <1>0, <1>1, <1>7 DEF KeyAfterTakingLast
<1>11. a \o b = s \o t
  <2>1. PICK o \in Seq(E) : o = <<e>>
    BY <1>4
  <2>2. (a \o o) \o t = a \o (o \o t)
    BY <1>2, <1>4, ConcatAssociative
  <2> QED
    BY <1>4, <1>6, <2>1, <2>2
<1>12. InKeyOrder(a \o b)
  <2>1. KeysApart(s, t)
    BY <1>0
  <2> QED
    BY <1>1, <1>2, <1>11, <2>1, OrderOfConcat
<1>13. Len(a) >= 1 /\ Len(b) >= 1 /\ Len(s) \in Nat /\ Len(t) \in Nat
  BY <1>1, <1>2, <1>3, <1>4, <1>7
<1>14. /\ LeafPair(WithEntries(left, a), WithEntries(n, b), b[1].key, a \o b, E, P)
       /\ SameLinks(WithEntries(left, a), left) /\ SameLinks(WithEntries(n, b), n)
       /\ GetSize(WithEntries(left, a)) = Len(a) /\ GetSize(WithEntries(n, b)) = Len(b)
  BY <1>1, <1>2, <1>4, <1>7, <1>12, <1>13, PairOf, SMTT(30)
<1>15. Len(a) \in MinSize(left) .. GetSize(left) - 1 /\ Len(b) = GetSize(n) + 1
  BY <1>1, <1>2, <1>3, <1>4, <1>7, <1>13
<1> QED
  BY <1>0, <1>8, <1>9, <1>10, <1>11, <1>14, <1>15

\* MoveFirstToEndOf between leaves: the first entry of the right one becomes the
\* last of the left one, the key after it the new separator.
THEOREM LeafBorrowsFromRight ==
  ASSUME NEW E, NEW P, HaveKeys(E), NEW n, NEW right, SoundLeaf(n, E, P),
         SoundLeaf(right, E, P), KeysApart(n.entries, right.entries),
         GetSize(right) > MinSize(right), NEW down
  PROVE  /\ LeafPair(TakeFirstOf(n, right, down), GiveFirst(right),
                     KeyAfterTakingFirst(right), n.entries \o right.entries, E, P)
         /\ SameLinks(TakeFirstOf(n, right, down), n) /\ SameLinks(GiveFirst(right), right)
         /\ GetSize(TakeFirstOf(n, right, down)) = GetSize(n) + 1
         /\ GetSize(GiveFirst(right)) \in MinSize(right) .. GetSize(right) - 1
<1>0. PICK s, t, b, e : /\ s = n.entries /\ t = right.entries
                        /\ b = Tail(t) /\ e = Head(t)
  OBVIOUS
<1>1. /\ s \in Seq(E) /\ InKeyOrder(s) /\ n.leaf = TRUE /\ n \in LeafPages(E, P)
      /\ GetSize(n) = Len(s)
  BY <1>0, LeafFacts
<1>2. /\ t \in Seq(E) /\ InKeyOrder(t) /\ right.leaf = TRUE /\ right \in LeafPages(E, P)
      /\ GetSize(right) = Len(t) /\ GetMaxSize(right) = LeafMax
  BY <1>0, LeafFacts
<1>3. /\ Len(t) >= 2 /\ Len(t) > LeafMax \div 2 /\ LeafMax \div 2 \in Nat
      /\ MinSize(right) = LeafMax \div 2
  <2>1. LeafMax \in Nat /\ LeafMax >= 2
    BY OrderAssumption DEF OrderAssumption
  <2>2. LeafMax \div 2 \in Nat /\ LeafMax \div 2 >= 1
    BY <2>1
  <2> QED
    BY <1>2, <2>2 DEF MinSize
<1>4. /\ b \in Seq(E) /\ Len(b) = Len(t) - 1 /\ e \in E /\ <<e>> \in Seq(E)
      /\ <<e>> \o b = t
  <2>1. t \in Seq(E) /\ Len(t) >= 1
    BY <1>2, <1>3
  <2> QED
    BY <1>0, <2>1, HeadAndTail
<1>5. \A k \in KeysOf(s) : k < e.key
  <2>1. e.key \in KeysOf(t)
    <3>1. KeysOf(t) = {t[i].key : i \in 1 .. Len(t)}
      BY <1>2, OrderedFacts
    <3>2. e = t[1] /\ 1 \in 1 .. Len(t)
      BY <1>0, <1>2, <1>3
    <3> QED
      BY <3>1, <3>2
  <2> QED
    BY <1>0, <2>1 DEF KeysApart
<1>6. PICK a : a = s \o <<e>>
  OBVIOUS
<1>7. a \in Seq(E) /\ Len(a) = Len(s) + 1
  BY <1>1, <1>4, <1>6
<1>8. TakeFirstOf(n, right, down) = WithEntries(n, a)
  <2>1. TakeFirstOf(n, right, down) = LeafInsert(n, e)
    BY <1>0, <1>1, Zenon DEF TakeFirstOf
  <2>2. LeafInsert(n, e) = WithEntries(n, n.entries \o <<e>>)
    BY <1>0, <1>4, <1>5, InsertLast
  <2> QED
    BY <1>0, <1>6, <2>1, <2>2, Zenon
<1>9. GiveFirst(right) = WithEntries(right, b)
  BY <1>0, <1>2, Zenon DEF GiveFirst, WithEntries
<1>10. KeyAfterTakingFirst(right) = b[1].key
  <2>1. b[1] = t[2]
    <3>1. t # << >> /\ 1 \in 1 .. Len(b)
      BY <1>2, <1>3, <1>4
    <3> QED
      BY <1>0, <1>2, <3>1, HeadTailProperties
  <2> QED
    BY <1>0, <1>2, <2>1 DEF KeyAfterTakingFirst
<1>11. a \o b = s \o t
  <2>1. PICK o \in Seq(E) : o = <<e>>
    BY <1>4
  <2>2. (s \o o) \o b = s \o (o \o b)
    BY <1>1, <1>4, ConcatAssociative, SMTT(30)
  <2> QED
    BY <1>4, <1>6, <2>1, <2>2
<1>12. InKeyOrder(a \o b)
  <2>1. KeysApart(s, t)
    BY <1>0
  <2> QED
    BY <1>1, <1>2, <1>11, <2>1, OrderOfConcat
<1>13. Len(a) >= 1 /\ Len(b) >= 1 /\ Len(s) \in Nat /\ Len(t) \in Nat
  BY <1>1, <1>2, <1>3, <1>4, <1>7
<1>14. /\ LeafPair(WithEntries(n, a), WithEntries(right, b), b[1].key, a \o b, E, P)
       /\ SameLinks(WithEntries(n, a), n) /\ SameLinks(WithEntries(right, b), right)
       /\ GetSize(WithEntries(n, a)) = Len(a) /\ GetSize(WithEntries(right, b)) = Len(b)
  BY <1>1, <1>2, <1>4, <1>7, <1>12, <1>13, PairOf
<1>15. Len(b) \in MinSize(right) .. GetSize(right) - 1 /\ Len(a) = GetSize(n) + 1
  BY <1>1, <1>2, <1>3, <1>4, <1>7, <1>13
<1> QED
  BY <1>0, <1>8, <1>9, <1>10, <1>11, <1>14, <1>15

\* The sizes of two pages that are merged: one below the minimum, the other with
\* nothing to lend.
LEMMA MergedFits ==
  ASSUME NEW max \in Nat, NEW a \in Nat, NEW b \in Nat,
         \/ a < max \div 2 /\ b <= max \div 2
         \/ a <= max \div 2 /\ b < max \div 2
  PROVE  a + b < max
OBVIOUS

\* One of the two is below the minimum and the other has nothing to spare.
NeitherLends(left, right) ==
    \/ GetSize(left) < MinSize(left) /\ GetSize(right) <= MinSize(right)
    \/ GetSize(left) <= MinSize(left) /\ GetSize(right) < MinSize(right)

LeafMerged(m, left, right, E, P) ==
    /\ SoundLeaf(m, E, P)
    /\ m.entries = left.entries \o right.entries
    /\ m.next = right.next /\ m.parent = left.parent
    /\ GetSize(m) = GetSize(left) + GetSize(right)
    /\ GetSize(m) < GetMaxSize(m)

\* MoveAllTo between leaves, when one is below the minimum and the other has no
\* entry to spare: the left one has room for all, keeps the order, and takes over
\* the place of the right one in the chain.
THEOREM LeafMergeSound ==
  ASSUME NEW E, NEW P, HaveKeys(E), NEW left, NEW right, SoundLeaf(left, E, P),
         SoundLeaf(right, E, P), KeysApart(left.entries, right.entries), NEW down,
         NeitherLends(left, right)
  PROVE  LeafMerged(TakeAllOf(left, right, down), left, right, E, P)
<1>0. PICK s, t, m : /\ s = left.entries /\ t = right.entries
                     /\ m = TakeAllOf(left, right, down)
  OBVIOUS
<1>1. /\ s \in Seq(E) /\ InKeyOrder(s) /\ left.leaf = TRUE /\ left \in LeafPages(E, P)
      /\ GetSize(left) = Len(s) /\ GetMaxSize(left) = LeafMax
  BY <1>0, LeafFacts
<1>2. /\ t \in Seq(E) /\ InKeyOrder(t) /\ right.next \in P
      /\ GetSize(right) = Len(t) /\ GetMaxSize(right) = LeafMax
  BY <1>0, LeafFacts
<1>3. m = [left EXCEPT !.entries = s \o t, !.next = right.next]
  BY <1>0, <1>1, Zenon DEF TakeAllOf, NextAfterMerge
<1>4. PICK u : u = s \o t
  OBVIOUS
<1>5. u \in Seq(E) /\ Len(u) = Len(s) + Len(t)
  BY <1>1, <1>2, <1>4
<1>6. InKeyOrder(u)
  BY <1>0, <1>1, <1>2, <1>4, OrderOfConcat
<1>7. m \in LeafPages(E, P) /\ m.entries = u /\ m.next = right.next /\ m.parent = left.parent
  BY <1>1, <1>2, <1>3, <1>4, <1>5 DEF LeafPages
<1>8. m.leaf = TRUE
  BY <1>7 DEF LeafPages
<1>9. SoundLeaf(m, E, P) /\ GetSize(m) = Len(s) + Len(t) /\ GetMaxSize(m) = LeafMax
  BY <1>5, <1>6, <1>7, <1>8 DEF SoundLeaf, GetSize, GetMaxSize
<1>10. Len(s) + Len(t) < LeafMax
  <2>1. MinSize(left) = LeafMax \div 2 /\ MinSize(right) = LeafMax \div 2
    BY <1>1, <1>2 DEF MinSize
  <2>2. LeafMax \in Nat /\ Len(s) \in Nat /\ Len(t) \in Nat
    BY <1>1, <1>2, OrderAssumption DEF OrderAssumption
  <2> QED
    BY <1>1, <1>2, <2>1, <2>2, MergedFits DEF NeitherLends
<1> QED
  BY <1>0, <1>1, <1>2, <1>4, <1>7, <1>9, <1>10 DEF LeafMerged

-----------------------------------------------------------------------------
(***************************************************************************)
(* Internal pages cut in two and put together: the separator d comes from  *)
(* between the halves, or goes there.                                      *)
(***************************************************************************)
Joined(keys, children, lkeys, lchildren, d, rkeys, rchildren) ==
    /\ Len(lchildren) = Len(lkeys) + 1 /\ Len(rchildren) = Len(rkeys) + 1
    /\ Len(keys) = Len(lkeys) + 1 + Len(rkeys)
    /\ Len(children) = Len(lchildren) + Len(rchildren)
    /\ \A i \in 1 .. Len(lkeys) : keys[i] = lkeys[i]
    /\ keys[Len(lkeys) + 1] = d
    /\ \A i \in 1 .. Len(rkeys) : keys[Len(lkeys) + 1 + i] = rkeys[i]
    /\ \A i \in 1 .. Len(lchildren) : children[i] = lchildren[i]
    /\ \A i \in 1 .. Len(rchildren) : children[Len(lchildren) + i] = rchildren[i]

\* u is s followed by t.
Follows(u, s, t) ==
    /\ Len(u) = Len(s) + Len(t)
    /\ \A i \in 1 .. Len(s) : u[i] = s[i]
    /\ \A i \in 1 .. Len(t) : u[Len(s) + i] = t[i]

LEMMA ConcatFollows ==
  ASSUME NEW E, NEW s \in Seq(E), NEW t \in Seq(E)
  PROVE  s \o t \in Seq(E) /\ Follows(s \o t, s, t)
BY ConcatFacts DEF Follows

LEMMA KeysUnderFollows ==
  ASSUME NEW P, NEW under \in KeySets(P), NEW C \in Seq(P),
         NEW C1 \in Seq(P), NEW C2 \in Seq(P), Follows(C, C1, C2)
  PROVE  /\ KeysUnder(C, under) = KeysUnder(C1, under) \union KeysUnder(C2, under)
         /\ Peopled(C, under) <=> (Peopled(C1, under) /\ Peopled(C2, under))
<1>1. /\ Len(C) = Len(C1) + Len(C2) /\ Len(C1) \in Nat /\ Len(C2) \in Nat
      /\ \A i \in 1 .. Len(C1) : C[i] = C1[i]
      /\ \A i \in 1 .. Len(C2) : C[Len(C1) + i] = C2[i]
  BY DEF Follows
<1>2. ASSUME NEW i \in 1 .. Len(C)
      PROVE  \/ i \in 1 .. Len(C1) /\ C[i] = C1[i]
             \/ \E j \in 1 .. Len(C2) : C[i] = C2[j]
  <2>1. CASE i <= Len(C1)
    BY <1>1, <2>1
  <2>2. CASE i > Len(C1)
    <3>1. i - Len(C1) \in 1 .. Len(C2) /\ i = Len(C1) + (i - Len(C1))
      BY <1>1, <2>2
    <3> QED
      BY <1>1, <3>1
  <2> QED
    BY <1>1, <2>1, <2>2
<1>3. \A i \in 1 .. Len(C1) : i \in 1 .. Len(C) /\ C[i] = C1[i]
  BY <1>1
<1>4. \A i \in 1 .. Len(C2) : Len(C1) + i \in 1 .. Len(C) /\ C[Len(C1) + i] = C2[i]
  BY <1>1
<1>5. KeysUnder(C, under) = KeysUnder(C1, under) \union KeysUnder(C2, under)
  <2>1. ASSUME NEW k, k \in KeysUnder(C, under)
        PROVE  k \in KeysUnder(C1, under) \union KeysUnder(C2, under)
    <3>1. PICK i \in 1 .. Len(C) : k \in under[C[i]]
      BY <2>1 DEF KeysUnder
    <3>2. CASE i \in 1 .. Len(C1) /\ C[i] = C1[i]
      BY <3>1, <3>2 DEF KeysUnder
    <3>3. CASE \E j \in 1 .. Len(C2) : C[i] = C2[j]
      <4>1. PICK j \in 1 .. Len(C2) : C[i] = C2[j]
        BY <3>3
      <4>2. k \in under[C2[j]]
        BY <3>1, <4>1
      <4> QED
        BY <4>2 DEF KeysUnder
    <3> QED
      BY <1>2, <3>2, <3>3
  <2>2. ASSUME NEW k, k \in KeysUnder(C1, under) PROVE k \in KeysUnder(C, under)
    <3>1. PICK i \in 1 .. Len(C1) : k \in under[C1[i]]
      BY <2>2 DEF KeysUnder
    <3> QED
      BY <1>3, <3>1 DEF KeysUnder
  <2>3. ASSUME NEW k, k \in KeysUnder(C2, under) PROVE k \in KeysUnder(C, under)
    <3>1. PICK i \in 1 .. Len(C2) : k \in under[C2[i]]
      BY <2>3 DEF KeysUnder
    <3>2. Len(C1) + i \in 1 .. Len(C) /\ k \in under[C[Len(C1) + i]]
      BY <1>4, <3>1
    <3> QED
      BY <3>2 DEF KeysUnder
  <2> QED
    BY <2>1, <2>2, <2>3
<1>6. Peopled(C, under) => (Peopled(C1, under) /\ Peopled(C2, under))
  BY <1>3, <1>4 DEF Peopled
<1>7. (Peopled(C1, under) /\ Peopled(C2, under)) => Peopled(C, under)
  BY <1>2 DEF Peopled
<1> QED
  BY <1>5, <1>6, <1>7

LEMMA KeysUnderJoined ==
  ASSUME NEW P, NEW under \in KeySets(P),
         NEW K \in Seq(Int), NEW C \in Seq(P), NEW d,
         NEW K1 \in Seq(Int), NEW C1 \in Seq(P), NEW K2 \in Seq(Int), NEW C2 \in Seq(P),
         Joined(K, C, K1, C1, d, K2, C2)
  PROVE  /\ KeysUnder(C, under) = KeysUnder(C1, under) \union KeysUnder(C2, under)
         /\ Peopled(C, under) <=> (Peopled(C1, under) /\ Peopled(C2, under))
<1>1. Follows(C, C1, C2)
  BY DEF Joined, Follows
<1> QED
  BY ONLY <1>1, under \in KeySets(P), C \in Seq(P), C1 \in Seq(P), C2 \in Seq(P),
          KeysUnderFollows, Zenon

\* The keys under a page with a child that has some.
LEMMA PeopledHasKeys ==
  ASSUME NEW P, NEW under \in KeySets(P), NEW C \in Seq(P), Len(C) >= 1, Peopled(C, under)
  PROVE  KeysUnder(C, under) # {} /\ KeysUnder(C, under) \subseteq Int
<1>1. 1 \in 1 .. Len(C) /\ \A i \in 1 .. Len(C) : C[i] \in P
  OBVIOUS
<1>2. under[C[1]] # {} /\ \A i \in 1 .. Len(C) : under[C[i]] \subseteq Int
  BY <1>1 DEF Peopled, KeySets
<1> QED
  BY <1>1, <1>2 DEF KeysUnder

LEMMA CutParted ==
  ASSUME NEW P, NEW under \in KeySets(P),
         NEW K \in Seq(Int), NEW C \in Seq(P), NEW d \in Int,
         NEW K1 \in Seq(Int), NEW C1 \in Seq(P), NEW K2 \in Seq(Int), NEW C2 \in Seq(P),
         Joined(K, C, K1, C1, d, K2, C2), Parted(K, C, under)
  PROVE  /\ Parted(K1, C1, under) /\ Parted(K2, C2, under)
         /\ \A k \in KeysUnder(C1, under) : k < d
         /\ \A k \in KeysUnder(C2, under) : d <= k
<1>1. /\ Len(C1) = Len(K1) + 1 /\ Len(C2) = Len(K2) + 1
      /\ Len(K) = Len(K1) + 1 + Len(K2) /\ Len(C) = Len(C1) + Len(C2)
      /\ Len(K1) \in Nat /\ Len(K2) \in Nat
  BY DEF Joined
<1>2. /\ \A i \in 1 .. Len(K1) : i \in 1 .. Len(K) /\ K[i] = K1[i]
      /\ \A i \in 1 .. Len(C1) : i \in 1 .. Len(C) /\ C[i] = C1[i]
  <2>1. /\ \A i \in 1 .. Len(K1) : K[i] = K1[i]
        /\ \A i \in 1 .. Len(C1) : C[i] = C1[i]
    BY DEF Joined
  <2>2. \A i \in 1 .. Len(K1) : i \in 1 .. Len(K)
    BY <1>1
  <2>3. \A i \in 1 .. Len(C1) : i \in 1 .. Len(C)
    BY <1>1
  <2> QED
    BY <2>1, <2>2, <2>3
<1>3. /\ \A i \in 1 .. Len(K2) : Len(C1) + i \in 1 .. Len(K) /\ K[Len(C1) + i] = K2[i]
      /\ \A i \in 1 .. Len(C2) : Len(C1) + i \in 1 .. Len(C) /\ C[Len(C1) + i] = C2[i]
  <2>1. /\ \A i \in 1 .. Len(K2) : K[Len(K1) + 1 + i] = K2[i]
        /\ \A i \in 1 .. Len(C2) : C[Len(C1) + i] = C2[i]
    BY DEF Joined
  <2>2. \A i \in 1 .. Len(K2) : Len(C1) + i \in 1 .. Len(K)
    BY <1>1
  <2>3. \A i \in 1 .. Len(C2) : Len(C1) + i \in 1 .. Len(C)
    BY <1>1
  <2> QED
    BY <1>1, <2>1, <2>2, <2>3
<1>4. Len(C1) \in 1 .. Len(K) /\ K[Len(C1)] = d
  BY <1>1 DEF Joined
<1>5. /\ \A i \in 1 .. Len(K) : K[i] \in Int
      /\ \A i, j \in 1 .. Len(K) : i < j => K[i] < K[j]
      /\ \A i, j \in 1 .. Len(C) : C[i] = C[j] => i = j
      /\ \A i \in 1 .. Len(C) : under[C[i]] \subseteq Int
      /\ \A i \in 2 .. Len(C) : \A k \in under[C[i]] : K[i - 1] <= k
      /\ \A i \in 1 .. Len(K) : \A k \in under[C[i]] : k < K[i]
  <2>1. /\ \A i \in 1 .. Len(K) : K[i] \in Int
        /\ \A i, j \in 1 .. Len(K) : i < j => K[i] < K[j]
        /\ \A i \in 2 .. Len(C) : \A k \in under[C[i]] : K[i - 1] <= k
        /\ \A i \in 1 .. Len(K) : \A k \in under[C[i]] : k < K[i]
    BY PartedFacts
  <2>2. \A i, j \in 1 .. Len(C) : C[i] = C[j] => i = j
    BY DEF Parted
  <2>3. \A i \in 1 .. Len(C) : under[C[i]] \subseteq Int
    BY DEF KeySets
  <2> QED
    BY <2>1, <2>2, <2>3
<1>6. Parted(K1, C1, under)
  <2>1. Rising(K1)
    BY <1>2, <1>5 DEF Rising
  <2>2. \A i, j \in 1 .. Len(C1) : C1[i] = C1[j] => i = j
    BY <1>2, <1>5
  <2>3. ASSUME NEW i \in 1 .. Len(C1) PROVE Bounds(K1, i, under[C1[i]])
    <3>1. ASSUME i > 1, NEW k \in under[C1[i]] PROVE K1[i - 1] <= k
      <4>1. i \in 2 .. Len(C) /\ i - 1 \in 1 .. Len(K1)
        BY <1>1, <1>2, <3>1
      <4> QED
        BY <1>2, <1>5, <4>1
    <3>2. ASSUME i <= Len(K1), NEW k \in under[C1[i]] PROVE k < K1[i]
      <4>1. i \in 1 .. Len(K1) /\ i \in 1 .. Len(K)
        BY <1>1, <3>2
      <4> QED
        BY <1>2, <1>5, <4>1
    <3> QED
      BY <3>1, <3>2 DEF Bounds
  <2> QED
    BY <1>1, <2>1, <2>2, <2>3 DEF Parted
<1>7. Parted(K2, C2, under)
  <2>1. ASSUME NEW i \in 1 .. Len(K2), NEW j \in 1 .. Len(K2), i < j PROVE K2[i] < K2[j]
    <3>1. Len(C1) + i < Len(C1) + j
      BY <1>1, <2>1
    <3> QED
      BY <1>3, <1>5, <3>1
  <2>2. ASSUME NEW i \in 1 .. Len(C2), NEW j \in 1 .. Len(C2), C2[i] = C2[j] PROVE i = j
    <3>1. Len(C1) + i = Len(C1) + j
      BY <1>3, <1>5, <2>2
    <3> QED
      BY <1>1, <3>1
  <2>3. ASSUME NEW i \in 1 .. Len(C2) PROVE Bounds(K2, i, under[C2[i]])
    <3>0. Len(C1) + i \in 2 .. Len(C) /\ C[Len(C1) + i] = C2[i]
      BY <1>1, <1>3
    <3>1. ASSUME i > 1, NEW k \in under[C2[i]] PROVE K2[i - 1] <= k
      <4>1. i - 1 \in 1 .. Len(K2) /\ (Len(C1) + i) - 1 = Len(C1) + (i - 1)
        BY <1>1, <3>1
      <4>2. K[(Len(C1) + i) - 1] <= k
        BY <1>5, <3>0
      <4> QED
        BY <1>3, <4>1, <4>2
    <3>2. ASSUME i <= Len(K2), NEW k \in under[C2[i]] PROVE k < K2[i]
      <4>1. i \in 1 .. Len(K2) /\ Len(C1) + i \in 1 .. Len(K)
        BY <1>1, <3>2
      <4>2. k < K[Len(C1) + i]
        BY <1>5, <3>0, <4>1
      <4> QED
        BY <1>3, <4>1, <4>2
    <3> QED
      BY <3>1, <3>2 DEF Bounds
  <2>4. Rising(K2)
    BY <2>1 DEF Rising
  <2> QED
    BY <1>1, <2>2, <2>3, <2>4 DEF Parted
<1>8. ASSUME NEW k \in KeysUnder(C1, under) PROVE k < d
  <2>1. PICK i \in 1 .. Len(C1) : k \in under[C1[i]]
    BY DEF KeysUnder
  <2>2. i \in 1 .. Len(K) /\ i \in 1 .. Len(C) /\ C[i] = C1[i]
    BY <1>1, <1>2
  <2>3. k < K[i] /\ k \in Int /\ K[i] \in Int
    BY <1>5, <2>1, <2>2
  <2>4. K[i] <= d
    <3>1. CASE i = Len(C1)
      BY <1>4, <3>1
    <3>2. CASE i < Len(C1)
      <4>1. K[i] < K[Len(C1)]
        BY <1>4, <1>5, <2>2, <3>2
      <4> QED
        BY <1>4, <2>3, <4>1
    <3> QED
      BY <1>1, <3>1, <3>2
  <2> QED
    BY <2>3, <2>4
<1>9. ASSUME NEW k \in KeysUnder(C2, under) PROVE d <= k
  <2>1. PICK i \in 1 .. Len(C2) : k \in under[C2[i]]
    BY DEF KeysUnder
  <2>2. PICK j : j = Len(C1) + i
    OBVIOUS
  <2>3. j \in 2 .. Len(C) /\ j \in 1 .. Len(C) /\ C[j] = C2[i] /\ j - 1 \in 1 .. Len(K)
    BY <1>1, <1>3, <2>2, SMTT(30)
  <2>4. K[j - 1] <= k /\ k \in Int /\ K[j - 1] \in Int
    BY <1>5, <2>1, <2>3
  <2>5. d <= K[j - 1]
    <3>1. CASE j - 1 = Len(C1)
      BY <1>4, <3>1
    <3>2. CASE Len(C1) < j - 1
      <4>1. K[Len(C1)] < K[j - 1]
        BY <1>4, <1>5, <2>3, <3>2
      <4> QED
        BY <1>4, <2>4, <4>1
    <3> QED
      BY <1>1, <2>2, <3>1, <3>2
  <2> QED
    BY <2>4, <2>5
<1> QED
  BY <1>6, <1>7, <1>8, <1>9

LEMMA JoinParted ==
  ASSUME NEW P, NEW under \in KeySets(P),
         NEW K \in Seq(Int), NEW C \in Seq(P), NEW d,
         NEW K1 \in Seq(Int), NEW C1 \in Seq(P), NEW K2 \in Seq(Int), NEW C2 \in Seq(P),
         Joined(K, C, K1, C1, d, K2, C2),
         Parted(K1, C1, under), Parted(K2, C2, under),
         Peopled(C1, under), Peopled(C2, under),
         Separates(d, KeysUnder(C1, under), KeysUnder(C2, under))
  PROVE  Parted(K, C, under)
<1>1. /\ Len(C1) = Len(K1) + 1 /\ Len(C2) = Len(K2) + 1
      /\ Len(K) = Len(K1) + 1 + Len(K2) /\ Len(C) = Len(C1) + Len(C2)
      /\ Len(K1) \in Nat /\ Len(K2) \in Nat
  BY DEF Joined
<1>2. /\ \A i \in 1 .. Len(K1) : K[i] = K1[i]
      /\ \A i \in 1 .. Len(C1) : C[i] = C1[i]
      /\ K[Len(C1)] = d
  BY <1>1 DEF Joined
<1>3. /\ \A i \in 1 .. Len(K2) : K[Len(C1) + i] = K2[i]
      /\ \A i \in 1 .. Len(C2) : C[Len(C1) + i] = C2[i]
  BY <1>1 DEF Joined
<1>4. /\ \A i \in 2 .. Len(C1) : \A k \in under[C1[i]] : K1[i - 1] <= k
      /\ \A i \in 1 .. Len(K1) : \A k \in under[C1[i]] : k < K1[i]
  BY PartedFacts
<1>5. /\ \A i \in 2 .. Len(C2) : \A k \in under[C2[i]] : K2[i - 1] <= k
      /\ \A i \in 1 .. Len(K2) : \A k \in under[C2[i]] : k < K2[i]
  BY PartedFacts
<1>6. /\ \A i \in 1 .. Len(C1) : \A k \in under[C1[i]] : k < d
      /\ \A i \in 1 .. Len(C2) : \A k \in under[C2[i]] : d <= k
  BY DEF Separates, KeysUnder
<1>7. ASSUME NEW i \in 1 .. Len(C) PROVE Bounds(K, i, under[C[i]])
  <2>1. CASE i <= Len(C1)
    <3>0. i \in 1 .. Len(C1) /\ C[i] = C1[i]
      BY <1>1, <1>2, <2>1
    <3>1. ASSUME i > 1, NEW k \in under[C[i]] PROVE K[i - 1] <= k
      <4>1. i \in 2 .. Len(C1) /\ i - 1 \in 1 .. Len(K1)
        BY <1>1, <2>1, <3>1
      <4> QED
        BY <1>2, <1>4, <3>0, <3>1, <4>1
    <3>2. ASSUME NEW k \in under[C[i]] PROVE k < K[i]
      <4>1. CASE i \in 1 .. Len(K1)
        BY <1>2, <1>4, <3>0, <3>2, <4>1
      <4>2. CASE i = Len(C1)
        BY <1>2, <1>6, <3>0, <3>2, <4>2
      <4> QED
        BY <1>1, <3>0, <4>1, <4>2
    <3> QED
      BY <3>1, <3>2 DEF Bounds
  <2>2. CASE i > Len(C1)
    <3>0. PICK j \in 1 .. Len(C2) : i = Len(C1) + j
      <4>1. i - Len(C1) \in 1 .. Len(C2) /\ i = Len(C1) + (i - Len(C1))
        BY <1>1, <2>2
      <4> QED
        BY <4>1
    <3>1. C[i] = C2[j]
      BY <1>3, <3>0
    <3>2. ASSUME NEW k \in under[C[i]] PROVE K[i - 1] <= k
      <4>1. CASE j = 1
        <5>1. i - 1 = Len(C1)
          BY <1>1, <3>0, <4>1
        <5> QED
          BY <1>2, <1>6, <3>1, <3>2, <5>1
      <4>2. CASE j > 1
        <5>1. /\ j \in 2 .. Len(C2) /\ j - 1 \in 1 .. Len(K2)
              /\ i - 1 = Len(C1) + (j - 1)
          BY <1>1, <3>0, <4>2
        <5> QED
          BY <1>3, <1>5, <3>1, <3>2, <5>1
      <4> QED
        BY <4>1, <4>2
    <3>3. ASSUME i <= Len(K), NEW k \in under[C[i]] PROVE k < K[i]
      <4>1. j \in 1 .. Len(K2)
        BY <1>1, <3>0, <3>3
      <4> QED
        BY <1>3, <1>5, <3>0, <3>1, <3>3, <4>1
    <3> QED
      BY <3>2, <3>3 DEF Bounds
  <2> QED
    BY <1>1, <2>1, <2>2
<1>8. Peopled(C, under)
  BY KeysUnderJoined
<1>9. Len(C) = Len(K) + 1
  BY <1>1
<1> QED
  BY <1>7, <1>8, <1>9, PartedIf

\* A sound page made of the sound page n with other keys and children.
WithChildren(n, keys, children) == [n EXCEPT !.keys = keys, !.children = children]

InternalGot(m, n, keys, children, under, P) ==
    /\ SoundInternal(m, under, P)
    /\ m.keys = keys /\ m.children = children /\ m.parent = n.parent
    /\ GetSize(m) = Len(children)

LEMMA InternalFacts ==
  ASSUME NEW P, NEW under, NEW n, SoundInternal(n, under, P)
  PROVE  /\ n \in InternalPages(P) /\ n.leaf = FALSE
         /\ n.keys \in Seq(Int) /\ n.children \in Seq(P)
         /\ Parted(n.keys, n.children, under) /\ Len(n.children) = Len(n.keys) + 1
         /\ GetSize(n) = Len(n.children) /\ GetMaxSize(n) = InternalMax
         /\ MinSize(n) = InternalMax \div 2
BY DEF SoundInternal, InternalPages, Parted, GetSize, GetMaxSize, MinSize

LEMMA InternalWith ==
  ASSUME NEW P, NEW under, NEW n \in InternalPages(P),
         NEW K \in Seq(Int), NEW C \in Seq(P), Parted(K, C, under)
  PROVE  InternalGot(WithChildren(n, K, C), n, K, C, under, P)
<1>0. PICK m : m = WithChildren(n, K, C)
  OBVIOUS
<1>1. /\ m \in InternalPages(P) /\ m.leaf = FALSE
      /\ m.keys = K /\ m.children = C /\ m.parent = n.parent
  BY <1>0 DEF WithChildren, InternalPages
<1> QED
  BY <1>0, <1>1 DEF InternalGot, SoundInternal, GetSize

\* Everything left of the separator m, and everything right of it.
CutAt(keys, children, m, P) ==
    LET lkeys == SubSeq(keys, 1, m - 1)
        rkeys == SubSeq(keys, m + 1, Len(keys))
        lchildren == SubSeq(children, 1, m)
        rchildren == SubSeq(children, m + 1, Len(children))
    IN  /\ lkeys \in Seq(Int) /\ rkeys \in Seq(Int)
        /\ lchildren \in Seq(P) /\ rchildren \in Seq(P)
        /\ Len(lchildren) = m /\ Len(rchildren) = Len(children) - m
        /\ lchildren \o rchildren = children
        /\ Joined(keys, children, lkeys, lchildren, keys[m], rkeys, rchildren)

LEMMA CutAtSeparator ==
  ASSUME NEW P, NEW K \in Seq(Int), NEW C \in Seq(P), Len(C) = Len(K) + 1,
         NEW m \in 1 .. Len(K)
  PROVE  CutAt(K, C, m, P)
<1>h. PICK h : h = m - 1
  OBVIOUS
<1>0. PICK K1, K2, C1, C2 :
           /\ K1 = SubSeq(K, 1, h) /\ K2 = SubSeq(K, m + 1, Len(K))
           /\ C1 = SubSeq(C, 1, m) /\ C2 = SubSeq(C, m + 1, Len(C))
  OBVIOUS
<1>1. /\ Len(K) \in Nat /\ h \in 0 .. Len(K) /\ m \in 0 .. Len(K)
      /\ m \in 0 .. Len(C) /\ h \in Nat /\ Len(C) \in Nat
  BY <1>h
<1>2. /\ K1 \in Seq(Int) /\ Len(K1) = h
      /\ K2 \in Seq(Int) /\ Len(K2) = Len(K) - m
  BY <1>0, <1>1, CutSeq
<1>3. /\ C1 \in Seq(P) /\ Len(C1) = m
      /\ C2 \in Seq(P) /\ Len(C2) = Len(C) - m /\ C1 \o C2 = C
  BY <1>0, <1>1, CutSeq
<1>4. \A i \in 1 .. h : K1[i] = K[i]
  BY <1>0, <1>1
<1>5. \A i \in 1 .. Len(K) - m : K2[i] = K[m + i]
  BY <1>0, <1>1
<1>6. \A i \in 1 .. m : C1[i] = C[i]
  BY <1>0, <1>1
<1>7. \A i \in 1 .. Len(C) - m : C2[i] = C[m + i]
  BY <1>0, <1>1
<1>8. Joined(K, C, K1, C1, K[m], K2, C2)
  <2>1. h + 1 = m /\ Len(K) = h + 1 + (Len(K) - m) /\ Len(C) = m + (Len(C) - m)
    BY <1>h, <1>1
  <2>2. Len(C1) = Len(K1) + 1 /\ Len(C2) = Len(K2) + 1
    BY <1>h, <1>1, <1>2, <1>3
  <2>3. Len(K) = Len(K1) + 1 + Len(K2) /\ Len(C) = Len(C1) + Len(C2)
    BY <1>h, <1>1, <1>2, <1>3
  <2>4. Len(K1) + 1 = m
    BY <1>h, <1>1, <1>2
  <2> QED
    BY <1>2, <1>3, <1>4, <1>5, <1>6, <1>7, <2>2, <2>3, <2>4 DEF Joined
<1> QED
  BY <1>h, <1>0, <1>2, <1>3, <1>8, Zenon DEF CutAt

\* What a page cut at a separator becomes.
LEMMA CutSound ==
  ASSUME NEW P, NEW under \in KeySets(P),
         NEW K \in Seq(Int), NEW C \in Seq(P), NEW d \in Int,
         NEW K1 \in Seq(Int), NEW C1 \in Seq(P), NEW K2 \in Seq(Int), NEW C2 \in Seq(P),
         Joined(K, C, K1, C1, d, K2, C2), Parted(K, C, under), Peopled(C, under)
  PROVE  /\ Parted(K1, C1, under) /\ Parted(K2, C2, under)
         /\ Peopled(C1, under) /\ Peopled(C2, under)
         /\ Separates(d, KeysUnder(C1, under), KeysUnder(C2, under))
<1>1. /\ Parted(K1, C1, under) /\ Parted(K2, C2, under)
      /\ \A k \in KeysUnder(C1, under) : k < d
      /\ \A k \in KeysUnder(C2, under) : d <= k
  BY CutParted
<1>2. Peopled(C1, under) /\ Peopled(C2, under)
  BY KeysUnderJoined
<1>3. Len(C1) >= 1 /\ Len(C2) >= 1
  BY DEF Joined
<1>4. KeysUnder(C1, under) # {} /\ KeysUnder(C2, under) # {}
  BY <1>2, <1>3, PeopledHasKeys
<1> QED
  BY <1>1, <1>2, <1>4 DEF Separates

\* What is left of a full internal page and what moves out of it.
InternalHalves(n, stay, move, under, P) ==
    /\ SoundInternal(stay, under, P) /\ SoundInternal(move, under, P)
    /\ Peopled(stay.children, under) /\ Peopled(move.children, under)
    /\ stay.children \o move.children = n.children
    /\ Separates(SplitKey(n), KeysUnder(stay.children, under), KeysUnder(move.children, under))
    /\ GetSize(stay) \in MinSize(n) .. GetMaxSize(n)
    /\ GetSize(move) \in MinSize(n) .. GetMaxSize(n)
    /\ stay.parent = n.parent /\ move.parent = n.parent

\* MoveHalfTo on an internal page with one child too many: both halves are sound
\* and between half full and full, no child is lost or doubled, and the key that
\* goes up, and stays in neither, separates what is beneath them.
THEOREM InternalSplitSound ==
  ASSUME NEW P, NEW under \in KeySets(P), NEW n, SoundInternal(n, under, P),
         Peopled(n.children, under), GetSize(n) = GetMaxSize(n) + 1
  PROVE  InternalHalves(n, StayingHalf(n), MovingHalf(n), under, P)
<1>0. PICK K, C : K = n.keys /\ C = n.children
  OBVIOUS
<1>1. /\ n \in InternalPages(P) /\ n.leaf = FALSE /\ K \in Seq(Int) /\ C \in Seq(P)
      /\ Parted(K, C, under) /\ Len(C) = Len(K) + 1
      /\ GetSize(n) = Len(C) /\ GetMaxSize(n) = InternalMax /\ MinSize(n) = InternalMax \div 2
  BY <1>0, InternalFacts
<1>2. PICK m, h : m = StayOf(Len(C)) /\ h = m - 1
  OBVIOUS
<1>3. /\ Len(C) = InternalMax + 1 /\ InternalMax \in Nat
      /\ m \in 1 .. InternalMax /\ m >= InternalMax \div 2
      /\ Len(C) - m \in 1 .. InternalMax /\ Len(C) - m >= InternalMax \div 2
  <2>1. InternalMax \in Nat /\ InternalMax >= 2
    BY OrderAssumption DEF OrderAssumption
  <2>2. /\ StayOf(InternalMax + 1) \in 1 .. InternalMax
        /\ StayOf(InternalMax + 1) >= InternalMax \div 2
        /\ InternalMax + 1 - StayOf(InternalMax + 1) \in 1 .. InternalMax
        /\ InternalMax + 1 - StayOf(InternalMax + 1) >= InternalMax \div 2
    BY <2>1, Halves
  <2>3. Len(C) = InternalMax + 1
    BY <1>1
  <2> QED
    BY <1>2, <2>1, <2>2, <2>3
<1>4. m \in 1 .. Len(K) /\ K[m] \in Int
  <2>1. Len(K) = InternalMax
    BY <1>1, <1>3
  <2> QED
    BY <1>1, <1>3, <2>1
<1>5. PICK K1, K2, C1, C2 :
           /\ K1 = SubSeq(K, 1, h) /\ K2 = SubSeq(K, m + 1, Len(K))
           /\ C1 = SubSeq(C, 1, m) /\ C2 = SubSeq(C, m + 1, Len(C))
  OBVIOUS
<1>6. /\ K1 \in Seq(Int) /\ K2 \in Seq(Int) /\ C1 \in Seq(P) /\ C2 \in Seq(P)
      /\ Len(C1) = m /\ Len(C2) = Len(C) - m /\ C1 \o C2 = C
      /\ Joined(K, C, K1, C1, K[m], K2, C2)
  <2>1. CutAt(K, C, m, P)
    BY <1>1, <1>4, CutAtSeparator
  <2> QED
    BY <1>2, <1>5, <2>1, Zenon DEF CutAt
<1>7. /\ Parted(K1, C1, under) /\ Parted(K2, C2, under)
      /\ Peopled(C1, under) /\ Peopled(C2, under)
      /\ Separates(K[m], KeysUnder(C1, under), KeysUnder(C2, under))
  <2>1. Peopled(C, under)
    BY <1>0
  <2> QED
    BY <1>1, <1>4, <1>6, <2>1, CutSound
<1>8. StayingHalf(n) = WithChildren(n, K1, C1) /\ MovingHalf(n) = WithChildren(n, K2, C2)
  BY <1>0, <1>1, <1>2, <1>5, Zenon DEF StayingHalf, MovingHalf, WithChildren
<1>9. SplitKey(n) = K[m]
  BY <1>0, <1>1, <1>2 DEF SplitKey
<1>10. PICK x, y : x = WithChildren(n, K1, C1) /\ y = WithChildren(n, K2, C2)
  OBVIOUS
<1>11. InternalGot(x, n, K1, C1, under, P) /\ InternalGot(y, n, K2, C2, under, P)
  BY <1>1, <1>6, <1>7, <1>10, InternalWith
<1>12. /\ SoundInternal(x, under, P) /\ x.children = C1 /\ x.parent = n.parent /\ GetSize(x) = m
       /\ SoundInternal(y, under, P) /\ y.children = C2 /\ y.parent = n.parent
       /\ GetSize(y) = Len(C) - m
  BY <1>6, <1>11 DEF InternalGot
<1>13. m \in MinSize(n) .. GetMaxSize(n) /\ Len(C) - m \in MinSize(n) .. GetMaxSize(n)
  BY <1>1, <1>3
<1>14. InternalHalves(n, x, y, under, P)
  BY <1>0, <1>6, <1>7, <1>9, <1>12, <1>13, Zenon DEF InternalHalves
<1> QED
  BY <1>8, <1>10, <1>14

\* Two neighbours and the key d between them, seen as one page.
LEMMA JoinOf ==
  ASSUME NEW P, NEW d \in Int,
         NEW K1 \in Seq(Int), NEW C1 \in Seq(P), NEW K2 \in Seq(Int), NEW C2 \in Seq(P),
         Len(C1) = Len(K1) + 1, Len(C2) = Len(K2) + 1
  PROVE  /\ Append(K1, d) \o K2 \in Seq(Int) /\ C1 \o C2 \in Seq(P)
         /\ Joined(Append(K1, d) \o K2, C1 \o C2, K1, C1, d, K2, C2)
<1>0. PICK K, C, H : H = Append(K1, d) /\ K = H \o K2 /\ C = C1 \o C2
  OBVIOUS
<1>1. /\ H \in Seq(Int) /\ Len(H) = Len(K1) + 1 /\ H[Len(K1) + 1] = d
      /\ \A i \in 1 .. Len(K1) : H[i] = K1[i]
      /\ Len(K1) \in Nat /\ Len(K2) \in Nat
  BY <1>0
<1>2. /\ K \in Seq(Int) /\ Len(K) = Len(H) + Len(K2)
      /\ \A i \in 1 .. Len(H) : K[i] = H[i]
      /\ \A i \in 1 .. Len(K2) : K[Len(H) + i] = K2[i]
  <2>1. K \in Seq(Int) /\ Follows(K, H, K2)
    BY <1>0, <1>1, ConcatFollows
  <2> QED
    BY <2>1 DEF Follows
<1>3. /\ C \in Seq(P) /\ Len(C) = Len(C1) + Len(C2)
      /\ \A i \in 1 .. Len(C1) : C[i] = C1[i]
      /\ \A i \in 1 .. Len(C2) : C[Len(C1) + i] = C2[i]
  <2>1. C \in Seq(P) /\ Follows(C, C1, C2)
    BY <1>0, ConcatFollows
  <2> QED
    BY <2>1 DEF Follows
<1>4. /\ Len(K) = Len(K1) + 1 + Len(K2) /\ K[Len(K1) + 1] = d
      /\ \A i \in 1 .. Len(K1) : K[i] = K1[i]
      /\ \A i \in 1 .. Len(K2) : K[Len(K1) + 1 + i] = K2[i]
  BY <1>1, <1>2
<1>5. Joined(K, C, K1, C1, d, K2, C2)
  BY <1>3, <1>4 DEF Joined
<1> QED
  BY <1>0, <1>2, <1>3, <1>5

\* s is t with e behind it; s is t with e before it.
EndsWith(s, t, e) ==
    /\ Len(s) = Len(t) + 1 /\ s[Len(t) + 1] = e
    /\ \A i \in 1 .. Len(t) : s[i] = t[i]

StartsWith(s, e, t) ==
    /\ Len(s) = Len(t) + 1 /\ s[1] = e
    /\ \A i \in 1 .. Len(t) : s[i + 1] = t[i]

\* The last child of the left neighbour goes over, d comes down with it.
LEMMA RotateRight ==
  ASSUME NEW P, NEW d \in Int, NEW K \in Seq(Int), NEW C \in Seq(P),
         NEW K1 \in Seq(Int), NEW C1 \in Seq(P), NEW K2 \in Seq(Int), NEW C2 \in Seq(P),
         Joined(K, C, K1, C1, d, K2, C2), Len(K1) >= 1,
         NEW F \in Seq(Int), NEW G \in Seq(P), NEW x, NEW c,
         EndsWith(K1, F, x), EndsWith(C1, G, c),
         NEW L \in Seq(Int), NEW M \in Seq(P), StartsWith(L, d, K2), StartsWith(M, c, C2)
  PROVE  Joined(K, C, F, G, x, L, M)
<1>1. /\ Len(C1) = Len(K1) + 1 /\ Len(C2) = Len(K2) + 1
      /\ Len(K) = Len(K1) + 1 + Len(K2) /\ Len(C) = Len(C1) + Len(C2)
      /\ Len(K1) \in Nat /\ Len(K2) \in Nat
      /\ Len(F) = Len(K1) - 1 /\ Len(G) = Len(C1) - 1
  <2>1. /\ Len(C1) = Len(K1) + 1 /\ Len(C2) = Len(K2) + 1
        /\ Len(K) = Len(K1) + 1 + Len(K2) /\ Len(C) = Len(C1) + Len(C2)
    BY DEF Joined
  <2>2. Len(F) = Len(K1) - 1 /\ Len(G) = Len(C1) - 1
    BY DEF EndsWith
  <2> QED
    BY <2>1, <2>2
<1>2. /\ Len(L) = Len(K2) + 1 /\ L[1] = d
      /\ \A i \in 1 .. Len(K2) : L[i + 1] = K2[i]
  BY DEF StartsWith
<1>3. /\ Len(M) = Len(C2) + 1 /\ M[1] = c
      /\ \A i \in 1 .. Len(C2) : M[i + 1] = C2[i]
  BY DEF StartsWith
<1>4. K1[Len(K1)] = x /\ \A i \in 1 .. Len(F) : K1[i] = F[i]
  BY <1>1 DEF EndsWith
<1>5. C1[Len(C1)] = c /\ \A i \in 1 .. Len(G) : C1[i] = G[i]
  BY <1>1 DEF EndsWith
<1>6. /\ \A i \in 1 .. Len(K1) : K[i] = K1[i]
      /\ K[Len(K1) + 1] = d
      /\ \A i \in 1 .. Len(K2) : K[Len(K1) + 1 + i] = K2[i]
  BY DEF Joined
<1>7. /\ \A i \in 1 .. Len(C1) : C[i] = C1[i]
      /\ \A i \in 1 .. Len(C2) : C[Len(C1) + i] = C2[i]
  BY DEF Joined
<1>8. /\ Len(G) = Len(F) + 1 /\ Len(M) = Len(L) + 1
      /\ Len(K) = Len(F) + 1 + Len(L) /\ Len(C) = Len(G) + Len(M)
      /\ Len(F) + 1 = Len(K1) /\ Len(G) + 1 = Len(C1)
  BY <1>1, <1>2, <1>3
<1>9. \A i \in 1 .. Len(F) : K[i] = F[i]
  <2>1. \A i \in 1 .. Len(F) : i \in 1 .. Len(K1)
    BY <1>1
  <2> QED
    BY <1>4, <1>6, <2>1
<1>10. K[Len(F) + 1] = x
  <2>1. Len(K1) \in 1 .. Len(K1)
    BY <1>1
  <2> QED
    BY <1>4, <1>6, <1>8, <2>1
<1>11. ASSUME NEW i \in 1 .. Len(L) PROVE K[Len(F) + 1 + i] = L[i]
  <2>1. CASE i = 1
    <3>1. Len(F) + 1 + i = Len(K1) + 1
      BY <1>8, <2>1
    <3> QED
      BY <1>2, <1>6, <2>1, <3>1
  <2>2. CASE i > 1
    <3>1. /\ (i - 1) + 1 = i /\ i - 1 \in 1 .. Len(K2)
          /\ Len(F) + 1 + i = Len(K1) + 1 + (i - 1)
      BY <1>1, <1>2, <1>8, <2>2
    <3> QED
      BY <1>2, <1>6, <3>1
  <2> QED
    BY <2>1, <2>2
<1>12. ASSUME NEW i \in 1 .. Len(G) PROVE C[i] = G[i]
  <2>1. i \in 1 .. Len(C1)
    BY <1>1
  <2> QED
    BY <1>5, <1>7, <2>1
<1>13. ASSUME NEW i \in 1 .. Len(M) PROVE C[Len(G) + i] = M[i]
  <2>1. CASE i = 1
    <3>1. Len(G) + i = Len(C1) /\ Len(C1) \in 1 .. Len(C1)
      BY <1>1, <1>8, <2>1
    <3> QED
      BY <1>3, <1>5, <1>7, <2>1, <3>1
  <2>2. CASE i > 1
    <3>1. /\ (i - 1) + 1 = i /\ i - 1 \in 1 .. Len(C2)
          /\ Len(G) + i = Len(C1) + (i - 1)
      BY <1>1, <1>3, <1>8, <2>2
    <3> QED
      BY <1>3, <1>7, <3>1
  <2> QED
    BY <2>1, <2>2
<1> QED
  BY <1>8, <1>9, <1>10, <1>11, <1>12, <1>13 DEF Joined

\* The first child of the right neighbour goes over, d comes down with it.
LEMMA RotateLeft ==
  ASSUME NEW P, NEW d \in Int, NEW K \in Seq(Int), NEW C \in Seq(P),
         NEW K1 \in Seq(Int), NEW C1 \in Seq(P), NEW K2 \in Seq(Int), NEW C2 \in Seq(P),
         Joined(K, C, K1, C1, d, K2, C2), Len(K2) >= 1,
         NEW F \in Seq(Int), NEW G \in Seq(P), NEW x, NEW c,
         StartsWith(K2, x, F), StartsWith(C2, c, G),
         NEW L \in Seq(Int), NEW M \in Seq(P), EndsWith(L, K1, d), EndsWith(M, C1, c)
  PROVE  Joined(K, C, L, M, x, F, G)
<1>1. /\ Len(C1) = Len(K1) + 1 /\ Len(C2) = Len(K2) + 1
      /\ Len(K) = Len(K1) + 1 + Len(K2) /\ Len(C) = Len(C1) + Len(C2)
      /\ Len(K1) \in Nat /\ Len(K2) \in Nat
      /\ Len(F) = Len(K2) - 1 /\ Len(G) = Len(C2) - 1
  <2>1. /\ Len(C1) = Len(K1) + 1 /\ Len(C2) = Len(K2) + 1
        /\ Len(K) = Len(K1) + 1 + Len(K2) /\ Len(C) = Len(C1) + Len(C2)
    BY DEF Joined
  <2>2. Len(F) = Len(K2) - 1 /\ Len(G) = Len(C2) - 1
    BY DEF StartsWith
  <2> QED
    BY <2>1, <2>2
<1>2. /\ Len(L) = Len(K1) + 1 /\ L[Len(K1) + 1] = d
      /\ \A i \in 1 .. Len(K1) : L[i] = K1[i]
  BY DEF EndsWith
<1>3. /\ Len(M) = Len(C1) + 1 /\ M[Len(C1) + 1] = c
      /\ \A i \in 1 .. Len(C1) : M[i] = C1[i]
  BY DEF EndsWith
<1>4. K2[1] = x /\ \A i \in 1 .. Len(F) : K2[i + 1] = F[i]
  BY <1>1 DEF StartsWith
<1>5. C2[1] = c /\ \A i \in 1 .. Len(G) : C2[i + 1] = G[i]
  BY <1>1 DEF StartsWith
<1>6. /\ \A i \in 1 .. Len(K1) : K[i] = K1[i]
      /\ K[Len(K1) + 1] = d
      /\ \A i \in 1 .. Len(K2) : K[Len(K1) + 1 + i] = K2[i]
  BY DEF Joined
<1>7. /\ \A i \in 1 .. Len(C1) : C[i] = C1[i]
      /\ \A i \in 1 .. Len(C2) : C[Len(C1) + i] = C2[i]
  BY DEF Joined
<1>8. /\ Len(M) = Len(L) + 1 /\ Len(G) = Len(F) + 1
      /\ Len(K) = Len(L) + 1 + Len(F) /\ Len(C) = Len(M) + Len(G)
  BY <1>1, <1>2, <1>3
<1>9. ASSUME NEW i \in 1 .. Len(L) PROVE K[i] = L[i]
  <2>1. CASE i = Len(K1) + 1
    BY <1>2, <1>6, <2>1
  <2>2. CASE i \in 1 .. Len(K1)
    BY <1>2, <1>6, <2>2
  <2> QED
    BY <1>1, <1>2, <2>1, <2>2
<1>10. K[Len(L) + 1] = x
  <2>1. Len(L) + 1 = Len(K1) + 1 + 1 /\ 1 \in 1 .. Len(K2)
    BY <1>1, <1>2
  <2> QED
    BY <1>4, <1>6, <2>1
<1>11. ASSUME NEW i \in 1 .. Len(F) PROVE K[Len(L) + 1 + i] = F[i]
  <2>1. Len(L) + 1 + i = Len(K1) + 1 + (i + 1) /\ i + 1 \in 1 .. Len(K2)
    BY <1>1, <1>2
  <2> QED
    BY <1>4, <1>6, <2>1
<1>12. ASSUME NEW i \in 1 .. Len(M) PROVE C[i] = M[i]
  <2>1. CASE i = Len(C1) + 1
    <3>1. 1 \in 1 .. Len(C2)
      BY <1>1
    <3> QED
      BY <1>3, <1>5, <1>7, <2>1, <3>1
  <2>2. CASE i \in 1 .. Len(C1)
    BY <1>3, <1>7, <2>2
  <2> QED
    BY <1>1, <1>3, <2>1, <2>2
<1>13. ASSUME NEW i \in 1 .. Len(G) PROVE C[Len(M) + i] = G[i]
  <2>1. Len(M) + i = Len(C1) + (i + 1) /\ i + 1 \in 1 .. Len(C2)
    BY <1>1, <1>3
  <2> QED
    BY <1>5, <1>7, <2>1
<1> QED
  BY <1>8, <1>9, <1>10, <1>11, <1>12, <1>13 DEF Joined

LEMMA EndOf ==
  ASSUME NEW E, NEW s \in Seq(E), Len(s) >= 1
  PROVE  Front(s) \in Seq(E) /\ Last(s) \in E /\ EndsWith(s, Front(s), Last(s))
<1>1. /\ Front(s) \in Seq(E) /\ Len(Front(s)) = Len(s) - 1 /\ Last(s) \in E
      /\ <<Last(s)>> \in Seq(E) /\ Front(s) \o <<Last(s)>> = s
  BY FrontAndLast
<1>2. PICK t \in Seq(E), o \in Seq(E) : t = Front(s) /\ o = <<Last(s)>>
  BY <1>1
<1>3. Follows(s, t, o)
  BY <1>1, <1>2, ConcatFollows
<1>4. Len(o) = 1 /\ o[1] = Last(s)
  BY <1>2
<1>5. 1 \in 1 .. Len(o)
  BY <1>4
<1> QED
  BY <1>1, <1>2, <1>3, <1>4, <1>5 DEF Follows, EndsWith

LEMMA StartOf ==
  ASSUME NEW E, NEW s \in Seq(E), Len(s) >= 1
  PROVE  Tail(s) \in Seq(E) /\ Head(s) \in E /\ StartsWith(s, Head(s), Tail(s))
<1>1. s # << >>
  OBVIOUS
<1>2. /\ Head(s) \in E /\ Tail(s) \in Seq(E) /\ Len(Tail(s)) = Len(s) - 1
      /\ \A i \in 1 .. Len(Tail(s)) : Tail(s)[i] = s[i + 1]
  BY <1>1, HeadTailProperties
<1>3. s[1] = Head(s)
  OBVIOUS
<1>4. PICK t : t = Tail(s)
  OBVIOUS
<1> QED
  BY <1>2, <1>3, <1>4 DEF StartsWith

LEMMA OneBefore ==
  ASSUME NEW E, NEW e \in E, NEW s \in Seq(E)
  PROVE  <<e>> \o s \in Seq(E) /\ StartsWith(<<e>> \o s, e, s)
<1>1. PICK o \in Seq(E) : o = <<e>>
  <2>1. <<e>> \in Seq(E)
    OBVIOUS
  <2> QED
    BY <2>1
<1>2. Len(o) = 1 /\ o[1] = e
  BY <1>1
<1>3. PICK u : u = o \o s
  OBVIOUS
<1>4. u \in Seq(E) /\ Follows(u, o, s)
  BY <1>3, ConcatFollows
<1>5. StartsWith(u, e, s)
  <2>1. 1 \in 1 .. Len(o) /\ Len(s) \in Nat
    BY <1>2
  <2>2. Len(u) = Len(s) + 1 /\ u[1] = e
    BY <1>2, <1>4, <2>1 DEF Follows
  <2>3. ASSUME NEW i \in 1 .. Len(s) PROVE u[i + 1] = s[i]
    <3>1. u[Len(o) + i] = s[i] /\ Len(o) + i = i + 1
      BY <1>2, <1>4 DEF Follows
    <3> QED
      BY <3>1
  <2> QED
    BY <2>2, <2>3 DEF StartsWith
<1> QED
  BY <1>1, <1>3, <1>4, <1>5

LEMMA OneBehind ==
  ASSUME NEW E, NEW e \in E, NEW s \in Seq(E)
  PROVE  Append(s, e) \in Seq(E) /\ EndsWith(Append(s, e), s, e)
<1>1. PICK u : u = Append(s, e)
  OBVIOUS
<1>2. /\ u \in Seq(E) /\ Len(u) = Len(s) + 1 /\ u[Len(s) + 1] = e
      /\ \A i \in 1 .. Len(s) : u[i] = s[i]
  BY <1>1
<1> QED
  BY <1>1, <1>2 DEF EndsWith

\* Two neighbouring internal pages after a loan: the same children in the same
\* order, and key separates what is beneath them.
InternalPair(left, right, key, children, under, P) ==
    /\ SoundInternal(left, under, P) /\ SoundInternal(right, under, P)
    /\ Peopled(left.children, under) /\ Peopled(right.children, under)
    /\ Follows(children, left.children, right.children)
    /\ Separates(key, KeysUnder(left.children, under), KeysUnder(right.children, under))

\* The same of the keys and children alone.
Neighbours(lkeys, lchildren, d, rkeys, rchildren, under) ==
    /\ Parted(lkeys, lchildren, under) /\ Parted(rkeys, rchildren, under)
    /\ Peopled(lchildren, under) /\ Peopled(rchildren, under)
    /\ Separates(d, KeysUnder(lchildren, under), KeysUnder(rchildren, under))

\* Two neighbours joined over d and cut elsewhere are neighbours again.
LEMMA Recut ==
  ASSUME NEW P, NEW under \in KeySets(P), NEW d \in Int, NEW x \in Int,
         NEW K \in Seq(Int), NEW C \in Seq(P),
         NEW K1 \in Seq(Int), NEW C1 \in Seq(P), NEW K2 \in Seq(Int), NEW C2 \in Seq(P),
         NEW L1 \in Seq(Int), NEW D1 \in Seq(P), NEW L2 \in Seq(Int), NEW D2 \in Seq(P),
         Joined(K, C, K1, C1, d, K2, C2), Joined(K, C, L1, D1, x, L2, D2),
         Neighbours(K1, C1, d, K2, C2, under)
  PROVE  Neighbours(L1, D1, x, L2, D2, under) /\ Follows(C, D1, D2)
<1>1. /\ Parted(K1, C1, under) /\ Parted(K2, C2, under)
      /\ Peopled(C1, under) /\ Peopled(C2, under)
      /\ Separates(d, KeysUnder(C1, under), KeysUnder(C2, under))
  BY DEF Neighbours
<1>2. Parted(K, C, under)
  BY <1>1, JoinParted
<1>3. Peopled(C, under)
  BY <1>1, KeysUnderJoined
<1>4. /\ Parted(L1, D1, under) /\ Parted(L2, D2, under)
      /\ Peopled(D1, under) /\ Peopled(D2, under)
      /\ Separates(x, KeysUnder(D1, under), KeysUnder(D2, under))
  BY <1>2, <1>3, CutSound
<1>5. Follows(C, D1, D2)
  BY DEF Joined, Follows
<1> QED
  BY <1>4, <1>5 DEF Neighbours

LEMMA PairWith ==
  ASSUME NEW P, NEW under \in KeySets(P), NEW x, NEW C,
         NEW L1 \in Seq(Int), NEW D1 \in Seq(P), NEW L2 \in Seq(Int), NEW D2 \in Seq(P),
         NEW l \in InternalPages(P), NEW r \in InternalPages(P),
         Neighbours(L1, D1, x, L2, D2, under), Follows(C, D1, D2)
  PROVE  /\ InternalPair(WithChildren(l, L1, D1), WithChildren(r, L2, D2), x, C, under, P)
         /\ InternalGot(WithChildren(l, L1, D1), l, L1, D1, under, P)
         /\ InternalGot(WithChildren(r, L2, D2), r, L2, D2, under, P)
<1>3. /\ Parted(L1, D1, under) /\ Parted(L2, D2, under)
      /\ Peopled(D1, under) /\ Peopled(D2, under)
      /\ Separates(x, KeysUnder(D1, under), KeysUnder(D2, under))
  BY DEF Neighbours
<1>4. PICK a, b : a = WithChildren(l, L1, D1) /\ b = WithChildren(r, L2, D2)
  OBVIOUS
<1>5. InternalGot(a, l, L1, D1, under, P) /\ InternalGot(b, r, L2, D2, under, P)
  BY <1>3, <1>4, InternalWith
<1>6. /\ SoundInternal(a, under, P) /\ a.children = D1
      /\ SoundInternal(b, under, P) /\ b.children = D2
  BY <1>5 DEF InternalGot
<1>8. InternalPair(a, b, x, C, under, P)
  BY <1>3, <1>6, Zenon DEF InternalPair
<1> QED
  BY <1>4, <1>5, <1>8

\* A page with a child to lend has three or more.
LEMMA LenderHasChildren ==
  ASSUME NEW P, NEW under, NEW n, SoundInternal(n, under, P), GetSize(n) > MinSize(n)
  PROVE  /\ Len(n.keys) >= 1 /\ Len(n.children) >= 1
         /\ Len(n.children) - 1 \in MinSize(n) .. GetSize(n) - 1
<1>1. PICK K, C : K = n.keys /\ C = n.children
  OBVIOUS
<1>2. /\ K \in Seq(Int) /\ C \in Seq(P) /\ Len(C) = Len(K) + 1
      /\ GetSize(n) = Len(C) /\ MinSize(n) = InternalMax \div 2
  BY <1>1, InternalFacts
<1>3. InternalMax \in Nat /\ InternalMax >= 4
  BY OrderAssumption DEF OrderAssumption
<1>4. InternalMax \div 2 \in Nat /\ InternalMax \div 2 >= 2
  BY <1>3
<1>5. Len(K) \in Nat /\ Len(C) \in Nat
  BY <1>2
<1> QED
  BY <1>1, <1>2, <1>4, <1>5

\* MoveLastToFrontOf between internal pages: the last child of the left one goes
\* to the front of the right one, the separator comes down beside it and the last
\* key of the left one goes up in its place.
THEOREM InternalBorrowsFromLeft ==
  ASSUME NEW P, NEW under \in KeySets(P), NEW left, NEW n, NEW down,
         SoundInternal(left, under, P), SoundInternal(n, under, P),
         Peopled(left.children, under), Peopled(n.children, under),
         Separates(down, KeysUnder(left.children, under), KeysUnder(n.children, under)),
         GetSize(left) > MinSize(left)
  PROVE  /\ InternalPair(GiveLast(left), TakeLastOf(n, left, down), KeyAfterTakingLast(left),
                         left.children \o n.children, under, P)
         /\ GiveLast(left).parent = left.parent /\ TakeLastOf(n, left, down).parent = n.parent
         /\ GetSize(GiveLast(left)) \in MinSize(left) .. GetSize(left) - 1
         /\ GetSize(TakeLastOf(n, left, down)) = GetSize(n) + 1
<1>0. PICK K1, C1, K2, C2 : /\ K1 = left.keys /\ C1 = left.children
                            /\ K2 = n.keys /\ C2 = n.children
  OBVIOUS
<1>1. /\ left \in InternalPages(P) /\ left.leaf = FALSE
      /\ K1 \in Seq(Int) /\ C1 \in Seq(P) /\ Parted(K1, C1, under)
      /\ Len(C1) = Len(K1) + 1 /\ GetSize(left) = Len(C1)
  BY <1>0, InternalFacts
<1>2. /\ n \in InternalPages(P) /\ n.leaf = FALSE
      /\ K2 \in Seq(Int) /\ C2 \in Seq(P) /\ Parted(K2, C2, under)
      /\ Len(C2) = Len(K2) + 1 /\ GetSize(n) = Len(C2)
  BY <1>0, InternalFacts
<1>3. /\ Len(K1) >= 1 /\ Len(C1) >= 1
      /\ Len(C1) - 1 \in MinSize(left) .. GetSize(left) - 1
  BY <1>0, LenderHasChildren
<1>4. down \in Int
  BY DEF Separates
<1>5. PICK F, G, x, c : F = Front(K1) /\ G = Front(C1) /\ x = Last(K1) /\ c = Last(C1)
  OBVIOUS
<1>6. F \in Seq(Int) /\ x \in Int /\ EndsWith(K1, F, x)
  BY <1>1, <1>3, <1>5, EndOf
<1>7. G \in Seq(P) /\ c \in P /\ EndsWith(C1, G, c)
  BY <1>1, <1>3, <1>5, EndOf
<1>8. PICK L, M : L = <<down>> \o K2 /\ M = <<c>> \o C2
  OBVIOUS
<1>9. L \in Seq(Int) /\ StartsWith(L, down, K2)
  BY <1>2, <1>4, <1>8, OneBefore
<1>10. M \in Seq(P) /\ StartsWith(M, c, C2)
  BY <1>2, <1>7, <1>8, OneBefore
<1>11. PICK K, C : K = Append(K1, down) \o K2 /\ C = C1 \o C2
  OBVIOUS
<1>12. K \in Seq(Int) /\ C \in Seq(P) /\ Joined(K, C, K1, C1, down, K2, C2)
  BY <1>1, <1>2, <1>4, <1>11, JoinOf
<1>13. Joined(K, C, F, G, x, L, M)
  BY <1>1, <1>2, <1>3, <1>4, <1>6, <1>7, <1>9, <1>10, <1>12, RotateRight
<1>14. PICK a, b : a = WithChildren(left, F, G) /\ b = WithChildren(n, L, M)
  OBVIOUS
<1>15. /\ InternalPair(a, b, x, C, under, P)
       /\ InternalGot(a, left, F, G, under, P) /\ InternalGot(b, n, L, M, under, P)
  <2>1. /\ Peopled(C1, under) /\ Peopled(C2, under)
        /\ Separates(down, KeysUnder(C1, under), KeysUnder(C2, under))
    BY <1>0
  <2>2. Neighbours(K1, C1, down, K2, C2, under)
    BY <1>1, <1>2, <2>1 DEF Neighbours
  <2>3. Neighbours(F, G, x, L, M, under) /\ Follows(C, G, M)
    BY <1>1, <1>2, <1>4, <1>6, <1>7, <1>9, <1>10, <1>12, <1>13, <2>2, Recut
  <2> QED
    BY <1>1, <1>2, <1>6, <1>7, <1>9, <1>10, <1>14, <2>3, PairWith
<1>16. GiveLast(left) = a
  BY <1>0, <1>1, <1>5, <1>14, Zenon DEF GiveLast, WithChildren
<1>17. TakeLastOf(n, left, down) = b
  BY <1>0, <1>2, <1>5, <1>8, <1>14, Zenon DEF TakeLastOf, WithChildren
<1>18. KeyAfterTakingLast(left) = x
  BY <1>0, <1>1, <1>5, Zenon DEF KeyAfterTakingLast
<1>19. /\ a.parent = left.parent /\ GetSize(a) = Len(G)
       /\ b.parent = n.parent /\ GetSize(b) = Len(M)
  BY <1>15 DEF InternalGot
<1>20. Len(G) = Len(C1) - 1 /\ Len(M) = GetSize(n) + 1
  BY <1>1, <1>2, <1>7, <1>10 DEF EndsWith, StartsWith
<1> QED
  BY <1>0, <1>3, <1>11, <1>15, <1>16, <1>17, <1>18, <1>19, <1>20

\* MoveFirstToEndOf between internal pages: the first child of the right one goes
\* behind the left one's, the separator comes down before it and the first key of
\* the right one goes up in its place.
THEOREM InternalBorrowsFromRight ==
  ASSUME NEW P, NEW under \in KeySets(P), NEW n, NEW right, NEW down,
         SoundInternal(n, under, P), SoundInternal(right, under, P),
         Peopled(n.children, under), Peopled(right.children, under),
         Separates(down, KeysUnder(n.children, under), KeysUnder(right.children, under)),
         GetSize(right) > MinSize(right)
  PROVE  /\ InternalPair(TakeFirstOf(n, right, down), GiveFirst(right),
                         KeyAfterTakingFirst(right),
                         n.children \o right.children, under, P)
         /\ TakeFirstOf(n, right, down).parent = n.parent
         /\ GiveFirst(right).parent = right.parent
         /\ GetSize(TakeFirstOf(n, right, down)) = GetSize(n) + 1
         /\ GetSize(GiveFirst(right)) \in MinSize(right) .. GetSize(right) - 1
<1>0. PICK K1, C1, K2, C2 : /\ K1 = n.keys /\ C1 = n.children
                            /\ K2 = right.keys /\ C2 = right.children
  OBVIOUS
<1>1. /\ n \in InternalPages(P) /\ n.leaf = FALSE
      /\ K1 \in Seq(Int) /\ C1 \in Seq(P) /\ Parted(K1, C1, under)
      /\ Len(C1) = Len(K1) + 1 /\ GetSize(n) = Len(C1)
  BY <1>0, InternalFacts
<1>2. /\ right \in InternalPages(P) /\ right.leaf = FALSE
      /\ K2 \in Seq(Int) /\ C2 \in Seq(P) /\ Parted(K2, C2, under)
      /\ Len(C2) = Len(K2) + 1 /\ GetSize(right) = Len(C2)
  BY <1>0, InternalFacts
<1>3. /\ Len(K2) >= 1 /\ Len(C2) >= 1
      /\ Len(C2) - 1 \in MinSize(right) .. GetSize(right) - 1
  BY <1>0, LenderHasChildren
<1>4. down \in Int
  BY DEF Separates
<1>5. PICK F, G, x, c : F = Tail(K2) /\ G = Tail(C2) /\ x = Head(K2) /\ c = Head(C2)
  OBVIOUS
<1>6. F \in Seq(Int) /\ x \in Int /\ StartsWith(K2, x, F)
  BY <1>2, <1>3, <1>5, StartOf
<1>7. G \in Seq(P) /\ c \in P /\ StartsWith(C2, c, G)
  BY <1>2, <1>3, <1>5, StartOf
<1>8. PICK L, M : L = Append(K1, down) /\ M = Append(C1, c)
  OBVIOUS
<1>9. L \in Seq(Int) /\ EndsWith(L, K1, down)
  BY <1>1, <1>4, <1>8, OneBehind
<1>10. M \in Seq(P) /\ EndsWith(M, C1, c)
  BY <1>1, <1>7, <1>8, OneBehind
<1>11. PICK K, C : K = Append(K1, down) \o K2 /\ C = C1 \o C2
  OBVIOUS
<1>12. K \in Seq(Int) /\ C \in Seq(P) /\ Joined(K, C, K1, C1, down, K2, C2)
  BY <1>1, <1>2, <1>4, <1>11, JoinOf
<1>13. Joined(K, C, L, M, x, F, G)
  BY <1>1, <1>2, <1>3, <1>4, <1>6, <1>7, <1>9, <1>10, <1>12, RotateLeft
<1>14. PICK a, b : a = WithChildren(n, L, M) /\ b = WithChildren(right, F, G)
  OBVIOUS
<1>15. /\ InternalPair(a, b, x, C, under, P)
       /\ InternalGot(a, n, L, M, under, P) /\ InternalGot(b, right, F, G, under, P)
  <2>1. /\ Peopled(C1, under) /\ Peopled(C2, under)
        /\ Separates(down, KeysUnder(C1, under), KeysUnder(C2, under))
    BY <1>0
  <2>2. Neighbours(K1, C1, down, K2, C2, under)
    BY <1>1, <1>2, <2>1 DEF Neighbours
  <2>3. Neighbours(L, M, x, F, G, under) /\ Follows(C, M, G)
    BY <1>1, <1>2, <1>4, <1>6, <1>7, <1>9, <1>10, <1>12, <1>13, <2>2, Recut
  <2> QED
    BY <1>1, <1>2, <1>6, <1>7, <1>9, <1>10, <1>14, <2>3, PairWith
<1>16. TakeFirstOf(n, right, down) = a
  BY <1>0, <1>1, <1>5, <1>8, <1>14, Zenon DEF TakeFirstOf, WithChildren
<1>17. GiveFirst(right) = b
  BY <1>0, <1>2, <1>5, <1>14, Zenon DEF GiveFirst, WithChildren
<1>18. KeyAfterTakingFirst(right) = x
  BY <1>0, <1>2, <1>5, Zenon DEF KeyAfterTakingFirst
<1>19. /\ a.parent = n.parent /\ GetSize(a) = Len(M)
       /\ b.parent = right.parent /\ GetSize(b) = Len(G)
  BY <1>15 DEF InternalGot
<1>20. Len(G) = Len(C2) - 1 /\ Len(M) = GetSize(n) + 1
  BY <1>1, <1>2, <1>7, <1>10 DEF EndsWith, StartsWith
<1> QED
  BY <1>0, <1>3, <1>11, <1>15, <1>16, <1>17, <1>18, <1>19, <1>20

InternalMerged(m, left, right, under, P) ==
    /\ SoundInternal(m, under, P) /\ Peopled(m.children, under)
    /\ m.children = left.children \o right.children /\ m.parent = left.parent
    /\ KeysUnder(m.children, under) =
           KeysUnder(left.children, under) \union KeysUnder(right.children, under)
    /\ GetSize(m) < GetMaxSize(m)

\* MoveAllTo between internal pages, when one is below the minimum and the other
\* has no child to spare: the left one has room for all the children, and with the
\* separator down between them it is sound.
THEOREM InternalMergeSound ==
  ASSUME NEW P, NEW under \in KeySets(P), NEW left, NEW right, NEW down,
         SoundInternal(left, under, P), SoundInternal(right, under, P),
         Peopled(left.children, under), Peopled(right.children, under),
         Separates(down, KeysUnder(left.children, under), KeysUnder(right.children, under)),
         NeitherLends(left, right)
  PROVE  InternalMerged(TakeAllOf(left, right, down), left, right, under, P)
<1>0. PICK K1, C1, K2, C2 : /\ K1 = left.keys /\ C1 = left.children
                            /\ K2 = right.keys /\ C2 = right.children
  OBVIOUS
<1>1. /\ left \in InternalPages(P) /\ left.leaf = FALSE
      /\ K1 \in Seq(Int) /\ C1 \in Seq(P) /\ Parted(K1, C1, under)
      /\ Len(C1) = Len(K1) + 1 /\ GetSize(left) = Len(C1)
      /\ MinSize(left) = InternalMax \div 2
  BY <1>0, InternalFacts
<1>2. /\ K2 \in Seq(Int) /\ C2 \in Seq(P) /\ Parted(K2, C2, under)
      /\ Len(C2) = Len(K2) + 1 /\ GetSize(right) = Len(C2)
      /\ MinSize(right) = InternalMax \div 2
  BY <1>0, InternalFacts
<1>3. down \in Int
  BY DEF Separates
<1>4. PICK K, C : K = Append(K1, down) \o K2 /\ C = C1 \o C2
  OBVIOUS
<1>5. K \in Seq(Int) /\ C \in Seq(P) /\ Joined(K, C, K1, C1, down, K2, C2)
  BY <1>1, <1>2, <1>3, <1>4, JoinOf
<1>6. /\ Peopled(C1, under) /\ Peopled(C2, under)
      /\ Separates(down, KeysUnder(C1, under), KeysUnder(C2, under))
  BY <1>0
<1>7. Parted(K, C, under)
  BY <1>1, <1>2, <1>5, <1>6, JoinParted
<1>8. /\ KeysUnder(C, under) = KeysUnder(C1, under) \union KeysUnder(C2, under)
      /\ Peopled(C, under)
  <2>1. KeysUnder(C, under) = KeysUnder(C1, under) \union KeysUnder(C2, under)
    BY <1>1, <1>2, <1>5, KeysUnderJoined
  <2>2. Peopled(C, under)
    BY <1>1, <1>2, <1>5, <1>6, KeysUnderJoined
  <2> QED
    BY <2>1, <2>2
<1>9. PICK m : m = WithChildren(left, K, C)
  OBVIOUS
<1>10. InternalGot(m, left, K, C, under, P)
  BY <1>1, <1>5, <1>7, <1>9, InternalWith
<1>11. /\ SoundInternal(m, under, P) /\ m.children = C /\ m.parent = left.parent
       /\ GetSize(m) = Len(C)
  BY <1>10 DEF InternalGot
<1>12. GetMaxSize(m) = InternalMax
  BY <1>11, InternalFacts
<1>13. Len(C) < InternalMax
  <2>1. InternalMax \in Nat /\ Len(C1) \in Nat /\ Len(C2) \in Nat
    BY <1>1, <1>2, OrderAssumption DEF OrderAssumption
  <2>2. Len(C1) + Len(C2) < InternalMax
    BY <1>1, <1>2, <2>1, MergedFits DEF NeitherLends
  <2> QED
    BY <1>5, <2>2 DEF Joined
<1>14. TakeAllOf(left, right, down) = m
  BY <1>0, <1>1, <1>4, <1>9, Zenon DEF TakeAllOf, WithChildren
<1> QED
  BY <1>0, <1>4, <1>8, <1>11, <1>12, <1>13, <1>14, Zenon DEF InternalMerged

-----------------------------------------------------------------------------
(***************************************************************************)
(* What the parent of the pages makes of it.                               *)
(***************************************************************************)
LEMMA ChildIndexFinds ==
  ASSUME NEW n, NEW C, C = n.children, Len(C) \in Nat, NEW i \in 1 .. Len(C),
         \A j \in 1 .. Len(C) : C[j] = C[i] => j = i
  PROVE  ChildIndex(n, C[i]) = i
<1>1. PICK I : I = {j \in 1 .. Len(C) : C[j] = C[i]}
  OBVIOUS
<1>2. I = {i}
  BY <1>1
<1>3. i <= i /\ i \in Int
  OBVIOUS
<1>4. Min({i}) = i
  BY <1>3 DEF Min
<1>5. ChildIndex(n, C[i]) = IF I # {} THEN Min(I) ELSE 0
  BY <1>1, Zenon DEF ChildIndex, SelectInSeq
<1> QED
  BY <1>2, <1>4, <1>5

\* t is s with e put in at place i; t is s without what is at place i.
Inserted(t, s, i, e) ==
    /\ Len(t) = Len(s) + 1 /\ t[i] = e
    /\ \A j \in 1 .. i - 1 : t[j] = s[j]
    /\ \A j \in i .. Len(s) : t[j + 1] = s[j]

Removed(t, s, i) ==
    /\ Len(t) = Len(s) - 1
    /\ \A j \in 1 .. i - 1 : t[j] = s[j]
    /\ \A j \in i .. Len(t) : t[j] = s[j + 1]

LEMMA InsertAtInserts ==
  ASSUME NEW S, NEW s \in Seq(S), NEW i \in 1 .. Len(s) + 1, NEW e \in S
  PROVE  InsertAt(s, i, e) \in Seq(S) /\ Inserted(InsertAt(s, i, e), s, i, e)
<1>1. PICK t : t = InsertAt(s, i, e)
  OBVIOUS
<1>2. /\ t \in Seq(S) /\ Len(t) = Len(s) + 1
      /\ \A j \in 1 .. Len(s) + 1 : t[j] =
                IF j < i THEN s[j] ELSE IF j = i THEN e ELSE s[j - 1]
  BY <1>1, InsertAtFacts, SMTT(30)
<1>3. Len(s) \in Nat
  OBVIOUS
<1>4. t[i] = e /\ \A j \in 1 .. i - 1 : t[j] = s[j]
  BY <1>2, <1>3
<1>5. ASSUME NEW j \in i .. Len(s) PROVE t[j + 1] = s[j]
  <2>1. j + 1 \in 1 .. Len(s) + 1 /\ ~(j + 1 < i) /\ j + 1 # i /\ (j + 1) - 1 = j
    BY <1>3
  <2> QED
    BY <1>2, <2>1
<1> QED
  BY <1>1, <1>2, <1>4, <1>5 DEF Inserted

LEMMA RemoveAtRemoves ==
  ASSUME NEW S, NEW s \in Seq(S), NEW i \in 1 .. Len(s)
  PROVE  RemoveAt(s, i) \in Seq(S) /\ Removed(RemoveAt(s, i), s, i)
<1>1. PICK t : t = RemoveAt(s, i)
  OBVIOUS
<1>2. /\ t \in Seq(S) /\ Len(t) = Len(s) - 1
      /\ \A j \in 1 .. Len(s) - 1 : t[j] = IF j < i THEN s[j] ELSE s[j + 1]
  BY <1>1, RemoveAtFacts
<1>3. Len(s) \in Nat
  OBVIOUS
<1>4. /\ \A j \in 1 .. i - 1 : t[j] = s[j]
      /\ \A j \in i .. Len(t) : t[j] = s[j + 1]
  BY <1>2, <1>3
<1> QED
  BY <1>1, <1>2, <1>4 DEF Removed

\* Beneath the children other than those at places in I nothing changes.
SameBut(I, children, under, after) ==
    \A j \in 1 .. Len(children) : j \notin I => after[children[j]] = under[children[j]]

\* A page that lost its last entry may be among the children at places in I.
PeopledBut(I, children, under) ==
    \A j \in 1 .. Len(children) : j \notin I => under[children[j]] # {}

\* Sound with the keys beneath the children as they are after an operation, and
\* over the same keys as the page with K and C before it.
StillOver(L, D, after, C, under) ==
    /\ Parted(L, D, after) /\ Peopled(D, after)
    /\ KeysUnder(D, after) = KeysUnder(C, under)

\* The facts about a page the next lemmas use.
Kept(K, C, under) ==
    /\ \A i \in 2 .. Len(C) : \A k \in under[C[i]] : K[i - 1] <= k
    /\ \A i \in 1 .. Len(K) : \A k \in under[C[i]] : k < K[i]

LEMMA PartedKept ==
  ASSUME NEW P, NEW under \in KeySets(P), NEW K \in Seq(Int), NEW C \in Seq(P),
         Parted(K, C, under)
  PROVE  /\ Len(K) \in Nat /\ Len(C) = Len(K) + 1 /\ Kept(K, C, under)
         /\ \A i \in 1 .. Len(C) : under[C[i]] \subseteq Int
         /\ \A i \in 2 .. Len(K) : K[i - 1] < K[i]
<1>1. /\ \A i \in 2 .. Len(C) : \A k \in under[C[i]] : K[i - 1] <= k
      /\ \A i \in 1 .. Len(K) : \A k \in under[C[i]] : k < K[i]
  BY PartedFacts
<1>2. Len(K) \in Nat /\ Len(C) = Len(K) + 1
  BY DEF Parted
<1>3. \A i \in 1 .. Len(C) : under[C[i]] \subseteq Int
  BY DEF KeySets
<1>4. ASSUME NEW i \in 2 .. Len(K) PROVE K[i - 1] < K[i]
  <2>1. i - 1 \in 1 .. Len(K) /\ i \in 1 .. Len(K) /\ i - 1 < i
    BY <1>2
  <2> QED
    BY <2>1 DEF Parted, Rising
<1> QED
  BY <1>1, <1>2, <1>3, <1>4 DEF Kept

LEMMA KeptParted ==
  ASSUME NEW P, NEW under \in KeySets(P), NEW K \in Seq(Int), NEW C \in Seq(P),
         Len(C) = Len(K) + 1, Kept(K, C, under), Peopled(C, under)
  PROVE  Parted(K, C, under)
<1>2. ASSUME NEW i \in 1 .. Len(C) PROVE Bounds(K, i, under[C[i]])
  <2>1. ASSUME i > 1, NEW k \in under[C[i]] PROVE K[i - 1] <= k
    <3>1. i \in 2 .. Len(C)
      BY <2>1
    <3> QED
      BY <3>1 DEF Kept
  <2>2. ASSUME i <= Len(K), NEW k \in under[C[i]] PROVE k < K[i]
    <3>1. i \in 1 .. Len(K)
      BY <2>2
    <3> QED
      BY <3>1 DEF Kept
  <2> QED
    BY <2>1, <2>2 DEF Bounds
<1> QED
  BY <1>2, PartedIf

\* A child's keys are shared out between it and a new one to its right.
LEMMA InsertParted ==
  ASSUME NEW P, NEW under \in KeySets(P), NEW after \in KeySets(P),
         NEW K \in Seq(Int), NEW C \in Seq(P), NEW L \in Seq(Int), NEW D \in Seq(P),
         Parted(K, C, under), Peopled(C, under),
         NEW i \in 1 .. Len(C), NEW h, h = i + 1, NEW key, NEW new,
         Inserted(L, K, i, key), Inserted(D, C, h, new),
         Separates(key, after[C[i]], after[new]),
         under[C[i]] = after[C[i]] \union after[new],
         SameBut({i}, C, under, after)
  PROVE  StillOver(L, D, after, C, under)
<1>1. /\ Len(K) \in Nat /\ Len(C) = Len(K) + 1 /\ Kept(K, C, under)
      /\ \A j \in 1 .. Len(C) : under[C[j]] \subseteq Int
  BY PartedKept
<1>2. /\ \A j \in 1 .. Len(C) : under[C[j]] # {} /\ under[C[j]] \subseteq Int
      /\ \A j \in 2 .. Len(C) : \A k \in under[C[j]] : K[j - 1] <= k
      /\ \A j \in 1 .. Len(K) : \A k \in under[C[j]] : k < K[j]
  BY <1>1 DEF Kept, Peopled
<1>3. /\ Len(L) = Len(K) + 1 /\ L[i] = key
      /\ \A j \in 1 .. i - 1 : L[j] = K[j]
      /\ \A j \in i .. Len(K) : L[j + 1] = K[j]
  BY DEF Inserted
<1>4. /\ Len(D) = Len(C) + 1 /\ D[i + 1] = new
      /\ \A j \in 1 .. i : D[j] = C[j]
      /\ \A j \in i + 1 .. Len(C) : D[j + 1] = C[j]
  BY DEF Inserted
<1>5. \A j \in 1 .. Len(C) : j # i => after[C[j]] = under[C[j]]
  BY DEF SameBut
<1>6. /\ after[C[i]] # {} /\ after[new] # {}
      /\ after[C[i]] \subseteq under[C[i]] /\ after[new] \subseteq under[C[i]]
      /\ \A k \in after[C[i]] : k < key
      /\ \A k \in after[new] : key <= k
  BY DEF Separates
\* the four places a child can be in
<1>7. ASSUME NEW j \in 1 .. Len(D)
      PROVE  \/ j \in 1 .. i - 1 /\ D[j] = C[j] /\ after[D[j]] = under[C[j]]
             \/ j = i /\ D[j] = C[i]
             \/ j = i + 1 /\ D[j] = new
             \/ /\ j \in i + 2 .. Len(D) /\ j - 1 \in i + 1 .. Len(C)
                /\ D[j] = C[j - 1] /\ after[D[j]] = under[C[j - 1]]
  <2>1. CASE j \in 1 .. i - 1
    <3>1. j \in 1 .. i /\ j \in 1 .. Len(C) /\ j # i
      BY <1>1, <2>1
    <3> QED
      BY <1>4, <1>5, <2>1, <3>1
  <2>2. CASE j = i
    BY <1>4, <2>2
  <2>3. CASE j = i + 1
    BY <1>4, <2>3
  <2>4. CASE j \in i + 2 .. Len(D)
    <3>1. j - 1 \in i + 1 .. Len(C) /\ (j - 1) + 1 = j /\ j - 1 \in 1 .. Len(C) /\ j - 1 # i
      BY <1>1, <1>4, <2>4
    <3>2. D[j] = C[j - 1]
      BY <1>4, <3>1
    <3> QED
      BY <1>5, <2>4, <3>1, <3>2
  <2> QED
    BY <1>1, <1>4, <2>1, <2>2, <2>3, <2>4
<1>8. ASSUME NEW j \in 1 .. Len(D) PROVE after[D[j]] # {} /\ after[D[j]] \subseteq Int
  <2>1. \A m \in 1 .. Len(C) : under[C[m]] # {} /\ under[C[m]] \subseteq Int
    BY <1>2
  <2>2. j \in 1 .. i - 1 => j \in 1 .. Len(C)
    BY <1>1
  <2>3. j - 1 \in i + 1 .. Len(C) => j - 1 \in 1 .. Len(C)
    BY <1>1
  <2> QED
    BY <1>6, <1>7, <2>1, <2>2, <2>3
<1>9. ASSUME NEW j \in 2 .. Len(D), NEW k \in after[D[j]] PROVE L[j - 1] <= k
  <2>0. j \in 1 .. Len(D)
    OBVIOUS
  <2>1. CASE j \in 1 .. i - 1 /\ D[j] = C[j] /\ after[D[j]] = under[C[j]]
    <3>1. j \in 2 .. Len(C) /\ j - 1 \in 1 .. i - 1
      BY <1>1, <2>1
    <3> QED
      BY <1>2, <1>3, <1>9, <2>1, <3>1
  <2>2. CASE j = i /\ D[j] = C[i]
    <3>1. i \in 2 .. Len(C) /\ i - 1 \in 1 .. i - 1 /\ k \in under[C[i]]
      BY <1>1, <1>6, <1>9, <2>2
    <3> QED
      BY <1>2, <1>3, <2>2, <3>1
  <2>3. CASE j = i + 1 /\ D[j] = new
    <3>1. j - 1 = i
      BY <2>3
    <3> QED
      BY <1>3, <1>6, <1>9, <2>3, <3>1
  <2>4. CASE /\ j \in i + 2 .. Len(D) /\ j - 1 \in i + 1 .. Len(C)
             /\ D[j] = C[j - 1] /\ after[D[j]] = under[C[j - 1]]
    <3>1. j - 1 \in 2 .. Len(C) /\ (j - 1) - 1 \in i .. Len(K) /\ ((j - 1) - 1) + 1 = j - 1
      <4>1. /\ Len(K) \in Nat /\ Len(C) = Len(K) + 1 /\ j \in Int /\ i \in Int /\ i >= 1
            /\ j - 1 \in i + 1 .. Len(C)
        BY <1>1, <2>4
      <4> QED
        BY ONLY <4>1
    <3>2. L[j - 1] = K[(j - 1) - 1]
      BY <1>3, <3>1
    <3> QED
      BY <1>2, <1>9, <2>4, <3>1, <3>2
  <2> QED
    BY <1>7, <2>0, <2>1, <2>2, <2>3, <2>4
<1>10. ASSUME NEW j \in 1 .. Len(L), NEW k \in after[D[j]] PROVE k < L[j]
  <2>0. j \in 1 .. Len(D)
    BY <1>1, <1>3, <1>4
  <2>1. CASE j \in 1 .. i - 1 /\ D[j] = C[j] /\ after[D[j]] = under[C[j]]
    <3>1. j \in 1 .. Len(K)
      BY <1>1, <2>1
    <3> QED
      BY <1>2, <1>3, <1>10, <2>1, <3>1
  <2>2. CASE j = i /\ D[j] = C[i]
    BY <1>3, <1>6, <1>10, <2>2
  <2>3. CASE j = i + 1 /\ D[j] = new
    <3>1. i \in 1 .. Len(K) /\ i \in i .. Len(K) /\ k \in under[C[i]]
      BY <1>1, <1>3, <1>6, <1>10, <2>3
    <3>2. L[j] = K[i]
      BY <1>3, <2>3, <3>1
    <3> QED
      BY <1>2, <3>1, <3>2
  <2>4. CASE /\ j \in i + 2 .. Len(D) /\ j - 1 \in i + 1 .. Len(C)
             /\ D[j] = C[j - 1] /\ after[D[j]] = under[C[j - 1]]
    <3>1. j - 1 \in 1 .. Len(K) /\ j - 1 \in i .. Len(K) /\ (j - 1) + 1 = j
      <4>1. /\ Len(L) = Len(K) + 1 /\ j \in 1 .. Len(L) /\ j \in Int /\ i \in Int /\ i >= 1
            /\ Len(K) \in Nat
        BY <1>1, <1>3
      <4>2. j >= i + 2
        BY <2>4
      <4> QED
        BY ONLY <4>1, <4>2
    <3>2. L[j] = K[j - 1]
      BY <1>3, <3>1
    <3> QED
      BY <1>2, <1>10, <2>4, <3>1, <3>2
  <2> QED
    BY <1>7, <2>0, <2>1, <2>2, <2>3, <2>4
<1>11. Kept(L, D, after)
  BY <1>8, <1>9, <1>10 DEF Kept
<1>12. Len(D) = Len(L) + 1
  BY <1>1, <1>3, <1>4
<1>13. Parted(L, D, after) /\ Peopled(D, after)
  <2>1. Peopled(D, after)
    BY <1>8 DEF Peopled
  <2> QED
    BY <1>11, <1>12, <2>1, KeptParted
<1>14. ASSUME NEW k, k \in KeysUnder(D, after) PROVE k \in KeysUnder(C, under)
  <2>1. PICK j \in 1 .. Len(D) : k \in after[D[j]]
    BY <1>14 DEF KeysUnder
  <2>2. \E m \in 1 .. Len(C) : k \in under[C[m]]
    <3>1. j \in 1 .. i - 1 => j \in 1 .. Len(C)
      BY <1>1
    <3>2. j - 1 \in i + 1 .. Len(C) => j - 1 \in 1 .. Len(C)
      BY <1>1
    <3> QED
      BY <1>6, <1>7, <2>1, <3>1, <3>2
  <2> QED
    BY <2>2 DEF KeysUnder
<1>15. ASSUME NEW k, k \in KeysUnder(C, under) PROVE k \in KeysUnder(D, after)
  <2>1. PICK m \in 1 .. Len(C) : k \in under[C[m]]
    BY <1>15 DEF KeysUnder
  <2>2. \E j \in 1 .. Len(D) : k \in after[D[j]]
    <3>1. CASE m < i
      <4>1. m \in 1 .. Len(D) /\ m \in 1 .. i /\ m # i
        BY <1>1, <1>4, <3>1
      <4>2. D[m] = C[m]
        BY <1>4, <4>1
      <4>3. after[C[m]] = under[C[m]]
        BY <1>5, <4>1
      <4> QED
        BY <2>1, <4>1, <4>2, <4>3
    <3>2. CASE m = i
      <4>1. i \in 1 .. Len(D) /\ i + 1 \in 1 .. Len(D) /\ D[i] = C[i] /\ D[i + 1] = new
        BY <1>1, <1>4
      <4> QED
        BY <2>1, <3>2, <4>1
    <3>3. CASE m > i
      <4>1. m + 1 \in 1 .. Len(D) /\ m \in i + 1 .. Len(C) /\ m # i
        BY <1>1, <1>4, <3>3
      <4>2. D[m + 1] = C[m]
        BY <1>4, <4>1
      <4>3. after[C[m]] = under[C[m]]
        BY <1>5, <4>1
      <4>4. k \in after[D[m + 1]]
        BY <2>1, <4>2, <4>3
      <4> QED
        BY <4>1, <4>4
    <3> QED
      BY <1>1, <3>1, <3>2, <3>3
  <2> QED
    BY <2>2 DEF KeysUnder
<1>16. KeysUnder(D, after) = KeysUnder(C, under)
  BY <1>14, <1>15
<1> QED
  BY <1>13, <1>16 DEF StillOver

Replaced(t, s, i, e) ==
    /\ Len(t) = Len(s) /\ t[i] = e
    /\ \A j \in 1 .. Len(s) : j # i => t[j] = s[j]

\* The keys beneath two neighbours are shared out anew.
LEMMA ReplaceParted ==
  ASSUME NEW P, NEW under \in KeySets(P), NEW after \in KeySets(P),
         NEW K \in Seq(Int), NEW C \in Seq(P), NEW L \in Seq(Int),
         Parted(K, C, under), NEW i \in 1 .. Len(K), NEW h, h = i + 1,
         PeopledBut({i, h}, C, under), NEW key, Replaced(L, K, i, key),
         Separates(key, after[C[i]], after[C[h]]),
         after[C[i]] \union after[C[h]] = under[C[i]] \union under[C[h]],
         SameBut({i, h}, C, under, after)
  PROVE  StillOver(L, C, after, C, under)
<1>1. /\ Len(K) \in Nat /\ Len(C) = Len(K) + 1 /\ Kept(K, C, under)
      /\ \A j \in 1 .. Len(C) : under[C[j]] \subseteq Int
      /\ \A j \in 2 .. Len(K) : K[j - 1] < K[j]
  BY PartedKept
<1>2. /\ \A j \in 1 .. Len(C) : under[C[j]] \subseteq Int
      /\ \A j \in 2 .. Len(C) : \A k \in under[C[j]] : K[j - 1] <= k
      /\ \A j \in 1 .. Len(K) : \A k \in under[C[j]] : k < K[j]
  BY <1>1 DEF Kept
<1>p. \A j \in 1 .. Len(C) : j # i /\ j # h => under[C[j]] # {}
  BY DEF PeopledBut
<1>3. Len(L) = Len(K) /\ L[i] = key /\ \A j \in 1 .. Len(K) : j # i => L[j] = K[j]
  BY DEF Replaced
<1>4. \A j \in 1 .. Len(C) : j # i /\ j # h => after[C[j]] = under[C[j]]
  BY DEF SameBut
<1>5. /\ after[C[i]] # {} /\ after[C[h]] # {}
      /\ \A k \in after[C[i]] : k < key
      /\ \A k \in after[C[h]] : key <= k
  BY DEF Separates
<1>6. \A k : k \in after[C[i]] \/ k \in after[C[h]] <=> k \in under[C[i]] \/ k \in under[C[h]]
  OBVIOUS
<1>7. i \in 1 .. Len(C) /\ h \in 1 .. Len(C) /\ h \in 2 .. Len(C) /\ h - 1 = i /\ h # i
  BY <1>1
<1>8. \A j \in 1 .. Len(K) : K[j] \in Int
  OBVIOUS
\* all keys beneath the two keep to the separators on their far sides
<1>9. ASSUME NEW k, k \in under[C[i]] \/ k \in under[C[h]], i > 1 PROVE K[i - 1] <= k
  <2>1. i \in 2 .. Len(C) /\ i - 1 \in 1 .. Len(K)
    BY <1>1, <1>9
  <2>2. CASE k \in under[C[i]]
    BY <1>2, <2>1, <2>2
  <2>3. CASE k \in under[C[h]]
    <3>1. K[i - 1] < K[i]
      <4>1. i \in 2 .. Len(K)
        BY <1>9
      <4> QED
        BY <1>1, <4>1
    <3>2. K[i] <= k /\ k \in Int
      BY <1>2, <1>7, <2>3
    <3> QED
      BY <1>8, <2>1, <3>1, <3>2
  <2> QED
    BY <1>9, <2>2, <2>3
<1>10. ASSUME NEW k, k \in under[C[i]] \/ k \in under[C[h]], h <= Len(K) PROVE k < K[h]
  <2>1. h \in 1 .. Len(K)
    BY <1>7, <1>10
  <2>2. CASE k \in under[C[h]]
    BY <1>2, <2>1, <2>2
  <2>3. CASE k \in under[C[i]]
    <3>1. K[i] < K[h]
      <4>1. h \in 2 .. Len(K) /\ h - 1 = i
        BY <1>7, <2>1
      <4> QED
        BY <1>1, <4>1
    <3>2. k < K[i] /\ k \in Int
      BY <1>2, <1>7, <2>3
    <3> QED
      BY <1>8, <2>1, <3>1, <3>2
  <2> QED
    BY <1>10, <2>2, <2>3
<1>11. ASSUME NEW j \in 1 .. Len(C) PROVE after[C[j]] # {} /\ after[C[j]] \subseteq Int
  <2>1. after[C[j]] \subseteq Int
    BY DEF KeySets
  <2> QED
    BY <1>p, <1>4, <1>5, <2>1
<1>12. ASSUME NEW j \in 2 .. Len(C), NEW k \in after[C[j]] PROVE L[j - 1] <= k
  <2>0. j \in 1 .. Len(C) /\ j - 1 \in 1 .. Len(K) /\ j > 1
    BY <1>1
  <2>1. CASE j = i
    <3>1. L[j - 1] = K[i - 1] /\ i > 1
      BY <1>3, <2>0, <2>1
    <3> QED
      BY <1>6, <1>9, <1>12, <2>1, <3>1
  <2>2. CASE j = h
    BY <1>3, <1>5, <1>7, <1>12, <2>2
  <2>3. CASE j # i /\ j # h
    <3>1. after[C[j]] = under[C[j]] /\ j - 1 # i
      BY <1>4, <1>7, <2>0, <2>3
    <3> QED
      BY <1>2, <1>3, <1>12, <2>0, <3>1
  <2> QED
    BY <2>1, <2>2, <2>3
<1>13. ASSUME NEW j \in 1 .. Len(L), NEW k \in after[C[j]] PROVE k < L[j]
  <2>0. j \in 1 .. Len(C) /\ j \in 1 .. Len(K)
    BY <1>1, <1>3
  <2>1. CASE j = i
    BY <1>3, <1>5, <1>13, <2>1
  <2>2. CASE j = h
    <3>1. L[j] = K[h] /\ h <= Len(K)
      BY <1>3, <1>7, <2>0, <2>2, SMTT(30)
    <3> QED
      BY <1>6, <1>10, <1>13, <2>2, <3>1
  <2>3. CASE j # i /\ j # h
    BY <1>2, <1>3, <1>4, <1>13, <2>0, <2>3
  <2> QED
    BY <2>1, <2>2, <2>3
<1>14. Kept(L, C, after)
  BY <1>11, <1>12, <1>13 DEF Kept
<1>15. Len(C) = Len(L) + 1
  BY <1>1, <1>3
<1>16. Parted(L, C, after) /\ Peopled(C, after)
  <2>1. Peopled(C, after)
    BY <1>11 DEF Peopled
  <2> QED
    BY <1>14, <1>15, <2>1, KeptParted
<1>17. ASSUME NEW k PROVE (\E j \in 1 .. Len(C) : k \in after[C[j]])
                          <=> (\E j \in 1 .. Len(C) : k \in under[C[j]])
  BY <1>4, <1>6, <1>7
<1>18. KeysUnder(C, after) = KeysUnder(C, under)
  BY <1>17 DEF KeysUnder
<1> QED
  BY <1>16, <1>18 DEF StillOver

\* The child i takes all the keys of its right neighbour, which leaves.
LEMMA RemoveParted ==
  ASSUME NEW P, NEW under \in KeySets(P), NEW after \in KeySets(P),
         NEW K \in Seq(Int), NEW C \in Seq(P), NEW L \in Seq(Int), NEW D \in Seq(P),
         Parted(K, C, under), NEW i \in 1 .. Len(K), NEW h, h = i + 1,
         PeopledBut({i, h}, C, under),
         Removed(L, K, i), Removed(D, C, h),
         after[C[i]] = under[C[i]] \union under[C[h]], after[C[i]] # {},
         SameBut({i, h}, C, under, after)
  PROVE  StillOver(L, D, after, C, under)
<1>1. /\ Len(K) \in Nat /\ Len(C) = Len(K) + 1 /\ Kept(K, C, under)
      /\ \A j \in 1 .. Len(C) : under[C[j]] \subseteq Int
      /\ \A j \in 2 .. Len(K) : K[j - 1] < K[j]
  BY PartedKept
<1>2. /\ \A j \in 1 .. Len(C) : under[C[j]] \subseteq Int
      /\ \A j \in 2 .. Len(C) : \A k \in under[C[j]] : K[j - 1] <= k
      /\ \A j \in 1 .. Len(K) : \A k \in under[C[j]] : k < K[j]
  BY <1>1 DEF Kept
<1>p. \A j \in 1 .. Len(C) : j # i /\ j # h => under[C[j]] # {}
  BY DEF PeopledBut
<1>3. /\ Len(L) = Len(K) - 1
      /\ \A j \in 1 .. i - 1 : L[j] = K[j]
      /\ \A j \in i .. Len(L) : L[j] = K[j + 1]
  BY DEF Removed
<1>4. /\ Len(D) = Len(C) - 1
      /\ \A j \in 1 .. i : D[j] = C[j]
      /\ \A j \in i + 1 .. Len(D) : D[j] = C[j + 1]
  BY DEF Removed
<1>5. \A j \in 1 .. Len(C) : j # i /\ j # h => after[C[j]] = under[C[j]]
  BY DEF SameBut
<1>6. /\ i \in 1 .. Len(C) /\ h \in 1 .. Len(C) /\ h \in 2 .. Len(C) /\ h - 1 = i /\ h # i
      /\ Len(D) = Len(K) /\ i \in 1 .. Len(D)
  BY <1>1, <1>4
<1>7. \A j \in 1 .. Len(K) : K[j] \in Int
  OBVIOUS
<1>8. \A k : k \in after[C[i]] <=> k \in under[C[i]] \/ k \in under[C[h]]
  OBVIOUS
<1>9. ASSUME NEW k \in after[C[i]], i > 1 PROVE K[i - 1] <= k
  <2>1. i \in 2 .. Len(C) /\ i - 1 \in 1 .. Len(K)
    BY <1>1, <1>9
  <2>2. CASE k \in under[C[i]]
    BY <1>2, <2>1, <2>2
  <2>3. CASE k \in under[C[h]]
    <3>1. K[i - 1] < K[i]
      <4>1. i \in 2 .. Len(K)
        BY <1>9
      <4> QED
        BY <1>1, <4>1
    <3>2. K[i] <= k /\ k \in Int
      BY <1>2, <1>6, <2>3
    <3> QED
      BY <1>7, <2>1, <3>1, <3>2
  <2> QED
    BY <1>8, <1>9, <2>2, <2>3
<1>10. ASSUME NEW k \in after[C[i]], h <= Len(K) PROVE k < K[h]
  <2>1. h \in 1 .. Len(K)
    BY <1>6, <1>10
  <2>2. CASE k \in under[C[h]]
    BY <1>2, <2>1, <2>2
  <2>3. CASE k \in under[C[i]]
    <3>1. K[i] < K[h]
      <4>1. h \in 2 .. Len(K) /\ h - 1 = i
        BY <1>6, <2>1
      <4> QED
        BY <1>1, <4>1
    <3>2. k < K[i] /\ k \in Int
      BY <1>2, <1>6, <2>3
    <3> QED
      BY <1>7, <2>1, <3>1, <3>2
  <2> QED
    BY <1>8, <1>10, <2>2, <2>3
\* the three places a child can be in
<1>11. ASSUME NEW j \in 1 .. Len(D)
       PROVE  \/ j \in 1 .. i - 1 /\ D[j] = C[j] /\ after[D[j]] = under[C[j]]
              \/ j = i /\ D[j] = C[i]
              \/ /\ j \in i + 1 .. Len(D) /\ j + 1 \in 1 .. Len(C)
                 /\ D[j] = C[j + 1] /\ after[D[j]] = under[C[j + 1]]
  <2>1. CASE j \in 1 .. i - 1
    <3>1. j \in 1 .. i /\ j \in 1 .. Len(C) /\ j # i /\ j # h
      BY <1>1, <2>1
    <3> QED
      BY <1>4, <1>5, <2>1, <3>1
  <2>2. CASE j = i
    <3>1. i \in 1 .. i
      BY <1>6
    <3>2. D[i] = C[i]
      BY <1>4, <3>1
    <3> QED
      BY <2>2, <3>2
  <2>3. CASE j \in i + 1 .. Len(D)
    <3>1. j + 1 \in 1 .. Len(C) /\ j + 1 # i /\ j + 1 # h
      <4>1. Len(D) = Len(C) - 1 /\ Len(C) \in Nat /\ i \in Nat /\ h = i + 1
        BY <1>1, <1>4, <1>6
      <4> QED
        BY ONLY <2>3, <4>1
    <3>2. D[j] = C[j + 1]
      <4>1. j \in i + 1 .. Len(D) /\ \A m \in i + 1 .. Len(D) : D[m] = C[m + 1]
        BY <1>4, <2>3
      <4> QED
        BY ONLY <4>1
    <3> QED
      BY <1>5, <2>3, <3>1, <3>2
  <2> QED
    BY <2>1, <2>2, <2>3
<1>12. ASSUME NEW j \in 1 .. Len(D) PROVE after[D[j]] # {} /\ after[D[j]] \subseteq Int
  <2>1. D[j] \in P
    OBVIOUS
  <2>2. after[D[j]] \subseteq Int
    BY <2>1 DEF KeySets
  <2>3. CASE j \in 1 .. i - 1 /\ D[j] = C[j] /\ after[D[j]] = under[C[j]]
    <3>1. j \in 1 .. Len(C) /\ j # i /\ j # h
      BY <1>1, <2>3
    <3> QED
      BY <1>p, <2>2, <2>3, <3>1
  <2>4. CASE j = i /\ D[j] = C[i]
    BY <2>2, <2>4
  <2>5. CASE /\ j \in i + 1 .. Len(D) /\ j + 1 \in 1 .. Len(C)
             /\ D[j] = C[j + 1] /\ after[D[j]] = under[C[j + 1]]
    <3>1. j + 1 # i /\ j + 1 # h
      BY <2>5
    <3> QED
      BY <1>p, <2>2, <2>5, <3>1
  <2> QED
    BY <1>11, <2>3, <2>4, <2>5
<1>13. ASSUME NEW j \in 2 .. Len(D), NEW k \in after[D[j]] PROVE L[j - 1] <= k
  <2>0. j \in 1 .. Len(D)
    OBVIOUS
  <2>1. CASE j \in 1 .. i - 1 /\ D[j] = C[j] /\ after[D[j]] = under[C[j]]
    <3>1. j \in 2 .. Len(C) /\ j - 1 \in 1 .. i - 1
      BY <1>1, <2>1
    <3> QED
      BY <1>2, <1>3, <1>13, <2>1, <3>1
  <2>2. CASE j = i /\ D[j] = C[i]
    <3>1. i > 1 /\ i - 1 \in 1 .. i - 1 /\ k \in after[C[i]]
      BY <1>13, <2>2
    <3> QED
      BY <1>3, <1>9, <2>2, <3>1
  <2>3. CASE /\ j \in i + 1 .. Len(D) /\ j + 1 \in 1 .. Len(C)
             /\ D[j] = C[j + 1] /\ after[D[j]] = under[C[j + 1]]
    <3>1. j + 1 \in 2 .. Len(C) /\ (j + 1) - 1 = j
      BY <2>3
    <3>2. j - 1 \in i .. Len(L) /\ (j - 1) + 1 = j
      <4>1. j \in Int /\ j >= i + 1 /\ j <= Len(K) /\ i \in Int
        BY <1>6, <2>3
      <4> QED
        BY <1>1, <1>3, <4>1
    <3>3. L[j - 1] = K[j]
      BY <1>3, <3>2
    <3> QED
      BY <1>2, <1>13, <2>3, <3>1, <3>3
  <2> QED
    BY <1>11, <2>0, <2>1, <2>2, <2>3
<1>14. ASSUME NEW j \in 1 .. Len(L), NEW k \in after[D[j]] PROVE k < L[j]
  <2>0. j \in 1 .. Len(D) /\ j + 1 \in 1 .. Len(K)
    <3>1. Len(L) = Len(K) - 1 /\ Len(D) = Len(K) /\ Len(K) \in Nat
      BY <1>1, <1>3, <1>6
    <3> QED
      BY <3>1
  <2>1. CASE j \in 1 .. i - 1 /\ D[j] = C[j] /\ after[D[j]] = under[C[j]]
    <3>1. j \in 1 .. Len(K)
      BY <1>1, <2>1
    <3> QED
      BY <1>2, <1>3, <1>14, <2>1, <3>1
  <2>2. CASE j = i /\ D[j] = C[i]
    <3>1. h <= Len(K) /\ k \in after[C[i]] /\ i \in i .. Len(L)
      BY <1>1, <1>14, <2>0, <2>2
    <3>2. L[j] = K[h]
      BY <1>3, <2>2, <3>1
    <3> QED
      BY <1>10, <3>1, <3>2
  <2>3. CASE /\ j \in i + 1 .. Len(D) /\ j + 1 \in 1 .. Len(C)
             /\ D[j] = C[j + 1] /\ after[D[j]] = under[C[j + 1]]
    <3>1. j \in i .. Len(L)
      BY <2>3
    <3>2. L[j] = K[j + 1]
      BY <1>3, <3>1
    <3> QED
      BY <1>2, <1>14, <2>0, <2>3, <3>2
  <2> QED
    BY <1>11, <2>0, <2>1, <2>2, <2>3
<1>15. Kept(L, D, after)
  BY <1>12, <1>13, <1>14 DEF Kept
<1>16. Len(D) = Len(L) + 1
  BY <1>1, <1>3, <1>4
<1>17. Parted(L, D, after) /\ Peopled(D, after)
  <2>1. Peopled(D, after)
    BY <1>12 DEF Peopled
  <2> QED
    BY <1>15, <1>16, <2>1, KeptParted
<1>18. ASSUME NEW k, k \in KeysUnder(D, after) PROVE k \in KeysUnder(C, under)
  <2>1. PICK j \in 1 .. Len(D) : k \in after[D[j]]
    BY <1>18 DEF KeysUnder
  <2>2. \E m \in 1 .. Len(C) : k \in under[C[m]]
    <3>1. j \in 1 .. i - 1 => j \in 1 .. Len(C)
      BY <1>1
    <3> QED
      BY <1>6, <1>8, <1>11, <2>1, <3>1
  <2> QED
    BY <2>2 DEF KeysUnder
<1>19. ASSUME NEW k, k \in KeysUnder(C, under) PROVE k \in KeysUnder(D, after)
  <2>1. PICK m \in 1 .. Len(C) : k \in under[C[m]]
    BY <1>19 DEF KeysUnder
  <2>2. \E j \in 1 .. Len(D) : k \in after[D[j]]
    <3>1. CASE m < i
      <4>1. m \in 1 .. Len(D) /\ m \in 1 .. i /\ m # i /\ m # h
        BY <1>1, <1>4, <3>1
      <4> QED
        BY <1>4, <1>5, <2>1, <4>1
    <3>2. CASE m = i \/ m = h
      <4>1. D[i] = C[i] /\ k \in after[C[i]]
        BY <1>4, <1>8, <2>1, <3>2
      <4> QED
        BY <1>6, <4>1
    <3>3. CASE m > h
      <4>1. m - 1 \in 1 .. Len(D) /\ m - 1 \in i + 1 .. Len(D) /\ m # i /\ m # h
            /\ (m - 1) + 1 = m
        BY <1>1, <1>4, <3>3
      <4>2. D[m - 1] = C[m] /\ after[C[m]] = under[C[m]]
        BY <1>4, <1>5, <4>1
      <4> QED
        BY <2>1, <4>1, <4>2
    <3>4. m < i \/ m = i \/ m = h \/ m > h
      BY <1>1
    <3> QED
      BY <3>1, <3>2, <3>3, <3>4
  <2> QED
    BY <2>2 DEF KeysUnder
<1>20. KeysUnder(D, after) = KeysUnder(C, under)
  BY <1>18, <1>19
<1> QED
  BY <1>17, <1>20 DEF StillOver

\* The parent p after an operation beneath it that gave it d more children: sound,
\* over the same keys.
ParentGot(m, p, d, under, after, P) ==
    /\ SoundInternal(m, after, P) /\ Peopled(m.children, after)
    /\ GetSize(m) = GetSize(p) + d
    /\ KeysUnder(m.children, after) = KeysUnder(p.children, under)
    /\ m.parent = p.parent

LEMMA ParentWith ==
  ASSUME NEW P, NEW under, NEW after, NEW p \in InternalPages(P),
         NEW L \in Seq(Int), NEW D \in Seq(P), StillOver(L, D, after, p.children, under),
         NEW d, Len(D) = GetSize(p) + d
  PROVE  ParentGot(WithChildren(p, L, D), p, d, under, after, P)
<1>1. /\ Parted(L, D, after) /\ Peopled(D, after)
      /\ KeysUnder(D, after) = KeysUnder(p.children, under)
  BY DEF StillOver
<1>2. PICK m : m = WithChildren(p, L, D)
  OBVIOUS
<1>3. InternalGot(m, p, L, D, after, P)
  BY <1>1, <1>2, InternalWith
<1>4. SoundInternal(m, after, P) /\ m.children = D /\ m.parent = p.parent /\ GetSize(m) = Len(D)
  BY <1>3 DEF InternalGot
<1>5. ParentGot(m, p, d, under, after, P)
  BY <1>1, <1>4, Zenon DEF ParentGot
<1> QED
  BY <1>2, <1>5

\* InsertNodeAfter: when the child old was split, key separates what stayed in it
\* from what went to new, and the two have what old had, the parent finds all of
\* it again.
THEOREM ParentAfterSplit ==
  ASSUME NEW P, NEW under \in KeySets(P), NEW after \in KeySets(P), NEW p,
         SoundInternal(p, under, P), Peopled(p.children, under),
         NEW i \in 1 .. Len(p.children), NEW old, old = p.children[i],
         NEW key, NEW new \in P, Separates(key, after[old], after[new]),
         under[old] = after[old] \union after[new],
         SameBut({i}, p.children, under, after)
  PROVE  ParentGot(InsertNodeAfter(p, old, key, new), p, 1, under, after, P)
<1>0. PICK K, C, h : K = p.keys /\ C = p.children /\ h = i + 1
  OBVIOUS
<1>1. /\ p \in InternalPages(P) /\ K \in Seq(Int) /\ C \in Seq(P) /\ Parted(K, C, under)
      /\ Len(C) = Len(K) + 1 /\ GetSize(p) = Len(C)
  BY <1>0, InternalFacts
<1>2. /\ i \in 1 .. Len(C) /\ old = C[i] /\ Len(C) \in Nat /\ Len(K) \in Nat
      /\ i \in 1 .. Len(K) + 1 /\ h \in 1 .. Len(C) + 1 /\ key \in Int
  BY <1>0, <1>1 DEF Separates
<1>3. ChildIndex(p, old) = i
  <2>1. \A j \in 1 .. Len(C) : C[j] = C[i] => j = i
    BY <1>1, <1>2 DEF Parted
  <2> QED
    BY <1>0, <1>2, <2>1, ChildIndexFinds, SMTT(30)
<1>4. PICK L, D : L = InsertAt(K, i, key) /\ D = InsertAt(C, h, new)
  OBVIOUS
<1>5. L \in Seq(Int) /\ Inserted(L, K, i, key)
  BY <1>1, <1>2, <1>4, InsertAtInserts
<1>6. D \in Seq(P) /\ Inserted(D, C, h, new)
  BY <1>1, <1>2, <1>4, InsertAtInserts
<1>7. StillOver(L, D, after, C, under)
  <2>1. /\ Peopled(C, under) /\ SameBut({i}, C, under, after)
        /\ Separates(key, after[C[i]], after[new])
        /\ under[C[i]] = after[C[i]] \union after[new]
    BY <1>0, <1>2
  <2> QED
    BY <1>0, <1>1, <1>2, <1>5, <1>6, <2>1, InsertParted
<1>8. InsertNodeAfter(p, old, key, new) = WithChildren(p, L, D)
  BY <1>0, <1>3, <1>4, Zenon DEF InsertNodeAfter, WithChildren
<1>9. Len(D) = GetSize(p) + 1
  BY <1>1, <1>6 DEF Inserted
<1>10. ParentGot(WithChildren(p, L, D), p, 1, under, after, P)
  <2>1. StillOver(L, D, after, p.children, under)
    BY <1>0, <1>7
  <2> QED
    BY ONLY <1>1, <1>5, <1>6, <1>9, <2>1, ParentWith
<1> QED
  BY <1>8, <1>10

\* SetKeyAt in Redistribute: the separator of two neighbours that lend and
\* borrow is replaced by the key that separates them now, and the parent finds all
\* that is beneath it again.
THEOREM ParentAfterLoan ==
  ASSUME NEW P, NEW under \in KeySets(P), NEW after \in KeySets(P), NEW p,
         SoundInternal(p, under, P), NEW i \in 1 .. Len(p.keys),
         PeopledBut({i, i + 1}, p.children, under), NEW left, NEW right, NEW key,
         left = p.children[i], right = p.children[i + 1],
         Separates(key, after[left], after[right]),
         after[left] \union after[right] = under[left] \union under[right],
         SameBut({i, i + 1}, p.children, under, after)
  PROVE  ParentGot([p EXCEPT !.keys[i] = key], p, 0, under, after, P)
<1>0. PICK K, C, h, L : /\ K = p.keys /\ C = p.children /\ h = i + 1
                        /\ L = [K EXCEPT ![i] = key]
  OBVIOUS
<1>1. /\ p \in InternalPages(P) /\ K \in Seq(Int) /\ C \in Seq(P) /\ Parted(K, C, under)
      /\ GetSize(p) = Len(C)
  BY <1>0, InternalFacts
<1>2. i \in 1 .. Len(K) /\ key \in Int /\ left = C[i] /\ right = C[h]
  BY <1>0 DEF Separates
<1>3. L \in Seq(Int) /\ Replaced(L, K, i, key)
  <2>1. L = [K EXCEPT ![i] = key]
    BY <1>0
  <2>2. L \in Seq(Int) /\ Len(L) = Len(K)
    BY <1>1, <1>2, <2>1
  <2>3. L[i] = key /\ \A j \in 1 .. Len(K) : j # i => L[j] = K[j]
    BY <1>1, <1>2, <2>1
  <2> QED
    BY <2>2, <2>3 DEF Replaced
<1>4. StillOver(L, C, after, C, under)
  <2>1. /\ PeopledBut({i, h}, C, under) /\ SameBut({i, h}, C, under, after)
        /\ Separates(key, after[C[i]], after[C[h]])
        /\ after[C[i]] \union after[C[h]] = under[C[i]] \union under[C[h]]
    BY <1>0, <1>2
  <2> QED
    BY <1>0, <1>1, <1>2, <1>3, <2>1, ReplaceParted
<1>5. [p EXCEPT !.keys[i] = key] = WithChildren(p, L, C)
  BY <1>0, <1>1 DEF WithChildren, InternalPages
<1>6. ParentGot(WithChildren(p, L, C), p, 0, under, after, P)
  <2>1. StillOver(L, C, after, p.children, under)
    BY <1>0, <1>4
  <2>2. Len(C) = GetSize(p) + 0
    BY <1>1
  <2> QED
    BY ONLY <1>1, <1>3, <2>1, <2>2, ParentWith
<1> QED
  BY <1>5, <1>6, Zenon

\* RemoveSeparator: the left one of two neighbours took all the right one had, the
\* right one and the key between them leave the parent.
THEOREM ParentAfterMerge ==
  ASSUME NEW P, NEW under \in KeySets(P), NEW after \in KeySets(P), NEW p,
         SoundInternal(p, under, P), NEW i \in 1 .. Len(p.keys),
         PeopledBut({i, i + 1}, p.children, under), NEW left, NEW right,
         left = p.children[i], right = p.children[i + 1],
         after[left] = under[left] \union under[right], after[left] # {},
         SameBut({i, i + 1}, p.children, under, after)
  PROVE  ParentGot(RemoveSeparator(p, i), p, -1, under, after, P)
<1>0. PICK K, C, h : K = p.keys /\ C = p.children /\ h = i + 1
  OBVIOUS
<1>1. /\ p \in InternalPages(P) /\ K \in Seq(Int) /\ C \in Seq(P) /\ Parted(K, C, under)
      /\ Len(C) = Len(K) + 1 /\ GetSize(p) = Len(C)
  BY <1>0, InternalFacts
<1>2. i \in 1 .. Len(K) /\ h \in 1 .. Len(C) /\ left = C[i] /\ right = C[h]
  BY <1>0, <1>1
<1>3. PICK L, D : L = RemoveAt(K, i) /\ D = RemoveAt(C, h)
  OBVIOUS
<1>4. L \in Seq(Int) /\ Removed(L, K, i)
  BY <1>1, <1>2, <1>3, RemoveAtRemoves
<1>5. D \in Seq(P) /\ Removed(D, C, h)
  BY <1>1, <1>2, <1>3, RemoveAtRemoves
<1>6. StillOver(L, D, after, C, under)
  <2>1. /\ PeopledBut({i, h}, C, under) /\ SameBut({i, h}, C, under, after)
        /\ after[C[i]] = under[C[i]] \union under[C[h]] /\ after[C[i]] # {}
    BY <1>0, <1>2
  <2> QED
    BY <1>0, <1>1, <1>2, <1>4, <1>5, <2>1, RemoveParted
<1>7. RemoveSeparator(p, i) = WithChildren(p, L, D)
  BY <1>0, <1>3, Zenon DEF RemoveSeparator, WithChildren
<1>8. Len(D) = GetSize(p) + -1
  BY <1>1, <1>5 DEF Removed
<1>9. ParentGot(WithChildren(p, L, D), p, -1, under, after, P)
  <2>1. StillOver(L, D, after, p.children, under)
    BY <1>0, <1>6
  <2> QED
    BY ONLY <1>1, <1>4, <1>5, <1>8, <2>1, ParentWith
<1> QED
  BY <1>7, <1>9

-----------------------------------------------------------------------------
(***************************************************************************)
(* A page of either kind and its parent: what one round of                 *)
(* InsertIntoParent or HandleUnderflow does.  below gives the keys beneath *)
(* the page's own children, if it has any; under and after those beneath   *)
(* the parent's children before the round and after it.                    *)
(***************************************************************************)
SoundPage(n, below, E, P) ==
    \/ SoundLeaf(n, E, P)
    \/ SoundInternal(n, below, P) /\ Peopled(n.children, below)

KeysIn(n, below) ==
    IF n.leaf THEN KeysOf(n.entries) ELSE KeysUnder(n.children, below)

\* As Separates, of pages that may be empty.
Between(key, L, R) ==
    /\ key \in Int
    /\ \A k \in L : k < key
    /\ \A k \in R : key <= k

\* Two neighbours of one kind with the keys S between them, key in the middle.
PagePair(l, r, key, S, below, E, P) ==
    /\ SoundPage(l, below, E, P) /\ SoundPage(r, below, E, P) /\ l.leaf = r.leaf
    /\ Separates(key, KeysIn(l, below), KeysIn(r, below))
    /\ KeysIn(l, below) \union KeysIn(r, below) = S

LEMMA LeafKeysIn ==
  ASSUME NEW E, NEW P, NEW n, NEW below, SoundLeaf(n, E, P)
  PROVE  n.leaf = TRUE /\ KeysIn(n, below) = KeysOf(n.entries) /\ n.entries \in Seq(E)
<1>1. n.leaf = TRUE /\ n.entries \in Seq(E)
  BY DEF SoundLeaf, LeafPages
<1> QED
  BY <1>1 DEF KeysIn

LEMMA InternalKeysIn ==
  ASSUME NEW P, NEW n, NEW below, SoundInternal(n, below, P)
  PROVE  /\ n.leaf = FALSE /\ KeysIn(n, below) = KeysUnder(n.children, below)
         /\ n.children \in Seq(P) /\ Len(n.children) >= 1
<1>1. PICK K, C : K = n.keys /\ C = n.children
  OBVIOUS
<1>2. n.leaf = FALSE /\ C \in Seq(P) /\ K \in Seq(Int) /\ Len(C) = Len(K) + 1
  BY <1>1, InternalFacts
<1>3. Len(K) \in Nat
  BY <1>2
<1> QED
  BY <1>1, <1>2, <1>3 DEF KeysIn

LEMMA PairOfLeaves ==
  ASSUME NEW E, NEW P, HaveKeys(E), NEW below, NEW l, NEW r, NEW key, NEW S,
         NEW s \in Seq(E), NEW t \in Seq(E),
         LeafPair(l, r, key, s \o t, E, P), S = KeysOf(s) \union KeysOf(t)
  PROVE  PagePair(l, r, key, S, below, E, P)
<1>1. /\ SoundLeaf(l, E, P) /\ SoundLeaf(r, E, P) /\ l.entries \o r.entries = s \o t
      /\ Separates(key, KeysOf(l.entries), KeysOf(r.entries))
  BY DEF LeafPair
<1>2. l.leaf = TRUE /\ KeysIn(l, below) = KeysOf(l.entries) /\ l.entries \in Seq(E)
  BY <1>1, LeafKeysIn
<1>3. r.leaf = TRUE /\ KeysIn(r, below) = KeysOf(r.entries) /\ r.entries \in Seq(E)
  BY <1>1, LeafKeysIn
<1>4. PICK a \in Seq(E), b \in Seq(E) : a = l.entries /\ b = r.entries
  BY <1>2, <1>3
<1>5. KeysOf(a \o b) = KeysOf(a) \union KeysOf(b) /\ KeysOf(s \o t) = KeysOf(s) \union KeysOf(t)
  BY ConcatFacts
<1>6. KeysIn(l, below) \union KeysIn(r, below) = S
  BY <1>1, <1>2, <1>3, <1>4, <1>5
<1> QED
  BY <1>1, <1>2, <1>3, <1>6 DEF PagePair, SoundPage

LEMMA PairOfInternals ==
  ASSUME NEW E, NEW P, NEW below \in KeySets(P), NEW l, NEW r, NEW key, NEW S,
         NEW C \in Seq(P), InternalPair(l, r, key, C, below, P), S = KeysUnder(C, below)
  PROVE  PagePair(l, r, key, S, below, E, P)
<1>1. /\ SoundInternal(l, below, P) /\ SoundInternal(r, below, P)
      /\ Peopled(l.children, below) /\ Peopled(r.children, below)
      /\ Follows(C, l.children, r.children)
      /\ Separates(key, KeysUnder(l.children, below), KeysUnder(r.children, below))
  BY DEF InternalPair
<1>2. l.leaf = FALSE /\ KeysIn(l, below) = KeysUnder(l.children, below) /\ l.children \in Seq(P)
  BY <1>1, InternalKeysIn
<1>3. r.leaf = FALSE /\ KeysIn(r, below) = KeysUnder(r.children, below) /\ r.children \in Seq(P)
  BY <1>1, InternalKeysIn
<1>4. PICK a \in Seq(P), b \in Seq(P) : a = l.children /\ b = r.children
  BY <1>2, <1>3
<1>5. Follows(C, a, b)
  BY <1>1, <1>4
<1>6. KeysUnder(C, below) = KeysUnder(a, below) \union KeysUnder(b, below)
  BY <1>5, KeysUnderFollows
<1>7. KeysIn(l, below) \union KeysIn(r, below) = S
  BY <1>2, <1>3, <1>4, <1>6
<1> QED
  BY <1>1, <1>2, <1>3, <1>7 DEF PagePair, SoundPage

\* MoveHalfTo on a page of either kind.
LEMMA SplitSound ==
  ASSUME NEW E, NEW P, HaveKeys(E), NEW below \in KeySets(P), NEW n,
         SoundPage(n, below, E, P), GetSize(n) = GetMaxSize(n) + 1
  PROVE  /\ PagePair(StayingHalf(n), MovingHalf(n), SplitKey(n), KeysIn(n, below), below, E, P)
         /\ GetSize(StayingHalf(n)) \in MinSize(n) .. GetMaxSize(n)
         /\ GetSize(MovingHalf(n)) \in MinSize(n) .. GetMaxSize(n)
<1>0. PICK x, y, key : x = StayingHalf(n) /\ y = MovingHalf(n) /\ key = SplitKey(n)
  OBVIOUS
<1>1. CASE SoundLeaf(n, E, P)
  <2>1. LeafHalves(n, x, y, E, P)
    BY <1>0, <1>1, LeafSplitSound
  <2>2. /\ SoundLeaf(x, E, P) /\ SoundLeaf(y, E, P) /\ x.entries \o y.entries = n.entries
        /\ Separates(key, KeysOf(x.entries), KeysOf(y.entries))
        /\ GetSize(x) \in MinSize(n) .. GetMaxSize(n)
        /\ GetSize(y) \in MinSize(n) .. GetMaxSize(n)
    BY <1>0, <2>1, Zenon DEF LeafHalves
  <2>3. x.entries \in Seq(E) /\ y.entries \in Seq(E) /\ KeysIn(n, below) = KeysOf(n.entries)
    BY <1>1, <2>2, LeafKeysIn
  <2>4. PICK a \in Seq(E), b \in Seq(E) : a = x.entries /\ b = y.entries
    BY <2>3
  <2>5. LeafPair(x, y, key, a \o b, E, P)
    BY <2>2, <2>4 DEF LeafPair
  <2>6. KeysIn(n, below) = KeysOf(a) \union KeysOf(b)
    <3>1. KeysOf(a \o b) = KeysOf(a) \union KeysOf(b)
      BY ConcatFacts
    <3> QED
      BY <2>2, <2>3, <2>4, <3>1
  <2>7. PagePair(x, y, key, KeysIn(n, below), below, E, P)
    BY <2>5, <2>6, PairOfLeaves
  <2> QED
    BY <1>0, <2>2, <2>7
<1>2. CASE SoundInternal(n, below, P) /\ Peopled(n.children, below)
  <2>1. InternalHalves(n, x, y, below, P)
    BY <1>0, <1>2, InternalSplitSound
  <2>2. /\ SoundInternal(x, below, P) /\ SoundInternal(y, below, P)
        /\ Peopled(x.children, below) /\ Peopled(y.children, below)
        /\ x.children \o y.children = n.children
        /\ Separates(key, KeysUnder(x.children, below), KeysUnder(y.children, below))
        /\ GetSize(x) \in MinSize(n) .. GetMaxSize(n)
        /\ GetSize(y) \in MinSize(n) .. GetMaxSize(n)
    BY <1>0, <2>1, Zenon DEF InternalHalves
  <2>3. x.children \in Seq(P) /\ y.children \in Seq(P)
    BY <2>2, InternalKeysIn
  <2>4. KeysIn(n, below) = KeysUnder(n.children, below) /\ n.children \in Seq(P)
    BY <1>2, InternalKeysIn
  <2>5. PICK C \in Seq(P), a \in Seq(P), b \in Seq(P) :
             C = n.children /\ a = x.children /\ b = y.children
    BY <2>3, <2>4
  <2>6. Follows(a \o b, a, b)
    BY ConcatFollows
  <2>7. Follows(C, x.children, y.children)
    BY <2>2, <2>5, <2>6
  <2>8. InternalPair(x, y, key, C, below, P)
    BY <2>2, <2>7 DEF InternalPair
  <2>9. PagePair(x, y, key, KeysIn(n, below), below, E, P)
    BY <2>4, <2>5, <2>8, PairOfInternals
  <2> QED
    BY <1>0, <2>2, <2>9
<1> QED
  BY <1>1, <1>2 DEF SoundPage

LEMMA BetweenApart ==
  ASSUME NEW E, HaveKeys(E), NEW s \in Seq(E), NEW t \in Seq(E), NEW key,
         InKeyOrder(s), InKeyOrder(t), Between(key, KeysOf(s), KeysOf(t))
  PROVE  KeysApart(s, t)
<1>1. KeysOf(s) \subseteq Int /\ KeysOf(t) \subseteq Int
  BY OrderedFacts
<1>2. key \in Int /\ (\A k \in KeysOf(s) : k < key) /\ (\A k \in KeysOf(t) : key <= k)
  BY DEF Between
<1>3. ASSUME NEW a \in KeysOf(s), NEW b \in KeysOf(t) PROVE a < b
  <2>1. a \in Int /\ b \in Int /\ a < key /\ key <= b
    BY <1>1, <1>2
  <2> QED
    BY <1>2, <2>1
<1> QED
  BY <1>3 DEF KeysApart

LEMMA BetweenSeparates ==
  ASSUME NEW P, NEW below \in KeySets(P), NEW l, NEW r, NEW key,
         SoundInternal(l, below, P), SoundInternal(r, below, P),
         Peopled(l.children, below), Peopled(r.children, below),
         Between(key, KeysIn(l, below), KeysIn(r, below))
  PROVE  Separates(key, KeysUnder(l.children, below), KeysUnder(r.children, below))
<1>1. /\ KeysIn(l, below) = KeysUnder(l.children, below)
      /\ l.children \in Seq(P) /\ Len(l.children) >= 1
  BY InternalKeysIn
<1>2. /\ KeysIn(r, below) = KeysUnder(r.children, below)
      /\ r.children \in Seq(P) /\ Len(r.children) >= 1
  BY InternalKeysIn
<1>3. KeysUnder(l.children, below) # {}
  BY <1>1, PeopledHasKeys
<1>4. KeysUnder(r.children, below) # {}
  BY <1>2, PeopledHasKeys
<1> QED
  BY <1>1, <1>2, <1>3, <1>4, Zenon DEF Between, Separates

\* The lender m was n, and the borrower m was n.
Lent(m, n) == GetSize(m) \in MinSize(n) .. GetSize(n) - 1

Grew(m, n) == GetSize(m) = GetSize(n) + 1

\* MoveLastToFrontOf between pages of either kind.
LEMMA LoanFromLeft ==
  ASSUME NEW E, NEW P, HaveKeys(E), NEW below \in KeySets(P), NEW left, NEW n, NEW down,
         SoundPage(left, below, E, P), SoundPage(n, below, E, P), left.leaf = n.leaf,
         Between(down, KeysIn(left, below), KeysIn(n, below)),
         GetSize(left) > MinSize(left)
  PROVE  /\ PagePair(GiveLast(left), TakeLastOf(n, left, down), KeyAfterTakingLast(left),
                     KeysIn(left, below) \union KeysIn(n, below), below, E, P)
         /\ Lent(GiveLast(left), left) /\ Grew(TakeLastOf(n, left, down), n)
<1>0. PICK x, y, key : /\ x = GiveLast(left) /\ y = TakeLastOf(n, left, down)
                       /\ key = KeyAfterTakingLast(left)
  OBVIOUS
<1>1. CASE SoundLeaf(left, E, P) /\ SoundLeaf(n, E, P)
  <2>1. /\ left.entries \in Seq(E) /\ InKeyOrder(left.entries)
        /\ n.entries \in Seq(E) /\ InKeyOrder(n.entries)
    BY <1>1, LeafFacts
  <2>2. /\ KeysIn(left, below) = KeysOf(left.entries)
        /\ KeysIn(n, below) = KeysOf(n.entries)
    BY <1>1, LeafKeysIn
  <2>3. PICK s \in Seq(E), t \in Seq(E) : s = left.entries /\ t = n.entries
    BY <2>1
  <2>4. KeysApart(left.entries, n.entries)
    <3>1. Between(down, KeysOf(s), KeysOf(t)) /\ InKeyOrder(s) /\ InKeyOrder(t)
      BY <2>1, <2>2, <2>3
    <3> QED
      BY <2>3, <3>1, BetweenApart
  <2>5. /\ LeafPair(x, y, key, left.entries \o n.entries, E, P)
        /\ GetSize(x) \in MinSize(left) .. GetSize(left) - 1
        /\ GetSize(y) = GetSize(n) + 1
    BY <1>0, <1>1, <2>4, LeafBorrowsFromLeft
  <2>6. LeafPair(x, y, key, s \o t, E, P)
    BY <2>3, <2>5
  <2>7. PagePair(x, y, key, KeysOf(s) \union KeysOf(t), below, E, P)
    BY <2>6, PairOfLeaves
  <2> QED
    BY <1>0, <2>2, <2>3, <2>5, <2>7 DEF Lent, Grew
<1>2. CASE /\ SoundInternal(left, below, P) /\ Peopled(left.children, below)
           /\ SoundInternal(n, below, P) /\ Peopled(n.children, below)
  <2>1. KeysIn(left, below) = KeysUnder(left.children, below) /\ left.children \in Seq(P)
    BY <1>2, InternalKeysIn
  <2>2. KeysIn(n, below) = KeysUnder(n.children, below) /\ n.children \in Seq(P)
    BY <1>2, InternalKeysIn
  <2>3. Separates(down, KeysUnder(left.children, below), KeysUnder(n.children, below))
    BY <1>2, BetweenSeparates
  <2>4. /\ InternalPair(x, y, key, left.children \o n.children, below, P)
        /\ GetSize(x) \in MinSize(left) .. GetSize(left) - 1
        /\ GetSize(y) = GetSize(n) + 1
    BY <1>0, <1>2, <2>3, InternalBorrowsFromLeft
  <2>5. PICK a, b, C : a = left.children /\ b = n.children /\ C = a \o b
    OBVIOUS
  <2>6. a \in Seq(P) /\ b \in Seq(P) /\ C \in Seq(P) /\ Follows(C, a, b)
    BY <2>1, <2>2, <2>5, ConcatFollows
  <2>7. KeysUnder(C, below) = KeysUnder(a, below) \union KeysUnder(b, below)
    BY <2>6, KeysUnderFollows
  <2>8. InternalPair(x, y, key, C, below, P)
    BY <2>4, <2>5
  <2>9. PagePair(x, y, key, KeysUnder(C, below), below, E, P)
    BY <2>6, <2>8, PairOfInternals
  <2> QED
    BY <1>0, <2>1, <2>2, <2>4, <2>5, <2>7, <2>9 DEF Lent, Grew
<1> QED
  <2>1. SoundLeaf(left, E, P) => left.leaf = TRUE
    BY DEF SoundLeaf, LeafPages
  <2>2. SoundLeaf(n, E, P) => n.leaf = TRUE
    BY DEF SoundLeaf, LeafPages
  <2>3. SoundInternal(left, below, P) => left.leaf = FALSE
    BY DEF SoundInternal, InternalPages
  <2>4. SoundInternal(n, below, P) => n.leaf = FALSE
    BY DEF SoundInternal, InternalPages
  <2> QED
    BY <1>1, <1>2, <2>1, <2>2, <2>3, <2>4 DEF SoundPage

\* MoveFirstToEndOf between pages of either kind.
LEMMA LoanFromRight ==
  ASSUME NEW E, NEW P, HaveKeys(E), NEW below \in KeySets(P), NEW n, NEW right, NEW down,
         SoundPage(n, below, E, P), SoundPage(right, below, E, P), n.leaf = right.leaf,
         Between(down, KeysIn(n, below), KeysIn(right, below)),
         GetSize(right) > MinSize(right)
  PROVE  /\ PagePair(TakeFirstOf(n, right, down), GiveFirst(right),
                     KeyAfterTakingFirst(right),
                     KeysIn(n, below) \union KeysIn(right, below), below, E, P)
         /\ Grew(TakeFirstOf(n, right, down), n) /\ Lent(GiveFirst(right), right)
<1>0. PICK x, y, key : /\ x = TakeFirstOf(n, right, down) /\ y = GiveFirst(right)
                       /\ key = KeyAfterTakingFirst(right)
  OBVIOUS
<1>1. CASE SoundLeaf(n, E, P) /\ SoundLeaf(right, E, P)
  <2>1. /\ n.entries \in Seq(E) /\ InKeyOrder(n.entries)
        /\ right.entries \in Seq(E) /\ InKeyOrder(right.entries)
    BY <1>1, LeafFacts
  <2>2. /\ KeysIn(n, below) = KeysOf(n.entries)
        /\ KeysIn(right, below) = KeysOf(right.entries)
    BY <1>1, LeafKeysIn
  <2>3. PICK s \in Seq(E), t \in Seq(E) : s = n.entries /\ t = right.entries
    BY <2>1
  <2>4. KeysApart(n.entries, right.entries)
    <3>1. Between(down, KeysOf(s), KeysOf(t)) /\ InKeyOrder(s) /\ InKeyOrder(t)
      BY <2>1, <2>2, <2>3
    <3> QED
      BY <2>3, <3>1, BetweenApart
  <2>5. /\ LeafPair(x, y, key, n.entries \o right.entries, E, P)
        /\ GetSize(x) = GetSize(n) + 1
        /\ GetSize(y) \in MinSize(right) .. GetSize(right) - 1
    BY <1>0, <1>1, <2>4, LeafBorrowsFromRight
  <2>6. LeafPair(x, y, key, s \o t, E, P)
    BY <2>3, <2>5
  <2>7. PagePair(x, y, key, KeysOf(s) \union KeysOf(t), below, E, P)
    BY <2>6, PairOfLeaves
  <2> QED
    BY <1>0, <2>2, <2>3, <2>5, <2>7 DEF Lent, Grew
<1>2. CASE /\ SoundInternal(n, below, P) /\ Peopled(n.children, below)
           /\ SoundInternal(right, below, P) /\ Peopled(right.children, below)
  <2>1. KeysIn(n, below) = KeysUnder(n.children, below) /\ n.children \in Seq(P)
    BY <1>2, InternalKeysIn
  <2>2. KeysIn(right, below) = KeysUnder(right.children, below) /\ right.children \in Seq(P)
    BY <1>2, InternalKeysIn
  <2>3. Separates(down, KeysUnder(n.children, below), KeysUnder(right.children, below))
    BY <1>2, BetweenSeparates
  <2>4. /\ InternalPair(x, y, key, n.children \o right.children, below, P)
        /\ GetSize(x) = GetSize(n) + 1
        /\ GetSize(y) \in MinSize(right) .. GetSize(right) - 1
    BY <1>0, <1>2, <2>3, InternalBorrowsFromRight
  <2>5. PICK a, b, C : a = n.children /\ b = right.children /\ C = a \o b
    OBVIOUS
  <2>6. a \in Seq(P) /\ b \in Seq(P) /\ C \in Seq(P) /\ Follows(C, a, b)
    BY <2>1, <2>2, <2>5, ConcatFollows
  <2>7. KeysUnder(C, below) = KeysUnder(a, below) \union KeysUnder(b, below)
    BY <2>6, KeysUnderFollows
  <2>8. InternalPair(x, y, key, C, below, P)
    BY <2>4, <2>5
  <2>9. PagePair(x, y, key, KeysUnder(C, below), below, E, P)
    BY <2>6, <2>8, PairOfInternals
  <2> QED
    BY <1>0, <2>1, <2>2, <2>4, <2>5, <2>7, <2>9 DEF Lent, Grew
<1> QED
  <2>1. SoundLeaf(n, E, P) => n.leaf = TRUE
    BY DEF SoundLeaf, LeafPages
  <2>2. SoundLeaf(right, E, P) => right.leaf = TRUE
    BY DEF SoundLeaf, LeafPages
  <2>3. SoundInternal(n, below, P) => n.leaf = FALSE
    BY DEF SoundInternal, InternalPages
  <2>4. SoundInternal(right, below, P) => right.leaf = FALSE
    BY DEF SoundInternal, InternalPages
  <2> QED
    BY <1>1, <1>2, <2>1, <2>2, <2>3, <2>4 DEF SoundPage

\* MoveAllTo between pages of either kind.
LEMMA MergeSound ==
  ASSUME NEW E, NEW P, HaveKeys(E), NEW below \in KeySets(P), NEW left, NEW right, NEW down,
         SoundPage(left, below, E, P), SoundPage(right, below, E, P), left.leaf = right.leaf,
         Between(down, KeysIn(left, below), KeysIn(right, below)),
         NeitherLends(left, right)
  PROVE  /\ SoundPage(TakeAllOf(left, right, down), below, E, P)
         /\ GetSize(TakeAllOf(left, right, down)) < GetMaxSize(TakeAllOf(left, right, down))
         /\ KeysIn(TakeAllOf(left, right, down), below) =
                KeysIn(left, below) \union KeysIn(right, below)
<1>0. PICK m : m = TakeAllOf(left, right, down)
  OBVIOUS
<1>1. CASE SoundLeaf(left, E, P) /\ SoundLeaf(right, E, P)
  <2>1. /\ left.entries \in Seq(E) /\ InKeyOrder(left.entries)
        /\ right.entries \in Seq(E) /\ InKeyOrder(right.entries)
    BY <1>1, LeafFacts
  <2>2. /\ KeysIn(left, below) = KeysOf(left.entries)
        /\ KeysIn(right, below) = KeysOf(right.entries)
    BY <1>1, LeafKeysIn
  <2>3. PICK s \in Seq(E), t \in Seq(E) : s = left.entries /\ t = right.entries
    BY <2>1
  <2>4. KeysApart(left.entries, right.entries)
    <3>1. Between(down, KeysOf(s), KeysOf(t)) /\ InKeyOrder(s) /\ InKeyOrder(t)
      BY <2>1, <2>2, <2>3
    <3> QED
      BY <2>3, <3>1, BetweenApart
  <2>5. /\ SoundLeaf(m, E, P) /\ m.entries = left.entries \o right.entries
        /\ GetSize(m) < GetMaxSize(m)
    <3>1. LeafMerged(m, left, right, E, P)
      BY <1>0, <1>1, <2>4, LeafMergeSound
    <3> QED
      BY <3>1, Zenon DEF LeafMerged
  <2>6. KeysIn(m, below) = KeysOf(m.entries)
    BY <2>5, LeafKeysIn
  <2>7. KeysOf(s \o t) = KeysOf(s) \union KeysOf(t)
    BY ConcatFacts
  <2>8. KeysIn(m, below) = KeysIn(left, below) \union KeysIn(right, below)
    BY <2>2, <2>3, <2>5, <2>6, <2>7
  <2> QED
    BY <1>0, <2>5, <2>8 DEF SoundPage
<1>2. CASE /\ SoundInternal(left, below, P) /\ Peopled(left.children, below)
           /\ SoundInternal(right, below, P) /\ Peopled(right.children, below)
  <2>1. KeysIn(left, below) = KeysUnder(left.children, below)
    BY <1>2, InternalKeysIn
  <2>2. KeysIn(right, below) = KeysUnder(right.children, below)
    BY <1>2, InternalKeysIn
  <2>3. Separates(down, KeysUnder(left.children, below), KeysUnder(right.children, below))
    BY <1>2, BetweenSeparates
  <2>4. /\ SoundInternal(m, below, P) /\ Peopled(m.children, below)
        /\ KeysUnder(m.children, below) =
               KeysUnder(left.children, below) \union KeysUnder(right.children, below)
        /\ GetSize(m) < GetMaxSize(m)
    <3>1. InternalMerged(m, left, right, below, P)
      BY <1>0, <1>2, <2>3, InternalMergeSound
    <3> QED
      BY <3>1, Zenon DEF InternalMerged
  <2>5. KeysIn(m, below) = KeysUnder(m.children, below)
    BY <2>4, InternalKeysIn
  <2> QED
    BY <1>0, <2>1, <2>2, <2>4, <2>5 DEF SoundPage
<1> QED
  <2>1. SoundLeaf(left, E, P) => left.leaf = TRUE
    BY DEF SoundLeaf, LeafPages
  <2>2. SoundLeaf(right, E, P) => right.leaf = TRUE
    BY DEF SoundLeaf, LeafPages
  <2>3. SoundInternal(left, below, P) => left.leaf = FALSE
    BY DEF SoundInternal, InternalPages
  <2>4. SoundInternal(right, below, P) => right.leaf = FALSE
    BY DEF SoundInternal, InternalPages
  <2> QED
    BY <1>1, <1>2, <2>1, <2>2, <2>3, <2>4 DEF SoundPage

\* Each separator of a sound parent lies between what is beneath the two children
\* beside it.
LEMMA SiblingsBetween ==
  ASSUME NEW P, NEW under \in KeySets(P), NEW p, SoundInternal(p, under, P),
         NEW i \in 1 .. Len(p.keys)
  PROVE  Between(p.keys[i], under[p.children[i]], under[p.children[i + 1]])
<1>0. PICK K, C : K = p.keys /\ C = p.children
  OBVIOUS
<1>1. K \in Seq(Int) /\ C \in Seq(P) /\ Parted(K, C, under)
  BY <1>0, InternalFacts
<1>2. Len(K) \in Nat /\ Len(C) = Len(K) + 1 /\ Kept(K, C, under)
  BY <1>1, PartedKept
<1>3. i \in 1 .. Len(K) /\ i + 1 \in 2 .. Len(C) /\ (i + 1) - 1 = i /\ K[i] \in Int
  BY <1>0, <1>1, <1>2
<1>4. \A k \in under[C[i]] : k < K[i]
  BY <1>2, <1>3 DEF Kept
<1>5. \A k \in under[C[i + 1]] : K[i] <= k
  BY <1>2, <1>3 DEF Kept
<1> QED
  BY <1>0, <1>3, <1>4, <1>5 DEF Between

\* The parent p holds the page n as its child c.
Holds(p, c, n, under, below, E, P) ==
    SoundPage(n, below, E, P) /\ under[c] = KeysIn(n, below)

\* One round of InsertIntoParent below a parent: the page with one entry or child
\* too many is split, its new half is linked behind it under the key that goes up,
\* and every page of the family is sound again, with all the keys where lookups
\* go for them.
THEOREM SplitKeepsFamily ==
  ASSUME NEW E, NEW P, HaveKeys(E), NEW below \in KeySets(P),
         NEW under \in KeySets(P), NEW after \in KeySets(P),
         NEW p, SoundInternal(p, under, P), Peopled(p.children, under),
         NEW i \in 1 .. Len(p.children), NEW old, old = p.children[i], NEW new \in P,
         NEW n, Holds(p, old, n, under, below, E, P), GetSize(n) = GetMaxSize(n) + 1,
         after[old] = KeysIn(StayingHalf(n), below),
         after[new] = KeysIn(MovingHalf(n), below),
         SameBut({i}, p.children, under, after)
  PROVE  /\ Holds(p, old, StayingHalf(n), after, below, E, P)
         /\ Holds(p, new, MovingHalf(n), after, below, E, P)
         /\ GetSize(StayingHalf(n)) \in MinSize(n) .. GetMaxSize(n)
         /\ GetSize(MovingHalf(n)) \in MinSize(n) .. GetMaxSize(n)
         /\ ParentGot(InsertNodeAfter(p, old, SplitKey(n), new), p, 1, under, after, P)
<1>0. PICK x, y, key : x = StayingHalf(n) /\ y = MovingHalf(n) /\ key = SplitKey(n)
  OBVIOUS
<1>1. SoundPage(n, below, E, P) /\ under[old] = KeysIn(n, below)
  BY DEF Holds
<1>2. /\ PagePair(x, y, key, KeysIn(n, below), below, E, P)
      /\ GetSize(x) \in MinSize(n) .. GetMaxSize(n)
      /\ GetSize(y) \in MinSize(n) .. GetMaxSize(n)
  BY <1>0, <1>1, SplitSound
<1>3. /\ SoundPage(x, below, E, P) /\ SoundPage(y, below, E, P)
      /\ Separates(key, KeysIn(x, below), KeysIn(y, below))
      /\ KeysIn(x, below) \union KeysIn(y, below) = KeysIn(n, below)
  BY <1>2 DEF PagePair
<1>4. after[old] = KeysIn(x, below) /\ after[new] = KeysIn(y, below)
  BY <1>0
<1>5. Separates(key, after[old], after[new]) /\ under[old] = after[old] \union after[new]
  BY <1>1, <1>3, <1>4
<1>6. ParentGot(InsertNodeAfter(p, old, key, new), p, 1, under, after, P)
  <2>1. /\ SoundInternal(p, under, P) /\ Peopled(p.children, under)
        /\ old = p.children[i] /\ SameBut({i}, p.children, under, after)
    OBVIOUS
  <2> QED
    BY ONLY <1>5, <2>1, ParentAfterSplit
<1> QED
  BY <1>0, <1>2, <1>3, <1>4, <1>6 DEF Holds

\* One round of HandleUnderflow that borrows from the left sibling l: the page r
\* gets an entry or child, which may be its first, and the parent the key that
\* separates the two now.
THEOREM LoanFromLeftKeepsFamily ==
  ASSUME NEW E, NEW P, HaveKeys(E), NEW below \in KeySets(P),
         NEW under \in KeySets(P), NEW after \in KeySets(P),
         NEW p, SoundInternal(p, under, P), NEW i \in 1 .. Len(p.keys),
         PeopledBut({i, i + 1}, p.children, under),
         NEW left, NEW right, left = p.children[i], right = p.children[i + 1],
         NEW l, Holds(p, left, l, under, below, E, P),
         NEW r, Holds(p, right, r, under, below, E, P), l.leaf = r.leaf,
         GetSize(l) > MinSize(l),
         NEW down, down = p.keys[i],
         after[left] = KeysIn(GiveLast(l), below),
         after[right] = KeysIn(TakeLastOf(r, l, down), below),
         SameBut({i, i + 1}, p.children, under, after)
  PROVE  /\ Holds(p, left, GiveLast(l), after, below, E, P)
         /\ Holds(p, right, TakeLastOf(r, l, down), after, below, E, P)
         /\ Lent(GiveLast(l), l) /\ Grew(TakeLastOf(r, l, down), r)
         /\ ParentGot([p EXCEPT !.keys[i] = KeyAfterTakingLast(l)], p, 0, under, after, P)
<1>0. PICK x, y, key : /\ x = GiveLast(l) /\ y = TakeLastOf(r, l, down)
                       /\ key = KeyAfterTakingLast(l)
  OBVIOUS
<1>1. /\ SoundPage(l, below, E, P) /\ under[left] = KeysIn(l, below)
      /\ SoundPage(r, below, E, P) /\ under[right] = KeysIn(r, below)
  BY DEF Holds
<1>2. Between(down, KeysIn(l, below), KeysIn(r, below))
  <2>1. Between(p.keys[i], under[p.children[i]], under[p.children[i + 1]])
    BY SiblingsBetween
  <2> QED
    BY <1>1, <2>1
<1>3. /\ PagePair(x, y, key, KeysIn(l, below) \union KeysIn(r, below), below, E, P)
      /\ Lent(x, l) /\ Grew(y, r)
  BY <1>0, <1>1, <1>2, LoanFromLeft
<1>4. /\ SoundPage(x, below, E, P) /\ SoundPage(y, below, E, P)
      /\ Separates(key, KeysIn(x, below), KeysIn(y, below))
      /\ KeysIn(x, below) \union KeysIn(y, below) = KeysIn(l, below) \union KeysIn(r, below)
  BY <1>3 DEF PagePair
<1>5. after[left] = KeysIn(x, below) /\ after[right] = KeysIn(y, below)
  BY <1>0
<1>6. /\ Separates(key, after[left], after[right])
      /\ after[left] \union after[right] = under[left] \union under[right]
  BY <1>1, <1>4, <1>5
<1>7. ParentGot([p EXCEPT !.keys[i] = key], p, 0, under, after, P)
  BY <1>6, ParentAfterLoan
<1> QED
  BY <1>0, <1>3, <1>4, <1>5, <1>7 DEF Holds

\* One round of HandleUnderflow that borrows from the right sibling r: the page l,
\* which has no left sibling that can lend, gets the first entry or child of r.
THEOREM LoanFromRightKeepsFamily ==
  ASSUME NEW E, NEW P, HaveKeys(E), NEW below \in KeySets(P),
         NEW under \in KeySets(P), NEW after \in KeySets(P),
         NEW p, SoundInternal(p, under, P), NEW i \in 1 .. Len(p.keys),
         PeopledBut({i, i + 1}, p.children, under),
         NEW left, NEW right, left = p.children[i], right = p.children[i + 1],
         NEW l, Holds(p, left, l, under, below, E, P),
         NEW r, Holds(p, right, r, under, below, E, P), l.leaf = r.leaf,
         GetSize(r) > MinSize(r),
         NEW down, down = p.keys[i],
         after[left] = KeysIn(TakeFirstOf(l, r, down), below),
         after[right] = KeysIn(GiveFirst(r), below),
         SameBut({i, i + 1}, p.children, under, after)
  PROVE  /\ Holds(p, left, TakeFirstOf(l, r, down), after, below, E, P)
         /\ Holds(p, right, GiveFirst(r), after, below, E, P)
         /\ Grew(TakeFirstOf(l, r, down), l) /\ Lent(GiveFirst(r), r)
         /\ ParentGot([p EXCEPT !.keys[i] = KeyAfterTakingFirst(r)], p, 0, under, after, P)
<1>0. PICK x, y, key : /\ x = TakeFirstOf(l, r, down) /\ y = GiveFirst(r)
                       /\ key = KeyAfterTakingFirst(r)
  OBVIOUS
<1>1. /\ SoundPage(l, below, E, P) /\ under[left] = KeysIn(l, below)
      /\ SoundPage(r, below, E, P) /\ under[right] = KeysIn(r, below)
  BY DEF Holds
<1>2. Between(down, KeysIn(l, below), KeysIn(r, below))
  <2>1. Between(p.keys[i], under[p.children[i]], under[p.children[i + 1]])
    BY SiblingsBetween
  <2> QED
    BY <1>1, <2>1
<1>3. /\ PagePair(x, y, key, KeysIn(l, below) \union KeysIn(r, below), below, E, P)
      /\ Grew(x, l) /\ Lent(y, r)
  <2>1. HaveKeys(E) /\ l.leaf = r.leaf /\ GetSize(r) > MinSize(r)
    OBVIOUS
  <2>2. PagePair(x, y, key, KeysIn(l, below) \union KeysIn(r, below), below, E, P)
    BY ONLY <1>0, <1>1, <1>2, <2>1, LoanFromRight
  <2>3. Grew(x, l) /\ Lent(y, r)
    BY ONLY <1>0, <1>1, <1>2, <2>1, LoanFromRight
  <2> QED
    BY <2>2, <2>3
<1>4. /\ SoundPage(x, below, E, P) /\ SoundPage(y, below, E, P)
      /\ Separates(key, KeysIn(x, below), KeysIn(y, below))
      /\ KeysIn(x, below) \union KeysIn(y, below) = KeysIn(l, below) \union KeysIn(r, below)
  BY <1>3 DEF PagePair
<1>5. after[left] = KeysIn(x, below) /\ after[right] = KeysIn(y, below)
  BY <1>0
<1>6. /\ Separates(key, after[left], after[right])
      /\ after[left] \union after[right] = under[left] \union under[right]
  BY <1>1, <1>4, <1>5
<1>7. ParentGot([p EXCEPT !.keys[i] = key], p, 0, under, after, P)
  BY <1>6, ParentAfterLoan
<1> QED
  BY <1>0, <1>3, <1>4, <1>5, <1>7 DEF Holds

\* One round of HandleUnderflow that merges two neighbours, one of which may be
\* empty: the left one takes everything and stays below its maximum, the parent
\* loses a child and is sound, and no key is lost.
THEOREM MergeKeepsFamily ==
  ASSUME NEW E, NEW P, HaveKeys(E), NEW below \in KeySets(P),
         NEW under \in KeySets(P), NEW after \in KeySets(P),
         NEW p, SoundInternal(p, under, P), NEW i \in 1 .. Len(p.keys),
         PeopledBut({i, i + 1}, p.children, under),
         NEW left, NEW right, left = p.children[i], right = p.children[i + 1],
         under[left] # {} \/ under[right] # {},
         NEW l, Holds(p, left, l, under, below, E, P),
         NEW r, Holds(p, right, r, under, below, E, P), l.leaf = r.leaf,
         NeitherLends(l, r),
         NEW down, down = p.keys[i],
         after[left] = KeysIn(TakeAllOf(l, r, down), below),
         SameBut({i, i + 1}, p.children, under, after)
  PROVE  /\ Holds(p, left, TakeAllOf(l, r, down), after, below, E, P)
         /\ GetSize(TakeAllOf(l, r, down)) < GetMaxSize(TakeAllOf(l, r, down))
         /\ ParentGot(RemoveSeparator(p, i), p, -1, under, after, P)
<1>0. PICK m : m = TakeAllOf(l, r, down)
  OBVIOUS
<1>1. /\ SoundPage(l, below, E, P) /\ under[left] = KeysIn(l, below)
      /\ SoundPage(r, below, E, P) /\ under[right] = KeysIn(r, below)
  BY DEF Holds
<1>2. Between(down, KeysIn(l, below), KeysIn(r, below))
  <2>1. Between(p.keys[i], under[p.children[i]], under[p.children[i + 1]])
    BY SiblingsBetween
  <2> QED
    BY <1>1, <2>1
<1>3. /\ SoundPage(m, below, E, P) /\ GetSize(m) < GetMaxSize(m)
      /\ KeysIn(m, below) = KeysIn(l, below) \union KeysIn(r, below)
  BY <1>0, <1>1, <1>2, MergeSound
<1>4. after[left] = under[left] \union under[right] /\ after[left] # {}
  BY <1>0, <1>1, <1>3
<1>5. ParentGot(RemoveSeparator(p, i), p, -1, under, after, P)
  <2>1. /\ SoundInternal(p, under, P) /\ PeopledBut({i, i + 1}, p.children, under)
        /\ left = p.children[i] /\ right = p.children[i + 1]
        /\ SameBut({i, i + 1}, p.children, under, after)
    OBVIOUS
  <2> QED
    BY ONLY <1>4, <2>1, ParentAfterMerge
<1> QED
  BY <1>0, <1>3, <1>5 DEF Holds

\* The end of InsertIntoParent above a root that was split: the new root, with the
\* halves as its only children and the key between them, is sound.
THEOREM NewRootSound ==
  ASSUME NEW P, NEW under \in KeySets(P), NEW none \in P, NEW old \in P, NEW new \in P,
         NEW key, Separates(key, under[old], under[new])
  PROVE  /\ SoundInternal(InternalPage(none, <<key>>, <<old, new>>), under, P)
         /\ Peopled(<<old, new>>, under)
         /\ KeysUnder(<<old, new>>, under) = under[old] \union under[new]
<1>0. key \in Int
  BY DEF Separates
<1>1. PICK K, C : K = <<key>> /\ C = <<old, new>>
  OBVIOUS
<1>2. /\ K \in Seq(Int) /\ Len(K) = 1 /\ K[1] = key
      /\ C \in Seq(P) /\ Len(C) = 2 /\ C[1] = old /\ C[2] = new
  BY <1>0, <1>1
<1>3. /\ under[old] # {} /\ under[new] # {}
      /\ \A k \in under[old] : k < key
      /\ \A k \in under[new] : key <= k
  BY DEF Separates
<1>4. \A i \in 1 .. Len(C) : (i = 1 /\ C[i] = old) \/ (i = 2 /\ C[i] = new)
  BY <1>2
<1>5. Peopled(C, under)
  BY <1>3, <1>4 DEF Peopled
<1>6. Kept(K, C, under)
  <2>1. \A i \in 2 .. Len(C) : i = 2 /\ i - 1 = 1
    BY <1>2
  <2>2. \A i \in 1 .. Len(K) : i = 1
    BY <1>2
  <2> QED
    BY <1>2, <1>3, <2>1, <2>2 DEF Kept
<1>7. Parted(K, C, under)
  <2>1. Len(C) = Len(K) + 1
    BY <1>2
  <2> QED
    BY <1>2, <1>5, <1>6, <2>1, KeptParted
<1>8. KeysUnder(C, under) = under[old] \union under[new]
  <2>1. 1 \in 1 .. Len(C) /\ 2 \in 1 .. Len(C)
    BY <1>2
  <2>2. {under[C[i]] : i \in 1 .. Len(C)} = {under[old], under[new]}
    BY <1>2, <1>4, <2>1
  <2> QED
    BY <2>2 DEF KeysUnder
<1>9. SoundInternal(InternalPage(none, K, C), under, P)
  BY <1>2, <1>7 DEF SoundInternal, InternalPages, InternalPage
<1> QED
  BY <1>1, <1>5, <1>8, <1>9
=============================================================================
