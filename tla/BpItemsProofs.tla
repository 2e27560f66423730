--------------------------- MODULE BpItemsProofs ---------------------------
(***************************************************************************)
(* Lemmas about the operators of BpItems: the first and the last of a set  *)
(* of list positions exist, removal from a list, and what restoring does   *)
(* to a byte.                                                              *)
(***************************************************************************)
EXTENDS BpItems, TLAPS, WellFoundedInduction

\* A non-empty set of naturals has a least element.
LEMMA LeastNatural ==
    ASSUME NEW S, S \subseteq Nat, S # {}
    PROVE  \E i \in S : \A j \in S : i <= j
<1>1. \E i \in S : \A j \in S : ~ (<<j, i>> \in OpToRel(<, Nat))
    BY NatLessThanWellFounded, WFMin
<1>2. PICK i \in S : \A j \in S : ~ (<<j, i>> \in OpToRel(<, Nat))
    BY <1>1
<1>3. \A j \in S : ~ (j < i)
    BY <1>2 DEF OpToRel
<1>4. \A j \in S : i <= j
    BY <1>3
<1> QED  BY <1>4

\* A non-empty set of numbers from 1 to n has a greatest element.
LEMMA GreatestUpTo ==
    ASSUME NEW n \in Nat, NEW S, S \subseteq 1 .. n, S # {}
    PROVE  \E i \in S : \A j \in S : j <= i
<1> DEFINE T == {k \in Nat : n - k \in S}
<1>1. PICK s \in S : TRUE
    OBVIOUS
<1>2. n - s \in T
    OBVIOUS
<1>3. PICK k \in T : \A l \in T : k <= l
    BY <1>2, LeastNatural
<1>4. n - k \in S
    OBVIOUS
<1>5. ASSUME NEW j \in S PROVE j <= n - k
    <2>1. n - j \in T
        OBVIOUS
    <2>2. k <= n - j
        BY <2>1, <1>3
    <2>3. k \in Nat /\ j \in Nat
        OBVIOUS
    <2> HIDE DEF T
    <2> QED  BY <2>2, <2>3
<1> QED  BY <1>4, <1>5

\* First returns the least position of a set, and NoPos only for the empty set.
LEMMA FirstProperties ==
    ASSUME NEW S, S \subseteq Nat \ {0}
    PROVE  /\ First(S) = NoPos <=> S = {}
           /\ S # {} => First(S) \in S /\ \A j \in S : First(S) <= j
<1>1. CASE S = {}
    BY <1>1 DEF First, NoPos
<1>2. CASE S # {}
    <2>1. \E i \in S : \A j \in S : i <= j
        BY <1>2, LeastNatural
    <2>2. First(S) \in S /\ \A j \in S : First(S) <= j
        BY <2>1, <1>2 DEF First
    <2> QED  BY <2>2, <1>2 DEF NoPos
<1> QED  BY <1>1, <1>2

\* Last returns the greatest position of a non-empty set of list positions.
LEMMA LastProperties ==
    ASSUME NEW n \in Nat, NEW S, S \subseteq 1 .. n, S # {}
    PROVE  Last(S) \in S /\ \A j \in S : j <= Last(S)
<1>1. \E i \in S : \A j \in S : j <= i
    BY GreatestUpTo
<1> QED  BY <1>1 DEF Last

\* Removing a position leaves a list of the other elements, in their order.
LEMMA WithoutProperties ==
    ASSUME NEW T, NEW s \in Seq(T), NEW i \in 1 .. Len(s)
    PROVE  /\ Without(s, i) \in Seq(T)
           /\ Len(Without(s, i)) = Len(s) - 1
           /\ \A j \in 1 .. (Len(s) - 1) :
                Without(s, i)[j] = IF j < i THEN s[j] ELSE s[j + 1]
<1>1. Len(s) - 1 \in Nat
    OBVIOUS
<1>2. \A j \in 1 .. (Len(s) - 1) : s[j] \in T /\ s[j + 1] \in T
    OBVIOUS
<1> QED  BY <1>1, <1>2 DEF Without

\* A byte that no selected software item covers is left alone; any other byte
\* is the one that some selected item writes.
LEMMA RestoredByte ==
    ASSUME NEW n \in Nat, NEW s, DOMAIN s = 1 .. n,
           NEW m, NEW set, NEW except, NEW a \in Addr
    PROVE  LET r == r_bp_restore_except(s, m, set, except)
           IN  /\ Writers(s, except, a) = {} => r[a] = m[a]
               /\ Writers(s, except, a) # {} =>
                    \E i \in Writers(s, except, a) : r[a] = RestoreOne(s[i], set, a)
<1> DEFINE W == Writers(s, except, a)
           r == r_bp_restore_except(s, m, set, except)
<1>1. r[a] = IF W = {} THEN m[a] ELSE RestoreOne(s[Last(W)], set, a)
    BY DEF r_bp_restore_except
<1>2. W \subseteq 1 .. n
    BY DEF Writers
<1>3. W # {} => Last(W) \in W
    BY <1>2, LastProperties
<1> QED  BY <1>1, <1>3
=============================================================================
