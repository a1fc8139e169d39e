------------------------------ MODULE Stepwise ------------------------------
(***************************************************************************)
(* What Through (LayoutGeometry) computes, for any step: a module that     *)
(* uses Through says which step by an INSTANCE.  a, b and c are what the   *)
(* step reads beside the value it changes and the member of the sequence.  *)
(***************************************************************************)
EXTENDS Naturals, Sequences, WellFoundedInduction, TLAPS

CONSTANT Step(_, _, _, _, _)

\* f[n] is the value after the first n members.
Once(a, b, c, last, member) == CHOOSE y \in {Step(a, b, c, acc, member) : acc \in {last}} : y = y
Walk(f, a, b, c, base, seq, length) ==
  f = [n \in 0..length |-> IF n = 0 THEN base ELSE Once(a, b, c, f[n - 1], seq[n])]
Result(a, b, c, base, seq) == (CHOOSE f : Walk(f, a, b, c, base, seq, Len(seq)))[Len(seq)]

\* f is such a walk, without what makes TLC evaluate it once.
Goes(f, a, b, c, base, seq, length) ==
  /\ DOMAIN f = 0..length /\ f[0] = base
  /\ \A n \in 1..length : f[n] = Step(a, b, c, f[n - 1], seq[n])

LEMMA WalkGoes ==
  ASSUME NEW f, NEW a, NEW b, NEW c, NEW base, NEW seq, NEW length \in Nat, Walk(f, a, b, c, base, seq, length)
  PROVE  Goes(f, a, b, c, base, seq, length)
<1>1. \A x, n : Once(a, b, c, x, seq[n]) = Step(a, b, c, x, seq[n])
  BY DEF Once
<1>2. f = [n \in 0..length |-> IF n = 0 THEN base ELSE Step(a, b, c, f[n - 1], seq[n])]
  BY <1>1 DEF Walk
<1>3. 0 \in 0..length /\ \A n \in 1..length : n \in 0..length /\ n # 0
  OBVIOUS
<1>4. DOMAIN f = 0..length /\ f[0] = base
  BY <1>2, <1>3
<1>5. QED
  BY <1>2, <1>3, <1>4 DEF Goes

\* There is a walk of every length: a least length without one would be one more than another.
LEMMA WalkExists ==
  ASSUME NEW a, NEW b, NEW c, NEW base, NEW seq, NEW length \in Nat
  PROVE  \E f : Walk(f, a, b, c, base, seq, length)
<1> DEFINE none == {m \in Nat : ~ \E f : Walk(f, a, b, c, base, seq, m)}
<1>1. SUFFICES ASSUME none # {} PROVE FALSE
  OBVIOUS
<1>2. PICK m \in none : \A k \in none : ~(<<k, m>> \in OpToRel(<, Nat))
  BY <1>1, NatLessThanWellFounded, WFMin
<1>3. m \in Nat /\ (~ \E f : Walk(f, a, b, c, base, seq, m)) /\ \A k \in none : ~(k < m)
  BY <1>2 DEF OpToRel
<1>4. CASE m = 0
  <2>1. PICK f : f = [i \in 0..0 |-> base]
    OBVIOUS
  <2>2. \A i \in 0..0 : i = 0
    OBVIOUS
  <2>3. Walk(f, a, b, c, base, seq, 0)
    BY <2>1, <2>2 DEF Walk
  <2>4. QED
    BY <1>3, <1>4, <2>3
<1>5. CASE m # 0
  <2>1. PICK k \in Nat : m = k + 1
    BY <1>3, <1>5
  <2>2. k \notin none
    BY <1>3, <2>1
  <2>3. PICK f : Walk(f, a, b, c, base, seq, k)
    BY <2>2
  <2>4. PICK g : g = [n \in 0..k + 1 |-> IF n = 0 THEN base ELSE Once(a, b, c, f[n - 1], seq[n])]
    OBVIOUS
  <2>5. \A n \in 0..k : n \in 0..k + 1 /\ g[n] = f[n]
    BY <2>3, <2>4 DEF Walk
  <2>6. \A n \in 0..k + 1 : n # 0 => n - 1 \in 0..k
    OBVIOUS
  <2>7. \A n \in 0..k + 1 : n # 0 => f[n - 1] = g[n - 1]
    BY <2>5, <2>6
  <2>8. Walk(g, a, b, c, base, seq, k + 1)
    BY <2>4, <2>7 DEF Walk
  <2>9. QED
    BY <1>3, <2>1, <2>8
<1>6. QED
  BY <1>4, <1>5

\* The result is where a walk through the sequence ends.
LEMMA ResultIs ==
  ASSUME NEW a, NEW b, NEW c, NEW base, NEW seq, Len(seq) \in Nat
  PROVE  \E f : Goes(f, a, b, c, base, seq, Len(seq)) /\ Result(a, b, c, base, seq) = f[Len(seq)]
<1>1. PICK f : f = CHOOSE g : Walk(g, a, b, c, base, seq, Len(seq))
  OBVIOUS
<1>2. Walk(f, a, b, c, base, seq, Len(seq))
  BY <1>1, WalkExists
<1>3. Goes(f, a, b, c, base, seq, Len(seq))
  BY <1>2, WalkGoes
<1>4. QED
  BY <1>1, <1>3 DEF Result

\* What holds of the first value, and of the next when it holds of one, holds of the result.
LEMMA ResultKeeps ==
  ASSUME NEW a, NEW b, NEW c, NEW base, NEW seq, Len(seq) \in Nat, NEW Good, base \in Good,
         \A n \in 1..Len(seq) : \A acc \in Good : Step(a, b, c, acc, seq[n]) \in Good
  PROVE  Result(a, b, c, base, seq) \in Good
<1>1. PICK f : Goes(f, a, b, c, base, seq, Len(seq)) /\ Result(a, b, c, base, seq) = f[Len(seq)]
  BY ResultIs
<1> DEFINE bad == {m \in Nat : m <= Len(seq) /\ f[m] \notin Good}
<1>2. SUFFICES ASSUME bad # {} PROVE FALSE
  BY <1>1
<1>3. PICK m \in bad : \A k \in bad : ~(<<k, m>> \in OpToRel(<, Nat))
  BY <1>2, NatLessThanWellFounded, WFMin
<1>4. m \in Nat /\ m <= Len(seq) /\ f[m] \notin Good /\ \A k \in bad : ~(k < m)
  BY <1>3 DEF OpToRel
<1>5. m # 0
  BY <1>1, <1>4 DEF Goes
<1>6. m - 1 \in Nat /\ m - 1 < m /\ m - 1 <= Len(seq) /\ m \in 1..Len(seq)
  BY <1>4, <1>5
<1>7. f[m - 1] \in Good
  BY <1>4, <1>6
<1>8. QED
  BY <1>1, <1>4, <1>6, <1>7 DEF Goes
=============================================================================
