---------------------- MODULE OperandDeployment_proofs -----------------------
(***************************************************************************)
(* Proofs about OperandDeployment, for all overrides, environments and     *)
(* placements, and all bounds.                                             *)
(***************************************************************************)
EXTENDS OperandDeployment, WellFoundedInduction, SequenceTheorems, FiniteSetTheorems, TLAPS

-----------------------------------------------------------------------------
(* Induction over the naturals, with a set for the formula.                  *)

LEMMA LeastNatural ==
  ASSUME NEW T \in SUBSET Nat, T # {}
  PROVE  \E x \in T : \A y \in T : x <= y
<1>1. PICK x \in T : \A y \in T : <<y, x>> \notin OpToRel(<, Nat)
  BY WFMin, NatLessThanWellFounded
<1>2. \A y \in T : ~(y < x)
  BY <1>1 DEF OpToRel
<1> QED BY <1>2

LEMMA SetInduction ==
  ASSUME NEW S, 0 \in S, \A n \in Nat : n \in S => n + 1 \in S
  PROVE  \A n \in Nat : n \in S
<1> SUFFICES ASSUME Nat \ S # {} PROVE FALSE
  OBVIOUS
<1>1. PICK x \in Nat \ S : \A y \in Nat \ S : x <= y
  BY LeastNatural
<1>2. x # 0 /\ x - 1 \in Nat /\ x - 1 \in S
  BY <1>1
<1> QED BY <1>1, <1>2

-----------------------------------------------------------------------------
(* What the merge of arguments computes.                                     *)

\* The values of the loop over the overrides, up to the n-th.
Merges(f, n, base, overrides) ==
  f = [k \in 0 .. n |-> IF k = 0 THEN base ELSE MergeArg(f[k - 1], overrides[k])]

LEMMA MergesExists ==
  ASSUME NEW base, NEW overrides
  PROVE  \A n \in Nat : \E f : Merges(f, n, base, overrides)
<1> DEFINE S == {n \in Nat : \E f : Merges(f, n, base, overrides)}
<1>1. 0 \in S
  <2>1. Merges([k \in 0 .. 0 |-> base], 0, base, overrides)
    BY DEF Merges
  <2> QED BY <2>1
<1>2. ASSUME NEW n \in Nat, n \in S PROVE n + 1 \in S
  <2>1. PICK f : Merges(f, n, base, overrides)
    BY <1>2
  <2> DEFINE g == [k \in 0 .. n + 1 |-> IF k <= n THEN f[k]
                                        ELSE MergeArg(f[n], overrides[n + 1])]
  <2>2. \A k \in 0 .. n : g[k] = f[k]
    OBVIOUS
  <2>3. \A k \in 0 .. n : f[k] = IF k = 0 THEN base ELSE MergeArg(f[k - 1], overrides[k])
    BY <2>1 DEF Merges
  <2>4. g[n + 1] = MergeArg(g[n], overrides[n + 1])
    BY <2>2
  <2>5. \A k \in 0 .. n + 1 : g[k] = IF k = 0 THEN base ELSE MergeArg(g[k - 1], overrides[k])
    <3> SUFFICES ASSUME NEW k \in 0 .. n + 1
                 PROVE  g[k] = IF k = 0 THEN base ELSE MergeArg(g[k - 1], overrides[k])
      OBVIOUS
    <3>1. CASE k = n + 1
      BY <2>4, <3>1
    <3>2. CASE k \in 0 .. n
      <4>1. k # 0 => k - 1 \in 0 .. n
        BY <3>2
      <4> HIDE DEF g
      <4> QED BY <2>2, <2>3, <3>2, <4>1
    <3> QED BY <3>1, <3>2
  <2>6. DOMAIN g = 0 .. n + 1 /\ g = [k \in 0 .. n + 1 |-> g[k]]
    OBVIOUS
  <2> HIDE DEF g
  <2>7. Merges(g, n + 1, base, overrides)
    BY <2>5, <2>6 DEF Merges
  <2> QED BY <2>7
<1> HIDE DEF S
<1>3. \A n \in Nat : n \in S
  BY <1>1, <1>2, SetInduction
<1> QED BY <1>3 DEF S

\* mergeContainerArgs is the last value of such a loop.
LEMMA MergeLoop ==
  ASSUME NEW base, NEW overrides \in Seq(Arg)
  PROVE  \E f : /\ Merges(f, Len(overrides), base, overrides)
                /\ mergeContainerArgs(base, overrides) = f[Len(overrides)]
<1>0. Len(overrides) \in Nat
  OBVIOUS
<1>1. \E f : Merges(f, Len(overrides), base, overrides)
  BY <1>0, MergesExists
<1> QED BY <1>1 DEF Merges, mergeContainerArgs

DistinctFlags(args) == \A i, j \in DOMAIN args : args[i][1] = args[j][1] => i = j

LEMMA MergeArgType ==
  ASSUME NEW S, NEW args \in Seq(S), NEW o \in S
  PROVE  MergeArg(args, o) \in Seq(S)
<1> DEFINE same == {i \in DOMAIN args : args[i][1] = o[1]}
           last == CHOOSE i \in same : \A j \in same : j <= i
<1>1. MergeArg(args, o) \in {args, [args EXCEPT ![last] = o], Append(args, o)}
  BY DEF MergeArg
<1> HIDE DEF same, last
<1>2. [args EXCEPT ![last] = o] \in Seq(S)
  <2>1. CASE last \in DOMAIN args
    BY <2>1, LenProperties, ExceptSeq
  <2>2. CASE last \notin DOMAIN args
    <3>1. [args EXCEPT ![last] = o] = args
      BY <2>2, LenProperties
    <3> QED BY <3>1
  <2> QED BY <2>1, <2>2
<1>3. Append(args, o) \in Seq(S)
  BY AppendProperties
<1> QED BY <1>1, <1>2, <1>3

\* r is args with the argument o merged in: no flag is given twice, flags keep their places, and
\* no other argument with the flag of o is left.
Merged(r, args, o) ==
  /\ DistinctFlags(r)
  /\ Len(args) <= Len(r)
  /\ \A i \in DOMAIN args : r[i][1] = args[i][1]
  /\ Flags(r) = Flags(args) \cup {o[1]}
  /\ \A a : a \in ToSet(r) <=> a = o \/ (a[1] # o[1] /\ a \in ToSet(args))

\* An argument is added at the end.
LEMMA FlagsAppended ==
  ASSUME NEW S, NEW args \in Seq(S), DistinctFlags(args), NEW o \in S,
         \A i \in DOMAIN args : args[i][1] # o[1]
  PROVE  Merged(Append(args, o), args, o)
<1> DEFINE r == Append(args, o)
<1>1. Len(args) \in Nat /\ DOMAIN args = 1 .. Len(args)
  OBVIOUS
<1>2. /\ Len(r) = Len(args) + 1 /\ DOMAIN r = 1 .. Len(args) + 1
      /\ r[Len(args) + 1] = o
      /\ \A i \in DOMAIN args : r[i] = args[i]
  OBVIOUS
<1> HIDE DEF r
<1>3. DistinctFlags(r)
  BY <1>1, <1>2 DEF DistinctFlags
<1>4. Flags(r) = Flags(args) \cup {o[1]}
  BY <1>1, <1>2 DEF Flags
<1>5. \A a : a \in ToSet(r) <=> a = o \/ (a[1] # o[1] /\ a \in ToSet(args))
  BY <1>1, <1>2 DEF ToSet
<1>6. Len(args) <= Len(r) /\ \A i \in DOMAIN args : r[i][1] = args[i][1]
  BY <1>1, <1>2
<1>7. Merged(r, args, o)
  BY <1>3, <1>4, <1>5, <1>6 DEF Merged
<1> QED BY <1>7 DEF r

\* An argument is replaced by one with the same flag.
LEMMA FlagsReplaced ==
  ASSUME NEW S, NEW args \in Seq(S), DistinctFlags(args), NEW o \in S,
         NEW x \in DOMAIN args, args[x][1] = o[1]
  PROVE  Merged([args EXCEPT ![x] = o], args, o)
<1> DEFINE r == [args EXCEPT ![x] = o]
<1>1. Len(args) \in Nat /\ DOMAIN args = 1 .. Len(args)
  OBVIOUS
<1>2. /\ Len(r) = Len(args) /\ DOMAIN r = DOMAIN args /\ r[x] = o
      /\ \A i \in DOMAIN args : i # x => r[i] = args[i]
  OBVIOUS
<1> HIDE DEF r
<1>3. \A i \in DOMAIN args : r[i][1] = args[i][1]
  BY <1>2
<1>4. DistinctFlags(r)
  BY <1>2, <1>3 DEF DistinctFlags
<1>5. Flags(r) = Flags(args) \cup {o[1]}
  BY <1>2, <1>3 DEF Flags
<1>6. \A a : a \in ToSet(r) <=> a = o \/ (a[1] # o[1] /\ a \in ToSet(args))
  BY <1>2 DEF ToSet, DistinctFlags
<1>7. Len(args) <= Len(r)
  BY <1>1, <1>2
<1>8. Merged(r, args, o)
  BY <1>3, <1>4, <1>5, <1>6, <1>7 DEF Merged
<1> QED BY <1>8 DEF r

LEMMA IndexReflexive ==
  ASSUME NEW S, NEW args \in Seq(S), NEW x \in DOMAIN args
  PROVE  x <= x
OBVIOUS

\* One override: it replaces the argument with its flag, or is added at the end.
LEMMA MergeArgStep ==
  ASSUME NEW S, NEW args \in Seq(S), DistinctFlags(args), NEW o \in S, o[1] # ""
  PROVE  Merged(MergeArg(args, o), args, o)
<1> DEFINE same == {i \in DOMAIN args : args[i][1] = o[1]}
           last == CHOOSE i \in same : \A j \in same : j <= i
<1>1. CASE same # {}
  <2>1. PICK x \in same : TRUE
    BY <1>1
  <2>2. x \in DOMAIN args /\ args[x][1] = o[1] /\ \A j \in same : j = x
    BY <2>1 DEF DistinctFlags
  <2>3. x <= x
    BY <2>2, IndexReflexive, Zenon
  <2>4. last = x
    BY <2>1, <2>2, <2>3, Zenon
  <2>5. MergeArg(args, o) = [args EXCEPT ![x] = o]
    BY <1>1, <2>4 DEF MergeArg
  <2> HIDE DEF same, last
  <2>6. Merged([args EXCEPT ![x] = o], args, o)
    BY <2>2, FlagsReplaced, Zenon
  <2> QED BY <2>5, <2>6, Zenon
<1>2. CASE same = {}
  <2>1. MergeArg(args, o) = Append(args, o)
    BY <1>2 DEF MergeArg
  <2>2. \A i \in DOMAIN args : args[i][1] # o[1]
    BY <1>2
  <2> HIDE DEF same, last
  <2>3. Merged(Append(args, o), args, o)
    BY <2>2, FlagsAppended, Zenon
  <2> QED BY <2>1, <2>3, Zenon
<1> QED BY <1>1, <1>2

\* The flags of the first n overrides, and those of them that no later one takes the place of.
Given(o, n) == {o[i][1] : i \in 1 .. n}
Prevails(a, o, n) == \E i \in 1 .. n : o[i] = a /\ \A j \in i + 1 .. n : o[j][1] # a[1]

LEMMA GivenNone ==
  ASSUME NEW o
  PROVE  Given(o, 0) = {} /\ \A a : ~Prevails(a, o, 0)
BY DEF Given, Prevails

LEMMA GivenNext ==
  ASSUME NEW o, NEW n \in Nat
  PROVE  /\ Given(o, n + 1) = Given(o, n) \cup {o[n + 1][1]}
         /\ \A a : Prevails(a, o, n + 1) <=>
                     a = o[n + 1] \/ (Prevails(a, o, n) /\ a[1] # o[n + 1][1])
<1>1. 1 .. n + 1 = (1 .. n) \cup {n + 1} /\ (n + 1) + 1 .. n + 1 = {}
  OBVIOUS
<1>2. \A i \in 1 .. n : i + 1 .. n + 1 = (i + 1 .. n) \cup {n + 1}
  OBVIOUS
<1>3. Given(o, n + 1) = Given(o, n) \cup {o[n + 1][1]}
  BY <1>1, Zenon DEF Given
<1>4. ASSUME NEW a
      PROVE  Prevails(a, o, n + 1) <=>
                     a = o[n + 1] \/ (Prevails(a, o, n) /\ a[1] # o[n + 1][1])
  BY <1>1, <1>2, Zenon DEF Prevails
<1> QED BY <1>3, <1>4

LEMMA Longer ==
  ASSUME NEW S, NEW p \in Seq(S), NEW q \in Seq(S), NEW r \in Seq(S),
         Len(p) <= Len(q), Len(q) <= Len(r)
  PROVE  Len(p) <= Len(r) /\ DOMAIN p \subseteq DOMAIN q
OBVIOUS

\* r is what the first n overrides make of the arguments in base.
MergedUpTo(r, base, o, n) ==
  /\ DistinctFlags(r)
  /\ Len(base) <= Len(r)
  /\ \A i \in DOMAIN base : r[i][1] = base[i][1]
  /\ Flags(r) = Flags(base) \cup (Given(o, n) \ {""})
  /\ \A a : a \in ToSet(r) <=>
              \/ a[1] # "" /\ Prevails(a, o, n)
              \/ a \in ToSet(base) /\ (a[1] = "" \/ a[1] \notin Given(o, n))

LEMMA MergeStart ==
  ASSUME NEW S, NEW base \in Seq(S), DistinctFlags(base), NEW o
  PROVE  MergedUpTo(base, base, o, 0)
<1>1. Len(base) <= Len(base)
  OBVIOUS
<1> QED BY <1>1, GivenNone, Zenon DEF MergedUpTo

LEMMA MergeOne ==
  ASSUME NEW S, NEW r \in Seq(S), NEW base \in Seq(S), NEW o, NEW n \in Nat,
         o[n + 1] \in S, MergedUpTo(r, base, o, n)
  PROVE  MergedUpTo(MergeArg(r, o[n + 1]), base, o, n + 1)
<1> DEFINE x == o[n + 1]
           q == MergeArg(r, x)
<1>1. /\ Given(o, n + 1) = Given(o, n) \cup {x[1]}
      /\ \A a : Prevails(a, o, n + 1) <=> a = x \/ (Prevails(a, o, n) /\ a[1] # x[1])
  BY GivenNext, Zenon
<1>2. CASE x[1] = ""
  <2>1. q = r
    BY <1>2 DEF MergeArg
  <2> HIDE DEF x, q
  <2>2. Given(o, n + 1) \ {""} = Given(o, n) \ {""}
    BY <1>1, <1>2, Zenon
  <2>3. ASSUME NEW a
        PROVE  a \in ToSet(r) <=>
                 \/ a[1] # "" /\ Prevails(a, o, n + 1)
                 \/ a \in ToSet(base) /\ (a[1] = "" \/ a[1] \notin Given(o, n + 1))
    <3>1. a[1] # "" => (Prevails(a, o, n + 1) <=> Prevails(a, o, n))
      BY <1>1, <1>2, Zenon
    <3>2. a[1] # "" => (a[1] \in Given(o, n + 1) <=> a[1] \in Given(o, n))
      BY <1>1, <1>2, Zenon
    <3> QED BY <3>1, <3>2, Zenon DEF MergedUpTo
  <2>4. MergedUpTo(q, base, o, n + 1)
    BY <2>1, <2>2, <2>3, Zenon DEF MergedUpTo
  <2> QED BY <2>4 DEF q, x
<1>3. CASE x[1] # ""
  <2>1. Merged(q, r, x)
    BY <1>3, MergeArgStep, Zenon DEF MergedUpTo
  <2>2. q \in Seq(S)
    BY MergeArgType, Zenon
  <2> HIDE DEF x, q
  <2>3. Len(base) <= Len(q) /\ DOMAIN base \subseteq DOMAIN r
    BY <2>1, <2>2, Longer, Zenon DEF Merged, MergedUpTo
  <2>4. \A i \in DOMAIN base : q[i][1] = base[i][1]
    BY <2>1, <2>3, Zenon DEF Merged, MergedUpTo
  <2>5. Flags(q) = Flags(base) \cup (Given(o, n + 1) \ {""})
    BY <1>1, <1>3, <2>1, Zenon DEF Merged, MergedUpTo
  <2>6. ASSUME NEW a
        PROVE  a \in ToSet(q) <=>
                 \/ a[1] # "" /\ Prevails(a, o, n + 1)
                 \/ a \in ToSet(base) /\ (a[1] = "" \/ a[1] \notin Given(o, n + 1))
    <3>1. a \in ToSet(q) <=> a = x \/ (a[1] # x[1] /\ a \in ToSet(r))
      BY <2>1, Zenon DEF Merged
    <3>2. a \in ToSet(r) <=>
                 \/ a[1] # "" /\ Prevails(a, o, n)
                 \/ a \in ToSet(base) /\ (a[1] = "" \/ a[1] \notin Given(o, n))
      BY Zenon DEF MergedUpTo
    <3>3. a[1] \in Given(o, n + 1) <=> a[1] \in Given(o, n) \/ a[1] = x[1]
      BY <1>1, Zenon
    <3> QED BY <1>1, <1>3, <3>1, <3>2, <3>3, Zenon
  <2>7. MergedUpTo(q, base, o, n + 1)
    BY <2>1, <2>3, <2>4, <2>5, <2>6, Zenon DEF Merged, MergedUpTo
  <2> QED BY <2>7 DEF q, x
<1> QED BY <1>2, <1>3

\* All of the loop.
LEMMA MergeAll ==
  ASSUME NEW S, NEW base \in Seq(S), NEW o \in Seq(S), NEW f, Merges(f, Len(o), base, o)
  PROVE  /\ f[Len(o)] \in Seq(S)
         /\ DistinctFlags(base) => MergedUpTo(f[Len(o)], base, o, Len(o))
<1> DEFINE T == {n \in Nat : n <= Len(o) =>
                   /\ f[n] \in Seq(S)
                   /\ DistinctFlags(base) => MergedUpTo(f[n], base, o, n)}
<1>0. Len(o) \in Nat /\ DOMAIN o = 1 .. Len(o) /\ \A n \in DOMAIN o : o[n] \in S
  OBVIOUS
<1>1. 0 \in T
  <2>1. f[0] = base
    BY <1>0 DEF Merges
  <2>2. DistinctFlags(base) => MergedUpTo(base, base, o, 0)
    BY MergeStart, Zenon
  <2>3. 0 \in Nat
    OBVIOUS
  <2> QED BY <2>1, <2>2, <2>3, Zenon
<1>2. ASSUME NEW n \in Nat, n \in T PROVE n + 1 \in T
  <2>1. n + 1 \in Nat
    OBVIOUS
  <2>2. CASE ~(n + 1 <= Len(o))
    BY <2>1, <2>2, Zenon
  <2>3. CASE n + 1 <= Len(o)
    <3>1. n <= Len(o) /\ n + 1 \in DOMAIN o
      BY <1>0, <2>3
    <3>2. f[n + 1] = MergeArg(f[n], o[n + 1])
      BY <1>0, <2>3 DEF Merges
    <3>3. f[n] \in Seq(S) /\ (DistinctFlags(base) => MergedUpTo(f[n], base, o, n))
      BY <1>2, <3>1, Zenon
    <3>4. o[n + 1] \in S
      BY <1>0, <3>1, Zenon
    <3> HIDE DEF T
    <3>5. f[n + 1] \in Seq(S)
      BY <3>2, <3>3, <3>4, MergeArgType, Zenon
    <3>6. DistinctFlags(base) => MergedUpTo(f[n + 1], base, o, n + 1)
      BY <3>2, <3>3, <3>4, MergeOne, Zenon
    <3> QED BY <2>1, <3>5, <3>6, Zenon DEF T
  <2> QED BY <2>2, <2>3
<1> HIDE DEF T
<1>3. \A n \in Nat : n \in T
  BY <1>1, <1>2, SetInduction
<1>4. Len(o) <= Len(o)
  BY <1>0
<1> QED BY <1>0, <1>3, <1>4, Zenon DEF T

LEMMA MergedArgs ==
  ASSUME NEW base \in Seq(Arg), NEW o \in Seq(Arg)
  PROVE  /\ mergeContainerArgs(base, o) \in Seq(Arg)
         /\ DistinctFlags(base) => MergedUpTo(mergeContainerArgs(base, o), base, o, Len(o))
<1>1. PICK f : Merges(f, Len(o), base, o) /\ mergeContainerArgs(base, o) = f[Len(o)]
  BY MergeLoop, Zenon
<1> QED BY <1>1, MergeAll, Zenon

-----------------------------------------------------------------------------
(* What a program makes of the merged arguments.                             *)

LEMMA GivenAll ==
  ASSUME NEW S, NEW o \in Seq(S)
  PROVE  Given(o, Len(o)) = Flags(o)
BY DEF Given, Flags

\* The program takes the argument that prevails.
LEMMA PrevailsValue ==
  ASSUME NEW S, NEW o \in Seq(S), NEW a, Prevails(a, o, Len(o))
  PROVE  a[1] \in Flags(o) /\ ValueOf(o, a[1]) = a[2]
<1> DEFINE same == {i \in DOMAIN o : o[i][1] = a[1]}
           last == CHOOSE i \in same : \A j \in same : j <= i
<1>1. PICK x \in 1 .. Len(o) : o[x] = a /\ \A j \in x + 1 .. Len(o) : o[j][1] # a[1]
  BY DEF Prevails
<1>2. x \in DOMAIN o /\ x \in same
  BY <1>1
<1>3. \A j \in same : j <= x
  BY <1>1
<1>4. \A y \in same : (\A j \in same : j <= y) => y = x
  BY <1>2, <1>3
<1>5. last = x
  BY <1>2, <1>3, <1>4, Zenon
<1>6. a[1] \in Flags(o)
  BY <1>1, <1>2, Zenon DEF Flags
<1> QED BY <1>1, <1>2, <1>5, <1>6, Zenon DEF ValueOf

\* If no flag is given twice, every argument prevails.
LEMMA DistinctValue ==
  ASSUME NEW S, NEW r \in Seq(S), DistinctFlags(r), NEW a \in ToSet(r)
  PROVE  a[1] \in Flags(r) /\ ValueOf(r, a[1]) = a[2]
<1>1. PICK i \in DOMAIN r : r[i] = a
  BY DEF ToSet
<1>2. \A j \in i + 1 .. Len(r) : j \in DOMAIN r /\ j # i
  BY <1>1
<1>3. \A j \in i + 1 .. Len(r) : r[j][1] # a[1]
  BY <1>1, <1>2, Zenon DEF DistinctFlags
<1>4. i \in 1 .. Len(r)
  BY <1>1
<1>5. Prevails(a, r, Len(r))
  BY <1>1, <1>3, <1>4, Zenon DEF Prevails
<1> QED BY <1>5, PrevailsValue, Zenon

Once(args, f) == Cardinality({i \in DOMAIN args : args[i][1] = f}) = 1

LEMMA DistinctOnce ==
  ASSUME NEW S, NEW r \in Seq(S), DistinctFlags(r), NEW f \in Flags(r)
  PROVE  /\ Once(r, f)
         /\ \E a \in ToSet(r) : a[1] = f
<1>1. PICK i \in DOMAIN r : r[i][1] = f
  BY DEF Flags
<1>2. {j \in DOMAIN r : r[j][1] = f} = {i}
  BY <1>1, Zenon DEF DistinctFlags
<1>3. Cardinality({i}) = 1
  BY FS_Singleton, Zenon
<1>4. r[i] \in ToSet(r)
  BY <1>1, Zenon DEF ToSet
<1>5. Once(r, f)
  BY <1>2, <1>3, Zenon DEF Once
<1> QED BY <1>1, <1>4, <1>5, Zenon

\* What the arguments give the program: of patch, env and base the first that has the flag.
Effect(args, base, env, patch) ==
  /\ Flags(args) = Flags(base) \cup Flags(env) \cup (Flags(patch) \ {""})
  /\ \A f \in Flags(args) :
       /\ Cardinality({i \in DOMAIN args : args[i][1] = f}) = 1
       /\ ValueOf(args, f) = CASE f = "" -> ValueOf(base, f)
                               [] f # "" /\ f \in Flags(patch) -> ValueOf(patch, f)
                               [] f \in Flags(env) \ Flags(patch) -> ValueOf(env, f)
                               [] OTHER -> ValueOf(base, f)
  /\ \A i \in DOMAIN base : args[i][1] = base[i][1]

\* Two merges, one after the other: the later overrides win, and nothing else is left.
LEMMA TwoMerges ==
  ASSUME NEW S, NEW base \in Seq(S), NEW env \in Seq(S), NEW patch \in Seq(S),
         NEW mid \in Seq(S), NEW args \in Seq(S),
         DistinctFlags(base), "" \notin Flags(env),
         MergedUpTo(mid, base, env, Len(env)), MergedUpTo(args, mid, patch, Len(patch))
  PROVE  Effect(args, base, env, patch)
<1>1. Given(env, Len(env)) = Flags(env) /\ Given(patch, Len(patch)) = Flags(patch)
  BY GivenAll, Zenon
<1>2. Flags(args) = Flags(base) \cup Flags(env) \cup (Flags(patch) \ {""})
  BY <1>1, Zenon DEF MergedUpTo
<1>3. /\ DistinctFlags(args) /\ Len(base) <= Len(mid) /\ Len(mid) <= Len(args)
      /\ \A i \in DOMAIN base : mid[i][1] = base[i][1]
      /\ \A i \in DOMAIN mid : args[i][1] = mid[i][1]
  BY Zenon DEF MergedUpTo
<1>8. /\ \A a \in ToSet(args) : \/ a[1] # "" /\ Prevails(a, patch, Len(patch))
                                \/ a \in ToSet(mid) /\ (a[1] = "" \/ a[1] \notin Flags(patch))
      /\ \A a \in ToSet(mid) : \/ a[1] # "" /\ Prevails(a, env, Len(env))
                               \/ a \in ToSet(base) /\ (a[1] = "" \/ a[1] \notin Flags(env))
  BY <1>1, Zenon DEF MergedUpTo
<1> DEFINE Value(f) == CASE f = "" -> ValueOf(base, f)
                         [] f # "" /\ f \in Flags(patch) -> ValueOf(patch, f)
                         [] f \in Flags(env) \ Flags(patch) -> ValueOf(env, f)
                         [] OTHER -> ValueOf(base, f)
<1>4. ASSUME NEW f \in Flags(args)
      PROVE  Once(args, f) /\ ValueOf(args, f) = Value(f)
  <2>1. PICK a \in ToSet(args) : a[1] = f
    BY <1>3, DistinctOnce, Zenon
  <2>2. ValueOf(args, f) = a[2]
    BY <1>3, <2>1, DistinctValue, Zenon
  <2>3. ASSUME f # "", Prevails(a, patch, Len(patch)) PROVE ValueOf(args, f) = Value(f)
    <3>1. f \in Flags(patch) /\ ValueOf(patch, f) = a[2]
      BY <2>1, <2>3, PrevailsValue, Zenon
    <3> QED BY <2>2, <2>3, <3>1
  <2>4. ASSUME a \in ToSet(mid), f = "" \/ f \notin Flags(patch)
        PROVE  ValueOf(args, f) = Value(f)
    <3>1. CASE f # "" /\ Prevails(a, env, Len(env))
      <4>1. f \in Flags(env) /\ ValueOf(env, f) = a[2]
        BY <2>1, <3>1, PrevailsValue, Zenon
      <4> QED BY <2>2, <2>4, <3>1, <4>1
    <3>2. CASE a \in ToSet(base) /\ (f = "" \/ f \notin Flags(env))
      <4>1. ValueOf(base, f) = a[2]
        BY <2>1, <3>2, DistinctValue, Zenon
      <4> QED BY <2>2, <2>4, <3>2, <4>1
    <3> HIDE DEF Value
    <3> QED BY <1>8, <2>1, <2>4, <3>1, <3>2, Zenon
  <2> HIDE DEF Value
  <2>5. ValueOf(args, f) = Value(f)
    BY <1>8, <2>1, <2>3, <2>4, Zenon
  <2>6. Once(args, f)
    BY <1>3, DistinctOnce, Zenon
  <2> QED BY <2>5, <2>6
<1>5. DOMAIN base \subseteq DOMAIN mid
  BY <1>3, Longer, Zenon
<1>6. \A i \in DOMAIN base : args[i][1] = base[i][1]
  <2> SUFFICES ASSUME NEW i \in DOMAIN base PROVE args[i][1] = base[i][1]
    OBVIOUS
  <2>1. mid[i][1] = base[i][1] /\ i \in DOMAIN mid
    BY <1>3, <1>5, Zenon
  <2>2. args[i][1] = mid[i][1]
    BY <1>3, <2>1, Zenon
  <2> QED BY <2>1, <2>2, Zenon
<1>7. \A f \in Flags(args) : Once(args, f) /\ ValueOf(args, f) = Value(f)
  <2> HIDE DEF Value
  <2> QED BY <1>4
<1> QED BY <1>2, <1>6, <1>7 DEF Once, Effect

-----------------------------------------------------------------------------
(* The arguments that the layers below OPERAND_*_ARGS give: no flag twice.   *)

\* Arguments whose flags are all different, and in F.
Piece(p, F) == p \in Seq(Arg) /\ DistinctFlags(p) /\ Flags(p) \subseteq F

Joined(r, p, q) == DistinctFlags(r) /\ Flags(r) = Flags(p) \cup Flags(q)

LEMMA ConcatFlags ==
  ASSUME NEW S, NEW p \in Seq(S), NEW q \in Seq(S), DistinctFlags(p), DistinctFlags(q),
         Flags(p) \cap Flags(q) = {}
  PROVE  Joined(p \o q, p, q)
<1> DEFINE r == p \o q
<1>1. /\ Len(p) \in Nat /\ DOMAIN p = 1 .. Len(p)
      /\ Len(q) \in Nat /\ DOMAIN q = 1 .. Len(q)
      /\ DOMAIN r = 1 .. Len(p) + Len(q)
      /\ \A i \in 1 .. Len(p) + Len(q) : r[i] = IF i <= Len(p) THEN p[i] ELSE q[i - Len(p)]
  OBVIOUS
<1> HIDE DEF r
<1>2. \A i \in DOMAIN p : i \in DOMAIN r /\ r[i] = p[i]
  BY <1>1
<1>3. \A i \in DOMAIN q : Len(p) + i \in DOMAIN r /\ r[Len(p) + i] = q[i]
  BY <1>1
<1>4. \A i \in DOMAIN r : i \in DOMAIN p \/ (i - Len(p) \in DOMAIN q /\ r[i] = q[i - Len(p)])
  BY <1>1
<1>5. Flags(r) = Flags(p) \cup Flags(q)
  BY <1>2, <1>3, <1>4 DEF Flags
<1>6. DistinctFlags(r)
  <2> SUFFICES ASSUME NEW i \in DOMAIN r, NEW j \in DOMAIN r, r[i][1] = r[j][1] PROVE i = j
    BY DEF DistinctFlags
  <2>1. \A k \in DOMAIN p : r[k][1] \in Flags(p)
    BY <1>2 DEF Flags
  <2>2. \A k \in DOMAIN r : k \notin DOMAIN p => r[k][1] \in Flags(q)
    BY <1>4 DEF Flags
  <2>3. CASE i \in DOMAIN p /\ j \in DOMAIN p
    BY <1>2, <2>3 DEF DistinctFlags
  <2>4. CASE i \notin DOMAIN p /\ j \notin DOMAIN p
    <3>1. i - Len(p) = j - Len(p)
      BY <1>4, <2>4 DEF DistinctFlags
    <3> QED BY <1>1, <3>1
  <2> QED BY <2>1, <2>2, <2>3, <2>4
<1>7. Joined(r, p, q)
  BY <1>5, <1>6 DEF Joined
<1> QED BY <1>7 DEF r

LEMMA OneFlag ==
  ASSUME NEW S, NEW a \in S
  PROVE  <<a>> \in Seq(S) /\ DistinctFlags(<<a>>) /\ Flags(<<a>>) = {a[1]}
BY DEF DistinctFlags, Flags

LEMMA NoFlag ==
  ASSUME NEW F
  PROVE  Piece(<<>>, F)
BY DEF Piece, DistinctFlags, Flags

LEMMA OnePiece ==
  ASSUME NEW f \in Text, NEW v \in Text
  PROVE  Piece(<<<<f, v>>>>, {f})
<1>1. <<f, v>> \in Arg /\ <<f, v>>[1] = f
  BY DEF Arg
<1> QED BY <1>1, OneFlag, Zenon DEF Piece

LEMMA TwoPieces ==
  ASSUME NEW p, NEW q, NEW F, NEW G, Piece(p, F), Piece(q, G), F \cap G = {}
  PROVE  Piece(p \o q, F \cup G)
<1>1. p \in Seq(Arg) /\ q \in Seq(Arg) /\ DistinctFlags(p) /\ DistinctFlags(q)
      /\ Flags(p) \subseteq F /\ Flags(q) \subseteq G
  BY DEF Piece
<1>2. Flags(p) \cap Flags(q) = {}
  BY <1>1, Zenon
<1>3. Joined(p \o q, p, q)
  BY <1>1, <1>2, ConcatFlags, Zenon
<1>4. p \o q \in Seq(Arg)
  BY <1>1, ConcatProperties, Zenon
<1> QED BY <1>1, <1>3, <1>4, Zenon DEF Piece, Joined

LEMMA Couple ==
  ASSUME NEW a, NEW b
  PROVE  <<a>> \o <<b>> = <<a, b>>
<1> DEFINE S == {a, b}
           r == <<a>> \o <<b>>
<1>1. <<a>> \in Seq(S) /\ <<b>> \in Seq(S) /\ <<a, b>> \in Seq(S)
  OBVIOUS
<1>2. Len(<<a>>) = 1 /\ Len(<<b>>) = 1 /\ Len(<<a, b>>) = 2
  OBVIOUS
<1>3. r \in Seq(S) /\ Len(r) = 2 /\ r[1] = a /\ r[2] = b
  BY <1>1, <1>2, ConcatProperties
<1>4. \A i \in 1 .. 2 : r[i] = <<a, b>>[i]
  BY <1>3
<1> HIDE DEF r, S
<1>5. r = <<a, b>>
  BY <1>1, <1>2, <1>3, <1>4, SeqEqual, Zenon
<1> QED BY <1>5 DEF r

LEMMA MorePiece ==
  ASSUME NEW p, NEW F, NEW G, Piece(p, F), F \subseteq G
  PROVE  Piece(p, G)
BY Zenon DEF Piece

\* Strings of the operator.
LEMMA OwnTexts == \A x \in OwnText : x \in Text
BY ConstantsAssumption, Zenon

LEMMA TLSPiece ==
  ASSUME NEW cl
  PROVE  Piece(operandTLSArgs(cl), {"tls-min-version", "tls-ciphers"})
<1>1. /\ "tls-min-version" \in Text /\ "tls-ciphers" \in Text
      /\ "1.2" \in Text /\ "1.3" \in Text /\ "profile" \in Text
  BY OwnTexts DEF OwnText
<1>2. Piece(<<<<"tls-min-version", "1.3">>>>, {"tls-min-version"})
  BY <1>1, OnePiece, Zenon
<1>3. Piece(<<<<"tls-min-version", "1.2">>>>, {"tls-min-version"})
  BY <1>1, OnePiece, Zenon
<1>4. Piece(<<<<"tls-ciphers", "profile">>>>, {"tls-ciphers"})
  BY <1>1, OnePiece, Zenon
<1>5. Piece(<<<<"tls-min-version", "1.2">>>> \o <<<<"tls-ciphers", "profile">>>>,
              {"tls-min-version"} \cup {"tls-ciphers"})
  <2>1. {"tls-min-version"} \cap {"tls-ciphers"} = {}
    OBVIOUS
  <2> QED BY <1>3, <1>4, <2>1, TwoPieces, Zenon
<1>6. {"tls-min-version"} \cup {"tls-ciphers"} = {"tls-min-version", "tls-ciphers"}
  OBVIOUS
<1>7. Piece(<<<<"tls-min-version", "1.2">>, <<"tls-ciphers", "profile">>>>,
            {"tls-min-version", "tls-ciphers"})
  BY <1>5, <1>6, Couple, Zenon
<1>8. Piece(<<<<"tls-min-version", "1.3">>>>, {"tls-min-version", "tls-ciphers"})
  BY <1>2, <1>6, MorePiece, Zenon
<1> QED BY <1>7, <1>8, NoFlag, Zenon DEF operandTLSArgs

LEMMA LogPiece ==
  ASSUME NEW e \in ESC, NEW m \in ESM
  PROVE  Piece(<<<<"loglevel", getLogLevel(e, m)>>>>, {"loglevel"})
<1>1. getLogLevel(e, m) \in {"warn", "error", "debug"}
  BY DEF ESC, ESM, getLogLevel
<1>2. "loglevel" \in Text /\ "warn" \in Text /\ "error" \in Text /\ "debug" \in Text
  BY OwnTexts DEF OwnText
<1>3. getLogLevel(e, m) \in Text
  BY <1>1, <1>2, Zenon
<1> QED BY <1>2, <1>3, OnePiece, Zenon

\* Every literal argument, by itself.
LEMMA LiteralPieces ==
  /\ Piece(<<<<"namespace", "ns">>>>, {"namespace"})
  /\ Piece(<<<<"cluster-store", "false">>>>, {"cluster-store"})
  /\ Piece(<<<<"cluster-store", "true">>>>, {"cluster-store"})
  /\ Piece(<<<<"unsafe-generic-targets", "true">>>>, {"unsafe-generic-targets"})
  /\ Piece(<<<<"", "webhook">>>>, {""})
  /\ Piece(<<<<"", "certcontroller">>>>, {""})
  /\ Piece(<<<<"check-interval", "5m0s">>>>, {"check-interval"})
  /\ Piece(<<<<"state-path", "asset">>>>, {"state-path"})
<1>1. /\ "namespace" \in Text /\ "ns" \in Text /\ "cluster-store" \in Text
      /\ "false" \in Text /\ "true" \in Text /\ "unsafe-generic-targets" \in Text
      /\ "" \in Text /\ "webhook" \in Text /\ "certcontroller" \in Text
      /\ "check-interval" \in Text /\ "5m0s" \in Text
      /\ "state-path" \in Text /\ "asset" \in Text
  BY OwnTexts DEF OwnText
<1> QED BY <1>1, OnePiece, Zenon

LEMMA Triple ==
  ASSUME NEW a, NEW b, NEW c
  PROVE  <<a, b>> \o <<c>> = <<a, b, c>>
<1> DEFINE S == {a, b, c}
           r == <<a, b>> \o <<c>>
<1>1. <<a, b>> \in Seq(S) /\ <<c>> \in Seq(S) /\ <<a, b, c>> \in Seq(S)
  OBVIOUS
<1>2. Len(<<a, b>>) = 2 /\ Len(<<c>>) = 1 /\ Len(<<a, b, c>>) = 3
  OBVIOUS
<1>3. r \in Seq(S) /\ Len(r) = 3 /\ r[1] = a /\ r[2] = b /\ r[3] = c
  BY <1>1, <1>2, ConcatProperties
<1>4. \A i \in 1 .. 3 : r[i] = <<a, b, c>>[i]
  BY <1>3
<1> HIDE DEF r, S
<1>5. r = <<a, b, c>>
  BY <1>1, <1>2, <1>3, <1>4, SeqEqual, Zenon
<1> QED BY <1>5 DEF r

LEMMA FirstOfConcat ==
  ASSUME NEW S, NEW p \in Seq(S), NEW q \in Seq(S), p # <<>>
  PROVE  1 \in DOMAIN (p \o q) /\ (p \o q)[1] = p[1]
BY ConcatProperties

\* What a component's asset and the configuration give, before the TLS arguments.
CoreArgs(e, m) ==
  <<<<"loglevel", getLogLevel(e, m)>>>>
    \o (IF e.namespace THEN <<<<"namespace", "ns">>, <<"cluster-store", "false">>>>
        ELSE <<<<"cluster-store", "true">>>>)
    \o updateOptionalFeatures(m)

LEMMA CorePiece ==
  ASSUME NEW e \in ESC, NEW m \in ESM
  PROVE  Piece(CoreArgs(e, m),
               ({"loglevel"} \cup ({"namespace"} \cup {"cluster-store"})) \cup {"unsafe-generic-targets"})
<1> DEFINE scope == IF e.namespace THEN <<<<"namespace", "ns">>, <<"cluster-store", "false">>>>
                    ELSE <<<<"cluster-store", "true">>>>
           log == <<<<"loglevel", getLogLevel(e, m)>>>>
           opt == updateOptionalFeatures(m)
<1>1. Piece(log, {"loglevel"})
  BY LogPiece, Zenon
<1>2. Piece(scope, {"namespace"} \cup {"cluster-store"})
  <2>1. {"namespace"} \cap {"cluster-store"} = {}
    OBVIOUS
  <2>2. Piece(<<<<"namespace", "ns">>>> \o <<<<"cluster-store", "false">>>>,
              {"namespace"} \cup {"cluster-store"})
    BY <2>1, LiteralPieces, TwoPieces, Zenon
  <2>3. Piece(<<<<"namespace", "ns">>, <<"cluster-store", "false">>>>,
              {"namespace"} \cup {"cluster-store"})
    BY <2>2, Couple, Zenon
  <2>4. Piece(<<<<"cluster-store", "true">>>>, {"cluster-store"})
    BY LiteralPieces, Zenon
  <2>5. Piece(<<<<"cluster-store", "true">>>>, {"namespace"} \cup {"cluster-store"})
    BY <2>4, Zenon DEF Piece
  <2> QED BY <2>3, <2>5, Zenon
<1>3. Piece(opt, {"unsafe-generic-targets"})
  BY LiteralPieces, NoFlag, Zenon DEF updateOptionalFeatures
<1> HIDE DEF scope, log, opt
<1>4. /\ {"loglevel"} \cap ({"namespace"} \cup {"cluster-store"}) = {}
      /\ ({"loglevel"} \cup ({"namespace"} \cup {"cluster-store"})) \cap {"unsafe-generic-targets"} = {}
  OBVIOUS
<1>5. Piece(log \o scope, {"loglevel"} \cup ({"namespace"} \cup {"cluster-store"}))
  BY <1>1, <1>2, <1>4, TwoPieces, Zenon
<1>6. Piece((log \o scope) \o opt,
            ({"loglevel"} \cup ({"namespace"} \cup {"cluster-store"})) \cup {"unsafe-generic-targets"})
  BY <1>3, <1>4, <1>5, TwoPieces, Zenon
<1> QED BY <1>6, Zenon DEF CoreArgs, scope, log, opt

LEMMA WebhookPiece ==
  ASSUME NEW e \in ESC, NEW m \in ESM
  PROVE  Piece(<<<<"", "webhook">>, <<"check-interval", "5m0s">>, <<"loglevel", getLogLevel(e, m)>>>>,
               ({""} \cup {"check-interval"}) \cup {"loglevel"})
<1> DEFINE log == <<"loglevel", getLogLevel(e, m)>>
<1>1. Piece(<<log>>, {"loglevel"})
  BY LogPiece, Zenon
<1> HIDE DEF log
<1>2. /\ {""} \cap {"check-interval"} = {}
      /\ ({""} \cup {"check-interval"}) \cap {"loglevel"} = {}
  OBVIOUS
<1>3. Piece(<<<<"", "webhook">>>> \o <<<<"check-interval", "5m0s">>>>, {""} \cup {"check-interval"})
  BY <1>2, LiteralPieces, TwoPieces, Zenon
<1>4. Piece(<<<<"", "webhook">>, <<"check-interval", "5m0s">>>>, {""} \cup {"check-interval"})
  BY <1>3, Couple, Zenon
<1>5. Piece(<<<<"", "webhook">>, <<"check-interval", "5m0s">>>> \o <<log>>,
            ({""} \cup {"check-interval"}) \cup {"loglevel"})
  BY <1>1, <1>2, <1>4, TwoPieces, Zenon
<1> QED BY <1>5, Triple, Zenon DEF log

LEMMA CertControllerPiece ==
  ASSUME NEW e \in ESC, NEW m \in ESM
  PROVE  Piece(<<<<"", "certcontroller">>, <<"loglevel", getLogLevel(e, m)>>>>,
               {""} \cup {"loglevel"})
<1> DEFINE log == <<"loglevel", getLogLevel(e, m)>>
<1>1. Piece(<<log>>, {"loglevel"})
  BY LogPiece, Zenon
<1> HIDE DEF log
<1>2. {""} \cap {"loglevel"} = {}
  OBVIOUS
<1>3. Piece(<<<<"", "certcontroller">>>> \o <<log>>, {""} \cup {"loglevel"})
  BY <1>1, <1>2, LiteralPieces, TwoPieces, Zenon
<1> QED BY <1>3, Couple, Zenon DEF log

\* In the arguments below the overrides no flag is given twice, and a subcommand comes first.
LEMMA BaseArgs ==
  ASSUME process.tlsArgs = operandTLSArgs(process.initial),
         NEW c \in Component, NEW e \in ESC, NEW m \in ESM
  PROVE  /\ ContainerArgs(c, e, m) \in Seq(Arg) /\ DistinctFlags(ContainerArgs(c, e, m))
         /\ c \in {"webhook", "cert-controller"} =>
              1 \in DOMAIN ContainerArgs(c, e, m) /\ ContainerArgs(c, e, m)[1][1] = ""
<1> DEFINE tls == operandTLSArgs(process.initial)
           log == <<"loglevel", getLogLevel(e, m)>>
           T == {"tls-min-version", "tls-ciphers"}
<1>1. Piece(tls, T)
  BY TLSPiece, Zenon
<1>2. ASSUME NEW p, NEW F, Piece(p, F), F \cap T = {}
      PROVE  p \o tls \in Seq(Arg) /\ DistinctFlags(p \o tls)
  <2> HIDE DEF T, tls
  <2>1. Piece(p \o tls, F \cup T)
    BY <1>1, <1>2, TwoPieces, Zenon
  <2> QED BY <2>1, Zenon DEF Piece
<1>3. ASSUME NEW p, NEW F, Piece(p, F), p # <<>>, p[1][1] = ""
      PROVE  1 \in DOMAIN (p \o tls) /\ (p \o tls)[1][1] = ""
  <2> HIDE DEF T, tls
  <2>1. p \in Seq(Arg) /\ tls \in Seq(Arg)
    BY <1>1, <1>3, Zenon DEF Piece
  <2>2. 1 \in DOMAIN (p \o tls) /\ (p \o tls)[1] = p[1]
    BY <1>3, <2>1, FirstOfConcat, Zenon
  <2> QED BY <1>3, <2>2, Zenon
<1>4. CASE c = "core"
  <2>1. ContainerArgs(c, e, m) = CoreArgs(e, m) \o tls
    BY <1>4 DEF ContainerArgs, CoreArgs
  <2>2. (({"loglevel"} \cup ({"namespace"} \cup {"cluster-store"})) \cup {"unsafe-generic-targets"}) \cap T = {}
    OBVIOUS
  <2> HIDE DEF T, tls
  <2>3. c \notin {"webhook", "cert-controller"}
    BY <1>4
  <2> QED BY <1>2, <2>1, <2>2, <2>3, CorePiece, Zenon
<1>5. CASE c = "webhook"
  <2> DEFINE p == <<<<"", "webhook">>, <<"check-interval", "5m0s">>, log>>
  <2>1. ContainerArgs(c, e, m) = p \o tls
    BY <1>5 DEF ContainerArgs
  <2>2. (({""} \cup {"check-interval"}) \cup {"loglevel"}) \cap T = {} /\ p # <<>> /\ p[1][1] = ""
    OBVIOUS
  <2>3. Piece(p, ({""} \cup {"check-interval"}) \cup {"loglevel"})
    BY WebhookPiece, Zenon
  <2> HIDE DEF T, tls, p
  <2> QED BY <1>2, <1>3, <2>1, <2>2, <2>3, Zenon
<1>6. CASE c = "cert-controller"
  <2> DEFINE p == <<<<"", "certcontroller">>, log>>
  <2>1. ContainerArgs(c, e, m) = p \o tls
    BY <1>6 DEF ContainerArgs
  <2>2. ({""} \cup {"loglevel"}) \cap T = {} /\ p # <<>> /\ p[1][1] = ""
    OBVIOUS
  <2>3. Piece(p, {""} \cup {"loglevel"})
    BY CertControllerPiece, Zenon
  <2> HIDE DEF T, tls, p
  <2> QED BY <1>2, <1>3, <2>1, <2>2, <2>3, Zenon
<1>7. CASE c = "bitwarden"
  <2>1. ContainerArgs(c, e, m) = <<<<"state-path", "asset">>>> \o tls
    BY <1>7 DEF ContainerArgs
  <2>2. {"state-path"} \cap T = {} /\ c \notin {"webhook", "cert-controller"}
    BY <1>7
  <2> HIDE DEF T, tls
  <2> QED BY <1>2, <2>1, <2>2, LiteralPieces, Zenon
<1> QED BY <1>4, <1>5, <1>6, <1>7 DEF Component

-----------------------------------------------------------------------------
(* What getDeploymentObject computes, part by part.                          *)

WantedReplicas(c, e) == IF e.config[c].replicas = 0 THEN 1 ELSE e.config[c].replicas

WantedArgs(c, e, m) ==
  mergeContainerArgs(applyOperandArgsFromEnv(c, ContainerArgs(c, e, m)), e.config[c].patch.args)

BundleEnv(c, e) ==
  [v \in Var |-> IF v = "SSL_CERT_DIR" /\ c = "core" /\ e.bundle # "" THEN "dir" ELSE ""]
ProxiedEnv(env, proxy) == [v \in Var |-> IF v \in Proxied THEN ProxyEnv(proxy)[v] ELSE env[v]]
WantedEnv(c, e) == ProxiedEnv(mergeUserEnvVars(BundleEnv(c, e), e.config[c].env), e.proxy)

LayerVolumes(c, e) ==
  [v \in Volume |->
     IF v = "user-ca" /\ c = "core" /\ e.bundle # "" THEN <<"configmap", e.bundle>>
     ELSE IF v = "certs" /\ c = "webhook"
          THEN IF e.certManager THEN <<"cert-manager", "">> ELSE <<"asset", "">>
          ELSE NoVolume]
ProxiedVolumes(volumes, proxy) == [volumes EXCEPT !["trusted-ca"] = TrustedCABundle(proxy)]
WantedVolumes(c, e) == ProxiedVolumes(LayerVolumes(c, e), e.proxy)

PlacedFields(e, m) == [f \in AnyField |-> IF f \in Field THEN Chosen(f, e, m) ELSE {}]
WantedFields(c, e, m) ==
  [f \in AnyField |-> strategicMergePatch(f, PlacedFields(e, m)[f], e.config[c].patch.fields[f])]

\* A Deployment with the fields given, and one that differs in a field; the provers reason
\* about these operators better than about records with constants in them.
Rec(exists, visible, replicas, account, args, env, volumes, fields) ==
  [exists |-> exists, visible |-> visible, replicas |-> replicas, serviceAccount |-> account,
   args |-> args, env |-> env, volumes |-> volumes, fields |-> fields]
SetExists(d, x) == [d EXCEPT !.exists = x]
SetVisible(d, x) == [d EXCEPT !.visible = x]
SetReplicas(d, x) == [d EXCEPT !.replicas = x]
SetAccount(d, x) == [d EXCEPT !.serviceAccount = x]
SetArgs(d, x) == [d EXCEPT !.args = x]
SetEnv(d, x) == [d EXCEPT !.env = x]
SetVolume(d, v, x) == [d EXCEPT !.volumes[v] = x]
SetFields(d, x) == [d EXCEPT !.fields = x]

LEMMA RecSet ==
  ASSUME NEW X, NEW Y, NEW R, NEW S, NEW A, NEW E, NEW V, NEW F, NEW x
  PROVE  /\ SetExists(Rec(X, Y, R, S, A, E, V, F), x) = Rec(x, Y, R, S, A, E, V, F)
         /\ SetVisible(Rec(X, Y, R, S, A, E, V, F), x) = Rec(X, x, R, S, A, E, V, F)
         /\ SetReplicas(Rec(X, Y, R, S, A, E, V, F), x) = Rec(X, Y, x, S, A, E, V, F)
         /\ SetAccount(Rec(X, Y, R, S, A, E, V, F), x) = Rec(X, Y, R, x, A, E, V, F)
         /\ SetArgs(Rec(X, Y, R, S, A, E, V, F), x) = Rec(X, Y, R, S, x, E, V, F)
         /\ SetEnv(Rec(X, Y, R, S, A, E, V, F), x) = Rec(X, Y, R, S, A, x, V, F)
         /\ SetFields(Rec(X, Y, R, S, A, E, V, F), x) = Rec(X, Y, R, S, A, E, V, x)
BY DEF Rec, SetExists, SetVisible, SetReplicas, SetAccount, SetArgs, SetEnv, SetFields

LEMMA RecSetVolume ==
  ASSUME NEW X, NEW Y, NEW R, NEW S, NEW A, NEW E, NEW V, NEW F, NEW k, NEW x
  PROVE  SetVolume(Rec(X, Y, R, S, A, E, V, F), k, x) =
           Rec(X, Y, R, S, A, E, [V EXCEPT ![k] = x], F)
BY DEF Rec, SetVolume

LEMMA RecGet ==
  ASSUME NEW X, NEW Y, NEW R, NEW S, NEW A, NEW E, NEW V, NEW F
  PROVE  LET d == Rec(X, Y, R, S, A, E, V, F) IN
         /\ d.exists = X /\ d.visible = Y /\ d.replicas = R /\ d.serviceAccount = S
         /\ d.args = A /\ d.env = E /\ d.volumes = V /\ d.fields = F
BY DEF Rec

Yes == TRUE
Object(replicas, args, env, volumes, fields) ==
  Rec(Yes, Yes, replicas, "asset", args, env, volumes, fields)

LEMMA AssetRec ==
  ASSUME NEW no, NEW yes, NEW zero, NEW one, NEW none, NEW asset, NEW nil, NEW A,
         NEW E, NEW V, NEW F
  PROVE  SetArgs(SetAccount(SetReplicas(SetVisible(SetExists(
           Rec(no, no, zero, none, nil, E, V, F), yes), yes), one), asset), A) =
           Rec(yes, yes, one, asset, A, E, V, F)
<1>1. SetExists(Rec(no, no, zero, none, nil, E, V, F), yes) = Rec(yes, no, zero, none, nil, E, V, F)
  BY RecSet
<1>2. SetVisible(Rec(yes, no, zero, none, nil, E, V, F), yes) = Rec(yes, yes, zero, none, nil, E, V, F)
  BY RecSet
<1>3. SetReplicas(Rec(yes, yes, zero, none, nil, E, V, F), one) = Rec(yes, yes, one, none, nil, E, V, F)
  BY RecSet
<1>4. SetAccount(Rec(yes, yes, one, none, nil, E, V, F), asset) = Rec(yes, yes, one, asset, nil, E, V, F)
  BY RecSet
<1>5. SetArgs(Rec(yes, yes, one, asset, nil, E, V, F), A) = Rec(yes, yes, one, asset, A, E, V, F)
  BY RecSet
<1> QED BY <1>1, <1>2, <1>3, <1>4, <1>5, Zenon

LEMMA StartedObject ==
  ASSUME NEW A
  PROVE  [Asset EXCEPT !.args = A] =
           Object(1, A, NoEnv, [v \in Volume |-> NoVolume], [f \in AnyField |-> {}])
<1> DEFINE N == [v \in Volume |-> NoVolume]
           Z == [f \in AnyField |-> {}]
<1>1. NoDeployment = Rec(FALSE, FALSE, 0, "", <<>>, NoEnv, N, Z)
  BY Zenon DEF NoDeployment, Rec
<1>2. Asset = SetAccount(SetReplicas(SetVisible(SetExists(NoDeployment, Yes), Yes), 1), "asset")
  BY DEF Asset, Yes, SetAccount, SetReplicas, SetVisible, SetExists
<1>3. [Asset EXCEPT !.args = A] = SetArgs(Asset, A)
  BY DEF SetArgs
<1>4. SetArgs(Asset, A) = Object(1, A, NoEnv, N, Z)
  <2> DEFINE No == FALSE
             zero == 0
             one == 1
             none == ""
             asset == "asset"
             nil == <<>>
  <2>1. Asset = SetAccount(SetReplicas(SetVisible(SetExists(NoDeployment, Yes), Yes), one), asset)
    BY <1>2, Zenon
  <2>2. NoDeployment = Rec(No, No, zero, none, nil, NoEnv, N, Z)
    BY <1>1, Zenon
  <2>3. Object(1, A, NoEnv, N, Z) = Rec(Yes, Yes, one, asset, A, NoEnv, N, Z)
    BY Zenon DEF Object
  <2> HIDE DEF N, Z, No, zero, one, none, asset, nil
  <2>4. SetArgs(SetAccount(SetReplicas(SetVisible(SetExists(
           Rec(No, No, zero, none, nil, NoEnv, N, Z), Yes), Yes), one), asset), A) =
           Rec(Yes, Yes, one, asset, A, NoEnv, N, Z)
    BY AssetRec
  <2> QED BY <2>1, <2>2, <2>3, <2>4, Zenon
<1> QED BY <1>3, <1>4, Zenon DEF N, Z

LEMMA VolumesObject ==
  ASSUME NEW c \in Component, NEW e \in ESC, NEW A, NEW F
  PROVE  WithVolumes(c, e, Object(1, A, NoEnv, [v \in Volume |-> NoVolume], F)) =
           Object(1, A, BundleEnv(c, e), LayerVolumes(c, e), F)
<1> DEFINE N == [v \in Volume |-> NoVolume]
           d == Object(1, A, NoEnv, N, F)
<1>1. CASE c = "core" /\ e.bundle # ""
  <2>1. [NoEnv EXCEPT !["SSL_CERT_DIR"] = "dir"] = BundleEnv(c, e)
    BY <1>1 DEF NoEnv, BundleEnv, Var
  <2>2. [N EXCEPT !["user-ca"] = <<"configmap", e.bundle>>] = LayerVolumes(c, e)
    BY <1>1 DEF Volume, LayerVolumes
  <2> HIDE DEF N
  <2>3. d.env = NoEnv
    BY RecGet DEF Object
  <2>4. WithVolumes(c, e, d) =
          [d EXCEPT !.volumes["user-ca"] = <<"configmap", e.bundle>>, !.env["SSL_CERT_DIR"] = "dir"]
    <3> HIDE DEF d
    <3> QED BY <1>1 DEF WithVolumes, applyUserCABundleConfig
  <2>5. [d EXCEPT !.volumes["user-ca"] = <<"configmap", e.bundle>>, !.env["SSL_CERT_DIR"] = "dir"] =
          SetEnv(SetVolume(d, "user-ca", <<"configmap", e.bundle>>),
                 [d.env EXCEPT !["SSL_CERT_DIR"] = "dir"])
    <3> HIDE DEF d
    <3> QED BY DEF SetEnv, SetVolume
  <2>6. SetVolume(d, "user-ca", <<"configmap", e.bundle>>) =
          Object(1, A, NoEnv, LayerVolumes(c, e), F)
    BY <2>2, RecSetVolume DEF Object
  <2>7. SetEnv(Object(1, A, NoEnv, LayerVolumes(c, e), F), BundleEnv(c, e)) =
          Object(1, A, BundleEnv(c, e), LayerVolumes(c, e), F)
    BY RecSet DEF Object
  <2>8. WithVolumes(c, e, d) = Object(1, A, BundleEnv(c, e), LayerVolumes(c, e), F)
    <3> HIDE DEF d
    <3> QED BY <2>1, <2>3, <2>4, <2>5, <2>6, <2>7
  <2> QED BY <2>8 DEF N
<1>2. CASE c = "webhook"
  <2>1. NoEnv = BundleEnv(c, e)
    BY <1>2 DEF NoEnv, BundleEnv, Var
  <2> DEFINE V == IF e.certManager THEN <<"cert-manager", "">> ELSE <<"asset", "">>
  <2>2. [N EXCEPT !["certs"] = V] = LayerVolumes(c, e)
    BY <1>2 DEF Volume, LayerVolumes
  <2> HIDE DEF N
  <2>3. WithVolumes(c, e, d) = SetVolume(d, "certs", V)
    <3> HIDE DEF d
    <3> QED BY <1>2 DEF WithVolumes, updateWebhookVolumeConfig, SetVolume
  <2> HIDE DEF V
  <2>4. SetVolume(d, "certs", V) = Object(1, A, NoEnv, LayerVolumes(c, e), F)
    BY <2>2, RecSetVolume DEF Object
  <2> QED BY <2>1, <2>3, <2>4 DEF N
<1>3. CASE ~(c = "core" /\ e.bundle # "") /\ c # "webhook"
  <2>1. NoEnv = BundleEnv(c, e) /\ N = LayerVolumes(c, e)
    BY <1>3 DEF NoEnv, BundleEnv, Var, LayerVolumes, Volume
  <2> HIDE DEF N
  <2>2. WithVolumes(c, e, d) = d
    <3> HIDE DEF d
    <3> QED BY <1>3 DEF WithVolumes, applyUserCABundleConfig
  <2> QED BY <2>1, <2>2 DEF N
<1> QED BY <1>1, <1>2, <1>3

LEMMA PlacedObject ==
  ASSUME NEW e, NEW m, NEW R, NEW A, NEW E, NEW V, NEW F
  PROVE  WithPlacement(e, m, Object(R, A, E, V, F)) = Object(R, A, E, V, PlacedFields(e, m))
<1>1. WithPlacement(e, m, Object(R, A, E, V, F)) = SetFields(Object(R, A, E, V, F), PlacedFields(e, m))
  BY Zenon DEF WithPlacement, PlacedFields, SetFields
<1> QED BY <1>1, RecSet DEF Object

LEMMA UserObject ==
  ASSUME NEW config, NEW A, NEW E, NEW V, NEW F
  PROVE  applyUserDeploymentConfigs(Object(1, A, E, V, F), config) =
           Object(IF config.replicas = 0 THEN 1 ELSE config.replicas,
                  mergeContainerArgs(A, config.patch.args), mergeUserEnvVars(E, config.env), V,
                  [f \in AnyField |-> strategicMergePatch(f, F[f], config.patch.fields[f])])
<1> DEFINE R == IF config.replicas = 0 THEN 1 ELSE config.replicas
           U == mergeUserEnvVars(E, config.env)
           M == mergeContainerArgs(A, config.patch.args)
           G == [f \in AnyField |-> strategicMergePatch(f, F[f], config.patch.fields[f])]
           d == Object(1, A, E, V, F)
           u == Object(R, A, U, V, F)
<1>1. d.replicas = 1 /\ d.env = E
  BY RecGet DEF Object
<1>2. [d EXCEPT !.replicas = IF config.replicas = 0 THEN @ ELSE config.replicas,
                !.env = mergeUserEnvVars(@, config.env)] = SetEnv(SetReplicas(d, R), U)
  <2> HIDE DEF d
  <2> QED BY <1>1 DEF SetEnv, SetReplicas
<1>3. SetEnv(SetReplicas(d, R), U) = u
  <2> HIDE DEF R, U
  <2>1. SetReplicas(d, R) = Object(R, A, E, V, F)
    BY RecSet DEF Object
  <2>2. SetEnv(Object(R, A, E, V, F), U) = u
    BY RecSet DEF Object
  <2> QED BY <2>1, <2>2, Zenon
<1>4. u.fields = F /\ u.args = A
  BY RecGet DEF Object
<1>5. applyAdvancedOverrides(u, config.patch) = SetArgs(SetFields(u, G), M)
  <2> HIDE DEF u
  <2> QED BY <1>4 DEF applyAdvancedOverrides, SetArgs, SetFields
<1>6. SetArgs(SetFields(u, G), M) = Object(R, M, U, V, G)
  <2> HIDE DEF R, U, G, M
  <2>1. SetFields(u, G) = Object(R, A, U, V, G)
    BY RecSet DEF Object
  <2>2. SetArgs(Object(R, A, U, V, G), M) = Object(R, M, U, V, G)
    BY RecSet DEF Object
  <2> QED BY <2>1, <2>2, Zenon
<1>7. applyUserDeploymentConfigs(d, config) = applyAdvancedOverrides(u, config.patch)
  <2> HIDE DEF u, d, R, U
  <2> QED BY <1>2, <1>3 DEF applyUserDeploymentConfigs
<1> QED BY <1>5, <1>6, <1>7, Zenon

LEMMA ProxyObject ==
  ASSUME NEW proxy, NEW R, NEW A, NEW E, NEW V, NEW F
  PROVE  updateProxyConfiguration(Object(R, A, E, V, F), proxy) =
           Object(R, A, ProxiedEnv(E, proxy),
                  ProxiedVolumes(V, proxy), F)
<1> DEFINE P == ProxiedEnv(E, proxy)
           T == TrustedCABundle(proxy)
           d == Object(R, A, E, V, F)
<1>1. d.env = E
  BY RecGet DEF Object
<1>2. updateProxyConfiguration(d, proxy) = SetVolume(SetEnv(d, P), "trusted-ca", T)
  <2> HIDE DEF d
  <2> QED BY <1>1 DEF updateProxyConfiguration, SetVolume, SetEnv, ProxiedEnv
<1>3. SetEnv(d, P) = Object(R, A, P, V, F)
  <2> HIDE DEF P
  <2> QED BY RecSet DEF Object
<1>4. SetVolume(Object(R, A, P, V, F), "trusted-ca", T) =
        Object(R, A, P, [V EXCEPT !["trusted-ca"] = T], F)
  <2> HIDE DEF P, T
  <2> QED BY RecSetVolume DEF Object
<1> QED BY <1>2, <1>3, <1>4, Zenon DEF ProxiedVolumes

LEMMA ObjectParts ==
  ASSUME NEW c \in Component, NEW e \in ESC, NEW m \in ESM
  PROVE  getDeploymentObject(c, e, m) =
           Object(WantedReplicas(c, e), WantedArgs(c, e, m), WantedEnv(c, e),
                  WantedVolumes(c, e), WantedFields(c, e, m))
<1> DEFINE A == applyOperandArgsFromEnv(c, ContainerArgs(c, e, m))
           started == [Asset EXCEPT !.args = A]
           placed == WithPlacement(e, m, WithVolumes(c, e, started))
           user == applyUserDeploymentConfigs(placed, e.config[c])
<1>1. placed = Object(1, A, BundleEnv(c, e), LayerVolumes(c, e), PlacedFields(e, m))
  <2> DEFINE N == [v \in Volume |-> NoVolume]
             Z == [f \in AnyField |-> {}]
  <2>1. started = Object(1, A, NoEnv, N, Z)
    BY StartedObject, Zenon
  <2> HIDE DEF A, started
  <2>2. WithVolumes(c, e, Object(1, A, NoEnv, N, Z)) =
          Object(1, A, BundleEnv(c, e), LayerVolumes(c, e), Z)
    BY VolumesObject, Zenon
  <2> HIDE DEF N, Z
  <2> QED BY <2>1, <2>2, PlacedObject, Zenon
<1>2. user = Object(WantedReplicas(c, e), WantedArgs(c, e, m),
                    mergeUserEnvVars(BundleEnv(c, e), e.config[c].env), LayerVolumes(c, e),
                    WantedFields(c, e, m))
  <2> HIDE DEF placed
  <2> QED BY <1>1, UserObject, Zenon DEF WantedReplicas, WantedArgs, WantedFields
<1>3. updateProxyConfiguration(user, e.proxy) =
           Object(WantedReplicas(c, e), WantedArgs(c, e, m), WantedEnv(c, e),
                  WantedVolumes(c, e), WantedFields(c, e, m))
  <2> DEFINE U == mergeUserEnvVars(BundleEnv(c, e), e.config[c].env)
  <2>1. WantedEnv(c, e) = ProxiedEnv(U, e.proxy)
    BY Zenon DEF WantedEnv
  <2> HIDE DEF user, U
  <2>2. updateProxyConfiguration(Object(WantedReplicas(c, e), WantedArgs(c, e, m), U,
                                        LayerVolumes(c, e), WantedFields(c, e, m)), e.proxy) =
          Object(WantedReplicas(c, e), WantedArgs(c, e, m), WantedEnv(c, e),
                 WantedVolumes(c, e), WantedFields(c, e, m))
    <3>1. updateProxyConfiguration(Object(WantedReplicas(c, e), WantedArgs(c, e, m), U,
                                          LayerVolumes(c, e), WantedFields(c, e, m)), e.proxy) =
            Object(WantedReplicas(c, e), WantedArgs(c, e, m), ProxiedEnv(U, e.proxy),
                   ProxiedVolumes(LayerVolumes(c, e), e.proxy), WantedFields(c, e, m))
      BY ProxyObject
    <3> QED BY <2>1, <3>1, Zenon DEF WantedVolumes
  <2> QED BY <1>2, <2>2, Zenon DEF U
<1> QED BY <1>3, Zenon DEF getDeploymentObject

-----------------------------------------------------------------------------
(* Types of the parts.                                                       *)

LEMMA ConfigType ==
  ASSUME NEW c \in Component, NEW e \in ESC
  PROVE  /\ e.config[c].replicas \in {0, 2} /\ e.config[c].env \in Env
         /\ e.config[c].patch.args \in Seq(Arg)
         /\ e.config[c].patch.fields \in [AnyField -> SUBSET Text]
         /\ e.placement \in Placement
         /\ e.proxy \in {"none", "http", "httpNo"} /\ e.bundle \in {"", "k1", "k2"}
<1>1. e.config[c] \in ComponentConfig
  BY DEF ESC
<1>2. e.config[c].patch \in Patch
  BY <1>1 DEF ComponentConfig
<1> QED BY <1>1, <1>2 DEF ESC, ComponentConfig, Patch

LEMMA ParsedType ==
  ASSUME NEW parts \in Seq(Part)
  PROVE  parseOperandArgsEnv(parts) \in Seq(Arg)
<1>1. \A p \in Part : p.flag \in Text /\ p.value \in Text
  BY DEF Part
<1>2. Len(parts) \in Nat /\ DOMAIN parts = 1 .. Len(parts)
  OBVIOUS
<1>3. ASSUME NEW i \in 1 .. Len(parts) PROVE <<parts[i].flag, parts[i].value>> \in Arg
  <2>1. parts[i] \in Part
    OBVIOUS
  <2>2. parts[i].flag \in Text /\ parts[i].value \in Text
    BY <1>1, <2>1, Zenon
  <2> QED BY <2>2, Zenon DEF Arg
<1>4. [i \in 1 .. Len(parts) |-> <<parts[i].flag, parts[i].value>>] \in Seq(Arg)
  BY <1>2, <1>3, IsASeq
<1> QED BY <1>2, <1>4, Zenon DEF parseOperandArgsEnv

LEMMA ArgsType ==
  ASSUME NEW c \in Component, NEW e \in ESC, NEW m \in ESM, environment.args[c] \in Seq(Part),
         process.tlsArgs = operandTLSArgs(process.initial)
  PROVE  /\ ContainerArgs(c, e, m) \in Seq(Arg)
         /\ applyOperandArgsFromEnv(c, ContainerArgs(c, e, m)) \in Seq(Arg)
         /\ WantedArgs(c, e, m) \in Seq(Arg)
<1>1. ContainerArgs(c, e, m) \in Seq(Arg)
  BY BaseArgs, Zenon
<1>2. parseOperandArgsEnv(environment.args[c]) \in Seq(Arg)
  BY ParsedType, Zenon
<1>3. applyOperandArgsFromEnv(c, ContainerArgs(c, e, m)) \in Seq(Arg)
  BY <1>1, <1>2, MergedArgs, Zenon DEF applyOperandArgsFromEnv
<1>4. e.config[c].patch.args \in Seq(Arg)
  BY ConfigType, Zenon
<1> QED BY <1>1, <1>3, <1>4, MergedArgs, Zenon DEF WantedArgs

LEMMA EnvType ==
  ASSUME NEW c \in Component, NEW e \in ESC
  PROVE  WantedEnv(c, e) \in Env
<1>1. "" \in Text /\ "dir" \in Text /\ "proxy" \in Text
  BY OwnTexts DEF OwnText
<1>2. \A v \in Var : BundleEnv(c, e)[v] \in Text
  BY <1>1 DEF BundleEnv
<1>3. e.config[c].env \in Env
  BY ConfigType, Zenon
<1> DEFINE u == e.config[c].env
           U == mergeUserEnvVars(BundleEnv(c, e), u)
<1> HIDE DEF u
<1>4. \A v \in Var : U[v] \in Text
  BY <1>2, <1>3 DEF mergeUserEnvVars, Env, u
<1>5. \A v \in Proxied : ProxyEnv(e.proxy)[v] \in Text
  BY <1>1 DEF ProxyEnv
<1> HIDE DEF U
<1>6. ProxiedEnv(U, e.proxy) \in Env
  BY <1>4, <1>5 DEF ProxiedEnv, Env
<1> QED BY <1>6, Zenon DEF WantedEnv, U, u

LEMMA VolumesType ==
  ASSUME NEW c \in Component, NEW e \in ESC
  PROVE  /\ WantedVolumes(c, e) \in [Volume -> Text \X Text]
         /\ WantedVolumes(c, e)["trusted-ca"] = TrustedCABundle(e.proxy)
<1>1. /\ "" \in Text /\ "configmap" \in Text /\ "k1" \in Text /\ "k2" \in Text
      /\ "cert-manager" \in Text /\ "asset" \in Text /\ "proxy-bundle" \in Text
  BY OwnTexts DEF OwnText
<1>2. e.bundle \in Text
  BY <1>1, ConfigType
<1>3. LayerVolumes(c, e) \in [Volume -> Text \X Text]
  BY <1>1, <1>2 DEF LayerVolumes, NoVolume
<1>4. TrustedCABundle(e.proxy) \in Text \X Text
  BY <1>1 DEF TrustedCABundle, NoVolume
<1> QED BY <1>3, <1>4 DEF WantedVolumes, ProxiedVolumes, Volume

LEMMA FieldsType ==
  ASSUME NEW c \in Component, NEW e \in ESC, NEW m \in ESM
  PROVE  WantedFields(c, e, m) \in [AnyField -> SUBSET Text]
<1>1. e.placement \in Placement /\ m.placement \in Placement
  BY ConfigType DEF ESM
<1>2. \A f \in Field : Chosen(f, e, m) \in SUBSET Text
  BY <1>1 DEF Chosen, Placement
<1>3. \A f \in AnyField : PlacedFields(e, m)[f] \in SUBSET Text
  BY <1>2 DEF PlacedFields
<1>4. e.config[c].patch.fields \in [AnyField -> SUBSET Text]
  BY ConfigType, Zenon
<1>5. ASSUME NEW f \in AnyField, NEW old \in SUBSET Text, NEW new \in SUBSET Text
      PROVE  strategicMergePatch(f, old, new) \in SUBSET Text
  BY DEF strategicMergePatch
<1>6. ASSUME NEW f \in AnyField
      PROVE  strategicMergePatch(f, PlacedFields(e, m)[f], e.config[c].patch.fields[f]) \in SUBSET Text
  <2>1. e.config[c].patch.fields[f] \in SUBSET Text
    BY <1>4
  <2> QED BY <1>3, <1>5, <2>1, Zenon
<1> QED BY <1>6 DEF WantedFields

LEMMA RecType ==
  ASSUME NEW X \in BOOLEAN, NEW Y \in BOOLEAN, NEW R \in Nat, NEW S \in Text, NEW A \in Seq(Arg),
         NEW E \in Env, NEW V \in [Volume -> Text \X Text], NEW F \in [AnyField -> SUBSET Text]
  PROVE  Rec(X, Y, R, S, A, E, V, F) \in Deployment
BY DEF Rec, Deployment

LEMMA ObjectType ==
  ASSUME NEW c \in Component, NEW e \in ESC, NEW m \in ESM, environment.args[c] \in Seq(Part),
         process.tlsArgs = operandTLSArgs(process.initial)
  PROVE  getDeploymentObject(c, e, m) \in Deployment
<1>1. WantedReplicas(c, e) \in Nat
  <2>1. e.config[c].replicas \in {0, 2}
    BY ConfigType, Zenon
  <2> QED BY <2>1 DEF WantedReplicas
<1>2. "asset" \in Text /\ Yes \in BOOLEAN
  BY OwnTexts DEF OwnText, Yes
<1>3. WantedArgs(c, e, m) \in Seq(Arg)
  BY ArgsType, Zenon
<1>4. Object(WantedReplicas(c, e), WantedArgs(c, e, m), WantedEnv(c, e), WantedVolumes(c, e),
             WantedFields(c, e, m)) \in Deployment
  BY <1>1, <1>2, <1>3, EnvType, VolumesType, FieldsType, RecType, Zenon DEF Object
<1> QED BY <1>4, ObjectParts, Zenon

LEMMA DefaultedType ==
  ASSUME NEW d \in Deployment
  PROVE  Defaulted(d) \in Deployment
<1>1. "field/v1" \in Text
  BY OwnTexts DEF OwnText
<1>2. d.env \in Env
  BY DEF Deployment
<1>3. [v \in Var |-> IF d.env[v] = "field" THEN "field/v1" ELSE d.env[v]] \in Env
  BY <1>1, <1>2 DEF Env
<1> QED BY <1>3 DEF Defaulted, Deployment

-----------------------------------------------------------------------------
(* Type correctness.  It rests on what the steps of a call leave for one     *)
(* another: a Deployment is written only while there is one to do, and only  *)
(* while the operator runs.                                                  *)

CallOK ==
  /\ pass.pc \in {"create", "update"} => pass.todo # <<>>
  /\ pass.pc # "idle" => process.running
  /\ process.tlsArgs = operandTLSArgs(process.initial)

\* No user sets the variable of the trust bundle, and nobody mounts the proxy's bundle by a key.
BundleOK ==
  \A c \in Component : /\ esc.config[c].env["SSL_CERT_DIR"] = ""
                       /\ dep[c].volumes["trusted-ca"][2] = ""

BasicInv == TypeOK /\ CallOK /\ BundleOK

NoBundleVar(e) == \A c \in Component : e.config[c].env["SSL_CERT_DIR"] = ""

LEMMA NoPlacementType == NoPlacement \in Placement
BY OwnTexts DEF NoPlacement, Placement, Unset, OwnText

LEMMA NoConfigType ==
  NoConfig \in ComponentConfig /\ NoConfig.env["SSL_CERT_DIR"] = ""
<1>1. NoEnv \in Env /\ NoEnv["SSL_CERT_DIR"] = ""
  BY OwnTexts DEF NoEnv, Env, OwnText, Var
<1>2. <<>> \in Seq(Arg)
  OBVIOUS
<1>3. [f \in AnyField |-> Keep] \in [AnyField -> SUBSET Text]
  BY OwnTexts DEF Keep, OwnText
<1>4. NoPatch \in Patch
  BY <1>2, <1>3 DEF NoPatch, Patch
<1> QED BY <1>1, <1>4 DEF NoConfig, ComponentConfig

LEMMA IdleType ==
  Idle \in Pass /\ Idle.pc = "idle" /\ NoBundleVar(Idle.esc)
<1>1. Idle.esc \in ESC
  BY NoPlacementType, NoConfigType DEF Idle, ESC
<1>2. Idle.esm \in ESM
  BY NoPlacementType DEF Idle, ESM
<1>3. Idle.todo \in Seq(Component) /\ Idle.pc = "idle"
  BY DEF Idle
<1>4. Idle = [pc |-> Idle.pc, todo |-> Idle.todo, esc |-> Idle.esc, esm |-> Idle.esm]
  BY DEF Idle
<1>5. Idle \in Pass
  BY <1>1, <1>2, <1>3, <1>4 DEF Pass
<1>6. NoBundleVar(Idle.esc)
  BY NoConfigType DEF Idle, NoBundleVar
<1> QED BY <1>3, <1>5, <1>6

LEMMA EditedESC ==
  ASSUME esc \in ESC, NoBundleVar(esc), EditESC
  PROVE  esc' \in ESC /\ NoBundleVar(esc')
<1> USE DEF ESC, NoBundleVar
<1>1. CASE esc' = [esc EXCEPT !.certManager = TRUE]
  BY <1>1
<1>2. CASE esc' = [esc EXCEPT !.bitwarden = ~@]
  BY <1>2
<1>3. CASE esc' = AppConfig([esc EXCEPT !.namespace = ~@])
  BY <1>3 DEF AppConfig
<1>4. CASE esc' = [esc EXCEPT !.logLevel = "error"]
  BY <1>4
<1>5. CASE esc' = NoAppConfig(esc)
  BY <1>5, NoPlacementType DEF NoAppConfig
<1>6. CASE \E p \in Placements : esc' = AppConfig([esc EXCEPT !.placement = p])
  BY <1>6, ConstantsAssumption DEF AppConfig
<1>7. CASE \E p \in {"none", "http", "httpNo"} : esc' = AppConfig([esc EXCEPT !.proxy = p])
  BY <1>7 DEF AppConfig
<1>8. CASE \E k \in {"", "k1", "k2"} : esc' = [esc EXCEPT !.bundle = k]
  BY <1>8
<1>9. ASSUME NEW c \in Configured, NEW r \in {0, 2}, esc' = [esc EXCEPT !.config[c].replicas = r]
      PROVE  esc' \in ESC /\ NoBundleVar(esc')
  BY <1>9, ConstantsAssumption DEF ComponentConfig
<1>10. ASSUME NEW c \in Configured, NEW e \in EnvVars, esc' = [esc EXCEPT !.config[c].env = e]
       PROVE  esc' \in ESC /\ NoBundleVar(esc')
  BY <1>10, ConstantsAssumption DEF ComponentConfig
<1>11. ASSUME NEW c \in Configured, NEW p \in Patches, esc' = [esc EXCEPT !.config[c].patch = p]
       PROVE  esc' \in ESC /\ NoBundleVar(esc')
  BY <1>11, ConstantsAssumption DEF ComponentConfig
<1> QED BY <1>1, <1>2, <1>3, <1>4, <1>5, <1>6, <1>7, <1>8, <1>9, <1>10, <1>11, Zenon DEF EditESC

LEMMA EditedESM ==
  ASSUME esm \in ESM, EditESM
  PROVE  esm' \in ESM
BY ConstantsAssumption DEF EditESM, ESM

LEMMA TodoType ==
  ASSUME NEW e \in ESC
  PROVE  createOrApplyDeployments(e) \in Seq(Component)
<1>1. /\ <<"core", "webhook">> \in Seq(Component) /\ <<"cert-controller">> \in Seq(Component)
      /\ <<"bitwarden">> \in Seq(Component) /\ <<>> \in Seq(Component)
  BY DEF Component
<1>2. (IF e.certManager THEN <<>> ELSE <<"cert-controller">>) \in Seq(Component)
  BY <1>1, Zenon
<1>3. (IF e.bitwarden THEN <<"bitwarden">> ELSE <<>>) \in Seq(Component)
  BY <1>1, Zenon
<1> QED BY <1>1, <1>2, <1>3, ConcatProperties, Zenon DEF createOrApplyDeployments

LEMMA NoDeploymentType ==
  NoDeployment \in Deployment /\ NoDeployment.volumes["trusted-ca"][2] = ""
<1>1. NoEnv \in Env /\ [v \in Volume |-> NoVolume] \in [Volume -> Text \X Text]
      /\ [f \in AnyField |-> {}] \in [AnyField -> SUBSET Text] /\ "" \in Text
  BY OwnTexts DEF NoEnv, Env, OwnText, NoVolume
<1>2. <<>> \in Seq(Arg)
  OBVIOUS
<1>3. NoDeployment \in Deployment
  BY <1>1, <1>2 DEF NoDeployment, Deployment
<1>4. NoDeployment.volumes["trusted-ca"][2] = ""
  BY DEF NoDeployment, Volume, NoVolume
<1> QED BY <1>3, <1>4

LEMMA InitBasic == Init => BasicInv
<1> SUFFICES ASSUME Init PROVE BasicInv
  OBVIOUS
<1>1. esc \in ESC /\ esm \in ESM /\ pass \in Pass /\ NoBundleVar(esc) /\ pass.pc = "idle"
  BY IdleType DEF Init, Pass
<1>2. NoDeployment \in Deployment /\ NoDeployment.volumes["trusted-ca"][2] = ""
  BY NoDeploymentType, Zenon
<1>3. cluster \in Cluster
  BY DEF Init, Cluster
<1>4. environment \in [image : BOOLEAN, args : [Component -> Seq(Part)]]
  BY DEF Init
<1>5. process \in [running : BOOLEAN, initial : Cluster, tlsArgs : Seq(Arg)]
  BY <1>3 DEF Init
<1>6. dep \in [Component -> Deployment]
  BY <1>2 DEF Init
<1>7. TypeOK
  BY <1>1, <1>3, <1>4, <1>5, <1>6 DEF Init, TypeOK, Outcome
<1>8. CallOK
  BY <1>1 DEF Init, CallOK, operandTLSArgs
<1>9. BundleOK
  BY <1>1, <1>2 DEF Init, BundleOK, NoBundleVar
<1> QED BY <1>7, <1>8, <1>9 DEF BasicInv

\* Somebody else's change of a Deployment.
LEMMA DriftType ==
  ASSUME NEW d \in Deployment, d.volumes["trusted-ca"][2] = "",
         NEW new \in {NoDeployment, [d EXCEPT !.visible = FALSE],
                      [d EXCEPT !.replicas = 3, !.env["USER"] = "drift"],
                      [d EXCEPT !.args = Append(@, <<"drift", "">>)],
                      [d EXCEPT !.fields["topologySpread"] = {"drift"}],
                      [d EXCEPT !.volumes["trusted-ca"] = <<"drift", "">>]}
  PROVE  new \in Deployment /\ new.volumes["trusted-ca"][2] = ""
<1>1. "" \in Text /\ "drift" \in Text
  BY OwnTexts DEF OwnText
<1>2. CASE new = NoDeployment
  BY <1>2, NoDeploymentType
<1>3. CASE new = [d EXCEPT !.visible = FALSE]
  BY <1>3 DEF Deployment
<1>4. CASE new = [d EXCEPT !.replicas = 3, !.env["USER"] = "drift"]
  <2>1. [d.env EXCEPT !["USER"] = "drift"] \in Env
    BY <1>1 DEF Deployment, Env
  <2>2. new = [[d EXCEPT !.replicas = 3] EXCEPT !.env = [d.env EXCEPT !["USER"] = "drift"]]
    BY <1>4
  <2> QED BY <2>1, <2>2 DEF Deployment
<1>5. CASE new = [d EXCEPT !.args = Append(@, <<"drift", "">>)]
  <2>1. <<"drift", "">> \in Arg
    BY <1>1, Zenon DEF Arg
  <2>2. d.args \in Seq(Arg)
    BY DEF Deployment
  <2>3. Append(d.args, <<"drift", "">>) \in Seq(Arg)
    BY <2>1, <2>2, AppendProperties, Zenon
  <2> QED BY <1>5, <2>3 DEF Deployment
<1>6. CASE new = [d EXCEPT !.fields["topologySpread"] = {"drift"}]
  BY <1>1, <1>6 DEF Deployment
<1>7. CASE new = [d EXCEPT !.volumes["trusted-ca"] = <<"drift", "">>]
  <2>1. d.volumes \in [Volume -> Text \X Text] /\ "trusted-ca" \in Volume
    BY DEF Deployment, Volume
  <2>2. <<"drift", "">> \in Text \X Text
    BY <1>1, Zenon
  <2> DEFINE V == [d.volumes EXCEPT !["trusted-ca"] = <<"drift", "">>]
  <2>3. V \in [Volume -> Text \X Text]
    BY <2>1, <2>2
  <2>4. V["trusted-ca"] = <<"drift", "">>
    BY <2>1
  <2>5. new = [d EXCEPT !.volumes = V]
    BY <1>7
  <2> HIDE DEF V
  <2>6. new \in Deployment /\ new.volumes = V
    BY <2>3, <2>5 DEF Deployment
  <2>7. <<"drift", "">>[2] = ""
    OBVIOUS
  <2> QED BY <2>4, <2>6, <2>7, Zenon
<1> QED BY <1>2, <1>3, <1>4, <1>5, <1>6, <1>7

LEMMA ChangeType == ASSUME BasicInv, Change PROVE changes' \in Nat
<1>1. changes \in Nat
  BY DEF BasicInv, TypeOK
<1> QED BY <1>1 DEF Change

LEMMA BasicEditESC == ASSUME BasicInv, EditESC PROVE BasicInv'
<1>1. esc' \in ESC /\ NoBundleVar(esc')
  BY EditedESC DEF BasicInv, TypeOK, BundleOK, NoBundleVar
<1>2. UNCHANGED <<esm, environment, cluster, process, dep, pass, outcome, failures>>
      /\ changes' \in Nat
  BY ChangeType, Zenon DEF EditESC
<1>3. queued' \in BOOLEAN
  BY Zenon DEF EditESC
<1> QED BY <1>1, <1>2, <1>3 DEF BasicInv, TypeOK, CallOK, BundleOK, NoBundleVar

LEMMA BasicEditESM == ASSUME BasicInv, EditESM PROVE BasicInv'
<1>1. esm' \in ESM
  BY EditedESM DEF BasicInv, TypeOK
<1>2. UNCHANGED <<esc, environment, cluster, process, dep, pass, outcome, failures>>
      /\ changes' \in Nat
  BY ChangeType, Zenon DEF EditESM
<1>3. queued' \in BOOLEAN
  BY Zenon DEF EditESM
<1> QED BY <1>1, <1>2, <1>3 DEF BasicInv, TypeOK, CallOK, BundleOK

\* A write of a Deployment.
LEMMA BasicStore ==
  ASSUME dep \in [Component -> Deployment], BundleOK,
         NEW c \in Component, NEW d \in Deployment, d.volumes["trusted-ca"][2] = "",
         dep' = [dep EXCEPT ![c] = d], UNCHANGED esc
  PROVE  dep' \in [Component -> Deployment] /\ BundleOK'
BY DEF BundleOK

LEMMA BasicDrift == ASSUME BasicInv, Drift PROVE BasicInv'
<1>1. PICK c \in Configured :
        \E new \in {NoDeployment, [dep[c] EXCEPT !.visible = FALSE],
                    [dep[c] EXCEPT !.replicas = 3, !.env["USER"] = "drift"],
                    [dep[c] EXCEPT !.args = Append(@, <<"drift", "">>)],
                    [dep[c] EXCEPT !.fields["topologySpread"] = {"drift"}],
                    [dep[c] EXCEPT !.volumes["trusted-ca"] = <<"drift", "">>]} :
          new # dep[c] /\ Store(c, new)
  BY Zenon DEF Drift
<1>2. c \in Component /\ dep[c] \in Deployment /\ dep[c].volumes["trusted-ca"][2] = ""
  BY ConstantsAssumption DEF BasicInv, TypeOK, BundleOK
<1>3. PICK d \in Deployment : d.volumes["trusted-ca"][2] = "" /\ Store(c, d)
  BY <1>1, <1>2, DriftType, Zenon
<1>4. UNCHANGED <<esc, esm, environment, cluster, process, pass, outcome, failures>>
      /\ changes' \in Nat
  BY ChangeType, Zenon DEF Drift, inputs
<1>6. queued' \in BOOLEAN
  BY <1>3, Zenon DEF Store
<1>5. dep' \in [Component -> Deployment] /\ BundleOK'
  BY <1>2, <1>3, <1>4, BasicStore DEF Store, BasicInv, TypeOK
<1> QED BY <1>4, <1>5, <1>6 DEF BasicInv, TypeOK, CallOK

LEMMA BasicSetProfile == ASSUME BasicInv, SetProfile PROVE BasicInv'
<1>1. /\ UNCHANGED <<esc, esm, environment, process, dep, queued, pass, outcome, failures>>
      /\ cluster' \in Cluster /\ changes' \in Nat
  BY ChangeType, Zenon DEF SetProfile
<1> QED BY <1>1 DEF BasicInv, TypeOK, CallOK, BundleOK

\* The operator stops.
LEMMA BasicDown ==
  ASSUME BasicInv, Down
  PROVE  /\ process' \in [running : BOOLEAN, initial : Cluster, tlsArgs : Seq(Arg)]
         /\ pass' \in Pass /\ queued' \in BOOLEAN /\ CallOK'
<1>1. process' = [process EXCEPT !.running = FALSE] /\ pass' = Idle /\ queued' = FALSE
  BY DEF Down
<1>2. process \in [running : BOOLEAN, initial : Cluster, tlsArgs : Seq(Arg)]
  BY DEF BasicInv, TypeOK
<1>3. /\ process' \in [running : BOOLEAN, initial : Cluster, tlsArgs : Seq(Arg)]
      /\ process'.initial = process.initial /\ process'.tlsArgs = process.tlsArgs
  BY <1>1, <1>2
<1>4. pass' \in Pass /\ pass'.pc = "idle"
  BY <1>1, IdleType, Zenon
<1>5. CallOK'
  BY <1>3, <1>4 DEF BasicInv, CallOK
<1> QED BY <1>1, <1>3, <1>4, <1>5

LEMMA BasicSetEnvironment == ASSUME BasicInv, SetEnvironment PROVE BasicInv'
<1>1. /\ process' \in [running : BOOLEAN, initial : Cluster, tlsArgs : Seq(Arg)]
      /\ pass' \in Pass /\ queued' \in BOOLEAN /\ CallOK'
  BY BasicDown DEF SetEnvironment
<1>2. environment' \in [image : BOOLEAN, args : [Component -> Seq(Part)]]
  <2>1. environment \in [image : BOOLEAN, args : [Component -> Seq(Part)]]
    BY DEF BasicInv, TypeOK
  <2>2. CASE \E image \in BOOLEAN : environment' = [environment EXCEPT !.image = image]
    BY <2>1, <2>2
  <2>3. CASE \E c \in Configured, parts \in Environments :
               environment' = [environment EXCEPT !.args[c] = parts]
    BY <2>1, <2>3, ConstantsAssumption
  <2> QED BY <2>2, <2>3 DEF SetEnvironment
<1>3. UNCHANGED <<esc, esm, cluster, dep, outcome, failures>> /\ changes' \in Nat
  BY ChangeType, Zenon DEF SetEnvironment
<1> QED BY <1>1, <1>2, <1>3 DEF BasicInv, TypeOK, BundleOK

LEMMA BasicStart == ASSUME BasicInv, Start PROVE BasicInv'
<1>1. operandTLSArgs(cluster) \in Seq(Arg)
  BY TLSPiece, Zenon DEF Piece
<1>2. /\ process' = [running |-> TRUE, initial |-> cluster, tlsArgs |-> operandTLSArgs(cluster)]
      /\ UNCHANGED <<esc, esm, environment, cluster, dep, pass, outcome, changes, failures>>
      /\ queued' = TRUE /\ ~process.running
  BY DEF Start, inputs
<1>3. /\ process' \in [running : BOOLEAN, initial : Cluster, tlsArgs : Seq(Arg)]
      /\ process'.tlsArgs = operandTLSArgs(process'.initial) /\ process'.running
  BY <1>1, <1>2 DEF BasicInv, TypeOK
<1>4. CallOK'
  BY <1>2, <1>3 DEF BasicInv, CallOK
<1> QED BY <1>2, <1>3, <1>4 DEF BasicInv, TypeOK, BundleOK

LEMMA BasicWatchProfile == ASSUME BasicInv, WatchProfile PROVE BasicInv'
<1>1. /\ process' \in [running : BOOLEAN, initial : Cluster, tlsArgs : Seq(Arg)]
      /\ pass' \in Pass /\ queued' \in BOOLEAN /\ CallOK'
  BY BasicDown DEF WatchProfile
<1>2. UNCHANGED <<esc, esm, environment, cluster, dep, outcome, changes, failures>>
  BY DEF WatchProfile, inputs
<1> QED BY <1>1, <1>2 DEF BasicInv, TypeOK, BundleOK

LEMMA BasicCrash == ASSUME BasicInv, Crash PROVE BasicInv'
<1>1. /\ process' \in [running : BOOLEAN, initial : Cluster, tlsArgs : Seq(Arg)]
      /\ pass' \in Pass /\ queued' \in BOOLEAN /\ CallOK'
  BY BasicDown DEF Crash
<1>2. UNCHANGED <<esc, esm, environment, cluster, dep, outcome, changes>> /\ failures' \in Nat
  BY DEF Crash, inputs, BasicInv, TypeOK
<1> QED BY <1>1, <1>2 DEF BasicInv, TypeOK, BundleOK

LEMMA BasicReconcile == ASSUME BasicInv, Reconcile PROVE BasicInv'
<1>1. /\ pass' = [pc |-> "read", esc |-> esc, esm |-> esm, todo |-> createOrApplyDeployments(esc)]
      /\ UNCHANGED <<esc, esm, environment, cluster, process, dep, outcome, changes, failures>>
      /\ queued' = FALSE /\ process.running
  BY DEF Reconcile, inputs
<1>2. createOrApplyDeployments(esc) \in Seq(Component)
  BY TodoType DEF BasicInv, TypeOK
<1>3. pass' \in Pass /\ pass'.pc = "read"
  BY <1>1, <1>2 DEF BasicInv, TypeOK, Pass
<1>4. CallOK'
  BY <1>1, <1>3 DEF BasicInv, CallOK
<1> QED BY <1>1, <1>3, <1>4 DEF BasicInv, TypeOK, BundleOK

\* A pass ends.
LEMMA BasicEndPass ==
  ASSUME BasicInv, NEW o \in Outcome, EndPass(o), UNCHANGED process
  PROVE  pass' \in Pass /\ outcome' \in Outcome /\ queued' \in BOOLEAN /\ CallOK'
<1>1. pass' = Idle /\ outcome' = o
  BY DEF EndPass
<1>2. queued' \in BOOLEAN
  BY Zenon DEF EndPass
<1>3. pass' \in Pass /\ pass'.pc = "idle"
  BY <1>1, IdleType, Zenon
<1>4. CallOK'
  BY <1>3 DEF BasicInv, CallOK
<1> QED BY <1>1, <1>2, <1>3, <1>4

LEMMA BasicFinishPass == ASSUME BasicInv, FinishPass PROVE BasicInv'
<1>1. UNCHANGED <<esc, esm, environment, cluster, process, dep, changes, failures>>
  BY DEF FinishPass, inputs
<1>2. pass' \in Pass /\ outcome' \in Outcome /\ queued' \in BOOLEAN /\ CallOK'
  BY <1>1, BasicEndPass DEF FinishPass, Outcome
<1> QED BY <1>1, <1>2 DEF BasicInv, TypeOK, BundleOK

LEMMA BasicFailStep == ASSUME BasicInv, FailStep PROVE BasicInv'
<1>1. UNCHANGED <<esc, esm, environment, cluster, process, dep, changes>> /\ failures' \in Nat
  BY DEF FailStep, inputs, BasicInv, TypeOK
<1>2. pass' \in Pass /\ outcome' \in Outcome /\ queued' \in BOOLEAN /\ CallOK'
  BY <1>1, BasicEndPass DEF FailStep, Outcome
<1> QED BY <1>1, <1>2 DEF BasicInv, TypeOK, BundleOK

LEMMA CurrentType ==
  ASSUME TypeOK, pass.todo # <<>>
  PROVE  Current \in Component /\ Tail(pass.todo) \in Seq(Component)
BY DEF TypeOK, Pass, Current

LEMMA BuiltType == \A c, e, m : Built(c, e, m) \in Outcome
BY DEF Built, Outcome

LEMMA BasicReadDeployment == ASSUME BasicInv, ReadDeployment PROVE BasicInv'
<1>1. UNCHANGED <<esc, esm, environment, cluster, process, dep, changes, failures>>
  BY DEF ReadDeployment, inputs
<1>2. pass.pc = "read" /\ pass.todo # <<>> /\ pass \in Pass
  BY DEF ReadDeployment, BasicInv, TypeOK
<1>3. CASE EndPass(Built(Current, pass.esc, pass.esm))
  <2>1. pass' \in Pass /\ outcome' \in Outcome /\ queued' \in BOOLEAN /\ CallOK'
    BY <1>1, <1>3, BasicEndPass, BuiltType
  <2> QED BY <1>1, <2>1 DEF BasicInv, TypeOK, BundleOK
<1>4. CASE /\ pass' \in {[pass EXCEPT !.pc = "create"], [pass EXCEPT !.pc = "update"],
                         [pass EXCEPT !.todo = Tail(@)]}
           /\ UNCHANGED <<queued, outcome>>
  <2>1. Tail(pass.todo) \in Seq(Component)
    BY <1>2, CurrentType DEF BasicInv
  <2>2. /\ pass' \in Pass
        /\ (pass'.pc \in {"create", "update"} => pass'.todo = pass.todo)
    BY <1>2, <1>4, <2>1 DEF Pass
  <2>3. CallOK'
    BY <1>1, <1>2, <2>2 DEF BasicInv, CallOK
  <2> QED BY <1>1, <1>4, <2>2, <2>3 DEF BasicInv, TypeOK, BundleOK
<1> QED BY <1>3, <1>4 DEF ReadDeployment

LEMMA DesiredType ==
  ASSUME BasicInv, NEW c \in Component
  PROVE  /\ Desired(c) \in Deployment /\ Defaulted(Desired(c)) \in Deployment
         /\ Defaulted(Desired(c)).volumes["trusted-ca"][2] = ""
<1>1. /\ pass.esc \in ESC /\ pass.esm \in ESM /\ environment.args[c] \in Seq(Part)
      /\ process.tlsArgs = operandTLSArgs(process.initial)
  BY DEF BasicInv, TypeOK, Pass, CallOK
<1>2. Desired(c) \in Deployment
  BY <1>1, ObjectType, Zenon DEF Desired
<1>3. Desired(c).volumes = WantedVolumes(c, pass.esc)
  BY <1>1, ObjectParts, RecGet DEF Desired, Object
<1>4. TrustedCABundle(pass.esc.proxy)[2] = ""
  BY DEF TrustedCABundle, NoVolume
<1>5. WantedVolumes(c, pass.esc)["trusted-ca"][2] = ""
  BY <1>1, <1>4, VolumesType
<1>6. Defaulted(Desired(c)).volumes = Desired(c).volumes
  BY <1>2 DEF Defaulted, Deployment
<1> QED BY <1>2, <1>3, <1>5, <1>6, DefaultedType, Zenon

LEMMA BasicWriteDeployment == ASSUME BasicInv, WriteDeployment PROVE BasicInv'
<1>1. UNCHANGED <<esc, esm, environment, cluster, process, changes, failures>>
  BY DEF WriteDeployment, inputs
<1>2. pass.todo # <<>> /\ pass \in Pass /\ process.running
  BY DEF WriteDeployment, BasicInv, TypeOK, CallOK
<1>3. CASE EndPass("retry") /\ UNCHANGED dep
  <2>1. pass' \in Pass /\ outcome' \in Outcome /\ queued' \in BOOLEAN /\ CallOK'
    BY <1>1, <1>3, BasicEndPass DEF Outcome
  <2> QED BY <1>1, <1>3, <2>1 DEF BasicInv, TypeOK, BundleOK
<1>4. CASE /\ Store(Current, Defaulted(Desired(Current)))
           /\ pass' = [pass EXCEPT !.pc = "read", !.todo = Tail(@)]
           /\ UNCHANGED outcome
  <2>1. Current \in Component /\ Tail(pass.todo) \in Seq(Component)
    BY <1>2, CurrentType DEF BasicInv
  <2>2. pass' \in Pass /\ pass'.pc = "read"
    BY <1>2, <1>4, <2>1 DEF Pass
  <2>3. CallOK'
    BY <1>1, <1>2, <2>2 DEF BasicInv, CallOK
  <2>4. /\ Defaulted(Desired(Current)) \in Deployment
        /\ Defaulted(Desired(Current)).volumes["trusted-ca"][2] = ""
    BY <1>2, <2>1, DesiredType
  <2>5. dep' \in [Component -> Deployment] /\ BundleOK'
    BY <1>1, <1>4, <2>1, <2>4, BasicStore DEF Store, BasicInv, TypeOK
  <2>6. queued' \in BOOLEAN
    BY <1>4, Zenon DEF Store
  <2> QED BY <1>1, <1>4, <2>2, <2>3, <2>5, <2>6 DEF BasicInv, TypeOK
<1> QED BY <1>3, <1>4 DEF WriteDeployment

\* Every step keeps the types, and what one step of a call leaves for the next.
LEMMA BasicNext == BasicInv /\ [Next]_vars => BasicInv'
<1> SUFFICES ASSUME BasicInv, [Next]_vars PROVE BasicInv'
  OBVIOUS
<1>1. CASE UNCHANGED vars
  BY <1>1 DEF vars, BasicInv, TypeOK, CallOK, BundleOK
<1> QED BY <1>1, BasicEditESC, BasicEditESM, BasicDrift, BasicSetProfile, BasicSetEnvironment,
           BasicStart, BasicWatchProfile, BasicReconcile, BasicReadDeployment,
           BasicWriteDeployment, BasicFinishPass, BasicFailStep, BasicCrash, Zenon
        DEF Next, Reload, Work

LEMMA BasicAlways == Spec => []BasicInv
BY InitBasic, BasicNext, PTL DEF Spec

\* Whatever is configured, every layer of a Deployment is of its type: the arguments that the
\* merges of OPERAND_*_ARGS and advancedOverrides give, the fields that the strategic merge patch
\* gives, and the outcome of every pass, one of the four that the controller tells apart.
THEOREM TypeCorrect == Spec => []TypeOK
BY BasicAlways, PTL DEF BasicInv

-----------------------------------------------------------------------------
(* What is applied.  Between an event and the end of the pass for it nothing *)
(* can be said; otherwise every Deployment that the call under way has dealt *)
(* with, or all of them after a call that went well, is what the             *)
(* configuration asks for, as far as deploymentSpecModified can tell.        *)

Wanted(c) == getDeploymentObject(c, esc, esm)

InPlace(c) ==
  /\ Parses(environment.args[c]) /\ dep[c].visible
  /\ \E d \in {Wanted(c), Defaulted(Wanted(c))} : ~deploymentSpecModified(d, dep[c])

CallApplied ==
  pass.pc # "idle" => /\ pass.esc = esc /\ pass.esm = esm
                      /\ \A c \in Enabled \ ToSet(pass.todo) : InPlace(c)
WriteDue == pass.pc \in {"create", "update"} => Built(Current, esc, esm) = "ok"
AllApplied == pass.pc = "idle" /\ outcome = "ok" => \A c \in Enabled : InPlace(c)

AppliedInv == process.running /\ ~queued => CallApplied /\ WriteDue /\ AllApplied

LEMMA NotModified == \A d : ~deploymentSpecModified(d, d)
BY DEF deploymentSpecModified, containerSpecModified, volumesEqual

LEMMA InPlaceFrame ==
  ASSUME UNCHANGED <<esc, esm, environment, process>>, NEW c, dep'[c] = dep[c], InPlace(c)
  PROVE  InPlace(c)'
BY Zenon DEF InPlace, Wanted, getDeploymentObject, applyOperandArgsFromEnv, ContainerArgs

LEMMA InPlaceWritten ==
  ASSUME UNCHANGED <<esc, esm, environment, process>>, NEW c, Parses(environment.args[c]),
         dep'[c] = Defaulted(Wanted(c)), dep'[c].visible
  PROVE  InPlace(c)'
<1>1. Wanted(c)' = Wanted(c)
  BY Zenon DEF Wanted, getDeploymentObject, applyOperandArgsFromEnv, ContainerArgs
<1>2. ~deploymentSpecModified(Defaulted(Wanted(c)), dep'[c])
  BY NotModified
<1> QED BY <1>1, <1>2 DEF InPlace, Parses

LEMMA EnabledType == ASSUME TypeOK PROVE Enabled \subseteq Component
<1>1. createOrApplyDeployments(esc) \in Seq(Component)
  BY TodoType DEF TypeOK
<1> QED BY <1>1 DEF Enabled, ToSet

LEMMA TodoSet ==
  ASSUME NEW S, NEW todo \in Seq(S), todo # <<>>
  PROVE  ToSet(todo) = {Head(todo)} \cup ToSet(Tail(todo))
<1> DEFINE t == Tail(todo)
<1>1. /\ Len(todo) \in Nat \ {0} /\ DOMAIN todo = 1 .. Len(todo) /\ Head(todo) = todo[1]
      /\ DOMAIN t = 1 .. Len(todo) - 1 /\ \A i \in 1 .. Len(todo) - 1 : t[i] = todo[i + 1]
  OBVIOUS
<1> HIDE DEF t
<1>2. \A i \in DOMAIN todo : todo[i] = Head(todo) \/ (i - 1 \in DOMAIN t /\ todo[i] = t[i - 1])
  BY <1>1
<1>3. 1 \in DOMAIN todo /\ \A i \in DOMAIN t : i + 1 \in DOMAIN todo /\ t[i] = todo[i + 1]
  BY <1>1
<1>4. ToSet(todo) = {Head(todo)} \cup ToSet(t)
  BY <1>1, <1>2, <1>3 DEF ToSet
<1> QED BY <1>4 DEF t

LEMMA NothingTodo == ToSet(<<>>) = {}
BY DEF ToSet

\* A step that leaves all this alone, or stops the operator, or queues a request.
LEMMA AppliedFrame ==
  ASSUME AppliedInv, UNCHANGED <<esc, esm, environment, process, dep, pass, outcome, queued>>
  PROVE  AppliedInv'
<1> SUFFICES ASSUME process.running, ~queued PROVE CallApplied' /\ WriteDue' /\ AllApplied'
  BY DEF AppliedInv
<1>1. CallApplied /\ WriteDue /\ AllApplied
  BY DEF AppliedInv
<1>2. \A c : InPlace(c) => InPlace(c)'
  BY InPlaceFrame, Zenon
<1>3. Enabled' = Enabled
  BY DEF Enabled
<1>4. CallApplied'
  BY <1>1, <1>2, <1>3, Zenon DEF CallApplied
<1>5. WriteDue'
  BY <1>1 DEF WriteDue, Built, Current
<1>6. AllApplied'
  BY <1>1, <1>2, <1>3, Zenon DEF AllApplied
<1> QED BY <1>4, <1>5, <1>6

LEMMA AppliedDown == ASSUME BasicInv, Down PROVE AppliedInv'
<1>1. ~process'.running
  BY DEF Down, BasicInv, TypeOK
<1> QED BY <1>1 DEF AppliedInv

LEMMA AppliedEndPass ==
  ASSUME NEW o, o # "ok", EndPass(o)
  PROVE  AppliedInv'
<1>1. pass'.pc = "idle" /\ outcome' # "ok"
  BY IdleType DEF EndPass
<1> QED BY <1>1 DEF AppliedInv, CallApplied, WriteDue, AllApplied

LEMMA AppliedDrift == ASSUME BasicInv, AppliedInv, Drift PROVE AppliedInv'
<1>1. UNCHANGED <<esc, esm, environment, process, pass, outcome>>
  BY DEF Drift, inputs
<1>2. PICK c \in Configured : \E new : new # dep[c] /\ Store(c, new)
  BY Zenon DEF Drift
<1>3. PICK new : new # dep[c] /\ Store(c, new)
  BY <1>2
<1> SUFFICES ASSUME process.running, ~queued' PROVE CallApplied' /\ WriteDue' /\ AllApplied'
  BY <1>1 DEF AppliedInv
<1>4. ~queued /\ ~dep[c].visible
  BY <1>3, Zenon DEF Store
<1>5. CallApplied /\ WriteDue /\ AllApplied
  BY <1>4 DEF AppliedInv
<1>6. \A x \in Component : x # c => dep'[x] = dep[x]
  BY <1>3 DEF Store, BasicInv, TypeOK
<1>7. \A x \in Component : InPlace(x) => InPlace(x)'
  <2> SUFFICES ASSUME NEW x \in Component, InPlace(x) PROVE InPlace(x)'
    OBVIOUS
  <2>1. x # c
    BY <1>4, Zenon DEF InPlace
  <2> QED BY <1>1, <1>6, <2>1, InPlaceFrame, Zenon
<1>8. Enabled' = Enabled /\ Enabled \subseteq Component
  BY <1>1, EnabledType DEF Enabled, BasicInv
<1>9. CallApplied'
  BY <1>1, <1>5, <1>7, <1>8, Zenon DEF CallApplied
<1>10. WriteDue'
  BY <1>1, <1>5 DEF WriteDue, Built, Current
<1>11. AllApplied'
  BY <1>1, <1>5, <1>7, <1>8, Zenon DEF AllApplied
<1> QED BY <1>9, <1>10, <1>11

LEMMA AppliedReconcile == ASSUME BasicInv, Reconcile PROVE AppliedInv'
<1>1. /\ pass' = [pc |-> "read", esc |-> esc, esm |-> esm, todo |-> createOrApplyDeployments(esc)]
      /\ UNCHANGED <<esc, esm>>
  BY DEF Reconcile, inputs
<1>2. pass'.pc = "read" /\ pass'.esc = esc' /\ pass'.esm = esm'
      /\ pass'.todo = createOrApplyDeployments(esc')
  BY <1>1
<1>3. CallApplied'
  BY <1>2, Zenon DEF CallApplied, Enabled
<1> QED BY <1>2, <1>3 DEF AppliedInv, WriteDue, AllApplied

LEMMA AppliedFinishPass == ASSUME AppliedInv, FinishPass PROVE AppliedInv'
<1>1. UNCHANGED <<esc, esm, environment, process, dep>> /\ pass.pc = "read" /\ pass.todo = <<>>
  BY DEF FinishPass, inputs
<1>2. pass'.pc = "idle" /\ (queued' <=> queued)
  BY IdleType DEF FinishPass, EndPass
<1> SUFFICES ASSUME process.running, ~queued PROVE AllApplied'
  BY <1>1, <1>2 DEF AppliedInv, CallApplied, WriteDue
<1>3. \A c \in Enabled : InPlace(c)
  BY <1>1, NothingTodo DEF AppliedInv, CallApplied
<1>4. Enabled' = Enabled
  BY <1>1 DEF Enabled
<1>5. \A c : InPlace(c) => InPlace(c)'
  BY <1>1, InPlaceFrame, Zenon
<1> QED BY <1>3, <1>4, <1>5, Zenon DEF AllApplied

LEMMA BuiltParses ==
  ASSUME NEW c, NEW e, NEW m, Built(c, e, m) = "ok"
  PROVE  Parses(environment.args[c])
BY DEF Built

LEMMA AppliedReadDeployment == ASSUME BasicInv, AppliedInv, ReadDeployment PROVE AppliedInv'
<1>1. UNCHANGED <<esc, esm, environment, process, dep>>
  BY DEF ReadDeployment, inputs
<1>2. pass.pc = "read" /\ pass.todo # <<>> /\ pass \in Pass /\ pass.todo \in Seq(Component)
  BY DEF ReadDeployment, BasicInv, TypeOK, Pass
<1>3. CASE Built(Current, pass.esc, pass.esm) # "ok" /\ EndPass(Built(Current, pass.esc, pass.esm))
  BY <1>3, AppliedEndPass
<1>4. ASSUME Built(Current, pass.esc, pass.esm) = "ok",
             \/ pass' \in {[pass EXCEPT !.pc = "create"], [pass EXCEPT !.pc = "update"]}
             \/ /\ pass' = [pass EXCEPT !.todo = Tail(@)] /\ dep[Current].visible
                /\ ~deploymentSpecModified(Desired(Current), dep[Current]),
             UNCHANGED <<queued, outcome>>
      PROVE  AppliedInv'
  <2> SUFFICES ASSUME process.running, ~queued PROVE CallApplied' /\ WriteDue' /\ AllApplied'
    BY <1>1, <1>4 DEF AppliedInv
  <2>1. pass.esc = esc /\ pass.esm = esm /\ \A c \in Enabled \ ToSet(pass.todo) : InPlace(c)
    BY <1>2 DEF AppliedInv, CallApplied
  <2>2. \A c : InPlace(c) => InPlace(c)'
    BY <1>1, InPlaceFrame, Zenon
  <2>3. Enabled' = Enabled
    BY <1>1 DEF Enabled
  <2>4. pass'.esc = esc' /\ pass'.esm = esm' /\ pass'.pc # "idle"
    BY <1>1, <1>2, <1>4, <2>1 DEF Pass
  <2>5. CASE pass' \in {[pass EXCEPT !.pc = "create"], [pass EXCEPT !.pc = "update"]}
    <3>1. pass'.todo = pass.todo
      BY <1>2, <2>5 DEF Pass
    <3>2. CallApplied'
      BY <2>1, <2>2, <2>3, <2>4, <3>1, Zenon DEF CallApplied
    <3>3. Built(Current, esc, esm) = "ok" /\ Current' = Current
      BY <1>4, <2>1, <3>1 DEF Current
    <3>4. WriteDue'
      BY <1>1, <3>3 DEF WriteDue, Built
    <3> QED BY <2>4, <3>2, <3>4 DEF AllApplied
  <2>6. CASE /\ pass' = [pass EXCEPT !.todo = Tail(@)] /\ dep[Current].visible
             /\ ~deploymentSpecModified(Desired(Current), dep[Current])
    <3>1. pass'.todo = Tail(pass.todo) /\ pass'.pc = "read"
      BY <1>2, <2>6 DEF Pass
    <3>2. InPlace(Current)
      BY <1>4, <2>1, <2>6, BuiltParses, Zenon DEF InPlace, Wanted, Desired
    <3>3. ToSet(pass.todo) = {Current} \cup ToSet(Tail(pass.todo))
      BY <1>2, TodoSet, Zenon DEF Current
    <3>4. \A c \in Enabled \ ToSet(Tail(pass.todo)) : InPlace(c)
      BY <2>1, <3>2, <3>3, Zenon
    <3>5. CallApplied'
      BY <2>2, <2>3, <2>4, <3>1, <3>4, Zenon DEF CallApplied
    <3> QED BY <3>1, <3>5 DEF WriteDue, AllApplied
  <2> QED BY <1>4, <2>5, <2>6
<1> QED BY <1>3, <1>4 DEF ReadDeployment

LEMMA DesiredVisible ==
  ASSUME BasicInv, NEW c \in Component
  PROVE  Defaulted(Desired(c)) \in Deployment /\ Defaulted(Desired(c)).visible
<1>1. pass.esc \in ESC /\ pass.esm \in ESM
  BY DEF BasicInv, TypeOK, Pass
<1>2. Desired(c).visible = Yes
  BY <1>1, ObjectParts, RecGet DEF Desired, Object
<1>3. Desired(c) \in Deployment /\ Defaulted(Desired(c)) \in Deployment
  BY DesiredType, Zenon
<1>4. Defaulted(Desired(c)).visible = Desired(c).visible
  BY <1>3 DEF Defaulted, Deployment
<1> QED BY <1>2, <1>3, <1>4, Zenon DEF Yes

LEMMA AppliedWriteDeployment == ASSUME BasicInv, AppliedInv, WriteDeployment PROVE AppliedInv'
<1>1. UNCHANGED <<esc, esm, environment, process>>
  BY DEF WriteDeployment, inputs
<1>2. /\ pass.pc \in {"create", "update"} /\ pass.todo # <<>> /\ pass \in Pass
      /\ pass.todo \in Seq(Component)
  BY DEF WriteDeployment, BasicInv, TypeOK, CallOK, Pass
<1>3. CASE EndPass("retry")
  BY <1>3, AppliedEndPass
<1>4. ASSUME Store(Current, Defaulted(Desired(Current))),
             pass' = [pass EXCEPT !.pc = "read", !.todo = Tail(@)], UNCHANGED outcome
      PROVE  AppliedInv'
  <2> DEFINE d == Defaulted(Desired(Current))
  <2> SUFFICES ASSUME process.running, ~queued' PROVE CallApplied' /\ WriteDue' /\ AllApplied'
    BY <1>1 DEF AppliedInv
  <2>1. ~queued
    BY <1>4, Zenon DEF Store
  <2>2. /\ pass.esc = esc /\ pass.esm = esm /\ Built(Current, esc, esm) = "ok"
        /\ \A c \in Enabled \ ToSet(pass.todo) : InPlace(c)
    BY <1>2, <2>1 DEF AppliedInv, CallApplied, WriteDue
  <2>3. Current \in Component /\ d \in Deployment /\ d.visible
    BY <1>2, CurrentType, DesiredVisible DEF BasicInv
  <2>4. PICK x : x = Current
    OBVIOUS
  <2>5. d = Defaulted(Wanted(x))
    BY <2>2, <2>4, Zenon DEF Desired, Wanted
  <2> HIDE DEF d
  <2>6. dep' = [dep EXCEPT ![x] = d]
    BY <1>4, <2>4, Zenon DEF Store, d
  <2>7. dep'[x] = d /\ \A c \in Component : c # x => dep'[c] = dep[c]
    BY <2>3, <2>4, <2>6 DEF BasicInv, TypeOK
  <2>8. Parses(environment.args[x])
    BY <2>2, <2>4, BuiltParses, Zenon
  <2>9. InPlace(x)'
    BY <1>1, <2>3, <2>5, <2>7, <2>8, InPlaceWritten, Zenon
  <2>10. \A c \in Component : InPlace(c) => InPlace(c)'
    BY <1>1, <2>7, <2>9, InPlaceFrame, Zenon
  <2>11. pass'.pc = "read" /\ pass'.todo = Tail(pass.todo) /\ pass'.esc = esc' /\ pass'.esm = esm'
    BY <1>1, <1>2, <1>4, <2>2 DEF Pass
  <2>12. ToSet(pass.todo) = {x} \cup ToSet(Tail(pass.todo))
    BY <1>2, <2>4, TodoSet, Zenon DEF Current
  <2>13. Enabled' = Enabled /\ Enabled \subseteq Component
    BY <1>1, EnabledType DEF Enabled, BasicInv
  <2>14. \A c \in Enabled \ ToSet(Tail(pass.todo)) : InPlace(c)'
    BY <2>2, <2>9, <2>10, <2>12, <2>13, Zenon
  <2>15. CallApplied'
    BY <2>11, <2>13, <2>14, Zenon DEF CallApplied
  <2> QED BY <2>11, <2>15 DEF WriteDue, AllApplied
<1> QED BY <1>3, <1>4 DEF WriteDeployment

\* Every step keeps what is applied in place, or queues a request for what is not.
LEMMA AppliedNext == BasicInv /\ AppliedInv /\ [Next]_vars => AppliedInv'
<1> SUFFICES ASSUME BasicInv, AppliedInv, [Next]_vars PROVE AppliedInv'
  OBVIOUS
<1>1. CASE EditESC
  BY <1>1 DEF EditESC, AppliedInv
<1>2. CASE EditESM
  BY <1>2 DEF EditESM, AppliedInv
<1>3. CASE Drift
  BY <1>3, AppliedDrift
<1>4. CASE SetProfile
  BY <1>4, AppliedFrame DEF SetProfile
<1>5. CASE SetEnvironment
  BY <1>5, AppliedDown DEF SetEnvironment
<1>6. CASE Start
  BY <1>6 DEF Start, AppliedInv
<1>7. CASE WatchProfile
  BY <1>7, AppliedDown DEF WatchProfile
<1>8. CASE Reconcile
  BY <1>8, AppliedReconcile
<1>9. CASE ReadDeployment
  BY <1>9, AppliedReadDeployment
<1>10. CASE WriteDeployment
  BY <1>10, AppliedWriteDeployment
<1>11. CASE FinishPass
  BY <1>11, AppliedFinishPass
<1>12. CASE FailStep
  <2>1. PICK o \in {"retry", "fatal"} : EndPass(o)
    BY <1>12, Zenon DEF FailStep
  <2> QED BY <2>1, AppliedEndPass
<1>13. CASE Crash
  BY <1>13, AppliedDown DEF Crash
<1>14. CASE UNCHANGED vars
  BY <1>14, AppliedFrame DEF vars
<1> QED BY <1>1, <1>2, <1>3, <1>4, <1>5, <1>6, <1>7, <1>8, <1>9, <1>10, <1>11, <1>12, <1>13, <1>14, Zenon
        DEF Next, Reload, Work

LEMMA AppliedAlways == Spec => [](BasicInv /\ AppliedInv)
<1>1. Init => AppliedInv
  BY DEF Init, AppliedInv
<1> QED BY <1>1, AppliedNext, InitBasic, BasicNext, PTL DEF Spec

-----------------------------------------------------------------------------
(* What is in place takes effect.                                            *)

LEMMA InPlaceParts ==
  ASSUME BasicInv, NEW c \in Component, InPlace(c)
  PROVE  /\ dep[c].args = WantedArgs(c, esc, esm)
         /\ \A v \in Var : Completed(dep[c].env[v], WantedEnv(c, esc)[v])
         /\ dep[c].volumes["trusted-ca"][1] = TrustedCABundle(esc.proxy)[1]
         /\ \A f \in AnyField : dep[c].fields[f] = WantedFields(c, esc, esm)[f]
<1>1. /\ esc \in ESC /\ esm \in ESM /\ environment.args[c] \in Seq(Part)
      /\ process.tlsArgs = operandTLSArgs(process.initial)
  BY DEF BasicInv, TypeOK, CallOK
<1> DEFINE w == Wanted(c)
<1>2. w \in Deployment
  BY <1>1, ObjectType, Zenon DEF Wanted
<1>3. /\ w.args = WantedArgs(c, esc, esm) /\ w.env = WantedEnv(c, esc)
      /\ w.volumes = WantedVolumes(c, esc) /\ w.fields = WantedFields(c, esc, esm)
  BY <1>1, ObjectParts, RecGet DEF Wanted, Object
<1> HIDE DEF w
<1>4. /\ Defaulted(w).args = w.args /\ Defaulted(w).volumes = w.volumes
      /\ Defaulted(w).fields = w.fields
      /\ \A v \in Var : Completed(Defaulted(w).env[v], w.env[v])
  BY <1>2 DEF Defaulted, Deployment, Completed
<1>5. PICK d \in {w, Defaulted(w)} : ~deploymentSpecModified(d, dep[c])
  BY Zenon DEF InPlace, w
<1>6. /\ d.args = w.args /\ d.volumes = w.volumes /\ d.fields = w.fields
      /\ \A v \in Var : Completed(d.env[v], w.env[v])
  BY <1>4, <1>5 DEF Completed
<1>7. /\ d.args = dep[c].args /\ d.env = dep[c].env
      /\ \A f \in AnyField : d.fields[f] = dep[c].fields[f]
      /\ \A v \in Volume : d.volumes[v][1] = dep[c].volumes[v][1]
  BY <1>5 DEF deploymentSpecModified, containerSpecModified, volumesEqual
<1>8. "trusted-ca" \in Volume
  BY DEF Volume
<1>9. w.volumes["trusted-ca"] = TrustedCABundle(esc.proxy)
  BY <1>1, <1>3, VolumesType, Zenon
<1>10. dep[c].args = WantedArgs(c, esc, esm)
  BY <1>3, <1>6, <1>7, Zenon
<1>11. \A v \in Var : Completed(dep[c].env[v], WantedEnv(c, esc)[v])
  BY <1>3, <1>6, <1>7, Zenon
<1>12. dep[c].volumes["trusted-ca"][1] = TrustedCABundle(esc.proxy)[1]
  BY <1>6, <1>7, <1>8, <1>9
<1>13. \A f \in AnyField : dep[c].fields[f] = WantedFields(c, esc, esm)[f]
  BY <1>3, <1>6, <1>7
<1> QED BY <1>10, <1>11, <1>12, <1>13, Zenon

LEMMA SettledInPlace ==
  ASSUME BasicInv, AppliedInv, SettledWell, NEW c \in Enabled
  PROVE  c \in Component /\ InPlace(c)
<1>1. c \in Component
  BY EnabledType DEF BasicInv
<1> QED BY <1>1 DEF AppliedInv, AllApplied, SettledWell, Settled

LEMMA ArgumentsInPlace ==
  ASSUME BasicInv, NEW c \in Component, InPlace(c)
  PROVE  LET args == dep[c].args
             base == ContainerArgs(c, esc, esm)
             env == parseOperandArgsEnv(environment.args[c])
             patch == esc.config[c].patch.args IN
         /\ Flags(args) = Flags(base) \cup Flags(env) \cup (Flags(patch) \ {""})
         /\ \A f \in Flags(args) :
              /\ Cardinality({i \in DOMAIN args : args[i][1] = f}) = 1
              /\ ValueOf(args, f) = CASE f = "" -> ValueOf(base, f)
                                      [] f # "" /\ f \in Flags(patch) -> ValueOf(patch, f)
                                      [] f \in Flags(env) \ Flags(patch) -> ValueOf(env, f)
                                      [] OTHER -> ValueOf(base, f)
         /\ c \in {"webhook", "cert-controller"} => args[1][1] = ""
<1> DEFINE args == dep[c].args
           base == ContainerArgs(c, esc, esm)
           env == parseOperandArgsEnv(environment.args[c])
           patch == esc.config[c].patch.args
           mid == mergeContainerArgs(base, env)
<1>1. /\ esc \in ESC /\ esm \in ESM /\ environment.args[c] \in Seq(Part)
      /\ process.tlsArgs = operandTLSArgs(process.initial)
  BY DEF BasicInv, TypeOK, CallOK
<1>2. /\ base \in Seq(Arg) /\ DistinctFlags(base)
      /\ c \in {"webhook", "cert-controller"} => 1 \in DOMAIN base /\ base[1][1] = ""
  BY <1>1, BaseArgs, Zenon
<1>3. env \in Seq(Arg)
  BY <1>1, ParsedType, Zenon
<1>4. patch \in Seq(Arg)
  BY <1>1, ConfigType, Zenon
<1>5. "" \notin Flags(env)
  <2>1. Parses(environment.args[c])
    BY DEF InPlace
  <2>2. \A i \in DOMAIN env : i \in DOMAIN environment.args[c] /\ env[i][1] = environment.args[c][i].flag
    BY DEF parseOperandArgsEnv
  <2> HIDE DEF env
  <2> QED BY <2>1, <2>2, Zenon DEF Parses, Flags
<1>6. args = mergeContainerArgs(mid, patch)
  BY InPlaceParts, Zenon DEF WantedArgs, applyOperandArgsFromEnv
<1> HIDE DEF args, base, env, patch
<1>7. mid \in Seq(Arg) /\ MergedUpTo(mid, base, env, Len(env))
  BY <1>2, <1>3, MergedArgs, Zenon
<1> HIDE DEF mid
<1>8. DistinctFlags(mid)
  BY <1>7, Zenon DEF MergedUpTo
<1>9. args \in Seq(Arg) /\ MergedUpTo(args, mid, patch, Len(patch))
  BY <1>4, <1>6, <1>7, <1>8, MergedArgs, Zenon
<1>10. Effect(args, base, env, patch)
  BY <1>2, <1>3, <1>4, <1>5, <1>7, <1>9, TwoMerges, Zenon
<1>11. c \in {"webhook", "cert-controller"} => args[1][1] = ""
  BY <1>2, <1>10, Zenon DEF Effect
<1> QED BY <1>10, <1>11 DEF Effect, args, base, env, patch

\* When the controller has settled, the program of every enabled component gets from its command
\* line exactly what the layers give it, the last one first: however many overrides name a flag,
\* and in whatever order.
THEOREM ArgumentsTakeEffect == Spec => []ArgumentsEffective
<1>1. BasicInv /\ AppliedInv => ArgumentsEffective
  BY SettledInPlace, ArgumentsInPlace DEF ArgumentsEffective
<1> QED BY <1>1, AppliedAlways, PTL

LEMMA Pair ==
  ASSUME NEW A, NEW t \in A \X A
  PROVE  t = <<t[1], t[2]>>
OBVIOUS

LEMMA EnvironmentInPlace ==
  ASSUME BasicInv, NEW c \in Component, InPlace(c)
  PROVE  /\ \A v \in Proxied : dep[c].env[v] = ProxyEnv(esc.proxy)[v]
         /\ (dep[c].volumes["trusted-ca"] = NoVolume) = (esc.proxy = "none")
         /\ Completed(dep[c].env["USER"], esc.config[c].env["USER"])
         /\ (dep[c].env["SSL_CERT_DIR"] # "") = (c = "core" /\ esc.bundle # "")
<1> DEFINE u == esc.config[c].env
           w == WantedEnv(c, esc)
           e == dep[c].env
           t == dep[c].volumes["trusted-ca"]
<1>1. \A v \in Var : Completed(e[v], w[v])
  BY InPlaceParts, Zenon
<1>2. w = [v \in Var |-> IF v \in Proxied THEN ProxyEnv(esc.proxy)[v]
                         ELSE IF u[v] # "" THEN u[v] ELSE BundleEnv(c, esc)[v]]
  BY DEF WantedEnv, ProxiedEnv, mergeUserEnvVars
<1>3. u["SSL_CERT_DIR"] = ""
  BY DEF BasicInv, BundleOK
<1>4. t[1] = TrustedCABundle(esc.proxy)[1]
  BY InPlaceParts, Zenon
<1>5. t \in Text \X Text /\ t[2] = ""
  <2>1. dep[c] \in Deployment /\ t[2] = ""
    BY DEF BasicInv, TypeOK, BundleOK
  <2>2. dep[c].volumes \in [Volume -> Text \X Text]
    BY <2>1 DEF Deployment
  <2>3. "trusted-ca" \in Volume
    BY DEF Volume
  <2>4. t \in Text \X Text
    BY <2>2, <2>3, Zenon
  <2> QED BY <2>1, <2>4
<1> HIDE DEF u, w, e, t
<1>6. \A v \in Proxied : e[v] = ProxyEnv(esc.proxy)[v]
  BY <1>1, <1>2 DEF Completed, ProxyEnv, Proxied, Var
<1>7. w["USER"] = u["USER"]
  BY <1>2 DEF Var, Proxied, BundleEnv
<1>8. Completed(e["USER"], u["USER"])
  BY <1>1, <1>7 DEF Var
<1>9. w["SSL_CERT_DIR"] = IF c = "core" /\ esc.bundle # "" THEN "dir" ELSE ""
  BY <1>2, <1>3 DEF Var, Proxied, BundleEnv
<1>10. (e["SSL_CERT_DIR"] # "") = (c = "core" /\ esc.bundle # "")
  BY <1>1, <1>9 DEF Completed, Var
<1>11. (t = NoVolume) = (esc.proxy = "none")
  <2>1. t = <<t[1], t[2]>>
    BY <1>5, Pair, Zenon
  <2>2. t = <<t[1], "">>
    BY <1>5, <2>1, Zenon
  <2>3. CASE esc.proxy = "none"
    BY <1>4, <2>2, <2>3 DEF TrustedCABundle, NoVolume
  <2>4. CASE esc.proxy # "none"
    <3>1. t[1] = "proxy-bundle" /\ NoVolume[1] = ""
      BY <1>4, <2>4 DEF TrustedCABundle, NoVolume
    <3> QED BY <2>4, <3>1
  <2> QED BY <2>3, <2>4
<1> QED BY <1>6, <1>8, <1>10, <1>11 DEF u, e, t

\* When the controller has settled, the variable that only users set has the user's value, the
\* variables of the proxy follow the proxy where overrideEnv leaves them unset, the proxy's volume
\* is there if and only if there is a proxy, and the bundle's variable if and only if there is a
\* bundle, whatever was set and unset before, by users and by others.
THEOREM EnvironmentTakesEffect == Spec => []EnvironmentEffective
<1>1. BasicInv /\ AppliedInv => EnvironmentEffective
  BY SettledInPlace, EnvironmentInPlace DEF EnvironmentEffective
<1> QED BY <1>1, AppliedAlways, PTL

LEMMA PlacementInPlace ==
  ASSUME BasicInv, NEW c \in Component, InPlace(c), NEW f \in AnyField
  PROVE  LET patch == esc.config[c].patch.fields[f]
             below == IF f \in Field THEN Chosen(f, esc, esm) ELSE {} IN
         /\ patch = Keep => dep[c].fields[f] = below
         /\ patch = Null => dep[c].fields[f] = {}
         /\ patch \notin {Keep, Null} => /\ patch \subseteq dep[c].fields[f]
                                         /\ dep[c].fields[f] \subseteq patch \cup below
<1> DEFINE patch == esc.config[c].patch.fields[f]
           below == IF f \in Field THEN Chosen(f, esc, esm) ELSE {}
<1>1. dep[c].fields[f] = WantedFields(c, esc, esm)[f]
  BY InPlaceParts, Zenon
<1>2. WantedFields(c, esc, esm)[f] = strategicMergePatch(f, below, patch)
  BY DEF WantedFields, PlacedFields
<1>3. Keep # Null
  BY DEF Keep, Null
<1> HIDE DEF patch, below
<1>4. /\ patch = Keep => strategicMergePatch(f, below, patch) = below
      /\ patch = Null => strategicMergePatch(f, below, patch) = {}
      /\ patch \notin {Keep, Null} => strategicMergePatch(f, below, patch) \in {patch, below \cup patch}
  BY <1>3 DEF strategicMergePatch
<1>5. /\ patch = Keep => dep[c].fields[f] = below
      /\ patch = Null => dep[c].fields[f] = {}
      /\ patch \notin {Keep, Null} => /\ patch \subseteq dep[c].fields[f]
                                      /\ dep[c].fields[f] \subseteq patch \cup below
  BY <1>1, <1>2, <1>4
<1> QED BY <1>5 DEF patch, below

\* When the controller has settled, every field of the pod is what advancedOverrides, the ESC or
\* the ESM asks for, in this order, and what nobody asks for any more is gone.
THEOREM PlacementTakesEffect == Spec => []PlacementEffective
<1>1. BasicInv /\ AppliedInv => PlacementEffective
  BY SettledInPlace, PlacementInPlace DEF PlacementEffective
<1> QED BY <1>1, AppliedAlways, PTL
=============================================================================
