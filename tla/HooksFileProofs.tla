---------------------------- MODULE HooksFileProofs ----------------------------
(***************************************************************************)
(* Proofs about HooksFile for any processes, places, files and edits.  The *)
(* operators of the model go through a sequence from its front; the first  *)
(* part proves once what such a pass computes, by well-foundedness of the  *)
(* naturals.                                                               *)
(***************************************************************************)
EXTENDS HooksFile, FiniteSetTheorems, WellFoundedInduction, TLAPS

-----------------------------------------------------------------------------
(* Induction, for a set of numbers and for a set of sequences. *)

LEMMA NumberInduction ==
  ASSUME NEW n \in Nat, NEW P, 0 \in P, \A i \in 1..n : i - 1 \in P => i \in P
  PROVE  \A i \in 0..n : i \in P
<1> DEFINE T == {i \in 0..n : i \notin P}
<1> SUFFICES ASSUME T # {} PROVE FALSE
  OBVIOUS
<1>1. T \in SUBSET Nat
  OBVIOUS
<1>2. PICK x \in T : \A y \in T : <<y, x>> \notin OpToRel(<, Nat)
  <2> HIDE DEF T
  <2> QED BY <1>1, NatLessThanWellFounded, WFMin
<1>3. x \in 0..n /\ x \notin P /\ x # 0
  OBVIOUS
<1>4. x \in 1..n /\ x - 1 \in 0..n /\ x - 1 \in Nat /\ x \in Nat /\ x - 1 < x
  BY <1>3
<1>5. x - 1 \in P
  BY <1>2, <1>4 DEF OpToRel
<1> QED BY <1>3, <1>4, <1>5

LEMMA SequenceInduction ==
  ASSUME NEW S, NEW P, <<>> \in P,
         \A s \in Seq(S), e \in S : s \in P => Append(s, e) \in P
  PROVE  Seq(S) \subseteq P
<1> SUFFICES ASSUME NEW s \in Seq(S) PROVE s \in P
  OBVIOUS
<1> DEFINE R == {i \in 0..Len(s) : SubSeq(s, 1, i) \in P}
<1>1. Len(s) \in Nat
  OBVIOUS
<1>2. 0 \in R
  <2>1. SubSeq(s, 1, 0) = <<>> /\ 0 \in 0..Len(s)
    BY <1>1
  <2> QED BY <2>1
<1>3. ASSUME NEW i \in 1..Len(s), i - 1 \in R
      PROVE  i \in R
  <2>1. SubSeq(s, 1, i - 1) \in Seq(S) /\ s[i] \in S
    OBVIOUS
  <2>2. SubSeq(s, 1, i) = Append(SubSeq(s, 1, i - 1), s[i])
    OBVIOUS
  <2>3. i \in 0..Len(s)
    BY <1>1
  <2> QED BY <1>3, <2>1, <2>2, <2>3
<1>4. Len(s) \in R
  <2> HIDE DEF R
  <2>1. \A i \in 0..Len(s) : i \in R
    BY <1>1, <1>2, <1>3, NumberInduction
  <2> QED BY <1>1, <2>1
<1>5. SubSeq(s, 1, Len(s)) = s
  OBVIOUS
<1> QED BY <1>4, <1>5

-----------------------------------------------------------------------------
(* A pass over a sequence s of members of S: the value after i elements is *)
(* made by step from the value before and the element.                     *)

IsStep(S, T, base, step) == base \in T /\ step \in [T \X S -> T]

IsPass(f, s, base, step) ==
  /\ f[0] = base
  /\ \A i \in 1..Len(s) : f[i] = step[<<f[i - 1], s[i]>>]

LEMMA PassExists ==
  ASSUME NEW S, NEW T, NEW base, NEW step, IsStep(S, T, base, step), NEW s \in Seq(S)
  PROVE  \E f \in [0..Len(s) -> T] : IsPass(f, s, base, step)
<1> DEFINE Upto(f, n) == f[0] = base /\ \A i \in 1..n : f[i] = step[<<f[i - 1], s[i]>>]
           P == {n \in 0..Len(s) : \E f \in [0..n -> T] : Upto(f, n)}
<1>1. Len(s) \in Nat
  OBVIOUS
<1>2. 0 \in P
  <2> DEFINE f == [i \in 0..0 |-> base]
  <2>1. f \in [0..0 -> T] /\ Upto(f, 0)
    BY DEF IsStep
  <2>2. 0 \in 0..Len(s)
    BY <1>1
  <2> QED BY <2>1, <2>2
<1>3. ASSUME NEW n \in 1..Len(s), n - 1 \in P
      PROVE  n \in P
  <2>1. PICK f \in [0..(n - 1) -> T] : Upto(f, n - 1)
    BY <1>3
  <2>2. n \in Int /\ n - 1 \in 0..(n - 1) /\ s[n] \in S
    BY <1>1
  <2> DEFINE e == step[<<f[n - 1], s[n]>>]
             g == [i \in 0..n |-> IF i = n THEN e ELSE f[i]]
  <2>3. e \in T
    BY <2>1, <2>2 DEF IsStep
  <2>4. g \in [0..n -> T]
    <3> HIDE DEF e
    <3> QED BY <2>1, <2>2, <2>3
  <2>5. ASSUME NEW i \in 1..n
        PROVE  g[i] = step[<<g[i - 1], s[i]>>]
    <3>1. g[i - 1] = f[i - 1]
      BY <1>1, <2>2
    <3>2. CASE i = n
      <4>1. n \in 0..n /\ g[n] = e
        BY <2>2
      <4> QED BY <3>1, <3>2, <4>1
    <3>3. CASE i # n
      <4>1. i \in 1..(n - 1) /\ i \in 0..n
        BY <1>1, <3>3
      <4> QED BY <2>1, <3>1, <3>3, <4>1
    <3> QED BY <3>2, <3>3
  <2>6. g[0] = base
    BY <2>1, <2>2
  <2>7. Upto(g, n)
    BY <2>5, <2>6
  <2>8. n \in 0..Len(s)
    BY <1>1
  <2> HIDE DEF g, Upto
  <2> QED BY <2>4, <2>7, <2>8
<1>4. Len(s) \in P
  <2> HIDE DEF P
  <2>1. \A i \in 0..Len(s) : i \in P
    BY <1>1, <1>2, <1>3, NumberInduction
  <2> QED BY <1>1, <2>1
<1>5. PICK f \in [0..Len(s) -> T] : Upto(f, Len(s))
  BY <1>4
<1> QED BY <1>5 DEF IsPass

Pass(s, T, base, step) ==
  (CHOOSE f \in [0..Len(s) -> T] : IsPass(f, s, base, step))[Len(s)]

\* Whatever takes the same steps ends with the same value.
Follows(g, s, T, base, step) ==
  /\ g[0] = base
  /\ \A i \in 1..Len(s) : g[i - 1] \in T => g[i] = step[<<g[i - 1], s[i]>>]

LEMMA PassIs ==
  ASSUME NEW S, NEW T, NEW base, NEW step, IsStep(S, T, base, step), NEW s \in Seq(S),
         NEW g, Follows(g, s, T, base, step)
  PROVE  g[Len(s)] = Pass(s, T, base, step)
<1> DEFINE f == CHOOSE f \in [0..Len(s) -> T] : IsPass(f, s, base, step)
           P == {i \in 0..Len(s) : g[i] = f[i]}
<1>1. f \in [0..Len(s) -> T] /\ IsPass(f, s, base, step)
  BY PassExists
<1>2. Len(s) \in Nat /\ Len(s) \in 0..Len(s)
  OBVIOUS
<1>3. Pass(s, T, base, step) = f[Len(s)]
  BY DEF Pass
<1> HIDE DEF f
<1>4. 0 \in P
  BY <1>1, <1>2 DEF IsPass, Follows
<1>5. ASSUME NEW i \in 1..Len(s), i - 1 \in P
      PROVE  i \in P
  <2>1. i - 1 \in 0..Len(s) /\ i \in 0..Len(s)
    BY <1>2
  <2>2. g[i - 1] = f[i - 1] /\ f[i - 1] \in T
    BY <1>1, <1>5, <2>1
  <2> QED BY <1>1, <2>1, <2>2 DEF IsPass, Follows
<1>6. \A i \in 0..Len(s) : i \in P
  <2> HIDE DEF P
  <2> QED BY <1>2, <1>4, <1>5, NumberInduction
<1> QED BY <1>2, <1>3, <1>6

LEMMA PassLaws ==
  ASSUME NEW S, NEW T, NEW base, NEW step, IsStep(S, T, base, step)
  PROVE  /\ Pass(<<>>, T, base, step) = base
         /\ \A s \in Seq(S) : Pass(s, T, base, step) \in T
         /\ \A s \in Seq(S), e \in S :
              Pass(Append(s, e), T, base, step) = step[<<Pass(s, T, base, step), e>>]
<1>1. ASSUME NEW s \in Seq(S)
      PROVE  \E f \in [0..Len(s) -> T] : /\ IsPass(f, s, base, step)
                                         /\ Pass(s, T, base, step) = f[Len(s)]
  BY PassExists DEF Pass
<1>2. Pass(<<>>, T, base, step) = base
  <2>1. <<>> \in Seq(S) /\ Len(<<>>) = 0
    OBVIOUS
  <2> QED BY <1>1, <2>1 DEF IsPass
<1>3. ASSUME NEW s \in Seq(S)
      PROVE  Pass(s, T, base, step) \in T
  <2>1. Len(s) \in 0..Len(s)
    OBVIOUS
  <2> QED BY <1>1, <2>1
<1>4. ASSUME NEW s \in Seq(S), NEW e \in S
      PROVE  Pass(Append(s, e), T, base, step) = step[<<Pass(s, T, base, step), e>>]
  <2> DEFINE t == Append(s, e)
             l == Len(s)
  <2>1. /\ t \in Seq(S) /\ Len(t) = l + 1 /\ l \in Nat
        /\ t[l + 1] = e
        /\ \A i \in 1..l : t[i] = s[i]
    OBVIOUS
  <2>2. PICK f : IsPass(f, t, base, step) /\ Pass(t, T, base, step) = f[Len(t)]
    BY <1>1, <2>1
  <2> HIDE DEF t, l
  <2>3. f[l + 1] = step[<<f[l], e>>]
    <3>1. l + 1 \in 1..Len(t) /\ (l + 1) - 1 = l
      BY <2>1
    <3> QED BY <2>1, <2>2, <3>1 DEF IsPass
  <2>4. f[0] = base /\ \A i \in 1..l : f[i] = step[<<f[i - 1], s[i]>>]
    <3>1. \A i \in 1..l : i \in 1..Len(t)
      BY <2>1
    <3> QED BY <2>1, <2>2, <3>1 DEF IsPass
  <2>5. f[l] = Pass(s, T, base, step)
    <3>1. Follows(f, s, T, base, step)
      BY <2>4 DEF l, Follows
    <3>2. f[Len(s)] = Pass(s, T, base, step)
      BY <3>1, PassIs
    <3> QED BY <3>2 DEF l
  <2> QED BY <2>1, <2>2, <2>3, <2>5 DEF t
<1> QED BY <1>2, <1>3, <1>4
-----------------------------------------------------------------------------
(* What the passes of the model compute, element by element. *)

LEMMA NotOwnedLaws ==
  /\ NotOwned(<<>>) = <<>>
  /\ \A s \in Seq(Handlers) : NotOwned(s) \in Seq(Handlers)
  /\ \A s \in Seq(Handlers), h \in Handlers :
       NotOwned(Append(s, h)) = IF Owned(h) THEN NotOwned(s) ELSE Append(NotOwned(s), h)
<1> DEFINE T == Seq(Handlers)
           step == [x \in T \X Handlers |-> IF Owned(x[2]) THEN x[1] ELSE Append(x[1], x[2])]
           Filled(s, k) == [i \in 0..Len(s) |->
                            IF i = 0 THEN <<>>
                            ELSE IF Owned(s[i]) THEN k[i - 1] ELSE Append(k[i - 1], s[i])]
<1>1. IsStep(Handlers, T, <<>>, step)
  <2>1. \A x \in T \X Handlers : (IF Owned(x[2]) THEN x[1] ELSE Append(x[1], x[2])) \in T
    OBVIOUS
  <2> QED BY <2>1 DEF IsStep
<1>2. \A a \in T, h \in Handlers : step[<<a, h>>] = IF Owned(h) THEN a ELSE Append(a, h)
  OBVIOUS
<1> HIDE DEF step
<1>3. ASSUME NEW s \in Seq(Handlers)
      PROVE  NotOwned(s) = Pass(s, T, <<>>, step)
  <2> DEFINE k == CHOOSE k : k = Filled(s, k)
  <2>1. PICK f \in [0..Len(s) -> T] : IsPass(f, s, <<>>, step)
    BY <1>1, PassExists
  <2>2. f = Filled(s, f)
    <3>1. Len(s) \in Nat /\ \A i \in 1..Len(s) : s[i] \in Handlers /\ f[i - 1] \in T
      BY <2>1
    <3>2. ASSUME NEW i \in 0..Len(s)
          PROVE  f[i] = Filled(s, f)[i]
      <4>1. CASE i = 0
        BY <2>1, <4>1 DEF IsPass
      <4>2. CASE i # 0
        <5>1. i \in 1..Len(s)
          BY <3>1, <4>2
        <5>2. f[i] = IF Owned(s[i]) THEN f[i - 1] ELSE Append(f[i - 1], s[i])
          BY <1>2, <2>1, <3>1, <5>1 DEF IsPass
        <5> QED BY <4>2, <5>2
      <4> QED BY <4>1, <4>2
    <3> QED BY <2>1, <3>2
  <2>3. k = Filled(s, k)
    <3> HIDE DEF Filled
    <3> QED BY <2>2
  <2>4. NotOwned(s) = k[Len(s)]
    BY DEF NotOwned
  <2> HIDE DEF k
  <2>5. Follows(k, s, T, <<>>, step)
    <3>1. Len(s) \in Nat /\ 0 \in 0..Len(s)
      OBVIOUS
    <3>2. k[0] = <<>>
      BY <2>3, <3>1
    <3>3. ASSUME NEW i \in 1..Len(s), k[i - 1] \in T
          PROVE  k[i] = step[<<k[i - 1], s[i]>>]
      <4>1. i \in 0..Len(s) /\ i # 0 /\ s[i] \in Handlers
        BY <3>1
      <4>2. k[i] = IF Owned(s[i]) THEN k[i - 1] ELSE Append(k[i - 1], s[i])
        BY <2>3, <4>1
      <4> QED BY <1>2, <3>3, <4>1, <4>2
    <3> QED BY <3>2, <3>3 DEF Follows
  <2> QED BY <1>1, <2>4, <2>5, PassIs
<1>4. /\ Pass(<<>>, T, <<>>, step) = <<>>
      /\ \A s \in Seq(Handlers) : Pass(s, T, <<>>, step) \in T
      /\ \A s \in Seq(Handlers), h \in Handlers :
           Pass(Append(s, h), T, <<>>, step) = step[<<Pass(s, T, <<>>, step), h>>]
  BY <1>1, PassLaws
<1>5. /\ <<>> \in Seq(Handlers)
      /\ \A s \in Seq(Handlers), h \in Handlers : Append(s, h) \in Seq(Handlers)
  OBVIOUS
<1>6. \A s \in Seq(Handlers) : NotOwned(s) \in T
  BY <1>3, <1>4
<1>7. ASSUME NEW s \in Seq(Handlers), NEW h \in Handlers
      PROVE  NotOwned(Append(s, h)) = IF Owned(h) THEN NotOwned(s) ELSE Append(NotOwned(s), h)
  <2> HIDE DEF T
  <2>1. NotOwned(Append(s, h)) = step[<<NotOwned(s), h>>]
    BY <1>3, <1>4, <1>5
  <2> QED BY <1>2, <1>6, <2>1
<1> QED BY <1>3, <1>4, <1>5, <1>6, <1>7

LEMMA RestType ==
  ASSUME NEW g \in Groups
  PROVE  /\ Rest(g) \in Groups
         /\ g.hooks = Absent => Rest(g) = g
         /\ g.hooks # Absent => g.hooks \in Seq(Handlers) /\ Rest(g).hooks = NotOwned(g.hooks)
<1>1. CASE g.hooks = Absent
  BY <1>1 DEF Rest
<1>2. CASE g.hooks # Absent
  <2>1. g.hooks \in Seq(Handlers) /\ g = [hooks |-> g.hooks]
    BY <1>2 DEF Groups
  <2>2. Rest(g) = [hooks |-> NotOwned(g.hooks)]
    BY <1>2, <2>1 DEF Rest
  <2>3. NotOwned(g.hooks) \in Seq(Handlers)
    BY <2>1, NotOwnedLaws
  <2> QED BY <1>2, <2>1, <2>2, <2>3 DEF Groups
<1> QED BY <1>1, <1>2

LEMMA RemoveOwnedLaws ==
  /\ RemoveOwned(<<>>) = <<>>
  /\ \A s \in Seq(Groups) : RemoveOwned(s) \in Seq(Groups)
  /\ \A s \in Seq(Groups), g \in Groups :
       RemoveOwned(Append(s, g)) = IF Rest(g).hooks = <<>> THEN RemoveOwned(s)
                                   ELSE Append(RemoveOwned(s), Rest(g))
<1> DEFINE T == Seq(Groups)
           step == [x \in T \X Groups |-> IF Rest(x[2]).hooks = <<>> THEN x[1]
                                          ELSE Append(x[1], Rest(x[2]))]
           Filled(s, k) == [i \in 0..Len(s) |->
                            IF i = 0 THEN <<>>
                            ELSE IF Rest(s[i]).hooks = <<>> THEN k[i - 1]
                            ELSE Append(k[i - 1], Rest(s[i]))]
<1>1. IsStep(Groups, T, <<>>, step)
  <2>1. \A x \in T \X Groups : (IF Rest(x[2]).hooks = <<>> THEN x[1]
                               ELSE Append(x[1], Rest(x[2]))) \in T
    BY RestType
  <2> QED BY <2>1 DEF IsStep
<1>2. \A a \in T, g \in Groups :
        step[<<a, g>>] = IF Rest(g).hooks = <<>> THEN a ELSE Append(a, Rest(g))
  OBVIOUS
<1> HIDE DEF step
<1>3. ASSUME NEW s \in Seq(Groups)
      PROVE  RemoveOwned(s) = Pass(s, T, <<>>, step)
  <2> DEFINE k == CHOOSE k : k = Filled(s, k)
  <2>1. PICK f \in [0..Len(s) -> T] : IsPass(f, s, <<>>, step)
    BY <1>1, PassExists
  <2>2. f = Filled(s, f)
    <3>1. Len(s) \in Nat /\ \A i \in 1..Len(s) : s[i] \in Groups /\ f[i - 1] \in T
      BY <2>1
    <3>2. ASSUME NEW i \in 0..Len(s)
          PROVE  f[i] = Filled(s, f)[i]
      <4>1. CASE i = 0
        BY <2>1, <4>1 DEF IsPass
      <4>2. CASE i # 0
        <5>1. i \in 1..Len(s)
          BY <3>1, <4>2
        <5>2. f[i] = IF Rest(s[i]).hooks = <<>> THEN f[i - 1] ELSE Append(f[i - 1], Rest(s[i]))
          BY <1>2, <2>1, <3>1, <5>1 DEF IsPass
        <5> QED BY <4>2, <5>2
      <4> QED BY <4>1, <4>2
    <3> QED BY <2>1, <3>2
  <2>3. k = Filled(s, k)
    <3> HIDE DEF Filled
    <3> QED BY <2>2
  <2>4. RemoveOwned(s) = k[Len(s)]
    BY DEF RemoveOwned
  <2> HIDE DEF k
  <2>5. Follows(k, s, T, <<>>, step)
    <3>1. Len(s) \in Nat /\ 0 \in 0..Len(s)
      OBVIOUS
    <3>2. k[0] = <<>>
      BY <2>3, <3>1
    <3>3. ASSUME NEW i \in 1..Len(s), k[i - 1] \in T
          PROVE  k[i] = step[<<k[i - 1], s[i]>>]
      <4>1. i \in 0..Len(s) /\ i # 0 /\ s[i] \in Groups
        BY <3>1
      <4>2. k[i] = IF Rest(s[i]).hooks = <<>> THEN k[i - 1] ELSE Append(k[i - 1], Rest(s[i]))
        BY <2>3, <4>1
      <4> QED BY <1>2, <3>3, <4>1, <4>2
    <3> QED BY <3>2, <3>3 DEF Follows
  <2> QED BY <1>1, <2>4, <2>5, PassIs
<1>4. /\ Pass(<<>>, T, <<>>, step) = <<>>
      /\ \A s \in Seq(Groups) : Pass(s, T, <<>>, step) \in T
      /\ \A s \in Seq(Groups), g \in Groups :
           Pass(Append(s, g), T, <<>>, step) = step[<<Pass(s, T, <<>>, step), g>>]
  BY <1>1, PassLaws
<1>5. <<>> \in Seq(Groups) /\ \A s \in Seq(Groups), g \in Groups : Append(s, g) \in Seq(Groups)
  OBVIOUS
<1>6. \A s \in Seq(Groups) : RemoveOwned(s) \in T
  BY <1>3, <1>4
<1>7. ASSUME NEW s \in Seq(Groups), NEW g \in Groups
      PROVE  RemoveOwned(Append(s, g)) = IF Rest(g).hooks = <<>> THEN RemoveOwned(s)
                                         ELSE Append(RemoveOwned(s), Rest(g))
  <2> HIDE DEF T
  <2>1. RemoveOwned(Append(s, g)) = step[<<RemoveOwned(s), g>>]
    BY <1>3, <1>4, <1>5
  <2> QED BY <1>2, <1>6, <2>1
<1> QED BY <1>3, <1>4, <1>5, <1>6, <1>7

HandlersIn(g) == IF g.hooks = Absent THEN <<>> ELSE g.hooks

LEMMA HandlersInType ==
  ASSUME NEW g \in Groups
  PROVE  HandlersIn(g) \in Seq(Handlers)
BY DEF HandlersIn, Groups

LEMMA InTurnLaws ==
  /\ InTurn(<<>>) = <<>>
  /\ \A s \in Seq(Groups) : InTurn(s) \in Seq(Handlers)
  /\ \A s \in Seq(Groups), g \in Groups :
       InTurn(Append(s, g)) = InTurn(s) \o HandlersIn(g)
<1> DEFINE T == Seq(Handlers)
           step == [x \in T \X Groups |-> x[1] \o HandlersIn(x[2])]
           Filled(s, k) == [i \in 0..Len(s) |->
                            IF i = 0 THEN <<>>
                            ELSE k[i - 1] \o HandlersIn(s[i])]
<1>1. IsStep(Groups, T, <<>>, step)
  <2>1. \A x \in T \X Groups : (x[1] \o HandlersIn(x[2])) \in T
    BY HandlersInType
  <2> QED BY <2>1 DEF IsStep
<1>2. \A a \in T, g \in Groups : step[<<a, g>>] = a \o HandlersIn(g)
  OBVIOUS
<1> HIDE DEF step
<1>3. ASSUME NEW s \in Seq(Groups)
      PROVE  InTurn(s) = Pass(s, T, <<>>, step)
  <2> DEFINE k == CHOOSE k : k = Filled(s, k)
  <2>1. PICK f \in [0..Len(s) -> T] : IsPass(f, s, <<>>, step)
    BY <1>1, PassExists
  <2>2. f = Filled(s, f)
    <3>1. Len(s) \in Nat /\ \A i \in 1..Len(s) : s[i] \in Groups /\ f[i - 1] \in T
      BY <2>1
    <3>2. ASSUME NEW i \in 0..Len(s)
          PROVE  f[i] = Filled(s, f)[i]
      <4>1. CASE i = 0
        BY <2>1, <4>1 DEF IsPass
      <4>2. CASE i # 0
        <5>1. i \in 1..Len(s)
          BY <3>1, <4>2
        <5>2. f[i] = f[i - 1] \o HandlersIn(s[i])
          BY <1>2, <2>1, <3>1, <5>1 DEF IsPass
        <5> QED BY <4>2, <5>2
      <4> QED BY <4>1, <4>2
    <3> QED BY <2>1, <3>2
  <2>3. k = Filled(s, k)
    <3> HIDE DEF Filled
    <3> QED BY <2>2
  <2>4. InTurn(s) = k[Len(s)]
    BY DEF InTurn, HandlersIn
  <2> HIDE DEF k
  <2>5. Follows(k, s, T, <<>>, step)
    <3>1. Len(s) \in Nat /\ 0 \in 0..Len(s)
      OBVIOUS
    <3>2. k[0] = <<>>
      BY <2>3, <3>1
    <3>3. ASSUME NEW i \in 1..Len(s), k[i - 1] \in T
          PROVE  k[i] = step[<<k[i - 1], s[i]>>]
      <4>1. i \in 0..Len(s) /\ i # 0 /\ s[i] \in Groups
        BY <3>1
      <4>2. k[i] = k[i - 1] \o HandlersIn(s[i])
        BY <2>3, <4>1
      <4> QED BY <1>2, <3>3, <4>1, <4>2
    <3> QED BY <3>2, <3>3 DEF Follows
  <2> QED BY <1>1, <2>4, <2>5, PassIs
<1>4. /\ Pass(<<>>, T, <<>>, step) = <<>>
      /\ \A s \in Seq(Groups) : Pass(s, T, <<>>, step) \in T
      /\ \A s \in Seq(Groups), g \in Groups :
           Pass(Append(s, g), T, <<>>, step) = step[<<Pass(s, T, <<>>, step), g>>]
  BY <1>1, PassLaws
<1>5. <<>> \in Seq(Groups) /\ \A s \in Seq(Groups), g \in Groups : Append(s, g) \in Seq(Groups)
  OBVIOUS
<1>6. \A s \in Seq(Groups) : InTurn(s) \in T
  BY <1>3, <1>4
<1>7. ASSUME NEW s \in Seq(Groups), NEW g \in Groups
      PROVE  InTurn(Append(s, g)) = InTurn(s) \o HandlersIn(g)
  <2> HIDE DEF T
  <2>1. InTurn(Append(s, g)) = step[<<InTurn(s), g>>]
    BY <1>3, <1>4, <1>5
  <2> QED BY <1>2, <1>6, <2>1
<1> QED BY <1>3, <1>4, <1>5, <1>6, <1>7

-----------------------------------------------------------------------------
(* Taking out what is owned, from handlers and from groups. *)

NoneOwned(s) == \A i \in DOMAIN s : ~Owned(s[i])

LEMMA ConcatAppend ==
  ASSUME NEW S, NEW s \in Seq(S), NEW t \in Seq(S), NEW e \in S
  PROVE  /\ s \o Append(t, e) = Append(s \o t, e)
         /\ s \o t \in Seq(S)
         /\ s \o <<>> = s
OBVIOUS

LEMMA NoneOwnedConcat ==
  ASSUME NEW s \in Seq(Handlers), NEW t \in Seq(Handlers), NoneOwned(s), NoneOwned(t)
  PROVE  NoneOwned(s \o t)
<1> DEFINE u == s \o t
<1>1. /\ Len(s) \in Nat /\ Len(t) \in Nat
      /\ DOMAIN s = 1..Len(s) /\ DOMAIN t = 1..Len(t)
      /\ DOMAIN u = 1..(Len(s) + Len(t))
      /\ \A i \in DOMAIN u : u[i] = IF i <= Len(s) THEN s[i] ELSE t[i - Len(s)]
  OBVIOUS
<1> HIDE DEF u
<1>2. ASSUME NEW i \in DOMAIN u PROVE ~Owned(u[i])
  <2>1. CASE i <= Len(s)
    <3>1. i \in DOMAIN s
      BY <1>1, <2>1
    <3> QED BY <1>1, <2>1, <3>1 DEF NoneOwned
  <2>2. CASE ~ (i <= Len(s))
    <3>1. i - Len(s) \in DOMAIN t
      BY <1>1, <2>2
    <3> QED BY <1>1, <2>2, <3>1 DEF NoneOwned
  <2> QED BY <2>1, <2>2
<1>3. NoneOwned(u)
  BY <1>2 DEF NoneOwned
<1> QED BY <1>3 DEF u

LEMMA NotOwnedConcat ==
  ASSUME NEW s \in Seq(Handlers), NEW t \in Seq(Handlers)
  PROVE  NotOwned(s \o t) = NotOwned(s) \o NotOwned(t)
<1> DEFINE P == {u \in Seq(Handlers) : NotOwned(s \o u) = NotOwned(s) \o NotOwned(u)}
<1>1. <<>> \in P
  <2>1. <<>> \in Seq(Handlers) /\ NotOwned(s) \in Seq(Handlers) /\ NotOwned(<<>>) = <<>>
    BY NotOwnedLaws
  <2>2. s \o <<>> = s /\ NotOwned(s) \o <<>> = NotOwned(s)
    BY <2>1
  <2> QED BY <2>1, <2>2
<1>2. ASSUME NEW u \in Seq(Handlers), NEW h \in Handlers, u \in P
      PROVE  Append(u, h) \in P
  <2>1. s \o Append(u, h) = Append(s \o u, h) /\ s \o u \in Seq(Handlers)
    BY ConcatAppend
  <2>2. NotOwned(s) \in Seq(Handlers) /\ NotOwned(u) \in Seq(Handlers)
    BY NotOwnedLaws
  <2>3. NotOwned(s) \o Append(NotOwned(u), h) = Append(NotOwned(s) \o NotOwned(u), h)
    BY <2>2, ConcatAppend
  <2>4. /\ NotOwned(Append(u, h)) = IF Owned(h) THEN NotOwned(u) ELSE Append(NotOwned(u), h)
        /\ NotOwned(Append(s \o u, h)) =
             IF Owned(h) THEN NotOwned(s \o u) ELSE Append(NotOwned(s \o u), h)
    BY <2>1, NotOwnedLaws
  <2>5. NotOwned(s \o u) = NotOwned(s) \o NotOwned(u)
    BY <1>2
  <2>6. NotOwned(s \o Append(u, h)) = NotOwned(s) \o NotOwned(Append(u, h))
    BY <2>1, <2>3, <2>4, <2>5
  <2>7. Append(u, h) \in Seq(Handlers)
    OBVIOUS
  <2> QED BY <2>6, <2>7
<1>3. Seq(Handlers) \subseteq P
  <2> HIDE DEF P
  <2> QED BY <1>1, <1>2, SequenceInduction
<1> QED BY <1>3

LEMMA NotOwnedRest ==
  ASSUME NEW s \in Seq(Handlers)
  PROVE  NoneOwned(NotOwned(s)) /\ NotOwned(NotOwned(s)) = NotOwned(s)
<1> DEFINE P == {u \in Seq(Handlers) : /\ NoneOwned(NotOwned(u))
                                       /\ NotOwned(NotOwned(u)) = NotOwned(u)}
<1>1. <<>> \in P
  <2>1. <<>> \in Seq(Handlers) /\ NoneOwned(<<>>)
    BY DEF NoneOwned
  <2> QED BY <2>1, NotOwnedLaws
<1>2. ASSUME NEW u \in Seq(Handlers), NEW h \in Handlers, u \in P
      PROVE  Append(u, h) \in P
  <2>1. Append(u, h) \in Seq(Handlers) /\ NotOwned(u) \in Seq(Handlers)
    BY NotOwnedLaws
  <2>2. NoneOwned(NotOwned(u)) /\ NotOwned(NotOwned(u)) = NotOwned(u)
    BY <1>2
  <2>3. CASE Owned(h)
    <3>1. NotOwned(Append(u, h)) = NotOwned(u)
      BY <2>3, NotOwnedLaws
    <3> QED BY <2>1, <2>2, <3>1
  <2>4. CASE ~Owned(h)
    <3>1. /\ NotOwned(Append(u, h)) = Append(NotOwned(u), h)
          /\ NotOwned(Append(NotOwned(u), h)) = Append(NotOwned(NotOwned(u)), h)
      BY <2>1, <2>4, NotOwnedLaws
    <3>2. NoneOwned(Append(NotOwned(u), h))
      BY <2>1, <2>2, <2>4 DEF NoneOwned
    <3> QED BY <2>1, <2>2, <3>1, <3>2
  <2> QED BY <2>3, <2>4
<1>3. Seq(Handlers) \subseteq P
  <2> HIDE DEF P
  <2> QED BY <1>1, <1>2, SequenceInduction
<1> QED BY <1>3

\* Removing the owned handlers of some groups leaves none of them, and the
\* others in their order.
LEMMA RemoveOwnedKeeps ==
  ASSUME NEW s \in Seq(Groups)
  PROVE  /\ NoneOwned(InTurn(RemoveOwned(s)))
         /\ NotOwned(InTurn(RemoveOwned(s))) = NotOwned(InTurn(s))
<1> DEFINE P == {u \in Seq(Groups) : /\ NoneOwned(InTurn(RemoveOwned(u)))
                                     /\ NotOwned(InTurn(RemoveOwned(u))) = NotOwned(InTurn(u))}
<1>1. <<>> \in P
  <2>1. <<>> \in Seq(Groups) /\ NoneOwned(<<>>)
    BY DEF NoneOwned
  <2> QED BY <2>1, NotOwnedLaws, RemoveOwnedLaws, InTurnLaws
<1>2. ASSUME NEW u \in Seq(Groups), NEW g \in Groups, u \in P
      PROVE  Append(u, g) \in P
  <2> DEFINE r == RemoveOwned(u)
             before == InTurn(u)
             after == InTurn(r)
             h == HandlersIn(g)
             rest == HandlersIn(Rest(g))
  <2>1. /\ Append(u, g) \in Seq(Groups) /\ r \in Seq(Groups)
        /\ before \in Seq(Handlers) /\ after \in Seq(Handlers)
        /\ Rest(g) \in Groups /\ h \in Seq(Handlers) /\ rest \in Seq(Handlers)
    BY RemoveOwnedLaws, InTurnLaws, RestType, HandlersInType
  <2>2. rest = NotOwned(h)
    <3>1. CASE g.hooks = Absent
      BY <3>1, RestType, NotOwnedLaws DEF HandlersIn
    <3>2. CASE g.hooks # Absent
      <4>1. Rest(g).hooks = NotOwned(g.hooks) /\ Rest(g).hooks \in Seq(Handlers)
        BY <3>2, RestType, NotOwnedLaws
      <4> QED BY <3>2, <4>1, FileAssumption DEF HandlersIn
    <3> QED BY <3>1, <3>2
  <2>3. NoneOwned(rest) /\ NotOwned(rest) = rest /\ NotOwned(h) = rest
    BY <2>1, <2>2, NotOwnedRest
  <2>4. InTurn(RemoveOwned(Append(u, g))) = after \o rest
    <3>1. CASE Rest(g).hooks = <<>>
      <4>1. rest = <<>> /\ RemoveOwned(Append(u, g)) = r
        BY <3>1, RemoveOwnedLaws DEF HandlersIn
      <4>2. after \o <<>> = after
        BY <2>1, ConcatAppend
      <4> QED BY <4>1, <4>2
    <3>2. CASE Rest(g).hooks # <<>>
      <4>1. RemoveOwned(Append(u, g)) = Append(r, Rest(g))
        BY <3>2, RemoveOwnedLaws
      <4> QED BY <2>1, <4>1, InTurnLaws
    <3> QED BY <3>1, <3>2
  <2>5. InTurn(Append(u, g)) = before \o h
    BY InTurnLaws
  <2>6. NoneOwned(after) /\ NotOwned(after) = NotOwned(before)
    BY <1>2
  <2> HIDE DEF r, before, after, h, rest
  <2>7. NoneOwned(after \o rest)
    BY <2>1, <2>3, <2>6, NoneOwnedConcat
  <2>8. /\ NotOwned(after \o rest) = NotOwned(after) \o NotOwned(rest)
        /\ NotOwned(before \o h) = NotOwned(before) \o NotOwned(h)
    BY <2>1, NotOwnedConcat
  <2> QED BY <2>1, <2>3, <2>4, <2>5, <2>6, <2>7, <2>8
<1>3. Seq(Groups) \subseteq P
  <2> HIDE DEF P
  <2> QED BY <1>1, <1>2, SequenceInduction
<1> QED BY <1>3

-----------------------------------------------------------------------------
(* What a file runs, and what an install or an uninstall makes of it. *)

Roots == [hooks : Hooks \cup {Absent, Odd}]

\* How often s runs something owned.
Owns(s) == Cardinality({i \in DOMAIN s : Owned(s[i])})

LEMMA OwnsNone ==
  ASSUME NEW s, NoneOwned(s)
  PROVE  Owns(s) = 0
<1>1. {i \in DOMAIN s : Owned(s[i])} = {}
  BY DEF NoneOwned
<1> QED BY <1>1, FS_EmptySet DEF Owns

LEMMA OwnsLast ==
  ASSUME NEW s \in Seq(Handlers), NoneOwned(s), NEW h \in Handlers
  PROVE  Owns(s \o <<h>>) <= 1
<1> DEFINE u == s \o <<h>>
           own == {i \in DOMAIN u : Owned(u[i])}
<1>1. /\ Len(s) \in Nat /\ DOMAIN s = 1..Len(s)
      /\ DOMAIN u = 1..(Len(s) + 1)
      /\ \A i \in 1..Len(s) : u[i] = s[i]
  OBVIOUS
<1> HIDE DEF u
<1>2. own = {} \/ own = {Len(s) + 1}
  <2>1. \A i \in own : i = Len(s) + 1
    BY <1>1 DEF NoneOwned
  <2> QED BY <2>1
<1>3. Cardinality(own) <= 1
  <2> HIDE DEF own
  <2>1. CASE own = {}
    BY <2>1, FS_EmptySet
  <2>2. CASE own = {Len(s) + 1}
    <3>1. Cardinality(own) = 1
      BY <2>2, FS_Singleton
    <3> QED BY <3>1
  <2> QED BY <1>2, <2>1, <2>2
<1> QED BY <1>3 DEF Owns, u

LEMMA RootForm ==
  ASSUME NEW root \in Roots
  PROVE  /\ root \notin {Missing, Malformed}
         /\ root = [hooks |-> root.hooks]
         /\ root.hooks \in {Absent, Odd} \/ root.hooks \in Hooks
         /\ root \in Files \ {Missing, Malformed}
BY FileAssumption DEF Roots, Files

LEMMA HandlersType ==
  ASSUME NEW content \in Files, NEW e \in Events
  PROVE  HandlersOf(content, e) \in Seq(Handlers)
<1>1. CASE content \in {Missing, Malformed}
  BY <1>1 DEF HandlersOf
<1>2. CASE content \notin {Missing, Malformed}
  <2>1. content.hooks \in Hooks \cup {Absent, Odd}
    BY <1>2 DEF Files
  <2>2. CASE content.hooks \in {Absent, Odd}
    BY <2>2 DEF HandlersOf
  <2>3. CASE content.hooks \notin {Absent, Odd}
    <3>1. content.hooks[e] \in Seq(Groups) \cup {Absent, Odd}
      BY <2>1, <2>3 DEF Hooks
    <3>2. CASE content.hooks[e] \in {Absent, Odd}
      BY <1>2, <2>3, <3>2 DEF HandlersOf
    <3>3. CASE content.hooks[e] \notin {Absent, Odd}
      <4>1. HandlersOf(content, e) = InTurn(content.hooks[e])
        BY <1>2, <2>3, <3>3 DEF HandlersOf
      <4> QED BY <3>1, <3>3, <4>1, InTurnLaws
    <3> QED BY <3>2, <3>3
  <2> QED BY <2>2, <2>3
<1> QED BY <1>1, <1>2

LEMMA RootType ==
  ASSUME NEW content \in Files, content # Malformed
  PROVE  /\ Root(content) \in Roots
         /\ \A e : HandlersOf(Root(content), e) = HandlersOf(content, e)
<1>1. CASE content = Missing
  <2> DEFINE root == [hooks |-> Absent]
  <2>1. Root(content) = root /\ root \in Roots /\ root.hooks = Absent
    BY <1>1 DEF Root, Roots
  <2> HIDE DEF root
  <2>2. \A e : HandlersOf(root, e) = <<>> /\ HandlersOf(content, e) = <<>>
    BY <1>1, <2>1 DEF HandlersOf
  <2> QED BY <2>1, <2>2
<1>2. CASE content # Missing
  BY <1>2 DEF Root, Roots, Files
<1> QED BY <1>1, <1>2

LEMMA InstalledFile ==
  ASSUME NEW root \in Roots, root.hooks # Odd,
         \A e \in Events : HooksOf(root)[e] # Odd, NEW x \in Executables
  PROVE  /\ Installed(root, x) \in Roots
         /\ \A e \in Events : /\ OthersOf(Installed(root, x), e) = OthersOf(root, e)
                              /\ OwnCount(Installed(root, x), e) <= 1
<1> DEFINE Present(e) == IF HooksOf(root)[e] = Absent THEN <<>> ELSE HooksOf(root)[e]
           own == [hooks |-> <<x>>]
           new == [e \in Events |-> Append(RemoveOwned(Present(e)), own)]
<1>1. own \in Groups /\ own.hooks = <<x>> /\ x \in Handlers /\ <<x>> \in Seq(Handlers)
  BY DEF Groups, Handlers
<1>2. Installed(root, x) = [hooks |-> new]
  BY DEF Installed
<1>3. ASSUME NEW e \in Events
      PROVE  Present(e) \in Seq(Groups) /\ HandlersOf(root, e) = InTurn(Present(e))
  <2>1. CASE root.hooks = Absent
    <3>1. Present(e) = <<>> /\ HandlersOf(root, e) = <<>>
      BY <2>1 DEF HooksOf, HandlersOf
    <3>2. <<>> \in Seq(Groups)
      OBVIOUS
    <3> QED BY <3>1, <3>2, InTurnLaws
  <2>2. CASE root.hooks # Absent
    <3>1. root.hooks \in Hooks /\ HooksOf(root) = root.hooks
      BY <2>2, RootForm DEF HooksOf
    <3>2. root.hooks[e] = Absent \/ root.hooks[e] \in Seq(Groups)
      BY <3>1 DEF Hooks
    <3>3. CASE root.hooks[e] = Absent
      <4>1. Present(e) = <<>> /\ HandlersOf(root, e) = <<>>
        BY <3>1, <3>3 DEF HandlersOf
      <4>2. <<>> \in Seq(Groups)
        OBVIOUS
      <4> QED BY <4>1, <4>2, InTurnLaws
    <3>4. CASE root.hooks[e] # Absent
      <4>1. HandlersOf(root, e) = InTurn(root.hooks[e])
        BY <2>2, <3>1, <3>4, RootForm DEF HandlersOf
      <4> QED BY <3>1, <3>2, <3>4, <4>1
    <3> QED BY <3>3, <3>4
  <2> QED BY <2>1, <2>2
<1> HIDE DEF Present, own
<1>4. \A e \in Events : RemoveOwned(Present(e)) \in Seq(Groups) /\ new[e] \in Seq(Groups)
  BY <1>1, <1>3, RemoveOwnedLaws
<1>5. new \in Hooks /\ Installed(root, x) \in Roots
  BY <1>2, <1>4 DEF Hooks, Roots
<1>6. ASSUME NEW e \in Events
      PROVE  /\ OthersOf(Installed(root, x), e) = OthersOf(root, e)
             /\ OwnCount(Installed(root, x), e) <= 1
  <2> DEFINE r == InTurn(RemoveOwned(Present(e)))
             i == Installed(root, x)
  <2>1. i.hooks = new /\ i \in Roots
    BY <1>2, <1>5
  <2>2. i \notin {Missing, Malformed} /\ new \notin {Absent, Odd} /\ new[e] \notin {Absent, Odd}
    BY <1>4, <1>5, <2>1, RootForm, FileAssumption
  <2>3. HandlersOf(i, e) = InTurn(new[e])
    BY <2>1, <2>2 DEF HandlersOf
  <2>4. HandlersIn(own) = <<x>>
    BY <1>1, FileAssumption DEF HandlersIn
  <2>5. InTurn(new[e]) = r \o <<x>>
    BY <1>1, <1>4, <2>4, InTurnLaws
  <2>6. /\ r \in Seq(Handlers) /\ NoneOwned(r)
        /\ NotOwned(r) = NotOwned(HandlersOf(root, e))
    BY <1>3, <1>4, InTurnLaws, RemoveOwnedKeeps
  <2> HIDE DEF r, i
  <2>7. r \o <<x>> = Append(r, x)
    BY <1>1, <2>6
  <2>8. NotOwned(r \o <<x>>) = NotOwned(r)
    BY <1>1, <2>6, <2>7, NotOwnedLaws DEF Owned
  <2>9. Owns(r \o <<x>>) <= 1
    BY <1>1, <2>6, OwnsLast
  <2>10. OthersOf(i, e) = OthersOf(root, e) /\ OwnCount(i, e) <= 1
    BY <2>3, <2>5, <2>6, <2>8, <2>9 DEF OthersOf, OwnCount, Owns
  <2> QED BY <2>10 DEF i
<1> QED BY <1>5, <1>6

LEMMA UninstalledFile ==
  ASSUME NEW root \in Roots
  PROVE  /\ Uninstalled(root) \in Roots
         /\ \A e \in Events : /\ OthersOf(Uninstalled(root), e) = OthersOf(root, e)
                              /\ OwnCount(Uninstalled(root), e) = 0
<1>1. CASE root.hooks \in {Absent, Odd}
  <2>1. Uninstalled(root) = root /\ \A e : HandlersOf(root, e) = <<>>
    BY <1>1 DEF Uninstalled, HandlersOf
  <2>2. Owns(<<>>) = 0
    BY OwnsNone DEF NoneOwned
  <2> QED BY <2>1, <2>2 DEF OthersOf, OwnCount, Owns
<1>2. CASE root.hooks \notin {Absent, Odd}
  <2> DEFINE new == [e \in Events |-> IF root.hooks[e] \in {Absent, Odd} THEN root.hooks[e]
                                      ELSE RemoveOwned(root.hooks[e])]
             u == Uninstalled(root)
  <2>1. u = [hooks |-> new] /\ u.hooks = new
    BY <1>2 DEF Uninstalled
  <2>2. root.hooks \in Hooks /\ root \notin {Missing, Malformed}
    BY <1>2, RootForm
  <2>3. ASSUME NEW e \in Events, root.hooks[e] \notin {Absent, Odd}
        PROVE  /\ root.hooks[e] \in Seq(Groups)
               /\ new[e] = RemoveOwned(root.hooks[e]) /\ new[e] \in Seq(Groups)
    BY <2>2, <2>3, RemoveOwnedLaws DEF Hooks
  <2>4. ASSUME NEW e \in Events, root.hooks[e] \in {Absent, Odd}
        PROVE  new[e] = root.hooks[e]
    BY <2>4
  <2>5. new \in Hooks
    <3>1. \A e \in Events : new[e] \in Seq(Groups) \cup {Absent, Odd}
      BY <2>3, <2>4
    <3> QED BY <3>1 DEF Hooks
  <2> HIDE DEF new
  <2>6. u \in Roots
    BY <2>1, <2>5 DEF Roots
  <2>7. u \notin {Missing, Malformed} /\ new \notin {Absent, Odd}
    BY <2>5, <2>6, RootForm, FileAssumption
  <2> HIDE DEF u
  <2>8. ASSUME NEW e \in Events
        PROVE  /\ OthersOf(u, e) = OthersOf(root, e)
               /\ OwnCount(u, e) = 0
    <3>1. CASE root.hooks[e] \in {Absent, Odd}
      <4>1. HandlersOf(root, e) = <<>> /\ HandlersOf(u, e) = <<>>
        BY <1>2, <2>1, <2>2, <2>4, <2>7, <3>1 DEF HandlersOf
      <4>2. Owns(<<>>) = 0
        BY OwnsNone DEF NoneOwned
      <4> QED BY <4>1, <4>2 DEF OthersOf, OwnCount, Owns
    <3>2. CASE root.hooks[e] \notin {Absent, Odd}
      <4>1. new[e] \notin {Absent, Odd}
        BY <2>3, <3>2, FileAssumption
      <4>2. HandlersOf(root, e) = InTurn(root.hooks[e])
        BY <1>2, <2>2, <3>2 DEF HandlersOf
      <4>3. HandlersOf(u, e) = InTurn(RemoveOwned(root.hooks[e]))
        BY <2>1, <2>3, <2>7, <3>2, <4>1 DEF HandlersOf
      <4>4. /\ NoneOwned(HandlersOf(u, e))
            /\ NotOwned(HandlersOf(u, e)) = NotOwned(HandlersOf(root, e))
        BY <2>3, <3>2, <4>2, <4>3, RemoveOwnedKeeps
      <4>5. Owns(HandlersOf(u, e)) = 0
        BY <4>4, OwnsNone
      <4> QED BY <4>4, <4>5 DEF OthersOf, OwnCount, Owns
    <3> QED BY <3>1, <3>2
  <2> QED BY <2>6, <2>8 DEF u
<1> QED BY <1>1, <1>2

-----------------------------------------------------------------------------
(* The inductive invariant: what a process is about to write is a whole    *)
(* file that runs the same other handlers as the file it read, and at most *)
(* one of codex-watch.                                                     *)

Whole ==
  /\ TypeOK
  /\ pc = [p \in Processes |-> pc[p]]
  /\ local = [p \in Processes |-> local[p]]

WritesKeepOthers ==
  overlapped \/ \A e \in Events :
    /\ OthersOf(file, e) = OthersOf(saved, e)
    /\ \A p \in Processes : pc[p] # "idle" => OthersOf(local[p], e) = OthersOf(saved, e)

WritesOwnOne ==
  \A e \in Events :
    /\ OwnCount(file, e) > 1 => file = saved
    /\ \A p \in Processes : pc[p] # "idle" => OwnCount(local[p], e) <= 1

IInv == Whole /\ WritesKeepOthers /\ WritesOwnOne

LEMMA InitInvariant == Init => IInv
<1> SUFFICES ASSUME Init PROVE IInv
  OBVIOUS
<1>1. file \in Files /\ saved = file /\ backup = Missing /\ Missing \in Files
  BY FileAssumption DEF Init, Files
<1>2. Whole
  BY <1>1 DEF Init, Whole, TypeOK
<1>3. WritesKeepOthers /\ WritesOwnOne
  BY <1>1 DEF Init, WritesKeepOthers, WritesOwnOne
<1> QED BY <1>2, <1>3 DEF IInv

\* A command that has read the file and goes on with what it computed.
LEMMA BeginInvariant ==
  ASSUME IInv, NEW p \in Processes, NEW changed \in Roots, Begin(p, Root(file), changed),
         \A e \in Events : /\ OthersOf(changed, e) = OthersOf(file, e)
                           /\ OwnCount(changed, e) <= 1
  PROVE  IInv'
<1>1. UNCHANGED <<file, backup, saved, overlapped>>
  BY DEF Begin
<1>2. \/ UNCHANGED <<pc, local>>
      \/ pc' = [pc EXCEPT ![p] = "backup"] /\ local' = [local EXCEPT ![p] = changed]
  BY DEF Begin
<1>3. CASE UNCHANGED <<pc, local>>
  BY <1>1, <1>3 DEF IInv, Whole, TypeOK, WritesKeepOthers, WritesOwnOne
<1>4. CASE pc' = [pc EXCEPT ![p] = "backup"] /\ local' = [local EXCEPT ![p] = changed]
  <2>1. /\ \A q \in Processes : q # p => pc'[q] = pc[q] /\ local'[q] = local[q]
        /\ local'[p] = changed
        /\ pc' = [q \in Processes |-> pc'[q]]
        /\ local' = [q \in Processes |-> local'[q]]
    BY <1>4 DEF IInv, Whole
  <2>2. changed \in Files \ {Missing, Malformed}
    BY RootForm
  <2>3. Whole'
    BY <1>1, <2>1, <2>2 DEF IInv, Whole, TypeOK
  <2>4. WritesKeepOthers'
    BY <1>1, <2>1 DEF IInv, WritesKeepOthers
  <2>5. WritesOwnOne'
    BY <1>1, <2>1 DEF IInv, WritesOwnOne
  <2> QED BY <2>3, <2>4, <2>5 DEF IInv
<1> QED BY <1>2, <1>3, <1>4

LEMMA StepInvariant == IInv /\ [Next]_vars => IInv'
<1> SUFFICES ASSUME IInv, [Next]_vars PROVE IInv'
  OBVIOUS
<1>1. /\ {file, backup, saved} \subseteq Files
      /\ \A q \in Processes : pc[q] # "idle" => local[q] \in Files \ {Missing, Malformed}
      /\ pc = [q \in Processes |-> pc[q]]
      /\ local = [q \in Processes |-> local[q]]
  BY DEF IInv, Whole, TypeOK
<1>2. CASE UNCHANGED vars
  BY <1>2 DEF vars, IInv, Whole, TypeOK, WritesKeepOthers, WritesOwnOne
<1>3. CASE Edit
  <2>1. /\ file' \in Files /\ saved' = file' /\ UNCHANGED <<backup, pc, local>>
        /\ overlapped' = (overlapped \/ \E q \in Processes : pc[q] # "idle")
    BY <1>3, FileAssumption DEF Edit
  <2>2. Whole'
    BY <1>1, <2>1 DEF Whole, TypeOK
  <2>3. WritesKeepOthers'
    BY <2>1 DEF WritesKeepOthers
  <2>4. WritesOwnOne'
    BY <2>1 DEF IInv, WritesOwnOne
  <2> QED BY <2>2, <2>3, <2>4 DEF IInv
<1>4. ASSUME NEW p \in Processes, Install(p)
      PROVE  IInv'
  <2>1. file # Malformed
    BY <1>4 DEF Install, Installable
  <2>2. /\ Root(file) \in Roots /\ Root(file).hooks # Odd
        /\ \A e \in Events : HooksOf(Root(file))[e] # Odd
        /\ \A e : HandlersOf(Root(file), e) = HandlersOf(file, e)
    BY <1>1, <1>4, <2>1, RootType DEF Install, Installable
  <2>3. PICK x \in Executables : Begin(p, Root(file), Installed(Root(file), x))
    BY <1>4 DEF Install
  <2>4. /\ Installed(Root(file), x) \in Roots
        /\ \A e \in Events : /\ OthersOf(Installed(Root(file), x), e) = OthersOf(file, e)
                             /\ OwnCount(Installed(Root(file), x), e) <= 1
    BY <2>2, InstalledFile DEF OthersOf
  <2> QED BY <2>3, <2>4, BeginInvariant
<1>5. ASSUME NEW p \in Processes, Uninstall(p)
      PROVE  IInv'
  <2>1. Root(file) \in Roots /\ \A e : HandlersOf(Root(file), e) = HandlersOf(file, e)
    BY <1>1, <1>5, RootType DEF Uninstall
  <2>2. Begin(p, Root(file), Uninstalled(Root(file)))
    BY <1>5 DEF Uninstall
  <2>3. /\ Uninstalled(Root(file)) \in Roots
        /\ \A e \in Events : /\ OthersOf(Uninstalled(Root(file)), e) = OthersOf(file, e)
                             /\ OwnCount(Uninstalled(Root(file)), e) <= 1
    BY <2>1, UninstalledFile DEF OthersOf
  <2> QED BY <2>2, <2>3, BeginInvariant
<1>6. ASSUME NEW p \in Processes, Refuse(p)
      PROVE  IInv'
  <2>1. UNCHANGED <<file, backup, saved, overlapped, pc, local>>
    BY <1>6 DEF Refuse, Begin
  <2> QED BY <2>1 DEF IInv, Whole, TypeOK, WritesKeepOthers, WritesOwnOne
<1>7. ASSUME NEW p \in Processes, BackUp(p)
      PROVE  IInv'
  <2>1. /\ UNCHANGED <<file, saved, overlapped, local>>
        /\ backup' \in Files
        /\ pc[p] # "idle" /\ pc' = [pc EXCEPT ![p] = "write"]
    BY <1>1, <1>7 DEF BackUp
  <2>2. /\ pc' = [q \in Processes |-> pc'[q]]
        /\ \A q \in Processes : pc'[q] # "idle" => pc[q] # "idle"
    BY <1>1, <2>1
  <2> QED BY <1>1, <2>1, <2>2 DEF IInv, Whole, TypeOK, WritesKeepOthers, WritesOwnOne
<1>8. ASSUME NEW p \in Processes, Write(p)
      PROVE  IInv'
  <2>1. /\ UNCHANGED <<backup, saved, overlapped>>
        /\ pc[p] # "idle" /\ file' = local[p]
        /\ pc' = [pc EXCEPT ![p] = "idle"]
        /\ local' = [local EXCEPT ![p] = Missing]
    BY <1>8 DEF Write
  <2>2. /\ pc' = [q \in Processes |-> pc'[q]]
        /\ local' = [q \in Processes |-> local'[q]]
        /\ \A q \in Processes : pc'[q] # "idle" => pc[q] # "idle" /\ local'[q] = local[q]
    BY <1>1, <2>1
  <2>3. Whole'
    BY <1>1, <2>1, <2>2 DEF Whole, TypeOK
  <2>4. WritesKeepOthers'
    BY <2>1, <2>2 DEF IInv, WritesKeepOthers
  <2>5. WritesOwnOne'
    <3>1. \A e \in Events : OwnCount(local[p], e) <= 1 /\ OwnCount(local[p], e) \in Int
      <4> SUFFICES ASSUME NEW e \in Events
                   PROVE  OwnCount(local[p], e) <= 1 /\ OwnCount(local[p], e) \in Int
        OBVIOUS
      <4>1. HandlersOf(local[p], e) \in Seq(Handlers)
        BY <1>1, <2>1, HandlersType
      <4>2. OwnCount(local[p], e) \in Int
        <5> DEFINE h == HandlersOf(local[p], e)
        <5>1. IsFiniteSet(1..Len(h)) /\ DOMAIN h = 1..Len(h)
          BY <4>1, FS_Interval
        <5> HIDE DEF h
        <5>2. Cardinality({i \in DOMAIN h : Owned(h[i])}) \in Nat
          BY <5>1, FS_Subset, FS_CardinalityType
        <5> QED BY <5>2 DEF h, OwnCount
      <4> QED BY <2>1, <4>2 DEF IInv, WritesOwnOne
    <3> QED BY <2>1, <2>2, <3>1 DEF IInv, WritesOwnOne
  <2> QED BY <2>3, <2>4, <2>5 DEF IInv
<1>9. ASSUME NEW p \in Processes, Crash(p)
      PROVE  IInv'
  <2>1. /\ UNCHANGED <<file, backup, saved, overlapped>>
        /\ pc' = [pc EXCEPT ![p] = "idle"]
        /\ local' = [local EXCEPT ![p] = Missing]
    BY <1>9 DEF Crash
  <2>2. /\ pc' = [q \in Processes |-> pc'[q]]
        /\ local' = [q \in Processes |-> local'[q]]
        /\ \A q \in Processes : pc'[q] # "idle" => pc[q] # "idle" /\ local'[q] = local[q]
    BY <1>1, <2>1
  <2> QED BY <1>1, <2>1, <2>2 DEF IInv, Whole, TypeOK, WritesKeepOthers, WritesOwnOne
<1> QED BY <1>2, <1>3, <1>4, <1>5, <1>6, <1>7, <1>8, <1>9 DEF Next

THEOREM FileInvariant == Spec => []IInv
<1>1. Init => IInv
  BY InitInvariant
<1>2. IInv /\ [Next]_vars => IInv'
  BY StepInvariant
<1> QED BY <1>1, <1>2, PTL DEF Spec

(* However installs, uninstalls, crashes and edits interleave, hooks.json  *)
(* and its backup are each missing, broken or well-formed as a whole, and  *)
(* what a process is about to write is well-formed (hooks.rs, 245-374).    *)
THEOREM TypeCorrect == Spec => []TypeOK
<1>1. IInv => TypeOK
  BY DEF IInv, Whole
<1> QED BY <1>1, FileInvariant, PTL

(* No interleaving of installs, uninstalls and crashes loses, doubles or   *)
(* reorders a handler of the user or of another tool, as long as nobody    *)
(* saves the file between the steps of a command (hooks.rs, 464-476).      *)
THEOREM SavesKept == Spec => []SavesKeptUnlessOverlapped
<1>1. IInv => SavesKeptUnlessOverlapped
  BY DEF IInv, WritesKeepOthers, SavesKeptUnlessOverlapped, OtherHandlersKept
<1> QED BY <1>1, FileInvariant, PTL

(* Installs from any number of processes and places do not add up: a file  *)
(* that runs codex-watch twice for an event is one the user saved          *)
(* (hooks.rs, 262-281).                                                    *)
THEOREM OwnHandlerOnce == Spec => []OneOwnHandler
<1>1. IInv => OneOwnHandler
  BY DEF IInv, WritesOwnOne, OneOwnHandler
<1> QED BY <1>1, FileInvariant, PTL
=============================================================================
