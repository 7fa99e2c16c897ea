---------------------------- MODULE SequenceLemmas ----------------------------
(***************************************************************************)
(* Facts about sequences.  First the ends of a sequence used as a stack:    *)
(* what Append, Front and an update of the last entry leave alone, in the   *)
(* form the proofs of CycleDetection and Container cite them.  Then         *)
(* selecting from, flattening and joining sequences, for the proofs about   *)
(* the macros: these operators are defined by recursion, and what they      *)
(* return is found by induction over a set of numbers.                      *)
(***************************************************************************)
EXTENDS Selections, SequenceTheorems, WellFoundedInduction, TLAPS

(* A nonempty sequence has a length with a predecessor. *)
LEMMA LengthIsSuccessor ==
    ASSUME NEW T, NEW s \in Seq(T), s # <<>>
    PROVE  \E n \in Nat : Len(s) = n + 1
<1>1. Len(s) \in Nat \ {0}
  BY EmptySeq
<1> QED
  BY <1>1

(* Front drops the last entry and nothing else. *)
LEMMA PopProperties ==
    ASSUME NEW T, NEW s \in Seq(T), s # <<>>
    PROVE  /\ Front(s) \in Seq(T)
           /\ Len(Front(s)) = Len(s) - 1
           /\ \A i \in 1 .. Len(s) - 1 : Front(s)[i] = s[i]
<1>1. PICK n \in Nat : Len(s) = n + 1
  BY LengthIsSuccessor
<1>2. n \in Int /\ Len(s) - 1 = n /\ \A i \in 1 .. n : s[i] \in T
  BY <1>1
<1>3. /\ SubSeq(s, 1, n) \in Seq(T)
      /\ Len(SubSeq(s, 1, n)) = IF 1 <= n THEN n - 1 + 1 ELSE 0
      /\ \A i \in 1 .. n - 1 + 1 : SubSeq(s, 1, n)[i] = s[1 + i - 1]
  BY <1>2, SubSeqProperties
<1>4. Len(SubSeq(s, 1, n)) = n
  BY <1>3
<1>5. \A i \in 1 .. n : SubSeq(s, 1, n)[i] = s[i]
  BY <1>3
<1> QED
  BY <1>2, <1>3, <1>4, <1>5 DEF Front

(* Front of any sequence, the empty one included, is a sequence. *)
LEMMA FrontType ==
    ASSUME NEW T, NEW s \in Seq(T)
    PROVE  Front(s) \in Seq(T)
<1>1. CASE s # <<>>
  BY <1>1, PopProperties
<1>2. CASE s = <<>>
  <2>1. SubSeq(s, 1, -1) = <<>>
    BY SubSeqEmpty
  <2>2. Len(s) - 1 = -1
    BY <1>2
  <2> QED
    BY <2>1, <2>2 DEF Front
<1> QED
  BY <1>1, <1>2

(* What appending to and popping an injective sequence does to its range. *)
LEMMA AppendRange ==
    ASSUME NEW T, NEW s \in Seq(T), NEW e \in T
    PROVE  /\ Range(Append(s, e)) = Range(s) \union {e}
           /\ IsInjective(s) /\ e \notin Range(s) => IsInjective(Append(s, e))
<1> DEFINE t == Append(s, e)
<1>1. /\ Len(s) \in Nat /\ DOMAIN s = 1 .. Len(s)
      /\ t \in Seq(T) /\ Len(t) = Len(s) + 1 /\ DOMAIN t = 1 .. Len(s) + 1
      /\ \A i \in 1 .. Len(s) : t[i] = s[i]
      /\ t[Len(s) + 1] = e
  BY AppendProperties
<1>2. DOMAIN t = (DOMAIN s) \union {Len(s) + 1}
  BY <1>1
<1> QED
  BY <1>1, <1>2 DEF Range, IsInjective

LEMMA PopRange ==
    ASSUME NEW T, NEW s \in Seq(T), s # <<>>, IsInjective(s)
    PROVE  /\ Range(Front(s)) = Range(s) \ {s[Len(s)]}
           /\ IsInjective(Front(s))
<1> DEFINE t == Front(s)
<1>1. PICK n \in Nat : Len(s) = n + 1
  BY LengthIsSuccessor
<1>2. /\ t \in Seq(T) /\ Len(t) = n
      /\ \A i \in 1 .. n : t[i] = s[i]
  BY <1>1, PopProperties
<1>3. DOMAIN t = 1 .. n /\ DOMAIN s = 1 .. n + 1
  BY <1>1, <1>2
<1>4. \A i \in 1 .. n : s[i] # s[n + 1]
  BY <1>3 DEF IsInjective
<1>5. IsInjective(t)
  BY <1>2, <1>3 DEF IsInjective
<1>6. Range(t) = Range(s) \ {s[n + 1]}
  BY <1>2, <1>3, <1>4 DEF Range
<1> QED
  BY <1>1, <1>5, <1>6

-----------------------------------------------------------------------------
(* Induction, and runs.                                                     *)

(* Induction over numbers, in the form of a set that holds 0 and every successor. *)
LEMMA SetInduction ==
    ASSUME NEW S, 0 \in S, \A n \in Nat : n \in S => n + 1 \in S
    PROVE  \A n \in Nat : n \in S
<1> DEFINE Less == OpToRel(<, Nat)
<1>1. IsWellFoundedOn(Less, Nat)
  BY NatLessThanWellFounded DEF OpToRel
<1>2. \A m, n \in Nat : m < n => <<m, n>> \in Less
  BY DEF OpToRel
<1> HIDE DEF Less
<1>3. SUFFICES ASSUME Nat \ S # {} PROVE FALSE
  OBVIOUS
<1>4. PICK x \in Nat \ S : \A y \in Nat \ S : <<y, x>> \notin Less
  <2>1. Nat \ S \subseteq Nat
    OBVIOUS
  <2> QED
    BY <1>1, <1>3, <2>1, WFMin
<1>5. x - 1 \in Nat /\ x - 1 < x /\ (x - 1) + 1 = x
  OBVIOUS
<1> QED
  BY <1>2, <1>4, <1>5

(* Induction over sequences. *)
LEMMA SeqInduction ==
    ASSUME NEW T, NEW P, <<>> \in P,
           \A s \in Seq(T), x \in T : s \in P => Append(s, x) \in P
    PROVE  \A s \in Seq(T) : s \in P
<1> DEFINE S == {n \in Nat : \A s \in Seq(T) : Len(s) = n => s \in P}
<1>1. 0 \in S
  BY EmptySeq
<1>2. ASSUME NEW n \in Nat, n \in S
      PROVE  n + 1 \in S
  <2>1. SUFFICES ASSUME NEW s \in Seq(T), Len(s) = n + 1
                 PROVE  s \in P
    OBVIOUS
  <2>2. s # <<>>
    BY <2>1, EmptySeq
  <2>3. PICK t \in Seq(T), x \in T : s = Append(t, x)
    BY <2>2, SequenceEmptyOrAppend
  <2>4. Len(t) = n
    BY <2>1, <2>3, AppendProperties, LenProperties
  <2> QED
    BY <1>2, <2>3, <2>4
<1> HIDE DEF S
<1>3. \A n \in Nat : n \in S
  BY <1>1, <1>2, SetInduction
<1> QED
  BY <1>3, LenProperties DEF S

(* A step leads from one value to the next, a run from the first to the last. *)
Steps(V, N) == [V \X (1 .. N) -> V]
IsRun(f, V, b, g, N) ==
    /\ f \in [0 .. N -> V] /\ f[0] = b
    /\ \A i \in 1 .. N : f[i] = g[<<f[i - 1], i>>]

(* Every step function has a run: the values that one step after another    *)
(* leads to exist as a function.                                            *)
LEMMA RunExists ==
    ASSUME NEW V, NEW b, b \in V, NEW N \in Nat, NEW g, g \in Steps(V, N)
    PROVE  \E f : IsRun(f, V, b, g, N)
<1> DEFINE Run(f, n) == f[0] = b /\ \A i \in 1 .. n : f[i] = g[<<f[i - 1], i>>]
           S == {n \in Nat : n <= N => \E f \in [0 .. n -> V] : Run(f, n)}
<1>0. g \in [V \X (1 .. N) -> V]
  BY DEF Steps
<1>1. 0 \in S
  <2>1. [i \in 0 .. 0 |-> b] \in [0 .. 0 -> V] /\ Run([i \in 0 .. 0 |-> b], 0)
    OBVIOUS
  <2> QED
    BY <2>1
<1>2. ASSUME NEW n \in Nat, n \in S, n + 1 <= N
      PROVE  n + 1 \in S
  <2>1. PICK f \in [0 .. n -> V] : Run(f, n)
    BY <1>2
  <2> DEFINE h == [i \in 0 .. n + 1 |-> IF i = n + 1 THEN g[<<f[n], n + 1>>] ELSE f[i]]
  <2>2. /\ h \in [0 .. n + 1 -> V]
        /\ h[n + 1] = g[<<f[n], n + 1>>]
        /\ \A i \in 0 .. n : h[i] = f[i]
    BY <1>0, <1>2
  <2> HIDE DEF h
  <2>3. ASSUME NEW i \in 1 .. n + 1
        PROVE  h[i] = g[<<h[i - 1], i>>]
    <3>1. CASE i = n + 1
      BY <2>2, <3>1
    <3>2. CASE i \in 1 .. n
      BY <2>1, <2>2, <3>2
    <3> QED
      BY <3>1, <3>2
  <2>4. h[0] = b
    BY <2>1, <2>2
  <2>5. Run(h, n + 1)
    BY <2>3, <2>4
  <2> QED
    BY <2>2, <2>5
<1> HIDE DEF S
<1>3. \A n \in Nat : n \in S => n + 1 \in S
  <2>1. ASSUME NEW n \in Nat, n \in S
        PROVE  n + 1 \in S
    <3>1. CASE n + 1 <= N
      BY <1>2, <2>1, <3>1
    <3>2. CASE ~(n + 1 <= N)
      BY <3>2 DEF S
    <3> QED
      BY <3>1, <3>2
  <2> QED
    BY <2>1
<1>4. N \in S
  BY <1>1, <1>3, SetInduction
<1> QED
  BY <1>4 DEF S, IsRun

-----------------------------------------------------------------------------
(* Sequences of whatever they hold.                                         *)

(* two runs that start alike and go on alike are alike *)
LEMMA RunsAgree ==
    ASSUME NEW N \in Nat, NEW f, NEW h, f[0] = h[0],
           \A i \in 1 .. N : f[i - 1] = h[i - 1] => f[i] = h[i]
    PROVE  \A i \in 0 .. N : f[i] = h[i]
<1> DEFINE S == {i \in Nat : i <= N => f[i] = h[i]}
<1>1. 0 \in S
  OBVIOUS
<1>2. ASSUME NEW i \in Nat, i \in S
      PROVE  i + 1 \in S
  <2>1. CASE i + 1 <= N
    <3>1. i + 1 \in 1 .. N /\ (i + 1) - 1 = i /\ i <= N
      BY <2>1
    <3> QED
      BY <1>2, <3>1
  <2> QED
    BY <2>1
<1> HIDE DEF S
<1>3. \A i \in Nat : i \in S
  BY <1>1, <1>2, SetInduction
<1> QED
  BY <1>3 DEF S

(* sequences of whatever they hold *)
LEMMA IsSeqDomain ==
    ASSUME NEW s, IsSeq(s)
    PROVE  /\ Len(s) \in Nat /\ DOMAIN s = 1 .. Len(s) 
           /\ \A T : ToSet(s) \subseteq T => s \in Seq(T)
<1>1. s \in Seq(ToSet(s))
  BY DEF IsSeq
<1> QED
  BY <1>1, LenProperties, SeqMonotonic

(* A sequence over T is a sequence of what it holds, all of it in T. *)
LEMMA IsSeqOf ==
    ASSUME NEW T, NEW s \in Seq(T)
    PROVE  IsSeq(s) /\ ToSet(s) \subseteq T
<1>1. Len(s) \in Nat /\ s \in [1 .. Len(s) -> T]
  BY LenProperties
<1>2. s \in [1 .. Len(s) -> ToSet(s)]
  BY <1>1 DEF ToSet
<1>3. s \in Seq(ToSet(s))
  BY <1>1, <1>2
<1> QED
  BY <1>1, <1>3 DEF IsSeq, ToSet

(* A function over 1 .. n is a sequence of length n. *)
LEMMA IsSeqFunction ==
    ASSUME NEW n \in Nat, NEW f, f = [k \in 1 .. n |-> f[k]]
    PROVE  IsSeq(f) /\ Len(f) = n
<1>1. f \in [1 .. n -> ToSet(f)]
  BY DEF ToSet
<1>2. f \in Seq(ToSet(f))
  BY <1>1
<1> QED
  BY <1>1, <1>2 DEF IsSeq

(* Two sequences with the same elements at the same places are one. *)
LEMMA SameSeq ==
    ASSUME NEW s, IsSeq(s), NEW t, IsSeq(t), Len(s) = Len(t), \A i \in 1 .. Len(s) : s[i] = t[i]
    PROVE  s = t
<1> DEFINE T == ToSet(s) \union ToSet(t)
<1>1. s \in Seq(T) /\ t \in Seq(T)
  BY IsSeqDomain
<1> HIDE DEF T
<1> QED
  BY <1>1, SeqEqual

(* The length, the places and the elements of a concatenation. *)
LEMMA Concatenation ==
    ASSUME NEW s, IsSeq(s), NEW t, IsSeq(t)
    PROVE  /\ IsSeq(s \o t) /\ Len(s \o t) = Len(s) + Len(t)
           /\ \A i \in 1 .. Len(s) : (s \o t)[i] = s[i]
           /\ \A i \in 1 .. Len(t) : (s \o t)[Len(s) + i] = t[i]
           /\ ToSet(s \o t) = ToSet(s) \union ToSet(t)
<1> DEFINE T == ToSet(s) \union ToSet(t)
<1>1. s \in Seq(T) /\ t \in Seq(T)
  BY IsSeqDomain
<1> HIDE DEF T
<1>2. /\ s \o t \in Seq(T) /\ Len(s \o t) = Len(s) + Len(t)
      /\ \A i \in 1 .. Len(s) + Len(t) : (s \o t)[i] = IF i <= Len(s) THEN s[i] ELSE t[i - Len(s)]
      /\ Len(s) \in Nat /\ Len(t) \in Nat
  BY <1>1, ConcatProperties, LenProperties
<1>3. \A i \in 1 .. Len(s) : (s \o t)[i] = s[i]
  BY <1>2
<1>4. \A i \in 1 .. Len(t) : (s \o t)[Len(s) + i] = t[i]
  BY <1>2
<1>5. DOMAIN (s \o t) = 1 .. Len(s) + Len(t) /\ DOMAIN s = 1 .. Len(s) /\ DOMAIN t = 1 .. Len(t)
  BY <1>1, <1>2, LenProperties
<1>6. \A i \in 1 .. Len(s) + Len(t) : i \in 1 .. Len(s) \/ \E k \in 1 .. Len(t) : i = Len(s) + k
  BY <1>2
<1>7. \A i \in 1 .. Len(s) : i \in 1 .. Len(s) + Len(t)
  BY <1>2
<1>8. \A k \in 1 .. Len(t) : Len(s) + k \in 1 .. Len(s) + Len(t)
  BY <1>2
<1>9. ToSet(s \o t) = ToSet(s) \union ToSet(t)
  <2>0. PICK u : u = s \o t
    OBVIOUS
  <2>1. \A i \in DOMAIN u : u[i] \in ToSet(s) \union ToSet(t)
    BY <2>0, <1>3, <1>4, <1>5, <1>6 DEF ToSet
  <2>2. (\A i \in DOMAIN s : s[i] \in ToSet(u)) /\ \A k \in DOMAIN t : t[k] \in ToSet(u)
    BY <2>0, <1>3, <1>4, <1>5, <1>7, <1>8 DEF ToSet
  <2>3. ToSet(u) = ToSet(s) \union ToSet(t)
    BY <2>1, <2>2 DEF ToSet
  <2> QED
    BY <2>0, <2>3
<1> QED
  BY <1>2, <1>3, <1>4, <1>9, IsSeqOf

(* The length, the places and the elements after Append. *)
LEMMA Appending ==
    ASSUME NEW s, IsSeq(s), NEW x
    PROVE  /\ IsSeq(Append(s, x)) /\ Len(Append(s, x)) = Len(s) + 1
           /\ \A i \in 1 .. Len(s) : Append(s, x)[i] = s[i]
           /\ Append(s, x)[Len(s) + 1] = x
           /\ ToSet(Append(s, x)) = ToSet(s) \union {x}
           /\ Append(s, x) = s \o <<x>> /\ Append(s, x) # <<>>
<1> DEFINE T == ToSet(s) \union {x}
<1>1. s \in Seq(T) /\ x \in T
  BY IsSeqDomain
<1> HIDE DEF T
<1>2. /\ Append(s, x) \in Seq(T) /\ Append(s, x) = s \o <<x>>
      /\ Len(Append(s, x)) = Len(s) + 1 /\ Append(s, x) # <<>>
      /\ \A i \in 1 .. Len(s) : Append(s, x)[i] = s[i]
      /\ Append(s, x)[Len(s) + 1] = x
      /\ Len(s) \in Nat
  BY <1>1, AppendProperties, LenProperties, AppendIsConcat
<1>3. DOMAIN Append(s, x) = 1 .. Len(s) + 1 /\ DOMAIN s = 1 .. Len(s)
  BY <1>1, <1>2, LenProperties
<1>4. \A i \in 1 .. Len(s) + 1 : i \in 1 .. Len(s) \/ i = Len(s) + 1
  BY <1>2
<1>5. 1 .. Len(s) \subseteq 1 .. Len(s) + 1 /\ Len(s) + 1 \in 1 .. Len(s) + 1
  BY <1>2
<1>6. ToSet(Append(s, x)) = ToSet(s) \union {x}
  BY <1>2, <1>3, <1>4, <1>5 DEF ToSet
<1> QED
  BY <1>2, <1>6, IsSeqOf

(* The empty sequence and the sequences of one element. *)
LEMMA EmptyAndSingle ==
    /\ IsSeq(<<>>) /\ Len(<<>>) = 0 /\ ToSet(<<>>) = {}
    /\ \A s : IsSeq(s) => (Len(s) = 0 <=> s = <<>>) /\ s \o <<>> = s /\ <<>> \o s = s
    /\ \A x : IsSeq(<<x>>) /\ Len(<<x>>) = 1 /\ <<x>>[1] = x /\ ToSet(<<x>>) = {x}
<1>1. IsSeq(<<>>) /\ Len(<<>>) = 0 /\ ToSet(<<>>) = {}
  BY EmptySeq DEF IsSeq, ToSet
<1>2. ASSUME NEW s, IsSeq(s)
      PROVE  (Len(s) = 0 <=> s = <<>>) /\ s \o <<>> = s /\ <<>> \o s = s
  BY <1>2, EmptySeq, ConcatEmptySeq DEF IsSeq
<1>3. ASSUME NEW x
      PROVE  IsSeq(<<x>>) /\ Len(<<x>>) = 1 /\ <<x>>[1] = x /\ ToSet(<<x>>) = {x}
  <2>1. <<x>> \in Seq({x}) /\ Len(<<x>>) = 1 /\ <<x>>[1] = x
    OBVIOUS
  <2>2. DOMAIN <<x>> = {1}
    BY <2>1, LenProperties
  <2>3. ToSet(<<x>>) = {x}
    BY <2>1, <2>2 DEF ToSet
  <2> QED
    BY <2>1, <2>3 DEF IsSeq
<1> QED
  BY <1>1, <1>2, <1>3

(* Concatenation is associative. *)
LEMMA Associative ==
    ASSUME NEW s, IsSeq(s), NEW t, IsSeq(t), NEW u, IsSeq(u)
    PROVE  (s \o t) \o u = s \o (t \o u)
<1> DEFINE T == ToSet(s) \union ToSet(t) \union ToSet(u)
<1>1. s \in Seq(T) /\ t \in Seq(T) /\ u \in Seq(T)
  BY IsSeqDomain
<1> HIDE DEF T
<1> QED
  BY <1>1, ConcatAssociative

(* Kept is the end of a run over the places of the sequence. *)
LEMMA KeptRun ==
    ASSUME NEW s, IsSeq(s), NEW I
    PROVE  \E f \in [0 .. Len(s) -> Seq(ToSet(s))] :
              /\ f[0] = <<>>
              /\ \A n \in 1 .. Len(s) : f[n] = IF n \in I THEN Append(f[n - 1], s[n]) ELSE f[n - 1]
              /\ Kept(s, I) = f[Len(s)]
<1>0. PICK N \in Nat : N = Len(s)
  BY IsSeqDomain
<1> DEFINE V == Seq(ToSet(s))
           g == [p \in V \X (1 .. N) |-> IF p[2] \in I THEN Append(p[1], s[p[2]]) ELSE p[1]]
           upto[n \in 0 .. N] ==
               IF n = 0 THEN <<>>
               ELSE IF n \in I THEN Append(upto[n - 1], s[n]) ELSE upto[n - 1]
<1>1. <<>> \in V /\ N \in Nat /\ \A n \in 1 .. N : s[n] \in ToSet(s)
  BY <1>0, EmptySeq, IsSeqDomain DEF ToSet
<1>2. g \in Steps(V, N)
  BY <1>1, AppendProperties DEF Steps
<1> HIDE DEF V, g
<1>3a. PICK f : IsRun(f, V, <<>>, g, N)
  BY <1>1, <1>2, RunExists
<1>3. f \in [0 .. N -> V] /\ f[0] = <<>> /\ \A n \in 1 .. N : f[n] = g[<<f[n - 1], n>>]
  BY <1>3a DEF IsRun
<1>4. \A n \in 1 .. N : f[n] = IF n \in I THEN Append(f[n - 1], s[n]) ELSE f[n - 1]
  <2>1. \A n \in 1 .. N : <<f[n - 1], n>> \in V \X (1 .. N)
    BY <1>1, <1>3
  <2> QED
    BY <1>3, <2>1 DEF g
<1>5. f = [n \in 0 .. N |-> IF n = 0 THEN <<>>
               ELSE IF n \in I THEN Append(f[n - 1], s[n]) ELSE f[n - 1]]
  <2>1. \A n \in 0 .. N : n = 0 \/ n \in 1 .. N
    BY <1>1
  <2>2. \A n \in 0 .. N : f[n] = IF n = 0 THEN <<>>
               ELSE IF n \in I THEN Append(f[n - 1], s[n]) ELSE f[n - 1]
    BY <1>3, <1>4, <2>1
  <2> QED
    BY <1>3, <2>2
<1>6. upto = [n \in 0 .. N |-> IF n = 0 THEN <<>>
               ELSE IF n \in I THEN Append(upto[n - 1], s[n]) ELSE upto[n - 1]]
  BY <1>5
<1> HIDE DEF upto
<1>7. upto[0] = <<>> /\ \A n \in 1 .. N : upto[n] = IF n \in I THEN Append(upto[n - 1], s[n]) ELSE upto[n - 1]
  <2>1. 0 \in 0 .. N /\ \A n \in 1 .. N : n \in 0 .. N /\ n # 0
    BY <1>1
  <2> QED
    BY <1>6, <2>1
<1>8. \A i \in 0 .. N : upto[i] = f[i]
  <2>1. \A i \in 1 .. N : upto[i - 1] = f[i - 1] => upto[i] = f[i]
    BY <1>4, <1>7
  <2>2. upto[0] = f[0]
    BY <1>3, <1>7
  <2> QED
    BY <2>1, <2>2, RunsAgree
<1>9. Kept(s, I) = upto[N]
  BY <1>0 DEF Kept, upto
<1> QED
  BY <1>0, <1>1, <1>3, <1>4, <1>8, <1>9 DEF V

(* f[n] is what is kept of the first n elements, up to the last of them, N      *)
KeepsBy(f, s, I, N) ==
    /\ f[0] = <<>> /\ Kept(s, I) = f[N]
    /\ \A n \in 1 .. N : f[n] = IF n \in I THEN Append(f[n - 1], s[n]) ELSE f[n - 1]

(* Kept is built up one place after another. *)
LEMMA KeptBy ==
    ASSUME NEW s, IsSeq(s), NEW I, NEW N, N = Len(s)
    PROVE  \E f : KeepsBy(f, s, I, N)
<1>1. PICK f \in [0 .. Len(s) -> Seq(ToSet(s))] :
              /\ f[0] = <<>>
              /\ \A n \in 1 .. Len(s) : f[n] = IF n \in I THEN Append(f[n - 1], s[n]) ELSE f[n - 1]
              /\ Kept(s, I) = f[Len(s)]
  BY KeptRun
<1> QED
  BY <1>1 DEF KeepsBy

-----------------------------------------------------------------------------
(* Kept, FlattenSeq and Joined.                                             *)

(* Nothing is kept of the empty sequence. *)
LEMMA KeptEmpty == \A I : Kept(<<>>, I) = <<>>
<1> SUFFICES ASSUME NEW I PROVE Kept(<<>>, I) = <<>>
  OBVIOUS
<1>1. IsSeq(<<>>) /\ Len(<<>>) = 0
  BY EmptyAndSingle
<1>2. PICK f : KeepsBy(f, <<>>, I, 0)
  BY <1>1, KeptBy
<1> QED
  BY <1>2 DEF KeepsBy

(* One element more is kept exactly when its place is chosen. *)
LEMMA KeptAppend ==
    ASSUME NEW s, IsSeq(s), NEW x, NEW I
    PROVE  Kept(Append(s, x), I) =
              IF Len(s) + 1 \in I THEN Append(Kept(s, I), x) ELSE Kept(s, I)
<1>1. PICK t : t = Append(s, x)
  OBVIOUS
<1>2. PICK N \in Nat : N = Len(s)
  BY IsSeqDomain
<1>3. IsSeq(t) /\ Len(t) = N + 1 /\ t[N + 1] = x /\ \A i \in 1 .. N : t[i] = s[i]
  <2>1. /\ IsSeq(Append(s, x)) /\ Len(Append(s, x)) = Len(s) + 1
        /\ \A i \in 1 .. Len(s) : Append(s, x)[i] = s[i]
        /\ Append(s, x)[Len(s) + 1] = x
    BY Appending
  <2> QED
    BY <1>1, <1>2, <2>1
<1>4a. PICK f : KeepsBy(f, s, I, N)
  BY <1>2, KeptBy
<1>4. /\ f[0] = <<>> /\ Kept(s, I) = f[N]
      /\ \A n \in 1 .. N : f[n] = IF n \in I THEN Append(f[n - 1], s[n]) ELSE f[n - 1]
  BY <1>4a DEF KeepsBy
<1>5a. PICK h : KeepsBy(h, t, I, N + 1)
  BY <1>3, KeptBy
<1>5. /\ h[0] = <<>> /\ Kept(t, I) = h[N + 1]
      /\ \A n \in 1 .. N + 1 : h[n] = IF n \in I THEN Append(h[n - 1], t[n]) ELSE h[n - 1]
  BY <1>5a DEF KeepsBy
<1>6. \A n \in 1 .. N : f[n - 1] = h[n - 1] => f[n] = h[n]
  BY <1>3, <1>4, <1>5
<1>7. \A n \in 0 .. N : f[n] = h[n]
  <2>1. f[0] = h[0]
    BY <1>4, <1>5
  <2> QED
    BY <1>6, <2>1, RunsAgree
<1>8. h[N + 1] = IF N + 1 \in I THEN Append(h[N], x) ELSE h[N]
  BY <1>3, <1>5
<1> QED
  BY <1>1, <1>2, <1>4, <1>5, <1>7, <1>8

(* What is kept depends on the chosen places and what is there, on nothing  *)
(* else.                                                                    *)
LEMMA KeptSame ==
    ASSUME NEW s, IsSeq(s), NEW t, IsSeq(t), Len(s) = Len(t), NEW I, NEW J,
           \A k \in 1 .. Len(s) : (k \in I <=> k \in J) /\ (k \in I => s[k] = t[k])
    PROVE  Kept(s, I) = Kept(t, J)
<1>2. PICK N \in Nat : N = Len(s)
  BY IsSeqDomain
<1>4a. PICK f : KeepsBy(f, s, I, N)
  BY <1>2, KeptBy
<1>4. /\ f[0] = <<>> /\ Kept(s, I) = f[N]
      /\ \A n \in 1 .. N : f[n] = IF n \in I THEN Append(f[n - 1], s[n]) ELSE f[n - 1]
  BY <1>4a DEF KeepsBy
<1>5a. PICK h : KeepsBy(h, t, J, N)
  BY <1>2, KeptBy
<1>5. /\ h[0] = <<>> /\ Kept(t, J) = h[N]
      /\ \A n \in 1 .. N : h[n] = IF n \in J THEN Append(h[n - 1], t[n]) ELSE h[n - 1]
  BY <1>5a DEF KeepsBy
<1>6. \A n \in 1 .. N : f[n - 1] = h[n - 1] => f[n] = h[n]
  BY <1>2, <1>4, <1>5
<1>7. \A n \in 0 .. N : f[n] = h[n]
  <2>1. f[0] = h[0]
    BY <1>4, <1>5
  <2> QED
    BY <1>6, <2>1, RunsAgree
<1> QED
  BY <1>2, <1>4, <1>5, <1>7

(* The elements kept are those at the chosen places. *)
LEMMA KeptElements ==
    ASSUME NEW s, IsSeq(s), NEW I
    PROVE  /\ IsSeq(Kept(s, I))
           /\ ToSet(Kept(s, I)) = {s[k] : k \in I \intersect DOMAIN s}
<1> DEFINE T == ToSet(s)
           P == {t \in Seq(T) : /\ IsSeq(Kept(t, I))
                                /\ ToSet(Kept(t, I)) = {t[k] : k \in I \intersect DOMAIN t}}
<1>1. <<>> \in P
  <2>1. <<>> \in Seq(T) /\ IsSeq(<<>>) /\ ToSet(<<>>) = {} /\ DOMAIN <<>> = {}
    BY EmptySeq, EmptyAndSingle
  <2> QED
    BY <2>1, KeptEmpty
<1>2. ASSUME NEW t \in Seq(T), NEW x \in T, t \in P
      PROVE  Append(t, x) \in P
  <2>1. PICK u : u = Append(t, x)
    OBVIOUS
  <2>2. PICK N \in Nat : N = Len(t)
    BY LenProperties
  <2>3. IsSeq(t) /\ DOMAIN t = 1 .. N
    BY <2>2, IsSeqOf, IsSeqDomain
  <2>4. /\ u \in Seq(T) /\ DOMAIN u = 1 .. N + 1 /\ u[N + 1] = x
        /\ \A i \in 1 .. N : u[i] = t[i]
    BY <2>1, <2>2, AppendProperties, LenProperties
  <2>5. Kept(u, I) = IF N + 1 \in I THEN Append(Kept(t, I), x) ELSE Kept(t, I)
    BY <2>1, <2>2, <2>3, KeptAppend
  <2>6. {u[k] : k \in I \intersect DOMAIN u} =
            {t[k] : k \in I \intersect DOMAIN t} \union (IF N + 1 \in I THEN {x} ELSE {})
    <3>1. DOMAIN u = DOMAIN t \union {N + 1} /\ \A k \in DOMAIN t : u[k] = t[k]
      BY <2>3, <2>4
    <3>2. I \intersect DOMAIN u = (I \intersect DOMAIN t) \union (IF N + 1 \in I THEN {N + 1} ELSE {})
      BY <3>1
    <3> QED
      BY <2>4, <3>1, <3>2
  <2>7. IsSeq(Kept(t, I)) /\ ToSet(Kept(t, I)) = {t[k] : k \in I \intersect DOMAIN t}
    BY <1>2
  <2>8. /\ IsSeq(Append(Kept(t, I), x))
        /\ ToSet(Append(Kept(t, I), x)) = ToSet(Kept(t, I)) \union {x}
    BY <2>7, Appending
  <2>9. IsSeq(Kept(u, I)) /\ ToSet(Kept(u, I)) = {u[k] : k \in I \intersect DOMAIN u}
    BY <2>5, <2>6, <2>7, <2>8
  <2> QED
    BY <2>1, <2>4, <2>9
<1>3. s \in Seq(T)
  BY DEF IsSeq
<1> HIDE DEF T, P
<1>4. \A t \in Seq(T) : t \in P
  BY <1>1, <1>2, SeqInduction
<1> QED
  BY <1>3, <1>4 DEF P

-----------------------------------------------------------------------------
AllSeqs(ss) == IsSeq(ss) /\ \A k \in DOMAIN ss : IsSeq(ss[k])

(* FlattenSeq is the end of a run over the sequences it joins. *)
LEMMA FlattenRun ==
    ASSUME NEW ss, AllSeqs(ss)
    PROVE  \E f, V :
              /\ f \in [0 .. Len(ss) -> V]
              /\ \A v \in V : IsSeq(v)
              /\ f[0] = <<>>
              /\ \A n \in 1 .. Len(ss) : f[n] = f[n - 1] \o ss[n]
              /\ FlattenSeq(ss) = f[Len(ss)]
<1>0. PICK N \in Nat : N = Len(ss) /\ DOMAIN ss = 1 .. N
  BY IsSeqDomain DEF AllSeqs
<1> DEFINE T == UNION {ToSet(ss[k]) : k \in 1 .. N}
           V == Seq(T)
           g == [p \in V \X (1 .. N) |-> p[1] \o ss[p[2]]]
           flatten[i \in 1 .. N] == IF i = 1 THEN ss[i] ELSE flatten[i - 1] \o ss[i]
<1>1. <<>> \in V /\ \A n \in 1 .. N : ss[n] \in V /\ IsSeq(ss[n])
  <2>1. \A n \in 1 .. N : IsSeq(ss[n]) /\ ToSet(ss[n]) \subseteq T
    BY <1>0 DEF AllSeqs
  <2> QED
    BY <2>1, EmptySeq, IsSeqDomain
<1>2. g \in Steps(V, N)
  BY <1>1, ConcatProperties DEF Steps
<1>2a. \A v \in V : IsSeq(v)
  BY IsSeqOf
<1> HIDE DEF T, V, g
<1>3. PICK f : IsRun(f, V, <<>>, g, N)
  BY <1>1, <1>2, RunExists
<1>4. /\ f \in [0 .. N -> V] /\ f[0] = <<>>
      /\ \A n \in 1 .. N : f[n] = f[n - 1] \o ss[n]
  <2>1. f \in [0 .. N -> V] /\ f[0] = <<>> /\ \A n \in 1 .. N : f[n] = g[<<f[n - 1], n>>]
    BY <1>3 DEF IsRun
  <2>2. \A n \in 1 .. N : <<f[n - 1], n>> \in V \X (1 .. N)
    BY <2>1
  <2> QED
    BY <2>1, <2>2 DEF g
<1>5. CASE N = 0
  <2>1. ss = <<>>
    BY <1>0, <1>5, EmptyAndSingle DEF AllSeqs
  <2>2. FlattenSeq(ss) = <<>>
    BY <2>1, <1>0, <1>5 DEF FlattenSeq
  <2> QED
    BY <1>0, <1>2a, <1>4, <1>5, <2>2
<1>6. CASE N # 0
  <2> DEFINE e == [i \in 1 .. N |-> f[i]]
  <2>1. f[1] = ss[1]
    <3>1. 1 \in 1 .. N /\ 1 - 1 = 0 /\ IsSeq(ss[1])
      BY <1>1, <1>6
    <3>2. f[1] = f[1 - 1] \o ss[1]
      BY <1>4, <3>1, Zenon
    <3>3. f[1] = <<>> \o ss[1]
      BY <1>4, <3>1, <3>2, Zenon
    <3> QED
      BY <3>1, <3>3, EmptyAndSingle, Zenon
  <2>2. e = [i \in 1 .. N |-> IF i = 1 THEN ss[i] ELSE e[i - 1] \o ss[i]]
    <3>1. \A i \in 1 .. N : i # 1 => i - 1 \in 1 .. N
      OBVIOUS
    <3>2. \A i \in 1 .. N : f[i] = IF i = 1 THEN ss[i] ELSE e[i - 1] \o ss[i]
      BY <1>4, <2>1, <3>1
    <3> QED
      BY <3>2
  <2> HIDE DEF e
  <2>3. flatten = [i \in 1 .. N |-> IF i = 1 THEN ss[i] ELSE flatten[i - 1] \o ss[i]]
    BY <2>2
  <2> HIDE DEF flatten
  <2>4. PICK h : h = [i \in 0 .. N |-> IF i = 0 THEN <<>> ELSE flatten[i]]
    OBVIOUS
  <2>5. h[0] = <<>> /\ \A n \in 1 .. N : h[n] = flatten[n]
    BY <2>4
  <2>6. \A n \in 1 .. N : h[n - 1] = f[n - 1] => h[n] = f[n]
    <3>1. \A n \in 1 .. N : flatten[n] = IF n = 1 THEN ss[n] ELSE flatten[n - 1] \o ss[n]
      BY <2>3
    <3>2. \A n \in 1 .. N : n # 1 => n - 1 \in 1 .. N
      OBVIOUS
    <3>3. \A n \in 1 .. N : n # 1 => h[n] = h[n - 1] \o ss[n]
      BY <2>5, <3>1, <3>2, Zenon
    <3>4. h[1] = f[1]
      BY <1>6, <2>1, <2>5, <3>1
    <3> QED
      BY <1>4, <3>3, <3>4, Zenon
  <2>7. \A n \in 0 .. N : h[n] = f[n]
    <3>1. h[0] = f[0]
      BY <1>4, <2>5
    <3> QED
      BY <2>6, <3>1, RunsAgree
  <2>8. FlattenSeq(ss) = flatten[N]
    BY <1>0, <1>6 DEF FlattenSeq, flatten
  <2>9. FlattenSeq(ss) = f[N]
    BY <1>6, <2>5, <2>7, <2>8
  <2> QED
    BY <1>0, <1>2a, <1>4, <2>9
<1> QED
  BY <1>5, <1>6

(* Nothing, flattened, is the empty sequence. *)
LEMMA FlattenEmpty == FlattenSeq(<<>>) = <<>>
BY EmptyAndSingle DEF FlattenSeq

(* One sequence more to flatten is concatenated at the end. *)
LEMMA FlattenAppend ==
    ASSUME NEW ss, AllSeqs(ss), NEW x, IsSeq(x)
    PROVE  /\ AllSeqs(Append(ss, x)) /\ IsSeq(FlattenSeq(ss))
           /\ FlattenSeq(Append(ss, x)) = FlattenSeq(ss) \o x
<1>1. PICK t : t = Append(ss, x)
  OBVIOUS
<1>2. PICK N \in Nat : N = Len(ss)
  BY IsSeqDomain DEF AllSeqs
<1>3. IsSeq(t) /\ Len(t) = N + 1 /\ t[N + 1] = x /\ \A i \in 1 .. N : t[i] = ss[i]
  <2>1. IsSeq(ss)
    BY DEF AllSeqs
  <2>2. /\ IsSeq(Append(ss, x)) /\ Len(Append(ss, x)) = Len(ss) + 1
        /\ \A i \in 1 .. Len(ss) : Append(ss, x)[i] = ss[i]
        /\ Append(ss, x)[Len(ss) + 1] = x
    BY <2>1, Appending
  <2> QED
    BY <1>1, <1>2, <2>2
<1>4. AllSeqs(t)
  <2>1. DOMAIN t = 1 .. N + 1 /\ DOMAIN ss = 1 .. N
    BY <1>2, <1>3, IsSeqDomain DEF AllSeqs
  <2>2. \A i \in 1 .. N + 1 : i = N + 1 \/ i \in 1 .. N
    OBVIOUS
  <2> QED
    BY <1>3, <2>1, <2>2 DEF AllSeqs
<1>5. PICK f, V : /\ f \in [0 .. N -> V] /\ f[0] = <<>> /\ FlattenSeq(ss) = f[N]
                  /\ \A v \in V : IsSeq(v)
               /\ \A n \in 1 .. N : f[n] = f[n - 1] \o ss[n]
  BY <1>2, FlattenRun
<1>6. PICK h : /\ h[0] = <<>> /\ FlattenSeq(t) = h[N + 1]
               /\ \A n \in 1 .. N + 1 : h[n] = h[n - 1] \o t[n]
  BY <1>3, <1>4, FlattenRun
<1>7. \A n \in 0 .. N : f[n] = h[n]
  <2>1. f[0] = h[0]
    BY <1>5, <1>6
  <2>2. \A n \in 1 .. N : n \in 1 .. N + 1
    OBVIOUS
  <2>3. \A n \in 1 .. N : h[n] = h[n - 1] \o ss[n]
    BY <1>3, <1>6, <2>2, Zenon
  <2>4. \A n \in 1 .. N : f[n - 1] = h[n - 1] => f[n] = h[n]
    BY <1>5, <2>3, Zenon
  <2> QED
    BY <2>1, <2>4, RunsAgree
<1>8. h[N + 1] = h[N] \o x
  <2>1. N + 1 \in 1 .. N + 1 /\ (N + 1) - 1 = N
    OBVIOUS
  <2>2. h[N + 1] = h[(N + 1) - 1] \o t[N + 1]
    BY <1>6, <2>1, Zenon
  <2> QED
    BY <1>3, <2>1, <2>2, Zenon
<1>9. f[N] = h[N] /\ IsSeq(f[N])
  BY <1>5, <1>7
<1> QED
  BY <1>1, <1>4, <1>5, <1>6, <1>8, <1>9, Zenon

(* Append adds one place and leaves the others alone. *)
LEMMA DomainOfAppend ==
    ASSUME NEW s, IsSeq(s), NEW x
    PROVE  /\ DOMAIN Append(s, x) = DOMAIN s \union {Len(s) + 1}
           /\ Len(s) + 1 \notin DOMAIN s
           /\ \A k \in DOMAIN s : Append(s, x)[k] = s[k]
<1>1. PICK t : t = Append(s, x)
  OBVIOUS
<1>2. IsSeq(Append(s, x)) /\ Len(Append(s, x)) = Len(s) + 1
      /\ \A i \in 1 .. Len(s) : Append(s, x)[i] = s[i]
  BY Appending
<1>3. IsSeq(t) /\ Len(t) = Len(s) + 1 /\ \A i \in 1 .. Len(s) : t[i] = s[i]
  BY <1>1, <1>2
<1>4. Len(s) \in Nat /\ DOMAIN s = 1 .. Len(s) /\ DOMAIN t = 1 .. Len(t)
  BY <1>3, IsSeqDomain
<1> QED
  BY <1>1, <1>3, <1>4

Over(f, D) == f = [k \in D |-> f[k]]

(* A function over the places of s, and what it is over those of a longer one. *)
LEMMA OverPlaces ==
    ASSUME NEW s, IsSeq(s), NEW f, Over(f, DOMAIN s)
    PROVE  IsSeq(f) /\ Len(f) = Len(s) /\ DOMAIN f = DOMAIN s
<1>1. Len(s) \in Nat /\ DOMAIN s = 1 .. Len(s)
  BY IsSeqDomain
<1>2. PICK n \in Nat : n = Len(s)
  BY <1>1
<1>3. f = [k \in 1 .. n |-> f[k]]
  BY <1>1, <1>2, Zenon DEF Over
<1>4. IsSeq(f) /\ Len(f) = n
  BY <1>3, IsSeqFunction
<1>5. DOMAIN f = DOMAIN s
  BY Zenon DEF Over
<1> QED
  BY <1>2, <1>4, <1>5

(* A function over the places of a sequence with one more element is Append *)
(* of what it is over the places before.                                    *)
LEMMA OverMorePlaces ==
    ASSUME NEW s, IsSeq(s), NEW x,
           NEW f, Over(f, DOMAIN s),
           NEW g, Over(g, DOMAIN Append(s, x)),
           \A k \in DOMAIN s : g[k] = f[k]
    PROVE  g = Append(f, g[Len(s) + 1])
<1>1. PICK t : t = Append(s, x)
  OBVIOUS
<1>2. PICK n \in Nat : n = Len(s)
  BY IsSeqDomain
<1>3. IsSeq(t) /\ Len(t) = n + 1
  <2>1. IsSeq(Append(s, x)) /\ Len(Append(s, x)) = Len(s) + 1
    BY Appending
  <2> QED
    BY <1>1, <1>2, <2>1
<1>4. IsSeq(f) /\ Len(f) = n
  BY <1>2, OverPlaces
<1>5. IsSeq(g) /\ Len(g) = n + 1
  <2>1. Over(g, DOMAIN t)
    BY <1>1, Zenon
  <2>2. IsSeq(g) /\ Len(g) = Len(t)
    BY <1>3, <2>1, OverPlaces, Zenon
  <2> QED
    BY <1>3, <2>2
<1>6. PICK h : h = Append(f, g[n + 1])
  OBVIOUS
<1>7. IsSeq(h) /\ Len(h) = n + 1 /\ h[n + 1] = g[n + 1] /\ \A i \in 1 .. n : h[i] = f[i]
  <2>0. PICK y : y = g[n + 1]
    OBVIOUS
  <2>1. /\ IsSeq(Append(f, y)) /\ Len(Append(f, y)) = Len(f) + 1
        /\ \A i \in 1 .. Len(f) : Append(f, y)[i] = f[i]
        /\ Append(f, y)[Len(f) + 1] = y
    BY <1>4, Appending, Zenon
  <2> QED
    BY <1>4, <1>6, <2>0, <2>1
<1>8. \A i \in 1 .. n + 1 : g[i] = h[i]
  <2>1. DOMAIN s = 1 .. n
    BY <1>2, IsSeqDomain
  <2>2. \A i \in 1 .. n + 1 : i \in 1 .. n \/ i = n + 1
    OBVIOUS
  <2> QED
    BY <1>7, <2>1, <2>2
<1>9. g = h
  BY <1>5, <1>7, <1>8, SameSeq
<1> QED
  BY <1>2, <1>6, <1>9

(* Nothing, joined, is the empty sequence. *)
LEMMA JoinedEmpty == \A sep : Joined(<<>>, sep) = <<>>
<1> SUFFICES ASSUME NEW sep PROVE Joined(<<>>, sep) = <<>>
  OBVIOUS
<1> DEFINE f == [k \in DOMAIN <<>> |-> IF k = 1 THEN <<>>[k] ELSE sep \o <<>>[k]]
<1>1. IsSeq(<<>>) /\ Len(<<>>) = 0
  BY EmptyAndSingle
<1>2. Over(f, DOMAIN <<>>)
  BY Zenon DEF Over
<1> HIDE DEF f
<1>3. IsSeq(f) /\ Len(f) = 0
  BY <1>1, <1>2, OverPlaces
<1>4. f = <<>>
  BY <1>3, EmptyAndSingle
<1>5. Joined(<<>>, sep) = FlattenSeq(f)
  BY DEF Joined, f
<1> QED
  BY <1>4, <1>5, FlattenEmpty

(* One sequence more to join comes after a separator, except when it is the *)
(* first.                                                                   *)
LEMMA JoinedAppend ==
    ASSUME NEW ss, AllSeqs(ss), NEW x, IsSeq(x), NEW sep, IsSeq(sep)
    PROVE  /\ IsSeq(Joined(ss, sep)) /\ AllSeqs(Append(ss, x))
           /\ Joined(Append(ss, x), sep) =
                 IF ss = <<>> THEN x ELSE (Joined(ss, sep) \o sep) \o x
<1> DEFINE f == [k \in DOMAIN ss |-> IF k = 1 THEN ss[k] ELSE sep \o ss[k]]
           t == Append(ss, x)
           g == [k \in DOMAIN t |-> IF k = 1 THEN t[k] ELSE sep \o t[k]]
           y == IF ss = <<>> THEN x ELSE sep \o x
<1>1. IsSeq(ss) /\ DOMAIN ss = 1 .. Len(ss) /\ Len(ss) \in Nat
  BY IsSeqDomain DEF AllSeqs
<1>2. /\ DOMAIN t = DOMAIN ss \union {Len(ss) + 1}
      /\ \A k \in DOMAIN ss : t[k] = ss[k]
      /\ t[Len(ss) + 1] = x
  BY <1>1, DomainOfAppend, Appending
<1>3. Over(f, DOMAIN ss) /\ Over(g, DOMAIN t)
  BY Zenon DEF Over
<1>4. \A k \in DOMAIN ss : g[k] = f[k]
  <2> HIDE DEF t
  <2> QED
    BY <1>2, Zenon
<1>5. g[Len(ss) + 1] = y
  <2>0. ss = <<>> <=> Len(ss) + 1 = 1
    BY <1>1, EmptyAndSingle
  <2> HIDE DEF t
  <2>1. Len(ss) + 1 \in DOMAIN t
    BY <1>2
  <2> QED
    BY <1>2, <2>0, <2>1, Zenon
<1>6. AllSeqs(f)
  <2>1. IsSeq(f) /\ DOMAIN f = DOMAIN ss
    <3> HIDE DEF f
    <3> QED
      BY <1>1, <1>3, OverPlaces
  <2>2. ASSUME NEW k \in DOMAIN ss
        PROVE  IsSeq(f[k])
    <3>1. IsSeq(ss[k])
      BY DEF AllSeqs
    <3>2. IsSeq(sep \o ss[k])
      BY <3>1, Concatenation
    <3> QED
      BY <3>1, <3>2, Zenon
  <2> QED
    BY <2>1, <2>2 DEF AllSeqs
<1>7. IsSeq(y) /\ IsSeq(sep \o x)
  BY Concatenation, Zenon
<1>8. g = Append(f, y)
  <2> HIDE DEF f, g, y
  <2>1. g = Append(f, g[Len(ss) + 1])
    BY <1>1, <1>3, <1>4, OverMorePlaces DEF t
  <2> QED
    BY <1>5, <2>1
<1>9. Joined(ss, sep) = FlattenSeq(f) /\ Joined(t, sep) = FlattenSeq(g)
  BY DEF Joined
<1>10. IsSeq(FlattenSeq(f)) /\ FlattenSeq(Append(f, y)) = FlattenSeq(f) \o y
  <2> HIDE DEF f, y
  <2> QED
    BY <1>6, <1>7, FlattenAppend
<1>11. AllSeqs(t)
  BY FlattenAppend
<1>12. CASE ss = <<>>
  <2>1. FlattenSeq(f) = <<>>
    BY <1>9, <1>12, JoinedEmpty, Zenon
  <2>2. Joined(t, sep) = <<>> \o x
    BY <1>8, <1>9, <1>10, <1>12, <2>1, Zenon
  <2> QED
    BY <1>9, <1>10, <1>11, <1>12, <2>2, EmptyAndSingle, Zenon
<1>13. CASE ss # <<>>
  <2>1. Joined(t, sep) = Joined(ss, sep) \o (sep \o x)
    BY <1>8, <1>9, <1>10, <1>13, Zenon
  <2>2. (Joined(ss, sep) \o sep) \o x = Joined(ss, sep) \o (sep \o x)
    BY <1>9, <1>10, Associative
  <2> QED
    BY <1>9, <1>10, <1>11, <1>13, <2>1, <2>2, Zenon
<1> QED
  BY <1>12, <1>13, Zenon

(* the first elements of a sequence, one more at a time *)
LEMMA OneMore ==
    ASSUME NEW s, IsSeq(s)
    PROVE  /\ SubSeq(s, 1, 0) = <<>> /\ SubSeq(s, 1, Len(s)) = s
           /\ \A n \in 0 .. Len(s) : IsSeq(SubSeq(s, 1, n)) /\ Len(SubSeq(s, 1, n)) = n
           /\ \A n \in 1 .. Len(s) : SubSeq(s, 1, n) = Append(SubSeq(s, 1, n - 1), s[n])
<1>0. PICK T : T = ToSet(s)
  OBVIOUS
<1>1. PICK N \in Nat : N = Len(s) /\ DOMAIN s = 1 .. N
  BY IsSeqDomain
<1>2. s \in Seq(T) /\ \A i \in 1 .. N : s[i] \in T
  BY <1>0, <1>1 DEF IsSeq, ToSet

<1>3. SubSeq(s, 1, 0) = <<>>
  BY SubSeqEmpty
<1>4. SubSeq(s, 1, Len(s)) = s
  BY <1>2, SubSeqFull
<1>5. ASSUME NEW n \in 0 .. N
      PROVE  /\ SubSeq(s, 1, n) \in Seq(T) /\ IsSeq(SubSeq(s, 1, n)) /\ Len(SubSeq(s, 1, n)) = n
             /\ \A i \in 1 .. n : SubSeq(s, 1, n)[i] = s[i]
  <2>1. n \in Int /\ 1 \in Int /\ \A i \in 1 .. n : s[i] \in T
    BY <1>2
  <2>2. /\ SubSeq(s, 1, n) \in Seq(T)
        /\ Len(SubSeq(s, 1, n)) = IF 1 <= n THEN n - 1 + 1 ELSE 0
        /\ \A i \in 1 .. n - 1 + 1 : SubSeq(s, 1, n)[i] = s[1 + i - 1]
    BY <2>1, SubSeqProperties
  <2>3. Len(SubSeq(s, 1, n)) = n
    BY <2>2
  <2>4. \A i \in 1 .. n : SubSeq(s, 1, n)[i] = s[i]
    BY <2>2
  <2> QED
    BY <2>2, <2>3, <2>4, IsSeqOf
<1>6. ASSUME NEW n \in 1 .. N
      PROVE  SubSeq(s, 1, n) = Append(SubSeq(s, 1, n - 1), s[n])
  <2>1. 1 \in 1 .. Len(s) /\ n \in 1 .. Len(s)
    BY <1>1
  <2>2. SubSeq(s, 1, n) = SubSeq(s, 1, n - 1) \o <<s[n]>>
    BY <1>2, <2>1, SubSeqRecursiveSecond
  <2>3. n - 1 \in 0 .. N
    OBVIOUS
  <2>4. IsSeq(SubSeq(s, 1, n - 1))
    BY <1>5, <2>3
  <2>5. Append(SubSeq(s, 1, n - 1), s[n]) = SubSeq(s, 1, n - 1) \o <<s[n]>>
    BY <2>4, Appending
  <2> QED
    BY <2>2, <2>5, Zenon
<1> QED
  BY <1>1, <1>3, <1>4, <1>5, <1>6

(* t is s with x added *)
LongerBy(s, x, t) ==
    /\ IsSeq(t) /\ Len(t) = Len(s) + 1 /\ t[Len(s) + 1] = x
    /\ \A i \in 1 .. Len(s) : t[i] = s[i]

(* The facts about Append under one name. *)
LEMMA OneLonger ==
    ASSUME NEW s, IsSeq(s), NEW x, NEW t, t = Append(s, x)
    PROVE  LongerBy(s, x, t)
<1>1. /\ IsSeq(Append(s, x)) /\ Len(Append(s, x)) = Len(s) + 1
      /\ \A i \in 1 .. Len(s) : Append(s, x)[i] = s[i]
      /\ Append(s, x)[Len(s) + 1] = x
  BY Appending
<1> QED
  BY <1>1, Zenon DEF LongerBy

(* Concatenating one-element sequences for the places in I, and empty ones     *)
(* elsewhere, keeps the elements at I.                                       *)
LEMMA FlattenChosen ==
    ASSUME NEW s, IsSeq(s), NEW I, NEW u, AllSeqs(u), Len(u) = Len(s),
           \A n \in 1 .. Len(s) : u[n] = IF n \in I THEN <<s[n]>> ELSE <<>>
    PROVE  FlattenSeq(u) = Kept(s, I)
<1>1. PICK N \in Nat : N = Len(s)
  BY IsSeqDomain
<1>2. PICK f, V : /\ f \in [0 .. N -> V] /\ f[0] = <<>> /\ FlattenSeq(u) = f[N]
                  /\ \A v \in V : IsSeq(v)
                  /\ \A n \in 1 .. N : f[n] = f[n - 1] \o u[n]
  <2>1. \E f, V :
              /\ f \in [0 .. Len(u) -> V]
              /\ \A v \in V : IsSeq(v)
              /\ f[0] = <<>>
              /\ \A n \in 1 .. Len(u) : f[n] = f[n - 1] \o u[n]
              /\ FlattenSeq(u) = f[Len(u)]
    BY FlattenRun
  <2>2. Len(u) = N
    BY <1>1
  <2> QED
    BY <2>1, <2>2, Zenon
<1>3a. PICK h : KeepsBy(h, s, I, N)
  BY <1>1, KeptBy
<1>3. /\ h[0] = <<>> /\ Kept(s, I) = h[N]
      /\ \A n \in 1 .. N : h[n] = IF n \in I THEN Append(h[n - 1], s[n]) ELSE h[n - 1]
  BY <1>3a DEF KeepsBy
<1>4. ASSUME NEW n \in 1 .. N
      PROVE  f[n] = IF n \in I THEN Append(f[n - 1], s[n]) ELSE f[n - 1]
  <2>1. IsSeq(f[n - 1])
    BY <1>2
  <2>2. PICK p : p = f[n - 1] /\ IsSeq(p)
    BY <2>1
  <2>3. Append(p, s[n]) = p \o <<s[n]>> /\ p \o <<>> = p
    BY <2>2, Appending, EmptyAndSingle
  <2>4. f[n] = p \o u[n]
    BY <1>2, <2>2, Zenon
  <2>5. CASE n \in I
    <3>1. u[n] = <<s[n]>>
      BY <1>1, <2>5
    <3> QED
      BY <2>2, <2>3, <2>4, <2>5, <3>1, Zenon
  <2>6. CASE n \notin I
    <3>1. u[n] = <<>>
      BY <1>1, <2>6
    <3> QED
      BY <2>2, <2>3, <2>4, <2>6, <3>1, Zenon
  <2> QED
    BY <2>5, <2>6
<1>5. \A n \in 1 .. N : f[n - 1] = h[n - 1] => f[n] = h[n]
  BY <1>3, <1>4, Zenon
<1>6. \A n \in 0 .. N : f[n] = h[n]
  <2>1. f[0] = h[0]
    BY <1>2, <1>3
  <2> QED
    BY <1>5, <2>1, RunsAgree
<1> QED
  BY <1>2, <1>3, <1>6

(* p and q hold the elements of s and t at the same places, all of them in I    *)
Alike(p, q, s, t, I) ==
    /\ IsSeq(p) /\ IsSeq(q) /\ Len(p) = Len(q)
    /\ \A i \in 1 .. Len(p) : \E m \in I \intersect (1 .. Len(s)) : p[i] = s[m] /\ q[i] = t[m]

(* Two selections that are alike stay alike when both take the same place. *)
LEMMA AlikeOn ==
    ASSUME NEW p, NEW q, NEW s, NEW t, NEW I, Alike(p, q, s, t, I), NEW n \in I \intersect (1 .. Len(s))
    PROVE  Alike(Append(p, s[n]), Append(q, t[n]), s, t, I)
<1>0. IsSeq(p) /\ IsSeq(q) /\ Len(p) = Len(q)
  BY DEF Alike
<1>1. PICK u, v, x, y : u = Append(p, x) /\ v = Append(q, y) /\ x = s[n] /\ y = t[n]
  OBVIOUS
<1>2. PICK N \in Nat : N = Len(p) /\ N = Len(q)
  BY <1>0, IsSeqDomain
<1>3. IsSeq(u) /\ Len(u) = N + 1 /\ u[N + 1] = x /\ \A i \in 1 .. N : u[i] = p[i]
  <2>1. /\ IsSeq(Append(p, x)) /\ Len(Append(p, x)) = Len(p) + 1
        /\ \A i \in 1 .. Len(p) : Append(p, x)[i] = p[i]
        /\ Append(p, x)[Len(p) + 1] = x
    BY <1>0, Appending
  <2> QED
    BY <1>1, <1>2, <2>1, Zenon
<1>4. IsSeq(v) /\ Len(v) = N + 1 /\ v[N + 1] = y /\ \A i \in 1 .. N : v[i] = q[i]
  <2>1. /\ IsSeq(Append(q, y)) /\ Len(Append(q, y)) = Len(q) + 1
        /\ \A i \in 1 .. Len(q) : Append(q, y)[i] = q[i]
        /\ Append(q, y)[Len(q) + 1] = y
    BY <1>0, Appending
  <2> QED
    BY <1>1, <1>2, <2>1, Zenon
<1>5. ASSUME NEW i \in 1 .. Len(u)
      PROVE  \E m \in I \intersect (1 .. Len(s)) : u[i] = s[m] /\ v[i] = t[m]
  <2>1. i = N + 1 \/ i \in 1 .. N
    BY <1>3
  <2>2. CASE i = N + 1
    BY <1>1, <1>3, <1>4, <2>2
  <2>3. CASE i \in 1 .. N
    <3>1. \E m \in I \intersect (1 .. Len(s)) : p[i] = s[m] /\ q[i] = t[m]
      BY <1>2, <2>3 DEF Alike
    <3> QED
      BY <1>3, <1>4, <2>3, <3>1, Zenon
  <2> QED
    BY <2>1, <2>2, <2>3
<1>6. Alike(u, v, s, t, I)
  BY <1>3, <1>4, <1>5, Zenon DEF Alike
<1> QED
  BY <1>1, <1>6, Zenon

(* What is kept of two sequences of one length at the same places is kept   *)
(* in step.                                                                 *)
LEMMA KeptAlike ==
    ASSUME NEW s, IsSeq(s), NEW t, IsSeq(t), Len(s) = Len(t), NEW I
    PROVE  Alike(Kept(s, I), Kept(t, I), s, t, I)
<1>1. PICK N \in Nat : N = Len(s) /\ N = Len(t)
  BY IsSeqDomain
<1>2a. PICK f : KeepsBy(f, s, I, N)
  BY <1>1, KeptBy
<1>2. /\ f[0] = <<>> /\ Kept(s, I) = f[N]
      /\ \A n \in 1 .. N : f[n] = IF n \in I THEN Append(f[n - 1], s[n]) ELSE f[n - 1]
  BY <1>2a DEF KeepsBy
<1>3. PICK h : KeepsBy(h, t, I, N)
  BY <1>1, KeptBy
<1>3a. /\ h[0] = <<>> /\ Kept(t, I) = h[N]
      /\ \A n \in 1 .. N : h[n] = IF n \in I THEN Append(h[n - 1], t[n]) ELSE h[n - 1]
  BY <1>3 DEF KeepsBy
<1> DEFINE S == {n \in Nat : n <= N => Alike(f[n], h[n], s, t, I)}
<1>4. 0 \in S
  <2>1. \A p : p = <<>> => IsSeq(p) /\ Len(p) = 0
    BY EmptyAndSingle
  <2>2. Alike(f[0], h[0], s, t, I)
    BY <1>2, <1>3a, <2>1 DEF Alike
  <2> QED
    BY <2>2
<1>5. ASSUME NEW n \in Nat, n \in S
      PROVE  n + 1 \in S
  <2> SUFFICES ASSUME n + 1 <= N
               PROVE  Alike(f[n + 1], h[n + 1], s, t, I)
    OBVIOUS
  <2>1. Alike(f[n], h[n], s, t, I)
    BY <1>5
  <2>2. n + 1 \in 1 .. N /\ (n + 1) - 1 = n
    OBVIOUS
  <2>3. /\ f[n + 1] = IF n + 1 \in I THEN Append(f[n], s[n + 1]) ELSE f[n]
        /\ h[n + 1] = IF n + 1 \in I THEN Append(h[n], t[n + 1]) ELSE h[n]
    BY <1>1, <1>2, <1>3a, <2>2
  <2>4. CASE n + 1 \in I
    <3>1. n + 1 \in I \intersect (1 .. Len(s))
      BY <1>1, <2>2, <2>4
    <3>2. Alike(Append(f[n], s[n + 1]), Append(h[n], t[n + 1]), s, t, I)
      BY <2>1, <3>1, AlikeOn
    <3> QED
      BY <2>3, <2>4, <3>2, Zenon
  <2>5. CASE n + 1 \notin I
    BY <2>1, <2>3, <2>5, Zenon
  <2> QED
    BY <2>4, <2>5
<1> HIDE DEF S
<1>6. N \in S
  BY <1>4, <1>5, SetInduction
<1> QED
  BY <1>1, <1>2, <1>3a, <1>6 DEF S
=============================================================================
