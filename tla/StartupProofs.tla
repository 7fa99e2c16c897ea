----------------------------- MODULE StartupProofs -----------------------------
(***************************************************************************)
(* Proofs about Startup, for every program that is written as               *)
(* ProgramWritten says, in every environment and order of the inventory.     *)
(*                                                                         *)
(* The first half is about the macros as functions: what they read of an     *)
(* attribute, a signature or a struct is what was written there, so the      *)
(* expansion of an item can be replaced by what the item means.  The second  *)
(* half is the inductive invariant StartupInv, one conjunct for each thing   *)
(* the program builds (expansions, the linked lists, the registry, the       *)
(* configuration, the router), and the properties that follow from it.      *)
(***************************************************************************)
EXTENDS Startup, SequenceLemmas, FiniteSetTheorems

-----------------------------------------------------------------------------
(* Splitting the keys of an attribute.                                      *)

(* Depths counts the angle brackets that are open after each token. *)
LEMMA DepthsRun ==
    ASSUME NEW ts, IsSeq(ts)
    PROVE  /\ \A n \in 0 .. Len(ts) : Depths(ts)[n] \in Int
           /\ Depths(ts)[0] = 0
           /\ \A n \in 1 .. Len(ts) : Depths(ts)[n] = Depths(ts)[n - 1] + Openness(ts[n])
<1>0. PICK N \in Nat : N = Len(ts)
  BY IsSeqDomain
<1> DEFINE g == [p \in Int \X (1 .. N) |-> p[1] + Openness(ts[p[2]])]
           depth[n \in 0 .. N] == IF n = 0 THEN 0 ELSE depth[n - 1] + Openness(ts[n])
<1>1. \A tt : Openness(tt) \in Int
  BY DEF Openness
<1>2. g \in Steps(Int, N)
  BY <1>1 DEF Steps
<1> HIDE DEF g
<1>3. PICK f : IsRun(f, Int, 0, g, N)
  BY <1>2, RunExists
<1>4. /\ f \in [0 .. N -> Int] /\ f[0] = 0
      /\ \A n \in 1 .. N : f[n] = f[n - 1] + Openness(ts[n])
  <2>1. f \in [0 .. N -> Int] /\ f[0] = 0 /\ \A n \in 1 .. N : f[n] = g[<<f[n - 1], n>>]
    BY <1>3 DEF IsRun
  <2>2. \A n \in 1 .. N : <<f[n - 1], n>> \in Int \X (1 .. N)
    BY <2>1
  <2> QED
    BY <2>1, <2>2 DEF g
<1>5. f = [n \in 0 .. N |-> IF n = 0 THEN 0 ELSE f[n - 1] + Openness(ts[n])]
  <2>1. \A n \in 0 .. N : n = 0 \/ n \in 1 .. N
    OBVIOUS
  <2>2. \A n \in 0 .. N : f[n] = IF n = 0 THEN 0 ELSE f[n - 1] + Openness(ts[n])
    BY <1>4, <2>1
  <2> QED
    BY <1>4, <2>2
<1>6. depth = [n \in 0 .. N |-> IF n = 0 THEN 0 ELSE depth[n - 1] + Openness(ts[n])]
  BY <1>5
<1> HIDE DEF depth
<1>7. depth[0] = 0 /\ \A n \in 1 .. N : depth[n] = depth[n - 1] + Openness(ts[n])
  <2>1. 0 \in 0 .. N /\ \A n \in 1 .. N : n \in 0 .. N /\ n # 0
    OBVIOUS
  <2> QED
    BY <1>6, <2>1
<1>8. \A n \in 0 .. N : depth[n] = f[n]
  <2>1. depth[0] = f[0] /\ \A n \in 1 .. N : depth[n - 1] = f[n - 1] => depth[n] = f[n]
    BY <1>4, <1>7
  <2> QED
    BY <2>1, RunsAgree
<1>9. Depths(ts) = depth
  BY <1>0 DEF Depths, depth
<1> QED
  BY <1>0, <1>4, <1>7, <1>8, <1>9

-----------------------------------------------------------------------------
(* Reading the tokens of a one by one leads to acc. *)
Reading(a, acc) ==
    \E r : /\ r = [n \in 0 .. Len(a) |-> IF n = 0 THEN NothingRead ELSE Take(r[n - 1], a[n])]
           /\ r[Len(a)] = acc

(* split_top_level_keys starts with nothing read. *)
LEMMA ReadingStarts == Reading(<<>>, NothingRead)
<1>1. Len(<<>>) = 0
  BY EmptyAndSingle
<1> DEFINE r == [n \in 0 .. 0 |-> NothingRead]
<1>2. r = [n \in 0 .. 0 |-> IF n = 0 THEN NothingRead ELSE Take(r[n - 1], <<>>[n])] /\ r[0] = NothingRead
  OBVIOUS
<1> HIDE DEF r
<1> QED
  BY <1>1, <1>2 DEF Reading

(* Reading one token more is one Take. *)
LEMMA ReadingOn ==
    ASSUME NEW a, IsSeq(a), NEW acc, Reading(a, acc), NEW tt
    PROVE  Reading(Append(a, tt), Take(acc, tt))
<1>1. PICK b : b = Append(a, tt)
  OBVIOUS
<1>2. PICK N \in Nat : N = Len(a)
  BY IsSeqDomain
<1>3. IsSeq(b) /\ Len(b) = N + 1 /\ b[N + 1] = tt /\ \A i \in 1 .. N : b[i] = a[i]
  <2>1. /\ IsSeq(Append(a, tt)) /\ Len(Append(a, tt)) = Len(a) + 1
        /\ \A i \in 1 .. Len(a) : Append(a, tt)[i] = a[i]
        /\ Append(a, tt)[Len(a) + 1] = tt
    BY Appending
  <2> QED
    BY <1>1, <1>2, <2>1
<1>4. PICK r : /\ r = [n \in 0 .. N |-> IF n = 0 THEN NothingRead ELSE Take(r[n - 1], a[n])]
               /\ r[N] = acc
  BY <1>2 DEF Reading
<1> DEFINE h == [n \in 0 .. N + 1 |-> IF n = N + 1 THEN Take(acc, tt) ELSE r[n]]
<1>5. h[N + 1] = Take(acc, tt) /\ \A n \in 0 .. N : h[n] = r[n]
  OBVIOUS
<1>6. \A n \in 0 .. N + 1 : h[n] = IF n = 0 THEN NothingRead ELSE Take(h[n - 1], b[n])
  <2> HIDE DEF h
  <2>1. h[0] = NothingRead
    BY <1>4, <1>5
  <2>2. ASSUME NEW n \in 1 .. N
        PROVE  h[n] = Take(h[n - 1], b[n])
    <3>1. n \in 0 .. N /\ n - 1 \in 0 .. N /\ n # 0
      OBVIOUS
    <3>2. r[n] = Take(r[n - 1], a[n])
      BY <1>4, <3>1
    <3> QED
      BY <1>3, <1>5, <3>1, <3>2
  <2>3. h[N + 1] = Take(h[(N + 1) - 1], b[N + 1])
    BY <1>3, <1>4, <1>5
  <2>4. \A n \in 0 .. N + 1 : n = 0 \/ n \in 1 .. N \/ n = N + 1
    OBVIOUS
  <2> QED
    BY <2>1, <2>2, <2>3, <2>4
<1>7. h = [n \in 0 .. N + 1 |-> IF n = 0 THEN NothingRead ELSE Take(h[n - 1], b[n])]
  BY <1>6
<1> HIDE DEF h
<1>8. Reading(b, Take(acc, tt))
  BY <1>3, <1>5, <1>7 DEF Reading
<1> QED
  BY <1>1, <1>8

(* split_top_level_keys returns what it has read, the last key closed. *)
LEMMA ReadingEnds ==
    ASSUME NEW a, IsSeq(a), NEW acc, Reading(a, acc)
    PROVE  SplitTopLevelKeys(a) = Closed(acc)
<1>0. PICK N \in Nat : N = Len(a)
  BY IsSeqDomain
<1> DEFINE read[n \in 0 .. N] == IF n = 0 THEN NothingRead ELSE Take(read[n - 1], a[n])
<1>1. PICK r : /\ r = [n \in 0 .. N |-> IF n = 0 THEN NothingRead ELSE Take(r[n - 1], a[n])]
               /\ r[N] = acc
  BY <1>0 DEF Reading
<1>2. read = [n \in 0 .. N |-> IF n = 0 THEN NothingRead ELSE Take(read[n - 1], a[n])]
  BY <1>1
<1> HIDE DEF read
<1>3. /\ r[0] = NothingRead /\ read[0] = NothingRead
      /\ \A n \in 1 .. N : r[n] = Take(r[n - 1], a[n]) /\ read[n] = Take(read[n - 1], a[n])
  <2>1. 0 \in 0 .. N /\ \A n \in 1 .. N : n \in 0 .. N /\ n # 0
    OBVIOUS
  <2> QED
    BY <1>1, <1>2, <2>1
<1>4. \A n \in 0 .. N : r[n] = read[n]
  <2>1. r[0] = read[0] /\ \A n \in 1 .. N : r[n - 1] = read[n - 1] => r[n] = read[n]
    BY <1>3
  <2> HIDE <1>1
  <2> QED
    BY <2>1, RunsAgree
<1>5. SplitTopLevelKeys(a) = Closed(read[N])
  BY <1>0 DEF SplitTopLevelKeys, read
<1> QED
  BY <1>1, <1>4, <1>5

(* A comma opens and closes no bracket. *)
LEMMA CommaOpensNothing == Openness(Comma) = 0
<1>1. Punct("<").punct = "<" /\ Punct(">").punct = ">" /\ Comma.punct = ","
  BY DEF Punct, Comma
<1>2. Comma # Punct("<") /\ Comma # Punct(">")
  BY <1>1
<1> QED
  BY <1>2 DEF Openness

(* the state of reading inside a key *)
Within(ks, part, d) == [keys |-> ks, current |-> part, depth |-> d]

(* A token that does not end a key is added to the one being read. *)
LEMMA TakeInside ==
    ASSUME NEW ks, NEW part, NEW d \in Int, NEW tt, d >= 0, d + Openness(tt) >= 0,
           tt = Comma => d > 0
    PROVE  Take(Within(ks, part, d), tt) = Within(ks, Append(part, tt), d + Openness(tt))
<1>1. ~(tt = Comma /\ d = 0)
  OBVIOUS
<1>2. AngleDepth(d, tt) = d + Openness(tt)
  <2>1. Punct("<") # Punct(">")
    BY DEF Punct
  <2> QED
    BY <2>1 DEF AngleDepth, Openness
<1> QED
  BY <1>1, <1>2 DEF Take, Within

(* A key without a comma outside its brackets is read as one key. *)
LEMMA ReadingKey ==
    ASSUME NEW a, IsSeq(a), NEW ks, Reading(a, Within(ks, <<>>, 0)),
           NEW key, IsSeq(key), Enclosed(key)
    PROVE  IsSeq(a \o key) /\ Reading(a \o key, Within(ks, key, 0))
<1>1. PICK N \in Nat : N = Len(key) /\ DOMAIN key = 1 .. N
  BY IsSeqDomain
<1> DEFINE part(n) == SubSeq(key, 1, n)
           S == {n \in Nat : n <= N => Reading(a \o part(n), Within(ks, part(n), Depths(key)[n]))}
<1>2. /\ \A n \in 0 .. N : Depths(key)[n] \in Int /\ Depths(key)[n] >= 0
      /\ Depths(key)[0] = 0 /\ Depths(key)[N] = 0
      /\ \A n \in 1 .. N : /\ Depths(key)[n] = Depths(key)[n - 1] + Openness(key[n])
                           /\ key[n] = Comma => Depths(key)[n] > 0
  <2>1. /\ \A n \in 0 .. N : Depths(key)[n] \in Int
        /\ Depths(key)[0] = 0
        /\ \A n \in 1 .. N : Depths(key)[n] = Depths(key)[n - 1] + Openness(key[n])
    BY <1>1, DepthsRun
  <2>2. /\ Depths(key)[N] = 0
        /\ \A n \in 1 .. N : Depths(key)[n] >= 0 /\ (key[n] = Comma => Depths(key)[n] > 0)
    BY <1>1 DEF Enclosed
  <2>3. \A n \in 0 .. N : n = 0 \/ n \in 1 .. N
    OBVIOUS
  <2>4. \A n \in 0 .. N : Depths(key)[n] >= 0
    BY <2>1, <2>2, <2>3
  <2> QED
    BY <2>1, <2>2, <2>4
<1>3. /\ part(0) = <<>> /\ part(N) = key
      /\ \A n \in 0 .. N : IsSeq(part(n))
      /\ \A n \in 1 .. N : part(n) = Append(part(n - 1), key[n])
  BY <1>1, OneMore
<1> HIDE DEF part
<1>4. 0 \in S
  <2>1. a \o part(0) = a
    BY <1>3, EmptyAndSingle
  <2>2. Reading(a \o part(0), Within(ks, part(0), Depths(key)[0]))
    BY <1>2, <1>3, <2>1
  <2> QED
    BY <2>2
<1>5. ASSUME NEW n \in Nat, n \in S
      PROVE  n + 1 \in S
  <2>1. SUFFICES ASSUME n + 1 <= N
                 PROVE  Reading(a \o part(n + 1), Within(ks, part(n + 1), Depths(key)[n + 1]))
    OBVIOUS
  <2>2. PICK m \in 1 .. N : m = n + 1 /\ m - 1 = n
    BY <2>1
  <2>3. n \in 0 .. N /\ Reading(a \o part(n), Within(ks, part(n), Depths(key)[n]))
    BY <1>5, <2>1
  <2>4. part(m) = Append(part(n), key[m]) /\ IsSeq(part(n))
    BY <1>3, <2>2, <2>3
  <2>5. IsSeq(a \o part(n))
    BY <2>4, Concatenation
  <2>6. Reading(Append(a \o part(n), key[m]), Take(Within(ks, part(n), Depths(key)[n]), key[m]))
    BY <2>3, <2>5, ReadingOn
  <2>7. Take(Within(ks, part(n), Depths(key)[n]), key[m]) = Within(ks, part(m), Depths(key)[m])
    <3>1. Depths(key)[m] = Depths(key)[n] + Openness(key[m])
      BY <1>2, <2>2
    <3>2. Depths(key)[n] \in Int /\ Depths(key)[n] >= 0 /\ Depths(key)[m] >= 0
      BY <1>2, <2>2, <2>3
    <3>3. key[m] = Comma => Depths(key)[n] > 0
      <4>1. key[m] = Comma => Openness(key[m]) = 0
        BY CommaOpensNothing
      <4> QED
        BY <1>2, <2>2, <3>1, <3>2, <4>1
    <3>4. PICK d \in Int : d = Depths(key)[n]
      BY <3>2
    <3>5. Take(Within(ks, part(n), d), key[m]) = Within(ks, Append(part(n), key[m]), d + Openness(key[m]))
      <4>1. d >= 0 /\ d + Openness(key[m]) >= 0 /\ (key[m] = Comma => d > 0)
        BY <3>1, <3>2, <3>3, <3>4
      <4> QED
        BY <4>1, TakeInside
    <3> QED
      BY <2>4, <3>1, <3>4, <3>5
  <2>8. a \o part(m) = Append(a \o part(n), key[m])
    <3>1. IsSeq(<<key[m]>>)
      BY EmptyAndSingle
    <3>2. Append(part(n), key[m]) = part(n) \o <<key[m]>>
      BY <2>4, Appending
    <3>3. Append(a \o part(n), key[m]) = (a \o part(n)) \o <<key[m]>>
      BY <2>5, Appending
    <3>4. (a \o part(n)) \o <<key[m]>> = a \o (part(n) \o <<key[m]>>)
      BY <2>4, <3>1, Associative
    <3> QED
      BY <2>4, <3>2, <3>3, <3>4, Zenon
  <2> QED
    BY <2>2, <2>6, <2>7, <2>8
<1>6. N \in S
  <2> HIDE DEF S
  <2> QED
    BY <1>4, <1>5, SetInduction
<1>7. IsSeq(a \o key)
  BY Concatenation
<1> QED
  BY <1>2, <1>3, <1>6, <1>7

(* Splitting at the top-level commas gives back what was joined with commas.  *)
AreKeys(ks) == AllSeqs(ks) /\ \A k \in DOMAIN ks : Enclosed(ks[k])

(* Keys joined with commas are read back one by one, the last of them still *)
(* open.                                                                    *)
LEMMA ReadingKeys ==
    ASSUME NEW ks, AreKeys(ks)
    PROVE  /\ IsSeq(CommaJoin(ks))
           /\ ks = <<>> => Reading(CommaJoin(ks), NothingRead)
           /\ ks # <<>> => \E js, key : /\ key # <<>> /\ ks = Append(js, key)
                                        /\ Reading(CommaJoin(ks), Within(js, key, 0))
<1> DEFINE Goal(t) == /\ IsSeq(CommaJoin(t))
                      /\ t = <<>> => Reading(CommaJoin(t), NothingRead)
                      /\ t # <<>> => \E js, key : /\ key # <<>> /\ t = Append(js, key)
                                                  /\ Reading(CommaJoin(t), Within(js, key, 0))
           Good == {k \in ToSet(ks) : IsSeq(k) /\ Enclosed(k)}
           P == {t \in Seq(Good) : Goal(t)}
<1>1. IsSeq(<<Comma>>)
  BY EmptyAndSingle
<1>2. IsSeq(ks) /\ ks \in Seq(Good)
  <2>1. IsSeq(ks) /\ \A k \in DOMAIN ks : IsSeq(ks[k]) /\ Enclosed(ks[k])
    BY DEF AreKeys, AllSeqs
  <2>2. ToSet(ks) \subseteq Good
    BY <2>1 DEF ToSet
  <2> QED
    BY <2>1, <2>2, IsSeqDomain
<1>3. Goal(<<>>)
  <2>1. CommaJoin(<<>>) = <<>>
    BY JoinedEmpty DEF CommaJoin
  <2> QED
    BY <2>1, EmptyAndSingle, ReadingStarts
<1>4. ASSUME NEW t, IsSeq(t), NEW x, IsSeq(x), Enclosed(x), AllSeqs(t), Goal(t)
      PROVE  Goal(Append(t, x))
  <2>1. Append(t, x) # <<>>
    BY <1>4, Appending
  <2>2. x # <<>>
    BY <1>4 DEF Enclosed
  <2>3. CommaJoin(Append(t, x)) = IF t = <<>> THEN x ELSE (CommaJoin(t) \o <<Comma>>) \o x
    BY <1>1, <1>4, JoinedAppend DEF CommaJoin
  <2>4. CASE t = <<>>
    <3>1. NothingRead = Within(<<>>, <<>>, 0)
      BY DEF NothingRead, Within
    <3>2. IsSeq(<<>>) /\ <<>> \o x = x
      BY <1>4, EmptyAndSingle
    <3>3. Reading(<<>>, Within(<<>>, <<>>, 0))
      BY <3>1, ReadingStarts
    <3>4. Reading(<<>> \o x, Within(<<>>, x, 0))
      BY <1>4, <3>2, <3>3, ReadingKey
    <3>5. CommaJoin(Append(t, x)) = x /\ Reading(x, Within(t, x, 0))
      BY <2>3, <2>4, <3>2, <3>4, Zenon
    <3> QED
      BY <1>4, <2>1, <2>2, <3>5, Zenon
  <2>5. CASE t # <<>>
    <3>1. PICK js, key : key # <<>> /\ t = Append(js, key) /\ Reading(CommaJoin(t), Within(js, key, 0))
      BY <1>4, <2>5
    <3>2. Take(Within(js, key, 0), Comma) = Within(t, <<>>, 0)
      BY <3>1 DEF Take, Within, Closed
    <3>3. IsSeq(CommaJoin(t))
      BY <1>4
    <3>4. Reading(Append(CommaJoin(t), Comma), Within(t, <<>>, 0))
      <4>1. Reading(Append(CommaJoin(t), Comma), Take(Within(js, key, 0), Comma))
        BY <3>1, <3>3, ReadingOn
      <4> QED
        BY <3>2, <4>1
    <3>5. /\ Append(CommaJoin(t), Comma) = CommaJoin(t) \o <<Comma>>
          /\ IsSeq(CommaJoin(t) \o <<Comma>>)
      BY <1>1, <3>3, Appending, Concatenation
    <3>6. Reading(CommaJoin(t) \o <<Comma>>, Within(t, <<>>, 0))
      BY <3>4, <3>5, Zenon
    <3>7. /\ IsSeq((CommaJoin(t) \o <<Comma>>) \o x)
          /\ Reading((CommaJoin(t) \o <<Comma>>) \o x, Within(t, x, 0))
      <4>1. PICK a : a = CommaJoin(t) \o <<Comma>>
        OBVIOUS
      <4>2. IsSeq(a) /\ Reading(a, Within(t, <<>>, 0))
        BY <3>5, <3>6, <4>1, Zenon
      <4>3. IsSeq(a \o x) /\ Reading(a \o x, Within(t, x, 0))
        BY <1>4, <4>2, ReadingKey
      <4> QED
        BY <4>1, <4>3, Zenon
    <3>8. IsSeq(CommaJoin(Append(t, x))) /\ Reading(CommaJoin(Append(t, x)), Within(t, x, 0))
      BY <2>3, <2>5, <3>7, Zenon
    <3> QED
      BY <2>1, <2>2, <3>8, Zenon
  <2> QED
    BY <2>4, <2>5
<1>5. <<>> \in P
  BY <1>3, EmptySeq
<1>6. ASSUME NEW t \in Seq(Good), NEW x \in Good, t \in P
      PROVE  Append(t, x) \in P
  <2>1. IsSeq(t) /\ ToSet(t) \subseteq Good
    BY IsSeqOf
  <2>2. AllSeqs(t)
    BY <2>1 DEF AllSeqs, ToSet
  <2>3. IsSeq(x) /\ Enclosed(x) /\ Goal(t)
    BY <1>6
  <2> HIDE DEF Goal
  <2>4. Goal(Append(t, x))
    BY <1>4, <2>1, <2>2, <2>3
  <2>5. Append(t, x) \in Seq(Good)
    BY AppendProperties
  <2> QED
    BY <2>4, <2>5
<1>7. ks \in P
  <2> HIDE DEF P, Good
  <2> QED
    BY <1>2, <1>5, <1>6, SeqInduction
<1> QED
  BY <1>7

(* Splitting at the top-level commas gives back exactly what was joined     *)
(* with commas, whatever brackets and commas the keys contain.              *)
LEMMA SplittingTheJoined ==
    ASSUME NEW ks, AreKeys(ks)
    PROVE  SplitTopLevelKeys(CommaJoin(ks)) = ks
<1>1. IsSeq(CommaJoin(ks))
  BY ReadingKeys
<1>2. CASE ks = <<>>
  <2>1. Reading(CommaJoin(ks), NothingRead)
    BY <1>2, ReadingKeys
  <2>2. Closed(NothingRead) = <<>>
    BY DEF Closed, NothingRead
  <2> QED
    BY <1>1, <1>2, <2>1, <2>2, ReadingEnds
<1>3. CASE ks # <<>>
  <2>1. PICK js, key : key # <<>> /\ ks = Append(js, key) /\ Reading(CommaJoin(ks), Within(js, key, 0))
    BY <1>3, ReadingKeys
  <2>2. Closed(Within(js, key, 0)) = Append(js, key)
    BY <2>1 DEF Closed, Within
  <2>3. SplitTopLevelKeys(CommaJoin(ks)) = Closed(Within(js, key, 0))
    BY <1>1, <2>1, ReadingEnds
  <2> QED
    BY <2>1, <2>2, <2>3, Zenon
<1> QED
  BY <1>2, <1>3

Harmless(tt) == tt # Comma /\ Openness(tt) = 0

(* Identifiers, literals, groups and = neither separate nor open anything. *)
LEMMA HarmlessTokens ==
    /\ \A n : Harmless(Ident(n)) /\ Harmless(Number(n)) /\ Harmless(StringLit(n))
    /\ \A d, ts : Harmless(Group(d, ts))
    /\ Harmless(Punct("="))
<1>1. Punct("=") # Comma /\ Punct("=") # Punct("<") /\ Punct("=") # Punct(">")
  <2>1. Punct("=").punct = "=" /\ Punct("<").punct = "<" /\ Punct(">").punct = ">" /\ Comma.punct = ","
    BY DEF Punct, Comma
  <2> QED
    BY <2>1
<1>2. \A tt : "punct" \notin DOMAIN tt => tt # Comma /\ tt # Punct("<") /\ tt # Punct(">")
  <2>1. "punct" \in DOMAIN Punct("<") /\ "punct" \in DOMAIN Punct(">") /\ "punct" \in DOMAIN Comma
    BY DEF Comma, Punct
  <2> QED
    BY <2>1, Zenon
<1>3. /\ \A n : /\ "punct" \notin DOMAIN Ident(n) /\ "punct" \notin DOMAIN Number(n)
                /\ "punct" \notin DOMAIN StringLit(n)
      /\ \A d, ts : "punct" \notin DOMAIN Group(d, ts)
  BY DEF Ident, Number, StringLit, Group
<1>4. \A tt : tt # Comma /\ tt # Punct("<") /\ tt # Punct(">") => Harmless(tt)
  BY DEF Harmless, Openness
<1> QED
  BY <1>1, <1>2, <1>3, <1>4, Zenon

(* A harmless token in front of enclosed tokens leaves them enclosed. *)
LEMMA EnclosedAfter ==
    ASSUME NEW tt, Harmless(tt), NEW ts, IsSeq(ts), ts = <<>> \/ Enclosed(ts)
    PROVE  IsSeq(<<tt>> \o ts) /\ Enclosed(<<tt>> \o ts)
<1>1. PICK u : u = <<tt>> \o ts
  OBVIOUS
<1>2. PICK N \in Nat : N = Len(ts) /\ DOMAIN ts = 1 .. N
  BY IsSeqDomain
<1>3. /\ IsSeq(u) /\ Len(u) = N + 1 /\ DOMAIN u = 1 .. N + 1
      /\ u[1] = tt /\ \A i \in 1 .. N : u[i + 1] = ts[i]
  <2>1. IsSeq(<<tt>>) /\ Len(<<tt>>) = 1 /\ <<tt>>[1] = tt
    BY EmptyAndSingle
  <2>0. PICK o : o = <<tt>>
    OBVIOUS
  <2>2. /\ IsSeq(o \o ts) /\ Len(o \o ts) = Len(o) + Len(ts)
        /\ \A i \in 1 .. Len(o) : (o \o ts)[i] = o[i]
        /\ \A i \in 1 .. Len(ts) : (o \o ts)[Len(o) + i] = ts[i]
    <3>1. IsSeq(o)
      BY <2>0, <2>1
    <3> QED
      BY <3>1, Concatenation
  <2>3. /\ IsSeq(u) /\ Len(u) = Len(<<tt>>) + Len(ts)
        /\ \A i \in 1 .. Len(<<tt>>) : u[i] = <<tt>>[i]
        /\ \A i \in 1 .. Len(ts) : u[Len(<<tt>>) + i] = ts[i]
    BY <1>1, <2>0, <2>2, Zenon
  <2>4. Len(u) = 1 + N
    BY <1>2, <2>1, <2>3, Zenon
  <2>5. 1 \in 1 .. 1 /\ 1 + N = N + 1
    OBVIOUS
  <2>6. u[1] = tt
    BY <2>1, <2>3, <2>5, Zenon
  <2>7. \A i \in 1 .. N : u[1 + i] = ts[i]
    BY <1>2, <2>1, <2>3, Zenon
  <2> QED
    BY <2>3, <2>4, <2>5, <2>6, <2>7, IsSeqDomain
<1>4. /\ Depths(u)[0] = 0 /\ Depths(u)[1] = 0
      /\ \A n \in 1 .. N : Depths(u)[n + 1] = Depths(u)[n] + Openness(ts[n])
  <2>1. /\ Depths(u)[0] = 0
        /\ \A n \in 1 .. N + 1 : Depths(u)[n] = Depths(u)[n - 1] + Openness(u[n])
    BY <1>3, DepthsRun
  <2>2. Depths(u)[1] = 0
    <3>1. 1 \in 1 .. N + 1 /\ 1 - 1 = 0 /\ Openness(tt) = 0
      BY DEF Harmless
    <3> QED
      BY <1>3, <2>1, <3>1
  <2>3. ASSUME NEW n \in 1 .. N
        PROVE  Depths(u)[n + 1] = Depths(u)[n] + Openness(ts[n])
    <3>1. n + 1 \in 1 .. N + 1 /\ (n + 1) - 1 = n
      OBVIOUS
    <3> QED
      BY <1>3, <2>1, <3>1
  <2> QED
    BY <2>1, <2>2, <2>3
<1>5. \A n \in 0 .. N : Depths(u)[n + 1] = Depths(ts)[n]
  <2>1. /\ Depths(ts)[0] = 0
        /\ \A n \in 1 .. N : Depths(ts)[n] = Depths(ts)[n - 1] + Openness(ts[n])
    BY <1>2, DepthsRun
  <2>2. PICK f : f = [n \in 0 .. N |-> Depths(u)[n + 1]]
    OBVIOUS
  <2>3. \A n \in 0 .. N : f[n] = Depths(u)[n + 1]
    BY <2>2
  <2>4. f[0] = Depths(ts)[0]
    BY <1>4, <2>1, <2>3
  <2>5. ASSUME NEW n \in 1 .. N, f[n - 1] = Depths(ts)[n - 1]
        PROVE  f[n] = Depths(ts)[n]
    <3>1. n - 1 \in 0 .. N /\ (n - 1) + 1 = n /\ n \in 0 .. N
      OBVIOUS
    <3> QED
      BY <1>4, <2>1, <2>3, <2>5, <3>1
  <2>6. PICK d : d = Depths(ts)
    OBVIOUS
  <2>7. \A n \in 0 .. N : f[n] = d[n]
    <3>1. f[0] = d[0] /\ \A n \in 1 .. N : f[n - 1] = d[n - 1] => f[n] = d[n]
      BY <2>4, <2>5, <2>6
    <3> QED
      BY <3>1, RunsAgree
  <2> QED
    BY <2>3, <2>6, <2>7
<1>6. Enclosed(u)
  <2>1. u # <<>>
    BY <1>3, EmptyAndSingle
  <2>2. Depths(ts)[N] = 0 /\ \A n \in 1 .. N : Depths(ts)[n] >= 0 /\ (ts[n] = Comma => Depths(ts)[n] > 0)
    <3>1. CASE ts = <<>>
      <4>1. N = 0
        BY <1>2, <3>1, EmptyAndSingle
      <4> QED
        BY <1>2, <4>1, DepthsRun
    <3>2. CASE Enclosed(ts)
      BY <1>2, <3>2 DEF Enclosed
    <3> QED
      BY <3>1, <3>2
  <2>3. Depths(u)[N + 1] = 0
    BY <1>5, <2>2
  <2>4. ASSUME NEW n \in 1 .. N + 1
        PROVE  Depths(u)[n] >= 0 /\ (u[n] = Comma => Depths(u)[n] > 0)
    <3>1. CASE n = 1
      BY <1>3, <1>4, <3>1 DEF Harmless
    <3>2. CASE n # 1
      <4>1. PICK m \in 1 .. N : n = m + 1
        <5>1. n - 1 \in 1 .. N /\ n = (n - 1) + 1
          BY <3>2
        <5> QED
          BY <5>1
      <4>2. Depths(u)[m + 1] = Depths(ts)[m] /\ u[m + 1] = ts[m]
        BY <1>3, <1>5
      <4>3. Depths(ts)[m] >= 0 /\ (ts[m] = Comma => Depths(ts)[m] > 0)
        BY <2>2
      <4> QED
        BY <4>1, <4>2, <4>3, Zenon
    <3> QED
      BY <3>1, <3>2
  <2> QED
    BY <1>3, <2>1, <2>3, <2>4 DEF Enclosed
<1> QED
  BY <1>1, <1>3, <1>6

(* A harmless token alone is enclosed. *)
LEMMA EnclosedSingle ==
    ASSUME NEW tt, Harmless(tt)
    PROVE  IsSeq(<<tt>>) /\ Enclosed(<<tt>>)
<1>1. IsSeq(<<>>) /\ IsSeq(<<tt>>) /\ <<tt>> \o <<>> = <<tt>>
  BY EmptyAndSingle
<1>2. Enclosed(<<tt>> \o <<>>)
  BY <1>1, EnclosedAfter
<1> QED
  BY <1>1, <1>2, Zenon

(* Two harmless tokens in front of enclosed ones leave them enclosed. *)
LEMMA EnclosedPair ==
    ASSUME NEW tt, Harmless(tt), NEW uu, Harmless(uu), NEW ts, IsSeq(ts), ts = <<>> \/ Enclosed(ts)
    PROVE  IsSeq(<<tt, uu>> \o ts) /\ Enclosed(<<tt, uu>> \o ts)
<1>1. IsSeq(<<uu>> \o ts) /\ Enclosed(<<uu>> \o ts)
  BY EnclosedAfter
<1>2. IsSeq(<<tt>> \o (<<uu>> \o ts)) /\ Enclosed(<<tt>> \o (<<uu>> \o ts))
  <2>1. PICK u : u = <<uu>> \o ts
    OBVIOUS
  <2>2. IsSeq(<<tt>> \o u) /\ Enclosed(<<tt>> \o u)
    BY <1>1, <2>1, EnclosedAfter
  <2> QED
    BY <2>1, <2>2, Zenon
<1>3. <<tt, uu>> \o ts = <<tt>> \o (<<uu>> \o ts)
  <2>1. IsSeq(<<tt>>) /\ IsSeq(<<uu>>)
    BY EmptyAndSingle
  <2>2. <<tt, uu>> = <<tt>> \o <<uu>>
    OBVIOUS
  <2>3. (<<tt>> \o <<uu>>) \o ts = <<tt>> \o (<<uu>> \o ts)
    BY <2>1, Associative
  <2> QED
    BY <2>2, <2>3, Zenon
<1> QED
  BY <1>2, <1>3, Zenon

(* name = tokens and name(tokens) are keys without a comma outside          *)
(* brackets.                                                                *)
LEMMA EnclosedKeys ==
    /\ \A name, ts : IsSeq(ts) /\ Enclosed(ts) => /\ IsSeq(Assign(name, ts)) /\ Enclosed(Assign(name, ts))
    /\ \A name, ts : IsSeq(Call(name, ts)) /\ Enclosed(Call(name, ts))
<1>1. ASSUME NEW name, NEW ts, IsSeq(ts), Enclosed(ts)
      PROVE  IsSeq(Assign(name, ts)) /\ Enclosed(Assign(name, ts))
  <2>1. Harmless(Ident(name)) /\ Harmless(Punct("="))
    BY HarmlessTokens
  <2> QED
    BY <1>1, <2>1, EnclosedPair DEF Assign
<1>2. ASSUME NEW name, NEW ts
      PROVE  IsSeq(Call(name, ts)) /\ Enclosed(Call(name, ts))
  <2>1. Harmless(Ident(name)) /\ Harmless(Paren(ts))
    BY HarmlessTokens DEF Paren
  <2>2. IsSeq(<<>>)
    BY EmptyAndSingle
  <2>3. /\ IsSeq(<<Ident(name), Paren(ts)>> \o <<>>) /\ Enclosed(<<Ident(name), Paren(ts)>> \o <<>>)
    BY <2>1, <2>2, EnclosedPair
  <2>4. <<Ident(name), Paren(ts)>> \o <<>> = <<Ident(name), Paren(ts)>>
    OBVIOUS
  <2> QED
    BY <2>3, <2>4, Zenon DEF Call
<1> QED
  BY <1>1, <1>2

-----------------------------------------------------------------------------
(* Reading the keys of a handler's attribute.                               *)

(* Kept of a longer sequence, when the places are those of a test. *)
LEMMA KeptOn ==
    ASSUME NEW s, IsSeq(s), NEW x, NEW I, NEW J, \A k \in DOMAIN s : k \in J <=> k \in I
    PROVE  Kept(Append(s, x), J) = IF Len(s) + 1 \in J THEN Append(Kept(s, I), x) ELSE Kept(s, I)
<1>1. Kept(s, J) = Kept(s, I)
  <2>1. DOMAIN s = 1 .. Len(s)
    BY IsSeqDomain
  <2> QED
    BY <2>1, KeptSame
<1>2. Kept(Append(s, x), J) = IF Len(s) + 1 \in J THEN Append(Kept(s, J), x) ELSE Kept(s, J)
  BY KeptAppend
<1> QED
  BY <1>1, <1>2, Zenon

(* The first element kept of a longer sequence is the one kept before, if   *)
(* there was one.                                                           *)
LEMMA FirstKeptOn ==
    ASSUME NEW s, IsSeq(s), NEW x, NEW I, NEW J, \A k \in DOMAIN s : k \in J <=> k \in I
    PROVE  FirstKept(Append(s, x), J) =
              IF FirstKept(s, I) # <<>> THEN FirstKept(s, I)
              ELSE IF Len(s) + 1 \in J THEN <<x>> ELSE <<>>
<1>1. Kept(Append(s, x), J) = IF Len(s) + 1 \in J THEN Append(Kept(s, I), x) ELSE Kept(s, I)
  BY KeptOn
<1>2. PICK q : q = Kept(s, I)
  OBVIOUS
<1>3. IsSeq(q)
  BY <1>2, KeptElements
<1>4. Append(q, x) # <<>> /\ Append(q, x)[1] = IF q = <<>> THEN x ELSE q[1]
  <2>1. /\ \A i \in 1 .. Len(q) : Append(q, x)[i] = q[i]
        /\ Append(q, x)[Len(q) + 1] = x /\ Append(q, x) # <<>>
    BY <1>3, Appending
  <2>2. Len(q) \in Nat /\ (Len(q) = 0 <=> q = <<>>)
    BY <1>3, IsSeqDomain, EmptyAndSingle
  <2>3. CASE q = <<>>
    <3>1. Len(q) + 1 = 1
      BY <2>2, <2>3
    <3> QED
      BY <2>1, <2>3, <3>1, Zenon
  <2>4. CASE q # <<>>
    <3>1. 1 \in 1 .. Len(q)
      BY <2>2, <2>4
    <3> QED
      BY <2>1, <2>4, <3>1, Zenon
  <2> QED
    BY <2>3, <2>4
<1>5. \A y : <<y>> # <<>>
  OBVIOUS
<1>6. FirstKept(s, I) = IF q = <<>> THEN <<>> ELSE <<q[1]>>
  BY <1>2, Zenon DEF FirstKept
<1>7. PICK t : t = Kept(Append(s, x), J)
  OBVIOUS
<1>8. FirstKept(Append(s, x), J) = IF t = <<>> THEN <<>> ELSE <<t[1]>>
  BY <1>7, Zenon DEF FirstKept
<1>9. t = IF Len(s) + 1 \in J THEN Append(q, x) ELSE q
  BY <1>1, <1>2, <1>7, Zenon
<1>10. CASE Len(s) + 1 \in J
  <2>1. t = Append(q, x)
    BY <1>9, <1>10
  <2> QED
    BY <1>4, <1>5, <1>6, <1>8, <1>10, <2>1, Zenon
<1>11. CASE Len(s) + 1 \notin J
  <2>1. t = q
    BY <1>9, <1>11
  <2> QED
    BY <1>5, <1>6, <1>8, <1>11, <2>1, Zenon
<1> QED
  BY <1>10, <1>11

-----------------------------------------------------------------------------
(* No key is found among none. *)
LEMMA NoKey ==
    /\ \A name : FindKey(<<>>, name) = <<>>
    /\ PassThrough(<<>>) = <<>>
<1>1. \A I : Kept(<<>>, I) = <<>>
  BY KeptEmpty
<1> QED
  BY <1>1 DEF FindKey, FirstKept, PassThrough

(* What find_key and pass_through find when one more key is written. *)
LEMMA OneMoreKey ==
    ASSUME NEW ks, IsSeq(ks), NEW key
    PROVE  /\ \A name : FindKey(Append(ks, key), name) =
                 IF FindKey(ks, name) # <<>> THEN FindKey(ks, name)
                 ELSE IF KeyName(key) = name THEN <<key>> ELSE <<>>
           /\ PassThrough(Append(ks, key)) =
                 IF KeyName(key) \notin {"request_body", "responses", "params"}
                 THEN Append(PassThrough(ks), key) ELSE PassThrough(ks)
<1>1. PICK t : t = Append(ks, key)
  OBVIOUS
<1>2. PICK n : n = Len(ks) + 1
  OBVIOUS
<1>3. /\ DOMAIN t = DOMAIN ks \union {n} /\ n \notin DOMAIN ks /\ t[n] = key
      /\ \A k \in DOMAIN ks : t[k] = ks[k]
  <2>1. /\ DOMAIN Append(ks, key) = DOMAIN ks \union {Len(ks) + 1}
        /\ Len(ks) + 1 \notin DOMAIN ks
        /\ \A k \in DOMAIN ks : Append(ks, key)[k] = ks[k]
        /\ Append(ks, key)[Len(ks) + 1] = key
    BY DomainOfAppend, Appending
  <2> QED
    BY <1>1, <1>2, <2>1, Zenon
<1>4. ASSUME NEW name
      PROVE  FindKey(t, name) = IF FindKey(ks, name) # <<>> THEN FindKey(ks, name)
                                ELSE IF KeyName(key) = name THEN <<key>> ELSE <<>>
  <2> DEFINE I == {k \in DOMAIN ks : KeyName(ks[k]) = name}
             J == {k \in DOMAIN t : KeyName(t[k]) = name}
  <2>1. \A k \in DOMAIN ks : k \in J <=> k \in I
    BY <1>3
  <2>2. n \in J <=> KeyName(key) = name
    BY <1>3
  <2>3. FindKey(t, name) = FirstKept(t, J) /\ FindKey(ks, name) = FirstKept(ks, I)
    BY DEF FindKey
  <2> HIDE DEF I, J
  <2>4. FirstKept(Append(ks, key), J) =
              IF FirstKept(ks, I) # <<>> THEN FirstKept(ks, I)
              ELSE IF Len(ks) + 1 \in J THEN <<key>> ELSE <<>>
    BY <2>1, FirstKeptOn
  <2> QED
    BY <1>1, <1>2, <2>2, <2>3, <2>4, Zenon
<1>5. PassThrough(t) = IF KeyName(key) \notin {"request_body", "responses", "params"}
                       THEN Append(PassThrough(ks), key) ELSE PassThrough(ks)
  <2> DEFINE I == {k \in DOMAIN ks : KeyName(ks[k]) \notin {"request_body", "responses", "params"}}
             J == {k \in DOMAIN t : KeyName(t[k]) \notin {"request_body", "responses", "params"}}
  <2>1. \A k \in DOMAIN ks : k \in J <=> k \in I
    BY <1>3
  <2>2. n \in J <=> KeyName(key) \notin {"request_body", "responses", "params"}
    BY <1>3
  <2>3. PassThrough(t) = Kept(t, J) /\ PassThrough(ks) = Kept(ks, I)
    BY DEF PassThrough
  <2> HIDE DEF I, J
  <2>4. Kept(Append(ks, key), J) = IF Len(ks) + 1 \in J THEN Append(Kept(ks, I), key) ELSE Kept(ks, I)
    BY <2>1, KeptOn
  <2> QED
    BY <1>1, <1>2, <2>2, <2>3, <2>4, Zenon
<1> QED
  BY <1>1, <1>4, <1>5, Zenon

(* options *)
LEMMA OptionCases ==
    ASSUME NEW o, IsOption(o)
    PROVE  /\ IsSeq(o) /\ (o = <<>> \/ o = <<o[1]>>)
           /\ o # <<>> => DOMAIN o = {1}
<1>1. IsSeq(o) /\ Len(o) <= 1 /\ Len(o) \in Nat /\ DOMAIN o = 1 .. Len(o)
  BY IsSeqDomain DEF IsOption
<1>2. CASE Len(o) = 0
  BY <1>1, <1>2, EmptyAndSingle
<1>3. CASE Len(o) = 1
  <2>1. PICK x : x = o[1]
    OBVIOUS
  <2>2. IsSeq(<<x>>) /\ Len(<<x>>) = 1 /\ <<x>>[1] = x
    BY EmptyAndSingle
  <2>3. o = <<x>>
    <3>1. PICK p : p = <<x>>
      OBVIOUS
    <3>2. \A i \in 1 .. Len(o) : o[i] = p[i]
      BY <1>3, <2>1, <2>2, <3>1
    <3>3. IsSeq(p) /\ Len(o) = Len(p)
      BY <1>3, <2>2, <3>1
    <3> QED
      BY <1>1, <3>1, <3>2, <3>3, SameSeq
  <2> QED
    BY <1>1, <1>3, <2>1, <2>3
<1> QED
  BY <1>1, <1>2, <1>3

(* what is written for an option *)
LEMMA OptionMapped ==
    ASSUME NEW o, IsOption(o), NEW f, Over(f, DOMAIN o)
    PROVE  IsOption(f) /\ f = IF o = <<>> THEN <<>> ELSE <<f[1]>>
<1>1. IsSeq(o) /\ Len(o) <= 1 /\ Len(o) \in Nat /\ (Len(o) = 0 <=> o = <<>>)
  BY IsSeqDomain, EmptyAndSingle DEF IsOption
<1>2. IsSeq(f) /\ Len(f) = Len(o)
  BY <1>1, OverPlaces
<1>3. IsOption(f) /\ (f = <<>> <=> o = <<>>)
  BY <1>1, <1>2, EmptyAndSingle DEF IsOption
<1> QED
  BY <1>3, OptionCases

(* The same for a key that may be there. *)
LEMMA KeysAndOption ==
    ASSUME NEW ks, IsSeq(ks), NEW o, IsOption(o)
    PROVE  /\ IsSeq(ks \o o)
           /\ \A name : FindKey(ks \o o, name) =
                 IF FindKey(ks, name) # <<>> THEN FindKey(ks, name)
                 ELSE IF o # <<>> /\ KeyName(o[1]) = name THEN o ELSE <<>>
           /\ PassThrough(ks \o o) =
                 IF o # <<>> /\ KeyName(o[1]) \notin {"request_body", "responses", "params"}
                 THEN PassThrough(ks) \o o ELSE PassThrough(ks)
           /\ AreKeys(ks) /\ (o # <<>> => IsSeq(o[1]) /\ Enclosed(o[1])) => AreKeys(ks \o o)
<1>1. IsSeq(o) /\ (o = <<>> \/ o = <<o[1]>>)
  BY OptionCases
<1>2. CASE o = <<>>
  <2>1. ks \o o = ks
    BY <1>2, EmptyAndSingle
  <2> QED
    BY <1>2, <2>1, Zenon
<1>3. CASE o # <<>>
  <2>1. PICK x : x = o[1] /\ o = <<x>>
    BY <1>1, <1>3
  <2>2. ks \o <<x>> = Append(ks, x) /\ IsSeq(Append(ks, x))
    BY Appending
  <2>3. ks \o o = Append(ks, x)
    BY <2>1, <2>2, Zenon
  <2>4. IsSeq(PassThrough(ks))
    BY KeptElements DEF PassThrough
  <2>5. Append(PassThrough(ks), x) = PassThrough(ks) \o <<x>>
    BY <2>4, Appending
  <2>6. Append(PassThrough(ks), x) = PassThrough(ks) \o o
    BY <2>1, <2>5, Zenon
  <2>7. \A name : FindKey(Append(ks, x), name) =
                 IF FindKey(ks, name) # <<>> THEN FindKey(ks, name)
                 ELSE IF KeyName(x) = name THEN o ELSE <<>>
    BY <2>1, OneMoreKey
  <2>8. PassThrough(Append(ks, x)) =
                 IF KeyName(x) \notin {"request_body", "responses", "params"}
                 THEN PassThrough(ks) \o o ELSE PassThrough(ks)
    BY <2>6, OneMoreKey
  <2>9. AreKeys(ks) /\ IsSeq(x) /\ Enclosed(x) => AreKeys(Append(ks, x))
    <3> SUFFICES ASSUME AreKeys(ks), IsSeq(x), Enclosed(x)
                 PROVE  AreKeys(Append(ks, x))
      OBVIOUS
    <3>1. PICK t : t = Append(ks, x)
      OBVIOUS
    <3>2. /\ IsSeq(t) /\ DOMAIN t = DOMAIN ks \union {Len(ks) + 1}
          /\ t[Len(ks) + 1] = x /\ \A k \in DOMAIN ks : t[k] = ks[k]
      BY <2>2, <3>1, DomainOfAppend, Appending
    <3>3. \A k \in DOMAIN ks : IsSeq(ks[k]) /\ Enclosed(ks[k])
      BY DEF AreKeys, AllSeqs
    <3>4. \A k \in DOMAIN t : IsSeq(t[k]) /\ Enclosed(t[k])
      BY <3>2, <3>3
    <3>5. AreKeys(t)
      BY <3>2, <3>4 DEF AreKeys, AllSeqs
    <3> QED
      BY <3>1, <3>5
  <2> QED
    BY <1>3, <2>1, <2>2, <2>3, <2>7, <2>8, <2>9, Zenon
<1> QED
  BY <1>2, <1>3, Zenon

(* The parts of a key written name = tokens. *)
LEMMA AssignParts ==
    ASSUME NEW name, NEW ts, IsSeq(ts)
    PROVE  /\ Assign(name, ts)[1] = Ident(name) /\ Assign(name, ts)[2] = Punct("=")
           /\ KeyName(Assign(name, ts)) = name
           /\ IsSeq(Assign(name, ts)) /\ Len(Assign(name, ts)) = Len(ts) + 2
           /\ \A k \in 1 .. Len(ts) : Assign(name, ts)[k + 2] = ts[k]
           /\ SubSeq(Assign(name, ts), 3, Len(Assign(name, ts))) = ts
<1>1. PICK o : o = <<Ident(name), Punct("=")>>
  OBVIOUS
<1>2. o \in Seq({Ident(name), Punct("=")}) /\ Len(o) = 2 /\ o[1] = Ident(name) /\ o[2] = Punct("=")
  BY <1>1
<1>3. IsSeq(o)
  BY <1>2, IsSeqOf
<1>4. PICK u : u = o \o ts
  OBVIOUS
<1>5. PICK N \in Nat : N = Len(ts)
  BY IsSeqDomain
<1>6. /\ IsSeq(u) /\ Len(u) = N + 2 /\ u[1] = Ident(name) /\ u[2] = Punct("=")
      /\ \A k \in 1 .. N : u[k + 2] = ts[k]
  <2>1. /\ IsSeq(o \o ts) /\ Len(o \o ts) = Len(o) + Len(ts)
        /\ \A i \in 1 .. Len(o) : (o \o ts)[i] = o[i]
        /\ \A i \in 1 .. Len(ts) : (o \o ts)[Len(o) + i] = ts[i]
    BY <1>3, Concatenation
  <2>2. /\ IsSeq(u) /\ Len(u) = Len(o) + Len(ts)
        /\ \A i \in 1 .. Len(o) : u[i] = o[i]
        /\ \A i \in 1 .. Len(ts) : u[Len(o) + i] = ts[i]
    BY <1>4, <2>1, Zenon
  <2>3. 1 \in 1 .. 2 /\ 2 \in 1 .. 2 /\ 2 + N = N + 2 /\ \A k \in 1 .. N : 2 + k = k + 2
    OBVIOUS
  <2>4. \A k \in 1 .. N : u[k + 2] = ts[k]
    BY <1>2, <1>5, <2>2, <2>3
  <2> QED
    BY <1>2, <1>5, <2>2, <2>3, <2>4, Zenon
<1>7. Assign(name, ts) = u
  BY <1>1, <1>4, Zenon DEF Assign
<1>8. SubSeq(u, 3, N + 2) = ts
  <2>1. \A i \in 3 .. N + 2 : u[i] \in ToSet(ts)
    <3> SUFFICES ASSUME NEW i \in 3 .. N + 2
                 PROVE  u[i] \in ToSet(ts)
      OBVIOUS
    <3>1. i - 2 \in 1 .. N /\ i = (i - 2) + 2
      OBVIOUS
    <3>2. u[i] = ts[i - 2] /\ i - 2 \in DOMAIN ts
      BY <1>5, <1>6, <3>1, IsSeqDomain
    <3> QED
      BY <3>2 DEF ToSet
  <2>2. PICK v : v = SubSeq(u, 3, N + 2)
    OBVIOUS
  <2>3. /\ v \in Seq(ToSet(ts))
        /\ Len(v) = IF 3 <= N + 2 THEN (N + 2) - 3 + 1 ELSE 0
        /\ \A i \in 1 .. (N + 2) - 3 + 1 : v[i] = u[3 + i - 1]
    BY <2>1, <2>2, SubSeqProperties
  <2>4. Len(v) = N
    BY <2>3
  <2>5. ASSUME NEW i \in 1 .. N
        PROVE  v[i] = ts[i]
    <3>1. i \in 1 .. (N + 2) - 3 + 1 /\ 3 + i - 1 = i + 2
      OBVIOUS
    <3> QED
      BY <1>6, <2>3, <3>1
  <2>6. IsSeq(v)
    BY <2>3, IsSeqOf
  <2>7. v = ts
    BY <1>5, <2>4, <2>5, <2>6, SameSeq
  <2> QED
    BY <2>2, <2>7
<1>9. KeyName(u) = name
  BY <1>6 DEF KeyName, IsIdent, Ident
<1> QED
  BY <1>5, <1>6, <1>7, <1>8, <1>9, Zenon

(* The parts of a key written name(tokens). *)
LEMMA CallParts ==
    ASSUME NEW name, NEW ts
    PROVE  /\ KeyName(Call(name, ts)) = name /\ GroupInnerTokens(Call(name, ts)) = <<ts>>
           /\ Len(Call(name, ts)) = 2 /\ Call(name, ts)[1] = Ident(name) /\ Call(name, ts)[2].of = ts
<1>1. Len(Call(name, ts)) = 2 /\ Call(name, ts)[1] = Ident(name) /\ Call(name, ts)[2] = Paren(ts)
  BY DEF Call
<1>2. IsIdent(Ident(name)) /\ Ident(name).ident = name
  BY DEF IsIdent, Ident
<1>3. IsGroup(Paren(ts)) /\ Paren(ts).of = ts
  BY DEF IsGroup, Paren, Group
<1> QED
  BY <1>1, <1>2, <1>3 DEF KeyName, GroupInnerTokens

-----------------------------------------------------------------------------
(* The keys of an attribute, as they are written. *)
BodyKey(h) == [k \in DOMAIN h.body |-> Assign("request_body", TypeTokens(h.body[k]))]
ResponsesKey(h) ==
    [k \in DOMAIN h.responses |->
        Call("responses", CommaJoin([j \in DOMAIN h.responses[k] |-> WrittenEntry(h.responses[k][j])]))]
ParamsKey(h) == [k \in DOMAIN h.params |-> Call("params", CommaJoin(h.params[k]))]
WrittenKeys(h) == <<PathKey(h)>> \o BodyKey(h) \o ResponsesKey(h) \o SecurityKey(h) \o ParamsKey(h)

(* Each key of an attribute is written exactly if the handler gives what it *)
(* is for, has the name the macros look for, and no comma outside brackets. *)
LEMMA TheOptionalKeys ==
    ASSUME NEW h, HandlerWritten(h)
    PROVE  /\ /\ IsOption(BodyKey(h)) /\ (BodyKey(h) = <<>> <=> h.body = <<>>)
              /\ BodyKey(h) # <<>> => /\ BodyKey(h) = <<Assign("request_body", TypeTokens(h.body[1]))>>
                                      /\ KeyName(BodyKey(h)[1]) = "request_body"
                                      /\ IsSeq(BodyKey(h)[1]) /\ Enclosed(BodyKey(h)[1])
           /\ /\ IsOption(ResponsesKey(h)) /\ (ResponsesKey(h) = <<>> <=> h.responses = <<>>)
              /\ ResponsesKey(h) # <<>> =>
                    /\ ResponsesKey(h) =
                          <<Call("responses", CommaJoin([j \in DOMAIN h.responses[1] |->
                                                            WrittenEntry(h.responses[1][j])]))>>
                    /\ KeyName(ResponsesKey(h)[1]) = "responses"
                    /\ IsSeq(ResponsesKey(h)[1]) /\ Enclosed(ResponsesKey(h)[1])
           /\ /\ IsOption(SecurityKey(h)) /\ (SecurityKey(h) # <<>> <=> h.secured)
              /\ SecurityKey(h) # <<>> => /\ KeyName(SecurityKey(h)[1]) = "security"
                                          /\ SecurityKey(h) = <<Call("security", <<Paren(BearerAuth)>>)>>
                                          /\ IsSeq(SecurityKey(h)[1]) /\ Enclosed(SecurityKey(h)[1])
           /\ /\ IsOption(ParamsKey(h)) /\ (ParamsKey(h) = <<>> <=> h.params = <<>>)
              /\ ParamsKey(h) # <<>> => /\ ParamsKey(h) = <<Call("params", CommaJoin(h.params[1]))>>
                                        /\ KeyName(ParamsKey(h)[1]) = "params"
                                        /\ IsSeq(ParamsKey(h)[1]) /\ Enclosed(ParamsKey(h)[1])
           /\ KeyName(PathKey(h)) = "path" /\ IsSeq(PathKey(h)) /\ Enclosed(PathKey(h))
<1>1. IsOption(h.body) /\ IsOption(h.responses) /\ IsOption(h.params) /\ h.secured \in BOOLEAN
  BY DEF HandlerWritten
<1>2. \A y : <<y>> # <<>> /\ <<y>>[1] = y
  OBVIOUS
<1>3. /\ IsOption(BodyKey(h)) /\ (BodyKey(h) = <<>> <=> h.body = <<>>)
      /\ BodyKey(h) # <<>> => /\ BodyKey(h) = <<Assign("request_body", TypeTokens(h.body[1]))>>
                              /\ KeyName(BodyKey(h)[1]) = "request_body"
                              /\ IsSeq(BodyKey(h)[1]) /\ Enclosed(BodyKey(h)[1])
  <2>1. Over(BodyKey(h), DOMAIN h.body)
    BY Zenon DEF Over, BodyKey
  <2>2. IsOption(BodyKey(h)) /\ BodyKey(h) = IF h.body = <<>> THEN <<>> ELSE <<BodyKey(h)[1]>>
    BY <1>1, <2>1, OptionMapped
  <2>3. ASSUME h.body # <<>>
        PROVE  /\ BodyKey(h)[1] = Assign("request_body", TypeTokens(h.body[1]))
               /\ IsSeq(TypeTokens(h.body[1])) /\ Enclosed(TypeTokens(h.body[1]))
    <3>1. 1 \in DOMAIN h.body
      BY <1>1, <2>3, OptionCases
    <3>2. BodyKey(h)[1] = Assign("request_body", TypeTokens(h.body[1]))
      BY <3>1, Zenon DEF BodyKey
    <3>3. GoodType(h.body[1])
      BY <3>1 DEF HandlerWritten
    <3> QED
      BY <3>2, <3>3 DEF GoodType
  <2>4. h.body # <<>> => /\ KeyName(BodyKey(h)[1]) = "request_body"
                         /\ IsSeq(BodyKey(h)[1]) /\ Enclosed(BodyKey(h)[1])
    BY <2>3, AssignParts, EnclosedKeys
  <2> QED
    BY <1>2, <2>2, <2>3, <2>4, Zenon
<1>4. /\ IsOption(ResponsesKey(h)) /\ (ResponsesKey(h) = <<>> <=> h.responses = <<>>)
      /\ ResponsesKey(h) # <<>> =>
            /\ ResponsesKey(h) =
                  <<Call("responses", CommaJoin([j \in DOMAIN h.responses[1] |->
                                                    WrittenEntry(h.responses[1][j])]))>>
            /\ KeyName(ResponsesKey(h)[1]) = "responses"
            /\ IsSeq(ResponsesKey(h)[1]) /\ Enclosed(ResponsesKey(h)[1])
  <2>1. Over(ResponsesKey(h), DOMAIN h.responses)
    BY Zenon DEF Over, ResponsesKey
  <2>2. IsOption(ResponsesKey(h)) /\ ResponsesKey(h) = IF h.responses = <<>> THEN <<>> ELSE <<ResponsesKey(h)[1]>>
    BY <1>1, <2>1, OptionMapped
  <2>3. h.responses # <<>> =>
           ResponsesKey(h)[1] = Call("responses", CommaJoin([j \in DOMAIN h.responses[1] |->
                                                               WrittenEntry(h.responses[1][j])]))
    <3>1. h.responses # <<>> => 1 \in DOMAIN h.responses
      BY <1>1, OptionCases
    <3> QED
      BY <3>1, Zenon DEF ResponsesKey
  <2>4. h.responses # <<>> => /\ KeyName(ResponsesKey(h)[1]) = "responses"
                              /\ IsSeq(ResponsesKey(h)[1]) /\ Enclosed(ResponsesKey(h)[1])
    <3>1. \A ts : /\ KeyName(Call("responses", ts)) = "responses"
                  /\ IsSeq(Call("responses", ts)) /\ Enclosed(Call("responses", ts))
      BY CallParts, EnclosedKeys
    <3> QED
      BY <2>3, <3>1, Zenon
  <2> QED
    BY <1>2, <2>2, <2>3, <2>4, Zenon
<1>5. /\ IsOption(SecurityKey(h)) /\ (SecurityKey(h) # <<>> <=> h.secured)
      /\ SecurityKey(h) # <<>> => /\ KeyName(SecurityKey(h)[1]) = "security"
                                  /\ SecurityKey(h) = <<Call("security", <<Paren(BearerAuth)>>)>>
                                  /\ IsSeq(SecurityKey(h)[1]) /\ Enclosed(SecurityKey(h)[1])
  <2>1. PICK c : c = Call("security", <<Paren(BearerAuth)>>)
    OBVIOUS
  <2>2. KeyName(c) = "security" /\ IsSeq(c) /\ Enclosed(c)
    BY <2>1, CallParts, EnclosedKeys, Zenon
  <2>3. IsOption(<<>>) /\ IsOption(<<c>>)
    BY EmptyAndSingle DEF IsOption
  <2>4. SecurityKey(h) = IF h.secured THEN <<c>> ELSE <<>>
    BY <2>1 DEF SecurityKey
  <2> QED
    BY <1>1, <1>2, <2>1, <2>2, <2>3, <2>4, Zenon
<1>6. /\ IsOption(ParamsKey(h)) /\ (ParamsKey(h) = <<>> <=> h.params = <<>>)
      /\ ParamsKey(h) # <<>> => /\ ParamsKey(h) = <<Call("params", CommaJoin(h.params[1]))>>
                                /\ KeyName(ParamsKey(h)[1]) = "params"
                                /\ IsSeq(ParamsKey(h)[1]) /\ Enclosed(ParamsKey(h)[1])
  <2>1. Over(ParamsKey(h), DOMAIN h.params)
    BY Zenon DEF Over, ParamsKey
  <2>2. IsOption(ParamsKey(h)) /\ ParamsKey(h) = IF h.params = <<>> THEN <<>> ELSE <<ParamsKey(h)[1]>>
    BY <1>1, <2>1, OptionMapped
  <2>3. h.params # <<>> => ParamsKey(h)[1] = Call("params", CommaJoin(h.params[1]))
    <3>1. h.params # <<>> => 1 \in DOMAIN h.params
      BY <1>1, OptionCases
    <3> QED
      BY <3>1, Zenon DEF ParamsKey
  <2>4. h.params # <<>> => /\ KeyName(ParamsKey(h)[1]) = "params"
                           /\ IsSeq(ParamsKey(h)[1]) /\ Enclosed(ParamsKey(h)[1])
    <3>1. \A ts : /\ KeyName(Call("params", ts)) = "params"
                  /\ IsSeq(Call("params", ts)) /\ Enclosed(Call("params", ts))
      BY CallParts, EnclosedKeys
    <3> QED
      BY <2>3, <3>1, Zenon
  <2> QED
    BY <1>2, <2>2, <2>3, <2>4, Zenon
<1>7. KeyName(PathKey(h)) = "path" /\ IsSeq(PathKey(h)) /\ Enclosed(PathKey(h))
  <2>1. IsSeq(<<StringLit(h.path)>>) /\ Enclosed(<<StringLit(h.path)>>)
    BY HarmlessTokens, EnclosedSingle
  <2> QED
    BY <2>1, AssignParts, EnclosedKeys DEF PathKey
<1> QED
  BY <1>3, <1>4, <1>5, <1>6, <1>7, Zenon

(* One more key that may be there, on the end of the keys ks. *)
IsKeyOption(o) == IsOption(o) /\ (o # <<>> => IsSeq(o[1]) /\ Enclosed(o[1]))
ReadsOn(ks, o, u) ==
    /\ AreKeys(u) /\ IsSeq(u)
    /\ \A name : FindKey(u, name) =
                 IF FindKey(ks, name) # <<>> THEN FindKey(ks, name)
                 ELSE IF o # <<>> /\ KeyName(o[1]) = name THEN o ELSE <<>>
    /\ PassThrough(u) =
                 IF o # <<>> /\ KeyName(o[1]) \notin {"request_body", "responses", "params"}
                 THEN PassThrough(ks) \o o ELSE PassThrough(ks)

(* Reading on over a key that may be there. *)
LEMMA OneMoreOption ==
    ASSUME NEW ks, AreKeys(ks), IsSeq(ks), NEW o, IsKeyOption(o), NEW u, u = ks \o o
    PROVE  ReadsOn(ks, o, u)
<1>0. IsOption(o) /\ (o # <<>> => IsSeq(o[1]) /\ Enclosed(o[1]))
  BY DEF IsKeyOption
<1>1. AreKeys(ks \o o) /\ IsSeq(ks \o o)
  BY <1>0, KeysAndOption
<1>2. \A name : FindKey(ks \o o, name) =
                 IF FindKey(ks, name) # <<>> THEN FindKey(ks, name)
                 ELSE IF o # <<>> /\ KeyName(o[1]) = name THEN o ELSE <<>>
  BY <1>0, KeysAndOption
<1>3. PassThrough(ks \o o) =
                 IF o # <<>> /\ KeyName(o[1]) \notin {"request_body", "responses", "params"}
                 THEN PassThrough(ks) \o o ELSE PassThrough(ks)
  BY <1>0, KeysAndOption
<1>4. AreKeys(u) /\ IsSeq(u)
  BY <1>1, Zenon
<1>5. \A name : FindKey(u, name) =
                 IF FindKey(ks, name) # <<>> THEN FindKey(ks, name)
                 ELSE IF o # <<>> /\ KeyName(o[1]) = name THEN o ELSE <<>>
  BY <1>2, Zenon
<1>6. PassThrough(u) =
                 IF o # <<>> /\ KeyName(o[1]) \notin {"request_body", "responses", "params"}
                 THEN PassThrough(ks) \o o ELSE PassThrough(ks)
  BY <1>3, Zenon
<1> QED
  BY <1>4, <1>5, <1>6, Zenon DEF ReadsOn

(* What the macros read of an attribute is what was written. *)
LEMMA AttributeRead ==
    ASSUME NEW h, HandlerWritten(h)
    PROVE  /\ SplitTopLevelKeys(Attribute(h)) = WrittenKeys(h) /\ IsSeq(WrittenKeys(h))
           /\ FindKey(WrittenKeys(h), "path") = <<PathKey(h)>>
           /\ FindKey(WrittenKeys(h), "request_body") = BodyKey(h)
           /\ FindKey(WrittenKeys(h), "responses") = ResponsesKey(h)
           /\ FindKey(WrittenKeys(h), "params") = ParamsKey(h)
           /\ PassThrough(WrittenKeys(h)) = <<PathKey(h)>> \o SecurityKey(h)
<1>0. PICK pk, B, R, S, P : /\ pk = PathKey(h) /\ B = BodyKey(h) /\ R = ResponsesKey(h)
                            /\ S = SecurityKey(h) /\ P = ParamsKey(h)
  OBVIOUS
<1>1. /\ IsOption(B) /\ (B # <<>> => KeyName(B[1]) = "request_body" /\ IsSeq(B[1]) /\ Enclosed(B[1]))
      /\ IsOption(R) /\ (R # <<>> => KeyName(R[1]) = "responses" /\ IsSeq(R[1]) /\ Enclosed(R[1]))
      /\ IsOption(S) /\ (S # <<>> => KeyName(S[1]) = "security" /\ IsSeq(S[1]) /\ Enclosed(S[1]))
      /\ IsOption(P) /\ (P # <<>> => KeyName(P[1]) = "params" /\ IsSeq(P[1]) /\ Enclosed(P[1]))
      /\ KeyName(pk) = "path" /\ IsSeq(pk) /\ Enclosed(pk)
  BY <1>0, TheOptionalKeys, Zenon
<1>2. /\ "path" # "request_body" /\ "path" # "responses" /\ "path" # "security" /\ "path" # "params"
      /\ "request_body" # "responses" /\ "request_body" # "security" /\ "request_body" # "params"
      /\ "responses" # "security" /\ "responses" # "params" /\ "security" # "params"
      /\ \A y : <<y>> # <<>> /\ <<y>>[1] = y
  OBVIOUS
<1>3. PICK k0 : k0 = <<pk>>
  OBVIOUS
<1>4. /\ AreKeys(k0) /\ IsSeq(k0)
      /\ \A name : FindKey(k0, name) = IF name = "path" THEN <<pk>> ELSE <<>>
      /\ PassThrough(k0) = <<pk>>
  <2>1. IsSeq(<<>>) /\ IsOption(k0) /\ <<>> \o k0 = k0 /\ k0[1] = pk /\ k0 # <<>>
    BY <1>2, <1>3, EmptyAndSingle DEF IsOption
  <2>2. AreKeys(<<>>)
    BY EmptyAndSingle DEF AreKeys, AllSeqs
  <2>3. ReadsOn(<<>>, k0, k0)
    <3>1. IsKeyOption(k0)
      BY <1>1, <2>1, Zenon DEF IsKeyOption
    <3> QED
      BY <2>1, <2>2, <3>1, OneMoreOption
  <2>4. \A name : FindKey(k0, name) = IF KeyName(pk) = name THEN k0 ELSE <<>>
    BY <2>1, <2>3, NoKey, Zenon DEF ReadsOn
  <2>5. PassThrough(k0) = k0
    <3>1. KeyName(pk) \notin {"request_body", "responses", "params"}
      BY <1>1, <1>2
    <3> QED
      BY <2>1, <2>3, <3>1, NoKey, Zenon DEF ReadsOn
  <2>6. AreKeys(k0) /\ IsSeq(k0)
    BY <2>3, Zenon DEF ReadsOn
  <2> QED
    BY <1>1, <1>3, <2>4, <2>5, <2>6, Zenon
<1>5. PICK k1 : k1 = k0 \o B
  OBVIOUS
<1>6. /\ AreKeys(k1) /\ IsSeq(k1)
      /\ \A name : FindKey(k1, name) = IF name = "path" THEN <<pk>>
                                       ELSE IF name = "request_body" THEN B ELSE <<>>
      /\ PassThrough(k1) = <<pk>>
  <2>1. /\ AreKeys(k1) /\ IsSeq(k1)
        /\ \A name : FindKey(k1, name) =
              IF FindKey(k0, name) # <<>> THEN FindKey(k0, name)
              ELSE IF B # <<>> /\ KeyName(B[1]) = name THEN B ELSE <<>>
        /\ PassThrough(k1) =
              IF B # <<>> /\ KeyName(B[1]) \notin {"request_body", "responses", "params"}
              THEN PassThrough(k0) \o B ELSE PassThrough(k0)
    <3>1. IsKeyOption(B)
      BY <1>1, Zenon DEF IsKeyOption
    <3>2. AreKeys(k0) /\ IsSeq(k0)
      BY <1>4, Zenon
    <3>3. ReadsOn(k0, B, k1)
      BY <1>5, <3>1, <3>2, OneMoreOption
    <3> QED
      BY <3>3, Zenon DEF ReadsOn
  <2> QED
    BY <1>1, <1>2, <1>4, <2>1
<1>7. PICK k2 : k2 = k1 \o R
  OBVIOUS
<1>8. /\ AreKeys(k2) /\ IsSeq(k2)
      /\ \A name : FindKey(k2, name) = IF name = "path" THEN <<pk>>
                                       ELSE IF name = "request_body" THEN B
                                       ELSE IF name = "responses" THEN R ELSE <<>>
      /\ PassThrough(k2) = <<pk>>
  <2>1. /\ AreKeys(k2) /\ IsSeq(k2)
        /\ \A name : FindKey(k2, name) =
              IF FindKey(k1, name) # <<>> THEN FindKey(k1, name)
              ELSE IF R # <<>> /\ KeyName(R[1]) = name THEN R ELSE <<>>
        /\ PassThrough(k2) =
              IF R # <<>> /\ KeyName(R[1]) \notin {"request_body", "responses", "params"}
              THEN PassThrough(k1) \o R ELSE PassThrough(k1)
    <3>1. IsKeyOption(R)
      BY <1>1, Zenon DEF IsKeyOption
    <3>2. AreKeys(k1) /\ IsSeq(k1)
      BY <1>6, Zenon
    <3>3. ReadsOn(k1, R, k2)
      BY <1>7, <3>1, <3>2, OneMoreOption
    <3> QED
      BY <3>3, Zenon DEF ReadsOn
  <2> QED
    BY <1>1, <1>2, <1>6, <2>1
<1>9. PICK k3 : k3 = k2 \o S
  OBVIOUS
<1>10. /\ AreKeys(k3) /\ IsSeq(k3)
       /\ \A name : FindKey(k3, name) = IF name = "path" THEN <<pk>>
                                        ELSE IF name = "request_body" THEN B
                                        ELSE IF name = "responses" THEN R
                                        ELSE IF name = "security" THEN S ELSE <<>>
       /\ PassThrough(k3) = IF S # <<>> THEN <<pk>> \o S ELSE <<pk>>
  <2>1. /\ AreKeys(k3) /\ IsSeq(k3)
        /\ \A name : FindKey(k3, name) =
              IF FindKey(k2, name) # <<>> THEN FindKey(k2, name)
              ELSE IF S # <<>> /\ KeyName(S[1]) = name THEN S ELSE <<>>
        /\ PassThrough(k3) =
              IF S # <<>> /\ KeyName(S[1]) \notin {"request_body", "responses", "params"}
              THEN PassThrough(k2) \o S ELSE PassThrough(k2)
    <3>1. IsKeyOption(S)
      BY <1>1, Zenon DEF IsKeyOption
    <3>2. AreKeys(k2) /\ IsSeq(k2)
      BY <1>8, Zenon
    <3>3. ReadsOn(k2, S, k3)
      BY <1>9, <3>1, <3>2, OneMoreOption
    <3> QED
      BY <3>3, Zenon DEF ReadsOn
  <2> QED
    BY <1>1, <1>2, <1>8, <2>1
<1>11. PICK k4 : k4 = k3 \o P
  OBVIOUS
<1>12. /\ AreKeys(k4) /\ IsSeq(k4)
       /\ FindKey(k4, "path") = <<pk>> /\ FindKey(k4, "request_body") = B
       /\ FindKey(k4, "responses") = R /\ FindKey(k4, "params") = P
       /\ PassThrough(k4) = IF S # <<>> THEN <<pk>> \o S ELSE <<pk>>
  <2>1. /\ AreKeys(k4) /\ IsSeq(k4)
        /\ \A name : FindKey(k4, name) =
              IF FindKey(k3, name) # <<>> THEN FindKey(k3, name)
              ELSE IF P # <<>> /\ KeyName(P[1]) = name THEN P ELSE <<>>
        /\ PassThrough(k4) =
              IF P # <<>> /\ KeyName(P[1]) \notin {"request_body", "responses", "params"}
              THEN PassThrough(k3) \o P ELSE PassThrough(k3)
    <3>1. IsKeyOption(P)
      BY <1>1, Zenon DEF IsKeyOption
    <3>2. AreKeys(k3) /\ IsSeq(k3)
      BY <1>10, Zenon
    <3>3. ReadsOn(k3, P, k4)
      BY <1>11, <3>1, <3>2, OneMoreOption
    <3> QED
      BY <3>3, Zenon DEF ReadsOn
  <2> QED
    BY <1>1, <1>2, <1>10, <2>1
<1>13. k4 = WrittenKeys(h)
  BY <1>0, <1>3, <1>5, <1>7, <1>9, <1>11, Zenon DEF WrittenKeys
<1>14. S = <<>> => <<pk>> \o S = <<pk>>
  BY <1>3, <1>4, EmptyAndSingle
<1>15. SplitTopLevelKeys(Attribute(h)) = k4
  <2>1. Attribute(h) = CommaJoin(WrittenKeys(h))
    BY DEF Attribute, WrittenKeys, BodyKey, ResponsesKey, ParamsKey
  <2> QED
    BY <1>12, <1>13, <2>1, SplittingTheJoined
<1> QED
  BY <1>0, <1>12, <1>13, <1>14, <1>15, Zenon

-----------------------------------------------------------------------------
(* Reading the signature of a handler.                                      *)

(* extract_type_arg recognises the wrapper an argument is written with, and *)
(* no other.                                                                *)
LEMMA TakenArg ==
    ASSUME NEW x, InputWritten(x), NEW w \in Wrapper
    PROVE  /\ ExtractTypeArg(x.as, w) = IF x.wraps = w THEN <<x.type>> ELSE <<>>
           /\ x.wraps = w => GoodType(x.type) /\ (x.single <=> IsPrimitivePathParamType(x.type))
<1>1. CASE x.wraps = w
  <2>1. /\ SpelledAs(x.as, w, <<x.type>>) /\ GoodType(x.type)
        /\ x.single <=> IsPrimitivePathParamType(x.type)
    BY <1>1 DEF InputWritten
  <2>2. PICK a : a = <<x.type>> /\ a # <<>> /\ Len(a) = 1 /\ a[1] = x.type
    <3>1. \A y : <<y>> # <<>> /\ Len(<<y>>) = 1 /\ <<y>>[1] = y
      OBVIOUS
    <3> QED
      BY <3>1, Zenon
  <2>3. IsPath(x.as) /\ Last(x.as.segments) = w /\ x.as.args = a
    BY <2>1, <2>2, Zenon DEF SpelledAs, LastName, Last
  <2>4. IsType(a[1])
    BY <2>1, <2>2 DEF GoodType
  <2>5. ExtractTypeArg(x.as, w) = a
    BY <2>2, <2>3, <2>4, Zenon DEF ExtractTypeArg, LastSegmentIs
  <2> QED
    BY <1>1, <2>1, <2>2, <2>5, Zenon
<1>2. CASE x.wraps # w
  <2>1. ~(IsPath(x.as) /\ LastName(x.as) = w)
    <3>1. CASE x.wraps \in Wrapper
      BY <1>2, <3>1 DEF InputWritten, SpelledAs
    <3>2. CASE x.wraps \notin Wrapper
      BY <3>2 DEF InputWritten, SpelledWithout
    <3> QED
      BY <3>1, <3>2
  <2>2. ~LastSegmentIs(x.as, w)
    BY <2>1, Zenon DEF LastSegmentIs, LastName, Last
  <2> QED
    BY <1>2, <2>2, Zenon DEF ExtractTypeArg
<1> QED
  BY <1>1, <1>2

(* inspect_signature collects, for each wrapper, the types that are taken   *)
(* with it and in the order they are written.                               *)
LEMMA WrappedTaken ==
    ASSUME NEW h, HandlerWritten(h), NEW w \in Wrapper,
           NEW wr, wr = Wrapped(h.spelled.inputs, w), NEW taken, taken = Taking(h, w)
    PROVE  /\ IsSeq(wr) /\ IsSeq(taken) /\ Len(wr) = Len(taken)
           /\ \A i \in 1 .. Len(wr) :
                 /\ wr[i] = taken[i].type /\ GoodType(wr[i]) /\ taken[i].wraps = w
                 /\ taken[i].single <=> IsPrimitivePathParamType(wr[i])
<1>1. PICK s : s = h.inputs
  OBVIOUS
<1>2. IsSeq(s) /\ \A k \in DOMAIN s : InputWritten(s[k])
  BY <1>1 DEF HandlerWritten
<1>3. PICK N \in Nat : N = Len(s) /\ DOMAIN s = 1 .. N
  BY <1>2, IsSeqDomain
<1>4. PICK types : types = [k \in DOMAIN s |-> s[k].type]
  OBVIOUS
<1>5. PICK u : u = [k \in DOMAIN s |-> ExtractTypeArg(s[k].as, w)]
  OBVIOUS
<1>6. PICK I : I = {k \in DOMAIN s : s[k].wraps = w}
  OBVIOUS
<1>7. IsSeq(types) /\ Len(types) = N /\ IsSeq(u) /\ Len(u) = N /\ DOMAIN u = 1 .. N
  <2>1. Over(types, DOMAIN s) /\ Over(u, DOMAIN s)
    BY <1>4, <1>5 DEF Over
  <2> QED
    BY <1>2, <1>3, <2>1, OverPlaces
<1>8. \A n \in 1 .. N : /\ u[n] = IF n \in I THEN <<types[n]>> ELSE <<>>
                        /\ n \in I => GoodType(types[n]) /\ s[n].wraps = w
                        /\ n \in I => (s[n].single <=> IsPrimitivePathParamType(types[n]))
  <2> SUFFICES ASSUME NEW n \in 1 .. N
               PROVE  /\ u[n] = IF n \in I THEN <<types[n]>> ELSE <<>>
                      /\ n \in I => GoodType(types[n]) /\ s[n].wraps = w
                      /\ n \in I => (s[n].single <=> IsPrimitivePathParamType(types[n]))
    OBVIOUS
  <2>1. /\ ExtractTypeArg(s[n].as, w) = IF s[n].wraps = w THEN <<s[n].type>> ELSE <<>>
        /\ s[n].wraps = w => GoodType(s[n].type) /\ (s[n].single <=> IsPrimitivePathParamType(s[n].type))
    BY <1>2, <1>3, TakenArg
  <2>2. u[n] = ExtractTypeArg(s[n].as, w) /\ types[n] = s[n].type /\ (n \in I <=> s[n].wraps = w)
    BY <1>3, <1>4, <1>5, <1>6
  <2> QED
    BY <2>1, <2>2, Zenon
<1>9. AllSeqs(u)
  <2>1. \A x : IsSeq(<<>>) /\ IsSeq(<<x>>)
    BY EmptyAndSingle
  <2>2. \A n \in 1 .. N : IsSeq(u[n])
    BY <1>8, <2>1, Zenon
  <2> QED
    BY <1>7, <2>2 DEF AllSeqs
<1>10. FlattenSeq(u) = Kept(types, I)
  <2>1. \A n \in 1 .. Len(types) : u[n] = IF n \in I THEN <<types[n]>> ELSE <<>>
    BY <1>7, <1>8
  <2> QED
    BY <1>7, <1>9, <2>1, FlattenChosen
<1>11. wr = Kept(types, I)
  <2>1. h.spelled.inputs = [k \in DOMAIN s |-> s[k].as]
    BY <1>1, Zenon DEF HandlerWritten
  <2>2. PICK v : v = h.spelled.inputs
    OBVIOUS
  <2>3. [k \in DOMAIN v |-> ExtractTypeArg(v[k], w)] = u
    BY <1>5, <2>1, <2>2
  <2>4. Wrapped(v, w) = FlattenSeq(u)
    BY <2>3, Zenon DEF Wrapped
  <2> QED
    BY <1>10, <2>2, <2>4, Zenon
<1>12. taken = Kept(s, I)
  BY <1>1, <1>6 DEF Taking
<1>13. Alike(taken, wr, s, types, I)
  <2>1. Alike(Kept(s, I), Kept(types, I), s, types, I)
    BY <1>2, <1>3, <1>7, KeptAlike
  <2> QED
    BY <1>11, <1>12, <2>1, Zenon
<1>14. ASSUME NEW i \in 1 .. Len(wr)
       PROVE  /\ wr[i] = taken[i].type /\ GoodType(wr[i]) /\ taken[i].wraps = w
              /\ taken[i].single <=> IsPrimitivePathParamType(wr[i])
  <2>1. PICK m \in 1 .. N : m \in I /\ taken[i] = s[m] /\ wr[i] = types[m]
    BY <1>3, <1>13 DEF Alike
  <2>2. types[m] = s[m].type
    BY <1>3, <1>4
  <2> QED
    BY <1>8, <2>1, <2>2, Zenon
<1> QED
  BY <1>13, <1>14 DEF Alike

(* A type that is spelled without a wrapper is not taken for one. *)
LEMMA NotTaken ==
    ASSUME NEW ty, NEW names, SpelledWithout(ty, names), NEW w \in names
    PROVE  ExtractTypeArg(ty, w) = <<>>
<1>1. ~LastSegmentIs(ty, w)
  BY DEF SpelledWithout, LastSegmentIs, LastName, Last
<1> QED
  BY <1>1 DEF ExtractTypeArg

(* infer_response_body finds the body a handler answers with, in an AppJson *)
(* or in a Result of one, and nothing where there is none.                  *)
LEMMA AnswerInferred ==
    ASSUME NEW h, HandlerWritten(h)
    PROVE  /\ InferredResponseBody(h.spelled.ret) = h.answers
           /\ IsOption(h.answers) /\ (h.answers # <<>> => GoodType(h.answers[1]))
<1>1. PICK ret, answers : ret = h.spelled.ret /\ answers = h.answers
  OBVIOUS
<1>2. IsOption(answers) /\ AnswerWritten(ret, answers)
  BY <1>1, Zenon DEF HandlerWritten
<1>3. \A x : <<x>> # <<>> /\ <<x>>[1] = x
  OBVIOUS
<1>4. CASE ret = <<>> /\ answers = <<>>
  BY <1>1, <1>2, <1>4, Zenon DEF InferredResponseBody
<1>5. CASE /\ ret # <<>> /\ answers = <<>> /\ SpelledWithout(ret[1], {"AppJson"})
           /\ FirstArg(ret[1]) # <<>> => SpelledWithout(FirstArg(ret[1])[1], {"AppJson"})
  <2>1. "AppJson" \in {"AppJson"}
    OBVIOUS
  <2>2. ExtractTypeArg(ret[1], "AppJson") = <<>>
    BY <1>5, <2>1, NotTaken
  <2>3. PICK ok : ok = ExtractResultOkArg(ret[1])
    OBVIOUS
  <2>4. ok # <<>> => ok = FirstArg(ret[1])
    BY <2>3, Zenon DEF ExtractResultOkArg, FirstArg, LastSegmentIs
  <2>5. ok # <<>> => ExtractTypeArg(ok[1], "AppJson") = <<>>
    BY <1>5, <2>1, <2>4, NotTaken
  <2>6. InferredResponseBody(ret) = <<>>
    BY <1>5, <2>2, <2>3, <2>5, Zenon DEF InferredResponseBody
  <2> QED
    BY <1>1, <1>2, <1>5, <2>6, Zenon
<1>6. CASE ret # <<>> /\ Len(answers) = 1 /\ GoodType(answers[1]) /\ SpelledAs(ret[1], "AppJson", answers)
  <2>1. IsType(answers[1]) /\ ret[1].args = answers
    BY <1>6, Zenon DEF GoodType, SpelledAs
  <2>2. LastSegmentIs(ret[1], "AppJson")
    BY <1>6, Zenon DEF SpelledAs, LastSegmentIs, LastName, Last
  <2>3. ExtractTypeArg(ret[1], "AppJson") = answers
    BY <1>6, <2>1, <2>2, Zenon DEF ExtractTypeArg
  <2>4. answers # <<>>
    BY <1>2, <1>6, EmptyAndSingle DEF IsOption
  <2> QED
    BY <1>1, <1>2, <1>6, <2>3, <2>4, Zenon DEF InferredResponseBody
<1>7. CASE /\ ret # <<>> /\ Len(answers) = 1 /\ GoodType(answers[1])
           /\ SpelledAs(ret[1], "Result", ret[1].args) /\ ret[1].args # <<>>
           /\ IsType(ret[1].args[1]) /\ SpelledAs(ret[1].args[1], "AppJson", answers)
  <2>0. "Result" # "AppJson"
    OBVIOUS
  <2>1. LastSegmentIs(ret[1], "Result") /\ ~LastSegmentIs(ret[1], "AppJson")
    BY <1>7, <2>0, Zenon DEF SpelledAs, LastSegmentIs, LastName, Last
  <2>2. PICK ok : ok = ExtractResultOkArg(ret[1])
    OBVIOUS
  <2>3. ok = <<ret[1].args[1]>>
    BY <1>7, <2>1, <2>2, Zenon DEF ExtractResultOkArg
  <2>4. ok # <<>> /\ ok[1] = ret[1].args[1]
    BY <1>3, <2>3, Zenon
  <2>5. ExtractTypeArg(ret[1], "AppJson") = <<>>
    BY <2>1, Zenon DEF ExtractTypeArg
  <2>6. ExtractTypeArg(ok[1], "AppJson") = answers
    <3>1. LastSegmentIs(ok[1], "AppJson") /\ ok[1].args = answers
      BY <1>7, <2>4, Zenon DEF SpelledAs, LastSegmentIs, LastName, Last
    <3>2. IsType(answers[1])
      BY <1>7, Zenon DEF GoodType
    <3> QED
      BY <1>7, <3>1, <3>2, Zenon DEF ExtractTypeArg
  <2> QED
    BY <1>1, <1>2, <1>7, <2>2, <2>4, <2>5, <2>6, Zenon DEF InferredResponseBody
<1>8. \/ ret = <<>> /\ answers = <<>>
      \/ /\ ret # <<>> /\ answers = <<>> /\ SpelledWithout(ret[1], {"AppJson"})
         /\ FirstArg(ret[1]) # <<>> => SpelledWithout(FirstArg(ret[1])[1], {"AppJson"})
      \/ ret # <<>> /\ Len(answers) = 1 /\ GoodType(answers[1]) /\ SpelledAs(ret[1], "AppJson", answers)
      \/ /\ ret # <<>> /\ Len(answers) = 1 /\ GoodType(answers[1])
         /\ SpelledAs(ret[1], "Result", ret[1].args) /\ ret[1].args # <<>>
         /\ IsType(ret[1].args[1]) /\ SpelledAs(ret[1].args[1], "AppJson", answers)
  BY <1>2, Zenon DEF AnswerWritten
<1> QED
  BY <1>4, <1>5, <1>6, <1>7, <1>8, Zenon

-----------------------------------------------------------------------------
(* The arguments of #[utoipa::path], and the route that is registered.      *)

OperationKey(h) == Assign("operation_id", <<StringLit(<<h.spelled.name>>)>>)
Preamble(h) == <<<<Ident(h.method)>>, OperationKey(h), PathKey(h)>> \o SecurityKey(h)
Sig(h) == InspectSignature(h.spelled)
Expanded(h) == RouteMethodImpl(h.method, Attribute(h), h.spelled, h.deps)

(* A pair and one element make a triple. *)
LEMMA PairAndOne == \A x, y, z : <<x, y>> \o <<z>> = <<x, y, z>>
<1> SUFFICES ASSUME NEW x, NEW y, NEW z
             PROVE  <<x, y>> \o <<z>> = <<x, y, z>>
  OBVIOUS
<1>1. PICK a, b, c : a = <<x, y>> /\ b = <<z>> /\ c = <<x, y, z>>
  OBVIOUS
<1>2. /\ a \in Seq({x, y}) /\ Len(a) = 2 /\ a[1] = x /\ a[2] = y
      /\ b \in Seq({z}) /\ Len(b) = 1 /\ b[1] = z
      /\ c \in Seq({x, y, z}) /\ Len(c) = 3 /\ c[1] = x /\ c[2] = y /\ c[3] = z
  BY <1>1
<1>3. IsSeq(a) /\ IsSeq(b) /\ IsSeq(c)
  BY <1>2, IsSeqOf
<1>4. PICK u : u = a \o b
  OBVIOUS
<1>5. IsSeq(u) /\ Len(u) = 3 /\ u[1] = x /\ u[2] = y /\ u[3] = z
  <2>1. /\ IsSeq(a \o b) /\ Len(a \o b) = Len(a) + Len(b)
        /\ \A i \in 1 .. Len(a) : (a \o b)[i] = a[i]
        /\ \A i \in 1 .. Len(b) : (a \o b)[Len(a) + i] = b[i]
    BY <1>3, Concatenation
  <2>2. /\ IsSeq(u) /\ Len(u) = Len(a) + Len(b)
        /\ \A i \in 1 .. Len(a) : u[i] = a[i]
        /\ \A i \in 1 .. Len(b) : u[Len(a) + i] = b[i]
    BY <1>4, <2>1, Zenon
  <2> QED
    BY <1>2, <2>2
<1>6. \A i \in 1 .. 3 : u[i] = c[i]
  BY <1>2, <1>5
<1>7. u = c
  BY <1>2, <1>3, <1>5, <1>6, SameSeq
<1> QED
  BY <1>1, <1>4, <1>7, Zenon

(* What #[get] and its like make of a handler.                              *)
LEMMA ExpansionParts ==
    ASSUME NEW h, HandlerWritten(h)
    PROVE  /\ IsError(Expanded(h)) <=> \/ h.spelled.kind # "fn"
                                       \/ Objection(WrittenKeys(h), h.spelled) # "none"
                                       \/ StanoRoutesPath(h.deps) = <<>>
           /\ "component" \notin DOMAIN Expanded(h)
           /\ "args" \in DOMAIN Expanded(h) <=> ~IsError(Expanded(h))
           /\ ~IsError(Expanded(h)) =>
                 /\ Expanded(h).registers = h.spelled.name
                 /\ Expanded(h).args = Preamble(h) \o RequestBodyArgs(WrittenKeys(h), Sig(h))
                                       \o ResponsesArgs(WrittenKeys(h), h.spelled)
                                       \o ParamsArgs(WrittenKeys(h), Sig(h))
<1>1. PICK keys : keys = WrittenKeys(h)
  OBVIOUS
<1>2. /\ SplitTopLevelKeys(Attribute(h)) = keys
      /\ PassThrough(keys) = <<PathKey(h)>> \o SecurityKey(h)
      /\ IsOption(SecurityKey(h))
  BY <1>1, AttributeRead, TheOptionalKeys, Zenon
<1>3. <<<<Ident(h.method)>>, OperationKey(h)>> \o PassThrough(keys) = Preamble(h)
  <2>1. PICK a, pk, S : a = <<<<Ident(h.method)>>, OperationKey(h)>> /\ pk = <<PathKey(h)>> /\ S = SecurityKey(h)
    OBVIOUS
  <2>2. IsSeq(a) /\ IsSeq(pk) /\ IsSeq(S)
    <3>1. \A x, y : IsSeq(<<x, y>>)
      <4> SUFFICES ASSUME NEW x, NEW y PROVE IsSeq(<<x, y>>)
        OBVIOUS
      <4>1. <<x, y>> \in Seq({x, y})
        OBVIOUS
      <4> QED
        BY <4>1, IsSeqOf
    <3>2. \A x : IsSeq(<<x>>)
      BY EmptyAndSingle
    <3> QED
      BY <1>2, <2>1, <3>1, <3>2, OptionCases, Zenon
  <2>3. (a \o pk) \o S = a \o (pk \o S)
    BY <2>2, Associative
  <2>4. \A x, y, z : <<x, y>> \o <<z>> = <<x, y, z>>
    BY PairAndOne
  <2>5. a \o pk = <<<<Ident(h.method)>>, OperationKey(h), PathKey(h)>>
    BY <2>1, <2>4, Zenon
  <2> QED
    BY <1>2, <2>1, <2>3, <2>5, Zenon DEF Preamble
<1>4. PICK args : args = Preamble(h) \o RequestBodyArgs(keys, Sig(h))
                                       \o ResponsesArgs(keys, h.spelled)
                                       \o ParamsArgs(keys, Sig(h))
  OBVIOUS
<1>5. Expanded(h) =
         IF h.spelled.kind # "fn" THEN CompileError("not a function")
         ELSE IF Objection(keys, h.spelled) # "none" THEN CompileError(Objection(keys, h.spelled))
         ELSE IF StanoRoutesPath(h.deps) = <<>> THEN CompileError("no dependency")
         ELSE [args |-> args, registers |-> h.spelled.name, through |-> StanoRoutesPath(h.deps)]
  BY <1>2, <1>3, <1>4, Zenon DEF Expanded, RouteMethodImpl, RouteMethodFn, Sig, OperationKey
<1>6. \A why : /\ IsError(CompileError(why)) /\ "component" \notin DOMAIN CompileError(why)
               /\ "args" \notin DOMAIN CompileError(why)
  BY DEF IsError, CompileError
<1>7. \A a, n, t : LET r == [args |-> a, registers |-> n, through |-> t]
                   IN  /\ ~IsError(r) /\ "component" \notin DOMAIN r /\ "args" \in DOMAIN r
                       /\ r.args = a /\ r.registers = n
  BY DEF IsError
<1>8. PICK e : e = Expanded(h)
  OBVIOUS
<1>9. CASE h.spelled.kind # "fn" \/ Objection(keys, h.spelled) # "none" \/ StanoRoutesPath(h.deps) = <<>>
  <2>1. \E why : e = CompileError(why)
    BY <1>5, <1>8, <1>9, Zenon
  <2>2. IsError(e) /\ "component" \notin DOMAIN e /\ "args" \notin DOMAIN e
    BY <1>6, <2>1, Zenon
  <2> QED
    BY <1>1, <1>8, <1>9, <2>2, Zenon
<1>10. CASE ~(h.spelled.kind # "fn" \/ Objection(keys, h.spelled) # "none" \/ StanoRoutesPath(h.deps) = <<>>)
  <2>1. e = [args |-> args, registers |-> h.spelled.name, through |-> StanoRoutesPath(h.deps)]
    BY <1>5, <1>8, <1>10, Zenon
  <2>2. /\ ~IsError(e) /\ "component" \notin DOMAIN e /\ "args" \in DOMAIN e
        /\ e.args = args /\ e.registers = h.spelled.name
    BY <1>7, <2>1, Zenon
  <2> QED
    BY <1>1, <1>4, <1>8, <1>10, <2>2, Zenon
<1> QED
  BY <1>9, <1>10

(* named options *)
IsNamed(o, name) == IsOption(o) /\ (o # <<>> => KeyName(o[1]) = name)
FindsOn(ks, o, nm, u) ==
    /\ IsSeq(u)
    /\ \A name : FindKey(u, name) = IF FindKey(ks, name) # <<>> THEN FindKey(ks, name)
                                    ELSE IF name = nm THEN o ELSE <<>>

(* One more argument that may be there is found under its name. *)
LEMMA OneMoreNamed ==
    ASSUME NEW ks, IsSeq(ks), NEW o, NEW nm, IsNamed(o, nm), NEW u, u = ks \o o
    PROVE  FindsOn(ks, o, nm, u)
<1>0. IsOption(o) /\ (o # <<>> => KeyName(o[1]) = nm)
  BY DEF IsNamed
<1>1. IsSeq(ks \o o)
  BY <1>0, KeysAndOption
<1>2. \A name : FindKey(ks \o o, name) =
                 IF FindKey(ks, name) # <<>> THEN FindKey(ks, name)
                 ELSE IF o # <<>> /\ KeyName(o[1]) = name THEN o ELSE <<>>
  BY <1>0, KeysAndOption
<1>3. ASSUME NEW name
      PROVE  FindKey(u, name) = IF FindKey(ks, name) # <<>> THEN FindKey(ks, name)
                                ELSE IF name = nm THEN o ELSE <<>>
  <2>1. FindKey(u, name) = IF FindKey(ks, name) # <<>> THEN FindKey(ks, name)
                           ELSE IF o # <<>> /\ KeyName(o[1]) = name THEN o ELSE <<>>
    BY <1>2, Zenon
  <2>2. (IF o # <<>> /\ KeyName(o[1]) = name THEN o ELSE <<>>) = IF name = nm THEN o ELSE <<>>
    BY <1>0
  <2> QED
    BY <2>1, <2>2, Zenon
<1> QED
  BY <1>1, <1>3, Zenon DEF FindsOn

(* One key under its name. *)
LEMMA SingleNamed ==
    ASSUME NEW key, NEW nm, KeyName(key) = nm
    PROVE  IsNamed(<<key>>, nm)
<1>1. PICK o : o = <<key>>
  OBVIOUS
<1>2. IsSeq(o) /\ Len(o) = 1 /\ o[1] = key
  BY <1>1, EmptyAndSingle
<1> QED
  BY <1>1, <1>2 DEF IsNamed, IsOption

(* The arguments that the macro adds itself. *)
LEMMA AddedArguments ==
    ASSUME NEW h, HandlerWritten(h)
    PROVE  /\ IsNamed(RequestBodyArgs(WrittenKeys(h), Sig(h)), "request_body")
           /\ IsNamed(ResponsesArgs(WrittenKeys(h), h.spelled), "responses")
           /\ IsNamed(ParamsArgs(WrittenKeys(h), Sig(h)), "params")
<1>0. IsNamed(<<>>, "params")
  <2>1. IsSeq(<<>>) /\ Len(<<>>) = 0
    BY EmptyAndSingle
  <2> QED
    BY <2>1 DEF IsNamed, IsOption
<1>1. \A ts : KeyName(Call("responses", ts)) = "responses" /\ KeyName(Call("params", ts)) = "params"
  BY CallParts
<1>2. IsNamed(ResponsesArgs(WrittenKeys(h), h.spelled), "responses")
  BY <1>1, SingleNamed DEF ResponsesArgs
<1>3. IsNamed(ParamsArgs(WrittenKeys(h), Sig(h)), "params")
  BY <1>0, <1>1, SingleNamed DEF ParamsArgs
<1>4. IsNamed(RequestBodyArgs(WrittenKeys(h), Sig(h)), "request_body")
  <2>1. PICK j : j = Sig(h).json
    OBVIOUS
  <2>2. j = Wrapped(h.spelled.inputs, "AppJson")
    BY <2>1 DEF Sig, InspectSignature
  <2>3. j # <<>> => GoodType(j[1])
    <3>0. "AppJson" \in Wrapper
      BY DEF Wrapper
    <3>1. IsSeq(j) /\ \A i \in 1 .. Len(j) : GoodType(j[i])
      <4>1. PICK taken : taken = Taking(h, "AppJson")
        OBVIOUS
      <4> QED
        BY <2>2, <3>0, <4>1, WrappedTaken
    <3>2. j # <<>> => 1 \in 1 .. Len(j)
      BY <3>1, EmptyAndSingle, IsSeqDomain
    <3> QED
      BY <3>1, <3>2
  <2>4. j # <<>> => KeyName(Assign("request_body", TypeTokens(j[1]))) = "request_body"
    BY <2>3, AssignParts DEF GoodType
  <2>5. IsNamed(ExplicitBody(WrittenKeys(h)), "request_body")
    <3>1. ExplicitBody(WrittenKeys(h)) = BodyKey(h)
      BY AttributeRead DEF ExplicitBody
    <3> QED
      BY <3>1, TheOptionalKeys, Zenon DEF IsNamed
  <2>6. j # <<>> => IsNamed(<<Assign("request_body", TypeTokens(j[1]))>>, "request_body")
    BY <2>4, SingleNamed
  <2>7. RequestBodyArgs(WrittenKeys(h), Sig(h)) =
           IF j # <<>> THEN <<Assign("request_body", TypeTokens(j[1]))>> ELSE ExplicitBody(WrittenKeys(h))
    BY <2>1, Zenon DEF RequestBodyArgs
  <2> QED
    BY <2>5, <2>6, <2>7, Zenon
<1> QED
  BY <1>2, <1>3, <1>4

(* The route that is registered is the one that was written. *)
WrittenRoute(h) ==
    [method |-> h.method, path |-> h.path, handler |-> h.spelled.name, operation |-> h.spelled.name,
     secured |-> h.secured]

Arguments(h, B, R, P) == Preamble(h) \o B \o R \o P

(* Two elements make a pair. *)
LEMMA OneAndOne == \A x, y : <<x>> \o <<y>> = <<x, y>>
<1> SUFFICES ASSUME NEW x, NEW y
             PROVE  <<x>> \o <<y>> = <<x, y>>
  OBVIOUS
<1>1. PICK a, c : a = <<x>> /\ c = <<x, y>>
  OBVIOUS
<1>2. /\ a \in Seq({x}) /\ Len(a) = 1 /\ a[1] = x
      /\ c \in Seq({x, y}) /\ Len(c) = 2 /\ c[1] = x /\ c[2] = y
  BY <1>1
<1>3. IsSeq(a) /\ IsSeq(c)
  BY <1>2, IsSeqOf
<1>4. PICK u : u = Append(a, y)
  OBVIOUS
<1>5. IsSeq(u) /\ Len(u) = 2 /\ u[1] = x /\ u[2] = y /\ u = a \o <<y>>
  <2>1. /\ IsSeq(Append(a, y)) /\ Len(Append(a, y)) = Len(a) + 1
        /\ \A i \in 1 .. Len(a) : Append(a, y)[i] = a[i]
        /\ Append(a, y)[Len(a) + 1] = y /\ Append(a, y) = a \o <<y>>
    BY <1>3, Appending
  <2>2. /\ IsSeq(u) /\ Len(u) = Len(a) + 1
        /\ \A i \in 1 .. Len(a) : u[i] = a[i]
        /\ u[Len(a) + 1] = y /\ u = a \o <<y>>
    BY <1>4, <2>1, Zenon
  <2> QED
    BY <1>2, <2>2
<1>6. \A i \in 1 .. 2 : u[i] = c[i]
  BY <1>2, <1>5
<1>7. u = c
  BY <1>2, <1>3, <1>5, <1>6, SameSeq
<1> QED
  BY <1>1, <1>5, <1>7, Zenon

(* Whatever the macro adds under other names, the method, the path, the     *)
(* operation and the security are read back as they were written.           *)
LEMMA ArgumentsRead ==
    ASSUME NEW h, HandlerWritten(h), NEW B, IsNamed(B, "request_body"), NEW R, IsNamed(R, "responses"),
           NEW P, IsNamed(P, "params"), NEW args, args = Arguments(h, B, R, P)
    PROVE  /\ args[1] = <<Ident(h.method)>>
           /\ FindKey(args, "path") = <<PathKey(h)>>
           /\ FindKey(args, "operation_id") = <<OperationKey(h)>>
           /\ FindKey(args, "security") = SecurityKey(h)
           /\ IsSeq(args)
<1>0. PICK m, k0, o, p, S : /\ m = h.method /\ k0 = <<<<Ident(m)>>>> /\ o = <<OperationKey(h)>>
                            /\ p = <<PathKey(h)>> /\ S = SecurityKey(h)
  OBVIOUS
<1>1. m \in {"get", "post", "put", "delete", "patch"}
  BY <1>0 DEF HandlerWritten
<1>2. KeyName(<<Ident(m)>>) = m
  BY DEF KeyName, IsIdent, Ident
<1>3. /\ IsNamed(o, "operation_id") /\ IsNamed(p, "path") /\ IsNamed(S, "security") /\ o # <<>> /\ p # <<>>
  <2>1. KeyName(OperationKey(h)) = "operation_id"
    <3>1. \A x : IsSeq(<<x>>)
      BY EmptyAndSingle
    <3> QED
      BY <3>1, AssignParts, Zenon DEF OperationKey
  <2>2. KeyName(PathKey(h)) = "path" /\ IsNamed(S, "security")
    BY <1>0, TheOptionalKeys, Zenon DEF IsNamed
  <2>3. \A x : <<x>> # <<>>
    OBVIOUS
  <2> QED
    BY <1>0, <2>1, <2>2, <2>3, SingleNamed, Zenon
<1>4. PICK k1 : k1 = k0 \o o
  OBVIOUS
<1>5. PICK k2 : k2 = k1 \o p
  OBVIOUS
<1>6. PICK k3 : k3 = k2 \o S
  OBVIOUS
<1>7. PICK k4 : k4 = k3 \o B
  OBVIOUS
<1>8. PICK k5 : k5 = k4 \o R
  OBVIOUS
<1>9. PICK k6 : k6 = k5 \o P
  OBVIOUS
<1>10. args = k6
  <2>1. \A x, y : <<x>> \o <<y>> = <<x, y>>
    BY OneAndOne
  <2>2. k1 = <<<<Ident(m)>>, OperationKey(h)>>
    BY <1>0, <1>4, <2>1, Zenon
  <2>3. k2 = <<<<Ident(m)>>, OperationKey(h), PathKey(h)>>
    BY <1>0, <1>5, <2>2, PairAndOne, Zenon
  <2>4. k3 = Preamble(h)
    BY <1>0, <1>6, <2>3, Zenon DEF Preamble
  <2> QED
    BY <1>7, <1>8, <1>9, <2>4, Zenon DEF Arguments
<1>11. /\ IsSeq(k0)
       /\ \A name : FindKey(k0, name) = IF name = m THEN k0 ELSE <<>>
  <2>1. IsNamed(k0, m) /\ IsSeq(<<>>) /\ <<>> \o k0 = k0 /\ IsSeq(k0)
    BY <1>0, <1>2, SingleNamed, EmptyAndSingle DEF IsNamed, IsOption
  <2>2. FindsOn(<<>>, k0, m, k0)
    BY <2>1, OneMoreNamed
  <2> QED
    BY <2>1, <2>2, NoKey, Zenon DEF FindsOn
<1>12. FindsOn(k0, o, "operation_id", k1)
  BY <1>3, <1>4, <1>11, OneMoreNamed
<1>13. FindsOn(k1, p, "path", k2)
  <2>1. IsSeq(k1)
    BY <1>12, Zenon DEF FindsOn
  <2> QED
    BY <1>3, <1>5, <2>1, OneMoreNamed
<1>14. FindsOn(k2, S, "security", k3)
  <2>1. IsSeq(k2)
    BY <1>13, Zenon DEF FindsOn
  <2> QED
    BY <1>3, <1>6, <2>1, OneMoreNamed
<1>15. FindsOn(k3, B, "request_body", k4)
  <2>1. IsSeq(k3)
    BY <1>14, Zenon DEF FindsOn
  <2> QED
    BY <1>3, <1>7, <2>1, OneMoreNamed
<1>16. FindsOn(k4, R, "responses", k5)
  <2>1. IsSeq(k4)
    BY <1>15, Zenon DEF FindsOn
  <2> QED
    BY <1>3, <1>8, <2>1, OneMoreNamed
<1>17. FindsOn(k5, P, "params", k6)
  <2>1. IsSeq(k5)
    BY <1>16, Zenon DEF FindsOn
  <2> QED
    BY <1>3, <1>9, <2>1, OneMoreNamed
<1>18. /\ m # "operation_id" /\ m # "path" /\ m # "security"
       /\ "path" # "operation_id" /\ "path" # "request_body" /\ "path" # "responses" /\ "path" # "params"
       /\ "operation_id" # "security"
       /\ "operation_id" # "request_body" /\ "operation_id" # "responses" /\ "operation_id" # "params"
       /\ "security" # "path" /\ "security" # "request_body" /\ "security" # "responses" /\ "security" # "params"
  BY <1>1
<1>19. FindKey(k6, "operation_id") = o
  <2>1. FindKey(k1, "operation_id") = o
    BY <1>11, <1>12, <1>18, Zenon DEF FindsOn
  <2>2. FindKey(k2, "operation_id") = o
    BY <1>3, <1>13, <2>1, Zenon DEF FindsOn
  <2>3. FindKey(k3, "operation_id") = o
    BY <1>3, <1>14, <2>2, Zenon DEF FindsOn
  <2>4. FindKey(k4, "operation_id") = o
    BY <1>3, <1>15, <2>3, Zenon DEF FindsOn
  <2>5. FindKey(k5, "operation_id") = o
    BY <1>3, <1>16, <2>4, Zenon DEF FindsOn
  <2> QED
    BY <1>3, <1>17, <2>5, Zenon DEF FindsOn
<1>20. FindKey(k6, "path") = p
  <2>1. FindKey(k1, "path") = <<>>
    BY <1>11, <1>12, <1>18, Zenon DEF FindsOn
  <2>2. FindKey(k2, "path") = p
    BY <1>13, <2>1, Zenon DEF FindsOn
  <2>3. FindKey(k3, "path") = p
    BY <1>3, <1>14, <2>2, Zenon DEF FindsOn
  <2>4. FindKey(k4, "path") = p
    BY <1>3, <1>15, <2>3, Zenon DEF FindsOn
  <2>5. FindKey(k5, "path") = p
    BY <1>3, <1>16, <2>4, Zenon DEF FindsOn
  <2> QED
    BY <1>3, <1>17, <2>5, Zenon DEF FindsOn
<1>21. FindKey(k6, "security") = S
  <2>1. FindKey(k1, "security") = <<>>
    BY <1>11, <1>12, <1>18, Zenon DEF FindsOn
  <2>2. FindKey(k2, "security") = <<>>
    BY <1>13, <1>18, <2>1, Zenon DEF FindsOn
  <2>3. FindKey(k3, "security") = S
    BY <1>14, <2>2, Zenon DEF FindsOn
  <2>4. FindKey(k4, "security") = S
    BY <1>15, <1>18, <2>3, Zenon DEF FindsOn
  <2>5. FindKey(k5, "security") = S
    BY <1>16, <1>18, <2>4, Zenon DEF FindsOn
  <2> QED
    BY <1>17, <1>18, <2>5, Zenon DEF FindsOn
<1>22. k6[1] = <<Ident(m)>> /\ IsSeq(k6)
  <2>1. ASSUME NEW s, IsSeq(s), NEW t, IsSeq(t), NEW u, u = s \o t, NEW x, s # <<>> /\ s[1] = x
        PROVE  IsSeq(u) /\ u # <<>> /\ u[1] = x
    <3>1. /\ IsSeq(s \o t) /\ Len(s \o t) = Len(s) + Len(t)
          /\ \A i \in 1 .. Len(s) : (s \o t)[i] = s[i]
      BY <2>1, Concatenation
    <3>2. IsSeq(u) /\ Len(u) = Len(s) + Len(t) /\ \A i \in 1 .. Len(s) : u[i] = s[i]
      BY <2>1, <3>1, Zenon
    <3>3. Len(s) \in Nat /\ Len(t) \in Nat /\ Len(s) # 0
      BY <2>1, IsSeqDomain, EmptyAndSingle
    <3>4. 1 \in 1 .. Len(s) /\ Len(u) # 0
      BY <3>2, <3>3
    <3> QED
      BY <2>1, <3>2, <3>4, EmptyAndSingle
  <2>2. IsSeq(o) /\ IsSeq(p) /\ IsSeq(S) /\ IsSeq(B) /\ IsSeq(R) /\ IsSeq(P)
    BY <1>3 DEF IsNamed, IsOption
  <2>3. k0 # <<>> /\ k0[1] = <<Ident(m)>> /\ IsSeq(k0)
    <3>1. \A x : <<x>> # <<>> /\ <<x>>[1] = x
      OBVIOUS
    <3> QED
      BY <1>0, <1>11, <3>1, Zenon
  <2>4. k1 # <<>> /\ k1[1] = <<Ident(m)>> /\ IsSeq(k1)
    BY <1>4, <2>1, <2>2, <2>3
  <2>5. k2 # <<>> /\ k2[1] = <<Ident(m)>> /\ IsSeq(k2)
    BY <1>5, <2>1, <2>2, <2>4
  <2>6. k3 # <<>> /\ k3[1] = <<Ident(m)>> /\ IsSeq(k3)
    BY <1>6, <2>1, <2>2, <2>5
  <2>7. k4 # <<>> /\ k4[1] = <<Ident(m)>> /\ IsSeq(k4)
    BY <1>7, <2>1, <2>2, <2>6
  <2>8. k5 # <<>> /\ k5[1] = <<Ident(m)>> /\ IsSeq(k5)
    BY <1>8, <2>1, <2>2, <2>7
  <2> QED
    BY <1>9, <2>1, <2>2, <2>8
<1> QED
  BY <1>0, <1>10, <1>19, <1>20, <1>21, <1>22, Zenon

(* The literal of the path, and the name of the operation, are those of the keys. *)
LEMMA LiteralsRead ==
    ASSUME NEW h, NEW args, FindKey(args, "path") = <<PathKey(h)>>
    PROVE  /\ FindPathLiteral(args) = <<h.path>>
           /\ OperationKey(h)[3].string[1] = h.spelled.name
<1>1. PICK pk : pk = PathKey(h)
  OBVIOUS
<1>2. PICK lit : lit = StringLit(h.path)
  OBVIOUS
<1>3. IsSeq(pk) /\ Len(pk) = 3 /\ pk[1] = Ident("path") /\ pk[2] = Punct("=") /\ pk[3] = lit
  <2>1. PICK ts : ts = <<lit>>
    OBVIOUS
  <2>2. IsSeq(ts) /\ Len(ts) = 1 /\ ts[1] = lit
    BY <2>1, EmptyAndSingle
  <2>3. pk = Assign("path", ts)
    BY <1>1, <1>2, <2>1 DEF PathKey
  <2>4. PICK a : a = Assign("path", ts)
    OBVIOUS
  <2>5. /\ a[1] = Ident("path") /\ a[2] = Punct("=") /\ IsSeq(a) /\ Len(a) = Len(ts) + 2
        /\ \A k \in 1 .. Len(ts) : a[k + 2] = ts[k]
    BY <2>2, <2>4, AssignParts, Zenon
  <2>6. a[3] = ts[1] /\ Len(a) = 3
    <3>1. 1 \in 1 .. Len(ts) /\ 1 + 2 = 3
      BY <2>2
    <3>2. a[1 + 2] = ts[1]
      BY <2>5, <3>1, Zenon
    <3> QED
      BY <2>2, <2>5, <3>1, <3>2
  <2> QED
    BY <2>2, <2>3, <2>4, <2>5, <2>6, Zenon
<1>4. PICK I : I = {k \in DOMAIN pk : IsLiteral(pk[k])}
  OBVIOUS
<1>5. 3 \in I /\ 2 \notin I /\ 1 \notin I
  <2>1. IsLiteral(lit) /\ ~IsLiteral(Ident("path")) /\ ~IsLiteral(Punct("="))
    BY <1>2 DEF IsLiteral, StringLit, Ident, Punct
  <2>2. 3 \in DOMAIN pk
    BY <1>3, IsSeqDomain
  <2> QED
    BY <1>3, <1>4, <2>1, <2>2
<1>6. FirstKept(pk, I) = <<lit>>
  <2>1. PICK f : KeepsBy(f, pk, I, 3)
    BY <1>3, KeptBy
  <2>2. /\ f[0] = <<>> /\ Kept(pk, I) = f[3]
        /\ \A n \in 1 .. 3 : f[n] = IF n \in I THEN Append(f[n - 1], pk[n]) ELSE f[n - 1]
    BY <1>3, <2>1 DEF KeepsBy
  <2>3. f[1] = <<>>
    <3>1. 1 \in 1 .. 3 /\ 1 - 1 = 0
      OBVIOUS
    <3> QED
      BY <1>5, <2>2, <3>1, Zenon
  <2>4. f[2] = <<>>
    <3>1. 2 \in 1 .. 3 /\ 2 - 1 = 1
      OBVIOUS
    <3> QED
      BY <1>5, <2>2, <2>3, <3>1, Zenon
  <2>5. f[3] = Append(<<>>, lit)
    <3>1. 3 \in 1 .. 3 /\ 3 - 1 = 2
      OBVIOUS
    <3> QED
      BY <1>3, <1>5, <2>2, <2>4, <3>1, Zenon
  <2>6. \A x : Append(<<>>, x) = <<x>> /\ <<x>> # <<>> /\ <<x>>[1] = x
    OBVIOUS
  <2>7. Kept(pk, I) = <<lit>>
    BY <2>2, <2>5, <2>6, Zenon
  <2> QED
    BY <2>6, <2>7, Zenon DEF FirstKept
<1>7. FindPathLiteral(args) = <<h.path>>
  <2>1. \A x : <<x>> # <<>> /\ <<x>>[1] = x
    OBVIOUS
  <2>2. "string" \in DOMAIN lit /\ lit.string = h.path
    BY <1>2 DEF StringLit
  <2> DEFINE key == FindKey(args, "path")
             literals == IF key = <<>> THEN <<>>
                         ELSE FirstKept(key[1], {k \in DOMAIN key[1] : IsLiteral(key[1][k])})
  <2>3. key # <<>> /\ key[1] = pk
    BY <1>1, <2>1, Zenon
  <2>4. literals = <<lit>>
    BY <1>4, <1>6, <2>3, Zenon
  <2>5. FindPathLiteral(args) = IF literals # <<>> /\ "string" \in DOMAIN literals[1]
                                THEN <<literals[1].string>> ELSE <<>>
    BY Zenon DEF FindPathLiteral
  <2> HIDE DEF literals
  <2> QED
    BY <2>1, <2>2, <2>4, <2>5, Zenon
<1>8. OperationKey(h)[3].string[1] = h.spelled.name
  <2>1. PICK name : name = <<h.spelled.name>> /\ name[1] = h.spelled.name
    <3>1. \A x : <<x>>[1] = x
      OBVIOUS
    <3> QED
      BY <3>1, Zenon
  <2>2. PICK ts : ts = <<StringLit(name)>>
    OBVIOUS
  <2>3. IsSeq(ts) /\ Len(ts) = 1 /\ ts[1] = StringLit(name)
    BY <2>2, EmptyAndSingle
  <2>4. PICK a : a = Assign("operation_id", ts)
    OBVIOUS
  <2>5. \A k \in 1 .. Len(ts) : a[k + 2] = ts[k]
    BY <2>3, <2>4, AssignParts, Zenon
  <2>6. a[3] = StringLit(name)
    <3>1. 1 \in 1 .. Len(ts) /\ 1 + 2 = 3
      BY <2>3
    <3> QED
      BY <2>3, <2>5, <3>1, Zenon
  <2>7. StringLit(name).string = name
    BY DEF StringLit
  <2> QED
    BY <2>1, <2>2, <2>4, <2>6, <2>7, Zenon DEF OperationKey
<1> QED
  BY <1>7, <1>8

(* The route that is registered for a handler is the one that was written. *)
LEMMA RouteWritten ==
    ASSUME NEW h, HandlerWritten(h), ~IsError(Expanded(h))
    PROVE  RouteOf(Expanded(h)) = WrittenRoute(h)
<1>1. PICK e : e = Expanded(h)
  OBVIOUS
<1>2. PICK B, R, P : /\ B = RequestBodyArgs(WrittenKeys(h), Sig(h))
                     /\ R = ResponsesArgs(WrittenKeys(h), h.spelled)
                     /\ P = ParamsArgs(WrittenKeys(h), Sig(h))
  OBVIOUS
<1>3. e.registers = h.spelled.name /\ e.args = Preamble(h) \o B \o R \o P
  BY <1>1, <1>2, ExpansionParts, Zenon
<1>4. IsNamed(B, "request_body") /\ IsNamed(R, "responses") /\ IsNamed(P, "params")
  BY <1>2, AddedArguments, Zenon
<1>5. PICK args : args = e.args
  OBVIOUS
<1>6. /\ args[1] = <<Ident(h.method)>>
      /\ FindKey(args, "path") = <<PathKey(h)>>
      /\ FindKey(args, "operation_id") = <<OperationKey(h)>>
      /\ FindKey(args, "security") = SecurityKey(h)
  <2>1. args = Arguments(h, B, R, P)
    BY <1>3, <1>5, Zenon DEF Arguments
  <2> QED
    BY <1>4, <2>1, ArgumentsRead
<1>7. FindPathLiteral(args) = <<h.path>> /\ OperationKey(h)[3].string[1] = h.spelled.name
  BY <1>6, LiteralsRead
<1>8. \A x : <<x>>[1] = x
  OBVIOUS
<1>9. args[1][1].ident = h.method
  <2>1. args[1][1] = Ident(h.method)
    BY <1>6, <1>8, Zenon
  <2>2. Ident(h.method).ident = h.method
    BY DEF Ident
  <2> QED
    BY <2>1, <2>2, Zenon
<1>10. FindPathLiteral(args)[1] = h.path
  BY <1>7, <1>8, Zenon
<1>11. FindKey(args, "operation_id")[1][3].string[1] = h.spelled.name
  BY <1>6, <1>7, <1>8, Zenon
<1>12. (FindKey(args, "security") # <<>>) = h.secured
  <2>1. h.secured \in BOOLEAN /\ (SecurityKey(h) # <<>> <=> h.secured)
    BY TheOptionalKeys, Zenon DEF HandlerWritten
  <2> QED
    BY <1>6, <2>1
<1>13. RouteOf(e) = [method |-> h.method, path |-> h.path, handler |-> h.spelled.name,
                     operation |-> h.spelled.name, secured |-> h.secured]
  BY <1>3, <1>5, <1>9, <1>10, <1>11, <1>12, Zenon DEF RouteOf
<1> QED
  BY <1>1, <1>13, Zenon DEF WrittenRoute

-----------------------------------------------------------------------------
(* Services and traits.                                                     *)

Meant(s) == ServiceImpl(s.attr, s.spelled, s.deps)
Fields(s) == s.spelled.fields
Inners(s) == [k \in DOMAIN Fields(s) |-> ExtractArcInner(Fields(s)[k])]

(* extract_arc_inner finds what an Arc holds. *)
LEMMA InnerOfArc ==
    ASSUME NEW ty
    PROVE  ExtractArcInner(ty) = IF HoldsArc(ty) THEN <<ty.args[1]>> ELSE <<>>
BY Zenon DEF ExtractArcInner, HoldsArc, LastName, Last

(* The fields of a service are resolved exactly if all of them are Arcs,    *)
(* and then to what the Arcs hold.                                          *)
LEMMA FieldsRead ==
    ASSUME NEW s, IsSeq(Fields(s))
    PROVE  /\ <<>> \in ToSet(Inners(s)) <=> \E k \in DOMAIN Fields(s) : ~HoldsArc(Fields(s)[k])
           /\ (\A k \in DOMAIN Fields(s) : HoldsArc(Fields(s)[k])) =>
                 /\ IsSeq(FlattenSeq(Inners(s)))
                 /\ ToSet(FlattenSeq(Inners(s))) = {ty.args[1] : ty \in ToSet(Fields(s))}
<1>1. PICK fs, u : fs = Fields(s) /\ u = Inners(s)
  OBVIOUS
<1>2. PICK N \in Nat : N = Len(fs) /\ DOMAIN fs = 1 .. N /\ IsSeq(fs)
  BY <1>1, IsSeqDomain
<1>3. u = [k \in DOMAIN fs |-> ExtractArcInner(fs[k])]
  BY <1>1, Zenon DEF Inners
<1>4. IsSeq(u) /\ Len(u) = N /\ DOMAIN u = 1 .. N
  <2>1. Over(u, DOMAIN fs)
    BY <1>3 DEF Over
  <2> QED
    BY <1>2, <2>1, OverPlaces
<1>5. \A x : <<x>> # <<>> /\ IsSeq(<<x>>)
  BY EmptyAndSingle
<1>6. \A k \in 1 .. N : u[k] = IF HoldsArc(fs[k]) THEN <<fs[k].args[1]>> ELSE <<>>
  BY <1>2, <1>3, InnerOfArc
<1>7. <<>> \in ToSet(u) <=> \E k \in 1 .. N : ~HoldsArc(fs[k])
  <2>1. <<>> \in ToSet(u) <=> \E k \in 1 .. N : u[k] = <<>>
    BY <1>4 DEF ToSet
  <2>2. \A k \in 1 .. N : u[k] = <<>> <=> ~HoldsArc(fs[k])
    BY <1>5, <1>6, Zenon
  <2> QED
    BY <2>1, <2>2, Zenon
<1>8. ASSUME \A k \in 1 .. N : HoldsArc(fs[k])
      PROVE  IsSeq(FlattenSeq(u)) /\ ToSet(FlattenSeq(u)) = {ty.args[1] : ty \in ToSet(fs)}
  <2>1. PICK t : t = [k \in DOMAIN fs |-> fs[k].args[1]]
    OBVIOUS
  <2>2. IsSeq(t) /\ Len(t) = N /\ DOMAIN t = 1 .. N
    <3>1. Over(t, DOMAIN fs)
      BY <2>1 DEF Over
    <3> QED
      BY <1>2, <3>1, OverPlaces
  <2>3. PICK I : I = 1 .. N
    OBVIOUS
  <2>4. \A k \in 1 .. N : u[k] = <<t[k]>>
    BY <1>2, <1>6, <1>8, <2>1
  <2>5. AllSeqs(u)
    <3>1. \A k \in 1 .. N : IsSeq(u[k])
      BY <1>5, <2>4, Zenon
    <3> QED
      BY <1>4, <3>1 DEF AllSeqs
  <2>6. FlattenSeq(u) = Kept(t, I)
    <3>1. \A n \in 1 .. Len(t) : u[n] = IF n \in I THEN <<t[n]>> ELSE <<>>
      BY <2>2, <2>3, <2>4
    <3>2. Len(u) = Len(t)
      BY <1>4, <2>2
    <3> QED
      BY <2>2, <2>5, <3>1, <3>2, FlattenChosen
  <2>7. IsSeq(Kept(t, I)) /\ ToSet(Kept(t, I)) = {t[k] : k \in I \intersect DOMAIN t}
    BY <2>2, KeptElements
  <2>8. {t[k] : k \in I \intersect DOMAIN t} = {ty.args[1] : ty \in ToSet(fs)}
    <3>1. I \intersect DOMAIN t = 1 .. N
      BY <2>2, <2>3
    <3>2. ToSet(fs) = {fs[k] : k \in 1 .. N}
      BY <1>2 DEF ToSet
    <3>3. \A k \in 1 .. N : t[k] = fs[k].args[1]
      BY <1>2, <2>1
    <3> QED
      BY <3>1, <3>2, <3>3
  <2> QED
    BY <2>6, <2>7, <2>8, Zenon
<1> QED
  BY <1>1, <1>2, <1>7, <1>8, Zenon

(* A service is refused exactly when it is unsound; if not it is registered *)
(* under the id it claims, and both what it declares and what its factory   *)
(* gets are what its fields ask for.                                        *)
LEMMA ServiceExpanded ==
    ASSUME NEW s, ServiceWritten(s)
    PROVE  /\ IsError(Meant(s)) <=> ~s.sound
           /\ "args" \notin DOMAIN Meant(s)
           /\ "component" \in DOMAIN Meant(s) <=> ~IsError(Meant(s))
           /\ s.sound =>
                 /\ Meant(s).component = s.spelled.name /\ Meant(s).id = s.claims
                 /\ ToSet(Meant(s).declared) = s.asks /\ ToSet(Meant(s).gets) = s.asks
<1>1. IsSeq(Fields(s))
  BY DEF ServiceWritten, Fields
<1>2. PICK parts : parts = FlattenSeq(Inners(s))
  OBVIOUS
<1>3. PICK good : good = [component |-> s.spelled.name,
              id |-> RegisteredId(s.attr, s.spelled.name),
              declared |-> [k \in DOMAIN parts |-> DependencyId(parts[k])],
              gets |-> [k \in DOMAIN parts |-> GetCall(parts[k])],
              through |-> StanoDiPath(s.deps)]
  OBVIOUS
<1>4. StanoDiPath(s.deps) = <<>> <=> s.deps \intersect ServiceCrates = {}
  <2>1. \A x, y, z : <<x>> # <<>> /\ <<x, y>> # <<>> /\ <<x, y, z>> # <<>>
    OBVIOUS
  <2>2. StanoDiPath(s.deps) = <<>> <=>
           /\ "stano-di" \notin s.deps /\ "stano-starter" \notin s.deps /\ "stano-starter-domain" \notin s.deps
           /\ "stano-starter-rest" \notin s.deps /\ "stano-starter-service" \notin s.deps
    BY <2>1, Zenon DEF StanoDiPath
  <2>3. s.deps \intersect ServiceCrates = {} <=>
           /\ "stano-di" \notin s.deps /\ "stano-starter" \notin s.deps /\ "stano-starter-domain" \notin s.deps
           /\ "stano-starter-rest" \notin s.deps /\ "stano-starter-service" \notin s.deps
    BY DEF ServiceCrates
  <2> QED
    BY <2>2, <2>3
<1>5. s.sound <=>
          /\ s.spelled.kind = "struct" /\ s.spelled.shape # "tuple"
          /\ s.attr # <<>> => "unparsable" \notin DOMAIN s.attr[1]
          /\ s.deps \intersect ServiceCrates # {}
          /\ \A k \in DOMAIN Fields(s) : HoldsArc(Fields(s)[k])
  BY Zenon DEF ServiceWritten, Fields
<1>6. \A why : /\ "error" \in DOMAIN ServiceError(why) /\ "args" \notin DOMAIN ServiceError(why)
               /\ "component" \notin DOMAIN ServiceError(why)
  BY DEF ServiceError
<1>7. /\ "error" \notin DOMAIN good /\ "args" \notin DOMAIN good /\ "component" \in DOMAIN good
      /\ good.component = s.spelled.name /\ good.id = RegisteredId(s.attr, s.spelled.name)
      /\ good.declared = [k \in DOMAIN parts |-> DependencyId(parts[k])]
      /\ good.gets = [k \in DOMAIN parts |-> GetCall(parts[k])]
  BY <1>3
<1>8. Meant(s) = IF s.spelled.kind # "struct" THEN ServiceError("not a struct")
        ELSE IF s.attr # <<>> /\ "unparsable" \in DOMAIN s.attr[1] THEN ServiceError("no type")
        ELSE IF StanoDiPath(s.deps) = <<>> THEN ServiceError("no dependency")
        ELSE IF s.spelled.shape = "tuple" THEN ServiceError("tuple struct")
        ELSE IF <<>> \in ToSet(Inners(s)) THEN ServiceError("not an Arc")
        ELSE good
  BY <1>2, <1>3, Zenon DEF Meant, ServiceImpl, Inners, Fields
<1>9. <<>> \in ToSet(Inners(s)) <=> ~\A k \in DOMAIN Fields(s) : HoldsArc(Fields(s)[k])
  BY <1>1, FieldsRead
<1>10. Meant(s) = good <=> s.sound
  <2>1. s.sound => Meant(s) = good
    BY <1>4, <1>5, <1>8, <1>9, Zenon
  <2>2. ~s.sound => \E why : Meant(s) = ServiceError(why)
    BY <1>4, <1>5, <1>8, <1>9, Zenon
  <2> QED
    BY <1>6, <1>7, <2>1, <2>2, Zenon
<1>11. ~s.sound => \E why : Meant(s) = ServiceError(why)
  BY <1>4, <1>5, <1>8, <1>9, Zenon
<1>12. ASSUME s.sound
       PROVE  /\ good.id = s.claims /\ ToSet(good.declared) = s.asks /\ ToSet(good.gets) = s.asks
  <2>1. /\ s.claims = IF s.attr = <<>> THEN TypeIdOf(<<Ident(s.spelled.name)>>)
                        ELSE TraitObjectId(s.attr[1].dyn)
        /\ s.asks = {IdMeant(ty.args[1]) : ty \in ToSet(Fields(s))}
    BY <1>12, Zenon DEF ServiceWritten, Fields
  <2>2. good.id = s.claims
    BY <1>7, <2>1, Zenon DEF RegisteredId
  <2>3. IsSeq(parts) /\ ToSet(parts) = {ty.args[1] : ty \in ToSet(Fields(s))}
    BY <1>1, <1>2, <1>5, <1>12, FieldsRead
  <2>4. \A x : DependencyId(x) = IdMeant(x) /\ GetCall(x) = IdMeant(x)
    BY Zenon DEF DependencyId, GetCall, IdMeant, IsTraitObject, IdOfType
  <2>5. ToSet(parts) = {parts[k] : k \in DOMAIN parts}
    BY DEF ToSet
  <2>6. /\ ToSet(good.declared) = {DependencyId(parts[k]) : k \in DOMAIN parts}
        /\ ToSet(good.gets) = {GetCall(parts[k]) : k \in DOMAIN parts}
    BY <1>7 DEF ToSet
  <2>7. /\ ToSet(good.declared) = {IdMeant(parts[k]) : k \in DOMAIN parts}
        /\ ToSet(good.gets) = {IdMeant(parts[k]) : k \in DOMAIN parts}
    BY <2>4, <2>6
  <2>8. {IdMeant(parts[k]) : k \in DOMAIN parts} = {IdMeant(x) : x \in ToSet(parts)}
    BY <2>5
  <2>9. {IdMeant(x) : x \in ToSet(parts)} = s.asks
    BY <2>1, <2>3
  <2> QED
    BY <2>2, <2>7, <2>8, <2>9, Zenon
<1> QED
  BY <1>6, <1>7, <1>10, <1>11, <1>12, Zenon DEF IsError

(* A trait is refused exactly when it cannot be injected, and registers     *)
(* nothing.                                                                 *)
LEMMA TraitExpanded ==
    ASSUME NEW t, TraitWritten(t), NEW e, e = ComponentImpl(t.spelled, t.deps)
    PROVE  (IsError(e) <=> ~t.sound) /\ "args" \notin DOMAIN e /\ "component" \notin DOMAIN e
<1>4. StanoDiPath(t.deps) = <<>> <=> t.deps \intersect ServiceCrates = {}
  <2>1. \A x, y, z : <<x>> # <<>> /\ <<x, y>> # <<>> /\ <<x, y, z>> # <<>>
    OBVIOUS
  <2>2. StanoDiPath(t.deps) = <<>> <=>
           /\ "stano-di" \notin t.deps /\ "stano-starter" \notin t.deps /\ "stano-starter-domain" \notin t.deps
           /\ "stano-starter-rest" \notin t.deps /\ "stano-starter-service" \notin t.deps
    BY <2>1, Zenon DEF StanoDiPath
  <2>3. t.deps \intersect ServiceCrates = {} <=>
           /\ "stano-di" \notin t.deps /\ "stano-starter" \notin t.deps /\ "stano-starter-domain" \notin t.deps
           /\ "stano-starter-rest" \notin t.deps /\ "stano-starter-service" \notin t.deps
    BY DEF ServiceCrates
  <2> QED
    BY <2>2, <2>3
<1>5. t.sound <=> /\ t.spelled.kind = "trait" /\ {"Send", "Sync"} \subseteq t.spelled.supertraits
                  /\ t.deps \intersect ServiceCrates # {}
  BY Zenon DEF TraitWritten
<1>6. \A why : /\ "error" \in DOMAIN ServiceError(why) /\ "args" \notin DOMAIN ServiceError(why)
               /\ "component" \notin DOMAIN ServiceError(why)
  BY DEF ServiceError
<1>7. PICK good : good = [injectable |-> t.spelled.name, through |-> StanoDiPath(t.deps)]
  OBVIOUS
<1>8. "error" \notin DOMAIN good /\ "args" \notin DOMAIN good /\ "component" \notin DOMAIN good
  BY <1>7
<1>9. t.sound => e = good
  BY <1>4, <1>5, <1>7, Zenon DEF ComponentImpl
<1>10. ~t.sound => \E why : e = ServiceError(why)
  BY <1>4, <1>5, Zenon DEF ComponentImpl
<1> QED
  BY <1>6, <1>8, <1>9, <1>10, Zenon DEF IsError

-----------------------------------------------------------------------------
(* The placeholders of a path.                                              *)

(* The least element of a set that has one. *)
LEMMA MinimumIs ==
    ASSUME NEW S, NEW m, m \in S, S \subseteq Int, \A y \in S : m <= y
    PROVE  Min(S) = m
<1>1. \E x : x \in S /\ \A y \in S : x <= y
  OBVIOUS
<1>2. Min(S) \in S /\ \A y \in S : Min(S) <= y
  BY <1>1 DEF Min
<1>3. PICK x : x = Min(S)
  OBVIOUS
<1>4. x \in Int /\ m \in Int /\ x <= m /\ m <= x
  BY <1>2, <1>3
<1> QED
  BY <1>3, <1>4

(* A sequence cut down to one of its places. *)
LEMMA OnePlace ==
    ASSUME NEW s, IsSeq(s), NEW n \in 1 .. Len(s)
    PROVE  SubSeq(s, n, n) = <<s[n]>>
<1>1. Len(s) \in Nat /\ n \in Int
  BY IsSeqDomain
<1>2. PICK u : u = SubSeq(s, n, n)
  OBVIOUS
<1>3. PICK x : x = s[n]
  OBVIOUS
<1>4. IsSeq(u) /\ Len(u) = 1 /\ u[1] = x
  <2>1. \A i \in n .. n : s[i] \in {x}
    BY <1>1, <1>3
  <2>2. /\ SubSeq(s, n, n) \in Seq({x})
        /\ Len(SubSeq(s, n, n)) = IF n <= n THEN n - n + 1 ELSE 0
        /\ \A i \in 1 .. n - n + 1 : SubSeq(s, n, n)[i] = s[n + i - 1]
    BY <1>1, <2>1, SubSeqProperties
  <2>3. IsSeq(u)
    BY <1>2, <2>2, IsSeqOf
  <2> QED
    BY <1>1, <1>2, <1>3, <2>2, <2>3
<1>5. PICK v : v = <<x>>
  OBVIOUS
<1>6. IsSeq(v) /\ Len(v) = 1 /\ v[1] = x
  BY <1>5, EmptyAndSingle
<1>7. u = v
  BY <1>4, <1>6, SameSeq
<1> QED
  BY <1>2, <1>3, <1>5, <1>7, Zenon

Opens(path) == {k \in DOMAIN path : path[k] = "{"}

(* An opening brace of a path is closed by the brace after its name, the    *)
(* name between them is what was written there, a * aside, and the next     *)
(* placeholder opens later.                                                 *)
LEMMA BraceRead ==
    ASSUME NEW path, NEW ph, PathWritten(path, ph), NEW k \in Opens(path)
    PROVE  /\ NameAt(path, k) \in {k + 1, k + 2} /\ NameAt(path, k) + 1 \in 1 .. Len(path)
           /\ Closings(path, k) # {} /\ Min(Closings(path, k)) = NameAt(path, k) + 1
           /\ NameBetween(path, k) = <<path[NameAt(path, k)]>>
           /\ \A j \in Opens(path) : j > k => j > NameAt(path, k) + 1
<1>0. IsSeq(path) /\ k \in DOMAIN path /\ path[k] = "{"
  BY DEF PathWritten, Opens
<1>1. PICK N \in Nat : N = Len(path) /\ DOMAIN path = 1 .. N
  BY <1>0, IsSeqDomain
<1>2. PICK n : n = NameAt(path, k)
  OBVIOUS
<1>3. /\ n + 1 \in 1 .. N /\ path[n] \notin {"{", "}", "*"} /\ path[n + 1] = "}"
  BY <1>0, <1>1, <1>2 DEF PathWritten
<1>4. k \in 1 .. N /\ n = IF path[k + 1] = "*" THEN k + 2 ELSE k + 1
  BY <1>0, <1>1, <1>2 DEF NameAt
<1>5. n \in 1 .. N /\ n \in {k + 1, k + 2} /\ n > k
  <2>1. k \in Nat /\ n \in {k + 1, k + 2}
    BY <1>4
  <2>2. n \in Nat /\ n > k
    BY <2>1
  <2>3. n + 1 \in 1 .. N
    BY <1>3
  <2>4. n + 1 <= N /\ 1 <= n
    BY <2>1, <2>2, <2>3
  <2> QED
    BY <2>1, <2>2, <2>4
<1>6. \A j \in k + 1 .. n : path[j] \notin {"{", "}"}
  <2>1. \A j \in k + 1 .. n : j = n \/ (j = k + 1 /\ n = k + 2)
    BY <1>4
  <2>2. n = k + 2 => path[k + 1] = "*"
    BY <1>4
  <2> QED
    BY <1>3, <2>1, <2>2
<1>7. PICK C : C = Closings(path, k)
  OBVIOUS
<1>8. n + 1 \in C /\ C \subseteq 1 .. N /\ \A j \in C : n + 1 <= j
  <2>1. C = {j \in DOMAIN path : j > k /\ path[j] = "}"}
    BY <1>7 DEF Closings
  <2>2. n + 1 \in C /\ C \subseteq 1 .. N
    <3>1. n + 1 \in DOMAIN path /\ path[n + 1] = "}"
      BY <1>1, <1>3
    <3>2. n + 1 > k
      BY <1>4, <1>5
    <3>3. n + 1 \in C
      BY <2>1, <3>1, <3>2
    <3>4. C \subseteq 1 .. N
      BY <1>1, <2>1
    <3> QED
      BY <3>3, <3>4
  <2>3. \A j \in C : j > k /\ j \notin k + 1 .. n
    BY <1>1, <1>6, <2>1
  <2> QED
    BY <1>4, <1>5, <2>2, <2>3
<1>9. Min(C) = n + 1
  <2>1. C \subseteq Int /\ \E m : m = n + 1
    BY <1>1, <1>8
  <2>2. PICK m : m = n + 1
    OBVIOUS
  <2>3. m \in C /\ \A y \in C : m <= y
    BY <1>8, <2>2, Zenon
  <2> QED
    BY <2>1, <2>2, <2>3, MinimumIs, Zenon
<1>10. NameBetween(path, k) = <<path[n]>>
  <2>1. PICK J : J = {j \in k + 1 .. n + 1 : path[j] # "*"}
    OBVIOUS
  <2>2. n \in J /\ J \subseteq Int /\ \A j \in J : n <= j
    <3>1. n \in J /\ J \subseteq Int
      <4>1. n \in k + 1 .. n + 1 /\ k + 1 .. n + 1 \subseteq Int
        BY <1>4, <1>5
      <4>2. path[n] # "*"
        BY <1>3
      <4> QED
        BY <2>1, <4>1, <4>2
    <3>2. \A j \in J : j = k + 1 \/ j >= n
      BY <1>4, <1>5, <2>1
    <3>3. n = k + 2 => path[k + 1] = "*"
      BY <1>4
    <3> QED
      BY <1>4, <1>5, <2>1, <3>1, <3>2, <3>3
  <2>3. Min(J) = n
    BY <2>2, MinimumIs
  <2>4. n + 1 - 1 = n
    BY <1>5
  <2>5. NameBetween(path, k) = SubSeq(path, Min(J), n + 1 - 1)
    <3>1. NameBetween(path, k) =
             SubSeq(path, Min({j \in k + 1 .. Min(Closings(path, k)) : path[j] # "*"}), Min(Closings(path, k)) - 1)
      BY Zenon DEF NameBetween
    <3>2. Min(Closings(path, k)) = n + 1
      BY <1>7, <1>9, Zenon
    <3>3. {j \in k + 1 .. Min(Closings(path, k)) : path[j] # "*"} = J
      BY <2>1, <3>2
    <3>4. Min({j \in k + 1 .. Min(Closings(path, k)) : path[j] # "*"}) = Min(J)
      BY <3>3, Zenon
    <3>5. Min(Closings(path, k)) - 1 = n + 1 - 1
      <4>1. PICK c : c = Min(Closings(path, k))
        OBVIOUS
      <4>2. n \in Nat
        BY <1>4, <1>5
      <4>3. c = n + 1
        BY <3>2, <4>1, Zenon
      <4>4. c - 1 = n + 1 - 1
        BY <4>2, <4>3
      <4> QED
        BY <4>1, <4>4, Zenon
    <3> QED
      BY <3>1, <3>4, <3>5, Zenon
  <2>6. SubSeq(path, n, n) = <<path[n]>>
    BY <1>0, <1>1, <1>5, OnePlace
  <2> QED
    BY <2>3, <2>4, <2>5, <2>6, Zenon
<1>11. \A j \in Opens(path) : j > k => j > n + 1
  <2> SUFFICES ASSUME NEW j \in Opens(path), j > k PROVE j > n + 1
    OBVIOUS
  <2>1. j \in 1 .. N /\ path[j] = "{"
    BY <1>1 DEF Opens
  <2>2. j \notin k + 1 .. n /\ j # n + 1
    BY <1>3, <1>6, <2>1
  <2>3. j > k /\ j \in Nat /\ k \in Nat /\ n \in Nat
    <3>1. j \in Nat
      <4>1. \A x \in 1 .. N : x \in Nat
        OBVIOUS
      <4> QED
        BY <2>1, <4>1, Zenon
    <3>2. k \in Nat /\ n \in Nat
      BY <1>4, <1>5
    <3> QED
      BY <3>1, <3>2
  <2>4. ~(j <= n)
    BY <2>2, <2>3
  <2> QED
    BY <2>2, <2>3, <2>4
<1> QED
  BY <1>1, <1>2, <1>3, <1>5, <1>7, <1>8, <1>9, <1>10, <1>11

(* what is found is one piece each, the pieces that were meant *)
InPieces(found, meant) ==
    /\ IsSeq(found) /\ IsSeq(meant) /\ Len(found) = Len(meant)
    /\ \A i \in 1 .. Len(meant) : found[i] = <<meant[i]>>

(* One placeholder more is found as it was meant. *)
LEMMA OneMorePiece ==
    ASSUME NEW found, NEW meant, InPieces(found, meant), NEW x
    PROVE  InPieces(Append(found, <<x>>), Append(meant, x))
<1>1. PICK y : y = <<x>>
  OBVIOUS
<1>2. PICK a : a = Append(found, y)
  OBVIOUS
<1>3. PICK c : c = Append(meant, x)
  OBVIOUS
<1>4. IsSeq(found) /\ IsSeq(meant)
  BY DEF InPieces
<1>5. LongerBy(found, y, a) /\ LongerBy(meant, x, c)
  BY <1>2, <1>3, <1>4, OneLonger, Zenon
<1>6. PICK N \in Nat : N = Len(meant)
  BY <1>4, IsSeqDomain
<1>7. Len(found) = N /\ \A i \in 1 .. N : found[i] = <<meant[i]>>
  BY <1>6 DEF InPieces
<1>8. IsSeq(a) /\ IsSeq(c) /\ Len(a) = N + 1 /\ Len(c) = N + 1 /\ a[N + 1] = y /\ c[N + 1] = x
  BY <1>5, <1>6, <1>7 DEF LongerBy
<1>9. \A i \in 1 .. N : a[i] = found[i] /\ c[i] = meant[i]
  BY <1>5, <1>6, <1>7 DEF LongerBy
<1>10. \A i \in 1 .. N + 1 : a[i] = <<c[i]>>
  <2>1. \A i \in 1 .. N + 1 : i \in 1 .. N \/ i = N + 1
    OBVIOUS
  <2>2. a[N + 1] = <<c[N + 1]>>
    BY <1>1, <1>8, Zenon
  <2>3. \A i \in 1 .. N : a[i] = <<c[i]>>
    BY <1>7, <1>9, Zenon
  <2> QED
    BY <2>1, <2>2, <2>3, Zenon
<1>11. InPieces(a, c)
  BY <1>8, <1>10 DEF InPieces
<1> QED
  BY <1>1, <1>2, <1>3, <1>11, Zenon

(* path_placeholders finds the placeholders of a path: all of them, once    *)
(* each and in order.                                                       *)
LEMMA PlaceholdersFound ==
    ASSUME NEW path, NEW ph, PathWritten(path, ph)
    PROVE  InPieces(PathPlaceholders(path), ph)
<1> DEFINE T == ToSet(path)
           V == [names : Seq(Seq(T)), upto : Nat]
           O == Opens(path)
           start == [names |-> <<>>, upto |-> 0]
<1>0. IsSeq(path)
  BY DEF PathWritten
<1>1. PICK N \in Nat : N = Len(path) /\ DOMAIN path = 1 .. N
  BY <1>0, IsSeqDomain
<1>2. PICK nm : nm = [k \in DOMAIN path |-> IF k \in O THEN path[NameAt(path, k)] ELSE ""]
  OBVIOUS
<1>3. IsSeq(nm) /\ Len(nm) = N
  <2>1. Over(nm, DOMAIN path)
    BY <1>2 DEF Over
  <2> QED
    BY <1>0, <1>1, <2>1, OverPlaces
<1>4. ph = Kept(nm, O)
  <2>1. O = {k \in DOMAIN path : path[k] = "{"}
    BY DEF Opens
  <2> QED
    BY <1>2, <2>1, Zenon DEF PathWritten
<1>5. \A k \in O : nm[k] = path[NameAt(path, k)] /\ k \in 1 .. N
  BY <1>1, <1>2 DEF Opens
<1>6. PICK f : KeepsBy(f, nm, O, N)
  BY <1>3, KeptBy
<1>7. \A v, k : k \notin O => Scan(path, v, k) = v \/ k \notin 1 .. N
  BY <1>1, Zenon DEF Scan, Opens
<1>8. \A v, k : k \in O =>
         Scan(path, v, k) = IF k > v.upto
                            THEN [names |-> Append(v.names, <<nm[k]>>), upto |-> NameAt(path, k) + 1]
                            ELSE v
  <2> SUFFICES ASSUME NEW v, NEW k \in O
               PROVE  Scan(path, v, k) = IF k > v.upto
                            THEN [names |-> Append(v.names, <<nm[k]>>), upto |-> NameAt(path, k) + 1]
                            ELSE v
    BY Zenon
  <2>1. /\ Closings(path, k) # {} /\ Min(Closings(path, k)) = NameAt(path, k) + 1
        /\ NameBetween(path, k) = <<path[NameAt(path, k)]>>
    BY BraceRead
  <2>2. NameBetween(path, k) = <<nm[k]>>
    BY <1>5, <2>1, Zenon
  <2>3. path[k] = "{"
    BY DEF Opens
  <2> QED
    BY <2>1, <2>2, <2>3, Zenon DEF Scan
<1>9. \A v \in V, k \in 1 .. N : Scan(path, v, k) \in V
  <2> SUFFICES ASSUME NEW v \in V, NEW k \in 1 .. N PROVE Scan(path, v, k) \in V
    OBVIOUS
  <2>1. CASE k \notin O
    BY <1>7, <2>1, Zenon
  <2>2. CASE k \in O
    <3>1. nm[k] \in T /\ NameAt(path, k) + 1 \in Nat
      <4>1. NameAt(path, k) \in {k + 1, k + 2} /\ NameAt(path, k) + 1 \in 1 .. Len(path)
        BY <2>2, BraceRead
      <4>2. NameAt(path, k) \in 1 .. N
        BY <1>1, <4>1
      <4>3. path[NameAt(path, k)] \in T
        BY <1>1, <4>2 DEF ToSet
      <4> QED
        BY <1>1, <1>5, <2>2, <4>2, <4>3
    <3>2. PICK x : x = <<nm[k]>>
      OBVIOUS
    <3>3. x \in Seq(T)
      BY <3>1, <3>2
    <3>4. v.names \in Seq(Seq(T))
      OBVIOUS
    <3>5. PICK y : y = Append(v.names, x)
      OBVIOUS
    <3>6. y \in Seq(Seq(T))
      BY <3>3, <3>4, <3>5, AppendProperties
    <3>7. [names |-> y, upto |-> NameAt(path, k) + 1] \in V
      BY <3>1, <3>6
    <3> HIDE DEF V
    <3>8. Scan(path, v, k) = IF k > v.upto
                             THEN [names |-> y, upto |-> NameAt(path, k) + 1] ELSE v
      BY <1>8, <2>2, <3>2, <3>5, Zenon
    <3> QED
      BY <3>7, <3>8, Zenon
  <2> QED
    BY <2>1, <2>2
<1>10. start \in V
  BY EmptySeq
<1> DEFINE g == [p \in V \X (1 .. N) |-> Scan(path, p[1], p[2])]
           scan[k \in 0 .. N] == IF k = 0 THEN start ELSE Scan(path, scan[k - 1], k)
<1>11. PathPlaceholders(path) = scan[N].names
  BY <1>1 DEF PathPlaceholders
<1> HIDE DEF V, T, start
<1>12. g \in Steps(V, N)
  BY <1>9 DEF Steps
<1>13. PICK r : IsRun(r, V, start, g, N)
  <2> HIDE DEF g
  <2> QED
    BY <1>10, <1>12, RunExists
<1>14. r \in [0 .. N -> V] /\ r[0] = start /\ \A n \in 1 .. N : r[n] = Scan(path, r[n - 1], n)
  <2>1. r \in [0 .. N -> V] /\ r[0] = start /\ \A n \in 1 .. N : r[n] = g[<<r[n - 1], n>>]
    BY <1>13 DEF IsRun
  <2>2. \A n \in 1 .. N : <<r[n - 1], n>> \in V \X (1 .. N)
    BY <2>1
  <2> QED
    BY <2>1, <2>2
<1> HIDE DEF g
<1>15. scan = [k \in 0 .. N |-> IF k = 0 THEN start ELSE Scan(path, scan[k - 1], k)]
  <2>1. \A n \in 0 .. N : n = 0 \/ n \in 1 .. N
    OBVIOUS
  <2>2. \A n \in 0 .. N : r[n] = IF n = 0 THEN start ELSE Scan(path, r[n - 1], n)
    BY <1>14, <2>1, Zenon
  <2>3. r = [k \in 0 .. N |-> IF k = 0 THEN start ELSE Scan(path, r[k - 1], k)]
    BY <1>14, <2>2
  <2> QED
    BY <2>3
<1> HIDE DEF scan
<1>16. scan[0] = start /\ \A n \in 1 .. N : scan[n] = Scan(path, scan[n - 1], n)
  <2>1. 0 \in 0 .. N /\ \A n \in 1 .. N : n \in 0 .. N /\ n # 0
    OBVIOUS
  <2> QED
    BY <1>15, <2>1
<1>17. \A i \in 0 .. N : scan[i] = r[i]
  <2>1. \A i \in 1 .. N : scan[i - 1] = r[i - 1] => scan[i] = r[i]
    BY <1>14, <1>16, Zenon
  <2>2. scan[0] = r[0]
    BY <1>14, <1>16
  <2> QED
    BY <2>1, <2>2, RunsAgree
<1>18. \A n \in 0 .. N : r[n] \in V
  BY <1>14
<1> DEFINE Good(n) == /\ InPieces(r[n].names, f[n])
                      /\ \A j \in O : j > n => j > r[n].upto
           S == {n \in Nat : n <= N => Good(n)}
<1>19. 0 \in S
  <2>1. r[0].names = <<>> /\ r[0].upto = 0 /\ f[0] = <<>>
    BY <1>6, <1>14 DEF start, KeepsBy
  <2>2. InPieces(<<>>, <<>>)
    BY EmptyAndSingle DEF InPieces
  <2> QED
    BY <2>1, <2>2
<1>20. ASSUME NEW n \in Nat, n \in S, n + 1 <= N
       PROVE  Good(n + 1)
  <2>0. PICK m : m = n + 1
    OBVIOUS
  <2>1. m \in 1 .. N /\ m - 1 = n /\ n \in 0 .. N /\ Good(n)
    BY <1>20, <2>0
  <2>2. r[m] = Scan(path, r[n], m)
    BY <1>14, <2>1, Zenon
  <2>3. f[m] = IF m \in O THEN Append(f[n], nm[m]) ELSE f[n]
    <3>1. \A k \in 1 .. N : f[k] = IF k \in O THEN Append(f[k - 1], nm[k]) ELSE f[k - 1]
      BY <1>6, Zenon DEF KeepsBy
    <3> QED
      BY <2>1, <3>1, Zenon
  <2>4. \A j \in O : j \in 1 .. N /\ (j > m => j > n)
    BY <1>5, <2>0, <2>1
  <2> SUFFICES Good(m)
    BY <2>0, Zenon
  <2>5. CASE m \notin O
    <3>1. r[m] = r[n] /\ f[m] = f[n]
      BY <1>7, <2>1, <2>2, <2>3, <2>5, Zenon
    <3> QED
      BY <2>1, <2>4, <3>1, Zenon
  <2>6. CASE m \in O
    <3>1. m > r[n].upto
      <4>1. m > n
        BY <2>0
      <4> QED
        BY <2>1, <2>6, <4>1, Zenon
    <3>2. r[m] = [names |-> Append(r[n].names, <<nm[m]>>), upto |-> NameAt(path, m) + 1]
      BY <1>8, <2>2, <2>6, <3>1, Zenon
    <3>3. PICK x : x = nm[m]
      OBVIOUS
    <3>4. PICK a : a = Append(r[n].names, <<x>>)
      OBVIOUS
    <3>5. r[m] = [names |-> a, upto |-> NameAt(path, m) + 1]
      BY <3>2, <3>3, <3>4, Zenon
    <3>6. r[m].names = a /\ r[m].upto = NameAt(path, m) + 1
      BY <3>5
    <3>7. InPieces(a, f[m])
      BY <2>1, <2>3, <2>6, <3>3, <3>4, OneMorePiece, Zenon
    <3>8. \A j \in O : j > m => j > NameAt(path, m) + 1
      BY <2>6, BraceRead
    <3> QED
      BY <3>6, <3>7, <3>8, Zenon
  <2> QED
    BY <2>5, <2>6, Zenon
<1> HIDE DEF Good
<1>21. \A n \in Nat : n \in S => n + 1 \in S
  BY <1>20
<1>22. N \in S
  <2> HIDE DEF S
  <2> QED
    BY <1>19, <1>21, SetInduction
<1>23. Good(N)
  BY <1>22
<1>24. scan[N] = r[N]
  BY <1>17
<1>25. Kept(nm, O) = f[N]
  BY <1>6 DEF KeepsBy
<1> QED
  BY <1>4, <1>11, <1>23, <1>24, <1>25, Zenon DEF Good

-----------------------------------------------------------------------------
(* What the macros refuse.                                                  *)

(* Two keys with a comma between them are read back as these two. *)
LEMMA TwoKeysRead ==
    ASSUME NEW a, IsSeq(a), Enclosed(a), NEW b, IsSeq(b), Enclosed(b)
    PROVE  SplitTopLevelKeys((a \o <<Comma>>) \o b) = <<a, b>>
<1>1. PICK ks : ks = <<a, b>>
  OBVIOUS
<1>2. PICK one : one = <<a>>
  OBVIOUS
<1>3. PICK sep : sep = <<Comma>>
  OBVIOUS
<1>4. IsSeq(one) /\ Len(one) = 1 /\ one[1] = a /\ IsSeq(sep) /\ one # <<>>
  BY <1>2, <1>3, EmptyAndSingle
<1>5. ks = Append(one, b)
  BY <1>1, <1>2
<1>6. LongerBy(one, b, ks)
  BY <1>4, <1>5, OneLonger, Zenon
<1>7. IsSeq(ks) /\ Len(ks) = 2 /\ ks[1] = a /\ ks[2] = b
  BY <1>4, <1>6 DEF LongerBy
<1>8. DOMAIN ks = {1, 2} /\ DOMAIN one = {1}
  BY <1>4, <1>7, IsSeqDomain
<1>9. AreKeys(ks) /\ AllSeqs(one)
  BY <1>4, <1>7, <1>8 DEF AreKeys, AllSeqs
<1>10. CommaJoin(one) = a
  <2>1. AllSeqs(<<>>) /\ IsSeq(<<>>)
    BY EmptyAndSingle DEF AllSeqs
  <2>2. Joined(Append(<<>>, a), sep) = IF <<>> = <<>> THEN a ELSE (Joined(<<>>, sep) \o sep) \o a
    BY <1>4, <2>1, JoinedAppend
  <2>3. one = Append(<<>>, a)
    BY <1>2
  <2> QED
    BY <1>3, <2>2, <2>3, Zenon DEF CommaJoin
<1>11. CommaJoin(ks) = (a \o sep) \o b
  <2>1. Joined(Append(one, b), sep) = IF one = <<>> THEN b ELSE (Joined(one, sep) \o sep) \o b
    BY <1>4, <1>9, JoinedAppend
  <2> QED
    BY <1>3, <1>4, <1>5, <1>10, <2>1, Zenon DEF CommaJoin
<1>12. SplitTopLevelKeys(CommaJoin(ks)) = ks
  BY <1>9, SplittingTheJoined
<1> QED
  BY <1>1, <1>3, <1>11, <1>12, Zenon

(* An entry (status = n, body = T) is taken for a 200 exactly if n is 200,  *)
(* whatever is in T.                                                        *)
LEMMA StatusRead ==
    ASSUME NEW e, GoodType(e.body), NEW tt,
           tt = Paren(Assign("status", <<Number(e.status)>>) \o <<Comma>> \o Assign("body", TypeTokens(e.body)))
    PROVE  EntryHasStatus200(tt) <=> e.status \in TwoHundred
<1>1. PICK num : num = <<Number(e.status)>>
  OBVIOUS
<1>2. PICK a : a = Assign("status", num)
  OBVIOUS
<1>3. PICK b : b = Assign("body", TypeTokens(e.body))
  OBVIOUS
<1>4. IsSeq(num) /\ ToSet(num) = {Number(e.status)} /\ Enclosed(num)
  <2>1. Harmless(Number(e.status))
    BY HarmlessTokens
  <2> QED
    BY <1>1, <2>1, EnclosedSingle, EmptyAndSingle
<1>5. IsSeq(TypeTokens(e.body)) /\ Enclosed(TypeTokens(e.body))
  BY DEF GoodType
<1>6. IsSeq(a) /\ Enclosed(a) /\ KeyName(a) = "status"
  BY <1>2, <1>4, EnclosedKeys, AssignParts
<1>7. IsSeq(b) /\ Enclosed(b) /\ KeyName(b) = "body"
  BY <1>3, <1>5, EnclosedKeys, AssignParts
<1>8. PICK ts : ts = (a \o <<Comma>>) \o b
  OBVIOUS
<1>9. PICK ks : ks = <<a, b>>
  OBVIOUS
<1>10. SplitTopLevelKeys(ts) = ks
  BY <1>6, <1>7, <1>8, <1>9, TwoKeysRead, Zenon
<1>11. ToSet(ks) = {a, b}
  BY <1>9 DEF ToSet
<1>12. IsGroup(tt) /\ tt.group = "(" /\ tt.of = ts
  <2>1. tt = Paren(ts)
    BY <1>1, <1>2, <1>3, <1>8, Zenon
  <2>2. tt = [group |-> "(", of |-> ts]
    BY <2>1, Zenon DEF Paren, Group
  <2>3. PICK r : r = [group |-> "(", of |-> ts]
    OBVIOUS
  <2>4. "group" \in DOMAIN r /\ r.group = "(" /\ r.of = ts
    BY <2>3
  <2> QED
    BY <2>2, <2>3, <2>4, Zenon DEF IsGroup
<1>13. ToSet(a) = {Ident("status"), Punct("="), Number(e.status)}
  <2>1. PICK front : front = <<Ident("status"), Punct("=")>>
    OBVIOUS
  <2>2. IsSeq(front) /\ ToSet(front) = {Ident("status"), Punct("=")}
    <3>1. ToSet(front) = {Ident("status"), Punct("=")}
      BY <2>1 DEF ToSet
    <3>2. front \in Seq({Ident("status"), Punct("=")})
      BY <2>1
    <3> QED
      BY <3>1, <3>2, IsSeqOf
  <2>3. ToSet(front \o num) = ToSet(front) \union ToSet(num)
    BY <1>4, <2>2, Concatenation
  <2>4. a = front \o num
    BY <1>2, <2>1, Zenon DEF Assign
  <2> QED
    BY <1>4, <2>2, <2>3, <2>4
<1>14. \A n : Number(n) \in ToSet(a) <=> e.status = n
  <2> SUFFICES ASSUME NEW n
               PROVE  Number(n) \in ToSet(a) <=> e.status = n
    OBVIOUS
  <2>1. Number(n) # Ident("status") /\ Number(n) # Punct("=")
    <3>1. /\ "number" \in DOMAIN Number(n) /\ "number" \notin DOMAIN Ident("status")
          /\ "number" \notin DOMAIN Punct("=")
      BY DEF Number, Ident, Punct
    <3> QED
      BY <3>1, Zenon
  <2>2. Number(n) = Number(e.status) <=> e.status = n
    <3>1. Number(n).number = n /\ Number(e.status).number = e.status
      BY DEF Number
    <3> QED
      BY <3>1, Zenon
  <2> QED
    BY <1>13, <2>1, <2>2, Zenon
<1>15. (\E n \in TwoHundred : Number(n) \in ToSet(a)) <=> e.status \in TwoHundred
  BY <1>14
<1> QED
  BY <1>6, <1>7, <1>10, <1>11, <1>12, <1>15 DEF EntryHasStatus200

(* the entries of responses(...), as they are written *)
Entries(es) == [j \in DOMAIN es |-> WrittenEntry(es[j])]

(* The entries of responses(...) have no comma outside brackets. *)
LEMMA EntriesAreKeys ==
    ASSUME NEW es, IsSeq(es), \A j \in DOMAIN es : GoodType(es[j].body)
    PROVE  AreKeys(Entries(es)) /\ IsSeq(Entries(es)) /\ DOMAIN Entries(es) = DOMAIN es
           /\ Len(Entries(es)) = Len(es)
<1>1. PICK u : u = Entries(es)
  OBVIOUS
<1>2. Over(u, DOMAIN es) /\ \A j \in DOMAIN es : u[j] = WrittenEntry(es[j])
  BY <1>1 DEF Over, Entries
<1>3. IsSeq(u) /\ Len(u) = Len(es) /\ DOMAIN u = DOMAIN es
  BY <1>2, OverPlaces
<1>4. \A j \in DOMAIN es : IsSeq(u[j]) /\ Enclosed(u[j])
  <2> SUFFICES ASSUME NEW j \in DOMAIN es PROVE IsSeq(u[j]) /\ Enclosed(u[j])
    OBVIOUS
  <2>1. \A ts : Harmless(Paren(ts))
    BY HarmlessTokens DEF Paren
  <2>2. \A ts : IsSeq(<<Paren(ts)>>) /\ Enclosed(<<Paren(ts)>>)
    BY <2>1, EnclosedSingle, Zenon
  <2> QED
    BY <1>2, <2>2, Zenon DEF WrittenEntry
<1>5. AreKeys(u)
  BY <1>3, <1>4, Zenon DEF AreKeys, AllSeqs
<1> QED
  BY <1>1, <1>3, <1>5, Zenon

(* The macro sees a 200 in responses(...) exactly if one was written there. *)
LEMMA TwoHundredRead ==
    ASSUME NEW es, IsSeq(es), \A j \in DOMAIN es : GoodType(es[j].body)
    PROVE  Says200(CommaJoin(Entries(es))) <=> {e.status : e \in ToSet(es)} \intersect TwoHundred # {}
<1>1. PICK u : u = Entries(es)
  OBVIOUS
<1>2. AreKeys(u) /\ DOMAIN u = DOMAIN es
  BY <1>1, EntriesAreKeys
<1>3. SplitTopLevelKeys(CommaJoin(u)) = u
  BY <1>2, SplittingTheJoined
<1>4. ToSet(u) = {u[j] : j \in DOMAIN es} /\ ToSet(es) = {es[j] : j \in DOMAIN es}
  BY <1>2 DEF ToSet
<1>5. \A j \in DOMAIN es : (\E tt \in ToSet(u[j]) : EntryHasStatus200(tt)) <=> es[j].status \in TwoHundred
  <2> SUFFICES ASSUME NEW j \in DOMAIN es
               PROVE  (\E tt \in ToSet(u[j]) : EntryHasStatus200(tt)) <=> es[j].status \in TwoHundred
    OBVIOUS
  <2>1. PICK e : e = es[j]
    OBVIOUS
  <2>2. PICK t : t = Paren(Assign("status", <<Number(e.status)>>) \o <<Comma>> \o Assign("body", TypeTokens(e.body)))
    OBVIOUS
  <2>3. u[j] = <<t>>
    <3>1. u[j] = WrittenEntry(e)
      BY <1>1, <2>1 DEF Entries
    <3> QED
      BY <2>2, <3>1, Zenon DEF WrittenEntry
  <2>4. ToSet(<<t>>) = {t}
    BY EmptyAndSingle
  <2>5. GoodType(e.body)
    BY <2>1
  <2>6. EntryHasStatus200(t) <=> e.status \in TwoHundred
    BY <2>2, <2>5, StatusRead, Zenon
  <2>7. ToSet(u[j]) = {t}
    BY <2>3, <2>4, Zenon
  <2> QED
    BY <2>1, <2>6, <2>7, Zenon
<1>6. Says200(CommaJoin(u)) <=> \E j \in DOMAIN es : \E tt \in ToSet(u[j]) : EntryHasStatus200(tt)
  BY <1>3, <1>4 DEF Says200
<1>7. {e.status : e \in ToSet(es)} \intersect TwoHundred # {} <=> \E j \in DOMAIN es : es[j].status \in TwoHundred
  BY <1>4
<1> QED
  BY <1>1, <1>5, <1>6, <1>7, Zenon

(* The macro objects for one of its six reasons, and for nothing else. *)
LEMMA ObjectionMeans ==
    ASSUME NEW keys, NEW func, NEW sig, sig = InspectSignature(func),
           NEW body, body = InferredResponseBody(func.ret),
           NEW responses, responses = InnerOf(keys, "responses")
    PROVE  Objection(keys, func) # "none" <=>
              \/ Len(sig.json) > 1 \/ Len(sig.path) > 1 \/ Len(sig.query) > 1
              \/ BodiesConflict(keys, sig)
              \/ body # <<>> /\ responses # <<>> /\ Says200(responses[1])
              \/ body = <<>> /\ responses = <<>>
<1>1. Objection(keys, func) =
        CASE Len(sig.json) > 1 -> "two bodies"
          [] Len(sig.path) > 1 -> "two paths"
          [] Len(sig.query) > 1 -> "two queries"
          [] BodiesConflict(keys, sig) -> "body conflict"
          [] body # <<>> /\ responses # <<>> /\ Says200(responses[1]) -> "200 conflict"
          [] body = <<>> /\ responses = <<>> -> "no 200"
          [] OTHER -> "none"
  BY Zenon DEF Objection
<1> QED
  BY <1>1

(* As many types are found for a wrapper as there are arguments written     *)
(* with it, and the first is the first that was written.                    *)
LEMMA SignatureRead ==
    ASSUME NEW h, HandlerWritten(h), NEW w \in Wrapper
    PROVE  /\ Len(Wrapped(h.spelled.inputs, w)) = Len(Taking(h, w))
           /\ Wrapped(h.spelled.inputs, w) # <<>> <=> Taking(h, w) # <<>>
           /\ Taking(h, w) # <<>> => Wrapped(h.spelled.inputs, w)[1] = Taking(h, w)[1].type
<1>1. PICK wr : wr = Wrapped(h.spelled.inputs, w)
  OBVIOUS
<1>2. PICK taken : taken = Taking(h, w)
  OBVIOUS
<1>3. /\ IsSeq(wr) /\ IsSeq(taken) /\ Len(wr) = Len(taken)
      /\ \A i \in 1 .. Len(wr) : wr[i] = taken[i].type
  BY <1>1, <1>2, WrappedTaken
<1>4. PICK N \in Nat : N = Len(wr)
  BY <1>3, IsSeqDomain
<1>5. (wr = <<>> <=> N = 0) /\ (taken = <<>> <=> N = 0)
  BY <1>3, <1>4, EmptyAndSingle
<1>6. N # 0 => wr[1] = taken[1].type
  BY <1>3, <1>4
<1> QED
  BY <1>1, <1>2, <1>3, <1>5, <1>6, Zenon

(* What is read inside responses(...) and params(...) is what was written   *)
(* there.                                                                   *)
LEMMA InnersRead ==
    ASSUME NEW h, HandlerWritten(h), NEW keys, keys = WrittenKeys(h)
    PROVE  /\ InnerOf(keys, "responses") =
                 IF h.responses = <<>> THEN <<>> ELSE <<CommaJoin(Entries(h.responses[1]))>>
           /\ InnerOf(keys, "params") = IF h.params = <<>> THEN <<>> ELSE <<CommaJoin(h.params[1])>>
<1>1. \A x : <<x>> # <<>> /\ <<x>>[1] = x
  OBVIOUS
<1>2. /\ FindKey(keys, "responses") = ResponsesKey(h)
      /\ FindKey(keys, "params") = ParamsKey(h)
  BY AttributeRead, Zenon
<1>3. /\ ResponsesKey(h) = <<>> <=> h.responses = <<>>
      /\ ResponsesKey(h) # <<>> =>
                    ResponsesKey(h) =
                          <<Call("responses", CommaJoin([j \in DOMAIN h.responses[1] |->
                                                            WrittenEntry(h.responses[1][j])]))>>
  BY TheOptionalKeys, Zenon
<1>4. /\ ParamsKey(h) = <<>> <=> h.params = <<>>
      /\ ParamsKey(h) # <<>> => ParamsKey(h) = <<Call("params", CommaJoin(h.params[1]))>>
  BY TheOptionalKeys, Zenon
<1>5. \A name, ts : GroupInnerTokens(Call(name, ts)) = <<ts>>
  BY CallParts, Zenon
<1>6. \A name : InnerOf(keys, name) = IF FindKey(keys, name) = <<>> THEN <<>>
                                      ELSE GroupInnerTokens(FindKey(keys, name)[1])
  BY Zenon DEF InnerOf
<1>6a. \A name, ts : FindKey(keys, name) = <<Call(name, ts)>> => InnerOf(keys, name) = <<ts>>
  <2> SUFFICES ASSUME NEW name, NEW ts, FindKey(keys, name) = <<Call(name, ts)>>
               PROVE  InnerOf(keys, name) = <<ts>>
    BY Zenon
  <2>1. PICK c : c = Call(name, ts)
    OBVIOUS
  <2>2. FindKey(keys, name) = <<c>>
    BY <2>1, Zenon
  <2>3. FindKey(keys, name) # <<>> /\ FindKey(keys, name)[1] = c
    BY <1>1, <2>2, Zenon
  <2>4. InnerOf(keys, name) = GroupInnerTokens(c)
    BY <1>6, <2>3, Zenon
  <2> QED
    BY <1>5, <2>1, <2>4, Zenon
<1>7. InnerOf(keys, "params") = IF h.params = <<>> THEN <<>> ELSE <<CommaJoin(h.params[1])>>
  BY <1>2, <1>4, <1>6, <1>6a, Zenon
<1>8. InnerOf(keys, "responses") =
                 IF h.responses = <<>> THEN <<>> ELSE <<CommaJoin(Entries(h.responses[1]))>>
  <2>1. ResponsesKey(h) # <<>> => ResponsesKey(h) = <<Call("responses", CommaJoin(Entries(h.responses[1])))>>
    BY <1>3, Zenon DEF Entries
  <2> QED
    BY <1>2, <1>3, <1>6, <1>6a, <2>1, Zenon
<1> QED
  BY <1>7, <1>8

(* Two bodies conflict exactly if the written one is not the one that is    *)
(* taken.                                                                   *)
LEMMA BodiesCompared ==
    ASSUME NEW h, HandlerWritten(h), NEW keys, keys = WrittenKeys(h), NEW sig, sig = Sig(h)
    PROVE  BodiesConflict(keys, sig) <=>
              /\ h.body # <<>> /\ Taking(h, "AppJson") # <<>>
              /\ TypeTokens(h.body[1]) # TypeTokens(Taking(h, "AppJson")[1].type)
<1>1. \A x : <<x>> # <<>> /\ <<x>>[1] = x
  OBVIOUS
<1>2. ExplicitBody(keys) = BodyKey(h)
  BY AttributeRead, Zenon DEF ExplicitBody
<1>3. /\ BodyKey(h) = <<>> <=> h.body = <<>>
      /\ BodyKey(h) # <<>> => BodyKey(h) = <<Assign("request_body", TypeTokens(h.body[1]))>>
  BY TheOptionalKeys, Zenon
<1>4. "AppJson" \in Wrapper
  BY DEF Wrapper
<1>5. sig.json = Wrapped(h.spelled.inputs, "AppJson")
  BY DEF Sig, InspectSignature
<1>6. /\ sig.json # <<>> <=> Taking(h, "AppJson") # <<>>
      /\ Taking(h, "AppJson") # <<>> => sig.json[1] = Taking(h, "AppJson")[1].type
  BY <1>4, <1>5, SignatureRead, Zenon
<1>7. h.body # <<>> => ExplicitValue(BodyKey(h)[1]) = TypeTokens(h.body[1])
  <2> SUFFICES ASSUME h.body # <<>> PROVE ExplicitValue(BodyKey(h)[1]) = TypeTokens(h.body[1])
    OBVIOUS
  <2>1. IsSeq(TypeTokens(h.body[1]))
    <3>1. IsOption(h.body) /\ \A k \in DOMAIN h.body : GoodType(h.body[k])
      BY DEF HandlerWritten
    <3>2. DOMAIN h.body = {1}
      BY <3>1, OptionCases
    <3> QED
      BY <3>1, <3>2 DEF GoodType
  <2>2. PICK a : a = Assign("request_body", TypeTokens(h.body[1]))
    OBVIOUS
  <2>3. SubSeq(a, 3, Len(a)) = TypeTokens(h.body[1])
    BY <2>1, <2>2, AssignParts, Zenon
  <2>4. BodyKey(h)[1] = a
    BY <1>1, <1>3, <2>2, Zenon
  <2> QED
    BY <2>3, <2>4, Zenon DEF ExplicitValue
<1> QED
  BY <1>2, <1>3, <1>6, <1>7, Zenon DEF BodiesConflict

(* The route macros refuse exactly the handlers that are mistaken. *)
LEMMA RefusedIsObjectionable ==
    ASSUME NEW h, HandlerWritten(h)
    PROVE  IsError(Expanded(h)) <=> Objectionable(h)
<1>1. PICK keys : keys = WrittenKeys(h)
  OBVIOUS
<1>2. PICK sig : sig = Sig(h)
  OBVIOUS
<1>3. PICK responses : responses = InnerOf(keys, "responses")
  OBVIOUS
<1>4. InferredResponseBody(h.spelled.ret) = h.answers
  BY AnswerInferred
<1>5. Objection(keys, h.spelled) # "none" <=>
              \/ Len(sig.json) > 1 \/ Len(sig.path) > 1 \/ Len(sig.query) > 1
              \/ BodiesConflict(keys, sig)
              \/ h.answers # <<>> /\ responses # <<>> /\ Says200(responses[1])
              \/ h.answers = <<>> /\ responses = <<>>
  BY <1>2, <1>3, <1>4, ObjectionMeans DEF Sig
<1>6. Len(sig.json) > 1 \/ Len(sig.path) > 1 \/ Len(sig.query) > 1
         <=> \E w \in {"AppJson", "AppPath", "AppQuery"} : Len(Taking(h, w)) > 1
  <2>1. /\ sig.json = Wrapped(h.spelled.inputs, "AppJson")
        /\ sig.path = Wrapped(h.spelled.inputs, "AppPath")
        /\ sig.query = Wrapped(h.spelled.inputs, "AppQuery")
    BY <1>2 DEF Sig, InspectSignature
  <2>2. \A w \in Wrapper : Len(Wrapped(h.spelled.inputs, w)) = Len(Taking(h, w))
    BY SignatureRead
  <2>3. "AppJson" \in Wrapper /\ "AppPath" \in Wrapper /\ "AppQuery" \in Wrapper
    BY DEF Wrapper
  <2>4. /\ Len(sig.json) = Len(Taking(h, "AppJson")) /\ Len(sig.path) = Len(Taking(h, "AppPath"))
        /\ Len(sig.query) = Len(Taking(h, "AppQuery"))
    BY <2>1, <2>2, <2>3, Zenon
  <2> QED
    BY <2>4
<1>7. BodiesConflict(keys, sig) <=>
              /\ h.body # <<>> /\ Taking(h, "AppJson") # <<>>
              /\ TypeTokens(h.body[1]) # TypeTokens(Taking(h, "AppJson")[1].type)
  BY <1>1, <1>2, BodiesCompared
<1>8. /\ responses = <<>> <=> h.responses = <<>>
      /\ responses # <<>> => (Says200(responses[1]) <=> Statuses(h) \intersect TwoHundred # {})
      /\ responses = <<>> => ~(Statuses(h) \intersect TwoHundred # {})
  <2>1. responses = IF h.responses = <<>> THEN <<>> ELSE <<CommaJoin(Entries(h.responses[1]))>>
    BY <1>1, <1>3, InnersRead, Zenon
  <2>2. \A x : <<x>> # <<>> /\ <<x>>[1] = x
    OBVIOUS
  <2>3. CASE h.responses = <<>>
    <3>1. Statuses(h) = {}
      BY <2>3, Zenon DEF Statuses
    <3>2. ~(Statuses(h) \intersect TwoHundred # {})
      BY <3>1
    <3> QED
      BY <2>1, <2>3, <3>2, Zenon
  <2>4. CASE h.responses # <<>>
    <3>1. PICK es : es = h.responses[1]
      OBVIOUS
    <3>2. IsSeq(es) /\ \A j \in DOMAIN es : GoodType(es[j].body)
      <4>1. IsOption(h.responses) /\ \A k \in DOMAIN h.responses :
                /\ IsSeq(h.responses[k])
                /\ \A j \in DOMAIN h.responses[k] : GoodType(h.responses[k][j].body)
        BY DEF HandlerWritten
      <4>2. 1 \in DOMAIN h.responses
        BY <2>4, <4>1, OptionCases
      <4> QED
        BY <3>1, <4>1, <4>2, Zenon
    <3>3. Says200(CommaJoin(Entries(es))) <=> {e.status : e \in ToSet(es)} \intersect TwoHundred # {}
      BY <3>2, TwoHundredRead
    <3>4. Statuses(h) = {e.status : e \in ToSet(es)}
      BY <2>4, <3>1, Zenon DEF Statuses
    <3>5. responses # <<>> /\ responses[1] = CommaJoin(Entries(es))
      BY <2>1, <2>2, <2>4, <3>1, Zenon
    <3> QED
      BY <2>4, <3>3, <3>4, <3>5, Zenon
  <2> QED
    BY <2>3, <2>4
<1>9. StanoRoutesPath(h.deps) = <<>> <=> h.deps \intersect {"stano-axum", "stano-launcher", "stano-starter-rest"} = {}
  <2>1. \A x, y : <<x>> # <<>> /\ <<x, y>> # <<>>
    OBVIOUS
  <2>2. StanoRoutesPath(h.deps) = <<>> <=> /\ "stano-axum" \notin h.deps /\ "stano-launcher" \notin h.deps
                                           /\ "stano-starter-rest" \notin h.deps
    BY <2>1, Zenon DEF StanoRoutesPath
  <2> QED
    BY <2>2
<1>10. IsError(Expanded(h)) <=> \/ h.spelled.kind # "fn"
                                \/ Objection(keys, h.spelled) # "none"
                                \/ StanoRoutesPath(h.deps) = <<>>
  BY <1>1, ExpansionParts
<1> QED
  BY <1>5, <1>6, <1>7, <1>8, <1>9, <1>10, Zenon DEF Objectionable

-----------------------------------------------------------------------------
(* Lists of lists, and the commas between them.                             *)

(* What holds of no lists and stays true with one list more holds of all of *)
(* them.                                                                    *)
LEMMA ListInduction ==
    ASSUME NEW ss, AllSeqs(ss), NEW P, <<>> \in P,
           \A t \in Seq(ToSet(ss)), x \in ToSet(ss) :
              AllSeqs(t) /\ IsSeq(x) /\ t \in P => Append(t, x) \in P
    PROVE  ss \in P
<1>1. PICK T : T = ToSet(ss)
  OBVIOUS
<1>2. ss \in Seq(T) /\ \A x \in T : IsSeq(x)
  BY <1>1 DEF AllSeqs, IsSeq, ToSet
<1>3. ASSUME NEW t \in Seq(T) PROVE AllSeqs(t)
  <2>1. IsSeq(t) /\ ToSet(t) \subseteq T
    BY IsSeqOf
  <2>2. \A k \in DOMAIN t : t[k] \in ToSet(t)
    BY DEF ToSet
  <2>3. \A k \in DOMAIN t : IsSeq(t[k])
    BY <1>2, <2>1, <2>2
  <2> QED
    BY <2>1, <2>3 DEF AllSeqs
<1>4. \A t \in Seq(T), x \in T : t \in P => Append(t, x) \in P
  BY <1>1, <1>2, <1>3, Zenon
<1>5. \A t \in Seq(T) : t \in P
  BY <1>4, SeqInduction
<1> QED
  BY <1>2, <1>5

(* There is no comma in nothing. *)
LEMMA NoCommas == WithoutCommas(<<>>) = <<>>
BY KeptEmpty DEF WithoutCommas

(* One token more is left out exactly if it is a comma. *)
LEMMA OneTokenMore ==
    ASSUME NEW s, IsSeq(s), NEW x
    PROVE  /\ IsSeq(WithoutCommas(s))
           /\ WithoutCommas(Append(s, x)) = IF x = Comma THEN WithoutCommas(s) ELSE Append(WithoutCommas(s), x)
<1>1. PICK t : t = Append(s, x)
  OBVIOUS
<1>2. PICK I : I = {k \in DOMAIN s : s[k] # Comma}
  OBVIOUS
<1>3. PICK J : J = {k \in DOMAIN t : t[k] # Comma}
  OBVIOUS
<1>4. WithoutCommas(s) = Kept(s, I) /\ WithoutCommas(t) = Kept(t, J)
  BY <1>2, <1>3 DEF WithoutCommas
<1>5. /\ DOMAIN t = DOMAIN s \union {Len(s) + 1} /\ Len(s) + 1 \notin DOMAIN s
      /\ \A k \in DOMAIN s : t[k] = s[k]
  BY <1>1, DomainOfAppend
<1>6. t[Len(s) + 1] = x
  <2>1. LongerBy(s, x, t)
    BY <1>1, OneLonger
  <2> QED
    BY <2>1 DEF LongerBy
<1>7. (\A k \in DOMAIN s : k \in J <=> k \in I) /\ (Len(s) + 1 \in J <=> x # Comma)
  BY <1>2, <1>3, <1>5, <1>6
<1>8. Kept(Append(s, x), J) = IF Len(s) + 1 \in J THEN Append(Kept(s, I), x) ELSE Kept(s, I)
  BY <1>7, KeptOn
<1>9. IsSeq(Kept(s, I))
  BY KeptElements
<1> QED
  BY <1>1, <1>4, <1>7, <1>8, <1>9, Zenon

(* Leaving out the commas of two sequences in a row is leaving them out of  *)
(* each.                                                                    *)
LEMMA WithoutCommasOfBoth ==
    ASSUME NEW a, IsSeq(a), NEW b, IsSeq(b)
    PROVE  /\ IsSeq(WithoutCommas(a)) /\ IsSeq(WithoutCommas(b))
           /\ WithoutCommas(a \o b) = WithoutCommas(a) \o WithoutCommas(b)
<1> DEFINE W(s) == WithoutCommas(s)
           T == ToSet(b)
           P == {t \in Seq(T) : W(a \o t) = W(a) \o W(t)}
<1>0. \A s : IsSeq(s) => IsSeq(WithoutCommas(s))
  BY OneTokenMore
<1>1. <<>> \in P
  <2>1. a \o <<>> = a /\ W(<<>>) = <<>>
    BY EmptyAndSingle, NoCommas
  <2>2. W(a) \o <<>> = W(a)
    BY <1>0, EmptyAndSingle
  <2>3. W(a \o <<>>) = W(a) \o W(<<>>)
    BY <2>1, <2>2, Zenon
  <2> QED
    BY <2>3, EmptySeq
<1>2. ASSUME NEW t \in Seq(T), NEW x \in T, t \in P
      PROVE  Append(t, x) \in P
  <2>0. IsSeq(t) /\ Append(t, x) \in Seq(T) /\ W(a \o t) = W(a) \o W(t)
    BY <1>2, IsSeqOf, AppendProperties
  <2>1. PICK u : u = Append(t, x)
    OBVIOUS
  <2>2. PICK c : c = a \o t
    OBVIOUS
  <2>3. IsSeq(c)
    BY <2>0, <2>2, Concatenation
  <2>4. a \o u = Append(c, x)
    <3>1. u = t \o <<x>> /\ Append(c, x) = c \o <<x>>
      BY <2>0, <2>1, <2>3, Appending, Zenon
    <3>2. (a \o t) \o <<x>> = a \o (t \o <<x>>)
      <4>1. IsSeq(<<x>>)
        BY EmptyAndSingle
      <4> QED
        BY <2>0, <4>1, Associative
    <3> QED
      BY <2>2, <3>1, <3>2, Zenon
  <2>5. /\ W(u) = IF x = Comma THEN W(t) ELSE Append(W(t), x)
        /\ W(Append(c, x)) = IF x = Comma THEN W(c) ELSE Append(W(c), x)
    BY <2>0, <2>1, <2>3, OneTokenMore, Zenon
  <2>6. PICK wa : wa = W(a)
    OBVIOUS
  <2>7. PICK wt : wt = W(t)
    OBVIOUS
  <2>8. IsSeq(wa) /\ IsSeq(wt) /\ W(c) = wa \o wt
    BY <1>0, <2>0, <2>2, <2>6, <2>7, Zenon
  <2>9. Append(wa \o wt, x) = wa \o Append(wt, x)
    <3>1. IsSeq(wa \o wt) /\ IsSeq(<<x>>)
      BY <2>8, Concatenation, EmptyAndSingle
    <3>2. Append(wa \o wt, x) = (wa \o wt) \o <<x>>
      BY <3>1, Appending
    <3>3. Append(wt, x) = wt \o <<x>>
      BY <2>8, Appending
    <3>4. (wa \o wt) \o <<x>> = wa \o (wt \o <<x>>)
      BY <2>8, <3>1, Associative
    <3> QED
      BY <3>2, <3>3, <3>4, Zenon
  <2>10. W(a \o u) = wa \o W(u)
    BY <2>4, <2>5, <2>7, <2>8, <2>9, Zenon
  <2> QED
    BY <2>0, <2>1, <2>6, <2>10, Zenon
<1>3. b \in P
  <2>1. b \in Seq(T)
    BY DEF IsSeq
  <2>2. \A t \in Seq(T), x \in T : t \in P => Append(t, x) \in P
    BY <1>2
  <2> HIDE DEF P
  <2>3. \A t \in Seq(T) : t \in P
    BY <1>1, <2>2, SeqInduction
  <2> QED
    BY <2>1, <2>3
<1> QED
  BY <1>0, <1>3

(* Two rows of sequences one after the other are flattened one after the    *)
(* other.                                                                   *)
LEMMA FlattenBoth ==
    ASSUME NEW a, AllSeqs(a), NEW b, AllSeqs(b)
    PROVE  /\ AllSeqs(a \o b) /\ IsSeq(FlattenSeq(a)) /\ IsSeq(FlattenSeq(b))
           /\ FlattenSeq(a \o b) = FlattenSeq(a) \o FlattenSeq(b)
<1> DEFINE F(s) == FlattenSeq(s)
           P == {t \in Seq(ToSet(b)) : AllSeqs(a \o t) /\ F(a \o t) = F(a) \o F(t)}
<1>0. \A s : AllSeqs(s) => IsSeq(FlattenSeq(s)) /\ IsSeq(s)
  <2>1. \A s : AllSeqs(s) => IsSeq(FlattenSeq(s))
    BY FlattenAppend, EmptyAndSingle
  <2> QED
    BY <2>1 DEF AllSeqs
<1>1. <<>> \in P
  <2>1. a \o <<>> = a /\ F(<<>>) = <<>>
    BY <1>0, EmptyAndSingle, FlattenEmpty
  <2>2. F(a) \o <<>> = F(a)
    BY <1>0, EmptyAndSingle
  <2>3. F(a \o <<>>) = F(a) \o F(<<>>) /\ AllSeqs(a \o <<>>)
    BY <2>1, <2>2, Zenon
  <2> QED
    BY <2>3, EmptySeq
<1>2. ASSUME NEW t \in Seq(ToSet(b)), NEW x \in ToSet(b), AllSeqs(t), IsSeq(x), t \in P
      PROVE  Append(t, x) \in P
  <2>0. IsSeq(t) /\ Append(t, x) \in Seq(ToSet(b)) /\ F(a \o t) = F(a) \o F(t) /\ AllSeqs(a \o t) /\ IsSeq(a)
    BY <1>0, <1>2, IsSeqOf, AppendProperties
  <2>1. PICK u : u = Append(t, x)
    OBVIOUS
  <2>2. PICK c : c = a \o t
    OBVIOUS
  <2>3. AllSeqs(c) /\ IsSeq(c)
    BY <1>0, <2>0, <2>2, Zenon
  <2>4. a \o u = Append(c, x)
    <3>1. u = t \o <<x>> /\ Append(c, x) = c \o <<x>>
      BY <2>0, <2>1, <2>3, Appending, Zenon
    <3>2. (a \o t) \o <<x>> = a \o (t \o <<x>>)
      <4>1. IsSeq(<<x>>)
        BY EmptyAndSingle
      <4> QED
        BY <2>0, <4>1, Associative
    <3> QED
      BY <2>2, <3>1, <3>2, Zenon
  <2>5. F(u) = F(t) \o x /\ F(Append(c, x)) = F(c) \o x /\ AllSeqs(Append(c, x))
    BY <1>2, <2>1, <2>3, FlattenAppend, Zenon
  <2>6. PICK fa : fa = F(a)
    OBVIOUS
  <2>7. PICK ft : ft = F(t)
    OBVIOUS
  <2>8. IsSeq(fa) /\ IsSeq(ft) /\ F(c) = fa \o ft
    BY <1>0, <1>2, <2>0, <2>2, <2>6, <2>7, Zenon
  <2>9. (fa \o ft) \o x = fa \o (ft \o x)
    BY <1>2, <2>8, Associative
  <2>10. F(a \o u) = fa \o F(u) /\ AllSeqs(a \o u)
    BY <2>4, <2>5, <2>7, <2>8, <2>9, Zenon
  <2> QED
    BY <2>0, <2>1, <2>6, <2>10, Zenon
<1>3. b \in P
  <2>2. \A t \in Seq(ToSet(b)), x \in ToSet(b) : AllSeqs(t) /\ IsSeq(x) /\ t \in P => Append(t, x) \in P
    BY <1>2
  <2> HIDE DEF P
  <2> QED
    BY <1>1, <2>2, ListInduction
<1> QED
  BY <1>0, <1>3

(* Joining with commas instead of flattening adds only commas. *)
LEMMA CommasJoinNothing ==
    ASSUME NEW ss, AllSeqs(ss)
    PROVE  /\ IsSeq(CommaJoin(ss)) /\ IsSeq(FlattenSeq(ss))
           /\ WithoutCommas(CommaJoin(ss)) = WithoutCommas(FlattenSeq(ss))
<1> DEFINE W(s) == WithoutCommas(s)
           P == {t \in Seq(ToSet(ss)) : W(CommaJoin(t)) = W(FlattenSeq(t))}
<1>0. PICK sep : sep = <<Comma>>
  OBVIOUS
<1>0a. IsSeq(sep) /\ W(sep) = <<>>
  <2>1. sep = Append(<<>>, Comma) /\ IsSeq(<<>>)
    BY <1>0, EmptyAndSingle
  <2>2. W(Append(<<>>, Comma)) = IF Comma = Comma THEN W(<<>>) ELSE Append(W(<<>>), Comma)
    BY <2>1, OneTokenMore
  <2> QED
    BY <1>0, <2>1, <2>2, NoCommas, EmptyAndSingle, Zenon
<1>0b. \A t : AllSeqs(t) => IsSeq(CommaJoin(t)) /\ IsSeq(FlattenSeq(t))
  <2>1. \A t : AllSeqs(t) => IsSeq(FlattenSeq(t))
    BY FlattenAppend, EmptyAndSingle
  <2>2. \A t : AllSeqs(t) => IsSeq(Joined(t, sep))
    BY <1>0a, JoinedAppend, EmptyAndSingle
  <2> QED
    BY <1>0, <2>1, <2>2, Zenon DEF CommaJoin
<1>1. <<>> \in P
  <2>1. CommaJoin(<<>>) = <<>> /\ FlattenSeq(<<>>) = <<>>
    BY JoinedEmpty, FlattenEmpty DEF CommaJoin
  <2> QED
    BY <2>1, EmptySeq
<1>2. ASSUME NEW t \in Seq(ToSet(ss)), NEW x \in ToSet(ss), AllSeqs(t), IsSeq(x), t \in P
      PROVE  Append(t, x) \in P
  <2>0. Append(t, x) \in Seq(ToSet(ss)) /\ W(CommaJoin(t)) = W(FlattenSeq(t))
    BY <1>2, AppendProperties
  <2>1. PICK u : u = Append(t, x)
    OBVIOUS
  <2>2. PICK j : j = CommaJoin(t)
    OBVIOUS
  <2>3. PICK f : f = FlattenSeq(t)
    OBVIOUS
  <2>4. IsSeq(j) /\ IsSeq(f) /\ W(j) = W(f)
    BY <1>0b, <1>2, <2>0, <2>2, <2>3, Zenon
  <2>5. CommaJoin(u) = IF t = <<>> THEN x ELSE (j \o sep) \o x
    <3>1. Joined(Append(t, x), sep) = IF t = <<>> THEN x ELSE (Joined(t, sep) \o sep) \o x
      BY <1>0a, <1>2, JoinedAppend
    <3> QED
      BY <1>0, <2>1, <2>2, <3>1, Zenon DEF CommaJoin
  <2>6. FlattenSeq(u) = f \o x
    BY <1>2, <2>1, <2>3, FlattenAppend, Zenon
  <2>7. W(f \o x) = W(f) \o W(x)
    BY <1>2, <2>4, WithoutCommasOfBoth
  <2>8. W(CommaJoin(u)) = W(FlattenSeq(u))
    <3>1. CASE t = <<>>
      <4>1. f = <<>> /\ <<>> \o x = x
        BY <1>2, <2>3, <3>1, FlattenEmpty, EmptyAndSingle
      <4> QED
        BY <2>5, <2>6, <3>1, <4>1, Zenon
    <3>2. CASE t # <<>>
      <4>1. W(j \o sep) = W(j) \o W(sep) /\ IsSeq(W(j))
        BY <1>0a, <2>4, WithoutCommasOfBoth
      <4>2. W(j) \o <<>> = W(j)
        BY <4>1, EmptyAndSingle
      <4>3. W(j \o sep) = W(j)
        BY <1>0a, <4>1, <4>2, Zenon
      <4>4. IsSeq(j \o sep)
        BY <1>0a, <2>4, Concatenation
      <4>5. W((j \o sep) \o x) = W(j \o sep) \o W(x)
        BY <1>2, <4>4, WithoutCommasOfBoth
      <4> QED
        BY <2>4, <2>5, <2>6, <2>7, <3>2, <4>3, <4>5, Zenon
    <3> QED
      BY <3>1, <3>2
  <2> QED
    BY <2>0, <2>1, <2>8, Zenon
<1>3. ss \in P
  <2>2. \A t \in Seq(ToSet(ss)), x \in ToSet(ss) : AllSeqs(t) /\ IsSeq(x) /\ t \in P => Append(t, x) \in P
    BY <1>2
  <2> HIDE DEF P
  <2> QED
    BY <1>1, <2>2, ListInduction
<1> QED
  BY <1>0b, <1>3

(* A function over the places of two sequences in a row is one function     *)
(* over each, in a row.                                                     *)
LEMMA OverBoth ==
    ASSUME NEW s, IsSeq(s), NEW t, IsSeq(t), NEW u, Over(u, DOMAIN s), NEW v, Over(v, DOMAIN t),
           NEW w, Over(w, DOMAIN (s \o t)),
           \A i \in 1 .. Len(s) : w[i] = u[i],
           \A i \in 1 .. Len(t) : w[Len(s) + i] = v[i]
    PROVE  w = u \o v
<1>1. PICK M \in Nat : M = Len(s)
  BY IsSeqDomain
<1>2. PICK N \in Nat : N = Len(t)
  BY IsSeqDomain
<1>3. IsSeq(u) /\ Len(u) = M /\ IsSeq(v) /\ Len(v) = N
  BY <1>1, <1>2, OverPlaces
<1>4. PICK c : c = s \o t
  OBVIOUS
<1>5. IsSeq(c) /\ Len(c) = M + N
  BY <1>1, <1>2, <1>4, Concatenation
<1>6. IsSeq(w) /\ Len(w) = M + N
  BY <1>4, <1>5, OverPlaces
<1>7. PICK d : d = u \o v
  OBVIOUS
<1>8. /\ IsSeq(d) /\ Len(d) = M + N
      /\ \A i \in 1 .. M : d[i] = u[i]
      /\ \A i \in 1 .. N : d[M + i] = v[i]
  <2>1. /\ IsSeq(u \o v) /\ Len(u \o v) = Len(u) + Len(v)
        /\ \A i \in 1 .. Len(u) : (u \o v)[i] = u[i]
        /\ \A i \in 1 .. Len(v) : (u \o v)[Len(u) + i] = v[i]
    <3>1. IsSeq(u) /\ IsSeq(v)
      BY <1>3
    <3> QED
      BY <3>1, Concatenation
  <2> QED
    BY <1>3, <1>7, <2>1, Zenon
<1>9. ASSUME NEW i \in 1 .. M + N PROVE w[i] = d[i]
  <2>1. CASE i \in 1 .. M
    BY <1>1, <1>8, <2>1
  <2>2. CASE i \notin 1 .. M
    <3>1. PICK j \in 1 .. N : i = M + j
      <4>1. i - M \in 1 .. N /\ i = M + (i - M)
        BY <2>2
      <4> QED
        BY <4>1
    <3>2. w[M + j] = v[j] /\ d[M + j] = v[j]
      BY <1>1, <1>2, <1>8, Zenon
    <3> QED
      BY <3>1, <3>2, Zenon
  <2> QED
    BY <2>1, <2>2
<1>10. w = d
  BY <1>6, <1>8, <1>9, SameSeq
<1> QED
  BY <1>7, <1>10, Zenon

(* One list alone, flattened or joined, is that list. *)
LEMMA OneList ==
    ASSUME NEW x, IsSeq(x)
    PROVE  AllSeqs(<<x>>) /\ FlattenSeq(<<x>>) = x /\ CommaJoin(<<x>>) = x
<1>1. AllSeqs(<<>>) /\ <<x>> = Append(<<>>, x)
  BY EmptyAndSingle DEF AllSeqs
<1>2. FlattenSeq(Append(<<>>, x)) = FlattenSeq(<<>>) \o x /\ AllSeqs(Append(<<>>, x))
  BY <1>1, FlattenAppend
<1>3. <<>> \o x = x
  BY EmptyAndSingle
<1>4. PICK sep : sep = <<Comma>> /\ IsSeq(sep)
  BY EmptyAndSingle
<1>5. Joined(Append(<<>>, x), sep) = IF <<>> = <<>> THEN x ELSE (Joined(<<>>, sep) \o sep) \o x
  BY <1>1, <1>4, JoinedAppend
<1> QED
  BY <1>1, <1>2, <1>3, <1>4, <1>5, FlattenEmpty, Zenon DEF CommaJoin

(* o is the list b in one piece, if there is one *)
AsOne(o, b) == o = <<CommaJoin(b)>> \/ (o = <<>> /\ b = <<>>)

(* The inferred entries joined with what was written in one piece are,      *)
(* commas aside, the inferred entries and the written ones in a row.        *)
LEMMA ListsTogether ==
    ASSUME NEW a, AllSeqs(a), NEW b, AllSeqs(b), NEW o, AsOne(o, b)
    PROVE  WithoutCommas(CommaJoin(a \o o)) = WithoutCommas(FlattenSeq(a \o b))
<1>1. CASE o = <<>> /\ b = <<>>
  <2>1. a \o <<>> = a
    BY EmptyAndSingle DEF AllSeqs
  <2>2. WithoutCommas(CommaJoin(a)) = WithoutCommas(FlattenSeq(a))
    BY CommasJoinNothing
  <2> QED
    BY <1>1, <2>1, <2>2, Zenon
<1>2. CASE o = <<CommaJoin(b)>>
  <2>1. PICK x : x = CommaJoin(b)
    OBVIOUS
  <2>2. IsSeq(x) /\ IsSeq(FlattenSeq(b)) /\ WithoutCommas(x) = WithoutCommas(FlattenSeq(b))
    BY <2>1, CommasJoinNothing
  <2>3. PICK y : y = <<x>>
    OBVIOUS
  <2>4. AllSeqs(y) /\ FlattenSeq(y) = x
    BY <2>2, <2>3, OneList, Zenon
  <2>5. /\ AllSeqs(a \o y) /\ IsSeq(FlattenSeq(a))
        /\ FlattenSeq(a \o y) = FlattenSeq(a) \o FlattenSeq(y)
    BY <2>4, FlattenBoth
  <2>6. FlattenSeq(a \o b) = FlattenSeq(a) \o FlattenSeq(b)
    BY FlattenBoth
  <2>7. WithoutCommas(CommaJoin(a \o y)) = WithoutCommas(FlattenSeq(a \o y))
    BY <2>5, CommasJoinNothing
  <2>8. PICK fa : fa = FlattenSeq(a)
    OBVIOUS
  <2>9. PICK fb : fb = FlattenSeq(b)
    OBVIOUS
  <2>10. /\ WithoutCommas(fa \o x) = WithoutCommas(fa) \o WithoutCommas(x)
         /\ WithoutCommas(fa \o fb) = WithoutCommas(fa) \o WithoutCommas(fb)
    BY <2>2, <2>5, <2>8, <2>9, WithoutCommasOfBoth
  <2>11. WithoutCommas(CommaJoin(a \o y)) = WithoutCommas(FlattenSeq(a \o b))
    BY <2>2, <2>4, <2>5, <2>6, <2>7, <2>8, <2>9, <2>10, Zenon
  <2>12. o = y
    BY <1>2, <2>1, <2>3, Zenon
  <2> QED
    BY <2>11, <2>12, Zenon
<1> QED
  BY <1>1, <1>2 DEF AsOne

(* A key name(tokens), its inner commas left out. *)
LEMMA PlainOfCall ==
    ASSUME NEW name, NEW ts
    PROVE  Plain(Call(name, ts)) = <<Ident(name), Paren(WithoutCommas(ts))>>
<1>1. PICK c : c = Call(name, ts)
  OBVIOUS
<1>2. GroupInnerTokens(c) = <<ts>> /\ c[1] = Ident(name) /\ c[2].of = ts
  BY <1>1, CallParts, Zenon
<1>3. <<ts>> # <<>>
  OBVIOUS
<1>4. Plain(c) = <<c[1], Paren(WithoutCommas(c[2].of))>>
  BY <1>2, <1>3, Zenon DEF Plain
<1> QED
  BY <1>1, <1>2, <1>4, Zenon

(* The entries of two lists in a row are those of each, in a row. *)
LEMMA EntriesOfBoth ==
    ASSUME NEW s, IsSeq(s), NEW t, IsSeq(t)
    PROVE  Entries(s \o t) = Entries(s) \o Entries(t)
<1>1. PICK c : c = s \o t
  OBVIOUS
<1>2. PICK M \in Nat : M = Len(s) /\ DOMAIN s = 1 .. M
  BY IsSeqDomain
<1>3. PICK N \in Nat : N = Len(t) /\ DOMAIN t = 1 .. N
  BY IsSeqDomain
<1>4. /\ IsSeq(c) /\ Len(c) = M + N
      /\ \A i \in 1 .. M : c[i] = s[i]
      /\ \A i \in 1 .. N : c[M + i] = t[i]
  BY <1>1, <1>2, <1>3, Concatenation
<1>5. DOMAIN c = 1 .. M + N
  BY <1>4, IsSeqDomain
<1>6. PICK u : u = Entries(s)
  OBVIOUS
<1>7. PICK v : v = Entries(t)
  OBVIOUS
<1>8. PICK w : w = Entries(c)
  OBVIOUS
<1>9. Over(u, DOMAIN s) /\ Over(v, DOMAIN t) /\ Over(w, DOMAIN c)
  BY <1>6, <1>7, <1>8 DEF Over, Entries
<1>10. /\ \A i \in 1 .. M : u[i] = WrittenEntry(s[i])
       /\ \A i \in 1 .. N : v[i] = WrittenEntry(t[i])
       /\ \A i \in 1 .. M + N : w[i] = WrittenEntry(c[i])
  BY <1>2, <1>3, <1>5, <1>6, <1>7, <1>8 DEF Entries
<1>11. \A i \in 1 .. M : w[i] = u[i]
  <2>1. \A i \in 1 .. M : i \in 1 .. M + N
    OBVIOUS
  <2> QED
    BY <1>4, <1>10, <2>1, Zenon
<1>12. \A i \in 1 .. N : w[M + i] = v[i]
  <2>1. \A i \in 1 .. N : M + i \in 1 .. M + N
    OBVIOUS
  <2> QED
    BY <1>4, <1>10, <2>1, Zenon
<1>13. w = u \o v
  BY <1>1, <1>2, <1>3, <1>9, <1>11, <1>12, OverBoth
<1> QED
  BY <1>1, <1>6, <1>7, <1>8, <1>13, Zenon

(* the list of an option of lists *)
LEMMA FlattenOption ==
    ASSUME NEW o, IsOption(o), \A k \in DOMAIN o : IsSeq(o[k])
    PROVE  /\ IsSeq(FlattenSeq(o)) /\ AllSeqs(o)
           /\ FlattenSeq(o) = IF o = <<>> THEN <<>> ELSE o[1]
<1>1. AllSeqs(o)
  BY OptionCases DEF AllSeqs
<1>2. CASE o = <<>>
  BY <1>1, <1>2, FlattenEmpty, EmptyAndSingle, Zenon
<1>3. CASE o # <<>>
  <2>1. PICK x : x = o[1]
    OBVIOUS
  <2>2. o = <<x>> /\ IsSeq(x)
    BY <1>3, <2>1, OptionCases
  <2>3. FlattenSeq(<<x>>) = x
    BY <2>2, OneList
  <2> QED
    BY <1>1, <1>3, <2>1, <2>2, <2>3, Zenon
<1> QED
  BY <1>2, <1>3

-----------------------------------------------------------------------------
(* What the expansion of a handler says.                                    *)

(* a call that says the same as another, commas apart *)
SaysAlike(s, name, ts) == \E us : s = <<Call(name, us)>> /\ WithoutCommas(us) = WithoutCommas(ts)

MeantEntries(h) == FlattenSeq(Entries(MeantResponses(h)))

(* The responses that are documented are the inferred 200 entry and then    *)
(* the written entries, commas aside.                                       *)
LEMMA ResponsesMeant ==
    ASSUME NEW h, HandlerWritten(h)
    PROVE  SaysAlike(ResponsesArgs(WrittenKeys(h), h.spelled), "responses", MeantEntries(h))
<1>1. PICK first : first = IF h.answers = <<>> THEN <<>> ELSE <<[status |-> "200", body |-> h.answers[1]]>>
  OBVIOUS
<1>2. PICK rest : rest = FlattenSeq(h.responses)
  OBVIOUS
<1>3. InferredResponseBody(h.spelled.ret) = h.answers /\ (h.answers # <<>> => GoodType(h.answers[1]))
  BY AnswerInferred
<1>4. IsSeq(first) /\ \A j \in DOMAIN first : GoodType(first[j].body)
  <2>1. CASE h.answers = <<>>
    <3>1. first = <<>>
      BY <1>1, <2>1, Zenon
    <3>2. DOMAIN first = {}
      BY <3>1
    <3> QED
      BY <3>1, <3>2, EmptyAndSingle
  <2>2. CASE h.answers # <<>>
    <3>1. PICK e : e = [status |-> "200", body |-> h.answers[1]]
      OBVIOUS
    <3>2. first = <<e>> /\ e.body = h.answers[1]
      BY <1>1, <2>2, <3>1
    <3>3. IsSeq(<<e>>) /\ DOMAIN <<e>> = {1} /\ <<e>>[1] = e
      BY EmptyAndSingle
    <3>4. GoodType(e.body)
      BY <1>3, <2>2, <3>2, Zenon
    <3> QED
      BY <3>2, <3>3, <3>4
  <2> QED
    BY <2>1, <2>2
<1>5. /\ IsSeq(rest) /\ \A j \in DOMAIN rest : GoodType(rest[j].body)
      /\ rest = IF h.responses = <<>> THEN <<>> ELSE h.responses[1]
  <2>1. IsOption(h.responses) /\ \A k \in DOMAIN h.responses :
                /\ IsSeq(h.responses[k])
                /\ \A j \in DOMAIN h.responses[k] : GoodType(h.responses[k][j].body)
    BY DEF HandlerWritten
  <2>2. IsSeq(rest) /\ rest = IF h.responses = <<>> THEN <<>> ELSE h.responses[1]
    BY <1>2, <2>1, FlattenOption
  <2>3. h.responses # <<>> => 1 \in DOMAIN h.responses
    BY <2>1, OptionCases
  <2>4. CASE h.responses = <<>>
    <3>1. DOMAIN rest = {}
      BY <2>2, <2>4
    <3> QED
      BY <2>2, <3>1
  <2>5. CASE h.responses # <<>>
    <3>1. rest = h.responses[1]
      BY <2>2, <2>5, Zenon
    <3> QED
      BY <2>1, <2>2, <2>3, <2>5, <3>1, Zenon
  <2> QED
    BY <2>4, <2>5
<1>6. PICK a : a = Entries(first)
  OBVIOUS
<1>7. PICK b : b = Entries(rest)
  OBVIOUS
<1>8. AllSeqs(a) /\ AllSeqs(b)
  BY <1>4, <1>5, <1>6, <1>7, EntriesAreKeys DEF AreKeys
<1>9. MeantEntries(h) = FlattenSeq(a \o b)
  <2>1. MeantResponses(h) = first \o rest
    BY <1>1, <1>2, Zenon DEF MeantResponses
  <2>2. Entries(first \o rest) = a \o b
    BY <1>4, <1>5, <1>6, <1>7, EntriesOfBoth, Zenon
  <2> QED
    BY <2>1, <2>2, Zenon DEF MeantEntries
<1>10. PICK o : o = InnerOf(WrittenKeys(h), "responses")
  OBVIOUS
<1>11. AsOne(o, b)
  <2>1. o = IF h.responses = <<>> THEN <<>> ELSE <<CommaJoin(Entries(h.responses[1]))>>
    BY <1>10, InnersRead, Zenon
  <2>2. CASE h.responses = <<>>
    <3>1. rest = <<>> /\ o = <<>>
      BY <1>5, <2>1, <2>2, Zenon
    <3>2. Entries(<<>>) = <<>>
      <4>1. IsSeq(<<>>) /\ Len(<<>>) = 0 /\ \A j \in DOMAIN <<>> : GoodType(<<>>[j].body)
        BY EmptyAndSingle
      <4>2. IsSeq(Entries(<<>>)) /\ Len(Entries(<<>>)) = Len(<<>>)
        BY <4>1, EntriesAreKeys
      <4> QED
        BY <4>1, <4>2, EmptyAndSingle
    <3> QED
      BY <1>7, <3>1, <3>2, Zenon DEF AsOne
  <2>3. CASE h.responses # <<>>
    BY <1>5, <1>7, <2>1, <2>3, Zenon DEF AsOne
  <2> QED
    BY <2>2, <2>3
<1>12. a = IF h.answers = <<>> THEN <<>> ELSE <<Entry200(h.answers[1])>>
  <2>1. CASE h.answers = <<>>
    <3>1. first = <<>>
      BY <1>1, <2>1, Zenon
    <3>2. Len(a) = Len(first) /\ IsSeq(a)
      BY <1>4, <1>6, EntriesAreKeys
    <3>3. a = <<>>
      BY <3>1, <3>2, EmptyAndSingle
    <3> QED
      BY <2>1, <3>3, Zenon
  <2>2. CASE h.answers # <<>>
    <3>1. PICK e : e = [status |-> "200", body |-> h.answers[1]]
      OBVIOUS
    <3>2. first = <<e>>
      BY <1>1, <2>2, <3>1, Zenon
    <3>2a. e.body = h.answers[1] /\ e.status = "200"
      BY <3>1
    <3>3. WrittenEntry(e) = Entry200(h.answers[1])
      BY <3>2a, Zenon DEF WrittenEntry, Entry200
    <3>4. PICK x : x = WrittenEntry(e)
      OBVIOUS
    <3>5. Entries(<<e>>) = <<x>>
      <4>1. DOMAIN <<e>> = {1} /\ <<e>>[1] = e /\ <<x>> = [j \in {1} |-> x]
        OBVIOUS
      <4>2. Entries(<<e>>) = [j \in DOMAIN <<e>> |-> WrittenEntry(<<e>>[j])]
        BY Zenon DEF Entries
      <4>3. [j \in DOMAIN <<e>> |-> WrittenEntry(<<e>>[j])] = [j \in {1} |-> x]
        BY <3>4, <4>1
      <4> QED
        BY <4>1, <4>2, <4>3, Zenon
    <3> QED
      BY <1>6, <2>2, <3>2, <3>3, <3>4, <3>5, Zenon
  <2> QED
    BY <2>1, <2>2
<1>13. ResponsesArgs(WrittenKeys(h), h.spelled) = <<Call("responses", CommaJoin(a \o o))>>
  BY <1>3, <1>10, <1>12, Zenon DEF ResponsesArgs
<1>14. WithoutCommas(CommaJoin(a \o o)) = WithoutCommas(FlattenSeq(a \o b))
  BY <1>8, <1>11, ListsTogether
<1> QED
  BY <1>9, <1>13, <1>14, Zenon DEF SaysAlike

(* the parameter of an argument, as it is meant *)
MeantParam(h, x) ==
    IF x.wraps = "AppPath" /\ x.single /\ Len(h.placeholders) = 1
    THEN <<Paren(<<StringLit(<<h.placeholders[1]>>), Punct("=")>> \o TypeTokens(x.type)
                 \o <<Comma, Ident("Path")>>)>>
    ELSE TypeTokens(x.type)

(* A path argument is documented under the name of the one placeholder if   *)
(* it is one value, and as its type otherwise.                              *)
LEMMA PathParamMeant ==
    ASSUME NEW h, HandlerWritten(h), NEW x, x.wraps = "AppPath", GoodType(x.type),
           x.single <=> IsPrimitivePathParamType(x.type)
    PROVE  PathParam(WrittenKeys(h), x.type) = MeantParam(h, x) /\ IsSeq(MeantParam(h, x))
<1>1. PICK keys : keys = WrittenKeys(h)
  OBVIOUS
<1>2. FindPathLiteral(keys) = <<h.path>>
  <2>1. FindKey(keys, "path") = <<PathKey(h)>>
    BY <1>1, AttributeRead, Zenon
  <2> QED
    BY <2>1, LiteralsRead
<1>3. PICK names : names = PathPlaceholders(h.path)
  OBVIOUS
<1>4. InPieces(names, h.placeholders)
  BY <1>3, PlaceholdersFound DEF HandlerWritten
<1>5. Len(names) = Len(h.placeholders) /\ (Len(names) = 1 => names[1] = <<h.placeholders[1]>>)
  BY <1>4 DEF InPieces
<1>6. \A y : <<y>> # <<>> /\ <<y>>[1] = y
  OBVIOUS
<1>7. PathParam(keys, x.type) =
         IF Len(names) = 1 /\ IsPrimitivePathParamType(x.type)
         THEN <<Paren(<<StringLit(names[1]), Punct("=")>> \o TypeTokens(x.type)
                     \o <<Comma, Ident("Path")>>)>>
         ELSE TypeTokens(x.type)
  <2>1. FindPathLiteral(keys) # <<>> /\ FindPathLiteral(keys)[1] = h.path
    BY <1>2, <1>6, Zenon
  <2>2. names = IF FindPathLiteral(keys) = <<>> THEN <<>> ELSE PathPlaceholders(FindPathLiteral(keys)[1])
    BY <1>3, <2>1, Zenon
  <2> QED
    BY <2>2, Zenon DEF PathParam
<1>8. PathParam(keys, x.type) = MeantParam(h, x)
  <2>1. CASE Len(names) = 1 /\ IsPrimitivePathParamType(x.type)
    BY <1>5, <1>7, <2>1, Zenon DEF MeantParam
  <2>2. CASE ~(Len(names) = 1 /\ IsPrimitivePathParamType(x.type))
    BY <1>5, <1>7, <2>2, Zenon DEF MeantParam
  <2> QED
    BY <2>1, <2>2
<1>9. IsSeq(MeantParam(h, x))
  <2>1. IsSeq(TypeTokens(x.type))
    BY DEF GoodType
  <2>2. \A y : IsSeq(<<y>>)
    BY EmptyAndSingle
  <2> QED
    BY <2>1, <2>2, Zenon DEF MeantParam
<1> QED
  BY <1>1, <1>8, <1>9, Zenon

Taken(h) == Taking(h, "AppPath") \o Taking(h, "AppQuery")
ParamsMeant(h) == [k \in DOMAIN Taken(h) |-> MeantParam(h, Taken(h)[k])]
InferredParams(h) ==
    [k \in DOMAIN Sig(h).path |-> PathParam(WrittenKeys(h), Sig(h).path[k])]
    \o [k \in DOMAIN Sig(h).query |-> TypeTokens(Sig(h).query[k])]

(* The parameters the macro infers are those of the path and then those of  *)
(* the query, each once.                                                    *)
LEMMA ParamsInferred ==
    ASSUME NEW h, HandlerWritten(h)
    PROVE  InferredParams(h) = ParamsMeant(h) /\ AllSeqs(ParamsMeant(h))
<1>1. PICK s : s = Taking(h, "AppPath")
  OBVIOUS
<1>2. PICK t : t = Taking(h, "AppQuery")
  OBVIOUS
<1>3. PICK p : p = Sig(h).path
  OBVIOUS
<1>4. PICK q : q = Sig(h).query
  OBVIOUS
<1>5. "AppPath" \in Wrapper /\ "AppQuery" \in Wrapper
  BY DEF Wrapper
<1>6. p = Wrapped(h.spelled.inputs, "AppPath") /\ q = Wrapped(h.spelled.inputs, "AppQuery")
  BY <1>3, <1>4 DEF Sig, InspectSignature
<1>7. /\ IsSeq(p) /\ IsSeq(s) /\ Len(p) = Len(s)
      /\ \A i \in 1 .. Len(p) : /\ p[i] = s[i].type /\ GoodType(p[i]) /\ s[i].wraps = "AppPath"
                                /\ s[i].single <=> IsPrimitivePathParamType(p[i])
  BY <1>1, <1>5, <1>6, WrappedTaken
<1>8. /\ IsSeq(q) /\ IsSeq(t) /\ Len(q) = Len(t)
      /\ \A i \in 1 .. Len(q) : q[i] = t[i].type /\ GoodType(q[i]) /\ t[i].wraps = "AppQuery"
  BY <1>2, <1>5, <1>6, WrappedTaken
<1>9. PICK M \in Nat : M = Len(s) /\ DOMAIN s = 1 .. M /\ DOMAIN p = 1 .. M /\ M = Len(p)
  BY <1>7, IsSeqDomain
<1>10. PICK N \in Nat : N = Len(t) /\ DOMAIN t = 1 .. N /\ DOMAIN q = 1 .. N /\ N = Len(q)
  BY <1>8, IsSeqDomain
<1>11. PICK u : u = [k \in DOMAIN p |-> PathParam(WrittenKeys(h), p[k])]
  OBVIOUS
<1>12. PICK v : v = [k \in DOMAIN q |-> TypeTokens(q[k])]
  OBVIOUS
<1>13. PICK c : c = s \o t
  OBVIOUS
<1>14. PICK w : w = [k \in DOMAIN c |-> MeantParam(h, c[k])]
  OBVIOUS
<1>15. IsSeq(s) /\ IsSeq(t)
  BY <1>7, <1>8
<1>16. /\ IsSeq(s \o t) /\ Len(s \o t) = Len(s) + Len(t)
       /\ \A i \in 1 .. Len(s) : (s \o t)[i] = s[i]
       /\ \A i \in 1 .. Len(t) : (s \o t)[Len(s) + i] = t[i]
  BY <1>15, Concatenation
<1>17. /\ IsSeq(c) /\ Len(c) = M + N
       /\ \A i \in 1 .. M : c[i] = s[i]
       /\ \A i \in 1 .. N : c[M + i] = t[i]
  BY <1>9, <1>10, <1>13, <1>16, Zenon
<1>18. DOMAIN c = 1 .. M + N
  BY <1>17, IsSeqDomain
<1>19. ASSUME NEW i \in 1 .. M
       PROVE  u[i] = MeantParam(h, s[i]) /\ IsSeq(MeantParam(h, s[i]))
  <2>1. PICK x : x = s[i]
    OBVIOUS
  <2>2. /\ x.wraps = "AppPath" /\ GoodType(x.type) /\ p[i] = x.type
        /\ x.single <=> IsPrimitivePathParamType(x.type)
    BY <1>7, <1>9, <2>1
  <2>3. PathParam(WrittenKeys(h), x.type) = MeantParam(h, x) /\ IsSeq(MeantParam(h, x))
    BY <2>2, PathParamMeant, Zenon
  <2>4. u[i] = PathParam(WrittenKeys(h), p[i])
    BY <1>9, <1>11
  <2> QED
    BY <2>1, <2>2, <2>3, <2>4, Zenon
<1>20. ASSUME NEW i \in 1 .. N
       PROVE  v[i] = MeantParam(h, t[i]) /\ IsSeq(MeantParam(h, t[i]))
  <2>1. PICK x : x = t[i]
    OBVIOUS
  <2>2. x.wraps = "AppQuery" /\ GoodType(x.type) /\ q[i] = x.type
    BY <1>8, <1>10, <2>1
  <2>3. MeantParam(h, x) = TypeTokens(x.type)
    <3>1. "AppQuery" # "AppPath"
      OBVIOUS
    <3> QED
      BY <2>2, <3>1, Zenon DEF MeantParam
  <2>4. v[i] = TypeTokens(q[i])
    BY <1>10, <1>12
  <2>5. IsSeq(TypeTokens(x.type))
    BY <2>2 DEF GoodType
  <2> QED
    BY <2>1, <2>2, <2>3, <2>4, <2>5, Zenon
<1>21. \A i \in 1 .. M + N : w[i] = MeantParam(h, c[i])
  BY <1>14, <1>18
<1>22. \A i \in 1 .. M : w[i] = u[i] /\ IsSeq(w[i])
  <2>1. \A i \in 1 .. M : i \in 1 .. M + N
    OBVIOUS
  <2> QED
    BY <1>17, <1>19, <1>21, <2>1, Zenon
<1>23. \A i \in 1 .. N : w[M + i] = v[i] /\ IsSeq(w[M + i])
  <2>1. \A i \in 1 .. N : M + i \in 1 .. M + N
    OBVIOUS
  <2> QED
    BY <1>17, <1>20, <1>21, <2>1, Zenon
<1>24. w = u \o v
  <2>1. Over(u, DOMAIN s) /\ Over(v, DOMAIN t) /\ Over(w, DOMAIN c)
    BY <1>9, <1>10, <1>11, <1>12, <1>14 DEF Over
  <2>2. Over(w, DOMAIN (s \o t))
    BY <1>13, <2>1, Zenon
  <2>3. /\ \A i \in 1 .. Len(s) : w[i] = u[i]
        /\ \A i \in 1 .. Len(t) : w[Len(s) + i] = v[i]
    BY <1>9, <1>10, <1>22, <1>23, Zenon
  <2>4. Over(u, DOMAIN s) /\ Over(v, DOMAIN t)
    BY <2>1
  <2> QED
    BY <1>15, <2>2, <2>3, <2>4, OverBoth
<1>25. AllSeqs(w)
  <2>1. Over(w, DOMAIN c)
    BY <1>14 DEF Over
  <2>2. IsSeq(w) /\ DOMAIN w = 1 .. M + N
    BY <1>17, <1>18, <2>1, OverPlaces
  <2>3. \A i \in 1 .. M + N : IsSeq(w[i])
    <3>1. \A i \in 1 .. M + N : i \in 1 .. M \/ \E j \in 1 .. N : i = M + j
      <4>1. \A i \in 1 .. M + N : i \in 1 .. M \/ (i - M \in 1 .. N /\ i = M + (i - M))
        OBVIOUS
      <4> QED
        BY <4>1
    <3> QED
      BY <1>22, <1>23, <3>1, Zenon
  <2> QED
    BY <2>2, <2>3 DEF AllSeqs
<1>26. InferredParams(h) = u \o v
  BY <1>3, <1>4, <1>11, <1>12, Zenon DEF InferredParams
<1>27. ParamsMeant(h) = w
  BY <1>1, <1>2, <1>13, <1>14, Zenon DEF ParamsMeant, Taken
<1> QED
  BY <1>24, <1>25, <1>26, <1>27, Zenon

(* The parameters that are documented are the inferred ones and then the    *)
(* written ones, commas aside; there is no params(...) when there is        *)
(* nothing to say.                                                          *)
LEMMA ParametersMeant ==
    ASSUME NEW h, HandlerWritten(h)
    PROVE  IF MeantParams(h) = <<>> /\ h.params = <<>>
           THEN ParamsArgs(WrittenKeys(h), Sig(h)) = <<>>
           ELSE SaysAlike(ParamsArgs(WrittenKeys(h), Sig(h)), "params", FlattenSeq(MeantParams(h)))
<1>1. PICK a : a = ParamsMeant(h)
  OBVIOUS
<1>2. InferredParams(h) = a /\ AllSeqs(a) /\ IsSeq(a)
  <2>1. InferredParams(h) = a /\ AllSeqs(a)
    BY <1>1, ParamsInferred, Zenon
  <2> QED
    BY <2>1 DEF AllSeqs
<1>3. PICK b : b = FlattenSeq(h.params)
  OBVIOUS
<1>4. MeantParams(h) = a \o b
  <2>1. ParamsMeant(h) = [k \in DOMAIN Taken(h) |-> MeantParam(h, Taken(h)[k])]
    BY Zenon DEF ParamsMeant
  <2> QED
    BY <1>1, <1>3, Zenon DEF MeantParams, ParamsMeant, MeantParam, Taken
<1>5. PICK o : o = InnerOf(WrittenKeys(h), "params")
  OBVIOUS
<1>6. o = IF h.params = <<>> THEN <<>> ELSE <<CommaJoin(h.params[1])>>
  BY <1>5, InnersRead, Zenon
<1>7. b = (IF h.params = <<>> THEN <<>> ELSE h.params[1]) /\ AllSeqs(b)
  <2>1. IsOption(h.params) /\ \A k \in DOMAIN h.params :
          /\ IsSeq(h.params[k])
          /\ \A j \in DOMAIN h.params[k] : IsSeq(h.params[k][j])
    BY DEF HandlerWritten
  <2>2. b = IF h.params = <<>> THEN <<>> ELSE h.params[1]
    BY <1>3, <2>1, FlattenOption
  <2>3. CASE h.params = <<>>
    <3>1. b = <<>>
      BY <2>2, <2>3, Zenon
    <3> QED
      BY <2>2, <3>1, EmptyAndSingle DEF AllSeqs
  <2>4. CASE h.params # <<>>
    <3>1. 1 \in DOMAIN h.params
      BY <2>1, <2>4, OptionCases
    <3>2. b = h.params[1]
      BY <2>2, <2>4, Zenon
    <3> QED
      BY <2>1, <2>2, <3>1, <3>2, Zenon DEF AllSeqs
  <2> QED
    BY <2>3, <2>4
<1>8. AsOne(o, b)
  BY <1>6, <1>7, Zenon DEF AsOne
<1>9. WithoutCommas(CommaJoin(a \o o)) = WithoutCommas(FlattenSeq(a \o b))
  BY <1>2, <1>7, <1>8, ListsTogether
<1>10. PICK ps : ps = a \o o
  OBVIOUS
<1>11. ParamsArgs(WrittenKeys(h), Sig(h)) = IF ps = <<>> THEN <<>> ELSE <<Call("params", CommaJoin(ps))>>
  BY <1>2, <1>5, <1>10, Zenon DEF ParamsArgs, InferredParams
<1>12. ps = <<>> <=> MeantParams(h) = <<>> /\ h.params = <<>>
  <2>1. CASE h.params = <<>>
    <3>1. o = <<>> /\ b = <<>>
      BY <1>6, <1>7, <2>1, Zenon
    <3>2. a \o <<>> = a
      BY <1>2, EmptyAndSingle
    <3> QED
      BY <1>4, <1>10, <2>1, <3>1, <3>2, Zenon
  <2>2. CASE h.params # <<>>
    <3>1. PICK x : o = <<x>>
      BY <1>6, <2>2, Zenon
    <3>2. Append(a, x) = a \o <<x>> /\ Append(a, x) # <<>>
      BY <1>2, Appending
    <3>3. ps # <<>>
      BY <1>10, <3>1, <3>2, Zenon
    <3> QED
      BY <2>2, <3>3
  <2> QED
    BY <2>1, <2>2
<1> QED
  BY <1>4, <1>9, <1>10, <1>11, <1>12, Zenon DEF SaysAlike

(* two lists of arguments that say the same, in whatever order *)
SaidBy(s) == {Plain(a) : a \in ToSet(s)}
ReadAlike(s, t) == IsSeq(s) /\ IsSeq(t) /\ Len(s) = Len(t) /\ SaidBy(s) = SaidBy(t)

(* Lists that say the same in a row with lists that say the same say the    *)
(* same.                                                                    *)
LEMMA AlikeTogether ==
    ASSUME NEW s, NEW t, ReadAlike(s, t), NEW u, NEW v, ReadAlike(u, v)
    PROVE  ReadAlike(s \o u, t \o v)
<1>1. IsSeq(s) /\ IsSeq(t) /\ IsSeq(u) /\ IsSeq(v)
  BY DEF ReadAlike
<1>2. PICK c : c = s \o u
  OBVIOUS
<1>3. PICK d : d = t \o v
  OBVIOUS
<1>4. IsSeq(c) /\ Len(c) = Len(s) + Len(u) /\ ToSet(c) = ToSet(s) \union ToSet(u)
  BY <1>1, <1>2, Concatenation
<1>5. IsSeq(d) /\ Len(d) = Len(t) + Len(v) /\ ToSet(d) = ToSet(t) \union ToSet(v)
  BY <1>1, <1>3, Concatenation
<1>6. \A A, B : {Plain(a) : a \in A \union B} = {Plain(a) : a \in A} \union {Plain(a) : a \in B}
  OBVIOUS
<1>7. SaidBy(c) = SaidBy(s) \union SaidBy(u) /\ SaidBy(d) = SaidBy(t) \union SaidBy(v)
  BY <1>4, <1>5, <1>6, Zenon DEF SaidBy
<1>8. Len(s) = Len(t) /\ Len(u) = Len(v) /\ SaidBy(s) = SaidBy(t) /\ SaidBy(u) = SaidBy(v)
  BY DEF ReadAlike
<1>9. ReadAlike(c, d)
  BY <1>4, <1>5, <1>7, <1>8, Zenon DEF ReadAlike
<1> QED
  BY <1>2, <1>3, <1>9, Zenon

(* A call that says the same as another reads like it. *)
LEMMA AlikeCall ==
    ASSUME NEW s, NEW name, NEW ts, SaysAlike(s, name, ts)
    PROVE  ReadAlike(s, <<Call(name, ts)>>)
<1>1. PICK us : s = <<Call(name, us)>> /\ WithoutCommas(us) = WithoutCommas(ts)
  BY Zenon DEF SaysAlike
<1>2. PICK c : c = Call(name, us)
  OBVIOUS
<1>3. PICK d : d = Call(name, ts)
  OBVIOUS
<1>4. Plain(c) = Plain(d)
  BY <1>1, <1>2, <1>3, PlainOfCall, Zenon
<1>5. /\ IsSeq(<<c>>) /\ Len(<<c>>) = 1 /\ ToSet(<<c>>) = {c}
      /\ IsSeq(<<d>>) /\ Len(<<d>>) = 1 /\ ToSet(<<d>>) = {d}
  BY EmptyAndSingle
<1>6. \A x : {Plain(a) : a \in {x}} = {Plain(x)}
  OBVIOUS
<1>7. SaidBy(<<c>>) = SaidBy(<<d>>)
  BY <1>4, <1>5, <1>6, Zenon DEF SaidBy
<1>8. ReadAlike(<<c>>, <<d>>)
  BY <1>5, <1>7, Zenon DEF ReadAlike
<1> QED
  BY <1>1, <1>2, <1>3, <1>8, Zenon

BodyMeant(h) == [k \in DOMAIN MeantBody(h) |-> Assign("request_body", TypeTokens(MeantBody(h)[k]))]

(* The body that is documented is the one that is taken, or else the        *)
(* written one.                                                             *)
LEMMA BodyRead ==
    ASSUME NEW h, HandlerWritten(h)
    PROVE  RequestBodyArgs(WrittenKeys(h), Sig(h)) = BodyMeant(h) /\ IsSeq(BodyMeant(h))
<1>1. \A x : <<x>> # <<>> /\ <<x>>[1] = x /\ DOMAIN <<x>> = {1}
  OBVIOUS
<1>2. ExplicitBody(WrittenKeys(h)) = BodyKey(h)
  BY AttributeRead, Zenon DEF ExplicitBody
<1>3. PICK taken : taken = Taking(h, "AppJson")
  OBVIOUS
<1>4. PICK json : json = Sig(h).json
  OBVIOUS
<1>5. (json # <<>> <=> taken # <<>>) /\ (taken # <<>> => json[1] = taken[1].type)
  <2>1. "AppJson" \in Wrapper
    BY DEF Wrapper
  <2>2. json = Wrapped(h.spelled.inputs, "AppJson")
    BY <1>4 DEF Sig, InspectSignature
  <2> QED
    BY <1>3, <2>1, <2>2, SignatureRead, Zenon
<1>6. CASE taken # <<>>
  <2>1. PICK ty : ty = taken[1].type
    OBVIOUS
  <2>2. MeantBody(h) = <<ty>>
    BY <1>3, <1>6, <2>1, Zenon DEF MeantBody
  <2>3. PICK a : a = Assign("request_body", TypeTokens(ty))
    OBVIOUS
  <2>4. BodyMeant(h) = <<a>>
    <3>1. BodyMeant(h) = [k \in DOMAIN <<ty>> |-> Assign("request_body", TypeTokens(<<ty>>[k]))]
      BY <2>2, Zenon DEF BodyMeant
    <3>2. [k \in DOMAIN <<ty>> |-> Assign("request_body", TypeTokens(<<ty>>[k]))] = [k \in {1} |-> a]
      BY <1>1, <2>3
    <3>3. <<a>> = [k \in {1} |-> a]
      OBVIOUS
    <3> QED
      BY <3>1, <3>2, <3>3, Zenon
  <2>5. RequestBodyArgs(WrittenKeys(h), Sig(h)) = <<a>>
    BY <1>4, <1>5, <1>6, <2>1, <2>3, Zenon DEF RequestBodyArgs
  <2> QED
    BY <2>4, <2>5, EmptyAndSingle, Zenon
<1>7. CASE taken = <<>>
  <2>1. MeantBody(h) = h.body
    BY <1>3, <1>7, Zenon DEF MeantBody
  <2>2. BodyMeant(h) = BodyKey(h)
    BY <2>1, Zenon DEF BodyMeant, BodyKey
  <2>3. RequestBodyArgs(WrittenKeys(h), Sig(h)) = BodyKey(h)
    BY <1>2, <1>4, <1>5, <1>7, Zenon DEF RequestBodyArgs
  <2>4. IsSeq(BodyKey(h))
    BY TheOptionalKeys, OptionCases, Zenon
  <2> QED
    BY <2>2, <2>3, <2>4, Zenon
<1> QED
  BY <1>6, <1>7

(* The arguments of an accepted handler say what it means, each thing once. *)
LEMMA MeaningRead ==
    ASSUME NEW h, HandlerWritten(h), ~IsError(Expanded(h))
    PROVE  ReadAlike(Expanded(h).args, Meaning(h))
<1>1. PICK p : p = Preamble(h)
  OBVIOUS
<1>2. PICK b : b = BodyMeant(h)
  OBVIOUS
<1>3. PICK r : r = ResponsesArgs(WrittenKeys(h), h.spelled)
  OBVIOUS
<1>4. PICK q : q = ParamsArgs(WrittenKeys(h), Sig(h))
  OBVIOUS
<1>5. PICK mr : mr = <<Call("responses", MeantEntries(h))>>
  OBVIOUS
<1>6. PICK mq : mq = IF MeantParams(h) = <<>> /\ h.params = <<>> THEN <<>>
                     ELSE <<Call("params", FlattenSeq(MeantParams(h)))>>
  OBVIOUS
<1>7. Expanded(h).args = p \o b \o r \o q
  BY <1>1, <1>2, <1>3, <1>4, ExpansionParts, BodyRead, Zenon
<1>8. Meaning(h) = p \o b \o mr \o mq
  <2>1. p \o b \o mr \o mq = (<<<<Ident(h.method)>>, OperationKey(h), PathKey(h)>> \o SecurityKey(h))
                             \o b \o mr \o mq
    BY <1>1, Zenon DEF Preamble
  <2> QED
    BY <1>2, <1>5, <1>6, <2>1, Zenon DEF Meaning, MeantEntries, Entries, BodyMeant, OperationKey
<1>9. ReadAlike(p, p) /\ ReadAlike(b, b)
  <2>1. IsSeq(b)
    BY <1>2, BodyRead
  <2>2. IsSeq(p)
    <3>1. PICK o : o = <<<<Ident(h.method)>>, OperationKey(h), PathKey(h)>>
      OBVIOUS
    <3>2. PICK T : T = {<<Ident(h.method)>>, OperationKey(h), PathKey(h)}
      OBVIOUS
    <3>3. o \in Seq(T)
      BY <3>1, <3>2
    <3>3a. IsSeq(o)
      BY <3>3, IsSeqOf
    <3>4. IsSeq(SecurityKey(h))
      BY TheOptionalKeys, OptionCases, Zenon
    <3>5. IsSeq(o \o SecurityKey(h))
      BY <3>3a, <3>4, Concatenation
    <3> QED
      BY <1>1, <3>1, <3>5, Zenon DEF Preamble
  <2> QED
    BY <2>1, <2>2, Zenon DEF ReadAlike
<1>10. ReadAlike(r, mr)
  BY <1>3, <1>5, ResponsesMeant, AlikeCall, Zenon
<1>11. ReadAlike(q, mq)
  <2>1. CASE MeantParams(h) = <<>> /\ h.params = <<>>
    <3>1. q = <<>> /\ mq = <<>>
      BY <1>4, <1>6, <2>1, ParametersMeant, Zenon
    <3> QED
      BY <3>1, EmptyAndSingle, Zenon DEF ReadAlike
  <2>2. CASE ~(MeantParams(h) = <<>> /\ h.params = <<>>)
    <3>1. SaysAlike(q, "params", FlattenSeq(MeantParams(h)))
      BY <1>4, <2>2, ParametersMeant, Zenon
    <3>2. mq = <<Call("params", FlattenSeq(MeantParams(h)))>>
      BY <1>6, <2>2, Zenon
    <3> QED
      BY <3>1, <3>2, AlikeCall, Zenon
  <2> QED
    BY <2>1, <2>2
<1>12. ReadAlike(p \o b, p \o b)
  BY <1>9, AlikeTogether, Zenon
<1>13. ReadAlike(p \o b \o r, p \o b \o mr)
  BY <1>10, <1>12, AlikeTogether, Zenon
<1>14. ReadAlike(p \o b \o r \o q, p \o b \o mr \o mq)
  BY <1>11, <1>13, AlikeTogether, Zenon
<1> QED
  BY <1>7, <1>8, <1>14, Zenon

-----------------------------------------------------------------------------
(* The items and their expansions.                                          *)

ExpansionOf(i) ==
    IF i.is = "trait" THEN ComponentImpl(i.spelled, i.deps)
    ELSE IF i.is = "service" THEN Meant(i)
    ELSE Expanded(i)

ItemWritten(i) ==
    \/ i.is = "trait" /\ TraitWritten(i)
    \/ i.is = "service" /\ ServiceWritten(i)
    \/ i.is = "handler" /\ HandlerWritten(i)

(* What ProgramAssumption says of a program, field by field. *)
LEMMA ProgramFacts ==
    ASSUME NEW p \in Programs
    PROVE  /\ IsSeq(p.items) /\ DOMAIN p.items = 1 .. Len(p.items) /\ Len(p.items) \in Nat
           /\ \A k \in DOMAIN p.items : ItemWritten(p.items[k])
           /\ \A j, k \in DOMAIN p.items :
                 p.items[j].is = "service" /\ p.items[k].is = "service" =>
                     /\ p.items[j].spelled.name # "main"
                     /\ p.items[j].spelled.name = p.items[k].spelled.name => j = k
           /\ \A key \in {"APP_CORS_ORIGINS", "APP_CORS_ORIGIN_SUFFIXES", "APP_CORS_DEV_ORIGINS"} :
                 /\ key \in DOMAIN p.env.process => IsSeq(p.env.process[key])
                 /\ key \in DOMAIN p.env.file => IsSeq(p.env.file[key])
<1>1. ProgramWritten(p)
  BY ProgramAssumption
<1>2. IsSeq(p.items)
  BY <1>1 DEF ProgramWritten
<1> QED
  BY <1>1, <1>2, IsSeqDomain, Zenon DEF ProgramWritten, ItemWritten

(* What the macros make of an item of each kind. *)
LEMMA ItemExpanded ==
    ASSUME NEW i, ItemWritten(i), NEW e, e = ExpansionOf(i)
    PROVE  /\ i.is \in {"trait", "service", "handler"}
           /\ ~IsError(e) => /\ "args" \in DOMAIN e <=> i.is = "handler"
                             /\ "component" \in DOMAIN e <=> i.is = "service"
           /\ i.is = "handler" => HandlerWritten(i) /\ e = Expanded(i)
           /\ i.is = "handler" /\ ~IsError(e) => RouteOf(e) = WrittenRoute(i)
           /\ i.is = "service" => ServiceWritten(i) /\ e = Meant(i)
           /\ i.is # "handler" => (IsError(e) <=> ~i.sound)
<1>0. "trait" # "service" /\ "trait" # "handler" /\ "service" # "handler"
  OBVIOUS
<1>1. CASE i.is = "trait" /\ TraitWritten(i)
  <2>1. e = ComponentImpl(i.spelled, i.deps)
    BY <1>1, Zenon DEF ExpansionOf
  <2>2. (IsError(e) <=> ~i.sound) /\ "args" \notin DOMAIN e /\ "component" \notin DOMAIN e
    BY <1>1, <2>1, TraitExpanded
  <2> QED
    BY <1>0, <1>1, <2>2
<1>2. CASE i.is = "service" /\ ServiceWritten(i)
  <2>1. e = Meant(i)
    BY <1>0, <1>2, Zenon DEF ExpansionOf
  <2>2. /\ IsError(e) <=> ~i.sound
        /\ "args" \notin DOMAIN e
        /\ "component" \in DOMAIN e <=> ~IsError(e)
    BY <1>2, <2>1, ServiceExpanded, Zenon
  <2> QED
    BY <1>0, <1>2, <2>1, <2>2
<1>3. CASE i.is = "handler" /\ HandlerWritten(i)
  <2>1. e = Expanded(i)
    BY <1>0, <1>3, Zenon DEF ExpansionOf
  <2>2. "component" \notin DOMAIN e /\ ("args" \in DOMAIN e <=> ~IsError(e))
    BY <1>3, <2>1, ExpansionParts, Zenon
  <2>3. ~IsError(e) => RouteOf(e) = WrittenRoute(i)
    BY <1>3, <2>1, RouteWritten, Zenon
  <2> QED
    BY <1>0, <1>3, <2>1, <2>2, <2>3
<1> QED
  BY <1>1, <1>2, <1>3, Zenon DEF ItemWritten

-----------------------------------------------------------------------------
Compiling == {"compiling", "rejected"}
Early == {"linked", "registering", "registered", "validated", "configured"}

ItemsInv ==
    /\ source \in Programs /\ phase \in Phase
    /\ IsSeq(expansions) /\ Len(expansions) <= Len(source.items)
    /\ \A k \in 1 .. Len(expansions) : expansions[k] = ExpansionOf(source.items[k])
    /\ phase = "compiling" => \A k \in 1 .. Len(expansions) : ~IsError(expansions[k])
    /\ phase \notin Compiling => expansions = <<>>

(* No item is expanded at first. *)
LEMMA ItemsInit == Init => ItemsInv
<1> SUFFICES ASSUME Init PROVE ItemsInv
  OBVIOUS
<1>1. IsSeq(expansions) /\ Len(expansions) = 0
  BY EmptyAndSingle DEF Init
<1>2. source \in Programs /\ phase = "compiling"
  BY DEF Init
<1>3. Len(source.items) \in Nat
  BY <1>2, ProgramFacts
<1> QED
  BY <1>1, <1>2, <1>3 DEF ItemsInv, Phase, Compiling

(* Expanding the next item extends the expansions in step with the items. *)
LEMMA CompileStep ==
    ASSUME ItemsInv, NEW x, phase = "compiling", Len(expansions) < Len(source.items),
           x = ExpansionOf(NextItem), Compile(x)
    PROVE  ItemsInv'
<1>0. PICK N \in Nat : N = Len(expansions) /\ IsSeq(expansions)
  BY IsSeqDomain DEF ItemsInv
<1>1. source' = source /\ source \in Programs /\ expansions' = Append(expansions, x)
      /\ phase' = IF IsError(x) THEN "rejected" ELSE "compiling"
  BY DEF ItemsInv, Compile
<1>2. LongerBy(expansions, x, expansions')
  BY <1>0, <1>1, OneLonger
<1>3. /\ IsSeq(expansions') /\ Len(expansions') = N + 1 /\ expansions'[N + 1] = x
      /\ \A i \in 1 .. N : expansions'[i] = expansions[i]
  BY <1>0, <1>2, Zenon DEF LongerBy
<1>4. Len(source.items) \in Nat
  BY <1>1, ProgramFacts
<1>5. x = ExpansionOf(source.items[N + 1])
  BY <1>0, Zenon DEF NextItem
<1>6. \A k \in 1 .. N : expansions[k] = ExpansionOf(source.items[k]) /\ ~IsError(expansions[k])
  BY <1>0 DEF ItemsInv
<1>7. \A k \in 1 .. N + 1 : expansions'[k] = ExpansionOf(source.items[k])
  <2>1. \A k \in 1 .. N + 1 : k = N + 1 \/ k \in 1 .. N
    OBVIOUS
  <2> QED
    BY <1>3, <1>5, <1>6, <2>1, Zenon
<1>8. phase' = "compiling" => \A k \in 1 .. N + 1 : ~IsError(expansions'[k])
  <2>1. \A k \in 1 .. N + 1 : k = N + 1 \/ k \in 1 .. N
    OBVIOUS
  <2>2. phase' = "compiling" => ~IsError(x)
    BY <1>1
  <2> QED
    BY <1>3, <1>6, <2>1, <2>2, Zenon
<1>9. N + 1 <= Len(source.items)
  BY <1>0, <1>4
<1>10. phase' \in Compiling /\ phase' \in Phase
  BY <1>1 DEF Compiling, Phase
<1>11. \A k \in 1 .. Len(expansions') : expansions'[k] = ExpansionOf(source'.items[k])
  BY <1>1, <1>3, <1>7, Zenon
<1>12. phase' = "compiling" => \A k \in 1 .. Len(expansions') : ~IsError(expansions'[k])
  BY <1>3, <1>8, Zenon
<1>13. Len(expansions') <= Len(source'.items)
  BY <1>1, <1>3, <1>9, Zenon
<1> QED
  BY <1>1, <1>3, <1>10, <1>11, <1>12, <1>13, Zenon DEF ItemsInv

(* an action of the running program *)
Linked ==
    \/ \E i \in source.instances : RegisterInstance(i)
    \/ RegisterAll \/ RegisterNext \/ RegisterAllReturns \/ Validate \/ Configure
    \/ StartRun \/ CollectRoute \/ MergeExtraRoutes \/ MergeSwagger \/ MergePrometheus \/ Bind

(* After linking nothing changes the program, its routes or its             *)
(* registrations.                                                           *)
LEMMA LinkedMoves ==
    ASSUME Linked
    PROVE  /\ UNCHANGED <<source, expansions, routes, registrations>>
           /\ phase \notin Compiling /\ phase' \notin Compiling
           /\ phase \in Phase => phase' \in Phase
<1>1. CASE \E i \in source.instances : RegisterInstance(i)
  BY <1>1 DEF RegisterInstance, Compiling, linked
<1>2. CASE RegisterAll
  BY <1>2 DEF RegisterAll, Compiling, Phase, linked
<1>3. CASE RegisterNext
  BY <1>3 DEF RegisterNext, Compiling, linked
<1>4. CASE RegisterAllReturns
  BY <1>4 DEF RegisterAllReturns, Compiling, Phase, linked
<1>5. CASE Validate
  BY <1>5 DEF Validate, Compiling, Phase, linked
<1>6. CASE Configure
  BY <1>6 DEF Configure, Compiling, Phase, linked
<1>7. CASE StartRun
  BY <1>7 DEF StartRun, Compiling, Phase, linked
<1>8. CASE CollectRoute
  BY <1>8 DEF CollectRoute, Mount, Compiling, Phase, linked
<1>9. CASE MergeExtraRoutes
  BY <1>9 DEF MergeExtraRoutes, Mount, Compiling, Phase, linked
<1>10. CASE MergeSwagger
  <2>1. phase = "documented" /\ phase' \in {"panicked", "assembling"} /\ UNCHANGED <<source, expansions, linked>>
    BY <1>10, Zenon DEF MergeSwagger, Mount
  <2> QED
    BY <2>1 DEF Compiling, Phase, linked
<1>11. CASE MergePrometheus
  <2>1. phase = "assembling" /\ phase' \in {"panicked", "bound"} /\ UNCHANGED <<source, expansions, linked>>
    BY <1>11, Zenon DEF MergePrometheus, Mount
  <2> QED
    BY <2>1 DEF Compiling, Phase, linked
<1>12. CASE Bind
  BY <1>12 DEF Bind, Compiling, Phase, linked
<1> QED
  BY <1>1, <1>2, <1>3, <1>4, <1>5, <1>6, <1>7, <1>8, <1>9, <1>10, <1>11, <1>12 DEF Linked

(* Every step keeps the expansions in step with the items. *)
LEMMA ItemsStep ==
    ASSUME ItemsInv, [Next]_vars
    PROVE  ItemsInv'
<1>0. source \in Programs
  BY DEF ItemsInv
<1>1. CASE CompileTrait
  <2>1. NextItem.is = "trait" /\ phase = "compiling" /\ Len(expansions) < Len(source.items)
        /\ Compile(ComponentImpl(NextItem.spelled, NextItem.deps))
    BY <1>1 DEF CompileTrait, Turn
  <2>2. ComponentImpl(NextItem.spelled, NextItem.deps) = ExpansionOf(NextItem)
    BY <2>1, Zenon DEF ExpansionOf
  <2> QED
    BY <2>1, <2>2, CompileStep
<1>2. CASE CompileService
  <2>1. NextItem.is = "service" /\ phase = "compiling" /\ Len(expansions) < Len(source.items)
        /\ Compile(ServiceImpl(NextItem.attr, NextItem.spelled, NextItem.deps))
    BY <1>2 DEF CompileService, Turn
  <2>2. "service" # "trait"
    OBVIOUS
  <2>3. ServiceImpl(NextItem.attr, NextItem.spelled, NextItem.deps) = ExpansionOf(NextItem)
    BY <2>1, <2>2, Zenon DEF ExpansionOf, Meant
  <2> QED
    BY <2>1, <2>3, CompileStep
<1>3. CASE CompileHandler
  <2>1. NextItem.is = "handler" /\ phase = "compiling" /\ Len(expansions) < Len(source.items)
        /\ Compile(RouteMethodImpl(NextItem.method, Attribute(NextItem), NextItem.spelled, NextItem.deps))
    BY <1>3 DEF CompileHandler, Turn
  <2>2. "handler" # "trait" /\ "handler" # "service"
    OBVIOUS
  <2>3. RouteMethodImpl(NextItem.method, Attribute(NextItem), NextItem.spelled, NextItem.deps)
           = ExpansionOf(NextItem)
    BY <2>1, <2>2, Zenon DEF ExpansionOf, Expanded
  <2> QED
    BY <2>1, <2>3, CompileStep
<1>4. CASE Link
  <2>1. phase' = "linked" /\ expansions' = <<>> /\ source' = source
    BY <1>4 DEF Link
  <2>2. IsSeq(expansions') /\ Len(expansions') = 0
    BY <2>1, EmptyAndSingle
  <2>3. Len(source'.items) \in Nat
    BY <1>0, <2>1, ProgramFacts
  <2>4. phase' # "compiling" /\ phase' \in Phase
    BY <2>1 DEF Phase
  <2> QED
    BY <1>0, <2>1, <2>2, <2>3, <2>4 DEF ItemsInv
<1>5. CASE Linked
  <2>1. /\ source' = source /\ expansions' = expansions
        /\ phase \notin Compiling /\ phase' \notin Compiling /\ phase' \in Phase
    BY <1>5, LinkedMoves DEF ItemsInv
  <2>2. phase' # "compiling"
    BY <2>1 DEF Compiling
  <2> QED
    BY <2>1, <2>2 DEF ItemsInv
<1>6. CASE UNCHANGED vars
  <2>1. UNCHANGED <<phase, source, expansions>>
    BY <1>6 DEF vars
  <2> QED
    BY <2>1 DEF ItemsInv
<1> QED
  BY <1>1, <1>2, <1>3, <1>4, <1>5, <1>6 DEF Next, Linked

-----------------------------------------------------------------------------
(* Linking.                                                                 *)

(* p numbers the elements of S *)
IsOrder(p, N, S) ==
    /\ N \in Nat /\ p \in [1 .. N -> S]
    /\ \A a, b \in 1 .. N : p[a] = p[b] => a = b
    /\ \A k \in S : \E n \in 1 .. N : p[n] = k

LinkedInv ==
    phase \notin Compiling =>
        /\ \A k \in DOMAIN source.items : ~IsError(ExpansionOf(source.items[k]))
        /\ IsSeq(routes) /\ Len(routes) = Cardinality(Items("handler"))
        /\ \E p : /\ IsOrder(p, Len(routes), Items("handler"))
                  /\ \A n \in 1 .. Len(routes) : routes[n] = WrittenRoute(source.items[p[n]])
        /\ IsSeq(registrations) /\ Len(registrations) = Cardinality(Items("service"))
        /\ \E p : /\ IsOrder(p, Len(registrations), Items("service"))
                  /\ \A n \in 1 .. Len(registrations) : registrations[n] = Meant(source.items[p[n]])

(* An order of a finite set numbers its elements, each once. *)
LEMMA OrdersNumber ==
    ASSUME NEW S, IsFiniteSet(S), NEW p \in Orders(S)
    PROVE  IsOrder(p, Cardinality(S), S) /\ DOMAIN p = 1 .. Cardinality(S)
<1>1. Cardinality(S) \in Nat
  BY FS_CardinalityType
<1>2. p \in Injection(1 .. Cardinality(S), S) /\ p \in Surjection(1 .. Cardinality(S), S)
  BY DEF Orders, Bijection
<1>3. p \in [1 .. Cardinality(S) -> S] /\ IsInjective(p)
  BY <1>2 DEF Injection
<1>4. \A t \in S : \E s \in 1 .. Cardinality(S) : p[s] = t
  BY <1>2 DEF Surjection
<1>5. DOMAIN p = 1 .. Cardinality(S)
  BY <1>3
<1>6. \A a, b \in 1 .. Cardinality(S) : p[a] = p[b] => a = b
  BY <1>3, <1>5 DEF IsInjective
<1> QED
  BY <1>1, <1>3, <1>4, <1>5, <1>6 DEF IsOrder

(* A program has finitely many items of each kind. *)
LEMMA ItemsFinite ==
    ASSUME source \in Programs, NEW kind
    PROVE  IsFiniteSet(Items(kind)) /\ Items(kind) \subseteq 1 .. Len(source.items)
<1>1. DOMAIN source.items = 1 .. Len(source.items) /\ Len(source.items) \in Nat
  BY ProgramFacts
<1>2. IsFiniteSet(1 .. Len(source.items))
  <2>1. PICK N \in Nat : N = Len(source.items)
    BY <1>1
  <2>2. N \in Int /\ 1 \in Int
    OBVIOUS
  <2>3. IsFiniteSet(1 .. N)
    BY <2>2, FS_Interval
  <2> QED
    BY <2>1, <2>3, Zenon
<1>3. Items(kind) \subseteq 1 .. Len(source.items)
  BY <1>1 DEF Items
<1> QED
  BY <1>2, <1>3, FS_Subset

(* Nothing is linked at first. *)
LEMMA LinkedInit == Init => LinkedInv
BY DEF Init, LinkedInv, Compiling

(* Linking permutes the routes and registrations and loses none of them. *)
LEMMA LinkStep ==
    ASSUME ItemsInv, Link
    PROVE  LinkedInv'
<1>0. /\ phase = "compiling" /\ Len(expansions) = Len(source.items) /\ source' = source
      /\ source \in Programs
  BY DEF Link, ItemsInv
<1>1. PICK N \in Nat : /\ N = Len(source.items) /\ DOMAIN source.items = 1 .. N /\ DOMAIN expansions = 1 .. N
                       /\ IsSeq(expansions)
  BY <1>0, ProgramFacts, IsSeqDomain DEF ItemsInv
<1>2. \A k \in 1 .. N : ItemWritten(source.items[k])
  BY <1>0, <1>1, ProgramFacts
<1>3. \A k \in 1 .. N : expansions[k] = ExpansionOf(source.items[k]) /\ ~IsError(expansions[k])
  BY <1>0, <1>1 DEF ItemsInv
<1>4. ASSUME NEW k \in 1 .. N
      PROVE  /\ "args" \in DOMAIN expansions[k] <=> source.items[k].is = "handler"
             /\ "component" \in DOMAIN expansions[k] <=> source.items[k].is = "service"
             /\ source.items[k].is = "handler" => RouteOf(expansions[k]) = WrittenRoute(source.items[k])
             /\ source.items[k].is = "service" => expansions[k] = Meant(source.items[k])
  <2>1. /\ ItemWritten(source.items[k]) /\ expansions[k] = ExpansionOf(source.items[k])
        /\ ~IsError(expansions[k])
    BY <1>2, <1>3
  <2> QED
    BY <2>1, ItemExpanded
<1>5. Having("args") = Items("handler") /\ Having("component") = Items("service")
  BY <1>1, <1>4 DEF Having, Items
<1>6. PICK H, S : H = Items("handler") /\ S = Items("service")
  OBVIOUS
<1>7. IsFiniteSet(H) /\ IsFiniteSet(S) /\ H \subseteq 1 .. N /\ S \subseteq 1 .. N
  BY <1>0, <1>1, <1>6, ItemsFinite
<1>8. \A k \in H : source.items[k].is = "handler"
  BY <1>6 DEF Items
<1>9. \A k \in S : source.items[k].is = "service"
  BY <1>6 DEF Items
<1>10. PICK p \in Orders(H) : routes' = [n \in DOMAIN p |-> RouteOf(expansions[p[n]])]
  BY <1>5, <1>6, Zenon DEF Link
<1>11. PICK q \in Orders(S) : registrations' = [n \in DOMAIN q |-> expansions[q[n]]]
  BY <1>5, <1>6, Zenon DEF Link
<1>12. IsOrder(p, Cardinality(H), H) /\ DOMAIN p = 1 .. Cardinality(H)
  BY <1>7, <1>10, OrdersNumber
<1>13. IsOrder(q, Cardinality(S), S) /\ DOMAIN q = 1 .. Cardinality(S)
  BY <1>7, <1>11, OrdersNumber
<1>14. PICK a \in Nat, b \in Nat : a = Cardinality(H) /\ b = Cardinality(S)
  BY <1>12, <1>13 DEF IsOrder
<1>15. IsSeq(routes') /\ Len(routes') = a
  <2>1. routes' = [k \in 1 .. a |-> routes'[k]]
    BY <1>10, <1>12, <1>14
  <2> QED
    BY <1>14, <2>1, IsSeqFunction
<1>16. IsSeq(registrations') /\ Len(registrations') = b
  <2>1. registrations' = [k \in 1 .. b |-> registrations'[k]]
    BY <1>11, <1>13, <1>14
  <2> QED
    BY <1>14, <2>1, IsSeqFunction
<1>17. \A n \in 1 .. a : routes'[n] = WrittenRoute(source.items[p[n]])
  <2>1. \A n \in 1 .. a : p[n] \in H
    BY <1>12, <1>14 DEF IsOrder
  <2>2. \A n \in 1 .. a : routes'[n] = RouteOf(expansions[p[n]])
    BY <1>10, <1>12, <1>14
  <2>3. \A k \in H : RouteOf(expansions[k]) = WrittenRoute(source.items[k])
    BY <1>4, <1>7, <1>8
  <2> QED
    BY <2>1, <2>2, <2>3, Zenon
<1>18. \A n \in 1 .. b : registrations'[n] = Meant(source.items[q[n]])
  <2>1. \A n \in 1 .. b : q[n] \in S
    BY <1>13, <1>14 DEF IsOrder
  <2>2. \A n \in 1 .. b : registrations'[n] = expansions[q[n]]
    BY <1>11, <1>13, <1>14
  <2>3. \A k \in S : expansions[k] = Meant(source.items[k])
    BY <1>4, <1>7, <1>9
  <2> QED
    BY <2>1, <2>2, <2>3, Zenon
<1>19. Items("handler")' = H /\ Items("service")' = S
  BY <1>0, <1>6 DEF Items
<1>20. \A k \in DOMAIN source'.items : ~IsError(ExpansionOf(source'.items[k]))
  BY <1>0, <1>1, <1>3, Zenon
<1>21. \E f : /\ IsOrder(f, Len(routes'), H)
              /\ \A n \in 1 .. Len(routes') : routes'[n] = WrittenRoute(source'.items[f[n]])
  BY <1>0, <1>12, <1>14, <1>15, <1>17, Zenon
<1>22. \E f : /\ IsOrder(f, Len(registrations'), S)
              /\ \A n \in 1 .. Len(registrations') : registrations'[n] = Meant(source'.items[f[n]])
  BY <1>0, <1>13, <1>14, <1>16, <1>18, Zenon
<1>23. Len(routes') = Cardinality(H) /\ Len(registrations') = Cardinality(S)
  BY <1>14, <1>15, <1>16
<1> QED
  BY <1>15, <1>16, <1>19, <1>20, <1>21, <1>22, <1>23, Zenon DEF LinkedInv

(* Every step keeps the routes and registrations a permutation of the       *)
(* items.                                                                   *)
LEMMA LinkedStep ==
    ASSUME ItemsInv, LinkedInv, [Next]_vars
    PROVE  LinkedInv'
<1>1. CASE CompileTrait \/ CompileService \/ CompileHandler
  <2>1. phase = "compiling" /\ phase' \in {"rejected", phase}
    BY <1>1 DEF CompileTrait, CompileService, CompileHandler, Turn, Compile
  <2>2. phase' \in Compiling
    BY <2>1 DEF Compiling
  <2> QED
    BY <2>2 DEF LinkedInv
<1>2. CASE Link
  BY <1>2, LinkStep
<1>3. CASE Linked
  <2>1. UNCHANGED <<source, routes, registrations>> /\ phase \notin Compiling
    BY <1>3, LinkedMoves
  <2>2. Items("handler")' = Items("handler") /\ Items("service")' = Items("service")
    BY <2>1 DEF Items
  <2> QED
    BY <2>1, <2>2, Zenon DEF LinkedInv
<1>4. CASE UNCHANGED vars
  <2>1. UNCHANGED <<phase, source, routes, registrations>>
    BY <1>4 DEF vars, linked
  <2>2. Items("handler")' = Items("handler") /\ Items("service")' = Items("service")
    BY <2>1 DEF Items
  <2> QED
    BY <2>1, <2>2, Zenon DEF LinkedInv
<1> QED
  BY <1>1, <1>2, <1>3, <1>4 DEF Next, Linked

-----------------------------------------------------------------------------
(* Phases, loops and maps.                                                  *)

Served == {"configured", "collecting", "documented", "assembling", "bound", "serving"}
Collected == {"documented", "assembling", "bound", "serving"}
Checked == {"validated"} \union Served
Known == {"registered"} \union Checked

(* After(p) leaves only the phases that follow p. *)
LEMMA AfterMeans ==
    /\ After("linked") => phase \notin Compiling
    /\ After("registered") => phase \in Known
    /\ After("validated") => phase \in Checked
    /\ After("documented") => phase \in Collected
<1> DEFINE order == <<"linked", "registering", "registered", "validated", "configured", "collecting",
                   "documented", "assembling", "bound", "serving">>
<1>1. DOMAIN order = 1 .. 10
  OBVIOUS
<1>2. /\ order[1] = "linked" /\ order[2] = "registering" /\ order[3] = "registered" /\ order[4] = "validated"
      /\ order[5] = "configured" /\ order[6] = "collecting" /\ order[7] = "documented"
      /\ order[8] = "assembling" /\ order[9] = "bound" /\ order[10] = "serving"
  OBVIOUS
<1>3. \A p : After(p) => \E j, k \in DOMAIN order : j <= k /\ order[j] = p /\ order[k] = phase
  BY DEF After
<1> HIDE DEF order
<1>4. \A k \in 1 .. 10 : k = 1 \/ k = 2 \/ k = 3 \/ k = 4 \/ k = 5 \/ k = 6 \/ k = 7 \/ k = 8 \/ k = 9 \/ k = 10
  OBVIOUS
<1>5. After("linked") => phase \notin Compiling
  BY <1>1, <1>2, <1>3, <1>4 DEF Compiling
<1>6. After("registered") => phase \in Known
  BY <1>1, <1>2, <1>3, <1>4 DEF Known, Checked, Served
<1>7. After("validated") => phase \in Checked
  BY <1>1, <1>2, <1>3, <1>4 DEF Checked, Served
<1>8. After("documented") => phase \in Collected
  BY <1>1, <1>2, <1>3, <1>4 DEF Collected
<1> QED
  BY <1>5, <1>6, <1>7, <1>8

(* t is what remains of a list after its first m elements *)
Remains(t, list, m) ==
    /\ IsSeq(t) /\ IsSeq(list) /\ m \in Nat /\ m <= Len(list) /\ Len(t) = Len(list) - m
    /\ \A j \in 1 .. Len(t) : t[j] = list[m + j]

(* Before a loop all of its list remains. *)
LEMMA RemainsAll ==
    ASSUME NEW list, IsSeq(list)
    PROVE  Remains(list, list, 0)
<1>1. PICK N \in Nat : N = Len(list)
  BY IsSeqDomain
<1> QED
  BY <1>1 DEF Remains

(* A pass takes the next element of the list. *)
LEMMA RemainsNext ==
    ASSUME NEW t, NEW list, NEW m, Remains(t, list, m), t # <<>>
    PROVE  /\ m + 1 <= Len(list) /\ Head(t) = list[m + 1] /\ Remains(Tail(t), list, m + 1)
<1>1. PICK N \in Nat, M \in Nat : N = Len(list) /\ M = Len(t) /\ M = N - m /\ m \in Nat
  BY IsSeqDomain DEF Remains
<1>2. IsSeq(t) /\ IsSeq(list)
  BY DEF Remains
<1>3. M # 0
  BY <1>1, <1>2, EmptyAndSingle
<1>4. t \in Seq(ToSet(t))
  BY <1>2 DEF IsSeq
<1>5. /\ Head(t) = t[1] /\ Tail(t) \in Seq(ToSet(t)) /\ Len(Tail(t)) = M - 1
      /\ \A i \in 1 .. M - 1 : Tail(t)[i] = t[i + 1]
  <2>1. /\ Head(t) \in ToSet(t) /\ Tail(t) \in Seq(ToSet(t)) /\ Len(Tail(t)) = Len(t) - 1
        /\ \A i \in 1 .. Len(Tail(t)) : Tail(t)[i] = t[i + 1]
    BY <1>4, HeadTailProperties
  <2> QED
    BY <1>1, <1>4, <2>1 
<1>6. PICK u : u = Tail(t)
  OBVIOUS
<1>7. IsSeq(u) /\ Len(u) = M - 1 /\ \A i \in 1 .. M - 1 : u[i] = t[i + 1]
  BY <1>5, <1>6, IsSeqOf
<1>8. \A j \in 1 .. M : t[j] = list[m + j]
  BY <1>1 DEF Remains
<1>9. Head(t) = list[m + 1]
  <2>1. 1 \in 1 .. M
    BY <1>1, <1>3
  <2> QED
    BY <1>5, <1>8, <2>1
<1>10. \A j \in 1 .. M - 1 : u[j] = list[(m + 1) + j]
  <2> SUFFICES ASSUME NEW j \in 1 .. M - 1
               PROVE  u[j] = list[(m + 1) + j]
    OBVIOUS
  <2>1. j + 1 \in 1 .. M /\ m + (j + 1) = (m + 1) + j
    BY <1>1
  <2>2. t[j + 1] = list[m + (j + 1)]
    BY <1>8, <2>1, Zenon
  <2> QED
    BY <1>7, <2>1, <2>2, Zenon
<1>11. m + 1 <= N /\ m + 1 \in Nat /\ M - 1 = N - (m + 1)
  BY <1>1, <1>3
<1>12. Remains(u, list, m + 1)
  BY <1>1, <1>2, <1>7, <1>10, <1>11 DEF Remains
<1> QED
  BY <1>1, <1>6, <1>9, <1>11, <1>12, Zenon

Adds(f, i, v, g) ==
    /\ DOMAIN g = DOMAIN f \union {i} /\ g[i] = v
    /\ \A j \in DOMAIN f : j # i => g[j] = f[j]

(* HashMap::insert changes one entry. *)
LEMMA Inserted ==
    ASSUME NEW f, NEW i, NEW v
    PROVE  Adds(f, i, v, Insert(f, i, v))
BY DEF Insert, Adds

-----------------------------------------------------------------------------
(* The registry.                                                            *)

(* a registry after the first m of the registrations: what each id holds        *)
FromRegistration(reg, i, m) ==
    \E n \in 1 .. m : registrations[n].id = i /\ reg[i] = Recipe(registrations[n])
FromMain(reg, i, m) ==
    reg[i] = Instance /\ i \in source.instances /\ \A n \in 1 .. m : registrations[n].id # i
UpTo(reg, others, m) ==
    /\ \A n \in 1 .. m : registrations[n].id \in DOMAIN reg
    /\ \A i \in DOMAIN reg : i \in others \/ FromRegistration(reg, i, m) \/ FromMain(reg, i, m)

RegistryInv ==
    /\ late \subseteq DOMAIN registry \intersect source.instances
    /\ \A i \in late : registry[i] = Instance
    /\ phase \in Compiling => registry = <<>> /\ late = {}
    /\ phase = "linked" => late = {} /\ UpTo(registry, {}, 0)
    /\ phase = "registering" =>
          late = {} /\ \E m \in Nat : Remains(todo, registrations, m) /\ UpTo(registry, {}, m)
    /\ phase \in Known => UpTo(registry, late, Len(registrations))
    /\ phase \in Checked => Resolvable

(* Nothing is registered at first. *)
LEMMA RegistryInit == Init => RegistryInv
<1> SUFFICES ASSUME Init PROVE RegistryInv
  OBVIOUS
<1>1. phase = "compiling" /\ registry = <<>> /\ late = {}
  BY DEF Init
<1>2. phase \notin Known /\ phase \notin Checked /\ phase # "linked" /\ phase # "registering"
  BY <1>1 DEF Known, Checked, Served
<1> QED
  BY <1>1, <1>2 DEF RegistryInv

(* register_instance puts an instance in place of what the id held. *)
LEMMA InstanceInserted ==
    ASSUME NEW i \in source.instances, NEW g, g = Insert(registry, i, Instance), NEW m \in Nat,
           NEW others, UpTo(registry, others, m)
    PROVE  /\ UpTo(g, others \union {i}, m)
           /\ m = 0 => UpTo(g, others, m)
<1>1. /\ DOMAIN g = DOMAIN registry \union {i} /\ g[i] = Instance
      /\ \A j \in DOMAIN registry : j # i => g[j] = registry[j]
  <2>1. Adds(registry, i, Instance, g)
    BY Inserted
  <2> QED
    BY <2>1, Zenon DEF Adds
<1>2. \A n \in 1 .. m : registrations[n].id \in DOMAIN g
  BY <1>1 DEF UpTo
<1>3. ASSUME NEW j \in DOMAIN g, j # i
      PROVE  j \in others \/ FromRegistration(g, j, m) \/ FromMain(g, j, m)
  <2>1. j \in DOMAIN registry /\ g[j] = registry[j]
    BY <1>1, <1>3
  <2>2. j \in others \/ FromRegistration(registry, j, m) \/ FromMain(registry, j, m)
    BY <2>1 DEF UpTo
  <2> QED
    BY <2>1, <2>2, Zenon DEF FromRegistration, FromMain
<1>4. m = 0 => FromMain(g, i, m)
  <2>1. m = 0 => 1 .. m = {}
    OBVIOUS
  <2> QED
    BY <1>1, <2>1 DEF FromMain
<1>5. UpTo(g, others \union {i}, m)
  BY <1>2, <1>3 DEF UpTo
<1>6. m = 0 => UpTo(g, others, m)
  BY <1>2, <1>3, <1>4 DEF UpTo
<1> QED
  BY <1>5, <1>6

(* One pass of register_all puts a recipe in place of what its id held. *)
LEMMA RegistrationInserted ==
    ASSUME NEW m \in Nat, UpTo(registry, {}, m), NEW g, g = Register(registry, registrations[m + 1])
    PROVE  UpTo(g, {}, m + 1)
<1> DEFINE r == registrations[m + 1]
<1>1. /\ DOMAIN g = DOMAIN registry \union {r.id} /\ g[r.id] = Recipe(r)
      /\ \A j \in DOMAIN registry : j # r.id => g[j] = registry[j]
  <2>1. g = Insert(registry, r.id, Recipe(r))
    BY DEF Register
  <2>2. Adds(registry, r.id, Recipe(r), g)
    BY <2>1, Inserted, Zenon
  <2> QED
    BY <2>2, Zenon DEF Adds
<1>2. m + 1 \in 1 .. m + 1 /\ \A n \in 1 .. m + 1 : n \in 1 .. m \/ n = m + 1
  OBVIOUS
<1>2a. \A n \in 1 .. m : n \in 1 .. m + 1
  OBVIOUS
<1>3. \A n \in 1 .. m + 1 : registrations[n].id \in DOMAIN g
  BY <1>1, <1>2 DEF UpTo
<1>4. ASSUME NEW j \in DOMAIN g
      PROVE  FromRegistration(g, j, m + 1) \/ FromMain(g, j, m + 1)
  <2>1. CASE j = r.id
    BY <1>1, <1>2, <2>1 DEF FromRegistration
  <2>2. CASE j # r.id
    <3>1. j \in DOMAIN registry /\ g[j] = registry[j]
      BY <1>1, <2>2
    <3>2. FromRegistration(registry, j, m) \/ FromMain(registry, j, m)
      BY <3>1 DEF UpTo
    <3>3. FromRegistration(registry, j, m) => FromRegistration(g, j, m + 1)
      BY <1>2a, <3>1, Zenon DEF FromRegistration
    <3>4. FromMain(registry, j, m) => FromMain(g, j, m + 1)
      BY <1>2, <2>2, <3>1, Zenon DEF FromMain
    <3> QED
      BY <3>2, <3>3, <3>4
  <2> QED
    BY <2>1, <2>2
<1> QED
  BY <1>3, <1>4 DEF UpTo

(* A step that registers nothing leaves the registry explained. *)
LEMMA RegistryKept ==
    ASSUME RegistryInv, UNCHANGED <<source, registrations, registry, late>>,
           phase' = "linked" => phase = "linked",
           phase' = "registering" => /\ phase = "registering" /\ todo' = todo,
           phase' \in Known => phase \in Known,
           phase' \in Checked => phase \in Checked \/ Resolvable,
           phase' \in Compiling => phase \in Compiling
    PROVE  RegistryInv'
<1>1. \A others, m : UpTo(registry, others, m)' <=> UpTo(registry, others, m)
  BY DEF UpTo, FromRegistration, FromMain
<1>2. Resolvable' <=> Resolvable
  BY DEF Resolvable, DeclaredEdges, Registered
<1>3. UpTo(registry, late, Len(registrations))' <=> UpTo(registry, late, Len(registrations))
  BY DEF UpTo, FromRegistration, FromMain
<1>4. UpTo(registry, {}, 0)' <=> UpTo(registry, {}, 0)
  BY <1>1
<1>5. phase' = "registering" =>
         (\E m \in Nat : Remains(todo, registrations, m) /\ UpTo(registry, {}, m))'
  <2> SUFFICES ASSUME phase' = "registering"
               PROVE  \E m \in Nat : Remains(todo, registrations, m)' /\ UpTo(registry, {}, m)'
    OBVIOUS
  <2>1. PICK m \in Nat : Remains(todo, registrations, m) /\ UpTo(registry, {}, m)
    BY DEF RegistryInv
  <2>2. Remains(todo, registrations, m)'
    BY <2>1 DEF Remains
  <2> QED
    BY <1>1, <2>1, <2>2
<1>6. (\A i \in late : registry[i] = Instance)'
  BY DEF RegistryInv
<1> QED
  BY <1>2, <1>3, <1>4, <1>5, <1>6 DEF RegistryInv

(* what the program does once it is validated *)
Later == Configure \/ StartRun \/ CollectRoute \/ MergeExtraRoutes \/ MergeSwagger \/ MergePrometheus \/ Bind

(* Nothing is registered once the registry is validated. *)
LEMMA LaterMoves ==
    ASSUME Later
    PROVE  /\ UNCHANGED <<source, routes, registrations, registry, late>>
           /\ phase \in Checked /\ phase' \in Served \union {"failed", "panicked"}
<1>1. CASE Configure
  BY <1>1 DEF Configure, Checked, Served, linked
<1>2. CASE StartRun
  BY <1>2 DEF StartRun, Checked, Served, linked
<1>3. CASE CollectRoute
  BY <1>3 DEF CollectRoute, Mount, Checked, Served, linked
<1>4. CASE MergeExtraRoutes
  BY <1>4 DEF MergeExtraRoutes, Mount, Checked, Served, linked
<1>5. CASE MergeSwagger
  <2>1. phase = "documented" /\ phase' \in {"panicked", "assembling"} /\ UNCHANGED <<source, linked, registry, late>>
    BY <1>5, Zenon DEF MergeSwagger, Mount
  <2> QED
    BY <2>1 DEF Checked, Served, linked
<1>6. CASE MergePrometheus
  <2>1. phase = "assembling" /\ phase' \in {"panicked", "bound"} /\ UNCHANGED <<source, linked, registry, late>>
    BY <1>6, Zenon DEF MergePrometheus, Mount
  <2> QED
    BY <2>1 DEF Checked, Served, linked
<1>7. CASE Bind
  BY <1>7 DEF Bind, Checked, Served, linked
<1> QED
  BY <1>1, <1>2, <1>3, <1>4, <1>5, <1>6, <1>7 DEF Later

(* Which phases are among which. *)
LEMMA PhasesApart ==
    /\ \A q \in Known : q # "linked" /\ q # "registering" /\ q # "compiling" /\ q # "rejected"
    /\ \A q \in Served : q \in Checked /\ q \in Known
    /\ \A q \in Checked : q \in Known /\ q # "registered"
    /\ \A q \in {"failed", "panicked", "linked", "registering"} \union Compiling : q \notin Known /\ q \notin Checked
    /\ "registered" \in Known /\ "registered" \notin Checked
    /\ "validated" \in Known /\ "validated" \in Checked
    /\ \A q \in {"failed", "panicked", "linked", "registering", "registered", "validated"} : q \notin Compiling
BY DEF Known, Checked, Served, Compiling

(* Every step leaves the registry explained. *)
LEMMA RegistryStep ==
    ASSUME ItemsInv, LinkedInv, RegistryInv, [Next]_vars
    PROVE  RegistryInv'
<1>1. CASE CompileTrait \/ CompileService \/ CompileHandler
  <2>1. phase = "compiling" /\ phase' \in {"rejected", "compiling"} /\ registry' = registry /\ late' = late
    BY <1>1 DEF CompileTrait, CompileService, CompileHandler, Turn, Compile
  <2>2. phase \in Compiling /\ phase' \in Compiling
    BY <2>1 DEF Compiling
  <2>3. registry' = <<>> /\ late' = {}
    BY <2>1, <2>2 DEF RegistryInv
  <2>4. phase' # "linked" /\ phase' # "registering" /\ phase' \notin Known /\ phase' \notin Checked
    BY <2>1, <2>2, PhasesApart
  <2> QED
    BY <2>3, <2>4 DEF RegistryInv
<1>2. CASE Link
  <2>1. phase = "compiling" /\ phase' = "linked" /\ registry' = registry /\ late' = late
    BY <1>2 DEF Link
  <2>2. registry' = <<>> /\ late' = {}
    BY <2>1 DEF RegistryInv, Compiling
  <2>3. UpTo(registry, {}, 0)'
    <3>1. DOMAIN registry' = {} /\ 1 .. 0 = {}
      BY <2>2
    <3> QED
      BY <3>1 DEF UpTo
  <2>4. phase' # "registering" /\ phase' \notin Known /\ phase' \notin Checked /\ phase' \notin Compiling
    BY <2>1, PhasesApart
  <2> QED
    BY <2>2, <2>3, <2>4 DEF RegistryInv
<1>3. ASSUME NEW i \in source.instances, RegisterInstance(i)
      PROVE  RegistryInv'
  <2>1. /\ phase \in {"linked", "registered"} /\ phase' = phase /\ registry' = Insert(registry, i, Instance)
        /\ late' = IF phase = "registered" THEN late \union {i} ELSE late
        /\ source' = source /\ registrations' = registrations
    BY <1>3 DEF RegisterInstance, linked
  <2>2. Adds(registry, i, Instance, registry')
    BY <2>1, Inserted, Zenon
  <2>3. /\ DOMAIN registry' = DOMAIN registry \union {i} /\ registry'[i] = Instance
        /\ \A j \in DOMAIN registry : j # i => registry'[j] = registry[j]
    BY <2>2, Zenon DEF Adds
  <2>4. late' \subseteq DOMAIN registry' \intersect source.instances /\ \A j \in late' : registry'[j] = Instance
    BY <2>1, <2>3 DEF RegistryInv
  <2>5. \A others, m : UpTo(registry, others, m)' <=> UpTo(registry', others, m)
    BY <2>1 DEF UpTo, FromRegistration, FromMain
  <2>6. CASE phase = "linked"
    <3>1. late = {} /\ late' = {} /\ UpTo(registry, {}, 0)
      BY <2>1, <2>6 DEF RegistryInv
    <3>2. UpTo(registry', {}, 0)
      BY <2>1, <3>1, InstanceInserted
    <3>3. UpTo(registry, {}, 0)'
      BY <2>5, <3>2
    <3>4. phase' # "registering" /\ phase' \notin Known /\ phase' \notin Checked /\ phase' \notin Compiling
      BY <2>1, <2>6, PhasesApart
    <3> QED
      BY <2>1, <2>4, <3>1, <3>3, <3>4 DEF RegistryInv
  <2>7. CASE phase = "registered"
    <3>1. UpTo(registry, late, Len(registrations)) /\ Len(registrations) \in Nat
      <4>1. phase \in Known /\ phase \notin Compiling
        BY <2>7, PhasesApart
      <4>2. IsSeq(registrations)
        BY <4>1 DEF LinkedInv
      <4> QED
        BY <4>1, <4>2, IsSeqDomain DEF RegistryInv
    <3>2. UpTo(registry', late \union {i}, Len(registrations))
      BY <2>1, <3>1, InstanceInserted
    <3>3. UpTo(registry, late, Len(registrations))'
      BY <2>1, <2>5, <2>7, <3>2
    <3>4. phase' # "registering" /\ phase' # "linked" /\ phase' \notin Checked /\ phase' \notin Compiling
      BY <2>1, <2>7, PhasesApart
    <3> QED
      BY <2>1, <2>4, <3>3, <3>4 DEF RegistryInv
  <2> QED
    BY <2>1, <2>6, <2>7
<1>4. CASE RegisterAll
  <2>1. /\ phase = "linked" /\ phase' = "registering" /\ todo' = registrations
        /\ UNCHANGED <<source, registrations, registry, late>>
    BY <1>4 DEF RegisterAll, linked
  <2>2. late' = {} /\ UpTo(registry, {}, 0)
    BY <2>1 DEF RegistryInv
  <2>3. UpTo(registry, {}, 0)'
    BY <2>1, <2>2 DEF UpTo, FromRegistration, FromMain
  <2>4. IsSeq(registrations)
    <3>1. phase \notin Compiling
      BY <2>1, PhasesApart
    <3> QED
      BY <3>1 DEF LinkedInv
  <2>5. Remains(todo', registrations', 0)
    <3>1. Remains(registrations, registrations, 0)
      BY <2>4, RemainsAll
    <3> QED
      BY <2>1, <3>1
  <2>6. phase' # "linked" /\ phase' \notin Known /\ phase' \notin Checked /\ phase' \notin Compiling
    BY <2>1, PhasesApart
  <2>7. (\E m \in Nat : Remains(todo, registrations, m) /\ UpTo(registry, {}, m))'
    BY <2>3, <2>5
  <2> QED
    BY <2>2, <2>6, <2>7 DEF RegistryInv
<1>5. CASE RegisterNext
  <2>1. /\ phase = "registering" /\ phase' = "registering" /\ todo # <<>> /\ todo' = Tail(todo)
        /\ registry' = Register(registry, Head(todo))
        /\ UNCHANGED <<source, registrations, late>>
    BY <1>5 DEF RegisterNext, linked
  <2>2. PICK m \in Nat : late = {} /\ Remains(todo, registrations, m) /\ UpTo(registry, {}, m)
    BY <2>1 DEF RegistryInv
  <2>3. Head(todo) = registrations[m + 1] /\ Remains(todo', registrations, m + 1)
    <3>1. PICK t : t = todo
      OBVIOUS
    <3>2. Remains(t, registrations, m) /\ t # <<>>
      BY <2>1, <2>2, <3>1
    <3>3. Head(t) = registrations[m + 1] /\ Remains(Tail(t), registrations, m + 1)
      BY <3>2, RemainsNext
    <3> QED
      BY <2>1, <3>1, <3>3, Zenon
  <2>4. UpTo(registry', {}, m + 1)
    <3>1. registry' = Register(registry, registrations[m + 1])
      BY <2>1, <2>3, Zenon
    <3> QED
      BY <2>2, <3>1, RegistrationInserted
  <2>5. UpTo(registry, {}, m + 1)'
    BY <2>1, <2>4 DEF UpTo, FromRegistration, FromMain
  <2>6. Remains(todo', registrations', m + 1)
    BY <2>1, <2>3
  <2>7. m + 1 \in Nat
    OBVIOUS
  <2>8. (\E n \in Nat : Remains(todo, registrations, n) /\ UpTo(registry, {}, n))'
    BY <2>5, <2>6, <2>7
  <2>9. phase' # "linked" /\ phase' \notin Known /\ phase' \notin Checked /\ phase' \notin Compiling
    BY <2>1, PhasesApart
  <2> QED
    BY <2>1, <2>2, <2>8, <2>9 DEF RegistryInv
<1>6. CASE RegisterAllReturns
  <2>1. /\ phase = "registering" /\ phase' = "registered" /\ todo = <<>>
        /\ UNCHANGED <<source, registrations, registry, late>>
    BY <1>6 DEF RegisterAllReturns, linked
  <2>2. PICK m \in Nat : late = {} /\ Remains(todo, registrations, m) /\ UpTo(registry, {}, m)
    BY <2>1 DEF RegistryInv
  <2>3. m = Len(registrations)
    <3>1. Len(todo) = 0
      BY <2>1, EmptyAndSingle
    <3>2. Len(registrations) \in Nat /\ Len(todo) = Len(registrations) - m
      BY <2>2, IsSeqDomain DEF Remains
    <3> QED
      BY <3>1, <3>2
  <2>4. UpTo(registry, late, Len(registrations))'
    <3>1. UpTo(registry, late, Len(registrations))
      BY <2>2, <2>3, Zenon
    <3> QED
      BY <2>1, <3>1 DEF UpTo, FromRegistration, FromMain
  <2>5. late' = {}
    BY <2>1, <2>2
  <2>6. phase' # "linked" /\ phase' # "registering" /\ phase' \notin Checked /\ phase' \notin Compiling
    BY <2>1, PhasesApart
  <2> QED
    BY <2>4, <2>5, <2>6 DEF RegistryInv
<1>7. CASE Validate
  <2>1. /\ phase = "registered" /\ UNCHANGED <<source, registrations, registry, late>>
        /\ phase' = "failed" \/ (phase' = "validated" /\ Resolvable)
    BY <1>7 DEF Validate, linked
  <2> QED
    BY <2>1, PhasesApart, RegistryKept
<1>8. CASE Later
  <2>1. /\ UNCHANGED <<source, registrations, registry, late>>
        /\ phase \in Checked /\ phase' \in Served \union {"failed", "panicked"}
    BY <1>8, LaterMoves
  <2> QED
    BY <2>1, PhasesApart, RegistryKept
<1>9. CASE UNCHANGED vars
  <2>1. UNCHANGED <<phase, source, registrations, registry, late, todo>>
    BY <1>9 DEF vars, linked, assembly
  <2> QED
    BY <2>1, RegistryKept
<1> QED
  BY <1>1, <1>2, <1>3, <1>4, <1>5, <1>6, <1>7, <1>8, <1>9 DEF Next, Later

-----------------------------------------------------------------------------
(* The configuration, and the routes that are mounted.                      *)

Settings ==
    [cors_origins |-> ToSet(ParseCsvEnv("APP_CORS_ORIGINS")),
     cors_origin_suffixes |-> ToSet(ParseCsvEnv("APP_CORS_ORIGIN_SUFFIXES")),
     cors_dev_origins |-> ToSet(ParseCsvEnv("APP_CORS_DEV_ORIGINS")),
     is_dev |-> IsDevEnvironment,
     enable_swagger |-> source.swagger,
     observability |-> ObservabilityConfigFromEnv]
SettingsInv == phase \in Served => config = Settings

(* Nothing is configured at first. *)
LEMMA SettingsInit == Init => SettingsInv
BY DEF Init, SettingsInv, Served

(* The settings depend on nothing that changes. *)
LEMMA SettingsStay ==
    ASSUME source' = source
    PROVE  Settings' = Settings
<1>1. \A key : ParseCsvEnv(key)' = ParseCsvEnv(key)
  BY DEF ParseCsvEnv, Get, env
<1>2. \A key, spellings : Says(key, spellings)' = Says(key, spellings)
  BY DEF Says, Get, env
<1>3. IsDevEnvironment' = IsDevEnvironment
  BY <1>2 DEF IsDevEnvironment, env
<1>4. ObservabilityConfigFromEnv' = ObservabilityConfigFromEnv
  BY DEF ObservabilityConfigFromEnv, Says, Get, env
<1> QED
  BY <1>1, <1>3, <1>4, Zenon DEF Settings

(* Every step keeps the configuration the one the environment gives. *)
LEMMA SettingsStep ==
    ASSUME SettingsInv, [Next]_vars
    PROVE  SettingsInv'
<1>1. CASE CompileTrait \/ CompileService \/ CompileHandler
  BY <1>1 DEF CompileTrait, CompileService, CompileHandler, Turn, Compile, SettingsInv, Served
<1>2. CASE Link \/ RegisterAll \/ RegisterNext \/ RegisterAllReturns \/ Validate
  BY <1>2 DEF Link, RegisterAll, RegisterNext, RegisterAllReturns, Validate, SettingsInv, Served
<1>3. ASSUME NEW i \in source.instances, RegisterInstance(i)
      PROVE  SettingsInv'
  BY <1>3 DEF RegisterInstance, SettingsInv, Served
<1>4. CASE Configure
  <2>1. config' = Settings /\ source' = source
    BY <1>4, Zenon DEF Configure, Settings
  <2> QED
    BY <2>1, SettingsStay DEF SettingsInv
<1>5. CASE Later /\ ~Configure
  <2>1. source' = source
    BY <1>5, LaterMoves
  <2>2. config' = config /\ phase \in Served
    <3>1. CASE StartRun
      BY <3>1 DEF StartRun, Served
    <3>2. CASE CollectRoute
      BY <3>2 DEF CollectRoute, Served
    <3>3. CASE MergeExtraRoutes
      BY <3>3 DEF MergeExtraRoutes, Served
    <3>4. CASE MergeSwagger
      <4>1. phase = "documented" /\ config' = config
        BY <3>4, Zenon DEF MergeSwagger
      <4> QED
        BY <4>1 DEF Served
    <3>5. CASE MergePrometheus
      <4>1. phase = "assembling" /\ config' = config
        BY <3>5, Zenon DEF MergePrometheus
      <4> QED
        BY <4>1 DEF Served
    <3>6. CASE Bind
      BY <3>6 DEF Bind, Served
    <3> QED
      BY <1>5, <3>1, <3>2, <3>3, <3>4, <3>5, <3>6 DEF Later
  <2> QED
    BY <2>1, <2>2, SettingsStay DEF SettingsInv
<1>6. CASE UNCHANGED vars
  <2>1. UNCHANGED <<phase, source, config>>
    BY <1>6 DEF vars
  <2> QED
    BY <2>1, SettingsStay DEF SettingsInv
<1> QED
  BY <1>1, <1>2, <1>3, <1>4, <1>5, <1>6 DEF Next, Later

-----------------------------------------------------------------------------
Mounted(m) == {routes[n] : n \in 1 .. m}
Apart(m, R) ==
    /\ \A j, k \in 1 .. m : j # k => ~Collide(routes[j], routes[k])
    /\ \A k \in 1 .. m, r \in R : r # routes[k] => ~Collide(r, routes[k])
WithSwagger == IF source.swagger THEN SwaggerRoutes ELSE {}
WithMetrics == IF Says("MRP_PROMETHEUS_ENABLED", TrueSpellings) THEN PrometheusRoutes ELSE {}
AllRoutes == Mounted(Len(routes)) \union source.extra

RouterInv ==
    /\ phase \in Compiling \union Early => router = {} /\ docs = {}
    /\ phase = "collecting" =>
          \E m \in Nat :
              Remains(todo, routes, m) /\ Apart(m, router) /\ router = Mounted(m) /\ docs = Mounted(m)
    /\ phase \in Collected =>
          /\ Apart(Len(routes), router) /\ docs = AllRoutes /\ "bearerAuth" \in schemes
          /\ AllRoutes \subseteq router
          /\ router \subseteq AllRoutes \union (IF phase = "documented" THEN {} ELSE WithSwagger)
                              \union (IF phase \in {"bound", "serving"} THEN WithMetrics ELSE {})
    /\ phase = "panicked" => \/ \E r, q \in Asked : r # q /\ Collide(r[2], q[2])
                             \/ WildcardListed

(* No route is mounted at first. *)
LEMMA RouterInit == Init => RouterInv
BY DEF Init, RouterInv, Collected

(* Collisions are mutual. *)
LEMMA CollideSymmetric == \A r, q : Collide(r, q) <=> Collide(q, r)
BY DEF Collide

(* Whether two routes collide depends on their paths and methods alone. *)
LEMMA CollideSpots ==
    ASSUME NEW r, NEW q, NEW s, NEW t, r.path = s.path, r.method = s.method,
           q.path = t.path, q.method = t.method
    PROVE  Collide(r, q) <=> Collide(s, t)
BY DEF Collide

(* Mounting routes next to those of the router. *)
LEMMA MountCases ==
    ASSUME NEW new, NEW next, Mount(new, next)
    PROVE  \/ phase' = "panicked" /\ \E r \in new, other \in router : Collide(r, other)
           \/ /\ phase' = next /\ router' = router \union new
              /\ \A r \in new, other \in router : ~Collide(r, other)
BY Zenon DEF Mount

(* Routes that collide with nothing mounted leave the handlers apart. *)
LEMMA ApartMore ==
    ASSUME NEW m, NEW R, NEW new, Apart(m, R), Mounted(m) \subseteq R,
           \A r \in new, other \in R : ~Collide(r, other)
    PROVE  Apart(m, R \union new)
BY DEF Apart, Mounted

(* a is what asked for the route r *)
Asks(a, r) == a \in Asked /\ a[2].path = r.path /\ a[2].method = r.method

(* A collision of two routes is one of the two parts that asked for them. *)
LEMMA TwoAsk ==
    ASSUME NEW a, NEW b, NEW r, NEW q, Asks(a, r), Asks(b, q), a[1] # b[1], Collide(r, q)
    PROVE  \E s, t \in Asked : s # t /\ Collide(s[2], t[2])
<1>1. a \in Asked /\ b \in Asked /\ a # b
  BY DEF Asks
<1>2. Collide(a[2], b[2])
  BY CollideSpots DEF Asks
<1> QED
  BY <1>1, <1>2

(* Every registered route was asked for by a handler of its own. *)
LEMMA AskedFor ==
    ASSUME ItemsInv, LinkedInv, phase \notin Compiling
    PROVE  \E p : /\ \A n \in 1 .. Len(routes) : p[n] \in Nat \ {0} /\ Asks(<<p[n], source.items[p[n]]>>, routes[n])
                  /\ \A j, k \in 1 .. Len(routes) : p[j] = p[k] => j = k
<1>1. PICK p : /\ IsOrder(p, Len(routes), Items("handler"))
               /\ \A n \in 1 .. Len(routes) : routes[n] = WrittenRoute(source.items[p[n]])
  BY DEF LinkedInv
<1>2. \A n \in 1 .. Len(routes) : p[n] \in Items("handler")
  BY <1>1 DEF IsOrder
<1>3. Items("handler") \subseteq 1 .. Len(source.items) /\ Len(source.items) \in Nat
  BY ItemsFinite, ProgramFacts DEF ItemsInv
<1>4. \A k \in Items("handler") : k \in Nat \ {0} /\ <<k, source.items[k]>> \in Asked
  BY <1>3 DEF Asked
<1>5. \A h : WrittenRoute(h).path = h.path /\ WrittenRoute(h).method = h.method
  BY DEF WrittenRoute
<1>6. ASSUME NEW n \in 1 .. Len(routes)
      PROVE  p[n] \in Nat \ {0} /\ Asks(<<p[n], source.items[p[n]]>>, routes[n])
  <2>1. p[n] \in Nat \ {0} /\ <<p[n], source.items[p[n]]>> \in Asked
    BY <1>2, <1>4
  <2>2. routes[n].path = source.items[p[n]].path /\ routes[n].method = source.items[p[n]].method
    BY <1>1, <1>5
  <2> QED
    BY <2>1, <2>2 DEF Asks
<1>7. \A j, k \in 1 .. Len(routes) : p[j] = p[k] => j = k
  BY <1>1 DEF IsOrder
<1> QED
  BY <1>6, <1>7

(* Which part of the program asked for a route of the router. *)
LEMMA AskedBefore ==
    ASSUME ItemsInv, LinkedInv, phase \notin Compiling, NEW r
    PROVE  /\ r \in Mounted(Len(routes)) => \E a : Asks(a, r) /\ a[1] \in Nat \ {0}
           /\ r \in source.extra => Asks(<<0, r>>, r)
           /\ r \in WithSwagger => Asks(<<-1, r>>, r)
           /\ r \in WithMetrics => Asks(<<-2, r>>, r)
<1>1. r \in Mounted(Len(routes)) => \E a : Asks(a, r) /\ a[1] \in Nat \ {0}
  <2> SUFFICES ASSUME r \in Mounted(Len(routes))
               PROVE  \E a : Asks(a, r) /\ a[1] \in Nat \ {0}
    OBVIOUS
  <2>1. PICK p : \A n \in 1 .. Len(routes) : p[n] \in Nat \ {0} /\ Asks(<<p[n], source.items[p[n]]>>, routes[n])
    BY AskedFor
  <2>2. PICK n \in 1 .. Len(routes) : r = routes[n]
    BY DEF Mounted
  <2>3. PICK a : a = <<p[n], source.items[p[n]]>>
    OBVIOUS
  <2>4. a[1] = p[n]
    BY <2>3
  <2> QED
    BY <2>1, <2>2, <2>3, <2>4
<1>2. \A x, y : <<x, y>>[2] = y
  OBVIOUS
<1>3. r \in source.extra => Asks(<<0, r>>, r)
  BY <1>2, Zenon DEF Asks, Asked
<1>4. r \in WithSwagger => Asks(<<-1, r>>, r)
  <2>1. r \in WithSwagger => <<-1, r>> \in Asked
    BY DEF Asked, WithSwagger
  <2> QED
    BY <1>2, <2>1, Zenon DEF Asks
<1>5. r \in WithMetrics => Asks(<<-2, r>>, r)
  <2>1. r \in WithMetrics => <<-2, r>> \in Asked
    BY DEF Asked, WithMetrics
  <2> QED
    BY <1>2, <2>1, Zenon DEF Asks
<1> QED
  BY <1>1, <1>3, <1>4, <1>5

(* A step that mounts nothing keeps what is known of the router. *)
LEMMA RouterKept ==
    ASSUME RouterInv, UNCHANGED <<source, routes, router, docs, schemes, todo>>,
           \/ phase' = phase
           \/ phase = "bound" /\ phase' \in {"serving", "failed"}
    PROVE  RouterInv'
<1>1. Asked' = Asked /\ WithMetrics' = WithMetrics /\ WithSwagger' = WithSwagger /\ AllRoutes' = AllRoutes
  BY DEF Asked, Items, Says, Get, env, WithMetrics, WithSwagger, AllRoutes, Mounted
<1>2. phase' \in Compiling \union Early => router' = {} /\ docs' = {}
  BY DEF RouterInv, Compiling, Early
<1>3. phase' = "collecting" =>
         (\E m \in Nat : Remains(todo, routes, m) /\ Apart(m, router) /\ router = Mounted(m) /\ docs = Mounted(m))'
  <2> SUFFICES ASSUME phase' = "collecting"
               PROVE  \E m \in Nat : /\ Remains(todo, routes, m)' /\ Apart(m, router)' 
                                     /\ router' = Mounted(m)' /\ docs' = Mounted(m)'
    OBVIOUS
  <2>1. phase = "collecting"
    BY DEF Early
  <2>2. PICK m \in Nat : Remains(todo, routes, m) /\ Apart(m, router) /\ router = Mounted(m) /\ docs = Mounted(m)
    BY <2>1 DEF RouterInv
  <2>3. Remains(todo, routes, m)' /\ Apart(m, router)' /\ Mounted(m)' = Mounted(m)
    BY <2>2 DEF Remains, Apart, Mounted
  <2> QED
    BY <2>2, <2>3
<1>4. phase' \in Collected =>
          /\ phase \in Collected
          /\ phase' = "documented" <=> phase = "documented"
          /\ phase' \in {"bound", "serving"} => phase \in {"bound", "serving"}
  BY DEF Collected, Early
<1>5. Apart(Len(routes), router)' <=> Apart(Len(routes), router)
  BY DEF Apart
<1>5a. phase' \in Collected =>
          /\ Apart(Len(routes), router)' /\ docs' = AllRoutes' /\ "bearerAuth" \in schemes'
          /\ AllRoutes' \subseteq router'
          /\ router' \subseteq AllRoutes' \union (IF phase' = "documented" THEN {} ELSE WithSwagger')
                              \union (IF phase' \in {"bound", "serving"} THEN WithMetrics' ELSE {})
  <2> SUFFICES ASSUME phase' \in Collected
               PROVE  /\ Apart(Len(routes), router)' /\ docs' = AllRoutes' /\ "bearerAuth" \in schemes'
                      /\ AllRoutes' \subseteq router'
                      /\ router' \subseteq AllRoutes' \union (IF phase' = "documented" THEN {} ELSE WithSwagger')
                                          \union (IF phase' \in {"bound", "serving"} THEN WithMetrics' ELSE {})
    OBVIOUS
  <2>1. phase \in Collected
    BY <1>4
  <2>2. phase' = phase \/ (phase = "bound" /\ phase' = "serving")
    BY <2>1 DEF Collected, Early
  <2>3. /\ Apart(Len(routes), router) /\ docs = AllRoutes /\ "bearerAuth" \in schemes
        /\ AllRoutes \subseteq router
        /\ router \subseteq AllRoutes \union (IF phase = "documented" THEN {} ELSE WithSwagger)
                              \union (IF phase \in {"bound", "serving"} THEN WithMetrics ELSE {})
    BY <2>1 DEF RouterInv
  <2> QED
    BY <1>1, <1>5, <2>2, <2>3
<1>6. phase' = "panicked" => phase = "panicked"
  BY DEF Early
<1>7. (phase = "panicked" => \/ \E r, q \in Asked : r # q /\ Collide(r[2], q[2])
                             \/ WildcardListed)'
  <2> SUFFICES ASSUME phase' = "panicked"
               PROVE  \/ \E r, q \in Asked' : r # q /\ Collide(r[2], q[2])
                      \/ WildcardListed'
    BY DEF Collide, Shape, StarBesideName
  <2>1. WildcardListed' = WildcardListed
    BY DEF WildcardListed, IsDevEnvironment, Says, Given, Get, env
  <2> QED
    BY <1>1, <1>6, <2>1 DEF RouterInv
<1> QED
  BY <1>2, <1>3, <1>5a, <1>7, Zenon DEF RouterInv

(* After a panic, or before any route is mounted. *)
LEMMA PanicFound ==
    ASSUME ItemsInv, LinkedInv, phase \notin Compiling, source' = source, phase' = "panicked",
           \/ \E s, t \in Asked : s # t /\ Collide(s[2], t[2])
           \/ WildcardListed
    PROVE  RouterInv'
<1>1. Asked' = Asked /\ WildcardListed' = WildcardListed
  BY DEF Asked, Items, Says, Get, env, Given, WildcardListed, IsDevEnvironment
<1>2. phase' \notin Compiling \union Early /\ phase' # "collecting" /\ phase' \notin Collected
  BY DEF Compiling, Early, Collected
<1> QED
  BY <1>1, <1>2, Zenon DEF RouterInv

(* Mounting the route of a handler, or panicking over it. *)
LEMMA CollectStep ==
    ASSUME ItemsInv, LinkedInv, RouterInv, CollectRoute
    PROVE  RouterInv'
<1>1. /\ phase = "collecting" /\ todo # <<>> /\ Mount({Head(todo)}, "collecting")
      /\ docs' = docs \union {Head(todo)} /\ todo' = Tail(todo)
      /\ source' = source /\ routes' = routes
  BY DEF CollectRoute, linked
<1>2. phase \notin Compiling
  BY <1>1 DEF Compiling
<1>3. PICK m \in Nat : Remains(todo, routes, m) /\ Apart(m, router) /\ router = Mounted(m) /\ docs = Mounted(m)
  BY <1>1 DEF RouterInv
<1>4. PICK t : t = todo
  OBVIOUS
<1>5. m + 1 <= Len(routes) /\ Head(t) = routes[m + 1] /\ Remains(Tail(t), routes, m + 1)
  <2>1. Remains(t, routes, m) /\ t # <<>>
    BY <1>1, <1>3, <1>4
  <2> QED
    BY <2>1, RemainsNext
<1>6. PICK x : x = routes[m + 1]
  OBVIOUS
<1>7. Mount({x}, "collecting") /\ docs' = docs \union {x} /\ Remains(todo', routes, m + 1)
  BY <1>1, <1>4, <1>5, <1>6, Zenon
<1>8. Len(routes) \in Nat
  BY <1>2, IsSeqDomain DEF LinkedInv
<1>9. m + 1 \in 1 .. Len(routes) /\ \A k \in 1 .. m : k \in 1 .. Len(routes) /\ k # m + 1
  BY <1>5, <1>8
<1>10. CASE phase' = "panicked" /\ \E r \in {x}, other \in router : Collide(r, other)
  <2>1. PICK j \in 1 .. m : Collide(x, routes[j])
    BY <1>3, <1>10 DEF Mounted
  <2>2. PICK p : /\ \A n \in 1 .. Len(routes) : p[n] \in Nat \ {0} /\ Asks(<<p[n], source.items[p[n]]>>, routes[n])
                 /\ \A a, b \in 1 .. Len(routes) : p[a] = p[b] => a = b
    BY <1>2, AskedFor
  <2>3. PICK a, b : a = <<p[m + 1], source.items[p[m + 1]]>> /\ b = <<p[j], source.items[p[j]]>>
    OBVIOUS
  <2>4. a[1] = p[m + 1] /\ b[1] = p[j]
    BY <2>3
  <2>5. a[1] # b[1]
    BY <1>9, <2>2, <2>4
  <2>6. Asks(a, x) /\ Asks(b, routes[j])
    BY <1>6, <1>9, <2>2, <2>3, Zenon
  <2>7. \E s, q \in Asked : s # q /\ Collide(s[2], q[2])
    BY <2>1, <2>5, <2>6, TwoAsk
  <2> QED
    BY <1>1, <1>2, <1>10, <2>7, PanicFound
<1>11. CASE /\ phase' = "collecting" /\ router' = router \union {x}
            /\ \A r \in {x}, other \in router : ~Collide(r, other)
  <2>1. Mounted(m + 1) = Mounted(m) \union {x}
    <3>1. \A n : n \in 1 .. m + 1 <=> n \in 1 .. m \/ n = m + 1
      OBVIOUS
    <3> QED
      BY <1>6, <3>1 DEF Mounted
  <2>2. router' = Mounted(m + 1) /\ docs' = Mounted(m + 1)
    BY <1>3, <1>7, <1>11, <2>1
  <2>3. \A k \in 1 .. m : ~Collide(x, routes[k]) /\ ~Collide(routes[k], x)
    BY <1>3, <1>11, CollideSymmetric DEF Mounted
  <2>4. \A j, k \in 1 .. m + 1 : j # k => ~Collide(routes[j], routes[k])
    <3>1. \A n \in 1 .. m + 1 : n \in 1 .. m \/ n = m + 1
      OBVIOUS
    <3>2. \A j, k \in 1 .. m : j # k => ~Collide(routes[j], routes[k])
      BY <1>3 DEF Apart
    <3> QED
      BY <1>6, <2>3, <3>1, <3>2
  <2>5. Apart(m + 1, Mounted(m + 1))
    BY <2>4 DEF Apart, Mounted
  <2>6. Apart(m + 1, router)' /\ Mounted(m + 1)' = Mounted(m + 1) /\ Remains(todo', routes', m + 1)
    BY <1>1, <1>7, <2>2, <2>5 DEF Apart, Mounted
  <2>7. m + 1 \in Nat
    OBVIOUS
  <2>8. (\E n \in Nat : Remains(todo, routes, n) /\ Apart(n, router) /\ router = Mounted(n) /\ docs = Mounted(n))'
    BY <2>2, <2>6, <2>7
  <2>9. phase' \notin Compiling \union Early /\ phase' # "panicked" /\ phase' \notin Collected
    BY <1>11 DEF Compiling, Early, Collected
  <2> QED
    BY <2>8, <2>9 DEF RouterInv
<1> QED
  BY <1>7, <1>10, <1>11, MountCases

(* Mounting the routes passed to run(), or panicking over one. *)
LEMMA ExtraStep ==
    ASSUME ItemsInv, LinkedInv, RouterInv, MergeExtraRoutes
    PROVE  RouterInv'
<1>1. /\ phase = "collecting" /\ todo = <<>> /\ Mount(source.extra, "documented")
      /\ docs' = docs \union source.extra /\ schemes' = RegisterBearerAuthScheme(schemes)
      /\ source' = source /\ routes' = routes
  BY DEF MergeExtraRoutes, linked
<1>2. phase \notin Compiling
  BY <1>1 DEF Compiling
<1>3. PICK m \in Nat : Remains(todo, routes, m) /\ Apart(m, router) /\ router = Mounted(m) /\ docs = Mounted(m)
  BY <1>1 DEF RouterInv
<1>4. m = Len(routes)
  <2>1. Len(todo) = 0
    BY <1>1, EmptyAndSingle
  <2>2. Len(routes) \in Nat /\ Len(todo) = Len(routes) - m
    BY <1>3, IsSeqDomain DEF Remains
  <2> QED
    BY <2>1, <2>2
<1>5. router = Mounted(Len(routes)) /\ docs = Mounted(Len(routes)) /\ Apart(Len(routes), router)
  BY <1>3, <1>4, Zenon
<1>6. CASE phase' = "panicked" /\ \E r \in source.extra, other \in router : Collide(r, other)
  <2>1. PICK r \in source.extra, other \in Mounted(Len(routes)) : Collide(r, other)
    BY <1>5, <1>6
  <2>2. PICK a : Asks(a, other) /\ a[1] \in Nat \ {0}
    BY <1>2, <2>1, AskedBefore
  <2>3. PICK b : b = <<0, r>>
    OBVIOUS
  <2>4. Asks(b, r) /\ b[1] = 0
    BY <1>2, <2>1, <2>3, AskedBefore
  <2>5. b[1] # a[1]
    BY <2>2, <2>4
  <2>6. \E s, q \in Asked : s # q /\ Collide(s[2], q[2])
    BY <2>1, <2>2, <2>4, <2>5, TwoAsk
  <2> QED
    BY <1>1, <1>2, <1>6, <2>6, PanicFound
<1>7. CASE /\ phase' = "documented" /\ router' = router \union source.extra
           /\ \A r \in source.extra, other \in router : ~Collide(r, other)
  <2>1. Apart(Len(routes), router \union source.extra)
    BY <1>5, <1>7, ApartMore
  <2>2. Apart(Len(routes), router)' /\ AllRoutes' = AllRoutes
    BY <1>1, <1>7, <2>1 DEF Apart, AllRoutes, Mounted
  <2>3. router' = AllRoutes /\ docs' = AllRoutes
    BY <1>1, <1>5, <1>7 DEF AllRoutes
  <2>4. "bearerAuth" \in schemes'
    BY <1>1 DEF RegisterBearerAuthScheme
  <2>5. phase' \notin Compiling \union Early /\ phase' # "panicked" /\ phase' # "collecting"
    BY <1>7 DEF Compiling, Early
  <2> QED
    BY <2>2, <2>3, <2>4, <2>5 DEF RouterInv
<1> QED
  BY <1>1, <1>6, <1>7, MountCases

(* Mounting the Swagger UI, or panicking over it. *)
LEMMA SwaggerStep ==
    ASSUME ItemsInv, LinkedInv, SettingsInv, RouterInv, MergeSwagger
    PROVE  RouterInv'
<1>1. PICK new : /\ new = IF config.enable_swagger THEN SwaggerRoutes ELSE {}
                 /\ phase = "documented" /\ Mount(new, "assembling")
                 /\ UNCHANGED <<source, linked, docs, schemes>>
  BY Zenon DEF MergeSwagger
<1>2. phase \notin Compiling /\ phase \in Collected /\ phase \in Served
  BY <1>1 DEF Compiling, Collected, Served
<1>3. new = WithSwagger
  <2>1. config.enable_swagger = source.swagger
    BY <1>2 DEF SettingsInv, Settings
  <2> QED
    BY <1>1, <2>1, Zenon DEF WithSwagger
<1>4. /\ Apart(Len(routes), router) /\ docs = AllRoutes /\ "bearerAuth" \in schemes
      /\ AllRoutes \subseteq router /\ router \subseteq AllRoutes
  BY <1>1, <1>2 DEF RouterInv
<1>5. CASE phase' = "panicked" /\ \E r \in new, other \in router : Collide(r, other)
  <2>1. PICK r \in WithSwagger, other \in AllRoutes : Collide(r, other)
    BY <1>3, <1>4, <1>5
  <2>2. PICK b : b = <<-1, r>>
    OBVIOUS
  <2>3. Asks(b, r) /\ b[1] = -1
    BY <1>2, <2>1, <2>2, AskedBefore
  <2>4. \E a : Asks(a, other) /\ a[1] # -1
    <3>1. CASE other \in Mounted(Len(routes))
      <4>1. PICK a : Asks(a, other) /\ a[1] \in Nat \ {0}
        BY <1>2, <3>1, AskedBefore
      <4>2. a[1] # -1
        BY <4>1
      <4> QED
        BY <4>1, <4>2
    <3>2. CASE other \in source.extra
      <4>1. PICK a : a = <<0, other>>
        OBVIOUS
      <4>2. Asks(a, other) /\ a[1] = 0
        BY <1>2, <3>2, <4>1, AskedBefore
      <4> QED
        BY <4>2
    <3> QED
      BY <2>1, <3>1, <3>2 DEF AllRoutes
  <2>5. \E s, q \in Asked : s # q /\ Collide(s[2], q[2])
    BY <2>1, <2>3, <2>4, TwoAsk
  <2> QED
    BY <1>1, <1>2, <1>5, <2>5, PanicFound
<1>6. CASE /\ phase' = "assembling" /\ router' = router \union new
           /\ \A r \in new, other \in router : ~Collide(r, other)
  <2>1. Apart(Len(routes), router \union new)
    BY <1>4, <1>6, ApartMore DEF AllRoutes
  <2>2. Apart(Len(routes), router)' /\ AllRoutes' = AllRoutes /\ WithSwagger' = WithSwagger
    BY <1>1, <1>6, <2>1 DEF Apart, AllRoutes, Mounted, WithSwagger, linked
  <2>3. router' = router \union WithSwagger /\ docs' = AllRoutes /\ "bearerAuth" \in schemes'
    BY <1>1, <1>3, <1>4, <1>6
  <2>4. /\ phase' \notin Compiling \union Early /\ phase' # "panicked" /\ phase' # "collecting"
        /\ phase' # "documented" /\ phase' \notin {"bound", "serving"}
    BY <1>6 DEF Compiling, Early
  <2> QED
    BY <1>4, <2>2, <2>3, <2>4 DEF RouterInv
<1> QED
  BY <1>1, <1>5, <1>6, MountCases

(* Mounting /metrics, or panicking over it. *)
LEMMA MetricsStep ==
    ASSUME ItemsInv, LinkedInv, SettingsInv, RouterInv, MergePrometheus
    PROVE  RouterInv'
<1>1. PICK new : /\ new = IF config.observability.prometheus THEN PrometheusRoutes ELSE {}
                 /\ phase = "assembling" /\ Mount(new, "bound")
                 /\ UNCHANGED <<source, linked, docs, schemes>>
  BY Zenon DEF MergePrometheus
<1>2. phase \notin Compiling /\ phase \in Collected /\ phase \in Served
  BY <1>1 DEF Compiling, Collected, Served
<1>3. new = WithMetrics
  <2>1. config.observability.prometheus = Says("MRP_PROMETHEUS_ENABLED", TrueSpellings)
    BY <1>2 DEF SettingsInv, Settings, ObservabilityConfigFromEnv
  <2> QED
    BY <1>1, <2>1, Zenon DEF WithMetrics
<1>4. /\ Apart(Len(routes), router) /\ docs = AllRoutes /\ "bearerAuth" \in schemes
      /\ AllRoutes \subseteq router /\ router \subseteq AllRoutes \union WithSwagger
  BY <1>1, <1>2 DEF RouterInv
<1>5. CASE phase' = "panicked" /\ \E r \in new, other \in router : Collide(r, other)
  <2>1. PICK r \in WithMetrics, other \in AllRoutes \union WithSwagger : Collide(r, other)
    BY <1>3, <1>4, <1>5
  <2>2. PICK b : b = <<-2, r>>
    OBVIOUS
  <2>3. Asks(b, r) /\ b[1] = -2
    BY <1>2, <2>1, <2>2, AskedBefore
  <2>4. \E a : Asks(a, other) /\ a[1] # -2
    <3>1. CASE other \in Mounted(Len(routes))
      <4>1. PICK a : Asks(a, other) /\ a[1] \in Nat \ {0}
        BY <1>2, <3>1, AskedBefore
      <4>2. a[1] # -2
        BY <4>1
      <4> QED
        BY <4>1, <4>2
    <3>2. CASE other \in source.extra
      <4>1. PICK a : a = <<0, other>>
        OBVIOUS
      <4>2. Asks(a, other) /\ a[1] = 0
        BY <1>2, <3>2, <4>1, AskedBefore
      <4> QED
        BY <4>2
    <3>3. CASE other \in WithSwagger
      <4>1. PICK a : a = <<-1, other>>
        OBVIOUS
      <4>2. Asks(a, other) /\ a[1] = -1
        BY <1>2, <3>3, <4>1, AskedBefore
      <4> QED
        BY <4>2
    <3> QED
      BY <2>1, <3>1, <3>2, <3>3 DEF AllRoutes
  <2>5. \E s, q \in Asked : s # q /\ Collide(s[2], q[2])
    BY <2>1, <2>3, <2>4, TwoAsk
  <2> QED
    BY <1>1, <1>2, <1>5, <2>5, PanicFound
<1>6. CASE /\ phase' = "bound" /\ router' = router \union new
           /\ \A r \in new, other \in router : ~Collide(r, other)
  <2>1. Apart(Len(routes), router \union new)
    BY <1>4, <1>6, ApartMore DEF AllRoutes
  <2>2. Apart(Len(routes), router)' /\ AllRoutes' = AllRoutes /\ WithSwagger' = WithSwagger
        /\ WithMetrics' = WithMetrics
    BY <1>1, <1>6, <2>1 DEF Apart, AllRoutes, Mounted, WithSwagger, WithMetrics, Says, Get, env, linked
  <2>3. router' = router \union WithMetrics /\ docs' = AllRoutes /\ "bearerAuth" \in schemes'
    BY <1>1, <1>3, <1>4, <1>6
  <2>4. /\ phase' \notin Compiling \union Early /\ phase' # "panicked" /\ phase' # "collecting"
        /\ phase' # "documented" /\ phase' \in {"bound", "serving"}
    BY <1>6 DEF Compiling, Early
  <2> QED
    BY <1>4, <2>2, <2>3, <2>4 DEF RouterInv
<1> QED
  BY <1>1, <1>5, <1>6, MountCases

(* What a list of the environment comes down to. *)
LEMMA ListRead ==
    ASSUME source \in Programs,
           NEW key \in {"APP_CORS_ORIGINS", "APP_CORS_ORIGIN_SUFFIXES", "APP_CORS_DEV_ORIGINS"}
    PROVE  ToSet(ParseCsvEnv(key)) = Given(key)
<1>1. PICK entries : entries = IF Get(key) = <<>> THEN <<[text |-> "", padded |-> FALSE]>> ELSE Get(key)[1]
  OBVIOUS
<1>2. Get(key) # <<>> => IsSeq(Get(key)[1])
  <2>1. /\ key \in DOMAIN env.process => IsSeq(env.process[key])
        /\ key \in DOMAIN env.file => IsSeq(env.file[key])
    BY ProgramFacts DEF env
  <2>2. \A x : <<x>>[1] = x
    OBVIOUS
  <2> QED
    BY <2>1, <2>2, Zenon DEF Get
<1>3. IsSeq(entries)
  <2>1. \A x : IsSeq(<<x>>)
    BY EmptyAndSingle
  <2> QED
    BY <1>1, <1>2, <2>1, Zenon
<1>4. PICK texts, I : /\ texts = [k \in DOMAIN entries |-> entries[k].text]
                      /\ I = {k \in DOMAIN entries : entries[k].text # ""}
  OBVIOUS
<1>5. IsSeq(texts) /\ DOMAIN texts = DOMAIN entries
  <2>1. Over(texts, DOMAIN entries)
    BY <1>4 DEF Over
  <2> QED
    BY <1>3, <2>1, OverPlaces
<1>6. ToSet(Kept(texts, I)) = {texts[k] : k \in I \intersect DOMAIN texts}
  BY <1>5, KeptElements
<1>7. {texts[k] : k \in I \intersect DOMAIN texts} = {entries[k].text : k \in DOMAIN entries} \ {""}
  BY <1>4, <1>5
<1>8. {entries[k].text : k \in DOMAIN entries} = {e.text : e \in ToSet(entries)}
  BY DEF ToSet
<1>9. {e.text : e \in ToSet(entries)} \ {""} = Given(key)
  <2>1. CASE Get(key) = <<>>
    <3>1. ToSet(entries) = {[text |-> "", padded |-> FALSE]}
      <4>1. \A x : ToSet(<<x>>) = {x}
        BY EmptyAndSingle
      <4> QED
        BY <1>1, <2>1, <4>1, Zenon
    <3>2. {e.text : e \in ToSet(entries)} = {""}
      <4>1. PICK x : x = [text |-> "", padded |-> FALSE]
        OBVIOUS
      <4>2. x.text = ""
        BY <4>1
      <4>3. PICK S : S = ToSet(entries)
        OBVIOUS
      <4>4. x \in S /\ \A e \in S : e = x
        BY <3>1, <4>1, <4>3
      <4>5. {e.text : e \in S} = {x.text}
        BY <4>4, Zenon
      <4> QED
        BY <4>2, <4>3, <4>5, Zenon
    <3> QED
      BY <2>1, <3>2 DEF Given
  <2>2. CASE Get(key) # <<>>
    BY <1>1, <2>2, Zenon DEF Given
  <2> QED
    BY <2>1, <2>2
<1>10. ParseCsvEnv(key) = Kept(texts, I)
  BY <1>1, <1>4, Zenon DEF ParseCsvEnv
<1> QED
  BY <1>6, <1>7, <1>8, <1>9, <1>10, Zenon

(* The wildcard that AllowOrigin::list refuses was in the variable. *)
LEMMA WildcardFound ==
    ASSUME ItemsInv, LinkedInv, SettingsInv, phase = "bound", CorsLayerPanics(config),
           source' = source, phase' = "panicked"
    PROVE  RouterInv'
<1>1. "*" \in config.cors_dev_origins /\ config.is_dev
  BY DEF CorsLayerPanics, DevOrigins
<1>2. /\ config.cors_dev_origins = ToSet(ParseCsvEnv("APP_CORS_DEV_ORIGINS"))
      /\ config.is_dev = IsDevEnvironment
  <2>1. config = Settings
    BY DEF SettingsInv, Served
  <2> QED
    BY <2>1 DEF Settings
<1>3. ToSet(ParseCsvEnv("APP_CORS_DEV_ORIGINS")) = Given("APP_CORS_DEV_ORIGINS")
  BY ListRead DEF ItemsInv
<1>4. phase \notin Compiling
  BY DEF Compiling
<1> QED
  BY <1>1, <1>2, <1>3, <1>4, PanicFound DEF WildcardListed

(* Every step keeps what is known of the router. *)
LEMMA RouterStep ==
    ASSUME ItemsInv, LinkedInv, SettingsInv, RouterInv, [Next]_vars
    PROVE  RouterInv'
<1>1. CASE CompileTrait \/ CompileService \/ CompileHandler \/ Link
  <2>1. /\ phase = "compiling" /\ phase' \in {"rejected", "compiling", "linked"}
        /\ router' = router /\ docs' = docs
    BY <1>1 DEF CompileTrait, CompileService, CompileHandler, Turn, Compile, Link, assembly
  <2>2. router' = {} /\ docs' = {}
    BY <2>1 DEF RouterInv, Compiling
  <2>3. phase' # "collecting" /\ phase' # "panicked" /\ phase' \notin Collected
    BY <2>1 DEF Collected
  <2> QED
    BY <2>2, <2>3 DEF RouterInv
<1>2. CASE \/ \E i \in source.instances : RegisterInstance(i)
           \/ RegisterAll \/ RegisterNext \/ RegisterAllReturns \/ Validate \/ Configure
  <2>1. /\ phase \in Early /\ phase' \in Early \union {"failed"}
        /\ router' = router /\ docs' = docs
    BY <1>2 DEF RegisterInstance, RegisterAll, RegisterNext, RegisterAllReturns, Validate, Configure,
                Early, assembly
  <2>2. router' = {} /\ docs' = {}
    BY <2>1 DEF RouterInv
  <2>3. phase' # "collecting" /\ phase' # "panicked" /\ phase' \notin Collected
    BY <2>1 DEF Collected, Early
  <2> QED
    BY <2>2, <2>3 DEF RouterInv
<1>3. CASE StartRun
  <2>1. /\ phase = "configured" /\ router' = router /\ docs' = docs /\ routes' = routes
        /\ (phase' = "collecting" /\ todo' = routes) \/ phase' = "failed"
    BY <1>3 DEF StartRun, linked
  <2>2. router = {} /\ docs = {}
    BY <2>1 DEF RouterInv, Early
  <2>3. phase' \notin Compiling \union Early /\ phase' # "panicked" /\ phase' \notin Collected
    BY <2>1 DEF Collected, Compiling, Early
  <2>4. phase' = "collecting" =>
           (\E m \in Nat : Remains(todo, routes, m) /\ Apart(m, router) /\ router = Mounted(m) /\ docs = Mounted(m))'
    <3> SUFFICES ASSUME phase' = "collecting"
                 PROVE  \E m \in Nat : /\ Remains(todo', routes', m) /\ Apart(m, router)'
                                       /\ router' = Mounted(m)' /\ docs' = Mounted(m)'
      OBVIOUS
    <3>1. Remains(routes, routes, 0)
      <4>1. phase \notin Compiling
        BY <2>1 DEF Compiling
      <4>2. IsSeq(routes)
        BY <4>1 DEF LinkedInv
      <4> QED
        BY <4>2, RemainsAll
    <3>2. Remains(todo', routes', 0)
      BY <2>1, <3>1
    <3>3. 1 .. 0 = {}
      OBVIOUS
    <3>4. Mounted(0)' = {} /\ Apart(0, router)'
      BY <3>3 DEF Mounted, Apart
    <3> QED
      BY <2>1, <2>2, <3>2, <3>4
  <2> QED
    BY <2>3, <2>4 DEF RouterInv
<1>4. CASE CollectRoute
  BY <1>4, CollectStep
<1>5. CASE MergeExtraRoutes
  BY <1>5, ExtraStep
<1>6. CASE MergeSwagger
  BY <1>6, SwaggerStep
<1>7. CASE MergePrometheus
  BY <1>7, MetricsStep
<1>8. CASE Bind
  <2>1. /\ phase = "bound"
        /\ (phase' = "panicked" /\ CorsLayerPanics(config)) \/ phase' \in {"serving", "failed"}
        /\ UNCHANGED <<source, routes, router, docs, schemes, todo>>
    BY <1>8 DEF Bind, linked, assembly
  <2>2. CASE phase' = "panicked" /\ CorsLayerPanics(config)
    BY <2>1, <2>2, WildcardFound
  <2>3. CASE phase' \in {"serving", "failed"}
    BY <2>1, <2>3, RouterKept
  <2> QED
    BY <2>1, <2>2, <2>3
<1>9. CASE UNCHANGED vars
  <2>1. UNCHANGED <<phase, source, routes, router, docs, schemes, todo>>
    BY <1>9 DEF vars, linked, assembly
  <2> QED
    BY <2>1, RouterKept
<1> QED
  BY <1>1, <1>2, <1>3, <1>4, <1>5, <1>6, <1>7, <1>8, <1>9 DEF Next

(* The whole invariant. *)
StartupInv == ItemsInv /\ LinkedInv /\ RegistryInv /\ SettingsInv /\ RouterInv

(* Every state of every program satisfies the inductive invariant. *)
THEOREM StartupInvariant == Spec => []StartupInv
<1>1. Init => StartupInv
  BY ItemsInit, LinkedInit, RegistryInit, SettingsInit, RouterInit DEF StartupInv
<1>2. StartupInv /\ [Next]_vars => StartupInv'
  BY ItemsStep, LinkedStep, RegistryStep, SettingsStep, RouterStep DEF StartupInv
<1> QED
  BY <1>1, <1>2, PTL DEF Spec

-----------------------------------------------------------------------------
(* The properties.                                                          *)

(* r is the registration of the service s *)
IsOf(r, s) ==
    /\ r.component = s.spelled.name /\ r.id = s.claims
    /\ ToSet(r.declared) = s.asks /\ ToSet(r.gets) = s.asks

(* Every registration is one of a service as it was written, every service  *)
(* has one, and services are told apart by their names.                     *)
LEMMA ServicesLinked ==
    ASSUME ItemsInv, LinkedInv, phase \notin Compiling
    PROVE  /\ Len(registrations) \in Nat
           /\ \A n \in 1 .. Len(registrations) : \E s \in Written("service") : IsOf(registrations[n], s)
           /\ \A s \in Written("service") : \E n \in 1 .. Len(registrations) : IsOf(registrations[n], s)
           /\ \A s, t \in Written("service") :
                 /\ s.spelled.name # "main"
                 /\ s.spelled.name = t.spelled.name => s = t
<1>1. PICK p : /\ IsOrder(p, Len(registrations), Items("service"))
               /\ \A n \in 1 .. Len(registrations) : registrations[n] = Meant(source.items[p[n]])
  BY DEF LinkedInv
<1>2. /\ \A n \in 1 .. Len(registrations) : p[n] \in Items("service")
      /\ \A k \in Items("service") : \E n \in 1 .. Len(registrations) : p[n] = k
  BY <1>1 DEF IsOrder
<1>3. \A k \in Items("service") : k \in DOMAIN source.items /\ source.items[k].is = "service"
  BY DEF Items
<1>4. ASSUME NEW k \in Items("service")
      PROVE  IsOf(Meant(source.items[k]), source.items[k])
  <2>1. PICK s : s = source.items[k]
    OBVIOUS
  <2>2. ItemWritten(s) /\ s.is = "service" /\ ~IsError(ExpansionOf(s))
    BY <1>3, <2>1, ProgramFacts DEF ItemsInv, LinkedInv
  <2>3. PICK e : e = ExpansionOf(s)
    OBVIOUS
  <2>4. ServiceWritten(s) /\ e = Meant(s)
    BY <2>2, <2>3, ItemExpanded
  <2>5. s.sound
    BY <2>2, <2>3, <2>4, ServiceExpanded, Zenon
  <2> QED
    BY <2>1, <2>4, <2>5, ServiceExpanded, Zenon DEF IsOf
<1>5. \A j, k \in Items("service") :
         /\ source.items[j].spelled.name # "main"
         /\ source.items[j].spelled.name = source.items[k].spelled.name => j = k
  BY <1>3, ProgramFacts DEF ItemsInv
<1>6. Len(registrations) \in Nat
  BY IsSeqDomain DEF LinkedInv
<1>7. \A n \in 1 .. Len(registrations) : \E s \in Written("service") : IsOf(registrations[n], s)
  <2> SUFFICES ASSUME NEW n \in 1 .. Len(registrations)
               PROVE  \E s \in Written("service") : IsOf(registrations[n], s)
    OBVIOUS
  <2>1. IsOf(registrations[n], source.items[p[n]])
    BY <1>1, <1>2, <1>4, Zenon
  <2>2. source.items[p[n]] \in Written("service")
    BY <1>2 DEF Written
  <2> QED
    BY <2>1, <2>2
<1>8. \A s \in Written("service") : \E n \in 1 .. Len(registrations) : IsOf(registrations[n], s)
  <2> SUFFICES ASSUME NEW k \in Items("service")
               PROVE  \E n \in 1 .. Len(registrations) : IsOf(registrations[n], source.items[k])
    BY DEF Written
  <2>1. PICK n \in 1 .. Len(registrations) : p[n] = k
    BY <1>2
  <2>2. registrations[n] = Meant(source.items[k])
    BY <1>1, <2>1, Zenon
  <2> QED
    BY <1>4, <2>2, Zenon
<1> QED
  BY <1>5, <1>6, <1>7, <1>8 DEF Written

(* What a registered id holds. *)
LEMMA WhoHolds ==
    ASSUME ItemsInv, LinkedInv, RegistryInv, phase \in Known, NEW s \in Written("service")
    PROVE  /\ s.claims \in Registered
           /\ s.claims \in late => registry[s.claims] = Instance
           /\ s.claims \notin late =>
                 \E r \in Written("service") :
                    /\ r.claims = s.claims /\ registry[s.claims].holder = r.spelled.name
                    /\ ToSet(registry[s.claims].declared) = r.asks /\ ToSet(registry[s.claims].gets) = r.asks
<1>0. phase \notin Compiling
  BY PhasesApart
<1>1. UpTo(registry, late, Len(registrations)) /\ \A i \in late : registry[i] = Instance
  BY DEF RegistryInv
<1>2. PICK m \in 1 .. Len(registrations) : IsOf(registrations[m], s)
  BY <1>0, ServicesLinked
<1>3. registrations[m].id = s.claims
  BY <1>2 DEF IsOf
<1>4. s.claims \in Registered
  BY <1>1, <1>3 DEF UpTo, Registered
<1>5. ASSUME s.claims \notin late
      PROVE  \E r \in Written("service") :
                /\ r.claims = s.claims /\ registry[s.claims].holder = r.spelled.name
                /\ ToSet(registry[s.claims].declared) = r.asks /\ ToSet(registry[s.claims].gets) = r.asks
  <2>1. ~FromMain(registry, s.claims, Len(registrations))
    BY <1>3 DEF FromMain
  <2>2. FromRegistration(registry, s.claims, Len(registrations))
    BY <1>1, <1>4, <1>5, <2>1 DEF UpTo, Registered
  <2>3. PICK n \in 1 .. Len(registrations) :
               registrations[n].id = s.claims /\ registry[s.claims] = Recipe(registrations[n])
    BY <2>2 DEF FromRegistration
  <2>4. PICK r \in Written("service") : IsOf(registrations[n], r)
    BY <1>0, ServicesLinked
  <2>5. /\ Recipe(registrations[n]).holder = registrations[n].component
        /\ Recipe(registrations[n]).declared = registrations[n].declared
        /\ Recipe(registrations[n]).gets = registrations[n].gets
    BY DEF Recipe
  <2> QED
    BY <2>3, <2>4, <2>5, Zenon DEF IsOf
<1> QED
  BY <1>1, <1>4, <1>5

(* ClaimantHolds follows: what an id holds was registered by main           *)
(* afterwards or by a service that claims it, because main's earlier        *)
(* instance is replaced.                                                    *)
LEMMA ClaimantHoldsHere ==
    ASSUME ItemsInv, LinkedInv, RegistryInv
    PROVE  ClaimantHolds
<1> SUFFICES ASSUME After("registered"), NEW s \in Written("service")
             PROVE  /\ s.claims \in Registered
                    /\ registry[s.claims].holder \in
                          IF s.claims \in late THEN {"main"}
                          ELSE {r.spelled.name : r \in {t \in Written("service") : t.claims = s.claims}}
  BY DEF ClaimantHolds
<1>1. phase \in Known
  BY AfterMeans
<1>2. Instance.holder = "main"
  BY DEF Instance
<1>3. /\ s.claims \in Registered
      /\ s.claims \in late => registry[s.claims] = Instance
      /\ s.claims \notin late =>
            \E r \in Written("service") : r.claims = s.claims /\ registry[s.claims].holder = r.spelled.name
  BY <1>1, WhoHolds, Zenon
<1> QED
  BY <1>2, <1>3

(* A cycle stays one when there are more edges. *)
LEMMA MoreEdges ==
    ASSUME NEW V, NEW E, NEW F, E \subseteq F, HasCycleIn(V, E)
    PROVE  HasCycleIn(V, F)
BY DEF HasCycleIn, SelfSupporting

(* ValidatedMeansComplete follows: a service that holds its id declares and *)
(* gets what its struct asks for, so validate() has seen its edges.         *)
LEMMA ValidatedMeansCompleteHere ==
    ASSUME ItemsInv, LinkedInv, RegistryInv
    PROVE  ValidatedMeansComplete
<1> SUFFICES ASSUME After("validated")
             PROVE  LET holds == {s \in Written("service") : registry[s.claims].holder = s.spelled.name}
                        needs == UNION {{s.claims} \X s.asks : s \in holds}
                    IN  /\ \A s \in holds : s.asks \subseteq Registered
                        /\ ~HasCycleIn(Registered, needs)
  BY DEF ValidatedMeansComplete
<1> DEFINE holds == {s \in Written("service") : registry[s.claims].holder = s.spelled.name}
           needs == UNION {{s.claims} \X s.asks : s \in holds}
<1>1. phase \in Known /\ phase \in Checked /\ phase \notin Compiling
  BY AfterMeans, PhasesApart
<1>2. Resolvable
  BY <1>1 DEF RegistryInv
<1>3. ASSUME NEW s \in holds
      PROVE  /\ s.claims \in Registered
             /\ ToSet(registry[s.claims].declared) = s.asks /\ ToSet(registry[s.claims].gets) = s.asks
  <2>1. s \in Written("service") /\ registry[s.claims].holder = s.spelled.name
    OBVIOUS
  <2>2. s.spelled.name # "main" /\ Instance.holder = "main"
    BY <1>1, <2>1, ServicesLinked DEF Instance
  <2>3. s.claims \notin late
    BY <1>1, <2>1, <2>2, WhoHolds
  <2>4. PICK r \in Written("service") :
            /\ r.claims = s.claims /\ registry[s.claims].holder = r.spelled.name
            /\ ToSet(registry[s.claims].declared) = r.asks /\ ToSet(registry[s.claims].gets) = r.asks
    BY <1>1, <2>1, <2>3, WhoHolds
  <2>5. r = s
    BY <1>1, <2>1, <2>4, ServicesLinked
  <2> QED
    BY <1>1, <2>1, <2>4, <2>5, WhoHolds, Zenon
<1>4. \A s \in holds : s.asks \subseteq Registered
  BY <1>2, <1>3 DEF Resolvable
<1>5. needs \subseteq DeclaredEdges
  <2> SUFFICES ASSUME NEW s \in holds, NEW a \in s.asks
               PROVE  <<s.claims, a>> \in DeclaredEdges
    OBVIOUS
  <2>1. s.claims \in Registered /\ a \in Registered /\ a \in ToSet(registry[s.claims].declared)
    BY <1>3, <1>4
  <2> QED
    BY <2>1 DEF DeclaredEdges
<1>6. ~HasCycleIn(Registered, needs)
  BY <1>2, <1>5, MoreEdges DEF Resolvable
<1> QED
  BY <1>4, <1>6

(* Every route is one of a handler as it was written, and every handler has *)
(* one of its own.                                                          *)
LEMMA HandlersLinked ==
    ASSUME ItemsInv, LinkedInv, phase \notin Compiling
    PROVE  /\ Len(routes) \in Nat /\ DOMAIN routes = 1 .. Len(routes)
           /\ \A n \in 1 .. Len(routes) : \E h \in Written("handler") : routes[n] = WrittenRoute(h)
           /\ \A j \in Items("handler") : \E n \in 1 .. Len(routes) : routes[n] = WrittenRoute(source.items[j])
           /\ \A j, k \in Items("handler") : j # k =>
                 \E m, n \in 1 .. Len(routes) : /\ m # n /\ routes[m] = WrittenRoute(source.items[j])
                                                /\ routes[n] = WrittenRoute(source.items[k])
<1>1. PICK p : /\ IsOrder(p, Len(routes), Items("handler"))
               /\ \A n \in 1 .. Len(routes) : routes[n] = WrittenRoute(source.items[p[n]])
  BY DEF LinkedInv
<1>2. /\ \A n \in 1 .. Len(routes) : p[n] \in Items("handler")
      /\ \A k \in Items("handler") : \E n \in 1 .. Len(routes) : p[n] = k
  BY <1>1 DEF IsOrder
<1>3. Len(routes) \in Nat /\ DOMAIN routes = 1 .. Len(routes)
  BY IsSeqDomain DEF LinkedInv
<1>4. \A n \in 1 .. Len(routes) : \E h \in Written("handler") : routes[n] = WrittenRoute(h)
  BY <1>1, <1>2, Zenon DEF Written
<1>5. \A j \in Items("handler") : \E n \in 1 .. Len(routes) : p[n] = j /\ routes[n] = WrittenRoute(source.items[j])
  BY <1>1, <1>2, Zenon
<1> QED
  BY <1>3, <1>4, <1>5

(* TypeOK follows. *)
LEMMA TypeOKHere ==
    ASSUME ItemsInv, LinkedInv, RegistryInv, RouterInv
    PROVE  TypeOK
<1>1. ASSUME After("linked")
      PROVE  /\ Len(routes) = Cardinality(Items("handler"))
             /\ {r.handler : r \in ToSet(routes)} = {h.spelled.name : h \in Written("handler")}
             /\ Len(registrations) = Cardinality(Items("service"))
  <2>1. phase \notin Compiling
    BY <1>1, AfterMeans
  <2>2. \A h : WrittenRoute(h).handler = h.spelled.name
    BY DEF WrittenRoute
  <2>3. {r.handler : r \in ToSet(routes)} = {h.spelled.name : h \in Written("handler")}
    <3>1. ASSUME NEW n \in 1 .. Len(routes)
          PROVE  \E h \in Written("handler") : routes[n].handler = h.spelled.name
      BY <2>1, <2>2, HandlersLinked
    <3>2. ASSUME NEW h \in Written("handler")
          PROVE  \E n \in 1 .. Len(routes) : routes[n].handler = h.spelled.name
      <4>1. PICK j \in Items("handler") : h = source.items[j]
        BY DEF Written
      <4> QED
        BY <2>1, <2>2, <4>1, HandlersLinked
    <3>3. ToSet(routes) = {routes[n] : n \in 1 .. Len(routes)}
      BY <2>1, HandlersLinked DEF ToSet
    <3> QED
      BY <3>1, <3>2, <3>3
  <2> QED
    BY <2>1, <2>3 DEF LinkedInv
<1>2. After("documented") => docs \subseteq router /\ "bearerAuth" \in schemes
  BY AfterMeans DEF RouterInv
<1>3. phase \in Phase /\ Len(expansions) <= Len(source.items)
  BY DEF ItemsInv
<1>4. expansions # <<>> => phase \in {"compiling", "rejected"}
  BY DEF ItemsInv, Compiling
<1>5. late \subseteq Registered \intersect source.instances
  BY DEF RegistryInv, Registered
<1> QED
  BY <1>1, <1>2, <1>3, <1>4, <1>5 DEF TypeOK

(* EveryHandlerServed follows: routes that are kept apart are found where   *)
(* they were written.                                                       *)
LEMMA EveryHandlerServedHere ==
    ASSUME ItemsInv, LinkedInv, RouterInv
    PROVE  EveryHandlerServed
<1>1. ASSUME phase = "serving"
      PROVE  /\ phase \notin Compiling
             /\ Apart(Len(routes), router) /\ docs = AllRoutes /\ AllRoutes \subseteq router
  BY <1>1 DEF RouterInv, Compiling, Collected
<1>2. \A h : /\ WrittenRoute(h).handler = h.spelled.name /\ WrittenRoute(h).operation = h.spelled.name
             /\ WrittenRoute(h).path = h.path /\ WrittenRoute(h).method = h.method
             /\ WrittenRoute(h).secured = h.secured
  BY DEF WrittenRoute
<1>3. ASSUME phase = "serving", NEW h \in Written("handler")
      PROVE  /\ {r.handler : r \in {q \in router : q.method = h.method /\ q.path = h.path}} = {h.spelled.name}
             /\ \E d \in docs : /\ d.path = h.path /\ d.method = h.method
                                /\ d.operation = h.spelled.name /\ d.secured = h.secured
  <2>1. PICK n \in 1 .. Len(routes) : routes[n] = WrittenRoute(h)
    <3>1. PICK j \in Items("handler") : h = source.items[j]
      BY DEF Written
    <3> QED
      BY <1>1, <1>3, <3>1, HandlersLinked
  <2>2. PICK w : w = WrittenRoute(h)
    OBVIOUS
  <2>3. w \in router /\ w \in docs
    BY <1>1, <1>3, <2>1, <2>2 DEF AllRoutes, Mounted
  <2>4. /\ w.handler = h.spelled.name /\ w.operation = h.spelled.name
        /\ w.path = h.path /\ w.method = h.method /\ w.secured = h.secured
    BY <1>2, <2>2
  <2>5. \A q \in router : q.method = h.method /\ q.path = h.path => q = w
    <3>1. \A q \in router : q # w => ~Collide(q, w)
      BY <1>1, <1>3, <2>1, <2>2 DEF Apart
    <3>2. \A q : q.method = h.method /\ q.path = h.path => Collide(q, w)
      BY <2>4 DEF Collide
    <3> QED
      BY <3>1, <3>2
  <2> QED
    BY <2>3, <2>4, <2>5
<1>4. ASSUME phase = "serving", NEW j \in Items("handler"), NEW k \in Items("handler"), j # k
      PROVE  ~Collide(source.items[j], source.items[k])
  <2>1. PICK m, n \in 1 .. Len(routes) : /\ m # n /\ routes[m] = WrittenRoute(source.items[j])
                                         /\ routes[n] = WrittenRoute(source.items[k])
    BY <1>1, <1>4, HandlersLinked
  <2>2. ~Collide(routes[m], routes[n])
    BY <1>1, <1>4, <2>1 DEF Apart
  <2>3. /\ routes[m].path = source.items[j].path /\ routes[m].method = source.items[j].method
        /\ routes[n].path = source.items[k].path /\ routes[n].method = source.items[k].method
    BY <1>2, <2>1
  <2> QED
    BY <2>2, <2>3, CollideSpots
<1>5. phase = "panicked" => \/ \E r, q \in Asked : r # q /\ Collide(r[2], q[2])
                            \/ WildcardListed
  BY DEF RouterInv
<1> QED
  BY <1>3, <1>4, <1>5 DEF EveryHandlerServed

-----------------------------------------------------------------------------
(* OnlyListedOrigins follows. *)
LEMMA OnlyListedOriginsHere ==
    ASSUME ItemsInv, SettingsInv
    PROVE  OnlyListedOrigins
<1> SUFFICES ASSUME phase = "serving"
             PROVE  OnlyListedOrigins
  BY DEF OnlyListedOrigins
<1>1. PICK development, origins, suffixes :
          /\ development = Given("APP_CORS_DEV_ORIGINS")
          /\ origins = Given("APP_CORS_ORIGINS") /\ suffixes = Given("APP_CORS_ORIGIN_SUFFIXES")
  OBVIOUS
<1>2. /\ config.cors_dev_origins = development /\ config.cors_origins = origins
      /\ config.cors_origin_suffixes = suffixes /\ config.is_dev = IsDevEnvironment
  <2>1. config = Settings
    BY DEF SettingsInv, Served
  <2>2. /\ ToSet(ParseCsvEnv("APP_CORS_DEV_ORIGINS")) = development
        /\ ToSet(ParseCsvEnv("APP_CORS_ORIGINS")) = origins
        /\ ToSet(ParseCsvEnv("APP_CORS_ORIGIN_SUFFIXES")) = suffixes
    BY <1>1, ListRead DEF ItemsInv
  <2> QED
    BY <2>1, <2>2 DEF Settings
<1>3. PICK cors : cors = CorsLayer(config)
  OBVIOUS
<1>4. PICK production : production = {o \in Origin : o \in origins \/ \E s \in suffixes : <<o, s>> \in EndsWith}
  OBVIOUS
<1>5. CASE IsDevEnvironment /\ development # {}
  <2>1. cors = [allows |-> development \intersect Parses, credentials |-> TRUE]
    BY <1>2, <1>3, <1>5, Zenon DEF CorsLayer, DevOrigins
  <2>2. cors.allows \subseteq development
    BY <2>1
  <2> QED
    BY <1>1, <1>3, <1>5, <2>2 DEF OnlyListedOrigins
<1>6. CASE ~(IsDevEnvironment /\ development # {}) /\ origins \union suffixes # {}
  <2>1. cors = [allows |-> {o \in Parses : o \in origins \/ \E s \in suffixes : <<o, s>> \in EndsWith},
                credentials |-> TRUE]
    <3>1. ~(origins = {} /\ suffixes = {})
      BY <1>6
    <3> QED
      BY <1>2, <1>3, <1>6, <3>1, Zenon DEF CorsLayer, DevOrigins
  <2>2. cors.allows \subseteq production
    BY <1>4, <2>1, OriginAssumption
  <2> QED
    BY <1>1, <1>3, <1>4, <1>6, <2>2 DEF OnlyListedOrigins
<1>7. CASE ~(IsDevEnvironment /\ development # {}) /\ ~(origins \union suffixes # {})
  <2>1. cors = [allows |-> Parses, credentials |-> FALSE]
    <3>1. origins = {} /\ suffixes = {}
      BY <1>7
    <3> QED
      BY <1>2, <1>3, <1>7, <3>1, Zenon DEF CorsLayer, DevOrigins
  <2>2. cors.credentials = FALSE
    BY <2>1
  <2> QED
    BY <1>1, <1>3, <1>7, <2>2 DEF OnlyListedOrigins
<1> QED
  BY <1>5, <1>6, <1>7

-----------------------------------------------------------------------------
(* The meaning of what is compiled.                                         *)

(* What a handler's expansion says, or that it is refused for a reason. *)
LEMMA HandlerMeant ==
    ASSUME NEW h, HandlerWritten(h), NEW e, e = Expanded(h)
    PROVE  IF IsError(e) THEN Objectionable(h)
           ELSE /\ ~Objectionable(h) /\ Len(e.args) = Len(Meaning(h))
                /\ {Plain(a) : a \in ToSet(e.args)} = {Plain(a) : a \in ToSet(Meaning(h))}
<1>1. IsError(e) <=> Objectionable(h)
  BY RefusedIsObjectionable, Zenon
<1>2. ASSUME ~IsError(e)
      PROVE  /\ Len(e.args) = Len(Meaning(h))
             /\ {Plain(a) : a \in ToSet(e.args)} = {Plain(a) : a \in ToSet(Meaning(h))}
  <2>1. ReadAlike(e.args, Meaning(h))
    BY <1>2, MeaningRead, Zenon
  <2> QED
    BY <2>1, Zenon DEF ReadAlike, SaidBy
<1> QED
  BY <1>1, <1>2, Zenon

(* ExpansionKeepsMeaning follows: every expansion is that of an item as     *)
(* written.                                                                 *)
LEMMA ExpansionKeepsMeaningHere ==
    ASSUME ItemsInv
    PROVE  ExpansionKeepsMeaning
<1> SUFFICES ASSUME NEW k \in DOMAIN expansions, NEW i, i = source.items[k],
                    NEW e, e = expansions[k]
             PROVE  IF i.is # "handler" THEN IsError(e) <=> ~i.sound
                    ELSE IF IsError(e) THEN Objectionable(i)
                    ELSE /\ ~Objectionable(i) /\ Len(e.args) = Len(Meaning(i))
                         /\ {Plain(a) : a \in ToSet(e.args)} = {Plain(a) : a \in ToSet(Meaning(i))}
  BY Zenon DEF ExpansionKeepsMeaning
<1>1. k \in 1 .. Len(expansions) /\ e = ExpansionOf(i)
  BY IsSeqDomain DEF ItemsInv
<1>2. ItemWritten(i)
  <2>1. /\ \A j \in DOMAIN source.items : ItemWritten(source.items[j])
        /\ DOMAIN source.items = 1 .. Len(source.items) /\ Len(source.items) \in Nat
    BY ProgramFacts DEF ItemsInv
  <2>2. Len(expansions) \in Nat /\ Len(expansions) <= Len(source.items)
    BY IsSeqDomain DEF ItemsInv
  <2>3. k \in DOMAIN source.items
    BY <1>1, <2>1, <2>2
  <2> QED
    BY <2>1, <2>3, Zenon
<1>3. CASE i.is # "handler"
  BY <1>1, <1>2, <1>3, ItemExpanded, Zenon
<1>4. CASE i.is = "handler"
  <2>1. HandlerWritten(i) /\ e = Expanded(i)
    BY <1>1, <1>2, <1>4, ItemExpanded, Zenon
  <2> QED
    BY <1>4, <2>1, HandlerMeant, Zenon
<1> QED
  BY <1>3, <1>4, Zenon

(* The phases of the program, what the linker keeps of the items, and that the  *)
(* document describes only routes that are served.                          *)
THEOREM StartupTypeOK == Spec => []TypeOK
<1>1. StartupInv => TypeOK
  BY TypeOKHere DEF StartupInv
<1> QED
  BY <1>1, StartupInvariant, PTL

(* Whatever the order of the inventory, a service is found under its id unless   *)
(* a rival claims it or main registers an instance afterwards.              *)
THEOREM ClaimantAlwaysHolds == Spec => []ClaimantHolds
<1>1. StartupInv => ClaimantHolds
  BY ClaimantHoldsHere DEF StartupInv
<1> QED
  BY <1>1, StartupInvariant, PTL

(* After validate() every field of every service that holds its id, as the       *)
(* struct was written, is registered, and no service needs itself.           *)
THEOREM ValidatedIsComplete == Spec => []ValidatedMeansComplete
<1>1. StartupInv => ValidatedMeansComplete
  BY ValidatedMeansCompleteHere DEF StartupInv
<1> QED
  BY <1>1, StartupInvariant, PTL

(* A program that serves, serves and documents every handler where it was        *)
(* written; one that panics was asked for two routes in one place.           *)
THEOREM HandlersAreServed == Spec => []EveryHandlerServed
<1>1. StartupInv => EveryHandlerServed
  BY EveryHandlerServedHere DEF StartupInv
<1> QED
  BY <1>1, StartupInvariant, PTL

(* The CORS layer admits only what the variables of the environment list.        *)
THEOREM OriginsAreListed == Spec => []OnlyListedOrigins
<1>1. StartupInv => OnlyListedOrigins
  BY OnlyListedOriginsHere DEF StartupInv
<1> QED
  BY <1>1, StartupInvariant, PTL


(* The macros refuse exactly the items that cannot be right, and document what   *)
(* they accept as it was meant, whatever tokens its types are made of.        *)
THEOREM MeaningIsKept == Spec => []ExpansionKeepsMeaning
<1>1. StartupInv => ExpansionKeepsMeaning
  BY ExpansionKeepsMeaningHere DEF StartupInv
<1> QED
  BY <1>1, StartupInvariant, PTL
=============================================================================
