---------------------------- MODULE ParserProofs ----------------------------
(***************************************************************************)
(* The parser on any set of lines, whichever allocations fail.  The passes  *)
(* over a line are folds: each is a run of states, one for each token, and  *)
(* what is said of all of them is shown by induction on the token.          *)
(***************************************************************************)
EXTENDS Parser, FiniteSetTheorems, SequenceTheorems, TLAPS

NaturalNumbers == INSTANCE ProbingProofs WITH None <- NULL

-----------------------------------------------------------------------------
(* The folds as runs.  A fold is defined on every set of positions, not on  *)
(* prefixes alone: it is built by adding the last position of each set.     *)
LEMMA MaxIs ==
  ASSUME NEW S \in SUBSET Nat, NEW x \in S, \A y \in S : x >= y
  PROVE  Max(S) = x
<1>1. \A y \in S : Max(S) >= y  BY DEF Max
<1>2. Max(S) \in S  BY DEF Max
<1>3. Max(S) >= x /\ x >= Max(S)  BY <1>1, <1>2
<1>4. Max(S) \in Nat /\ x \in Nat  BY <1>2
<1> QED  BY <1>3, <1>4

CountAll(base, tokens) == FoldLeft(CountToken, base, tokens)
KeyAll(base, tokens) == FoldLeft(SetKey, base, tokens)
ParseAll(base, tokens) == FoldLeft(ParseToken, base, tokens)

LEMMA CountRun ==
  ASSUME NEW base, NEW tokens, NEW n \in Nat, DOMAIN tokens = 1 .. n
  PROVE  \E run : /\ run[0] = base
                  /\ \A k \in 1 .. n : run[k] = CountToken(run[k-1], tokens[k])
                  /\ CountAll(base, tokens) = run[n]
<1> DEFINE Folds(it, m) ==
             it = [s \in SUBSET (1 .. m) |->
                     IF s = {} THEN base
                     ELSE CountToken(it[s \ {Max(s)}], tokens[Max(s)])]
           good == {m \in 0 .. n : \E it : Folds(it, m)}
<1> HIDE DEF Folds
<1>1. 0 \in good
  <2>1. 1 .. 0 = {}  OBVIOUS
  <2>2. Folds([s \in SUBSET (1 .. 0) |-> base], 0)  BY <2>1 DEF Folds
  <2> QED  BY <2>2
<1>2. ASSUME NEW k \in 1 .. n, k - 1 \in good PROVE k \in good
  <2>1. PICK it : Folds(it, k - 1)  BY <1>2
  <2> DEFINE next == [s \in SUBSET (1 .. k) |->
                        IF k \in s THEN CountToken(it[s \ {k}], tokens[k]) ELSE it[s]]
  <2>2. ASSUME NEW s \in SUBSET (1 .. k)
        PROVE  next[s] = IF s = {} THEN base
                         ELSE CountToken(next[s \ {Max(s)}], tokens[Max(s)])
    <3>1. CASE k \in s
      <4>1. Max(s) = k
        <5>1. \A y \in s : k >= y  OBVIOUS
        <5> QED  BY <5>1, <3>1, MaxIs
      <4>2. s \ {k} \in SUBSET (1 .. k) /\ k \notin s \ {k}  OBVIOUS
      <4>3. next[s \ {k}] = it[s \ {k}]  BY <4>2
      <4> QED  BY <3>1, <4>1, <4>3
    <3>2. CASE k \notin s
      <4>1. s \in SUBSET (1 .. k-1)  BY <3>2
      <4>2. next[s] = it[s]  BY <3>2
      <4>3. it[s] = IF s = {} THEN base
                    ELSE CountToken(it[s \ {Max(s)}], tokens[Max(s)])
            BY <2>1, <4>1 DEF Folds
      <4>4. next[s \ {Max(s)}] = it[s \ {Max(s)}]  BY <3>2
      <4> QED  BY <4>2, <4>3, <4>4
    <3> QED  BY <3>1, <3>2
  <2>3. DOMAIN next = SUBSET (1 .. k)  OBVIOUS
  <2>4. next = [s \in DOMAIN next |-> next[s]]  OBVIOUS
  <2> HIDE DEF next
  <2>5. Folds(next, k)  BY <2>2, <2>3, <2>4 DEF Folds
  <2> QED  BY <2>5
<1>3. 0 .. n \subseteq good
  <2> HIDE DEF good
  <2> QED  BY <1>1, <1>2, NaturalNumbers!UpTo
<1> DEFINE it == CHOOSE it : Folds(it, n)
<1>4. Folds(it, n)  BY <1>3
<1>5. CountAll(base, tokens) = it[1 .. n]
      BY DEF CountAll, FoldLeft, MapThenFoldSet, Folds
<1> HIDE DEF it, good
<1> DEFINE run == [k \in 0 .. n |-> it[1 .. k]]
<1>6. run[0] = base
  <2>1. 1 .. 0 = {} /\ {} \in SUBSET (1 .. n)  OBVIOUS
  <2> QED  BY <1>4, <2>1 DEF Folds
<1>7. ASSUME NEW k \in 1 .. n PROVE run[k] = CountToken(run[k-1], tokens[k])
  <2>1. Max(1 .. k) = k  BY MaxIs
  <2>2. (1 .. k) \ {k} = 1 .. (k-1) /\ 1 .. k # {} /\ 1 .. k \in SUBSET (1 .. n)
        OBVIOUS
  <2>3. it[1 .. k] = CountToken(it[1 .. (k-1)], tokens[k])
        BY <1>4, <2>1, <2>2 DEF Folds
  <2> QED  BY <2>3
<1>8. run[n] = it[1 .. n]  OBVIOUS
<1> HIDE DEF run
<1> QED  BY <1>5, <1>6, <1>7, <1>8

LEMMA KeyRun ==
  ASSUME NEW base, NEW tokens, NEW n \in Nat, DOMAIN tokens = 1 .. n
  PROVE  \E run : /\ run[0] = base
                  /\ \A k \in 1 .. n : run[k] = SetKey(run[k-1], tokens[k])
                  /\ KeyAll(base, tokens) = run[n]
<1> DEFINE Folds(it, m) ==
             it = [s \in SUBSET (1 .. m) |->
                     IF s = {} THEN base
                     ELSE SetKey(it[s \ {Max(s)}], tokens[Max(s)])]
           good == {m \in 0 .. n : \E it : Folds(it, m)}
<1> HIDE DEF Folds
<1>1. 0 \in good
  <2>1. 1 .. 0 = {}  OBVIOUS
  <2>2. Folds([s \in SUBSET (1 .. 0) |-> base], 0)  BY <2>1 DEF Folds
  <2> QED  BY <2>2
<1>2. ASSUME NEW k \in 1 .. n, k - 1 \in good PROVE k \in good
  <2>1. PICK it : Folds(it, k - 1)  BY <1>2
  <2> DEFINE next == [s \in SUBSET (1 .. k) |->
                        IF k \in s THEN SetKey(it[s \ {k}], tokens[k]) ELSE it[s]]
  <2>2. ASSUME NEW s \in SUBSET (1 .. k)
        PROVE  next[s] = IF s = {} THEN base
                         ELSE SetKey(next[s \ {Max(s)}], tokens[Max(s)])
    <3>1. CASE k \in s
      <4>1. Max(s) = k
        <5>1. \A y \in s : k >= y  OBVIOUS
        <5> QED  BY <5>1, <3>1, MaxIs
      <4>2. s \ {k} \in SUBSET (1 .. k) /\ k \notin s \ {k}  OBVIOUS
      <4>3. next[s \ {k}] = it[s \ {k}]  BY <4>2
      <4> QED  BY <3>1, <4>1, <4>3
    <3>2. CASE k \notin s
      <4>1. s \in SUBSET (1 .. k-1)  BY <3>2
      <4>2. next[s] = it[s]  BY <3>2
      <4>3. it[s] = IF s = {} THEN base
                    ELSE SetKey(it[s \ {Max(s)}], tokens[Max(s)])
            BY <2>1, <4>1 DEF Folds
      <4>4. next[s \ {Max(s)}] = it[s \ {Max(s)}]  BY <3>2
      <4> QED  BY <4>2, <4>3, <4>4
    <3> QED  BY <3>1, <3>2
  <2>3. DOMAIN next = SUBSET (1 .. k)  OBVIOUS
  <2>4. next = [s \in DOMAIN next |-> next[s]]  OBVIOUS
  <2> HIDE DEF next
  <2>5. Folds(next, k)  BY <2>2, <2>3, <2>4 DEF Folds
  <2> QED  BY <2>5
<1>3. 0 .. n \subseteq good
  <2> HIDE DEF good
  <2> QED  BY <1>1, <1>2, NaturalNumbers!UpTo
<1> DEFINE it == CHOOSE it : Folds(it, n)
<1>4. Folds(it, n)  BY <1>3
<1>5. KeyAll(base, tokens) = it[1 .. n]
      BY DEF KeyAll, FoldLeft, MapThenFoldSet, Folds
<1> HIDE DEF it, good
<1> DEFINE run == [k \in 0 .. n |-> it[1 .. k]]
<1>6. run[0] = base
  <2>1. 1 .. 0 = {} /\ {} \in SUBSET (1 .. n)  OBVIOUS
  <2> QED  BY <1>4, <2>1 DEF Folds
<1>7. ASSUME NEW k \in 1 .. n PROVE run[k] = SetKey(run[k-1], tokens[k])
  <2>1. Max(1 .. k) = k  BY MaxIs
  <2>2. (1 .. k) \ {k} = 1 .. (k-1) /\ 1 .. k # {} /\ 1 .. k \in SUBSET (1 .. n)
        OBVIOUS
  <2>3. it[1 .. k] = SetKey(it[1 .. (k-1)], tokens[k])
        BY <1>4, <2>1, <2>2 DEF Folds
  <2> QED  BY <2>3
<1>8. run[n] = it[1 .. n]  OBVIOUS
<1> HIDE DEF run
<1> QED  BY <1>5, <1>6, <1>7, <1>8

LEMMA ParseRun ==
  ASSUME NEW base, NEW tokens, NEW n \in Nat, DOMAIN tokens = 1 .. n
  PROVE  \E run : /\ run[0] = base
                  /\ \A k \in 1 .. n : run[k] = ParseToken(run[k-1], tokens[k])
                  /\ ParseAll(base, tokens) = run[n]
<1> DEFINE Folds(it, m) ==
             it = [s \in SUBSET (1 .. m) |->
                     IF s = {} THEN base
                     ELSE ParseToken(it[s \ {Max(s)}], tokens[Max(s)])]
           good == {m \in 0 .. n : \E it : Folds(it, m)}
<1> HIDE DEF Folds
<1>1. 0 \in good
  <2>1. 1 .. 0 = {}  OBVIOUS
  <2>2. Folds([s \in SUBSET (1 .. 0) |-> base], 0)  BY <2>1 DEF Folds
  <2> QED  BY <2>2
<1>2. ASSUME NEW k \in 1 .. n, k - 1 \in good PROVE k \in good
  <2>1. PICK it : Folds(it, k - 1)  BY <1>2
  <2> DEFINE next == [s \in SUBSET (1 .. k) |->
                        IF k \in s THEN ParseToken(it[s \ {k}], tokens[k]) ELSE it[s]]
  <2>2. ASSUME NEW s \in SUBSET (1 .. k)
        PROVE  next[s] = IF s = {} THEN base
                         ELSE ParseToken(next[s \ {Max(s)}], tokens[Max(s)])
    <3>1. CASE k \in s
      <4>1. Max(s) = k
        <5>1. \A y \in s : k >= y  OBVIOUS
        <5> QED  BY <5>1, <3>1, MaxIs
      <4>2. s \ {k} \in SUBSET (1 .. k) /\ k \notin s \ {k}  OBVIOUS
      <4>3. next[s \ {k}] = it[s \ {k}]  BY <4>2
      <4> QED  BY <3>1, <4>1, <4>3
    <3>2. CASE k \notin s
      <4>1. s \in SUBSET (1 .. k-1)  BY <3>2
      <4>2. next[s] = it[s]  BY <3>2
      <4>3. it[s] = IF s = {} THEN base
                    ELSE ParseToken(it[s \ {Max(s)}], tokens[Max(s)])
            BY <2>1, <4>1 DEF Folds
      <4>4. next[s \ {Max(s)}] = it[s \ {Max(s)}]  BY <3>2
      <4> QED  BY <4>2, <4>3, <4>4
    <3> QED  BY <3>1, <3>2
  <2>3. DOMAIN next = SUBSET (1 .. k)  OBVIOUS
  <2>4. next = [s \in DOMAIN next |-> next[s]]  OBVIOUS
  <2> HIDE DEF next
  <2>5. Folds(next, k)  BY <2>2, <2>3, <2>4 DEF Folds
  <2> QED  BY <2>5
<1>3. 0 .. n \subseteq good
  <2> HIDE DEF good
  <2> QED  BY <1>1, <1>2, NaturalNumbers!UpTo
<1> DEFINE it == CHOOSE it : Folds(it, n)
<1>4. Folds(it, n)  BY <1>3
<1>5. ParseAll(base, tokens) = it[1 .. n]
      BY DEF ParseAll, FoldLeft, MapThenFoldSet, Folds
<1> HIDE DEF it, good
<1> DEFINE run == [k \in 0 .. n |-> it[1 .. k]]
<1>6. run[0] = base
  <2>1. 1 .. 0 = {} /\ {} \in SUBSET (1 .. n)  OBVIOUS
  <2> QED  BY <1>4, <2>1 DEF Folds
<1>7. ASSUME NEW k \in 1 .. n PROVE run[k] = ParseToken(run[k-1], tokens[k])
  <2>1. Max(1 .. k) = k  BY MaxIs
  <2>2. (1 .. k) \ {k} = 1 .. (k-1) /\ 1 .. k # {} /\ 1 .. k \in SUBSET (1 .. n)
        OBVIOUS
  <2>3. it[1 .. k] = ParseToken(it[1 .. (k-1)], tokens[k])
        BY <1>4, <2>1, <2>2 DEF Folds
  <2> QED  BY <2>3
<1>8. run[n] = it[1 .. n]  OBVIOUS
<1> HIDE DEF run
<1> QED  BY <1>5, <1>6, <1>7, <1>8

(* The keys of a half up to a token are those up to the token before, and   *)
(* its own if it is a field of that half.                                   *)
LEMMA PartRun ==
  ASSUME NEW line, NEW half, Len(line.tokens) \in Nat
  PROVE  LET upTo == PartUpTo(line, half)
         IN /\ upTo[0] = <<>>
            /\ \A k \in 1 .. Len(line.tokens) :
                 upTo[k] = IF InHalf(line, half, k)
                           THEN Append(upTo[k-1], line.tokens[k].key) ELSE upTo[k-1]
<1> DEFINE n == Len(line.tokens)
           Parts(f, m) ==
             f = [k \in 0 .. m |->
                    IF k = 0 THEN <<>>
                    ELSE IF InHalf(line, half, k) THEN Append(f[k-1], line.tokens[k].key)
                    ELSE f[k-1]]
           good == {m \in 0 .. n : \E f : Parts(f, m)}
<1> HIDE DEF Parts
<1>1. 0 \in good
  <2>1. Parts([k \in 0 .. 0 |-> <<>>], 0)  BY DEF Parts
  <2> QED  BY <2>1
<1>2. ASSUME NEW k \in 1 .. n, k - 1 \in good PROVE k \in good
  <2>1. PICK f : Parts(f, k - 1)  BY <1>2
  <2> DEFINE last == IF InHalf(line, half, k) THEN Append(f[k-1], line.tokens[k].key)
                     ELSE f[k-1]
             next == [j \in 0 .. k |-> IF j = k THEN last ELSE f[j]]
  <2>2. ASSUME NEW j \in 0 .. k
        PROVE  next[j] = IF j = 0 THEN <<>>
                         ELSE IF InHalf(line, half, j)
                              THEN Append(next[j-1], line.tokens[j].key)
                              ELSE next[j-1]
    <3>1. CASE j = k  BY <3>1
    <3>2. CASE j # k
      <4>1. j \in 0 .. k-1 /\ next[j] = f[j] /\ (j # 0 => next[j-1] = f[j-1])  BY <3>2
      <4> HIDE DEF next
      <4> QED  BY <4>1, <2>1 DEF Parts
    <3> QED  BY <3>1, <3>2
  <2>3. DOMAIN next = 0 .. k /\ next = [j \in DOMAIN next |-> next[j]]  OBVIOUS
  <2> HIDE DEF next
  <2>4. Parts(next, k)  BY <2>2, <2>3 DEF Parts
  <2> QED  BY <2>4
<1>3. 0 .. n \subseteq good
  <2> HIDE DEF good
  <2> QED  BY <1>1, <1>2, NaturalNumbers!UpTo
<1> DEFINE f == CHOOSE f : Parts(f, n)
<1>4. Parts(f, n)  BY <1>3
<1>5. PartUpTo(line, half) = f  BY DEF PartUpTo, Parts
<1> HIDE DEF f, good
<1>6. PartUpTo(line, half)[0] = <<>>  BY <1>4, <1>5 DEF Parts
<1>7. ASSUME NEW k \in 1 .. n
      PROVE  f[k] = IF InHalf(line, half, k)
                    THEN Append(f[k-1], line.tokens[k].key) ELSE f[k-1]
  <2>1. k \in 0 .. n /\ k # 0  OBVIOUS
  <2> HIDE DEF n
  <2> QED  BY <1>4, <2>1 DEF Parts
<1> QED  BY <1>5, <1>6, <1>7

-----------------------------------------------------------------------------
(* What the lines are made of, once prepared for imbue_parser.              *)
IsTokens(tokens) ==
  /\ Len(tokens) \in Nat /\ Len(tokens) # 0 /\ DOMAIN tokens = 1 .. Len(tokens)
  /\ \A i \in 1 .. Len(tokens) : IsToken(tokens[i])
  /\ tokens[1].kind # "colon"

LEMMA LineTokens ==
  ASSUME NEW line, IsLine(line)
  PROVE  IsTokens(line.tokens)
<1>1. line.tokens \in Seq(Range(line.tokens)) /\ line.tokens # <<>>  BY DEF IsLine
<1>2. Len(line.tokens) \in Nat /\ DOMAIN line.tokens = 1 .. Len(line.tokens)
      BY <1>1
<1>3. Len(line.tokens) # 0  BY <1>1
<1>4. 1 \in DOMAIN line.tokens  BY <1>2, <1>3
<1>5. line.tokens[1].kind # "colon"
  <2>1. \A i \in DOMAIN line.tokens : line.tokens[i].kind = "colon" => i > 1  BY DEF IsLine
  <2>2. ~ (1 > 1)  OBVIOUS
  <2> QED  BY <2>1, <2>2, <1>4
<1>6. \A i \in 1 .. Len(line.tokens) : IsToken(line.tokens[i])  BY <1>2 DEF IsLine
<1> QED  BY <1>2, <1>3, <1>5, <1>6 DEF IsTokens

LEMMA BufferTokens ==
  ASSUME NEW line, IsLine(line)
  PROVE  IsTokens(Buffer(line))
<1> DEFINE ts == line.tokens
           dec == <<Field("dec", "")>>
           T == Range(line.tokens) \union {Field("dec", ""), Word}
           front == IF line.kind = "rule" THEN dec \o Tail(ts) ELSE ts
<1>1. IsTokens(ts)  BY LineTokens
<1>2. ts \in Seq(T)
  <2>1. ts \in Seq(Range(ts)) /\ Range(ts) \subseteq T  BY DEF IsLine
  <2> HIDE DEF T
  <2> QED  BY <2>1, SeqMonotonic
<1>3. IsToken(Field("dec", "")) /\ Field("dec", "").kind # "colon" /\ IsToken(Word)
      BY DEF Field, Word, IsToken
<1>4. Field("dec", "") \in T /\ Word \in T  OBVIOUS
<1>5. dec \in Seq(T) /\ Len(dec) = 1 /\ dec[1] = Field("dec", "")  BY <1>4
<1> HIDE DEF ts, T, dec
<1>6. front \in Seq(T) /\ IsTokens(front)
  <2>1. CASE line.kind = "rule"
    <3> DEFINE rest == Tail(ts)
    <3>1. /\ rest \in Seq(T) /\ Len(rest) = Len(ts) - 1
          /\ \A i \in 1 .. Len(ts) - 1 : rest[i] = ts[i+1]
      <4>1. ts # <<>>  BY <1>1 DEF IsTokens
      <4>2. rest \in Seq(T) /\ Len(rest) = Len(ts) - 1
            /\ \A i \in 1 .. Len(rest) : rest[i] = ts[i+1]
            BY <4>1, <1>2, HeadTailProperties
      <4> QED  BY <4>2
    <3>2. front = dec \o rest  BY <2>1
    <3> HIDE DEF front, rest
    <3>3. /\ front \in Seq(T) /\ Len(front) = 1 + Len(rest)
          /\ \A i \in 1 .. 1 + Len(rest) : front[i] = IF i <= 1 THEN dec[i] ELSE rest[i-1]
      <4>1. /\ dec \o rest \in Seq(T) /\ Len(dec \o rest) = Len(dec) + Len(rest)
            /\ \A i \in 1 .. Len(dec) + Len(rest) :
                 (dec \o rest)[i] = IF i <= Len(dec) THEN dec[i] ELSE rest[i - Len(dec)]
        <5>1. dec \in Seq(T) /\ rest \in Seq(T)  BY <3>1, <1>5
        <5> QED  BY <5>1, ConcatProperties
      <4> QED  BY <4>1, <3>2, <1>5
    <3>4. Len(front) = Len(ts) /\ Len(ts) \in Nat /\ Len(ts) # 0
          BY <3>1, <3>3, <1>1 DEF IsTokens
    <3>5. DOMAIN front = 1 .. Len(front)  BY <3>3
    <3>6. front[1] = Field("dec", "")
      <4>1. 1 \in 1 .. 1 + Len(rest) /\ 1 <= 1  BY <3>1, <3>4
      <4> QED  BY <4>1, <3>3, <1>5
    <3>7. ASSUME NEW i \in 1 .. Len(front), i # 1 PROVE IsToken(front[i])
      <4>1. i - 1 \in 1 .. Len(ts) - 1 /\ (i - 1) + 1 = i /\ i \in 1 .. 1 + Len(rest)
            /\ ~ (i <= 1)
            BY <3>1, <3>4, <3>7
      <4>2. front[i] = ts[i]  BY <4>1, <3>1, <3>3
      <4> QED  BY <4>2, <3>4, <1>1 DEF IsTokens
    <3> QED  BY <3>3, <3>4, <3>5, <3>6, <3>7, <1>3 DEF IsTokens
  <2>2. CASE line.kind # "rule"  BY <2>2, <1>1, <1>2
  <2> QED  BY <2>1, <2>2
<1>7. Buffer(line) = IF line.endsBlank THEN Append(front, Word) ELSE front
      BY DEF Buffer, ts, dec
<1> HIDE DEF front
<1>8. IsTokens(Append(front, Word))
  <2> DEFINE more == Append(front, Word)
             n == Len(front)
  <2>1. /\ more \in Seq(T) /\ Len(more) = n + 1
        /\ \A i \in 1 .. n : more[i] = front[i]
        /\ more[n+1] = Word
    <3>1. front \in Seq(T) /\ Word \in T  BY <1>4, <1>6
    <3> HIDE DEF more, n
    <3>2. /\ Append(front, Word) \in Seq(T) /\ Len(Append(front, Word)) = Len(front) + 1
          /\ \A i \in 1 .. Len(front) : Append(front, Word)[i] = front[i]
          /\ Append(front, Word)[Len(front) + 1] = Word
          BY <3>1, AppendProperties
    <3> QED  BY <3>2 DEF more, n
  <2>2. n \in Nat /\ n # 0  BY <1>6 DEF IsTokens
  <2>3. DOMAIN more = 1 .. n + 1  BY <2>1
  <2> HIDE DEF more
  <2>4. ASSUME NEW i \in 1 .. n + 1 PROVE IsToken(more[i])
    <3>1. CASE i = n + 1  BY <3>1, <2>1, <1>3
    <3>2. CASE i # n + 1
      <4>1. i \in 1 .. n  BY <3>2, <2>2
      <4> QED  BY <4>1, <2>1, <1>6 DEF IsTokens
    <3> QED  BY <3>1, <3>2
  <2>5. more[1].kind # "colon"
    <3>1. 1 \in 1 .. n  BY <2>2
    <3> QED  BY <3>1, <2>1, <1>6 DEF IsTokens
  <2>6. Len(more) \in Nat /\ Len(more) # 0  BY <2>1, <2>2
  <2> HIDE DEF n
  <2>7. IsTokens(more)  BY <2>1, <2>3, <2>4, <2>5, <2>6 DEF IsTokens
  <2> QED  BY <2>7 DEF more
<1> QED  BY <1>6, <1>7, <1>8

LEMMA TokenKinds ==
  ASSUME NEW t, IsToken(t)
  PROVE  t.kind \in {"field", "word", "colon"}
<1>1. Colon.kind = "colon"  BY DEF Colon
<1>2. t.kind = "field" \/ t.kind = "word" \/ t = Colon  BY DEF IsToken
<1> QED  BY <1>1, <1>2

LEMMA EqualsInNat ==
  ASSUME NEW t, IsToken(t)
  PROVE  /\ Equals(t) \in 0 .. 2
         /\ t.kind = "field" => Equals(t) \in {1, 2} /\ (t.extra = "" => Equals(t) = 1)
         /\ t.kind # "field" => Equals(t) = 0
         /\ HasColon(t) /\ t.extra # ":" => t.kind = "colon"
<1>1. t.kind # "field" => Equals(t) = 0  BY DEF Equals
<1>2. t.kind = "field" => Equals(t) = IF t.extra = "=" THEN 2 ELSE 1  BY DEF Equals
<1>3. t.kind = "field" /\ t.extra = "" => Equals(t) = 1  BY <1>2
<1>4. Equals(t) \in 0 .. 2  BY <1>1, <1>2
<1>5. HasColon(t) /\ t.extra # ":" => t.kind = "colon"  BY DEF HasColon
<1> QED  BY <1>1, <1>2, <1>3, <1>4, <1>5

-----------------------------------------------------------------------------
(* The field arrays, and one token of each pass.                            *)
IsArray(a) ==
  a = [keys |-> a.keys, num |-> a.num, key |-> a.key, value |-> a.value] /\ ArrayOK(a)

Fresh(num) == [keys |-> "live", num |-> num,
               key |-> [i \in 0 .. num |-> NULL], value |-> [i \in 0 .. num |-> NULL]]

LEMMA EmptyIsArray == IsArray(EmptyArray)
BY DEF IsArray, ArrayOK, EmptyArray

LEMMA InitializedIsArray ==
  ASSUME NEW num \in Nat, NEW left \in Nat
  PROVE  IsArray(Initialized(num, left)) /\ (left >= 2 => Initialized(num, left) = Fresh(num))
<1>1. CASE left = 0
  <2>1. Initialized(num, left) = EmptyArray  BY <1>1 DEF Initialized
  <2> QED  BY <2>1, <1>1, EmptyIsArray
<1>2. CASE left = 1
  <2>1. Initialized(num, left) = [EmptyArray EXCEPT !.keys = "freed"]  BY <1>2 DEF Initialized
  <2>2. IsArray([EmptyArray EXCEPT !.keys = "freed"])  BY DEF IsArray, ArrayOK, EmptyArray
  <2> QED  BY <2>1, <2>2, <1>2
<1>3. CASE left # 0 /\ left # 1
  <2>1. Initialized(num, left) = Fresh(num)  BY <1>3 DEF Initialized, Fresh
  <2>2. IsArray(Fresh(num))
    <3>1. [i \in 0 .. num |-> NULL] \in [0 .. num -> {NULL, "new", "old"}]  OBVIOUS
    <3> QED  BY <3>1 DEF IsArray, ArrayOK, Fresh
  <2> QED  BY <2>1, <2>2
<1> QED  BY <1>1, <1>2, <1>3

IsCount(p) ==
  /\ p = [num |-> p.num, subject |-> p.subject, left |-> p.left, rc |-> p.rc]
  /\ p.num \in Nat /\ p.left \in Int /\ (p.rc = OK => p.left \in Nat)
  /\ IsArray(p.subject)
  /\ p.rc \in {OK, ALLOCATION_ERROR, PARSE_ERROR}

LEMMA CountStep ==
  ASSUME NEW p, IsCount(p), NEW t, IsToken(t)
  PROVE  LET q == CountToken(p, t)
         IN /\ IsCount(q)
            /\ p.rc # OK => q = p
            /\ p.rc = OK /\ ~ HasColon(t) =>
                 q.num = p.num + Equals(t) /\ q.subject = p.subject /\ q.rc = OK
            /\ p.rc = OK /\ q.rc = OK /\ HasColon(t) =>
                 q.num = 0 /\ q.subject = Fresh(p.num + Equals(t))
<1> DEFINE q == CountToken(p, t)
           num == p.num + Equals(t)
<1>1. num \in Nat
  <2>1. Equals(t) \in 0 .. 2 /\ p.num \in Nat  BY EqualsInNat DEF IsCount
  <2> QED  BY <2>1
<1>2. CASE p.rc # OK
  <2>1. q = p  BY <1>2 DEF CountToken
  <2> QED  BY <2>1, <1>2
<1>3. CASE p.rc = OK /\ ~ HasColon(t)
  <2>1. q = [p EXCEPT !.num = num]  BY <1>3 DEF CountToken
  <2> HIDE DEF q, num
  <2>2. IsCount(q) /\ q.num = num /\ q.subject = p.subject /\ q.rc = OK
        BY <2>1, <1>1, <1>3 DEF IsCount
  <2> QED  BY <2>2, <1>3 DEF q, num
<1>4. CASE p.rc = OK /\ HasColon(t) /\ num = 0
  <2>1. q = [p EXCEPT !.rc = PARSE_ERROR]  BY <1>4 DEF CountToken
  <2> HIDE DEF q, num
  <2>2. IsCount(q) /\ q.rc # OK
        BY <2>1, <1>1, <1>4, CodesAssumption DEF IsCount
  <2> QED  BY <2>2, <1>4 DEF q, num
<1>5. CASE p.rc = OK /\ HasColon(t) /\ num # 0
  <2>1. q = [p EXCEPT !.num = 0, !.left = p.left - 2, !.subject = Initialized(num, p.left),
                      !.rc = IF p.left < 2 THEN ALLOCATION_ERROR ELSE OK]
        BY <1>5 DEF CountToken
  <2> HIDE DEF q, num
  <2>2. p.left \in Nat  BY <1>5 DEF IsCount
  <2>3. IsArray(Initialized(num, p.left))
        /\ (p.left >= 2 => Initialized(num, p.left) = Fresh(num))
        BY <2>2, <1>1, InitializedIsArray
  <2>4. /\ q = [num |-> 0, subject |-> Initialized(num, p.left), left |-> p.left - 2,
                rc |-> IF p.left < 2 THEN ALLOCATION_ERROR ELSE OK]
        BY <2>1 DEF IsCount
  <2>5. IsCount(q)  BY <2>2, <2>3, <2>4, CodesAssumption DEF IsCount
  <2>6. q.rc = OK => q.num = 0 /\ q.subject = Fresh(num)
        BY <2>2, <2>3, <2>4, CodesAssumption
  <2> QED  BY <2>5, <2>6, <1>5 DEF q, num
<1> QED  BY <1>2, <1>3, <1>4, <1>5

Outcomes == {"live", "null dereferenced", "freed memory used", "overrun"}

LEMMA AccessLive ==
  ASSUME NEW a, IsArray(a), NEW index \in Nat
  PROVE  /\ Access(a, index) \in Outcomes
         /\ Access(a, index) = "live" <=> a.keys = "live" /\ index <= a.num
<1>1. a.keys \in {"null", "live", "freed"} /\ a.num \in Nat  BY DEF IsArray, ArrayOK
<1>2. CASE a.keys = "null"
  <2>1. Access(a, index) = "null dereferenced"  BY <1>2 DEF Access
  <2> QED  BY <2>1, <1>2 DEF Outcomes
<1>3. CASE a.keys = "freed"
  <2>1. Access(a, index) = "freed memory used"  BY <1>3 DEF Access
  <2> QED  BY <2>1, <1>3 DEF Outcomes
<1>4. CASE a.keys = "live" /\ index > a.num
  <2>1. Access(a, index) = "overrun"  BY <1>4 DEF Access
  <2> QED  BY <2>1, <1>4, <1>1 DEF Outcomes
<1>5. CASE a.keys = "live" /\ ~ (index > a.num)
  <2>1. Access(a, index) = "live"  BY <1>5 DEF Access
  <2> QED  BY <2>1, <1>5, <1>1 DEF Outcomes
<1> QED  BY <1>1, <1>2, <1>3, <1>4, <1>5

(* An array after a key, or a value, was stored in it. *)
WithKey(a, index, key) == [a EXCEPT !.key = [a.key EXCEPT ![index] = key]]
WithNew(a, index) == [a EXCEPT !.value = [a.value EXCEPT ![index] = "new"]]

LEMMA StoredIsArray ==
  ASSUME NEW a, IsArray(a), a.keys = "live", NEW index \in 0 .. a.num, NEW key
  PROVE  LET b == WithKey(a, index, key)
             c == WithNew(a, index)
         IN /\ IsArray(b) /\ b.keys = a.keys /\ b.num = a.num /\ b.value = a.value
            /\ b.key[index] = key /\ \A j \in 0 .. a.num : j # index => b.key[j] = a.key[j]
            /\ IsArray(c) /\ c.keys = a.keys /\ c.num = a.num /\ c.key = a.key
            /\ c.value[index] = "new"
            /\ \A j \in 0 .. a.num : j # index => c.value[j] = a.value[j]
<1> DEFINE b == WithKey(a, index, key)
           c == WithNew(a, index)
           keys == [a.key EXCEPT ![index] = key]
           values == [a.value EXCEPT ![index] = "new"]
<1>1. /\ DOMAIN a.key = 0 .. a.num /\ a.num \in Nat
      /\ a.value \in [0 .. a.num -> {NULL, "new", "old"}]
      BY DEF IsArray, ArrayOK
<1>2. /\ DOMAIN keys = 0 .. a.num /\ keys[index] = key
      /\ \A j \in 0 .. a.num : j # index => keys[j] = a.key[j]
      BY <1>1
<1>3. /\ values \in [0 .. a.num -> {NULL, "new", "old"}] /\ values[index] = "new"
      /\ \A j \in 0 .. a.num : j # index => values[j] = a.value[j]
      BY <1>1
<1> HIDE DEF keys, values
<1>4. b = [keys |-> a.keys, num |-> a.num, key |-> keys, value |-> a.value]
      BY DEF IsArray, WithKey, keys
<1>5. c = [keys |-> a.keys, num |-> a.num, key |-> a.key, value |-> values]
      BY DEF IsArray, WithNew, values
<1> HIDE DEF b, c
<1>6. IsArray(b)  BY <1>1, <1>2, <1>4 DEF IsArray, ArrayOK
<1>7. IsArray(c)  BY <1>1, <1>3, <1>5 DEF IsArray, ArrayOK
<1>8. /\ IsArray(b) /\ b.keys = a.keys /\ b.num = a.num /\ b.value = a.value
      /\ b.key[index] = key /\ \A j \in 0 .. a.num : j # index => b.key[j] = a.key[j]
      BY <1>2, <1>4, <1>6
<1>9. /\ IsArray(c) /\ c.keys = a.keys /\ c.num = a.num /\ c.key = a.key
      /\ c.value[index] = "new"
      /\ \A j \in 0 .. a.num : j # index => c.value[j] = a.value[j]
      BY <1>3, <1>5, <1>7
<1> QED  BY <1>8, <1>9 DEF b, c

(* The array a pass is at. *)
Current(p) == p[p.half]

IsKeying(p) ==
  /\ p = [subject |-> p.subject, object |-> p.object, half |-> p.half,
          index |-> p.index, status |-> p.status]
  /\ IsArray(p.subject) /\ IsArray(p.object)
  /\ p.half \in {"subject", "object"} /\ p.index \in Nat /\ p.status \in Outcomes

(* Whether the pass goes on with a token, and what it then does.            *)
LEMMA KeyStep ==
  ASSUME NEW p, IsKeying(p), NEW t, IsToken(t)
  PROVE  LET q == SetKey(p, t)
         IN /\ IsKeying(q)
            /\ q.subject.keys = p.subject.keys /\ q.subject.num = p.subject.num
            /\ q.object.keys = p.object.keys /\ q.object.num = p.object.num
            /\ p.status # "live" => q = p
            /\ p.status = "live" /\ t.kind = "colon" =>
                 /\ q.half = "object" /\ q.index = 0 /\ q.status = "live"
                 /\ q.subject = p.subject /\ q.object = p.object
            /\ p.status = "live" /\ t.kind # "colon" =>
                 \/ /\ Access(Current(p), p.index) # "live"
                    /\ q.status = Access(Current(p), p.index)
                 \/ /\ Access(Current(p), p.index) = "live"
                    /\ q.status = "live" /\ q.half = p.half /\ q.index = p.index + 1
                    /\ Current(q) = WithKey(Current(p), p.index, t.key)
                    /\ p.half = "subject" => q.object = p.object
                    /\ p.half = "object" => q.subject = p.subject
<1> DEFINE q == SetKey(p, t)
           access == Access(p[p.half], p.index)
<1>1. IsArray(p[p.half]) /\ access \in Outcomes
      /\ (access = "live" <=> p[p.half].keys = "live" /\ p.index <= p[p.half].num)
  <2>1. IsArray(p[p.half])
    <3>1. CASE p.half = "subject"  BY <3>1 DEF IsKeying
    <3>2. CASE p.half = "object"  BY <3>2 DEF IsKeying
    <3> QED  BY <3>1, <3>2 DEF IsKeying
  <2>2. p.index \in Nat  BY DEF IsKeying
  <2> QED  BY <2>1, <2>2, AccessLive
<1>2. CASE p.status # "live"
  <2>1. q = p  BY <1>2 DEF SetKey
  <2> QED  BY <2>1, <1>2
<1>3. CASE p.status = "live" /\ t.kind = "colon"
  <2>1. q = [p EXCEPT !.half = "object", !.index = 0]  BY <1>3 DEF SetKey
  <2> HIDE DEF q
  <2>2. IsKeying(q) /\ q.subject = p.subject /\ q.object = p.object
        /\ q.half = "object" /\ q.index = 0 /\ q.status = "live"
        BY <2>1, <1>3 DEF IsKeying
  <2> QED  BY <2>2, <1>3 DEF q
<1>4. CASE p.status = "live" /\ t.kind # "colon" /\ access # "live"
  <2>1. q = [p EXCEPT !.status = access]  BY <1>4 DEF SetKey
  <2> HIDE DEF q, access
  <2>2. IsKeying(q) /\ q.subject = p.subject /\ q.object = p.object /\ q.status = access
        BY <2>1, <1>1 DEF IsKeying
  <2> QED  BY <2>2, <1>4 DEF q, access, Current
<1>5. CASE p.status = "live" /\ t.kind # "colon" /\ access = "live"
  <2> DEFINE a == p[p.half]
             b == WithKey(a, p.index, t.key)
  <2>1. q = [p EXCEPT ![p.half].key[p.index] = t.key, !.index = p.index + 1]
        BY <1>5 DEF SetKey
  <2>2. a.keys = "live" /\ p.index \in 0 .. a.num
    <3>1. a.num \in Nat /\ p.index \in Nat  BY <1>1 DEF IsKeying, IsArray, ArrayOK
    <3> QED  BY <3>1, <1>1, <1>5
  <2>3. IsArray(b) /\ b.keys = a.keys /\ b.num = a.num
        BY <1>1, <2>2, StoredIsArray
  <2>4. CASE p.half = "subject"
    <3>1. q = [subject |-> b, object |-> p.object, half |-> p.half,
               index |-> p.index + 1, status |-> p.status]
          BY <2>1, <2>4 DEF IsKeying, WithKey
    <3>2. a = p.subject  BY <2>4
    <3> HIDE DEF q, b, a
    <3>3. IsKeying(q) /\ q.subject.keys = p.subject.keys /\ q.subject.num = p.subject.num
          /\ q.object = p.object /\ q.status = "live" /\ q.half = p.half
          /\ q.index = p.index + 1 /\ q[p.half] = b
          BY <3>1, <3>2, <2>3, <2>4, <1>5 DEF IsKeying
    <3> QED  BY <3>3, <1>5, <2>4 DEF q, b, a, Current
  <2>5. CASE p.half = "object"
    <3>1. q = [subject |-> p.subject, object |-> b, half |-> p.half,
               index |-> p.index + 1, status |-> p.status]
          BY <2>1, <2>5 DEF IsKeying, WithKey
    <3>2. a = p.object  BY <2>5
    <3> HIDE DEF q, b, a
    <3>3. IsKeying(q) /\ q.object.keys = p.object.keys /\ q.object.num = p.object.num
          /\ q.subject = p.subject /\ q.status = "live" /\ q.half = p.half
          /\ q.index = p.index + 1 /\ q[p.half] = b
          BY <3>1, <3>2, <2>3, <2>5, <1>5 DEF IsKeying
    <3> QED  BY <3>3, <1>5, <2>5 DEF q, b, a, Current
  <2> QED  BY <2>4, <2>5 DEF IsKeying
<1> QED  BY <1>2, <1>3, <1>4, <1>5

IsParsing(p) ==
  /\ p = [subject |-> p.subject, object |-> p.object, half |-> p.half,
          index |-> p.index, rc |-> p.rc, status |-> p.status]
  /\ IsArray(p.subject) /\ IsArray(p.object)
  /\ p.half \in {"subject", "object"} /\ p.index \in Nat
  /\ p.rc \in {OK, PARSE_ERROR} /\ p.status \in Outcomes

Running(p) == p.rc = OK /\ p.status = "live"

SameKeys(a, b) == a.keys = b.keys /\ a.num = b.num /\ a.key = b.key

LEMMA HalfIsArray ==
  ASSUME NEW p, IsArray(p.subject), IsArray(p.object), p.half \in {"subject", "object"}
  PROVE  /\ IsArray(Current(p)) /\ Current(p).num \in Nat
         /\ p.half = "subject" => Current(p) = p.subject
         /\ p.half = "object" => Current(p) = p.object
<1>1. CASE p.half = "subject"  BY <1>1 DEF IsArray, ArrayOK, Current
<1>2. CASE p.half = "object"  BY <1>2 DEF IsArray, ArrayOK, Current
<1> QED  BY <1>1, <1>2

(* One "=" of a record: it crashes, is refused, or stores a value.          *)
LEMMA MatchStep ==
  ASSUME NEW p, IsParsing(p), Running(p), NEW t
  PROVE  LET q == MatchKey(p, t)
             a == Current(p)
         IN /\ IsParsing(q) /\ q.half = p.half
            /\ SameKeys(p.subject, q.subject) /\ SameKeys(p.object, q.object)
            /\ q.rc = OK \/ q.status = "live"
            /\ q.status # "live" =>
                 Access(a, p.index) # "live" \/ a.key[p.index] = NULL
            /\ q.rc # OK =>
                 Access(a, p.index) = "live" /\ a.key[p.index] # t.key
            /\ Running(q) =>
                 /\ a.keys = "live" /\ p.index \in 0 .. a.num /\ a.key[p.index] = t.key
                 /\ q.index = p.index + 1 /\ Current(q) = WithNew(a, p.index)
                 /\ p.half = "subject" => q.object = p.object
                 /\ p.half = "object" => q.subject = p.subject
<1> DEFINE q == MatchKey(p, t)
           a == p[p.half]
           access == Access(a, p.index)
<1>1. a = Current(p)  BY DEF Current
<1>2. IsArray(a) /\ a.num \in Nat /\ p.index \in Nat /\ access \in Outcomes
      /\ (access = "live" <=> a.keys = "live" /\ p.index <= a.num)
  <2>1. IsArray(a) /\ a.num \in Nat /\ p.index \in Nat  BY <1>1, HalfIsArray DEF IsParsing
  <2> HIDE DEF a
  <2> QED  BY <2>1, AccessLive
<1>3. p.rc = OK /\ p.status = "live"  BY DEF Running
<1>4. CASE access # "live"
  <2>1. q = [p EXCEPT !.status = access]  BY <1>4 DEF MatchKey
  <2> HIDE DEF q, access
  <2>2. IsParsing(q) /\ q.half = p.half /\ q.subject = p.subject /\ q.object = p.object
        /\ q.rc = OK /\ q.status # "live"
        BY <2>1, <1>2, <1>3, <1>4 DEF IsParsing
  <2> QED  BY <2>2, <1>4 DEF q, access, SameKeys, Running, Current
<1>5. CASE access = "live" /\ a.key[p.index] = NULL
  <2>1. q = [p EXCEPT !.status = "null dereferenced"]  BY <1>5 DEF MatchKey
  <2> HIDE DEF q, access
  <2>2. IsParsing(q) /\ q.half = p.half /\ q.subject = p.subject /\ q.object = p.object
        /\ q.rc = OK /\ q.status # "live"
        BY <2>1, <1>2, <1>3 DEF IsParsing, Outcomes
  <2> QED  BY <2>2, <1>5 DEF q, access, SameKeys, Running, Current
<1>6. CASE access = "live" /\ a.key[p.index] \notin {NULL, t.key}
  <2>1. q = [p EXCEPT !.rc = PARSE_ERROR]  BY <1>6 DEF MatchKey
  <2> HIDE DEF q, access
  <2>2. IsParsing(q) /\ q.half = p.half /\ q.subject = p.subject /\ q.object = p.object
        /\ q.rc # OK /\ q.status = "live"
        BY <2>1, <1>2, <1>3, CodesAssumption DEF IsParsing
  <2> QED  BY <2>2, <1>6 DEF q, access, SameKeys, Running, Current
<1>7. CASE access = "live" /\ a.key[p.index] = t.key /\ t.key # NULL
  <2> DEFINE b == WithNew(a, p.index)
  <2>1. q = [p EXCEPT ![p.half].value[p.index] = "new", !.index = p.index + 1]
        BY <1>7 DEF MatchKey
  <2>2. a.keys = "live" /\ p.index \in 0 .. a.num  BY <1>2, <1>7
  <2>3. IsArray(b) /\ b.keys = a.keys /\ b.num = a.num /\ b.key = a.key
        BY <1>2, <2>2, StoredIsArray
  <2>4. CASE p.half = "subject"
    <3>1. q = [subject |-> b, object |-> p.object, half |-> p.half,
               index |-> p.index + 1, rc |-> p.rc, status |-> p.status]
          BY <2>1, <2>4 DEF IsParsing, WithNew
    <3>2. a = p.subject  BY <2>4
    <3> HIDE DEF q, b, a
    <3>3. IsParsing(q) /\ SameKeys(p.subject, q.subject) /\ q.object = p.object
          /\ Running(q) /\ q.half = p.half /\ q.index = p.index + 1 /\ q[p.half] = b
          BY <3>1, <3>2, <2>3, <2>4, <1>3 DEF IsParsing, SameKeys, Running
    <3> QED  BY <3>3, <1>7, <2>2, <2>4 DEF q, b, a, Running, SameKeys, Current
  <2>5. CASE p.half = "object"
    <3>1. q = [subject |-> p.subject, object |-> b, half |-> p.half,
               index |-> p.index + 1, rc |-> p.rc, status |-> p.status]
          BY <2>1, <2>5 DEF IsParsing, WithNew
    <3>2. a = p.object  BY <2>5
    <3> HIDE DEF q, b, a
    <3>3. IsParsing(q) /\ SameKeys(p.object, q.object) /\ q.subject = p.subject
          /\ Running(q) /\ q.half = p.half /\ q.index = p.index + 1 /\ q[p.half] = b
          BY <3>1, <3>2, <2>3, <2>5, <1>3 DEF IsParsing, SameKeys, Running
    <3> QED  BY <3>3, <1>7, <2>2, <2>5 DEF q, b, a, Running, SameKeys, Current
  <2> QED  BY <2>4, <2>5 DEF IsParsing
<1> QED  BY <1>4, <1>5, <1>6, <1>7

(* One token of a record.                                                   *)
LEMMA ParseStep ==
  ASSUME NEW p, IsParsing(p), NEW t, IsToken(t)
  PROVE  LET q == ParseToken(p, t)
             m == MatchKey(p, t)
         IN /\ IsParsing(q)
            /\ SameKeys(p.subject, q.subject) /\ SameKeys(p.object, q.object)
            /\ ~ Running(p) \/ t.kind = "word" => q = p
            /\ Running(p) /\ t.kind = "colon" =>
                 IF p.index = p.subject.num
                 THEN /\ q.half = "object" /\ q.index = 0 /\ Running(q)
                      /\ q.subject = p.subject /\ q.object = p.object
                 ELSE q.rc = PARSE_ERROR /\ q.status = "live"
            /\ Running(p) /\ t.kind = "field" =>
                 \/ q = m
                 \/ Running(m) /\ Equals(t) = 2 /\ q = MatchKey(m, t)
<1> DEFINE q == ParseToken(p, t)
           m == MatchKey(p, t)
<1>1. t.kind \in {"field", "word", "colon"}  BY TokenKinds
<1>2. CASE ~ Running(p) \/ t.kind = "word"
  <2>1. q = p  BY <1>2 DEF ParseToken, Running
  <2> HIDE DEF q
  <2> QED  BY <2>1, <1>2 DEF q, SameKeys
<1>3. CASE Running(p) /\ t.kind = "colon" /\ p.index = p.subject.num
  <2>1. q = [p EXCEPT !.half = "object", !.index = 0]  BY <1>3 DEF ParseToken, Running
  <2> HIDE DEF q
  <2>2. IsParsing(q) /\ q.subject = p.subject /\ q.object = p.object
        /\ q.half = "object" /\ q.index = 0 /\ Running(q)
        BY <2>1, <1>3 DEF IsParsing, Running
  <2> QED  BY <2>2, <1>3 DEF q, SameKeys
<1>4. CASE Running(p) /\ t.kind = "colon" /\ p.index # p.subject.num
  <2>1. q = [p EXCEPT !.rc = PARSE_ERROR]  BY <1>4 DEF ParseToken, Running
  <2> HIDE DEF q
  <2>2. IsParsing(q) /\ q.subject = p.subject /\ q.object = p.object
        /\ q.rc = PARSE_ERROR /\ q.status = "live"
        BY <2>1, <1>4 DEF IsParsing, Running
  <2> QED  BY <2>2, <1>4 DEF q, SameKeys
<1>5. CASE Running(p) /\ t.kind = "field"
  <2>1. q = IF Equals(t) = 2 /\ m.rc = OK /\ m.status = "live" THEN MatchKey(m, t) ELSE m
        BY <1>5 DEF ParseToken, Running
  <2>2. IsParsing(m) /\ SameKeys(p.subject, m.subject) /\ SameKeys(p.object, m.object)
        BY <1>5, MatchStep
  <2> HIDE DEF q, m
  <2>3. CASE Running(m) /\ Equals(t) = 2
    <3>1. q = MatchKey(m, t)  BY <2>1, <2>3 DEF Running
    <3>2. /\ IsParsing(q)
          /\ SameKeys(m.subject, q.subject) /\ SameKeys(m.object, q.object)
          BY <3>1, <2>2, <2>3, MatchStep
    <3>3. SameKeys(p.subject, q.subject) /\ SameKeys(p.object, q.object)
          BY <2>2, <3>2 DEF SameKeys
    <3> QED  BY <3>1, <3>2, <3>3, <2>3, <1>5 DEF q, m
  <2>4. CASE ~ (Running(m) /\ Equals(t) = 2)
    <3>1. q = m  BY <2>1, <2>4 DEF Running
    <3> QED  BY <3>1, <2>2, <1>5 DEF q, m
  <2> QED  BY <2>3, <2>4
<1> QED  BY <1>1, <1>2, <1>3, <1>4, <1>5

-----------------------------------------------------------------------------
(* The passes: every state of a run is of the right make.                   *)
CountingRun(run, base, tokens) ==
  run[0] = base /\ \A k \in 1 .. Len(tokens) : run[k] = CountToken(run[k-1], tokens[k])

KeyingRun(run, base, tokens) ==
  run[0] = base /\ \A k \in 1 .. Len(tokens) : run[k] = SetKey(run[k-1], tokens[k])

ParsingRun(run, base, tokens) ==
  run[0] = base /\ \A k \in 1 .. Len(tokens) : run[k] = ParseToken(run[k-1], tokens[k])

LEMMA CountingRunIs ==
  ASSUME NEW base, NEW tokens, IsTokens(tokens)
  PROVE  \E run : /\ CountingRun(run, base, tokens)
                  /\ CountAll(base, tokens) = run[Len(tokens)]
<1> DEFINE n == Len(tokens)
<1>1. n \in Nat /\ DOMAIN tokens = 1 .. n  BY DEF IsTokens
<1> HIDE DEF n
<1>2. PICK run : /\ run[0] = base
                 /\ \A k \in 1 .. n : run[k] = CountToken(run[k-1], tokens[k])
                 /\ CountAll(base, tokens) = run[n]
      BY <1>1, CountRun
<1> QED  BY <1>2 DEF CountingRun, n

LEMMA CountsAreCounts ==
  ASSUME NEW base, IsCount(base), NEW tokens, IsTokens(tokens),
         NEW run, CountingRun(run, base, tokens)
  PROVE  \A k \in 0 .. Len(tokens) : IsCount(run[k])
<1> DEFINE good == {k \in 0 .. Len(tokens) : IsCount(run[k])}
<1>1. 0 \in good /\ Len(tokens) \in Nat  BY DEF IsTokens, CountingRun
<1>2. ASSUME NEW k \in 1 .. Len(tokens), k - 1 \in good PROVE k \in good
  <2>1. IsCount(run[k-1]) /\ IsToken(tokens[k])  BY <1>2 DEF IsTokens
  <2>2. IsCount(CountToken(run[k-1], tokens[k]))  BY <2>1, CountStep
  <2>3. run[k] = CountToken(run[k-1], tokens[k])  BY DEF CountingRun
  <2> QED  BY <2>2, <2>3
<1>3. 0 .. Len(tokens) \subseteq good
  <2> HIDE DEF good
  <2> QED  BY <1>1, <1>2, NaturalNumbers!UpTo
<1> QED  BY <1>3

(* A pass that ended well went well all along.                              *)
LEMMA CountsGoWell ==
  ASSUME NEW base, IsCount(base), NEW tokens, IsTokens(tokens),
         NEW run, CountingRun(run, base, tokens), run[Len(tokens)].rc = OK
  PROVE  \A k \in 0 .. Len(tokens) : run[k].rc = OK
<1> DEFINE n == Len(tokens)
           good == {k \in 0 .. n : run[k].rc = OK => \A j \in 0 .. k : run[j].rc = OK}
<1>1. n \in Nat /\ 0 \in good  BY DEF IsTokens
<1>2. ASSUME NEW k \in 1 .. n, k - 1 \in good PROVE k \in good
  <2>1. IsCount(run[k-1]) /\ IsToken(tokens[k])
    <3>1. k - 1 \in 0 .. Len(tokens)  BY <1>1
    <3> QED  BY <3>1, CountsAreCounts DEF IsTokens
  <2>2. run[k-1].rc # OK => CountToken(run[k-1], tokens[k]) = run[k-1]  BY <2>1, CountStep
  <2>3. run[k] = CountToken(run[k-1], tokens[k])  BY DEF CountingRun
  <2>4. run[k].rc = OK => run[k-1].rc = OK  BY <2>2, <2>3
  <2>5. \A j \in 0 .. k : j = k \/ j \in 0 .. k-1  OBVIOUS
  <2> QED  BY <1>2, <2>4, <2>5
<1>3. 0 .. n \subseteq good
  <2> HIDE DEF good
  <2> QED  BY <1>1, <1>2, NaturalNumbers!UpTo
<1> QED  BY <1>1, <1>3

LEMMA KeysAreKeys ==
  ASSUME NEW base, IsKeying(base), NEW tokens, IsTokens(tokens),
         NEW run, KeyingRun(run, base, tokens)
  PROVE  \A k \in 0 .. Len(tokens) :
           /\ IsKeying(run[k])
           /\ run[k].subject.keys = base.subject.keys /\ run[k].subject.num = base.subject.num
           /\ run[k].object.keys = base.object.keys /\ run[k].object.num = base.object.num
<1> DEFINE Good(p) ==
             /\ IsKeying(p)
             /\ p.subject.keys = base.subject.keys /\ p.subject.num = base.subject.num
             /\ p.object.keys = base.object.keys /\ p.object.num = base.object.num
           good == {k \in 0 .. Len(tokens) : Good(run[k])}
<1>1. 0 \in good /\ Len(tokens) \in Nat  BY DEF IsTokens, KeyingRun
<1>2. ASSUME NEW k \in 1 .. Len(tokens), k - 1 \in good PROVE k \in good
  <2>1. Good(run[k-1]) /\ IsToken(tokens[k])  BY <1>2 DEF IsTokens
  <2>2. Good(SetKey(run[k-1], tokens[k]))  BY <2>1, KeyStep
  <2>3. run[k] = SetKey(run[k-1], tokens[k])  BY DEF KeyingRun
  <2> HIDE DEF Good
  <2> QED  BY <2>2, <2>3
<1>3. 0 .. Len(tokens) \subseteq good
  <2> HIDE DEF good
  <2> QED  BY <1>1, <1>2, NaturalNumbers!UpTo
<1> QED  BY <1>3

(* The first key is stored in the subject, or nothing goes on.              *)
LEMMA KeysNeedASubject ==
  ASSUME NEW base, IsKeying(base), base.half = "subject", base.index = 0,
         NEW tokens, IsTokens(tokens), NEW run, KeyingRun(run, base, tokens),
         run[Len(tokens)].status = "live"
  PROVE  base.subject.keys = "live"
<1> DEFINE n == Len(tokens)
           good == {k \in 0 .. n : k > 0 /\ run[k].status = "live" => base.subject.keys = "live"}
<1>1. n \in Nat /\ n # 0 /\ 0 \in good  BY DEF IsTokens
<1>2. ASSUME NEW k \in 1 .. n, k - 1 \in good PROVE k \in good
  <2>1. IsKeying(run[k-1]) /\ IsToken(tokens[k])
    <3>1. k - 1 \in 0 .. Len(tokens)  BY <1>1
    <3> QED  BY <3>1, KeysAreKeys DEF IsTokens
  <2>2. run[k] = SetKey(run[k-1], tokens[k])  BY DEF KeyingRun
  <2>3. run[k-1].status # "live" => run[k] = run[k-1]  BY <2>1, <2>2, KeyStep
  <2>4. CASE k = 1
    <3>1. run[k-1] = base /\ tokens[k].kind # "colon"
          BY <2>4 DEF KeyingRun, IsTokens
    <3>2. Current(base) = base.subject  BY DEF Current
    <3>3. run[k].status = "live" => Access(base.subject, 0) = "live"
          BY <2>1, <2>2, <2>3, <3>1, <3>2, KeyStep
    <3>4. IsArray(base.subject) /\ 0 \in Nat  BY DEF IsKeying
    <3> QED  BY <3>3, <3>4, AccessLive
  <2>5. CASE k # 1
    <3>1. k - 1 > 0  BY <2>5
    <3> QED  BY <3>1, <2>3, <1>2
  <2> QED  BY <2>4, <2>5
<1>3. 0 .. n \subseteq good
  <2> HIDE DEF good
  <2> QED  BY <1>1, <1>2, NaturalNumbers!UpTo
<1> QED  BY <1>1, <1>3

LEMMA ParsesAreParses ==
  ASSUME NEW base, IsParsing(base), NEW tokens, IsTokens(tokens),
         NEW run, ParsingRun(run, base, tokens)
  PROVE  \A k \in 0 .. Len(tokens) :
           /\ IsParsing(run[k])
           /\ SameKeys(base.subject, run[k].subject) /\ SameKeys(base.object, run[k].object)
<1> DEFINE Good(p) ==
             /\ IsParsing(p)
             /\ SameKeys(base.subject, p.subject) /\ SameKeys(base.object, p.object)
           good == {k \in 0 .. Len(tokens) : Good(run[k])}
<1>1. 0 \in good /\ Len(tokens) \in Nat  BY DEF IsTokens, ParsingRun, SameKeys
<1>2. ASSUME NEW k \in 1 .. Len(tokens), k - 1 \in good PROVE k \in good
  <2>1. Good(run[k-1]) /\ IsToken(tokens[k])  BY <1>2 DEF IsTokens
  <2>2. Good(ParseToken(run[k-1], tokens[k]))
    <3>1. LET q == ParseToken(run[k-1], tokens[k])
          IN /\ IsParsing(q)
             /\ SameKeys(run[k-1].subject, q.subject) /\ SameKeys(run[k-1].object, q.object)
          BY <2>1, ParseStep
    <3> QED  BY <2>1, <3>1 DEF SameKeys
  <2>3. run[k] = ParseToken(run[k-1], tokens[k])  BY DEF ParsingRun
  <2> HIDE DEF Good
  <2> QED  BY <2>2, <2>3
<1>3. 0 .. Len(tokens) \subseteq good
  <2> HIDE DEF good
  <2> QED  BY <1>1, <1>2, NaturalNumbers!UpTo
<1> QED  BY <1>3

-----------------------------------------------------------------------------
(* What the three passes come to, in terms of their runs.                   *)
CountBase(left) == [num |-> 0, subject |-> subject, left |-> left, rc |-> OK]

KeyBase(counted) ==
  [subject |-> counted.subject, object |-> counted.object,
   half |-> "subject", index |-> 0, status |-> "live"]

ParseBase == [subject |-> Aged(subject), object |-> Aged(object),
              half |-> "subject", index |-> 0, rc |-> OK, status |-> "live"]

LEMMA CountedRun ==
  ASSUME IsArray(subject), IsArray(object), NEW line, IsLine(line), NEW left \in Nat
  PROVE  LET tokens == Buffer(line)
             n == Len(tokens)
             c == Counted(line, left)
         IN /\ IsTokens(tokens) /\ IsCount(CountBase(left))
            /\ IsArray(c.subject) /\ IsArray(c.object)
            /\ \E run : /\ CountingRun(run, CountBase(left), tokens)
                        /\ c.rc = OK =>
                             /\ run[n].rc = OK /\ c.subject = run[n].subject
                             /\ c.object = Fresh(run[n].num)
<1> DEFINE tokens == Buffer(line)
           n == Len(tokens)
           base == CountBase(left)
           c == Counted(line, left)
<1>1. IsTokens(tokens)  BY BufferTokens
<1>2. IsCount(base)  BY DEF IsCount, CountBase
<1>3. c = LET p == CountAll(base, tokens)
          IN CASE p.rc # OK -> [subject |-> p.subject, object |-> object, rc |-> p.rc]
               [] p.rc = OK /\ p.num = 0 ->
                    [subject |-> p.subject, object |-> object, rc |-> PARSE_ERROR]
               [] OTHER -> [subject |-> p.subject,
                            object |-> Initialized(p.num, p.left),
                            rc |-> IF p.left < 2 THEN ALLOCATION_ERROR ELSE OK]
      BY DEF Counted, CountBase, CountAll
<1> HIDE DEF tokens, base, c
<1>4. PICK run : CountingRun(run, base, tokens) /\ CountAll(base, tokens) = run[n]
      BY <1>1, CountingRunIs DEF n
<1> DEFINE p == run[n]
<1>5. IsCount(p)
  <2>1. n \in 0 .. n  BY <1>1 DEF IsTokens
  <2> QED  BY <2>1, <1>1, <1>2, <1>4, CountsAreCounts
<1> HIDE DEF p
<1>6. CountAll(base, tokens) = p  BY <1>4 DEF p
<1>7. CASE p.rc # OK
  <2>1. c = [subject |-> p.subject, object |-> object, rc |-> p.rc]  BY <1>3, <1>6, <1>7
  <2>2. IsArray(c.subject) /\ IsArray(c.object) /\ c.rc # OK  BY <2>1, <1>5, <1>7 DEF IsCount
  <2> QED  BY <2>2, <1>1, <1>2, <1>4 DEF tokens, base, c
<1>8. CASE p.rc = OK /\ p.num = 0
  <2>1. c = [subject |-> p.subject, object |-> object, rc |-> PARSE_ERROR]  BY <1>3, <1>6, <1>8
  <2>2. IsArray(c.subject) /\ IsArray(c.object) /\ c.rc # OK
        BY <2>1, <1>5, CodesAssumption DEF IsCount
  <2> QED  BY <2>2, <1>1, <1>2, <1>4 DEF tokens, base, c
<1>9. CASE p.rc = OK /\ p.num # 0
  <2>1. c = [subject |-> p.subject, object |-> Initialized(p.num, p.left),
             rc |-> IF p.left < 2 THEN ALLOCATION_ERROR ELSE OK]
        BY <1>3, <1>6, <1>9
  <2>2. p.num \in Nat /\ p.left \in Nat  BY <1>5, <1>9 DEF IsCount
  <2>3. IsArray(Initialized(p.num, p.left))
        /\ (p.left >= 2 => Initialized(p.num, p.left) = Fresh(p.num))
        BY <2>2, InitializedIsArray
  <2>4. /\ IsArray(c.subject) /\ IsArray(c.object)
        /\ c.rc = OK => c.object = Fresh(p.num) /\ c.subject = p.subject
        BY <2>1, <2>2, <2>3, <1>5, CodesAssumption DEF IsCount
  <2>5. /\ CountingRun(run, base, tokens)
        /\ c.rc = OK => /\ p.rc = OK /\ c.subject = p.subject /\ c.object = Fresh(p.num)
        BY <2>4, <1>4, <1>9
  <2> QED  BY <2>4, <2>5, <1>1, <1>2 DEF tokens, base, c, p
<1> QED  BY <1>7, <1>8, <1>9

LEMMA KeyedRun ==
  ASSUME NEW line, IsLine(line), NEW counted,
         IsArray(counted.subject), IsArray(counted.object)
  PROVE  LET tokens == Buffer(line)
         IN /\ IsTokens(tokens) /\ IsKeying(KeyBase(counted))
            /\ \E run : /\ KeyingRun(run, KeyBase(counted), tokens)
                        /\ Keyed(line, counted) = run[Len(tokens)]
<1> DEFINE tokens == Buffer(line)
           n == Len(tokens)
           base == KeyBase(counted)
<1>1. IsTokens(tokens)  BY BufferTokens
<1>2. IsKeying(base)  BY DEF IsKeying, KeyBase, Outcomes
<1>3. Keyed(line, counted) = KeyAll(base, tokens)  BY DEF Keyed, KeyBase, KeyAll
<1> HIDE DEF tokens, base
<1>4. n \in Nat /\ DOMAIN tokens = 1 .. n  BY <1>1 DEF IsTokens
<1> HIDE DEF n
<1>5. PICK run : /\ run[0] = base
                 /\ \A k \in 1 .. n : run[k] = SetKey(run[k-1], tokens[k])
                 /\ KeyAll(base, tokens) = run[n]
      BY <1>4, KeyRun
<1>6. KeyingRun(run, base, tokens) /\ Keyed(line, counted) = run[Len(tokens)]
      BY <1>3, <1>5 DEF KeyingRun, n
<1> QED  BY <1>1, <1>2, <1>6 DEF tokens, base

LEMMA AgedIsArray ==
  ASSUME NEW a, IsArray(a)
  PROVE  IsArray(Aged(a)) /\ SameKeys(a, Aged(a))
<1> DEFINE values == [i \in DOMAIN a.value |-> IF a.value[i] = NULL THEN NULL ELSE "old"]
<1>1. a.keys # "live" => values = <<>> /\ a.value = <<>>
  <2>1. a.keys # "live" => a = [EmptyArray EXCEPT !.keys = a.keys]  BY DEF IsArray, ArrayOK
  <2>2. EmptyArray.value = <<>> /\ [EmptyArray EXCEPT !.keys = a.keys].value = <<>>
        BY DEF EmptyArray
  <2>3. a.keys # "live" => a.value = <<>>  BY <2>1, <2>2
  <2>4. DOMAIN <<>> = {}  OBVIOUS
  <2>5. a.value = <<>> => values = <<>>  BY <2>4
  <2> QED  BY <2>3, <2>5
<1>2. a.keys = "live" => values \in [0 .. a.num -> {NULL, "new", "old"}]
      BY DEF IsArray, ArrayOK
<1> HIDE DEF values
<1>3. Aged(a) = [keys |-> a.keys, num |-> a.num, key |-> a.key, value |-> values]
      BY DEF IsArray, Aged, values
<1>4. a.keys # "live" => Aged(a) = a  BY <1>1, <1>3 DEF IsArray
<1>5. a.keys = "live" => IsArray(Aged(a))  BY <1>2, <1>3 DEF IsArray, ArrayOK
<1> QED  BY <1>3, <1>4, <1>5 DEF SameKeys

LEMMA ParsedRun ==
  ASSUME IsArray(subject), IsArray(object), NEW line, IsLine(line)
  PROVE  LET tokens == line.tokens
             n == Len(tokens)
             q == Parsed(line)
         IN /\ IsTokens(tokens) /\ IsParsing(ParseBase)
            /\ \E run : /\ ParsingRun(run, ParseBase, tokens)
                        /\ IsParsing(q)
                        /\ q.subject = run[n].subject /\ q.object = run[n].object
                        /\ Running(q) <=> /\ Running(run[n]) /\ ~ line.endsBlank
                                          /\ run[n].index = run[n].object.num
                        /\ ~ line.endsBlank => q.status = run[n].status
<1> DEFINE tokens == line.tokens
           n == Len(tokens)
           q == Parsed(line)
           base == ParseBase
<1>1. IsTokens(tokens)  BY LineTokens
<1>2. IsParsing(base)
  <2>1. IsArray(Aged(subject)) /\ IsArray(Aged(object))  BY AgedIsArray
  <2> QED  BY <2>1 DEF IsParsing, ParseBase, Outcomes
<1>3. q = LET p == ParseAll(base, tokens)
          IN CASE p.rc # OK \/ p.status # "live" -> p
               [] p.rc = OK /\ p.status = "live" /\ line.endsBlank ->
                    [p EXCEPT !.status = "overrun"]
               [] OTHER -> [p EXCEPT !.rc = IF p.index = p.object.num THEN OK ELSE PARSE_ERROR]
      BY DEF Parsed, ParseBase, ParseAll
<1> HIDE DEF tokens, q, base
<1>4. n \in Nat /\ DOMAIN tokens = 1 .. n  BY <1>1 DEF IsTokens
<1> HIDE DEF n
<1>5. PICK run : /\ run[0] = base
                 /\ \A k \in 1 .. n : run[k] = ParseToken(run[k-1], tokens[k])
                 /\ ParseAll(base, tokens) = run[n]
      BY <1>4, ParseRun
<1>6. ParsingRun(run, base, tokens)  BY <1>5 DEF ParsingRun, n
<1> DEFINE p == run[n]
<1>7. IsParsing(p)
  <2>1. n \in 0 .. Len(tokens)  BY <1>4 DEF n
  <2> QED  BY <2>1, <1>1, <1>2, <1>6, ParsesAreParses
<1> HIDE DEF p
<1>8. ParseAll(base, tokens) = p  BY <1>5 DEF p
<1>9. /\ IsParsing(q)
      /\ q.subject = p.subject /\ q.object = p.object
      /\ Running(q) <=> Running(p) /\ ~ line.endsBlank /\ p.index = p.object.num
      /\ ~ line.endsBlank => q.status = p.status
  <2>1. CASE p.rc # OK \/ p.status # "live"
    <3>1. q = p  BY <1>3, <1>8, <2>1
    <3> QED  BY <3>1, <2>1, <1>7 DEF Running
  <2>2. CASE p.rc = OK /\ p.status = "live" /\ line.endsBlank
    <3>1. q = [p EXCEPT !.status = "overrun"]  BY <1>3, <1>8, <2>2
    <3> QED  BY <3>1, <2>2, <1>7 DEF Running, IsParsing, Outcomes
  <2>3. CASE p.rc = OK /\ p.status = "live" /\ ~ line.endsBlank
    <3>1. q = [p EXCEPT !.rc = IF p.index = p.object.num THEN OK ELSE PARSE_ERROR]
          BY <1>3, <1>8, <2>3
    <3> QED  BY <3>1, <2>3, <1>7, CodesAssumption DEF Running, IsParsing
  <2> QED  BY <2>1, <2>2, <2>3
<1> QED  BY <1>1, <1>2, <1>6, <1>9 DEF tokens, n, q, p, base

-----------------------------------------------------------------------------
(* The arrays are well made, and after an imbue that succeeded neither is   *)
(* left pointing to freed memory.                                           *)
Safe ==
  /\ IsArray(subject) /\ IsArray(object)
  /\ exemplar \in Lines \union {NULL} /\ imbued \in BOOLEAN
  /\ status \in Outcomes \union {"destroyed", "freed twice"}
  /\ imbued => exemplar \in Lines /\ status # "freed twice"
  /\ imbued /\ status = "live" => subject.keys = "live" /\ object.keys = "live"

LEMMA AllowancesInNat ==
  ASSUME NEW line, IsLine(line)
  PROVE  Allowances(line) \subseteq Nat
<1> DEFINE colons == {i \in DOMAIN Buffer(line) : HasColon(Buffer(line)[i])}
<1>1. IsFiniteSet(colons)
  <2> DEFINE n == Len(Buffer(line))
  <2>1. n \in Nat /\ colons \subseteq 1 .. n  BY BufferTokens DEF IsTokens
  <2> HIDE DEF colons, n
  <2>2. 1 \in Int /\ n \in Int  BY <2>1
  <2>3. IsFiniteSet(1 .. n)  BY <2>2, FS_Interval
  <2> QED  BY <2>1, <2>3, FS_Subset
<1>2. Cardinality(colons) \in Nat
  <2> HIDE DEF colons
  <2> QED  BY <1>1, FS_CardinalityType
<1>3. Allocations(line) = 2 * (1 + Cardinality(colons))  BY DEF Allocations
<1> HIDE DEF colons
<1>4. Allocations(line) \in Nat  BY <1>2, <1>3
<1> QED  BY <1>4 DEF Allowances

(* What an imbue_parser that got its buffer leaves, in terms of its runs.   *)
LEMMA ImbueResult ==
  ASSUME IsArray(subject), IsArray(object), NEW line \in Lines, Imbue(line)
  PROVE  \/ /\ IsArray(subject') /\ IsArray(object') /\ imbued' = FALSE
            /\ UNCHANGED <<exemplar, status>>
            /\ reply'.op = "imbue" /\ reply'.line = line
         \/ \E left \in Nat :
              LET c == Counted(line, left)
                  k == Keyed(line, c)
              IN /\ c.rc = OK /\ IsArray(c.subject) /\ IsArray(c.object) /\ IsKeying(k)
                 /\ subject' = k.subject /\ object' = k.object /\ status' = k.status
                 /\ k.subject.keys = c.subject.keys /\ k.subject.num = c.subject.num
                 /\ k.object.keys = "live" /\ k.object.num = c.object.num
                 /\ status' = "live" => k.subject.keys = "live"
                 /\ imbued' = TRUE /\ exemplar' = line
                 /\ reply'.op = "imbue" /\ reply'.line = line
<1>1. IsLine(line)  BY LinesAssumption
<1>2. PICK left \in Allowances(line) :
        LET c == Counted(line, left)
            k == Keyed(line, c)
        IN IF c.rc # OK
           THEN /\ subject' = c.subject /\ object' = c.object /\ imbued' = FALSE
                /\ reply' = Reply("imbue", line, c.rc)
                /\ UNCHANGED <<exemplar, status>>
           ELSE /\ subject' = k.subject /\ object' = k.object /\ status' = k.status
                /\ imbued' = TRUE /\ exemplar' = line
                /\ reply' = Reply("imbue", line, IF k.status = "live" THEN OK ELSE NULL)
      BY DEF Imbue
<1>3. left \in Nat  BY <1>1, AllowancesInNat
<1> DEFINE c == Counted(line, left)
           k == Keyed(line, c)
<1>4. IsArray(c.subject) /\ IsArray(c.object)  BY <1>1, <1>3, CountedRun
<1>5. CASE c.rc # OK  BY <1>2, <1>4, <1>5 DEF Reply
<1>6. CASE c.rc = OK
  <2> DEFINE tokens == Buffer(line)
             n == Len(tokens)
  <2>1. IsTokens(tokens) /\ IsKeying(KeyBase(c))  BY <1>1, <1>4, KeyedRun
  <2>2. c.object.keys = "live"
    <3>1. PICK num : c.object = Fresh(num)  BY <1>1, <1>3, <1>6, CountedRun
    <3> QED  BY <3>1 DEF Fresh
  <2> HIDE DEF c
  <2>3. PICK run : KeyingRun(run, KeyBase(c), tokens) /\ k = run[n]
        BY <1>1, <1>4, KeyedRun
  <2> HIDE DEF k, tokens
  <2>4. /\ KeyBase(c).subject = c.subject /\ KeyBase(c).object = c.object
        /\ KeyBase(c).half = "subject" /\ KeyBase(c).index = 0
        BY DEF KeyBase
  <2>5. n \in 0 .. n  BY <2>1 DEF IsTokens
  <2> HIDE DEF n
  <2>6. /\ IsKeying(k)
        /\ k.subject.keys = c.subject.keys /\ k.subject.num = c.subject.num
        /\ k.object.keys = c.object.keys /\ k.object.num = c.object.num
        BY <2>1, <2>3, <2>4, <2>5, KeysAreKeys DEF n
  <2>7. k.status = "live" => c.subject.keys = "live"
        BY <2>1, <2>3, <2>4, KeysNeedASubject DEF n
  <2>8. /\ subject' = k.subject /\ object' = k.object /\ status' = k.status
        /\ imbued' = TRUE /\ exemplar' = line
        /\ reply' = Reply("imbue", line, IF k.status = "live" THEN OK ELSE NULL)
        BY <1>2, <1>6 DEF c, k
  <2>9. reply'.op = "imbue" /\ reply'.line = line  BY <2>8 DEF Reply
  <2>10. /\ c.rc = OK /\ IsArray(c.subject) /\ IsArray(c.object) /\ IsKeying(k)
         /\ subject' = k.subject /\ object' = k.object /\ status' = k.status
         /\ k.subject.keys = c.subject.keys /\ k.subject.num = c.subject.num
         /\ k.object.keys = "live" /\ k.object.num = c.object.num
         /\ status' = "live" => k.subject.keys = "live"
         /\ imbued' = TRUE /\ exemplar' = line
         /\ reply'.op = "imbue" /\ reply'.line = line
        BY <1>4, <1>6, <2>2, <2>6, <2>7, <2>8, <2>9
  <2> QED  BY <1>3, <2>10 DEF k, c
<1> QED  BY <1>5, <1>6

(* What a parse leaves: the same keys, and values of its own.               *)
LEMMA ParseResult ==
  ASSUME IsArray(subject), IsArray(object), NEW line \in Lines, Parse(line)
  PROVE  LET q == Parsed(line)
         IN /\ IsParsing(q) /\ SameKeys(subject, subject') /\ SameKeys(object, object')
            /\ subject' = q.subject /\ object' = q.object /\ status' = q.status
            /\ UNCHANGED <<exemplar, imbued>>
            /\ reply' = Reply("parse", line, IF q.status = "live" THEN q.rc ELSE NULL)
<1> DEFINE tokens == line.tokens
           n == Len(tokens)
           q == Parsed(line)
           base == ParseBase
<1>1. IsLine(line)  BY LinesAssumption
<1>2. IsTokens(tokens) /\ IsParsing(base)  BY <1>1, ParsedRun
<1>3. base.subject = Aged(subject) /\ base.object = Aged(object)  BY DEF ParseBase
<1>4. PICK run : /\ ParsingRun(run, base, tokens) /\ IsParsing(q)
                 /\ q.subject = run[n].subject /\ q.object = run[n].object
      BY <1>1, ParsedRun
<1> HIDE DEF tokens, base
<1>5. n \in 0 .. n  BY <1>2 DEF IsTokens
<1>6. SameKeys(base.subject, run[n].subject) /\ SameKeys(base.object, run[n].object)
      BY <1>2, <1>4, <1>5, ParsesAreParses
<1>7. SameKeys(subject, Aged(subject)) /\ SameKeys(object, Aged(object))  BY AgedIsArray
<1> HIDE DEF q
<1>8. SameKeys(subject, q.subject) /\ SameKeys(object, q.object)
      BY <1>3, <1>4, <1>6, <1>7 DEF SameKeys
<1>9. /\ subject' = q.subject /\ object' = q.object /\ status' = q.status
      /\ reply' = Reply("parse", line, IF q.status = "live" THEN q.rc ELSE NULL)
      /\ UNCHANGED <<exemplar, imbued>>
      BY DEF Parse, q
<1> QED  BY <1>4, <1>8, <1>9 DEF q

LEMMA SafeInit ==
  ASSUME Init
  PROVE  Safe
<1>1. IsArray(EmptyArray)  BY EmptyIsArray
<1>2. "live" \in Outcomes  BY DEF Outcomes
<1> QED  BY <1>1, <1>2 DEF Init, Safe

LEMMA SafeStep ==
  ASSUME Safe, [Next]_vars
  PROVE  Safe'
<1>1. IsArray(subject) /\ IsArray(object)  BY DEF Safe
<1>2. ASSUME NEW line \in Lines, ImbueRefused(line) PROVE Safe'
      BY <1>2 DEF ImbueRefused, Safe
<1>3. ASSUME NEW line \in Lines, Imbue(line) PROVE Safe'
  <2>1. CASE /\ IsArray(subject') /\ IsArray(object') /\ imbued' = FALSE
             /\ UNCHANGED <<exemplar, status>>
        BY <2>1 DEF Safe
  <2>2. ASSUME NEW k, IsKeying(k), subject' = k.subject, object' = k.object,
               status' = k.status, k.object.keys = "live",
               status' = "live" => k.subject.keys = "live",
               imbued' = TRUE, exemplar' = line
        PROVE  Safe'
    <3>1. IsArray(subject') /\ IsArray(object') /\ status' \in Outcomes
          BY <2>2 DEF IsKeying
    <3>2. status' # "freed twice"  BY <3>1 DEF Outcomes
    <3> QED  BY <2>2, <3>1, <3>2 DEF Safe
  <2> QED  BY <1>1, <1>3, <2>1, <2>2, ImbueResult
<1>4. ASSUME NEW line \in Lines, Parse(line) PROVE Safe'
  <2> DEFINE q == Parsed(line)
  <2>1. /\ IsParsing(q) /\ SameKeys(subject, subject') /\ SameKeys(object, object')
        /\ subject' = q.subject /\ object' = q.object /\ status' = q.status
        /\ UNCHANGED <<exemplar, imbued>>
        BY <1>1, <1>4, ParseResult
  <2> HIDE DEF q
  <2>2. IsArray(subject') /\ IsArray(object') /\ status' \in Outcomes
        BY <2>1 DEF IsParsing
  <2>3. status' # "freed twice"  BY <2>2 DEF Outcomes
  <2>4. subject.keys = subject'.keys /\ object.keys = object'.keys
        BY <2>1 DEF SameKeys
  <2>5. status = "live"  BY <1>4 DEF Parse
  <2> QED  BY <2>1, <2>2, <2>3, <2>4, <2>5 DEF Safe
<1>5. ASSUME NEW array, NEW number, GetField(array, number) PROVE Safe'
      BY <1>5 DEF GetField, Safe
<1>6. CASE Destroy
  <2>1. /\ status = "live"
        /\ status' = IF "freed" \in {subject.keys, object.keys}
                     THEN "freed twice" ELSE "destroyed"
        /\ UNCHANGED <<subject, object, exemplar, imbued>>
        BY <1>6 DEF Destroy
  <2>2. imbued => status' # "freed twice"  BY <2>1 DEF Safe
  <2>3. status' \in {"freed twice", "destroyed"} /\ status' # "live"  BY <2>1
  <2> QED  BY <2>1, <2>2, <2>3 DEF Safe
<1>7. CASE UNCHANGED vars  BY <1>7 DEF vars, Safe
<1> QED  BY <1>2, <1>3, <1>4, <1>5, <1>6, <1>7 DEF Next, Calls

(* The two arrays keep their shape, and the parser ends only in the ways    *)
(* listed, whatever lines it is given and whichever allocations fail.       *)
THEOREM TypeCorrect == Spec => []TypeOK
<1>1. Safe => TypeOK
  <2>1. Outcomes \union {"destroyed", "freed twice"} =
          {"live", "destroyed", "null dereferenced", "freed memory used",
           "overrun", "freed twice"}
        BY DEF Outcomes
  <2> QED  BY <2>1 DEF Safe, TypeOK, IsArray
<1> QED  BY <1>1, SafeInit, SafeStep, PTL DEF Spec

(* A context that was taught successfully is never freed twice, whichever   *)
(* allocations of field_array_initialize failed before.                     *)
THEOREM SafeToDestroy == Spec => []DestroyableOnceImbued
<1>1. Safe => DestroyableOnceImbued  BY DEF Safe, DestroyableOnceImbued
<1> QED  BY <1>1, SafeInit, SafeStep, PTL DEF Spec

-----------------------------------------------------------------------------
(* As long as a record is not refused, every value up to where the parser   *)
(* is belongs to it, and it leaves the subject only with all its values.    *)
Filled(a, m) == \A i \in 0 .. m - 1 : a.value[i] = "new"

Values(p) ==
  /\ Filled(Current(p), p.index)
  /\ p.half = "object" => Filled(p.subject, p.subject.num)

LEMMA MatchFills ==
  ASSUME NEW p, IsParsing(p), Running(p), Values(p), NEW t, Running(MatchKey(p, t))
  PROVE  Values(MatchKey(p, t))
<1> DEFINE q == MatchKey(p, t)
           a == Current(p)
           b == Current(q)
<1>1. /\ IsParsing(q) /\ q.half = p.half
      /\ a.keys = "live" /\ p.index \in 0 .. a.num /\ q.index = p.index + 1
      /\ b = WithNew(a, p.index)
      /\ p.half = "object" => q.subject = p.subject
      BY MatchStep
<1>2. IsArray(a) /\ a.num \in Nat  BY HalfIsArray DEF IsParsing
<1> HIDE DEF q, a, b
<1>3. b.value[p.index] = "new" /\ \A j \in 0 .. a.num : j # p.index => b.value[j] = a.value[j]
      BY <1>1, <1>2, StoredIsArray
<1>4. Filled(a, p.index)  BY DEF Values, a
<1>5. ASSUME NEW i \in 0 .. q.index - 1 PROVE b.value[i] = "new"
  <2>1. CASE i = p.index  BY <2>1, <1>3
  <2>2. CASE i # p.index
    <3>1. i \in 0 .. p.index - 1 /\ i \in 0 .. a.num  BY <1>1, <1>2, <2>2
    <3> QED  BY <3>1, <2>2, <1>3, <1>4 DEF Filled
  <2> QED  BY <2>1, <2>2
<1>6. Filled(b, q.index)  BY <1>5 DEF Filled
<1>7. q.half = "object" => Filled(q.subject, q.subject.num)  BY <1>1 DEF Values
<1> QED  BY <1>6, <1>7 DEF Values, q, b

(* What holds at token k of a record that was not refused so far.           *)
Keeping(p, tokens, k) ==
  Running(p) => /\ Values(p)
                /\ (\E c \in 1 .. k : tokens[c].kind = "colon") => p.half = "object"

LEMMA ParseKeeps ==
  ASSUME NEW base, IsParsing(base), base.half = "subject", base.index = 0,
         NEW tokens, IsTokens(tokens), NEW run, ParsingRun(run, base, tokens)
  PROVE  \A k \in 0 .. Len(tokens) : Keeping(run[k], tokens, k)
<1> DEFINE n == Len(tokens)
           good == {k \in 0 .. n : Keeping(run[k], tokens, k)}
<1>1. n \in Nat  BY DEF IsTokens
<1>2. 0 \in good
  <2>1. Filled(Current(base), 0)  BY DEF Filled
  <2>2. Keeping(base, tokens, 0)  BY <2>1 DEF Keeping, Values
  <2>3. run[0] = base  BY DEF ParsingRun
  <2> QED  BY <1>1, <2>2, <2>3
<1>3. ASSUME NEW k \in 1 .. n, k - 1 \in good PROVE k \in good
  <2> DEFINE p == run[k-1]
             q == run[k]
             t == tokens[k]
  <2>1. IsParsing(p) /\ IsToken(t) /\ Keeping(p, tokens, k - 1)
    <3>1. k - 1 \in 0 .. Len(tokens)  BY <1>1
    <3> QED  BY <3>1, <1>3, ParsesAreParses DEF IsTokens
  <2>2. q = ParseToken(p, t)  BY DEF ParsingRun
  <2>3. t.kind # "colon" =>
          ((\E c \in 1 .. k : tokens[c].kind = "colon") =>
             (\E c \in 1 .. k - 1 : tokens[c].kind = "colon"))
    <3>1. \A c \in 1 .. k : c = k \/ c \in 1 .. k - 1  OBVIOUS
    <3> QED  BY <3>1
  <2> HIDE DEF p, q, t
  <2>4. CASE ~ Running(p) \/ t.kind = "word"
    <3>1. q = p  BY <2>1, <2>2, <2>4, ParseStep
    <3> QED  BY <3>1, <2>1, <2>3, <2>4 DEF Keeping, q
  <2>5. CASE Running(p) /\ t.kind = "colon"
    <3>1. CASE p.index = p.subject.num
      <4>1. q.half = "object" /\ q.index = 0 /\ q.subject = p.subject
            BY <2>1, <2>2, <2>5, <3>1, ParseStep
      <4>2. Filled(Current(q), 0)  BY DEF Filled
      <4>3. Filled(p.subject, p.subject.num)
        <5>1. CASE p.half = "subject"
          <6>1. Current(p) = p.subject  BY <5>1 DEF Current
          <6> QED  BY <6>1, <3>1, <2>1, <2>5 DEF Keeping, Values
        <5>2. CASE p.half = "object"  BY <5>2, <2>1, <2>5 DEF Keeping, Values
        <5> QED  BY <5>1, <5>2, <2>1 DEF IsParsing
      <4>4. Keeping(q, tokens, k)  BY <4>1, <4>2, <4>3 DEF Keeping, Values
      <4> QED  BY <4>4 DEF q
    <3>2. CASE p.index # p.subject.num
      <4>1. ~ Running(q)
        <5>1. q.rc = PARSE_ERROR  BY <2>1, <2>2, <2>5, <3>2, ParseStep
        <5> QED  BY <5>1, CodesAssumption DEF Running
      <4> QED  BY <4>1 DEF Keeping, q
    <3> QED  BY <3>1, <3>2
  <2>6. CASE Running(p) /\ t.kind = "field"
    <3> DEFINE m == MatchKey(p, t)
    <3>1. Values(p)  BY <2>1, <2>6 DEF Keeping
    <3>2. IsParsing(m) /\ m.half = p.half  BY <2>1, <2>6, MatchStep
    <3>3. Running(m) => Values(m)  BY <2>1, <2>6, <3>1, MatchFills
    <3>4. q = m \/ (Running(m) /\ q = MatchKey(m, t))  BY <2>1, <2>2, <2>6, ParseStep
    <3> HIDE DEF m
    <3>5. Running(q) => Values(q)  BY <3>2, <3>3, <3>4, MatchFills
    <3>6. q.half = p.half  BY <3>2, <3>4, MatchStep
    <3>7. Keeping(q, tokens, k)  BY <2>1, <2>3, <2>6, <3>5, <3>6 DEF Keeping
    <3> QED  BY <3>7 DEF q
  <2> QED  BY <2>1, <2>4, <2>5, <2>6, TokenKinds
<1>4. 0 .. n \subseteq good
  <2> HIDE DEF good
  <2> QED  BY <1>1, <1>2, <1>3, NaturalNumbers!UpTo
<1> QED  BY <1>4

(* A record with a colon that is accepted leaves values of its own only.    *)
LEMMA ParsedFresh ==
  ASSUME IsArray(subject), IsArray(object), NEW line, IsLine(line),
         Running(Parsed(line)), NEW c \in DOMAIN line.tokens, line.tokens[c].kind = "colon"
  PROVE  LET q == Parsed(line)
         IN Filled(q.subject, q.subject.num) /\ Filled(q.object, q.object.num)
<1> DEFINE tokens == line.tokens
           n == Len(tokens)
           q == Parsed(line)
           base == ParseBase
<1>1. IsTokens(tokens) /\ IsParsing(base)  BY ParsedRun
<1>2. base.half = "subject" /\ base.index = 0  BY DEF ParseBase
<1>3. PICK run : /\ ParsingRun(run, base, tokens)
                 /\ q.subject = run[n].subject /\ q.object = run[n].object
                 /\ Running(run[n]) /\ run[n].index = run[n].object.num
      BY ParsedRun
<1>4. c \in 1 .. n /\ n \in 0 .. n  BY <1>1 DEF IsTokens
<1>5. tokens[c].kind = "colon"  OBVIOUS
<1> HIDE DEF tokens, base, q, n
<1>6. Keeping(run[n], tokens, n)  BY <1>1, <1>2, <1>3, <1>4, ParseKeeps DEF n
<1>7. Values(run[n]) /\ run[n].half = "object"  BY <1>3, <1>4, <1>5, <1>6 DEF Keeping
<1>8. Current(run[n]) = run[n].object  BY <1>7 DEF Current
<1> QED  BY <1>3, <1>7, <1>8 DEF Values, q

LEMMA FreshStep ==
  ASSUME Safe, RecordFresh, [Next]_vars
  PROVE  RecordFresh'
<1>1. IsArray(subject) /\ IsArray(object)  BY DEF Safe
<1>2. ASSUME NEW line \in Lines, ImbueRefused(line) PROVE RecordFresh'
  <2>1. reply'.op = "imbue"  BY <1>2 DEF ImbueRefused, Reply
  <2> QED  BY <2>1 DEF RecordFresh
<1>3. ASSUME NEW line \in Lines, Imbue(line) PROVE RecordFresh'
  <2>1. reply'.op = "imbue"  BY <1>1, <1>3, ImbueResult
  <2> QED  BY <2>1 DEF RecordFresh
<1>4. ASSUME NEW line \in Lines, Parse(line) PROVE RecordFresh'
  <2> DEFINE q == Parsed(line)
  <2>1. /\ subject' = q.subject /\ object' = q.object
        /\ reply' = Reply("parse", line, IF q.status = "live" THEN q.rc ELSE NULL)
        BY <1>1, <1>4, ParseResult
  <2>2. reply'.line = line /\ reply'.rc = IF q.status = "live" THEN q.rc ELSE NULL
        BY <2>1 DEF Reply
  <2>3. reply'.rc = OK => Running(q)  BY <2>2, CodesAssumption DEF Running
  <2>4. ASSUME reply'.rc = OK, NEW c \in DOMAIN line.tokens, line.tokens[c].kind = "colon"
        PROVE  AllNew(subject') /\ AllNew(object')
    <3>1. IsLine(line)  BY LinesAssumption
    <3>2. Filled(q.subject, q.subject.num) /\ Filled(q.object, q.object.num)
          BY <1>1, <2>3, <2>4, <3>1, ParsedFresh
    <3> QED  BY <2>1, <3>2 DEF Filled, AllNew
  <2> HIDE DEF q
  <2> QED  BY <2>2, <2>4 DEF RecordFresh
<1>5. ASSUME NEW array, NEW number, GetField(array, number) PROVE RecordFresh'
  <2>1. reply'.op = "get"  BY <1>5 DEF GetField, Reply
  <2> QED  BY <2>1 DEF RecordFresh
<1>6. CASE UNCHANGED <<subject, object, reply>>  BY <1>6 DEF RecordFresh, AllNew
<1> QED  BY <1>2, <1>3, <1>4, <1>5, <1>6 DEF Next, Calls, Destroy, vars

(* After parse accepts a record with both halves every value of both arrays *)
(* points into that record, whatever was parsed, refused or taught before.  *)
THEOREM ValuesOfTheRecord == Spec => []RecordFresh
<1>1. Init => RecordFresh
  <2>1. Init => reply.op = "construct"  BY DEF Init, Reply
  <2> QED  BY <2>1 DEF RecordFresh
<1> QED  BY <1>1, SafeInit, SafeStep, FreshStep, PTL DEF Spec

-----------------------------------------------------------------------------
(* A line with one colon, and none in a value: the count goes up in the     *)
(* subject, starts anew at the colon, and goes up in the object.            *)
Divided(tokens, c) ==
  /\ IsTokens(tokens) /\ c \in 1 .. Len(tokens)
  /\ \A i \in 1 .. Len(tokens) : tokens[i].kind = "colon" <=> i = c
  /\ \A i \in 1 .. Len(tokens) : tokens[i].extra # ":"

LEMMA CountsOfHalves ==
  ASSUME NEW base, IsCount(base), NEW tokens, NEW c, Divided(tokens, c),
         NEW run, CountingRun(run, base, tokens), run[Len(tokens)].rc = OK
  PROVE  /\ \A k \in 0 .. Len(tokens) : run[k].num \in Nat
         /\ \A k \in 1 .. Len(tokens) :
              k # c => run[k].num = run[k-1].num + Equals(tokens[k])
         /\ run[c].num = 0
         /\ run[Len(tokens)].subject = Fresh(run[c-1].num)
         /\ \A j, k \in 0 .. Len(tokens) :
              j <= k /\ (k < c \/ c <= j) => run[j].num <= run[k].num
<1> DEFINE n == Len(tokens)
<1>1. n \in Nat /\ c \in 1 .. n /\ IsTokens(tokens)  BY DEF Divided, IsTokens
<1>2. \A k \in 0 .. n : IsCount(run[k]) /\ run[k].rc = OK
      BY <1>1, CountsAreCounts, CountsGoWell
<1>3. \A k \in 0 .. n : run[k].num \in Nat  BY <1>2 DEF IsCount
<1>4. ASSUME NEW k \in 1 .. n, k # c
      PROVE  run[k].num = run[k-1].num + Equals(tokens[k]) /\ run[k].subject = run[k-1].subject
  <2>1. k - 1 \in 0 .. n /\ k \in 0 .. n  BY <1>1
  <2>2. IsToken(tokens[k])  BY DEF Divided, IsTokens
  <2>3. tokens[k].kind # "colon" /\ tokens[k].extra # ":"  BY <1>4 DEF Divided
  <2>4. ~ HasColon(tokens[k])  BY <2>2, <2>3, EqualsInNat
  <2>5. run[k] = CountToken(run[k-1], tokens[k])  BY DEF CountingRun
  <2>6. IsCount(run[k-1]) /\ run[k-1].rc = OK  BY <1>2, <2>1
  <2> QED  BY <2>2, <2>4, <2>5, <2>6, CountStep
<1>5. run[c].num = 0 /\ run[c].subject = Fresh(run[c-1].num)
  <2>1. c - 1 \in 0 .. n /\ c \in 0 .. n  BY <1>1
  <2>2. IsToken(tokens[c]) /\ tokens[c].kind = "colon"  BY <1>1 DEF Divided, IsTokens
  <2>3. HasColon(tokens[c]) /\ Equals(tokens[c]) = 0  BY <2>2, EqualsInNat DEF HasColon
  <2>4. run[c] = CountToken(run[c-1], tokens[c])  BY <1>1 DEF CountingRun
  <2>5. IsCount(run[c-1]) /\ run[c-1].rc = OK /\ run[c].rc = OK  BY <1>2, <2>1
  <2>6. run[c].num = 0 /\ run[c].subject = Fresh(run[c-1].num + Equals(tokens[c]))
        BY <2>2, <2>3, <2>4, <2>5, CountStep
  <2>7. run[c-1].num + 0 = run[c-1].num  BY <1>3, <2>1
  <2> QED  BY <2>3, <2>6, <2>7
<1>6. run[n].subject = Fresh(run[c-1].num)
  <2> DEFINE good == {k \in 0 .. n : c <= k => run[k].subject = Fresh(run[c-1].num)}
  <2>1. 0 \in good  BY <1>1
  <2>2. ASSUME NEW k \in 1 .. n, k - 1 \in good PROVE k \in good
    <3>1. CASE k = c  BY <1>1, <1>5, <3>1
    <3>2. CASE k # c
      <4>1. c <= k => c <= k - 1  BY <1>1, <3>2
      <4> QED  BY <4>1, <1>4, <2>2, <3>2
    <3> QED  BY <3>1, <3>2
  <2>3. 0 .. n \subseteq good
    <3> HIDE DEF good, n
    <3> QED  BY <1>1, <2>1, <2>2, NaturalNumbers!UpTo
  <2> QED  BY <1>1, <2>3
<1>7. \A j, k \in 0 .. n : j <= k /\ (k < c \/ c <= j) => run[j].num <= run[k].num
  <2> DEFINE good == {k \in 0 .. n : \A j \in 0 .. n :
                        j <= k /\ (k < c \/ c <= j) => run[j].num <= run[k].num}
  <2>1. 0 \in good
    <3>1. \A j \in 0 .. n : j <= 0 => j = 0  OBVIOUS
    <3>2. run[0].num <= run[0].num  BY <1>1, <1>3
    <3> QED  BY <1>1, <3>1, <3>2
  <2>2. ASSUME NEW k \in 1 .. n, k - 1 \in good PROVE k \in good
    <3>1. ASSUME NEW j \in 0 .. n, j <= k, k < c \/ c <= j PROVE run[j].num <= run[k].num
      <4>1. k \in 0 .. n /\ k - 1 \in 0 .. n  BY <1>1
      <4>2. CASE j = k  BY <4>1, <4>2, <1>3
      <4>3. CASE j # k
        <5>1. j <= k - 1 /\ (k - 1 < c \/ c <= j) /\ k # c  BY <1>1, <3>1, <4>3
        <5>2. run[j].num <= run[k-1].num  BY <2>2, <5>1
        <5>3. run[k].num = run[k-1].num + Equals(tokens[k])  BY <1>4, <5>1
        <5>4. Equals(tokens[k]) \in 0 .. 2
          <6>1. IsToken(tokens[k])  BY DEF Divided, IsTokens
          <6> QED  BY <6>1, EqualsInNat
        <5>5. run[j].num \in Nat /\ run[k-1].num \in Nat  BY <1>3, <4>1
        <5> HIDE DEF n
        <5> QED  BY <5>2, <5>3, <5>4, <5>5
      <4> QED  BY <4>2, <4>3
    <3>2. k \in 0 .. n  BY <1>1
    <3> HIDE DEF n
    <3> QED  BY <3>1, <3>2
  <2>3. 0 .. n \subseteq good
    <3> HIDE DEF good, n
    <3> QED  BY <1>1, <2>1, <2>2, NaturalNumbers!UpTo
  <2> QED  BY <2>3
<1> QED  BY <1>3, <1>4, <1>5, <1>6, <1>7

(* Where the second pass is on such a line.                                 *)
HalfAt(c, k) == IF k < c THEN "subject" ELSE "object"

Halved(p, c, k) == p.status = "live" /\ p.half = HalfAt(c, k)

(* One token of the second pass where there is room for its key.            *)
LEMMA KeyFits ==
  ASSUME NEW tokens, NEW c, Divided(tokens, c), NEW k \in 1 .. Len(tokens),
         NEW p, IsKeying(p), Halved(p, c, k - 1),
         k # c => Current(p).keys = "live" /\ p.index <= Current(p).num
  PROVE  LET q == SetKey(p, tokens[k])
         IN /\ Halved(q, c, k)
            /\ k = c => q.index = 0 /\ q.subject = p.subject /\ q.object = p.object
            /\ k # c => /\ q.index = p.index + 1
                        /\ Current(q) = WithKey(Current(p), p.index, tokens[k].key)
                        /\ k < c => q.object = p.object
                        /\ k > c => q.subject = p.subject
<1> DEFINE q == SetKey(p, tokens[k])
<1>1. IsToken(tokens[k]) /\ (tokens[k].kind = "colon" <=> k = c) /\ c \in Int
      BY DEF Divided, IsTokens
<1>2. p.status = "live" /\ p.half = HalfAt(c, k - 1)  BY DEF Halved
<1>3. CASE k = c
  <2>1. /\ q.half = "object" /\ q.index = 0 /\ q.status = "live"
        /\ q.subject = p.subject /\ q.object = p.object
        BY <1>1, <1>2, <1>3, KeyStep
  <2>2. HalfAt(c, k) = "object"  BY <1>1, <1>3 DEF HalfAt
  <2> QED  BY <2>1, <2>2, <1>3 DEF Halved
<1>4. CASE k # c
  <2>1. Access(Current(p), p.index) = "live"
    <3>1. IsArray(Current(p)) /\ p.index \in Nat  BY HalfIsArray DEF IsKeying
    <3> QED  BY <3>1, <1>4, AccessLive
  <2>2. /\ q.status = "live" /\ q.half = p.half /\ q.index = p.index + 1
        /\ Current(q) = WithKey(Current(p), p.index, tokens[k].key)
        /\ p.half = "subject" => q.object = p.object
        /\ p.half = "object" => q.subject = p.subject
        BY <1>1, <1>2, <1>4, <2>1, KeyStep
  <2>3. HalfAt(c, k) = HalfAt(c, k - 1)
        /\ (k < c => p.half = "subject") /\ (k > c => p.half = "object")
        BY <1>1, <1>2, <1>4 DEF HalfAt
  <2> QED  BY <1>2, <1>4, <2>2, <2>3 DEF Halved
<1> QED  BY <1>3, <1>4

(* No more keys in a half than fields counted, but for one bare word.       *)
OneWordAHalf(tokens) ==
  \A i, j \in 1 .. Len(tokens) :
    i < j /\ tokens[i].kind = "word" /\ tokens[j].kind = "word" =>
      \E m \in i .. j : tokens[m].kind = "colon"

Wordless(tokens, c, k) ==
  \A i \in 1 .. k : k < c \/ c <= i => tokens[i].kind # "word"

Spared(p, num, tokens, c, k) ==
  /\ Halved(p, c, k)
  /\ p.index <= num + 1
  /\ Wordless(tokens, c, k) => p.index <= num

LEMMA OneWordFits ==
  ASSUME NEW base, IsCount(base), NEW tokens, NEW c, Divided(tokens, c),
         NEW count, CountingRun(count, base, tokens), count[Len(tokens)].rc = OK,
         NEW counted, counted.subject = count[Len(tokens)].subject,
         counted.object = Fresh(count[Len(tokens)].num),
         IsArray(counted.subject), IsArray(counted.object),
         NEW run, KeyingRun(run, KeyBase(counted), tokens),
         OneWordAHalf(tokens)
  PROVE  run[Len(tokens)].status = "live"
<1> DEFINE n == Len(tokens)
           num(k) == count[k].num
           good == {k \in 0 .. n : Spared(run[k], num(k), tokens, c, k)}
           kb == KeyBase(counted)
<1>1. n \in Nat /\ c \in 1 .. n /\ IsTokens(tokens)  BY DEF Divided, IsTokens
<1>2. /\ \A k \in 0 .. n : num(k) \in Nat
      /\ \A k \in 1 .. n : k # c => num(k) = num(k-1) + Equals(tokens[k])
      /\ num(c) = 0 /\ counted.subject = Fresh(num(c-1))
      /\ \A j, k \in 0 .. n : j <= k /\ (k < c \/ c <= j) => num(j) <= num(k)
      BY CountsOfHalves
<1>3. IsKeying(kb) /\ kb.subject = counted.subject /\ kb.object = counted.object
      /\ kb.half = "subject" /\ kb.index = 0 /\ kb.status = "live"
      BY DEF IsKeying, KeyBase, Outcomes
<1> HIDE DEF kb
<1>4. \A k \in 0 .. n :
        /\ IsKeying(run[k])
        /\ run[k].subject.keys = "live" /\ run[k].subject.num = num(c-1)
        /\ run[k].object.keys = "live" /\ run[k].object.num = num(n)
  <2>1. /\ counted.subject.keys = "live" /\ counted.subject.num = num(c-1)
        /\ counted.object.keys = "live" /\ counted.object.num = num(n)
        BY <1>2 DEF Fresh
  <2> HIDE DEF num
  <2> QED  BY <1>1, <1>3, <2>1, KeysAreKeys DEF kb
<1> HIDE DEF num
<1>5. 0 \in good
  <2>1. run[0] = kb  BY DEF KeyingRun, kb
  <2>2. num(0) \in Nat /\ HalfAt(c, 0) = "subject"  BY <1>1, <1>2 DEF HalfAt
  <2>3. 0 <= num(0) + 1 /\ 0 <= num(0)  BY <2>2
  <2> QED  BY <1>1, <1>3, <2>1, <2>2, <2>3 DEF Spared, Halved
<1>6. ASSUME NEW k \in 1 .. n, k - 1 \in good PROVE k \in good
  <2> DEFINE p == run[k-1]
             q == run[k]
             t == tokens[k]
  <2>1. k - 1 \in 0 .. n /\ k \in 0 .. n  BY <1>1
  <2>2. IsKeying(p) /\ Spared(p, num(k-1), tokens, c, k - 1) /\ IsToken(t)
        BY <1>1, <1>4, <1>6, <2>1 DEF IsTokens
  <2>3. q = SetKey(p, t)  BY DEF KeyingRun
  <2>4. p.index \in Nat /\ num(k-1) \in Nat /\ num(k) \in Nat
        BY <1>2, <2>1, <2>2 DEF IsKeying
  <2>5. ASSUME k # c, Wordless(tokens, c, k)
        PROVE  Wordless(tokens, c, k - 1) /\ t.kind # "word"
    <3>1. k \in 1 .. k /\ (k < c \/ c <= k)  BY <1>1
    <3>2. ASSUME NEW i \in 1 .. k - 1, k - 1 < c \/ c <= i PROVE tokens[i].kind # "word"
      <4>1. i \in 1 .. k /\ (k < c \/ c <= i)  BY <1>1, <2>5, <3>2
      <4> QED  BY <4>1, <2>5 DEF Wordless
    <3> QED  BY <3>1, <3>2, <2>5 DEF Wordless
  <2>6. ASSUME k # c
        PROVE  /\ Current(p).keys = "live" /\ num(k) <= Current(p).num
               /\ Current(p).num \in Nat
    <3>1. CASE k < c
      <4>1. Current(p) = p.subject  BY <1>1, <2>2, <3>1 DEF Spared, Halved, HalfAt, Current
      <4>2. k <= c - 1 /\ c - 1 < c /\ c - 1 \in 0 .. n  BY <1>1, <3>1
      <4>3. num(k) <= num(c-1) /\ num(c-1) \in Nat  BY <1>2, <2>1, <4>2
      <4> QED  BY <1>4, <2>1, <4>1, <4>3
    <3>2. CASE k > c
      <4>1. ~ (k - 1 < c)  BY <1>1, <3>2
      <4>2. Current(p) = p.object  BY <2>2, <4>1 DEF Spared, Halved, HalfAt, Current
      <4>3. c <= k /\ k <= n /\ n \in 0 .. n  BY <1>1, <3>2
      <4>4. num(k) <= num(n) /\ num(n) \in Nat  BY <1>2, <2>1, <4>3
      <4> QED  BY <1>4, <2>1, <4>2, <4>4
    <3> QED  BY <1>1, <2>6, <3>1, <3>2
  <2>7. ASSUME k # c PROVE p.index <= num(k)
                           /\ p.index + 1 <= num(k) + 1
                           /\ (t.kind # "word" => p.index + 1 <= num(k) + 1
                                 /\ (Wordless(tokens, c, k - 1) => p.index + 1 <= num(k)))
    <3>1. num(k) = num(k-1) + Equals(t)  BY <1>2, <2>7
    <3>2. CASE t.kind = "word"
      <4>1. Wordless(tokens, c, k - 1)
        <5>1. ASSUME NEW i \in 1 .. k - 1, k - 1 < c \/ c <= i, tokens[i].kind = "word"
              PROVE  FALSE
          <6>1. i \in 1 .. n /\ i < k  BY <1>1
          <6>2. PICK m \in i .. k : tokens[m].kind = "colon"
                BY <3>2, <5>1, <6>1 DEF OneWordAHalf
          <6>3. m = c /\ i # c  BY <1>1, <5>1, <6>1, <6>2 DEF Divided
          <6> QED  BY <1>1, <2>7, <5>1, <6>2, <6>3
        <5> QED  BY <5>1 DEF Wordless
      <4>2. p.index <= num(k-1) /\ Equals(t) = 0  BY <2>2, <3>2, <4>1, EqualsInNat DEF Spared
      <4> HIDE DEF p, t
      <4> QED  BY <2>4, <3>1, <3>2, <4>2
    <3>3. CASE t.kind = "field"
      <4>1. Equals(t) \in {1, 2}  BY <2>2, <3>3, EqualsInNat
      <4>2. p.index <= num(k-1) + 1 /\ (Wordless(tokens, c, k - 1) => p.index <= num(k-1))
            BY <2>2 DEF Spared
      <4> HIDE DEF p, t
      <4> QED  BY <2>4, <3>1, <4>1, <4>2
    <3>4. t.kind # "colon"  BY <2>7 DEF Divided
    <3> QED  BY <2>2, <3>2, <3>3, <3>4, TokenKinds
  <2>8. k # c => Current(p).keys = "live" /\ p.index <= Current(p).num
    <3> HIDE DEF p
    <3> QED  BY <2>4, <2>6, <2>7
  <2>9. Halved(p, c, k - 1)  BY <2>2 DEF Spared
  <2>10. /\ Halved(q, c, k)
         /\ k = c => q.index = 0
         /\ k # c => q.index = p.index + 1
         BY <2>2, <2>3, <2>8, <2>9, KeyFits
  <2> HIDE DEF p, q, t
  <2>11. Spared(q, num(k), tokens, c, k)
    <3>1. CASE k = c  BY <2>4, <2>10, <3>1 DEF Spared
    <3>2. CASE k # c  BY <2>5, <2>7, <2>10, <3>2 DEF Spared
    <3> QED  BY <3>1, <3>2
  <2> QED  BY <2>1, <2>11 DEF q
<1>7. 0 .. n \subseteq good
  <2> HIDE DEF good, n
  <2> QED  BY <1>1, <1>5, <1>6, NaturalNumbers!UpTo
<1>8. n \in good  BY <1>1, <1>7
<1> QED  BY <1>8 DEF Spared, Halved

LEMMA ImbueFits ==
  ASSUME IsArray(subject), IsArray(object), NEW line, IsLine(line),
         NEW left \in Nat, Counted(line, left).rc = OK,
         NEW c, Divided(Buffer(line), c),
         OneWordAHalf(Buffer(line))
  PROVE  Keyed(line, Counted(line, left)).status = "live"
<1> DEFINE tokens == Buffer(line)
           n == Len(tokens)
           counted == Counted(line, left)
           base == CountBase(left)
           kb == KeyBase(counted)
<1>1. IsTokens(tokens) /\ IsCount(base)
      /\ IsArray(counted.subject) /\ IsArray(counted.object)
      BY CountedRun
<1>2. PICK count : /\ CountingRun(count, base, tokens) /\ count[n].rc = OK
                   /\ counted.subject = count[n].subject
                   /\ counted.object = Fresh(count[n].num)
      BY CountedRun
<1>3. PICK run : KeyingRun(run, kb, tokens) /\ Keyed(line, counted) = run[n]
      BY <1>1, KeyedRun
<1>4. Divided(tokens, c) /\ OneWordAHalf(tokens)  OBVIOUS
<1> HIDE DEF tokens, counted, base
<1>5. run[n].status = "live"  BY <1>1, <1>2, <1>3, <1>4, OneWordFits
<1> QED  BY <1>3, <1>5 DEF counted

LEMMA SpareStep ==
  ASSUME Safe, OneSpareKey, [Next]_vars
  PROVE  OneSpareKey'
<1>1. IsArray(subject) /\ IsArray(object)  BY DEF Safe
<1>2. ASSUME NEW line \in Lines, ImbueRefused(line) PROVE OneSpareKey'
  <2>1. status' = "live"  BY <1>2 DEF ImbueRefused
  <2> QED  BY <2>1 DEF OneSpareKey
<1>3. ASSUME NEW line \in Lines, Imbue(line) PROVE OneSpareKey'
  <2> DEFINE tokens == Buffer(line)
  <2>1. IsLine(line) /\ status = "live"  BY <1>3, LinesAssumption DEF Imbue
  <2>2. IsTokens(tokens)  BY <2>1, BufferTokens
  <2>3. reply'.line = line /\ (status' # "live" =>
          \E left \in Nat : Counted(line, left).rc = OK
                            /\ status' = Keyed(line, Counted(line, left)).status)
        BY <1>1, <1>3, <2>1, ImbueResult
  <2>4. SUFFICES ASSUME status' = "overrun",
                        \A i \in DOMAIN tokens : tokens[i].extra # ":",
                        OneColon(tokens), OneWordAHalf(tokens)
                 PROVE  FALSE
    <3>1. OneWordAHalf(tokens) \/
            \E i, j \in DOMAIN tokens :
              /\ i < j /\ tokens[i].kind = "word" /\ tokens[j].kind = "word"
              /\ \A m \in i .. j : tokens[m].kind # "colon"
          BY <2>2 DEF OneWordAHalf, IsTokens
    <3> HIDE DEF tokens
    <3> QED  BY <2>3, <3>1 DEF OneSpareKey, tokens
  <2>5. PICK c \in DOMAIN tokens : \A i \in DOMAIN tokens : tokens[i].kind = "colon" <=> i = c
        BY <2>4 DEF OneColon
  <2>6. DOMAIN tokens = 1 .. Len(tokens)  BY <2>2 DEF IsTokens
  <2>7. Divided(tokens, c)  BY <2>2, <2>4, <2>5, <2>6 DEF Divided
  <2>8. PICK left \in Nat : Counted(line, left).rc = OK
                            /\ status' = Keyed(line, Counted(line, left)).status
        BY <2>3, <2>4
  <2>9. Keyed(line, Counted(line, left)).status = "live"
        BY <1>1, <2>1, <2>4, <2>7, <2>8, ImbueFits
  <2> QED  BY <2>4, <2>8, <2>9
<1>4. ASSUME NEW line \in Lines, Parse(line) PROVE OneSpareKey'
  <2>1. reply'.op = "parse"  BY <1>4 DEF Parse, Reply
  <2> QED  BY <2>1 DEF OneSpareKey
<1>5. ASSUME NEW array, NEW number, GetField(array, number) PROVE OneSpareKey'
  <2>1. reply'.op = "get"  BY <1>5 DEF GetField, Reply
  <2> QED  BY <2>1 DEF OneSpareKey
<1>6. CASE Destroy
  <2>1. status' \in {"freed twice", "destroyed"}  BY <1>6 DEF Destroy
  <2> QED  BY <2>1 DEF OneSpareKey
<1>7. CASE UNCHANGED vars  BY <1>7 DEF vars, OneSpareKey
<1> QED  BY <1>2, <1>3, <1>4, <1>5, <1>6, <1>7 DEF Next, Calls

(* imbue_parser writes past an array of keys only when it is given two bare *)
(* words in one half, a colon in a value, or not just one colon: the spare  *)
(* element of field_array_initialize is enough for everything else.         *)
THEOREM RoomForAWord == Spec => []OneSpareKey
<1>1. Init => OneSpareKey
  <2>1. Init => reply.op = "construct"  BY DEF Init, Reply
  <2> QED  BY <2>1 DEF OneSpareKey
<1> QED  BY <1>1, SafeInit, SafeStep, SpareStep, PTL DEF Spec

-----------------------------------------------------------------------------
(* The keys of a half of a line with one colon: they are added one by one   *)
(* where the passes are in that half, and stay what they were elsewhere.    *)
KeysIn(line) == {line.tokens[i].key : i \in DOMAIN line.tokens}

LEMMA PartSteps ==
  ASSUME NEW line, NEW c, Divided(line.tokens, c), NEW half \in {"subject", "object"}
  PROVE  LET P == PartUpTo(line, half)
             n == Len(line.tokens)
         IN /\ P[0] = <<>>
            /\ \A k \in 1 .. n :
                 P[k] = IF line.tokens[k].kind = "field" /\ half = HalfAt(c, k)
                        THEN Append(P[k-1], line.tokens[k].key) ELSE P[k-1]
            /\ \A k \in 0 .. n : P[k] \in Seq(KeysIn(line))
<1> DEFINE P == PartUpTo(line, half)
           n == Len(line.tokens)
           T == KeysIn(line)
<1>1. n \in Nat /\ c \in 1 .. n /\ DOMAIN line.tokens = 1 .. n  BY DEF Divided, IsTokens
<1>2. /\ P[0] = <<>>
      /\ \A k \in 1 .. n : P[k] = IF InHalf(line, half, k)
                                  THEN Append(P[k-1], line.tokens[k].key) ELSE P[k-1]
      BY <1>1, PartRun
<1>3. ASSUME NEW k \in 1 .. n
      PROVE  InHalf(line, half, k) <=> line.tokens[k].kind = "field" /\ half = HalfAt(c, k)
  <2> DEFINE early == \A i \in DOMAIN line.tokens : line.tokens[i].kind = "colon" => k < i
  <2>1. early <=> k < c  BY <1>1 DEF Divided
  <2>2. InHalf(line, half, k) <=> line.tokens[k].kind = "field" /\ ((half = "subject") = early)
        BY Zenon DEF InHalf
  <2> HIDE DEF early
  <2>3. CASE k < c
    <3>1. early = TRUE /\ HalfAt(c, k) = "subject"  BY <2>1, <2>3 DEF HalfAt
    <3>2. ((half = "subject") = early) <=> half = "subject"  BY <3>1
    <3> QED  BY <2>2, <3>1, <3>2
  <2>4. CASE ~ (k < c)
    <3>1. early = FALSE /\ HalfAt(c, k) = "object"  BY <2>1, <2>4 DEF HalfAt
    <3>2. ((half = "subject") = early) <=> half = "object"  BY <3>1
    <3> QED  BY <2>2, <3>1, <3>2
  <2> QED  BY <2>3, <2>4
<1>4. \A k \in 1 .. n : line.tokens[k].key \in T  BY <1>1 DEF KeysIn
<1> HIDE DEF P, T
<1>5. \A k \in 0 .. n : P[k] \in Seq(T)
  <2> DEFINE good == {k \in 0 .. n : P[k] \in Seq(T)}
  <2>1. 0 \in good
    <3>1. <<>> \in Seq(T)  BY EmptySeq
    <3>2. P[0] \in Seq(T)  BY <1>2, <3>1
    <3> QED  BY <1>1, <3>2
  <2>2. ASSUME NEW k \in 1 .. n, k - 1 \in good PROVE k \in good
    <3>1. P[k-1] \in Seq(T) /\ line.tokens[k].key \in T  BY <1>4, <2>2
    <3>2. Append(P[k-1], line.tokens[k].key) \in Seq(T)  BY <3>1, AppendProperties
    <3>3. P[k] \in Seq(T)  BY <1>2, <3>1, <3>2
    <3>4. k \in 0 .. n  BY <1>1
    <3> QED  BY <3>3, <3>4
  <2>3. 0 .. n \subseteq good
    <3> HIDE DEF good, n
    <3> QED  BY <1>1, <2>1, <2>2, NaturalNumbers!UpTo
  <2> QED  BY <2>3
<1> QED  BY <1>2, <1>3, <1>5 DEF P, T

LEMMA PartGrows ==
  ASSUME NEW line, NEW c, Divided(line.tokens, c), NEW half \in {"subject", "object"}
  PROVE  LET P == PartUpTo(line, half)
             n == Len(line.tokens)
         IN \A j, k \in 0 .. n : j <= k =>
              Len(P[j]) <= Len(P[k]) /\ \A i \in 1 .. Len(P[j]) : P[k][i] = P[j][i]
<1> DEFINE P == PartUpTo(line, half)
           n == Len(line.tokens)
           T == KeysIn(line)
           Before(j, k) == Len(P[j]) <= Len(P[k]) /\ \A i \in 1 .. Len(P[j]) : P[k][i] = P[j][i]
           good == {k \in 0 .. n : \A j \in 0 .. n : j <= k => Before(j, k)}
<1>1. n \in Nat  BY DEF Divided, IsTokens
<1>2. /\ \A k \in 1 .. n :
           P[k] = IF line.tokens[k].kind = "field" /\ half = HalfAt(c, k)
                  THEN Append(P[k-1], line.tokens[k].key) ELSE P[k-1]
      /\ \A k \in 0 .. n : P[k] \in Seq(T)
      BY PartSteps
<1>3. \A k \in 1 .. n : line.tokens[k].key \in T  BY DEF KeysIn, Divided, IsTokens
<1> HIDE DEF P, T
<1>4. \A k \in 0 .. n : Len(P[k]) \in Nat /\ Before(k, k)
  <2>1. \A k \in 0 .. n : Len(P[k]) \in Nat  BY <1>2, LenProperties
  <2> QED  BY <2>1
<1>5. 0 \in good
  <2>1. \A j \in 0 .. n : j <= 0 => j = 0  OBVIOUS
  <2> HIDE DEF Before
  <2> QED  BY <1>1, <1>4, <2>1
<1>6. ASSUME NEW k \in 1 .. n, k - 1 \in good PROVE k \in good
  <2>1. k \in 0 .. n /\ k - 1 \in 0 .. n  BY <1>1
  <2>2. Before(k - 1, k)
    <3>1. P[k-1] \in Seq(T) /\ line.tokens[k].key \in T  BY <1>2, <1>3, <2>1
    <3> DEFINE more == Append(P[k-1], line.tokens[k].key)
    <3>2. Len(more) = Len(P[k-1]) + 1 /\ \A i \in 1 .. Len(P[k-1]) : more[i] = P[k-1][i]
          BY <3>1, AppendProperties
    <3>3. P[k] = more \/ P[k] = P[k-1]  BY <1>2
    <3>4. Len(P[k-1]) \in Nat  BY <1>4, <2>1
    <3> HIDE DEF more
    <3> QED  BY <3>2, <3>3, <3>4
  <2>3. ASSUME NEW j \in 0 .. n, j <= k PROVE Before(j, k)
    <3>1. CASE j = k
      <4> HIDE DEF Before
      <4> QED  BY <3>1, <1>4, <2>1
    <3>2. CASE j # k
      <4>1. j <= k - 1  BY <2>3, <3>2
      <4>2. Before(j, k - 1)
        <5> HIDE DEF Before
        <5> QED  BY <4>1, <1>6
      <4>3. Len(P[j]) \in Nat /\ Len(P[k-1]) \in Nat /\ Len(P[k]) \in Nat  BY <1>4, <2>1
      <4> QED  BY <2>2, <4>2, <4>3
    <3> QED  BY <3>1, <3>2
  <2> HIDE DEF Before
  <2> QED  BY <2>1, <2>3
<1>7. 0 .. n \subseteq good
  <2> HIDE DEF good, n
  <2> QED  BY <1>1, <1>5, <1>6, NaturalNumbers!UpTo
<1> QED  BY <1>7 DEF P

(* The subject's keys are complete at the colon, the object's start there.  *)
LEMMA PartElsewhere ==
  ASSUME NEW line, NEW c, Divided(line.tokens, c)
  PROVE  LET n == Len(line.tokens)
         IN /\ \A k \in 0 .. n : c - 1 <= k =>
                 PartUpTo(line, "subject")[k] = Part(line, "subject")
            /\ \A k \in 0 .. n : k <= c => PartUpTo(line, "object")[k] = <<>>
<1> DEFINE S == PartUpTo(line, "subject")
           O == PartUpTo(line, "object")
           n == Len(line.tokens)
           goodS == {k \in 0 .. n : c - 1 <= k => S[k] = S[c-1]}
           goodO == {k \in 0 .. n : k <= c => O[k] = <<>>}
<1>1. n \in Nat /\ c \in 1 .. n /\ line.tokens[c].kind = "colon"  BY DEF Divided, IsTokens
<1>2. \A k \in 1 .. n :
        S[k] = IF line.tokens[k].kind = "field" /\ "subject" = HalfAt(c, k)
               THEN Append(S[k-1], line.tokens[k].key) ELSE S[k-1]
      BY PartSteps
<1>3. /\ O[0] = <<>>
      /\ \A k \in 1 .. n :
           O[k] = IF line.tokens[k].kind = "field" /\ "object" = HalfAt(c, k)
                  THEN Append(O[k-1], line.tokens[k].key) ELSE O[k-1]
      BY PartSteps
<1> HIDE DEF S, O
<1>4. 0 \in goodS /\ 0 \in goodO
  <2>1. c - 1 <= 0 => c - 1 = 0  BY <1>1
  <2> QED  BY <1>1, <1>3, <2>1
<1>5. ASSUME NEW k \in 1 .. n, k - 1 \in goodS PROVE k \in goodS
  <2>1. CASE k <= c - 1
    <3>1. c - 1 <= k => k = c - 1  BY <1>1, <2>1
    <3> QED  BY <3>1, <1>1
  <2>2. CASE k > c - 1
    <3>1. ~ (k < c) /\ c - 1 <= k - 1  BY <1>1, <2>2
    <3>2. HalfAt(c, k) = "object"  BY <3>1 DEF HalfAt
    <3>3. S[k] = S[k-1]  BY <1>2, <3>2
    <3> QED  BY <3>1, <3>3, <1>5
  <2> QED  BY <1>1, <2>1, <2>2
<1>6. ASSUME NEW k \in 1 .. n, k - 1 \in goodO PROVE k \in goodO
  <2>1. k <= c => O[k] = O[k-1] /\ k - 1 <= c
    <3>1. CASE k = c  BY <1>1, <1>3, <3>1
    <3>2. CASE k < c
      <4>1. HalfAt(c, k) = "subject"  BY <3>2 DEF HalfAt
      <4> QED  BY <1>1, <1>3, <3>2, <4>1
    <3> QED  BY <1>1, <3>1, <3>2
  <2> QED  BY <2>1, <1>6
<1>7. 0 .. n \subseteq goodS /\ 0 .. n \subseteq goodO
  <2> HIDE DEF goodS, goodO, n
  <2> QED  BY <1>1, <1>4, <1>5, <1>6, NaturalNumbers!UpTo
<1>8. S[n] = Part(line, "subject")  BY DEF Part, S
<1>9. n \in 0 .. n /\ c - 1 <= n  BY <1>1
<1>10. S[n] = S[c-1]  BY <1>7, <1>9
<1> QED  BY <1>7, <1>8, <1>10 DEF S, O

(* The keys so far of the half that token k is in.                          *)
SoFar(line, c, k) == PartUpTo(line, HalfAt(c, k))[k]

LEMMA SoFarNext ==
  ASSUME NEW line, NEW c, Divided(line.tokens, c),
         NEW k \in 1 .. Len(line.tokens), k # c
  PROVE  /\ line.tokens[k].kind = "field" =>
              SoFar(line, c, k) = Append(SoFar(line, c, k-1), line.tokens[k].key)
         /\ line.tokens[k].kind # "field" => SoFar(line, c, k) = SoFar(line, c, k-1)
<1>1. c \in Int  BY DEF Divided, IsTokens
<1>2. HalfAt(c, k - 1) = HalfAt(c, k)  BY <1>1 DEF HalfAt
<1>3. HalfAt(c, k) \in {"subject", "object"}  BY DEF HalfAt
<1> DEFINE h == HalfAt(c, k)
<1>4. PartUpTo(line, h)[k] = IF line.tokens[k].kind = "field" /\ h = HalfAt(c, k)
                             THEN Append(PartUpTo(line, h)[k-1], line.tokens[k].key)
                             ELSE PartUpTo(line, h)[k-1]
      BY <1>3, PartSteps
<1> QED  BY <1>2, <1>4 DEF SoFar

LEMMA SoFarSteps ==
  ASSUME NEW line, NEW c, Divided(line.tokens, c)
  PROVE  LET n == Len(line.tokens)
         IN /\ \A k \in 0 .. n : SoFar(line, c, k) \in Seq(KeysIn(line))
            /\ SoFar(line, c, 0) = <<>> /\ SoFar(line, c, c) = <<>>
            /\ SoFar(line, c, c - 1) = Part(line, "subject")
            /\ SoFar(line, c, n) = Part(line, "object")
            /\ \A k \in 0 .. n :
                 /\ Len(SoFar(line, c, k)) <= Len(Part(line, HalfAt(c, k)))
                 /\ \A i \in 1 .. Len(SoFar(line, c, k)) :
                      SoFar(line, c, k)[i] = Part(line, HalfAt(c, k))[i]
<1> DEFINE n == Len(line.tokens)
<1>1. n \in Nat /\ c \in 1 .. n  BY DEF Divided, IsTokens
<1>2. \A k \in 0 .. n : HalfAt(c, k) \in {"subject", "object"}  BY DEF HalfAt
<1>3. \A k \in 0 .. n : SoFar(line, c, k) \in Seq(KeysIn(line))
      BY <1>2, PartSteps DEF SoFar
<1>4. SoFar(line, c, 0) = <<>>  BY <1>1, <1>2, PartSteps DEF SoFar
<1>5. HalfAt(c, c) = "object" /\ HalfAt(c, c - 1) = "subject" /\ HalfAt(c, n) = "object"
      BY <1>1 DEF HalfAt
<1>6. SoFar(line, c, c) = <<>> /\ SoFar(line, c, c - 1) = Part(line, "subject")
  <2>1. c \in 0 .. n /\ c <= c /\ c - 1 \in 0 .. n /\ c - 1 <= c - 1  BY <1>1
  <2> QED  BY <1>5, <2>1, PartElsewhere DEF SoFar
<1>7. SoFar(line, c, n) = Part(line, "object")  BY <1>5 DEF SoFar, Part
<1>9. ASSUME NEW k \in 0 .. n
      PROVE  /\ Len(SoFar(line, c, k)) <= Len(Part(line, HalfAt(c, k)))
             /\ \A i \in 1 .. Len(SoFar(line, c, k)) :
                  SoFar(line, c, k)[i] = Part(line, HalfAt(c, k))[i]
  <2>1. n \in 0 .. n /\ k <= n  BY <1>1
  <2> QED  BY <1>2, <2>1, PartGrows DEF SoFar, Part
<1> QED  BY <1>3, <1>4, <1>6, <1>7, <1>9

(* A plain line has one colon, and imbue_parser works on it as it stands.   *)
LEMMA PlainIsDivided ==
  ASSUME NEW line, IsLine(line), Plain(line)
  PROVE  /\ Buffer(line) = line.tokens
         /\ \E c : Divided(line.tokens, c)
         /\ \A k \in 1 .. Len(line.tokens) :
              Equals(line.tokens[k]) = IF line.tokens[k].kind = "field" THEN 1 ELSE 0
<1>1. Buffer(line) = line.tokens  BY DEF Plain, Buffer
<1>2. IsTokens(line.tokens)  BY LineTokens
<1>3. DOMAIN line.tokens = 1 .. Len(line.tokens)  BY <1>2 DEF IsTokens
<1>4. \A i \in 1 .. Len(line.tokens) : line.tokens[i].extra = ""  BY <1>3 DEF Plain
<1>5. PICK c \in 1 .. Len(line.tokens) :
        \A i \in 1 .. Len(line.tokens) : line.tokens[i].kind = "colon" <=> i = c
  <2>1. PICK c \in DOMAIN line.tokens :
          \A i \in DOMAIN line.tokens : line.tokens[i].kind = "colon" <=> i = c
        BY DEF Plain, OneColon
  <2>2. c \in 1 .. Len(line.tokens)  BY <1>3
  <2>3. \A i \in 1 .. Len(line.tokens) : line.tokens[i].kind = "colon" <=> i = c
        BY <1>3, <2>1
  <2> QED  BY <2>2, <2>3
<1>6. Divided(line.tokens, c)  BY <1>2, <1>4, <1>5 DEF Divided
<1>7. ASSUME NEW k \in 1 .. Len(line.tokens)
      PROVE  Equals(line.tokens[k]) = IF line.tokens[k].kind = "field" THEN 1 ELSE 0
  <2>1. IsToken(line.tokens[k])  BY <1>2 DEF IsTokens
  <2> QED  BY <1>4, <2>1, EqualsInNat
<1> QED  BY <1>1, <1>6, <1>7

(* The first pass counts the keys of each half.                             *)
LEMMA CountsAreKeys ==
  ASSUME NEW line, NEW c, Divided(line.tokens, c),
         \A k \in 1 .. Len(line.tokens) :
           Equals(line.tokens[k]) = IF line.tokens[k].kind = "field" THEN 1 ELSE 0,
         NEW base, IsCount(base), base.num = 0, NEW count,
         CountingRun(count, base, line.tokens), count[Len(line.tokens)].rc = OK
  PROVE  LET n == Len(line.tokens)
         IN /\ \A k \in 0 .. n : count[k].num = Len(SoFar(line, c, k))
            /\ count[n].num = Len(Part(line, "object"))
            /\ count[n].subject = Fresh(Len(Part(line, "subject")))
<1> DEFINE n == Len(line.tokens)
           T == KeysIn(line)
           up(k) == SoFar(line, c, k)
           good == {k \in 0 .. n : count[k].num = Len(up(k))}
<1>1. n \in Nat /\ c \in 1 .. n  BY DEF Divided, IsTokens
<1>2. /\ \A k \in 0 .. n : up(k) \in Seq(T)
      /\ up(0) = <<>> /\ up(c) = <<>>
      /\ up(c-1) = Part(line, "subject") /\ up(n) = Part(line, "object")
      BY SoFarSteps
<1>3. /\ \A k \in 0 .. n : count[k].num \in Nat
      /\ \A k \in 1 .. n :
           k # c => count[k].num = count[k-1].num + Equals(line.tokens[k])
      /\ count[c].num = 0 /\ count[n].subject = Fresh(count[c-1].num)
      BY CountsOfHalves
<1>4. \A k \in 1 .. n : line.tokens[k].key \in T  BY DEF KeysIn, Divided, IsTokens
<1>5. \A k \in 1 .. n : k # c =>
        /\ line.tokens[k].kind = "field" => up(k) = Append(up(k-1), line.tokens[k].key)
        /\ line.tokens[k].kind # "field" => up(k) = up(k-1)
      BY SoFarNext
<1> HIDE DEF up, T
<1>6. Len(<<>>) = 0  OBVIOUS
<1>7. 0 \in good
  <2>1. count[0].num = 0  BY DEF CountingRun
  <2> QED  BY <1>1, <1>2, <1>6, <2>1
<1>8. ASSUME NEW k \in 1 .. n, k - 1 \in good PROVE k \in good
  <2>1. k \in 0 .. n /\ k - 1 \in 0 .. n  BY <1>1
  <2>2. CASE k = c  BY <1>2, <1>3, <1>6, <2>1, <2>2
  <2>3. CASE k # c /\ line.tokens[k].kind = "field"
    <3>1. count[k].num = count[k-1].num + 1  BY <1>3, <2>3
    <3>2. up(k-1) \in Seq(T) /\ line.tokens[k].key \in T  BY <1>2, <1>4, <2>1
    <3>3. Len(up(k)) = Len(up(k-1)) + 1  BY <1>5, <2>3, <3>2, AppendProperties
    <3> QED  BY <1>8, <2>1, <3>1, <3>3
  <2>4. CASE k # c /\ line.tokens[k].kind # "field"
    <3>1. count[k].num = count[k-1].num + 0  BY <1>3, <2>4
    <3>2. count[k].num = count[k-1].num  BY <1>3, <2>1, <3>1
    <3>3. up(k) = up(k-1)  BY <1>5, <2>4
    <3> QED  BY <1>8, <2>1, <3>2, <3>3
  <2> QED  BY <2>2, <2>3, <2>4
<1>9. 0 .. n \subseteq good
  <2> HIDE DEF good, n
  <2> QED  BY <1>1, <1>7, <1>8, NaturalNumbers!UpTo
<1>10. n \in 0 .. n /\ c - 1 \in 0 .. n  BY <1>1
<1>11. \A k \in 0 .. n : count[k].num = Len(up(k))  BY <1>9
<1> QED  BY <1>2, <1>3, <1>10, <1>11 DEF up

(* The first pass refuses no plain line with fields before its colon: it    *)
(* counts some in each half, and only runs out of memory.                   *)
LEMMA PlainIsCounted ==
  ASSUME IsArray(subject), IsArray(object), NEW line, IsLine(line),
         Plain(line), Part(line, "subject") # <<>>, NEW left \in Nat
  PROVE  Counted(line, left).rc \in {OK, ALLOCATION_ERROR}
<1> DEFINE tokens == line.tokens
           n == Len(tokens)
           base == CountBase(left)
           T == KeysIn(line)
<1>1. PICK c : Divided(tokens, c)  BY PlainIsDivided
<1> DEFINE up(k) == SoFar(line, c, k)
<1>2. /\ Buffer(line) = tokens
      /\ \A k \in 1 .. n : Equals(tokens[k]) = IF tokens[k].kind = "field" THEN 1 ELSE 0
      BY PlainIsDivided
<1>3. n \in Nat /\ c \in 1 .. n /\ IsTokens(tokens) /\ DOMAIN tokens = 1 .. n
      BY <1>1 DEF Divided, IsTokens
<1>4. /\ \A k \in 0 .. n : up(k) \in Seq(T)
      /\ up(0) = <<>> /\ up(c) = <<>>
      /\ up(c-1) = Part(line, "subject") /\ up(n) = Part(line, "object")
      BY <1>1, SoFarSteps
<1>5. \A k \in 1 .. n : k # c =>
        /\ tokens[k].kind = "field" => up(k) = Append(up(k-1), tokens[k].key)
        /\ tokens[k].kind # "field" => up(k) = up(k-1)
      BY <1>1, SoFarNext
<1>6. \A k \in 1 .. n :
        /\ tokens[k].key \in T /\ IsToken(tokens[k])
        /\ HasColon(tokens[k]) <=> k = c
      BY <1>1, <1>3 DEF KeysIn, Divided, IsTokens, HasColon
<1> HIDE DEF up, T, base, tokens, n
<1>7. PICK run : /\ run[0] = base
                 /\ \A k \in 1 .. n : run[k] = CountToken(run[k-1], tokens[k])
                 /\ CountAll(base, tokens) = run[n]
  <2>1. PICK run : CountingRun(run, base, tokens) /\ CountAll(base, tokens) = run[n]
        BY <1>3, CountingRunIs DEF n
  <2> QED  BY <2>1 DEF CountingRun, n
<1>8. IsCount(base) /\ base.num = 0 /\ base.rc = OK  BY DEF IsCount, CountBase, base
<1>9. \A k \in 0 .. n : IsCount(run[k])
      BY <1>3, <1>7, <1>8, CountsAreCounts DEF CountingRun, n
<1> DEFINE good == {k \in 0 .. n : /\ run[k].rc \in {OK, ALLOCATION_ERROR}
                                   /\ run[k].rc = OK => run[k].num = Len(up(k))}
<1>10. 0 \in good  BY <1>3, <1>4, <1>7, <1>8
<1>11. ASSUME NEW k \in 1 .. n, k - 1 \in good PROVE k \in good
  <2>1. k \in 0 .. n /\ k - 1 \in 0 .. n  BY <1>3
  <2> DEFINE p == run[k-1]
             q == run[k]
  <2>2. q = CountToken(p, tokens[k]) /\ IsCount(p) /\ IsToken(tokens[k])
        BY <1>3, <1>6, <1>7, <1>9, <2>1
  <2>3. /\ p.rc # OK => q = p
        /\ p.rc = OK /\ ~ HasColon(tokens[k]) =>
             q.num = p.num + Equals(tokens[k]) /\ q.rc = OK
        BY <2>2, CountStep
  <2>4. CASE p.rc # OK  BY <1>11, <2>1, <2>3, <2>4
  <2>5. CASE p.rc = OK /\ k = c
    <3>1. p.num = Len(Part(line, "subject")) /\ HasColon(tokens[k]) /\ tokens[k].kind = "colon"
          BY <1>1, <1>3, <1>4, <1>6, <1>11, <2>5 DEF Divided, tokens
    <3>2. Part(line, "subject") \in Seq(T)  BY <1>4, <2>1, <2>5
    <3>3. p.num # 0  BY <3>1, <3>2
    <3>4. Equals(tokens[k]) = 0  BY <3>1 DEF Equals
    <3>5. p.num \in Nat  BY <2>2 DEF IsCount
    <3>6. q.num = 0 /\ q.rc \in {OK, ALLOCATION_ERROR}
      <4>1. q = [p EXCEPT !.num = 0, !.left = p.left - 2,
                          !.subject = Initialized(p.num, p.left),
                          !.rc = IF p.left < 2 THEN ALLOCATION_ERROR ELSE OK]
            BY <2>2, <2>5, <3>1, <3>3, <3>4, <3>5 DEF CountToken
      <4> QED  BY <2>2, <4>1 DEF IsCount
    <3> QED  BY <1>4, <2>1, <2>5, <3>6
  <2>6. CASE p.rc = OK /\ k # c /\ tokens[k].kind = "field"
    <3>1. q.num = p.num + 1 /\ q.rc = OK  BY <1>2, <1>3, <1>6, <2>1, <2>3, <2>6
    <3>2. up(k-1) \in Seq(T) /\ tokens[k].key \in T  BY <1>3, <1>4, <1>6, <2>1
    <3>3. Len(up(k)) = Len(up(k-1)) + 1  BY <1>5, <2>6, <3>2, AppendProperties
    <3> QED  BY <1>11, <2>1, <2>6, <3>1, <3>3
  <2>7. CASE p.rc = OK /\ k # c /\ tokens[k].kind # "field"
    <3>1. q.num = p.num + 0 /\ q.rc = OK  BY <1>2, <1>3, <1>6, <2>1, <2>3, <2>7
    <3>2. p.num \in Nat  BY <2>2 DEF IsCount
    <3>3. up(k) = up(k-1)  BY <1>5, <2>7
    <3> QED  BY <1>11, <2>1, <2>7, <3>1, <3>2, <3>3
  <2> QED  BY <2>4, <2>5, <2>6, <2>7
<1>12. n \in good
  <2>1. 0 .. n \subseteq good
    <3> HIDE DEF good
    <3> QED  BY <1>3, <1>10, <1>11, NaturalNumbers!UpTo
  <2> QED  BY <1>3, <2>1
<1>13. run[n].rc = OK => run[n].num # 0
  <2>1. Part(line, "object") # <<>>  BY DEF Plain
  <2>2. n \in 0 .. n  BY <1>3
  <2>3. up(n) \in Seq(T) /\ up(n) # <<>>  BY <1>4, <2>1, <2>2
  <2>4. Len(up(n)) # 0  BY <2>3
  <2> QED  BY <1>12, <2>4
<1>14. Counted(line, left) =
         LET p == CountAll(base, tokens)
         IN CASE p.rc # OK -> [subject |-> p.subject, object |-> object, rc |-> p.rc]
              [] p.rc = OK /\ p.num = 0 ->
                   [subject |-> p.subject, object |-> object, rc |-> PARSE_ERROR]
              [] OTHER -> [subject |-> p.subject,
                           object |-> Initialized(p.num, p.left),
                           rc |-> IF p.left < 2 THEN ALLOCATION_ERROR ELSE OK]
      BY <1>2 DEF Counted, CountBase, CountAll, base
<1> QED  BY <1>7, <1>12, <1>13, <1>14

(* Nor does imbue_parser: it lacks memory, or goes on to the second pass.   *)
LEMMA PlainIsNotRefused ==
  ASSUME Safe, NEW line \in Lines, Plain(line), Part(line, "subject") # <<>>,
         Imbue(line) \/ ImbueRefused(line)
  PROVE  reply'.rc \in {OK, ALLOCATION_ERROR, NULL}
<1>1. CASE ImbueRefused(line)
  <2>1. line.kind = "audit"  BY DEF Plain
  <2> QED  BY <1>1, <2>1 DEF ImbueRefused, Reply
<1>2. CASE Imbue(line)
  <2>1. IsLine(line)  BY LinesAssumption
  <2>2. PICK left \in Allowances(line) :
          \/ reply' = Reply("imbue", line, Counted(line, left).rc)
          \/ reply' = Reply("imbue", line, OK)
          \/ reply' = Reply("imbue", line, NULL)
        BY <1>2 DEF Imbue
  <2>3. Counted(line, left).rc \in {OK, ALLOCATION_ERROR}
        BY <2>1, AllowancesInNat, PlainIsCounted DEF Safe
  <2> QED  BY <2>2, <2>3 DEF Reply
<1> QED  BY <1>1, <1>2

-----------------------------------------------------------------------------
(* The second pass stores these keys in the same places.  A bare word ends  *)
(* a half: its key goes into the spare element, after the keys that count.  *)
Stored(a, keys) == \A i \in 1 .. Len(keys) : a.key[i-1] = keys[i]

Learning(p, line, c, k) ==
  LET keys == SoFar(line, c, k)
  IN /\ Halved(p, c, k)
     /\ p.index = IF k > 0 /\ line.tokens[k].kind = "word" THEN Len(keys) + 1 ELSE Len(keys)
     /\ Stored(Current(p), keys)
     /\ k >= c => Stored(p.subject, Part(line, "subject"))

LEMMA LearningStep ==
  ASSUME NEW line, NEW c, Divided(line.tokens, c), WordsLast(line),
         NEW k \in 1 .. Len(line.tokens),
         NEW p, IsKeying(p), Learning(p, line, c, k - 1),
         p.subject.keys = "live", p.subject.num = Len(Part(line, "subject")),
         p.object.keys = "live", p.object.num = Len(Part(line, "object"))
  PROVE  Learning(SetKey(p, line.tokens[k]), line, c, k)
<1> DEFINE q == SetKey(p, line.tokens[k])
           t == line.tokens[k]
           n == Len(line.tokens)
           old == SoFar(line, c, k - 1)
           new == SoFar(line, c, k)
           m == Len(old)
           a == Current(p)
<1>1. n \in Nat /\ c \in 1 .. n /\ k - 1 \in 0 .. n /\ k \in 0 .. n
      BY DEF Divided, IsTokens
<1>2. /\ old \in Seq(KeysIn(line)) /\ new \in Seq(KeysIn(line))
      /\ m \in Nat /\ Len(new) \in Nat
      BY <1>1, SoFarSteps, LenProperties
<1>3. t.kind = "colon" <=> k = c  BY DEF Divided
<1>4. p.index \in Nat /\ Halved(p, c, k - 1)  BY DEF IsKeying, Learning
<1>5. CASE k = c
  <2>1. Halved(q, c, k) /\ q.index = 0 /\ q.subject = p.subject  BY <1>4, <1>5, KeyFits
  <2>2. Len(new) = 0  BY <1>5, SoFarSteps
  <2>3. old = Part(line, "subject")  BY <1>5, SoFarSteps
  <2>4. k - 1 < c  BY <1>1, <1>5
  <2>5. a = p.subject  BY <1>4, <2>4 DEF Halved, HalfAt, Current
  <2>6. Stored(p.subject, Part(line, "subject"))  BY <2>3, <2>5 DEF Learning
  <2>7. t.kind # "word"  BY <1>3, <1>5
  <2> HIDE DEF q, new, t
  <2>8. Stored(Current(q), new)  BY <2>2 DEF Stored
  <2>9. Learning(q, line, c, k)  BY <2>1, <2>2, <2>6, <2>7, <2>8 DEF Learning, new, t
  <2> QED  BY <2>9 DEF q
<1>6. CASE k # c
  <2>1. p.index = m
    <3>1. CASE k - 1 = 0  BY <3>1 DEF Learning
    <3>2. CASE k - 1 # 0
      <4>1. k - 1 \in DOMAIN line.tokens /\ k - 1 # Len(line.tokens) /\ (k - 1) + 1 = k
            BY <1>1, <3>2 DEF Divided, IsTokens
      <4>2. line.tokens[k-1].kind # "word"  BY <1>3, <1>6, <4>1 DEF WordsLast
      <4> QED  BY <4>2 DEF Learning
    <3> QED  BY <3>1, <3>2
  <2>2. a.keys = "live" /\ a.num = Len(Part(line, HalfAt(c, k)))
    <3>1. CASE k < c
      <4>1. k - 1 < c  BY <1>1, <3>1
      <4> QED  BY <1>4, <3>1, <4>1 DEF Halved, HalfAt, Current
    <3>2. CASE k > c
      <4>1. ~ (k - 1 < c) /\ ~ (k < c)  BY <1>1, <3>2
      <4> QED  BY <1>4, <4>1 DEF Halved, HalfAt, Current
    <3> QED  BY <1>1, <1>6, <3>1, <3>2
  <2>3. IsArray(a) /\ a.num \in Nat  BY HalfIsArray DEF IsKeying
  <2>4. Len(new) <= a.num
    <3>1. Len(new) <= Len(Part(line, HalfAt(c, k)))  BY <1>1, SoFarSteps
    <3> QED  BY <2>2, <3>1
  <2>5. /\ t.kind = "field" => new = Append(old, t.key)
        /\ t.kind # "field" => new = old
        BY <1>6, SoFarNext
  <2>6. t.key \in KeysIn(line)  BY DEF KeysIn, Divided, IsTokens
  <2>7. /\ t.kind = "field" => Len(new) = m + 1 /\ new[m+1] = t.key
        /\ t.kind # "field" => Len(new) = m
        /\ \A i \in 1 .. m : new[i] = old[i]
    <3>1. CASE t.kind = "field"
      <4>1. /\ Len(Append(old, t.key)) = Len(old) + 1
            /\ \A i \in 1 .. Len(old) : Append(old, t.key)[i] = old[i]
            /\ Append(old, t.key)[Len(old) + 1] = t.key
        <5> HIDE DEF old, t
        <5> QED  BY <1>2, <2>6, AppendProperties
      <4> QED  BY <2>5, <3>1, <4>1
    <3>2. CASE t.kind # "field"  BY <2>5, <3>2
    <3> QED  BY <3>1, <3>2
  <2>8. p.index <= a.num  BY <1>2, <2>1, <2>3, <2>4, <2>7
  <2>9. /\ Halved(q, c, k) /\ q.index = p.index + 1
        /\ Current(q) = WithKey(a, p.index, t.key)
        /\ k < c => q.object = p.object
        /\ k > c => q.subject = p.subject
        BY <1>4, <1>6, <2>2, <2>8, KeyFits
  <2>10. Stored(a, old)  BY DEF Learning
  <2>11. k >= c => Stored(p.subject, Part(line, "subject")) /\ q.subject = p.subject
    <3>1. k >= c => k > c /\ k - 1 >= c  BY <1>1, <1>6
    <3> QED  BY <2>9, <3>1 DEF Learning
  <2> DEFINE b == Current(q)
  <2> HIDE DEF a, b, q, new, old, m, t
  <2>12. p.index \in 0 .. a.num  BY <1>4, <2>3, <2>8
  <2>13. b.key[p.index] = t.key /\ \A j \in 0 .. a.num : j # p.index => b.key[j] = a.key[j]
         BY <2>2, <2>3, <2>9, <2>12, StoredIsArray DEF b
  <2>14. ASSUME NEW i \in 1 .. Len(new) PROVE b.key[i-1] = new[i]
    <3>1. CASE i = m + 1
      <4>1. t.kind = "field" /\ i - 1 = p.index  BY <1>2, <2>1, <2>7, <3>1
      <4> QED  BY <2>7, <2>13, <3>1, <4>1
    <3>2. CASE i # m + 1
      <4>1. i \in 1 .. m /\ i - 1 \in 0 .. a.num /\ i - 1 # p.index
            BY <1>2, <2>1, <2>3, <2>4, <2>7, <3>2
      <4>2. b.key[i-1] = a.key[i-1]  BY <2>13, <4>1
      <4>3. a.key[i-1] = old[i]  BY <2>10, <4>1 DEF Stored, m
      <4> QED  BY <2>7, <4>1, <4>2, <4>3
    <3> QED  BY <3>1, <3>2
  <2>15. q.index = IF t.kind = "word" THEN Len(new) + 1 ELSE Len(new)
    <3>1. t.kind = "word" \/ t.kind = "field"
      <4>1. IsToken(t)  BY DEF Divided, IsTokens, t
      <4> QED  BY <4>1, <1>3, <1>6, TokenKinds
    <3> QED  BY <1>2, <2>1, <2>7, <2>9, <3>1
  <2>16. Stored(Current(q), new)  BY <2>14 DEF Stored, b
  <2>17. Learning(q, line, c, k)
    <3>1. k > 0  OBVIOUS
    <3> QED  BY <2>9, <2>11, <2>15, <2>16, <3>1 DEF Learning, new, t
  <2> QED  BY <2>17 DEF q
<1> QED  BY <1>5, <1>6

LEMMA KeysLearned ==
  ASSUME IsArray(subject), IsArray(object), NEW line, IsLine(line),
         Plain(line), WordsLast(line),
         NEW left \in Nat, Counted(line, left).rc = OK
  PROVE  LET k == Keyed(line, Counted(line, left))
         IN /\ k.subject.num = Len(Part(line, "subject"))
            /\ Stored(k.subject, Part(line, "subject"))
            /\ k.object.num = Len(Part(line, "object"))
            /\ Stored(k.object, Part(line, "object"))
<1> DEFINE tokens == line.tokens
           n == Len(tokens)
           counted == Counted(line, left)
           base == CountBase(left)
           kb == KeyBase(counted)
<1>1. /\ Buffer(line) = tokens
      /\ \A k \in 1 .. n : Equals(tokens[k]) = IF tokens[k].kind = "field" THEN 1 ELSE 0
      BY PlainIsDivided
<1>2. PICK c : Divided(tokens, c)  BY PlainIsDivided
<1>3. n \in Nat /\ c \in 1 .. n /\ IsTokens(tokens)  BY <1>2 DEF Divided, IsTokens
<1>4. /\ IsCount(base) /\ base.num = 0
      /\ IsArray(counted.subject) /\ IsArray(counted.object)
      BY CountedRun DEF CountBase
<1>5. PICK count : /\ CountingRun(count, base, tokens) /\ count[n].rc = OK
                   /\ counted.subject = count[n].subject
                   /\ counted.object = Fresh(count[n].num)
      BY <1>1, CountedRun
<1>6. PICK run : KeyingRun(run, kb, tokens) /\ Keyed(line, counted) = run[n]
      BY <1>1, <1>4, KeyedRun
<1>7. IsKeying(kb)  BY <1>4, KeyedRun
<1>8. kb.subject = counted.subject /\ kb.object = counted.object
      /\ kb.half = "subject" /\ kb.index = 0 /\ kb.status = "live"
      BY DEF KeyBase
<1> HIDE DEF counted, base, kb
<1>9. count[n].num = Len(Part(line, "object"))
      /\ count[n].subject = Fresh(Len(Part(line, "subject")))
      BY <1>1, <1>2, <1>4, <1>5, CountsAreKeys
<1>10. /\ counted.subject.keys = "live" /\ counted.subject.num = Len(Part(line, "subject"))
       /\ counted.object.keys = "live" /\ counted.object.num = Len(Part(line, "object"))
       BY <1>5, <1>9 DEF Fresh
<1>11. \A k \in 0 .. n :
         /\ IsKeying(run[k])
         /\ run[k].subject.keys = "live" /\ run[k].subject.num = Len(Part(line, "subject"))
         /\ run[k].object.keys = "live" /\ run[k].object.num = Len(Part(line, "object"))
       BY <1>3, <1>6, <1>7, <1>8, <1>10, KeysAreKeys
<1> DEFINE good == {k \in 0 .. n : Learning(run[k], line, c, k)}
<1>12. 0 \in good
  <2>1. run[0] = kb  BY <1>6 DEF KeyingRun
  <2>2. 0 < c  BY <1>3
  <2>3. Halved(kb, c, 0)  BY <1>8, <2>2 DEF Halved, HalfAt
  <2>4. SoFar(line, c, 0) = <<>> /\ Len(<<>>) = 0  BY <1>2, SoFarSteps
  <2>5. Stored(Current(kb), <<>>)  BY <2>4 DEF Stored
  <2>6. ~ (0 > 0) /\ ~ (0 >= c)  BY <1>3, <2>2
  <2>7. Learning(kb, line, c, 0)
    <3>1. Stored(Current(kb), SoFar(line, c, 0))  BY <2>4, <2>5
    <3>2. kb.index = Len(SoFar(line, c, 0))  BY <1>8, <2>4
    <3> QED  BY <2>3, <2>6, <3>1, <3>2 DEF Learning
  <2> QED  BY <1>3, <2>1, <2>7
<1>13. ASSUME NEW k \in 1 .. n, k - 1 \in good PROVE k \in good
  <2>1. k - 1 \in 0 .. n /\ k \in 0 .. n  BY <1>3
  <2>2. run[k] = SetKey(run[k-1], tokens[k])  BY <1>6 DEF KeyingRun
  <2>3. Learning(SetKey(run[k-1], tokens[k]), line, c, k)
        BY <1>2, <1>11, <1>13, <2>1, LearningStep
  <2> QED  BY <2>1, <2>2, <2>3
<1>14. 0 .. n \subseteq good
  <2> HIDE DEF good, n
  <2> QED  BY <1>3, <1>12, <1>13, NaturalNumbers!UpTo
<1>15. n \in 0 .. n /\ n >= c /\ ~ (n < c)  BY <1>3
<1>16. Learning(run[n], line, c, n)  BY <1>14, <1>15
<1>17. SoFar(line, c, n) = Part(line, "object")  BY <1>2, SoFarSteps
<1>18. Current(run[n]) = run[n].object  BY <1>15, <1>16 DEF Learning, Halved, HalfAt, Current
<1>19. Stored(run[n].subject, Part(line, "subject")) /\ Stored(run[n].object, Part(line, "object"))
       BY <1>15, <1>16, <1>17, <1>18 DEF Learning
<1> HIDE DEF n
<1> QED  BY <1>6, <1>11, <1>15, <1>19 DEF counted

Learned ==
  imbued /\ Plain(exemplar) /\ WordsLast(exemplar) =>
    /\ subject.num = Len(Part(exemplar, "subject")) /\ Stored(subject, Part(exemplar, "subject"))
    /\ object.num = Len(Part(exemplar, "object")) /\ Stored(object, Part(exemplar, "object"))

LEMMA LearnedStep ==
  ASSUME Safe, Learned, [Next]_vars
  PROVE  Learned'
<1>1. IsArray(subject) /\ IsArray(object)  BY DEF Safe
<1>2. ASSUME NEW line \in Lines, ImbueRefused(line) PROVE Learned'
      BY <1>2 DEF ImbueRefused, Learned
<1>3. ASSUME NEW line \in Lines, Imbue(line) PROVE Learned'
  <2>1. CASE imbued' = FALSE  BY <2>1 DEF Learned
  <2>2. ASSUME NEW left \in Nat, Counted(line, left).rc = OK,
               subject' = Keyed(line, Counted(line, left)).subject,
               object' = Keyed(line, Counted(line, left)).object, exemplar' = line
        PROVE  Learned'
    <3>1. IsLine(line)  BY LinesAssumption
    <3>2. Plain(line) /\ WordsLast(line) =>
            /\ subject'.num = Len(Part(line, "subject")) /\ Stored(subject', Part(line, "subject"))
            /\ object'.num = Len(Part(line, "object")) /\ Stored(object', Part(line, "object"))
          BY <1>1, <2>2, <3>1, KeysLearned
    <3> QED  BY <2>2, <3>2 DEF Learned
  <2>3. \/ imbued' = FALSE
        \/ \E left \in Nat :
             /\ Counted(line, left).rc = OK
             /\ subject' = Keyed(line, Counted(line, left)).subject
             /\ object' = Keyed(line, Counted(line, left)).object
             /\ exemplar' = line
        BY <1>1, <1>3, ImbueResult
  <2> QED  BY <2>1, <2>2, <2>3
<1>4. ASSUME NEW line \in Lines, Parse(line) PROVE Learned'
  <2>1. /\ SameKeys(subject, subject') /\ SameKeys(object, object')
        /\ UNCHANGED <<exemplar, imbued>>
        BY <1>1, <1>4, ParseResult
  <2> QED  BY <2>1 DEF Learned, Stored, SameKeys
<1>5. CASE UNCHANGED <<subject, object, exemplar, imbued>>  BY <1>5 DEF Learned, Stored
<1> QED  BY <1>2, <1>3, <1>4, <1>5 DEF Next, Calls, GetField, Destroy, vars

LEMMA LearnedInit ==
  ASSUME Init
  PROVE  Learned
BY DEF Init, Learned

(* Between two imbues the keys of the context are those of the exemplar, one*)
(* by one, whatever it was taught before and whatever it parsed since.      *)
THEOREM KeysStayTheExemplars == Spec => []KeysOfTheExemplar
<1>1. Learned => KeysOfTheExemplar
  <2>1. ASSUME NEW a, NEW keys, a.num = Len(keys), Stored(a, keys)
        PROVE  \A i \in 1 .. a.num : a.key[i-1] = keys[i]
        BY <2>1 DEF Stored
  <2> QED  BY <2>1 DEF Learned, KeysOfTheExemplar
<1> QED  BY <1>1, SafeInit, SafeStep, LearnedInit, LearnedStep, PTL DEF Spec

-----------------------------------------------------------------------------
(* A plain record read with the keys of a plain exemplar: as long as it is  *)
(* not refused, the parser is at the record's next field, and the fields up *)
(* to there are those of the exemplar.                                      *)
LEMMA FieldFollows ==
  ASSUME NEW p, IsParsing(p), Running(p), NEW t,
         NEW keys, Len(keys) \in Nat, Current(p).keys = "live",
         Current(p).num = Len(keys), Stored(Current(p), keys)
  PROVE  LET q == MatchKey(p, t)
             m == p.index + 1
         IN /\ q.half = p.half
            /\ Running(q) => q.index = m /\ (m <= Len(keys) => t.key = keys[m])
            /\ m <= Len(keys) /\ keys[m] # NULL =>
                 q.status = "live" /\ (t.key = keys[m] => Running(q))
<1> DEFINE q == MatchKey(p, t)
           a == Current(p)
           m == p.index + 1
<1>1. p.index \in Nat  BY DEF IsParsing
<1>2. IsArray(a)  BY HalfIsArray DEF IsParsing
<1>3. Access(a, p.index) = "live" <=> a.keys = "live" /\ p.index <= a.num
      BY <1>1, <1>2, AccessLive
<1>4. /\ q.half = p.half
      /\ q.rc = OK \/ q.status = "live"
      /\ q.status # "live" => Access(a, p.index) # "live" \/ a.key[p.index] = NULL
      /\ q.rc # OK => Access(a, p.index) = "live" /\ a.key[p.index] # t.key
      /\ Running(q) => a.key[p.index] = t.key /\ q.index = m
      BY MatchStep
<1>5. m <= Len(keys) => a.key[p.index] = keys[m] /\ p.index <= Len(keys)
  <2>1. m <= Len(keys) => m \in 1 .. Len(keys) /\ m - 1 = p.index /\ p.index <= Len(keys)
        BY <1>1
  <2> HIDE DEF m
  <2> QED  BY <2>1 DEF Stored
<1> HIDE DEF q, a, m
<1>6. m <= Len(keys) /\ keys[m] # NULL =>
        q.status = "live" /\ (t.key = keys[m] => Running(q))
      BY <1>3, <1>4, <1>5 DEF Running, a
<1>7. Running(q) => q.index = m /\ (m <= Len(keys) => t.key = keys[m])
      BY <1>4, <1>5
<1> QED  BY <1>4, <1>6, <1>7 DEF q, m

Taught(p, other) ==
  /\ p.subject.keys = "live" /\ p.subject.num = Len(Part(other, "subject"))
  /\ Stored(p.subject, Part(other, "subject"))
  /\ p.object.keys = "live" /\ p.object.num = Len(Part(other, "object"))
  /\ Stored(p.object, Part(other, "object"))

Agree(keys, others) == \A i \in 1 .. Len(keys) : i <= Len(others) => keys[i] = others[i]

Following(p, line, other, c, k) ==
  Running(p) =>
    /\ p.half = HalfAt(c, k) /\ p.index = Len(SoFar(line, c, k))
    /\ Agree(SoFar(line, c, k), Part(other, HalfAt(c, k)))
    /\ k >= c => /\ Len(Part(line, "subject")) = Len(Part(other, "subject"))
                 /\ Agree(Part(line, "subject"), Part(other, "subject"))

(* The exemplar's keys, which the array holds; no half of the line goes on  *)
(* after those of the exemplar.                                             *)
HasKeys(other) ==
  \A half \in {"subject", "object"} :
    /\ Part(other, half) \in Seq(KeysIn(other)) /\ Len(Part(other, half)) \in Nat
    /\ \A i \in 1 .. Len(Part(other, half)) : Part(other, half)[i] # NULL

NotLonger(line, other) ==
  \A half \in {"subject", "object"} : Len(Part(line, half)) <= Len(Part(other, half))

LEMMA HalfSoFar ==
  ASSUME NEW line, NEW c, Divided(line.tokens, c), NEW k \in 0 .. Len(line.tokens)
  PROVE  LET whole == Part(line, HalfAt(c, k))
             some == SoFar(line, c, k)
         IN /\ Len(some) <= Len(whole) /\ \A i \in 1 .. Len(some) : some[i] = whole[i]
            /\ some \in Seq(KeysIn(line)) /\ Len(some) \in Nat
            /\ whole \in Seq(KeysIn(line)) /\ Len(whole) \in Nat
<1> DEFINE n == Len(line.tokens)
           half == HalfAt(c, k)
<1>1. n \in 0 .. n  BY DEF Divided, IsTokens
<1>2. half \in {"subject", "object"}  BY DEF HalfAt
<1>3. PartUpTo(line, half)[n] \in Seq(KeysIn(line))
  <2> HIDE DEF half
  <2> QED  BY <1>1, <1>2, PartSteps
<1>4. Part(line, half) \in Seq(KeysIn(line))  BY <1>3 DEF Part
<1>5. SoFar(line, c, k) \in Seq(KeysIn(line))  BY SoFarSteps
<1>6. /\ Len(PartUpTo(line, half)[k]) <= Len(PartUpTo(line, half)[n])
      /\ \A i \in 1 .. Len(PartUpTo(line, half)[k]) :
           PartUpTo(line, half)[k][i] = PartUpTo(line, half)[n][i]
  <2>1. k <= n  BY <1>1
  <2> HIDE DEF half
  <2> QED  BY <1>1, <1>2, <2>1, PartGrows
<1>7. SoFar(line, c, k) = PartUpTo(line, half)[k] /\ Part(line, half) = PartUpTo(line, half)[n]
      BY DEF SoFar, Part
<1> HIDE DEF half, n
<1>8. /\ Len(SoFar(line, c, k)) <= Len(Part(line, half))
      /\ \A i \in 1 .. Len(SoFar(line, c, k)) : SoFar(line, c, k)[i] = Part(line, half)[i]
      BY <1>6, <1>7
<1> QED  BY <1>4, <1>5, <1>8, LenProperties DEF half, n

LEMMA FollowingStep ==
  ASSUME NEW line, NEW c, Divided(line.tokens, c),
         \A k \in 1 .. Len(line.tokens) :
           Equals(line.tokens[k]) = IF line.tokens[k].kind = "field" THEN 1 ELSE 0,
         NEW other, HasKeys(other),
         NEW k \in 1 .. Len(line.tokens),
         NEW p, IsParsing(p), Taught(p, other), Following(p, line, other, c, k - 1)
  PROVE  LET q == ParseToken(p, line.tokens[k])
         IN /\ Following(q, line, other, c, k)
            /\ NotLonger(line, other) /\ p.status = "live" => q.status = "live"
            /\ SameFields(line, other) /\ Running(p) => Running(q)
<1> DEFINE q == ParseToken(p, line.tokens[k])
           t == line.tokens[k]
           n == Len(line.tokens)
           half == HalfAt(c, k)
           old == SoFar(line, c, k - 1)
           new == SoFar(line, c, k)
           keys == Part(other, half)
<1>1. n \in Nat /\ c \in 1 .. n /\ k - 1 \in 0 .. n /\ k \in 0 .. n
      BY DEF Divided, IsTokens
<1>2. IsToken(t) /\ (t.kind = "colon" <=> k = c) /\ t.kind \in {"field", "word", "colon"}
      BY TokenKinds DEF Divided, IsTokens
<1>3. half \in {"subject", "object"}  BY DEF HalfAt
<1> HIDE DEF q
<1>4. SoFar(line, c, c) = <<>> /\ SoFar(line, c, c - 1) = Part(line, "subject")
      BY SoFarSteps
<1>5. /\ Len(new) <= Len(Part(line, half))
      /\ \A i \in 1 .. Len(new) : new[i] = Part(line, half)[i]
      /\ Len(Part(line, half)) \in Nat
      BY <1>1, HalfSoFar
<1>6. CASE ~ Running(p)
  <2>1. q = p  BY <1>2, <1>6, ParseStep DEF q
  <2> QED  BY <2>1, <1>6 DEF Following, q
<1>7. CASE Running(p) /\ k = c
  <2>1. old = Part(line, "subject") /\ Len(new) = 0  BY <1>7, <1>4
  <2>2. k - 1 < c /\ ~ (k < c)  BY <1>1, <1>7
  <2>3. p.index = Len(old) /\ Agree(old, Part(other, "subject"))
        BY <1>7, <2>2 DEF Following, HalfAt
  <2>4. p.subject.num = Len(Part(other, "subject"))  BY DEF Taught
  <2>5. IF p.index = p.subject.num
        THEN q.half = "object" /\ q.index = 0 /\ Running(q)
        ELSE q.rc = PARSE_ERROR /\ q.status = "live"
        BY <1>2, <1>7, ParseStep DEF q
  <2>6. half = "object"  BY <2>2 DEF HalfAt
  <2>7. Agree(new, keys)  BY <2>1 DEF Agree
  <2>8. q.status = "live"  BY <2>5 DEF Running
  <2>9. SameFields(line, other) => p.index = p.subject.num
        BY <2>1, <2>3, <2>4 DEF SameFields
  <2>10. PARSE_ERROR # OK  BY CodesAssumption
  <2> HIDE DEF q, old, new, keys, half
  <2>11. Running(q) => /\ q.half = half /\ q.index = Len(new) /\ Agree(new, keys)
                       /\ Len(Part(line, "subject")) = Len(Part(other, "subject"))
                       /\ Agree(Part(line, "subject"), Part(other, "subject"))
    <3>1. CASE p.index = p.subject.num
          BY <3>1, <2>1, <2>3, <2>4, <2>5, <2>6, <2>7
    <3>2. CASE p.index # p.subject.num  BY <3>2, <2>5, <2>10 DEF Running
    <3> QED  BY <3>1, <3>2
  <2>12. Following(q, line, other, c, k)  BY <2>11 DEF Following, new, keys, half
  <2> QED  BY <2>5, <2>8, <2>9, <2>12 DEF q
<1>8. CASE Running(p) /\ k # c
  <2>1. half = HalfAt(c, k - 1)  BY <1>1, <1>8 DEF HalfAt
  <2>2. p.half = half /\ p.index = Len(old) /\ Agree(old, keys)
        BY <1>8, <2>1 DEF Following
  <2>3. k >= c => /\ Len(Part(line, "subject")) = Len(Part(other, "subject"))
                  /\ Agree(Part(line, "subject"), Part(other, "subject"))
    <3>1. k >= c => k - 1 >= c  BY <1>1, <1>8
    <3> QED  BY <3>1, <1>8 DEF Following
  <2>4. old \in Seq(KeysIn(line)) /\ Len(old) \in Nat
        BY <1>1, SoFarSteps, LenProperties
  <2>5. CASE t.kind = "word"
    <3>1. q = p  BY <1>2, <2>5, ParseStep DEF q
    <3>2. new = old
      <4>1. t.kind # "field"  BY <2>5
      <4> QED  BY <4>1, <1>8, SoFarNext
    <3> HIDE DEF q, t, old, new, keys, half
    <3>3. Running(q) => /\ q.half = half /\ q.index = Len(new) /\ Agree(new, keys)
          BY <2>2, <3>1, <3>2
    <3>4. Following(q, line, other, c, k)
          BY <2>3, <3>3 DEF Following, new, keys, half
    <3> QED  BY <3>1, <3>4 DEF q
  <2>6. CASE t.kind = "field"
    <3> DEFINE m == p.index + 1
    <3>1. q = MatchKey(p, t)
      <4>1. Equals(t) = 1  BY <2>6
      <4> QED  BY <4>1, <1>2, <1>8, <2>6, ParseStep DEF q
    <3>2. Current(p).keys = "live" /\ Current(p).num = Len(keys) /\ Stored(Current(p), keys)
      <4>1. CASE half = "subject"  BY <2>2, <4>1 DEF Taught, Current
      <4>2. CASE half = "object"  BY <2>2, <4>2 DEF Taught, Current
      <4> QED  BY <1>3, <4>1, <4>2
    <3>3. Len(keys) \in Nat /\ \A i \in 1 .. Len(keys) : keys[i] # NULL
          BY <1>3 DEF HasKeys
    <3>4. t.key \in KeysIn(line)  BY DEF KeysIn, Divided, IsTokens
    <3>5. new = Append(old, t.key)  BY <1>8, <2>6, SoFarNext
    <3>6. Len(new) <= Len(Part(line, half)) /\ \A i \in 1 .. Len(new) : new[i] = Part(line, half)[i]
          BY <1>5
    <3> HIDE DEF q, t, old, keys, half
    <3>7. /\ Len(new) = m /\ new[m] = t.key
          /\ \A i \in 1 .. Len(old) : new[i] = old[i]
      <4> HIDE DEF new, m
      <4>1. /\ Len(Append(old, t.key)) = Len(old) + 1
            /\ \A i \in 1 .. Len(old) : Append(old, t.key)[i] = old[i]
            /\ Append(old, t.key)[Len(old) + 1] = t.key
            BY <2>4, <3>4, AppendProperties
      <4> QED  BY <2>2, <3>5, <4>1 DEF m
    <3> HIDE DEF new
    <3>8. m \in 1 .. Len(new) /\ m \in Nat  BY <2>2, <2>4, <3>7
    <3>9. /\ q.half = p.half
          /\ Running(q) => q.index = m /\ (m <= Len(keys) => t.key = keys[m])
          /\ m <= Len(keys) /\ keys[m] # NULL =>
               q.status = "live" /\ (t.key = keys[m] => Running(q))
          BY <1>8, <3>1, <3>2, <3>3, FieldFollows
    <3> HIDE DEF m
    <3>10. ASSUME Running(q) PROVE Agree(new, keys)
      <4>1. ASSUME NEW i \in 1 .. Len(new), i <= Len(keys) PROVE new[i] = keys[i]
        <5>1. CASE i = m  BY <4>1, <5>1, <3>7, <3>9, <3>10
        <5>2. CASE i # m
          <6>1. i \in 1 .. Len(old)  BY <2>2, <2>4, <3>7, <5>2 DEF m
          <6> QED  BY <4>1, <6>1, <2>2, <3>7 DEF Agree
        <5> QED  BY <5>1, <5>2
      <4> QED  BY <4>1 DEF Agree
    <3>11. Following(q, line, other, c, k)
      <4>1. Running(q) => q.half = half /\ q.index = Len(new) /\ Agree(new, keys)
            BY <2>2, <3>7, <3>9, <3>10
      <4> QED  BY <2>3, <4>1 DEF Following, new, keys, half
    <3>12. ASSUME NotLonger(line, other) PROVE m <= Len(keys) /\ keys[m] # NULL
      <4>1. Len(Part(line, half)) <= Len(keys)  BY <1>3, <3>12 DEF NotLonger, keys
      <4>2. Len(Part(line, half)) \in Nat
        BY <1>5
      <4>3. m <= Len(keys)  BY <3>3, <3>6, <3>7, <3>8, <4>1, <4>2
      <4> QED  BY <3>3, <3>8, <4>3
    <3>13. ASSUME SameFields(line, other) PROVE t.key = keys[m] /\ NotLonger(line, other)
      <4>1. Part(line, half) = keys  BY <1>3, <3>13 DEF SameFields, keys
      <4>2. t.key = keys[m]  BY <3>6, <3>7, <3>8, <4>1
      <4>3. ASSUME NEW h \in {"subject", "object"}
            PROVE  Len(Part(line, h)) <= Len(Part(other, h))
        <5>1. Part(line, h) = Part(other, h) /\ Len(Part(other, h)) \in Nat
              BY <3>13 DEF SameFields, HasKeys
        <5> QED  BY <5>1
      <4> QED  BY <4>2, <4>3 DEF NotLonger
    <3>14. NotLonger(line, other) => q.status = "live"  BY <3>9, <3>12
    <3>15. SameFields(line, other) => Running(q)  BY <3>9, <3>12, <3>13
    <3> QED  BY <3>11, <3>14, <3>15 DEF q
  <2> QED  BY <1>2, <1>8, <2>5, <2>6
<1> QED  BY <1>6, <1>7, <1>8 DEF q

LEMMA PlainHasKeys ==
  ASSUME NEW line \in Lines, Plain(line)
  PROVE  HasKeys(line)
<1> DEFINE n == Len(line.tokens)
<1>1. IsLine(line)  BY LinesAssumption
<1>2. PICK c : Divided(line.tokens, c)  BY <1>1, PlainIsDivided
<1>3. n \in 0 .. n /\ DOMAIN line.tokens = 1 .. n  BY <1>2 DEF Divided, IsTokens
<1>4. NULL \notin KeysIn(line)  BY LinesAssumption DEF KeysIn
<1>5. ASSUME NEW half \in {"subject", "object"}
      PROVE  /\ Part(line, half) \in Seq(KeysIn(line)) /\ Len(Part(line, half)) \in Nat
             /\ \A i \in 1 .. Len(Part(line, half)) : Part(line, half)[i] # NULL
  <2>1. PartUpTo(line, half)[n] \in Seq(KeysIn(line))  BY <1>2, <1>3, PartSteps
  <2>2. Part(line, half) \in Seq(KeysIn(line))  BY <2>1 DEF Part
  <2>3. ASSUME NEW keys, keys \in Seq(KeysIn(line))
        PROVE  Len(keys) \in Nat /\ \A i \in 1 .. Len(keys) : keys[i] \in KeysIn(line)
        BY <2>3
  <2> QED  BY <1>4, <2>2, <2>3
<1> QED  BY <1>5 DEF HasKeys

LEMMA PartsAgree ==
  ASSUME NEW line, NEW other, HasKeys(line), HasKeys(other), NEW half \in {"subject", "object"},
         Len(Part(line, half)) = Len(Part(other, half)), Agree(Part(line, half), Part(other, half))
  PROVE  Part(line, half) = Part(other, half)
<1> DEFINE p == Part(line, half)
           q == Part(other, half)
           T == KeysIn(line) \union KeysIn(other)
<1>1. p \in Seq(KeysIn(line)) /\ q \in Seq(KeysIn(other)) /\ Len(q) \in Nat  BY DEF HasKeys
<1>2. KeysIn(line) \subseteq T /\ KeysIn(other) \subseteq T  OBVIOUS
<1> HIDE DEF p, q, T
<1>3. p \in Seq(T) /\ q \in Seq(T)  BY <1>1, <1>2, SeqMonotonic
<1>4. Len(p) = Len(q) /\ \A i \in 1 .. Len(p) : p[i] = q[i]  BY <1>1 DEF Agree, p, q
<1>5. p = q  BY <1>3, <1>4, SeqEqual
<1> QED  BY <1>5 DEF p, q

(* A plain record is accepted if and only if it has the exemplar's fields,  *)
(* and if it goes on after none of the exemplar's halves nothing undefined  *)
(* happens.                                                                 *)
LEMMA ParsedFollows ==
  ASSUME IsArray(subject), IsArray(object), NEW line \in Lines, Plain(line),
         NEW other, HasKeys(other), Taught([subject |-> subject, object |-> object], other)
  PROVE  LET q == Parsed(line)
         IN /\ Running(q) <=> SameFields(line, other)
            /\ NotLonger(line, other) => q.status = "live"
<1> DEFINE tokens == line.tokens
           n == Len(tokens)
           q == Parsed(line)
           base == ParseBase
<1>1. IsLine(line) /\ HasKeys(line)  BY LinesAssumption, PlainHasKeys
<1>2. PICK c : Divided(tokens, c)  BY <1>1, PlainIsDivided
<1>3. \A k \in 1 .. n : Equals(tokens[k]) = IF tokens[k].kind = "field" THEN 1 ELSE 0
      BY <1>1, PlainIsDivided
<1>4. IsTokens(tokens) /\ n \in Nat /\ c \in 1 .. n  BY <1>2 DEF Divided, IsTokens
<1>5. IsParsing(base) /\ base.half = "subject" /\ base.index = 0 /\ Running(base)
  <2>1. IsParsing(base)  BY <1>1, ParsedRun
  <2> QED  BY <2>1 DEF ParseBase, Running
<1>6. ~ line.endsBlank  BY DEF Plain
<1> HIDE DEF q
<1>7. PICK run : /\ ParsingRun(run, base, tokens)
                 /\ Running(q) <=> Running(run[n]) /\ run[n].index = run[n].object.num
                 /\ q.status = run[n].status
      BY <1>1, <1>6, ParsedRun DEF q
<1>8. Taught(base, other)
  <2>1. SameKeys(subject, base.subject) /\ SameKeys(object, base.object)
    <3>1. base.subject = Aged(subject) /\ base.object = Aged(object)  BY DEF ParseBase
    <3> QED  BY <3>1, AgedIsArray
  <2> HIDE DEF base
  <2> QED  BY <2>1 DEF Taught, SameKeys, Stored
<1> HIDE DEF base, tokens, n
<1>9. \A k \in 0 .. n : IsParsing(run[k]) /\ Taught(run[k], other)
  <2>1. \A k \in 0 .. n :
          /\ IsParsing(run[k])
          /\ SameKeys(base.subject, run[k].subject) /\ SameKeys(base.object, run[k].object)
        BY <1>4, <1>5, <1>7, ParsesAreParses DEF n
  <2>2. ASSUME NEW p, SameKeys(base.subject, p.subject), SameKeys(base.object, p.object)
        PROVE  Taught(p, other)
        BY <1>8, <2>2 DEF Taught, SameKeys, Stored
  <2> QED  BY <2>1, <2>2
<1> DEFINE Good(p, k) == /\ Following(p, line, other, c, k)
                         /\ NotLonger(line, other) => p.status = "live"
                         /\ SameFields(line, other) => Running(p)
           good == {k \in 0 .. n : Good(run[k], k)}
<1>10. 0 \in good
  <2>1. run[0] = base  BY <1>7 DEF ParsingRun
  <2>2. SoFar(line, c, 0) = <<>> /\ Len(<<>>) = 0  BY <1>2, SoFarSteps DEF tokens
  <2>3. 0 < c /\ ~ (0 >= c)  BY <1>4
  <2>4. base.half = HalfAt(c, 0)  BY <1>5, <2>3 DEF HalfAt
  <2>5. Agree(SoFar(line, c, 0), Part(other, HalfAt(c, 0)))  BY <2>2 DEF Agree
  <2>6. base.index = Len(SoFar(line, c, 0))  BY <1>5, <2>2
  <2>7. Following(base, line, other, c, 0)  BY <2>3, <2>4, <2>5, <2>6 DEF Following
  <2>8. base.status = "live"  BY <1>5 DEF Running
  <2> QED  BY <1>4, <1>5, <2>1, <2>7, <2>8
<1>11. ASSUME NEW k \in 1 .. n, k - 1 \in good PROVE k \in good
  <2>1. k - 1 \in 0 .. n /\ k \in 0 .. n  BY <1>4
  <2>2. run[k] = ParseToken(run[k-1], tokens[k])  BY <1>7 DEF ParsingRun, n
  <2>3. IsParsing(run[k-1]) /\ Taught(run[k-1], other) /\ Good(run[k-1], k - 1)
        BY <1>9, <1>11, <2>1
  <2>4. Good(ParseToken(run[k-1], tokens[k]), k)
        BY <1>2, <1>3, <2>3, FollowingStep DEF tokens, n
  <2> HIDE DEF Good
  <2> QED  BY <2>1, <2>2, <2>4
<1>12. 0 .. n \subseteq good
  <2> HIDE DEF good
  <2> QED  BY <1>4, <1>10, <1>11, NaturalNumbers!UpTo
<1>13. n \in 0 .. n /\ n >= c /\ ~ (n < c)  BY <1>4
<1>14. Good(run[n], n) /\ Taught(run[n], other)  BY <1>9, <1>12, <1>13
<1>15. SoFar(line, c, n) = Part(line, "object") /\ HalfAt(c, n) = "object"
  <2>1. SoFar(line, c, n) = Part(line, "object")  BY <1>2, SoFarSteps DEF tokens, n
  <2> QED  BY <2>1, <1>13 DEF HalfAt
<1>16. ASSUME Running(run[n]), run[n].index = run[n].object.num
       PROVE  SameFields(line, other)
  <2>1. /\ Len(Part(line, "object")) = Len(Part(other, "object"))
        /\ Agree(Part(line, "object"), Part(other, "object"))
        /\ Len(Part(line, "subject")) = Len(Part(other, "subject"))
        /\ Agree(Part(line, "subject"), Part(other, "subject"))
        BY <1>13, <1>14, <1>15, <1>16 DEF Following, Taught
  <2> QED  BY <1>1, <2>1, PartsAgree DEF SameFields
<1>17. ASSUME SameFields(line, other)
       PROVE  Running(run[n]) /\ run[n].index = run[n].object.num
  <2>1. Running(run[n]) /\ run[n].index = Len(Part(line, "object"))
        BY <1>14, <1>15, <1>17 DEF Following
  <2>2. Part(line, "object") = Part(other, "object")  BY <1>17 DEF SameFields
  <2> QED  BY <1>14, <2>1, <2>2 DEF Taught
<1>18. NotLonger(line, other) => q.status = "live"  BY <1>7, <1>14
<1> QED  BY <1>7, <1>16, <1>17, <1>18 DEF q

LEMMA AnswerStep ==
  ASSUME Safe, Learned, AcceptsTheSameFields, CrashesOnMoreFieldsOnly, [Next]_vars
  PROVE  AcceptsTheSameFields' /\ CrashesOnMoreFieldsOnly'
<1>1. IsArray(subject) /\ IsArray(object)  BY DEF Safe
<1>2. CASE reply'.op # "parse"
      BY <1>2 DEF AcceptsTheSameFields, CrashesOnMoreFieldsOnly
<1>3. ASSUME NEW line \in Lines, ImbueRefused(line) PROVE reply'.op # "parse"
      BY <1>3 DEF ImbueRefused, Reply
<1>4. ASSUME NEW line \in Lines, Imbue(line) PROVE reply'.op # "parse"
  <2>1. reply'.op = "imbue"  BY <1>1, <1>4, ImbueResult
  <2> QED  BY <2>1
<1>5. ASSUME NEW array, NEW number, GetField(array, number) PROVE reply'.op # "parse"
      BY <1>5 DEF GetField, Reply
<1>6. CASE UNCHANGED <<exemplar, imbued, reply>>
      BY <1>6 DEF AcceptsTheSameFields, CrashesOnMoreFieldsOnly
<1>7. ASSUME NEW line \in Lines, Parse(line)
      PROVE  AcceptsTheSameFields' /\ CrashesOnMoreFieldsOnly'
  <2> DEFINE q == Parsed(line)
  <2>1. /\ IsParsing(q) /\ UNCHANGED <<exemplar, imbued>>
        /\ reply' = Reply("parse", line, IF q.status = "live" THEN q.rc ELSE NULL)
        BY <1>1, <1>7, ParseResult
  <2>2. SUFFICES ASSUME imbued, Plain(line), Plain(exemplar), WordsLast(exemplar)
                 PROVE  AcceptsTheSameFields' /\ CrashesOnMoreFieldsOnly'
    <3>1. reply'.line = line /\ imbued' = imbued /\ exemplar' = exemplar
          BY <2>1 DEF Reply
    <3> HIDE DEF q
    <3> QED  BY <3>1 DEF AcceptsTheSameFields, CrashesOnMoreFieldsOnly
  <2>3. exemplar \in Lines /\ subject.keys = "live" /\ object.keys = "live"
    <3>1. status = "live"  BY <1>7 DEF Parse
    <3> QED  BY <2>2, <3>1 DEF Safe
  <2>4. Taught([subject |-> subject, object |-> object], exemplar)
        BY <2>2, <2>3 DEF Learned, Taught
  <2>5. HasKeys(exemplar)  BY <2>2, <2>3, PlainHasKeys
  <2>6. /\ Running(q) <=> SameFields(line, exemplar)
        /\ NotLonger(line, exemplar) => q.status = "live"
        BY <1>1, <2>2, <2>4, <2>5, ParsedFollows
  <2> HIDE DEF q
  <2>7. reply'.line = line /\ reply'.rc = IF q.status = "live" THEN q.rc ELSE NULL
        BY <2>1 DEF Reply
  <2>8. q.rc # NULL  BY <2>1, CodesAssumption DEF IsParsing
  <2>9. OK # NULL  BY CodesAssumption
  <2>10. /\ reply'.rc # NULL <=> q.status = "live"
         /\ reply'.rc = OK <=> Running(q)
         BY <2>7, <2>8, <2>9 DEF Running
  <2>11. AcceptsTheSameFields'
         BY <2>1, <2>6, <2>7, <2>10 DEF AcceptsTheSameFields
  <2>12. reply'.rc = NULL => \E half \in {"subject", "object"} :
           Len(Part(line, half)) > Len(Part(exemplar, half))
    <3>1. reply'.rc = NULL => ~ NotLonger(line, exemplar)  BY <2>6, <2>10
    <3>2. HasKeys(line)  BY <2>2, PlainHasKeys
    <3> QED  BY <2>5, <3>1, <3>2 DEF NotLonger, HasKeys
  <2>13. CrashesOnMoreFieldsOnly'
         BY <2>1, <2>7, <2>12 DEF CrashesOnMoreFieldsOnly
  <2> QED  BY <2>11, <2>13
<1> QED  BY <1>2, <1>3, <1>4, <1>5, <1>6, <1>7 DEF Next, Calls, Destroy, vars

LEMMA AnswerInit ==
  ASSUME Init
  PROVE  AcceptsTheSameFields /\ CrashesOnMoreFieldsOnly
<1>1. reply.op = "construct"  BY DEF Init, Reply
<1> QED  BY <1>1 DEF AcceptsTheSameFields, CrashesOnMoreFieldsOnly

(* A context taught by a plain exemplar accepts the plain records that have *)
(* the exemplar's fields in its order, and refuses the others.              *)
THEOREM AcceptsTheExemplarsFields == Spec => []AcceptsTheSameFields
BY SafeInit, SafeStep, LearnedInit, LearnedStep, AnswerInit, AnswerStep, PTL DEF Spec

(* And it is safe with them, but for a record that goes on in one half after*)
(* the exemplar's last field there.                                         *)
THEOREM OnlyMoreFieldsCrash == Spec => []CrashesOnMoreFieldsOnly
BY SafeInit, SafeStep, LearnedInit, LearnedStep, AnswerInit, AnswerStep, PTL DEF Spec
=============================================================================
