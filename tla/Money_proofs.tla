----------------------------- MODULE Money_proofs ----------------------------
(***************************************************************************)
(* Proofs about the two parts whose properties are sums: the dollars kept  *)
(* as cash lots (CashLots), for any balances, any index and any range, and *)
(* the money of the goals (GoalFunding), for any rules and any incomes.    *)
(***************************************************************************)
EXTENDS CashLots, Sums_proofs

-----------------------------------------------------------------------------
(* The oldest lots first.                                                  *)

\* What the parameters are: amounts are whole, an index is a natural number.
CashIsCounted ==
    /\ Balances \subseteq Int /\ Indices \subseteq Nat /\ Scale \in Nat
    /\ Starts \subseteq Nat \ {0}

Slice  == [arrival : Nat, amount : Int]
Taking == [remaining : Int, open : Seq(Slice), consumed : Seq(Slice)]
Fresh(amount) == [remaining |-> amount, open |-> <<>>, consumed |-> <<>>]

TakeStep(queue) ==
    [p \in (Nat \ {0}) \X Taking |-> IF p[1] \in 1..Len(queue) THEN TakeFrom(p[2], queue[p[1]]) ELSE p[2]]

LEMMA TakingIsKept ==
  ASSUME NEW done \in Taking, NEW lot \in Slice
  PROVE  TakeFrom(done, lot) \in Taking
<1>1. done.remaining \in Int /\ lot.amount \in Int /\ done.open \in Seq(Slice) /\ done.consumed \in Seq(Slice)
  BY DEF Taking, Slice
<1> DEFINE taken == Least(lot.amount, done.remaining)
<1>2. taken \in Int /\ done.remaining - taken \in Int /\ lot.amount - taken \in Int BY <1>1 DEF Least
<1> HIDE DEF taken
<1>3. [lot EXCEPT !.amount = @ - taken] \in Slice /\ [lot EXCEPT !.amount = taken] \in Slice BY <1>2 DEF Slice
<1>4. Append(done.open, [lot EXCEPT !.amount = @ - taken]) \in Seq(Slice)
      /\ Append(done.consumed, [lot EXCEPT !.amount = taken]) \in Seq(Slice) BY <1>1, <1>3
<1> QED BY <1>1, <1>2, <1>4 DEF TakeFrom, Taking, taken

LEMMA TakeStepTakes ==
  ASSUME NEW queue \in Seq(Slice)
  PROVE  /\ StaysIn(TakeStep(queue), Taking)
         /\ \A k \in 1..Len(queue), a \in Taking : TakeStep(queue)[<<k, a>>] = TakeFrom(a, queue[k])
<1>1. \A k \in Nat \ {0}, a \in Taking :
        TakeStep(queue)[<<k, a>>] = IF k \in 1..Len(queue) THEN TakeFrom(a, queue[k]) ELSE a
  BY DEF TakeStep
<1>2. \A k \in 1..Len(queue) : queue[k] \in Slice /\ k \in Nat \ {0} OBVIOUS
<1>3. \A k \in 1..Len(queue), a \in Taking : TakeFrom(a, queue[k]) \in Taking BY <1>2, TakingIsKept
<1> QED BY <1>1, <1>2, <1>3 DEF StaysIn

LEMMA ConsumeIsAFold ==
  ASSUME NEW queue \in Seq(Slice), NEW amount \in Int
  PROVE  Consume(queue, amount) = Folded(TakeStep(queue), Fresh(amount), Len(queue))
<1> DEFINE n == Len(queue)
           S == 1..n
           G == TakeStep(queue)
           base == Fresh(amount)
           Takes(f) == f = [s \in SUBSET S |-> IF s = {} THEN base
                                               ELSE TakeFrom(f[s \ {Highest(s)}], queue[Highest(s)])]
           iter == CHOOSE f : Takes(f)
           it == TheFold(G, base, S)
<1>1. n \in Nat /\ DOMAIN queue = S /\ base \in Taking BY DEF Taking, Fresh
<1>2. S \in SUBSET Nat /\ IsFiniteSet(S) BY <1>1, FS_Interval
<1>3. Consume(queue, amount) = iter[S]
  BY <1>1 DEF Consume, FoldLeft, MapThenFoldSet, Max, Highest, Fresh
<1> HIDE DEF G, base, iter
<1>4. StaysIn(G, Taking) BY TakeStepTakes DEF G
<1>5. \A k \in S, a \in Taking : G[<<k, a>>] = TakeFrom(a, queue[k]) BY TakeStepTakes DEF G
<1>6. IsFold(it, G, base, S) BY <1>2, FoldExists
<1> HIDE DEF it, n, S
<1>7. /\ it[{}] = base
      /\ \A s \in SUBSET S : s # {} => Highest(s) \in s /\ it[s] = G[<<Highest(s), it[s \ {Highest(s)}]>>]
  BY <1>2, <1>6, FoldStep
<1>8. \A s \in SUBSET S : it[s] \in Taking
  <2> DEFINE Q == {s \in SUBSET S : it[s] \in Taking}
  <2>1. {} \in Q BY <1>1, <1>7
  <2>2. ASSUME NEW s \in SUBSET S, s # {}, \A x \in s : s \ {x} \in Q PROVE s \in Q
    <3>1. Highest(s) \in s /\ it[s] = G[<<Highest(s), it[s \ {Highest(s)}]>>] BY <1>7, <2>2
    <3>2. it[s \ {Highest(s)}] \in Taking BY <2>2, <3>1
    <3>3. Highest(s) \in S BY <2>2, <3>1
    <3>4. Highest(s) \in Nat \ {0} BY <1>1, <3>3 DEF S
    <3>5. it[s] \in Taking BY <1>4, <3>1, <3>2, <3>4 DEF StaysIn
    <3> QED BY <3>5
  <2> HIDE DEF Q
  <2>3. \A s \in SUBSET S : s \in Q BY <1>2, <2>1, <2>2, OneByOne
  <2> QED BY <2>3 DEF Q
<1>9. Takes(it)
  <2>1. \A s \in SUBSET S : s # {} => it[s] = TakeFrom(it[s \ {Highest(s)}], queue[Highest(s)])
    <3> SUFFICES ASSUME NEW s \in SUBSET S, s # {}
                 PROVE it[s] = TakeFrom(it[s \ {Highest(s)}], queue[Highest(s)]) OBVIOUS
    <3>1. Highest(s) \in s /\ it[s] = G[<<Highest(s), it[s \ {Highest(s)}]>>] BY <1>7
    <3>2. it[s \ {Highest(s)}] \in Taking /\ Highest(s) \in S BY <1>8, <3>1
    <3> QED BY <1>5, <3>1, <3>2
  <2>2. \A s \in SUBSET S : it[s] = IF s = {} THEN base ELSE TakeFrom(it[s \ {Highest(s)}], queue[Highest(s)])
    BY <1>7, <2>1
  <2>3. it = [s \in SUBSET S |-> it[s]] BY <1>6 DEF IsFold
  <2> QED BY <2>2, <2>3
<1>10. Takes(iter) BY <1>9 DEF iter
<1> HIDE DEF Takes
<1>11. /\ iter[{}] = base
       /\ \A k \in S : iter[1..k] = TakeFrom(iter[1..(k - 1)], queue[k])
  <2>1. \A s \in SUBSET S : iter[s] = IF s = {} THEN base ELSE TakeFrom(iter[s \ {Highest(s)}], queue[Highest(s)])
    BY <1>10 DEF Takes
  <2>2. iter[{}] = base BY <2>1
  <2>3. ASSUME NEW k \in S PROVE iter[1..k] = TakeFrom(iter[1..(k - 1)], queue[k])
    <3>1. k \in Nat \ {0} /\ 1..k \in SUBSET S BY <1>1 DEF S
    <3>2. Highest(1..k) = k /\ (1..k) \ {k} = 1..(k - 1) /\ 1..k # {} BY <3>1, HighestOf
    <3> QED BY <2>1, <3>1, <3>2
  <2> QED BY <2>2, <2>3
<1>12. TakesSteps(iter, G, Taking, n) BY <1>5, <1>11 DEF S, TakesSteps
<1>13. \A k \in 0..n : iter[1..k] = Folded(G, base, k)
  <2>1. base \in Taking /\ n \in Nat BY <1>1
  <2>2. iter[{}] = base BY <1>11
  <2> QED BY <1>4, <1>12, <2>1, <2>2, SameFold
<1>14. iter[S] = Folded(G, base, n) BY <1>1, <1>13 DEF S
<1> QED BY <1>3, <1>14 DEF G, base, n

LEMMA ConsumeSteps ==
  ASSUME NEW amount \in Int
  PROVE  /\ Consume(<<>>, amount) = Fresh(amount)
         /\ \A queue \in Seq(Slice) : Consume(queue, amount) \in Taking
         /\ \A queue \in Seq(Slice), lot \in Slice :
               Consume(Append(queue, lot), amount) = TakeFrom(Consume(queue, amount), lot)
<1>0. Fresh(amount) \in Taking BY DEF Fresh, Taking
<1>1. Consume(<<>>, amount) = Fresh(amount)
  <2>1. <<>> \in Seq(Slice) /\ Len(<<>>) = 0 OBVIOUS
  <2>2. Consume(<<>>, amount) = Folded(TakeStep(<<>>), Fresh(amount), 0) BY <2>1, ConsumeIsAFold
  <2> QED BY <2>2, FoldedNext
<1>2. ASSUME NEW queue \in Seq(Slice)
      PROVE  /\ Consume(queue, amount) \in Taking
             /\ \A k \in Nat : Folded(TakeStep(queue), Fresh(amount), k) \in Taking
  <2> DEFINE G == TakeStep(queue)
             base == Fresh(amount)
  <2>1. StaysIn(G, Taking) BY TakeStepTakes
  <2> HIDE DEF G, base
  <2>2. \A k \in Nat : Folded(G, base, k) \in Taking BY <1>0, <2>1, FoldedSteps DEF base
  <2>3. Len(queue) \in Nat OBVIOUS
  <2> QED BY <2>2, <2>3, ConsumeIsAFold DEF G, base
<1>3. ASSUME NEW queue \in Seq(Slice), NEW lot \in Slice
      PROVE  Consume(Append(queue, lot), amount) = TakeFrom(Consume(queue, amount), lot)
  <2> DEFINE more == Append(queue, lot)
             n == Len(queue)
             G == TakeStep(queue)
             H == TakeStep(more)
             base == Fresh(amount)
  <2>1. n \in Nat /\ more \in Seq(Slice) /\ Len(more) = n + 1 /\ more[n + 1] = lot /\ \A k \in 1..n : more[k] = queue[k]
    OBVIOUS
  <2> HIDE DEF more
  <2>2. StaysIn(G, Taking) BY TakeStepTakes
  <2>3. StaysIn(H, Taking) BY <2>1, TakeStepTakes
  <2>4. StepsAlike(G, H, Taking, n)
    <3> SUFFICES ASSUME NEW k \in 1..n, NEW a \in Taking PROVE G[<<k, a>>] = H[<<k, a>>] BY DEF StepsAlike
    <3>1. G[<<k, a>>] = TakeFrom(a, queue[k]) BY TakeStepTakes
    <3>2. k \in 1..Len(more) BY <2>1
    <3>3. H[<<k, a>>] = TakeFrom(a, more[k]) BY <2>1, <3>2, TakeStepTakes
    <3> QED BY <2>1, <3>1, <3>3
  <2>5. \A a \in Taking : H[<<n + 1, a>>] = TakeFrom(a, lot)
    <3>1. n + 1 \in 1..Len(more) BY <2>1
    <3> QED BY <2>1, <3>1, TakeStepTakes
  <2>6. Consume(queue, amount) = Folded(G, base, n) BY ConsumeIsAFold
  <2>7. Consume(more, amount) = Folded(H, base, n + 1) BY <2>1, ConsumeIsAFold
  <2> HIDE DEF G, H, base, n
  <2>8. Folded(G, base, n) = Folded(H, base, n)
    <3>0. base \in Taking /\ n \in Nat BY <1>0, <2>1 DEF base
    <3>1. \A k \in 0..n : Folded(G, base, k) = Folded(H, base, k)
      BY <3>0, <2>2, <2>3, <2>4, AlikeFolds
    <3> QED BY <2>1, <3>1
  <2>9. Folded(H, base, n + 1) = H[<<n + 1, Folded(H, base, (n + 1) - 1)>>]
    <3>1. n + 1 \in Nat \ {0} BY <2>1
    <3> QED BY <3>1, FoldedNext
  <2>10. (n + 1) - 1 = n BY <2>1
  <2>11. Folded(H, base, n) \in Taking BY <1>2, <2>6, <2>8
  <2> QED BY <2>5, <2>6, <2>7, <2>8, <2>9, <2>10, <2>11 DEF more
<1> QED BY <1>1, <1>2, <1>3

\* The list of the days something is open on.
KeepStep(o) ==
    [p \in (Nat \ {0}) \X Seq(Slice) |->
        IF p[1] \in DOMAIN o /\ o[p[1]] > 0 THEN Append(p[2], [arrival |-> p[1], amount |-> o[p[1]]]) ELSE p[2]]
KeptOf(o, k) == Folded(KeepStep(o), <<>>, k)

LEMMA KeepStepKeeps ==
  ASSUME NEW n \in Nat, NEW o \in [1..n -> Int]
  PROVE  /\ StaysIn(KeepStep(o), Seq(Slice))
         /\ \A k \in 1..n, a \in Seq(Slice) :
               KeepStep(o)[<<k, a>>] = IF o[k] > 0 THEN Append(a, [arrival |-> k, amount |-> o[k]]) ELSE a
<1>1. \A k \in Nat \ {0}, a \in Seq(Slice) :
        KeepStep(o)[<<k, a>>] = IF k \in 1..n /\ o[k] > 0 THEN Append(a, [arrival |-> k, amount |-> o[k]]) ELSE a
  BY DEF KeepStep
<1>2. \A k \in 1..n : k \in Nat \ {0} /\ [arrival |-> k, amount |-> o[k]] \in Slice BY DEF Slice
<1>3. \A k \in 1..n, a \in Seq(Slice) : Append(a, [arrival |-> k, amount |-> o[k]]) \in Seq(Slice) BY <1>2
<1>4. StaysIn(KeepStep(o), Seq(Slice)) BY <1>1, <1>3 DEF StaysIn
<1> QED BY <1>1, <1>2, <1>4

LEMMA KeptSteps ==
  ASSUME NEW n \in Nat, NEW o \in [1..n -> Int]
  PROVE  /\ KeptOf(o, 0) = <<>>
         /\ \A k \in Nat : KeptOf(o, k) \in Seq(Slice)
         /\ \A k \in 1..n : KeptOf(o, k) = IF o[k] > 0
                                           THEN Append(KeptOf(o, k - 1), [arrival |-> k, amount |-> o[k]])
                                           ELSE KeptOf(o, k - 1)
<1> DEFINE G == KeepStep(o)
           base == <<>>
<1>1. StaysIn(G, Seq(Slice)) BY KeepStepKeeps
<1>2. \A k \in 1..n, a \in Seq(Slice) : G[<<k, a>>] = IF o[k] > 0 THEN Append(a, [arrival |-> k, amount |-> o[k]]) ELSE a
  BY KeepStepKeeps
<1>3. \A k : KeptOf(o, k) = Folded(G, base, k) BY DEF KeptOf
<1>4. base \in Seq(Slice) OBVIOUS
<1> HIDE DEF G, base
<1>5. /\ Folded(G, base, 0) = base /\ \A k \in Nat : Folded(G, base, k) \in Seq(Slice)
      /\ \A k \in Nat \ {0} : Folded(G, base, k) = G[<<k, Folded(G, base, k - 1)>>]
  <2>1. Folded(G, base, 0) = base BY FoldedNext
  <2>2. \A k \in Nat \ {0} : Folded(G, base, k) = G[<<k, Folded(G, base, k - 1)>>] BY FoldedNext
  <2>3. \A k \in Nat : Folded(G, base, k) \in Seq(Slice) BY <1>1, <1>4, FoldedSteps
  <2> QED BY <2>1, <2>2, <2>3
<1>6. \A k \in 1..n : k \in Nat \ {0} /\ k - 1 \in Nat OBVIOUS
<1>7. \A k \in 1..n : Folded(G, base, k) = IF o[k] > 0 THEN Append(Folded(G, base, k - 1), [arrival |-> k, amount |-> o[k]])
                                            ELSE Folded(G, base, k - 1)
  BY <1>2, <1>5, <1>6
<1>8. KeptOf(o, 0) = <<>> BY <1>3, <1>5 DEF base
<1>9. \A k \in Nat : KeptOf(o, k) \in Seq(Slice) BY <1>3, <1>5
<1> QED BY <1>3, <1>7, <1>8, <1>9

LEMMA KeptAgree ==
  ASSUME NEW n \in Nat, NEW o \in [1..n -> Int], NEW m \in Nat, NEW p \in [1..m -> Int],
         NEW k \in Nat, k <= n, k <= m, \A d \in 1..k : o[d] = p[d]
  PROVE  KeptOf(o, k) = KeptOf(p, k)
<1> DEFINE G == KeepStep(o)
           H == KeepStep(p)
           base == <<>>
<1>1. StaysIn(G, Seq(Slice)) BY KeepStepKeeps
<1>2. StaysIn(H, Seq(Slice)) BY KeepStepKeeps
<1>3. StepsAlike(G, H, Seq(Slice), k)
  <2> SUFFICES ASSUME NEW d \in 1..k, NEW a \in Seq(Slice) PROVE G[<<d, a>>] = H[<<d, a>>] BY DEF StepsAlike
  <2>1. d \in 1..n /\ d \in 1..m /\ o[d] = p[d] OBVIOUS
  <2>2. G[<<d, a>>] = IF o[d] > 0 THEN Append(a, [arrival |-> d, amount |-> o[d]]) ELSE a BY <2>1, KeepStepKeeps
  <2>3. H[<<d, a>>] = IF p[d] > 0 THEN Append(a, [arrival |-> d, amount |-> p[d]]) ELSE a BY <2>1, KeepStepKeeps
  <2> QED BY <2>1, <2>2, <2>3
<1>4. base \in Seq(Slice) OBVIOUS
<1> HIDE DEF G, H, base
<1>5. \A d \in 0..k : Folded(G, base, d) = Folded(H, base, d) BY <1>1, <1>2, <1>3, <1>4, AlikeFolds
<1>6. k \in 0..k OBVIOUS
<1> QED BY <1>5, <1>6 DEF KeptOf, G, H, base

OpenOf(t) == [d \in 1..t |-> Open(d, t)]

LEMMA KeptIsAFold ==
  ASSUME NEW t \in Nat, \A d \in 1..t : Open(d, t) \in Int
  PROVE  Kept(t) = KeptOf(OpenOf(t), t)
<1> DEFINE o == OpenOf(t)
           S == 1..t
           G == KeepStep(o)
           base == <<>>
           With(a, d) == IF o[d] > 0 THEN Append(a, [arrival |-> d, amount |-> o[d]]) ELSE a
           Keeps(f) == f = [s \in SUBSET S |-> IF s = {} THEN base ELSE With(f[s \ {Highest(s)}], Highest(s))]
           Shows(f) == f = [s \in SUBSET S |->
                              IF s = {} THEN <<>>
                              ELSE IF Open([d \in 1..t |-> d][Highest(s)], t) > 0
                                   THEN Append(f[s \ {Highest(s)}],
                                               [arrival |-> [d \in 1..t |-> d][Highest(s)],
                                                amount |-> Open([d \in 1..t |-> d][Highest(s)], t)])
                                   ELSE f[s \ {Highest(s)}]]
           iter == CHOOSE f : Shows(f)
           it == TheFold(G, base, S)
<1>1. S \in SUBSET Nat /\ IsFiniteSet(S) /\ o \in [1..t -> Int] /\ base \in Seq(Slice) BY FS_Interval DEF OpenOf
<1>2. Kept(t) = iter[S]
  <2>1. DOMAIN [d \in 1..t |-> d] = S OBVIOUS
  <2> QED BY <2>1 DEF Kept, FoldLeft, MapThenFoldSet, Max, Highest
<1>3. \A f : Shows(f) <=> Keeps(f)
  <2>1. \A s \in SUBSET S : s # {} => Highest(s) \in S BY <1>1, HighestOf, FS_Subset
  <2>2. \A d \in S : [x \in 1..t |-> x][d] = d /\ o[d] = Open(d, t) BY DEF OpenOf
  <2> HIDE DEF o, S
  <2> SUFFICES ASSUME NEW f PROVE Shows(f) <=> Keeps(f) OBVIOUS
  <2>3. ASSUME NEW s \in SUBSET S
        PROVE  (IF s = {} THEN <<>>
                ELSE IF Open([d \in 1..t |-> d][Highest(s)], t) > 0
                     THEN Append(f[s \ {Highest(s)}],
                                 [arrival |-> [d \in 1..t |-> d][Highest(s)],
                                  amount |-> Open([d \in 1..t |-> d][Highest(s)], t)])
                     ELSE f[s \ {Highest(s)}])
               = (IF s = {} THEN base ELSE With(f[s \ {Highest(s)}], Highest(s)))
    BY <2>1, <2>2
  <2> QED BY <2>3
<1> HIDE DEF G, iter, o, Shows, it, With, base
<1>4. StaysIn(G, Seq(Slice)) BY <1>1, KeepStepKeeps DEF G
<1>5. \A k \in S, a \in Seq(Slice) : G[<<k, a>>] = With(a, k) BY <1>1, KeepStepKeeps DEF G, With
<1> HIDE DEF S
<1>6. IsFold(it, G, base, S) BY <1>1, FoldExists DEF it
<1>7. /\ it[{}] = base
      /\ \A s \in SUBSET S : s # {} => Highest(s) \in s /\ it[s] = G[<<Highest(s), it[s \ {Highest(s)}]>>]
  <2>1. S \in SUBSET Nat /\ IsFiniteSet(S) BY <1>1
  <2> QED BY <1>6, <2>1, FoldStep
<1>8. \A s \in SUBSET S : it[s] \in Seq(Slice)
  <2> DEFINE Q == {s \in SUBSET S : it[s] \in Seq(Slice)}
  <2>1. {} \in Q BY <1>1, <1>7
  <2>2. ASSUME NEW s \in SUBSET S, s # {}, \A x \in s : s \ {x} \in Q PROVE s \in Q
    <3>1. Highest(s) \in s /\ it[s] = G[<<Highest(s), it[s \ {Highest(s)}]>>] BY <1>7, <2>2
    <3>2. it[s \ {Highest(s)}] \in Seq(Slice) BY <2>2, <3>1
    <3>3. Highest(s) \in S BY <2>2, <3>1
    <3>4. Highest(s) \in Nat \ {0} BY <3>3 DEF S
    <3>5. it[s] \in Seq(Slice) BY <1>4, <3>1, <3>2, <3>4 DEF StaysIn
    <3> QED BY <3>5
  <2> HIDE DEF Q
  <2>3. \A s \in SUBSET S : s \in Q BY <1>1, <2>1, <2>2, OneByOne
  <2> QED BY <2>3 DEF Q
<1>9. Keeps(it)
  <2>1. \A s \in SUBSET S : s # {} => it[s] = With(it[s \ {Highest(s)}], Highest(s))
    <3> SUFFICES ASSUME NEW s \in SUBSET S, s # {}
                 PROVE it[s] = With(it[s \ {Highest(s)}], Highest(s)) OBVIOUS
    <3>1. Highest(s) \in s /\ it[s] = G[<<Highest(s), it[s \ {Highest(s)}]>>] BY <1>7
    <3>2. it[s \ {Highest(s)}] \in Seq(Slice) /\ Highest(s) \in S BY <1>8, <3>1
    <3> QED BY <1>5, <3>1, <3>2
  <2>2. \A s \in SUBSET S : it[s] = IF s = {} THEN base ELSE With(it[s \ {Highest(s)}], Highest(s))
    BY <1>7, <2>1
  <2>3. it = [s \in SUBSET S |-> it[s]] BY <1>6 DEF IsFold
  <2> QED BY <2>2, <2>3
<1>10. Keeps(iter) BY <1>3, <1>9 DEF iter
<1> HIDE DEF Keeps
<1>11. /\ iter[{}] = base
       /\ \A k \in S : iter[1..k] = With(iter[1..(k - 1)], k)
  <2>1. \A s \in SUBSET S : iter[s] = IF s = {} THEN base ELSE With(iter[s \ {Highest(s)}], Highest(s))
    BY <1>10 DEF Keeps
  <2>2. iter[{}] = base BY <2>1
  <2>3. ASSUME NEW k \in S PROVE iter[1..k] = With(iter[1..(k - 1)], k)
    <3>1. k \in Nat \ {0} /\ 1..k \in SUBSET S BY DEF S
    <3>2. Highest(1..k) = k /\ (1..k) \ {k} = 1..(k - 1) /\ 1..k # {} BY <3>1, HighestOf
    <3> QED BY <2>1, <3>1, <3>2
  <2> QED BY <2>2, <2>3
<1>12. TakesSteps(iter, G, Seq(Slice), t) BY <1>5, <1>11 DEF S, TakesSteps
<1>13. \A k \in 0..t : iter[1..k] = Folded(G, base, k)
  <2>1. base \in Seq(Slice) BY <1>1
  <2>2. iter[{}] = base BY <1>11
  <2> QED BY <1>4, <1>12, <2>1, <2>2, SameFold
<1>14. iter[S] = Folded(G, base, t)
  <2>1. t \in 0..t OBVIOUS
  <2> QED BY <1>13, <2>1 DEF S
<1> QED BY <1>2, <1>14 DEF G, o, KeptOf, base

LEMMA Shares ==
  ASSUME NEW a \in Nat, NEW p \in Nat, NEW D \in Nat
  PROVE  /\ (D - Least(D, p)) - Least(a, D - Least(D, p)) = D - Least(D, p + a)
         /\ a - Most(0, Least(a, (p + a) - D)) = Least(a, D - Least(D, p))
         /\ Most(0, Least(a, (p + a) - D)) = a - Least(a, D - Least(D, p))
         /\ Least(a, D - Least(D, p)) \in Nat /\ Most(0, Least(a, (p + a) - D)) \in Nat
BY DEF Least, Most

\* What remains of a after D are taken from it and the p before it.
Remains(a, p, D) == Most(0, Least(a, (p + a) - D))
With(q, k, x) == IF x > 0 THEN Append(q, [arrival |-> k, amount |-> x]) ELSE q
At(D, p, L, G) == [remaining |-> D - Least(D, p), open |-> L, consumed |-> G]

LEMMA TakeFromOne ==
  ASSUME NEW a \in Nat, NEW p \in Nat, NEW D \in Nat
  PROVE  /\ a = 0 => Remains(a, p, D) = 0 /\ a - Remains(a, p, D) = 0 /\ D - Least(D, p + a) = D - Least(D, p)
         /\ a > 0 => \A k, L, G : TakeFrom(At(D, p, L, G), [arrival |-> k, amount |-> a]) =
               At(D, p + a, With(L, k, Remains(a, p, D)), With(G, k, a - Remains(a, p, D)))
<1> SUFFICES ASSUME NEW k, NEW L, NEW G
             PROVE  /\ a = 0 => Remains(a, p, D) = 0 /\ a - Remains(a, p, D) = 0
                                /\ D - Least(D, p + a) = D - Least(D, p)
                    /\ a > 0 => TakeFrom(At(D, p, L, G), [arrival |-> k, amount |-> a]) =
                          At(D, p + a, With(L, k, Remains(a, p, D)), With(G, k, a - Remains(a, p, D)))
  OBVIOUS
<1> DEFINE l == Remains(a, p, D)
           g == a - l
           rest == D - Least(D, p)
           taken == Least(a, rest)
           done == [remaining |-> rest, open |-> L, consumed |-> G]
           lot == [arrival |-> k, amount |-> a]
<1>1. rest - taken = D - Least(D, p + a) /\ g = taken /\ l = a - taken /\ taken \in Nat /\ l \in Nat /\ rest \in Int
  BY Shares DEF Least, Remains
<1>2. a = 0 => l = 0 /\ g = 0 /\ D - Least(D, p + a) = D - Least(D, p)
  <2>1. a = 0 => p + a = p OBVIOUS
  <2> HIDE DEF rest, taken, l, g
  <2> QED BY <1>1, <2>1
<1>3. TakeFrom(done, lot) =
        [remaining |-> rest - taken,
         open      |-> IF taken = a THEN L ELSE Append(L, [arrival |-> k, amount |-> a - taken]),
         consumed  |-> IF taken = 0 THEN G ELSE Append(G, [arrival |-> k, amount |-> taken])]
  <2>1. done.remaining = rest /\ done.open = L /\ done.consumed = G OBVIOUS
  <2>2. lot.amount = a /\ [lot EXCEPT !.amount = @ - taken] = [arrival |-> k, amount |-> a - taken]
        /\ [lot EXCEPT !.amount = taken] = [arrival |-> k, amount |-> taken] OBVIOUS
  <2> HIDE DEF lot, done
  <2> QED BY <2>1, <2>2 DEF TakeFrom
<1> HIDE DEF taken, l, g
<1>4. (l > 0 <=> taken # a) /\ (g > 0 <=> taken # 0) BY <1>1
<1> HIDE DEF rest
<1> QED BY <1>1, <1>2, <1>3, <1>4 DEF rest, l, g, With, At

\* P counts what the days up to one hold together; left is what remains of each day when
\* D are taken from the oldest, gone what is taken.
Summed(o, P, n) ==
    /\ n \in Nat /\ o \in [1..n -> Nat] /\ P \in [0..n -> Nat]
    /\ P[0] = 0 /\ \A k \in 1..n : P[k] = P[k - 1] + o[k]
TakenFrom(o, P, n, D, left, gone) ==
    /\ left \in [1..n -> Int] /\ gone \in [1..n -> Int]
    /\ \A k \in 1..n : left[k] = Most(0, Least(o[k], P[k] - D)) /\ gone[k] = o[k] - left[k]

LEMMA ConsumeTakesTheOldest ==
  ASSUME NEW n \in Nat, NEW o, NEW P, NEW D \in Nat, NEW left, NEW gone,
         Summed(o, P, n), TakenFrom(o, P, n, D, left, gone)
  PROVE  \A k \in 0..n : Consume(KeptOf(o, k), D) =
            [remaining |-> D - Least(D, P[k]), open |-> KeptOf(left, k), consumed |-> KeptOf(gone, k)]
<1> DEFINE Done(k) == [remaining |-> D - Least(D, P[k]), open |-> KeptOf(left, k), consumed |-> KeptOf(gone, k)]
           N == {k \in Nat : k <= n => Consume(KeptOf(o, k), D) = Done(k)}
<1>0. o \in [1..n -> Int] /\ left \in [1..n -> Int] /\ gone \in [1..n -> Int] /\ P[0] = 0
  BY DEF Summed, TakenFrom
<1>1. 0 \in N
  <2>1. KeptOf(o, 0) = <<>> BY <1>0, KeptSteps
  <2>2. KeptOf(left, 0) = <<>> BY <1>0, KeptSteps
  <2>3. KeptOf(gone, 0) = <<>> BY <1>0, KeptSteps
  <2>4. Consume(<<>>, D) = Fresh(D) BY ConsumeSteps
  <2>5. D - Least(D, P[0]) = D BY <1>0 DEF Least
  <2> QED BY <2>1, <2>2, <2>3, <2>4, <2>5 DEF Fresh
<1>2. ASSUME NEW j \in Nat, j \in N PROVE j + 1 \in N
  <2> DEFINE k == j + 1
  <2> SUFFICES ASSUME k <= n PROVE Consume(KeptOf(o, k), D) = Done(k) OBVIOUS
  <2>1. k \in 1..n /\ k - 1 = j /\ j \in Nat /\ j \in 0..n OBVIOUS
  <2>2. Consume(KeptOf(o, j), D) = Done(j) BY <1>2, <2>1
  <2>3. KeptOf(o, j) \in Seq(Slice) BY <1>0, KeptSteps
  <2>4. KeptOf(o, k) = IF o[k] > 0 THEN Append(KeptOf(o, j), [arrival |-> k, amount |-> o[k]]) ELSE KeptOf(o, j)
    <3>1. KeptOf(o, k) = IF o[k] > 0 THEN Append(KeptOf(o, k - 1), [arrival |-> k, amount |-> o[k]])
                         ELSE KeptOf(o, k - 1) BY <1>0, <2>1, KeptSteps
    <3> QED BY <2>1, <3>1
  <2>5. KeptOf(left, k) = IF left[k] > 0 THEN Append(KeptOf(left, j), [arrival |-> k, amount |-> left[k]])
                          ELSE KeptOf(left, j)
    <3>1. KeptOf(left, k) = IF left[k] > 0 THEN Append(KeptOf(left, k - 1), [arrival |-> k, amount |-> left[k]])
                            ELSE KeptOf(left, k - 1) BY <1>0, <2>1, KeptSteps
    <3> QED BY <2>1, <3>1
  <2>6. KeptOf(gone, k) = IF gone[k] > 0 THEN Append(KeptOf(gone, j), [arrival |-> k, amount |-> gone[k]])
                          ELSE KeptOf(gone, j)
    <3>1. KeptOf(gone, k) = IF gone[k] > 0 THEN Append(KeptOf(gone, k - 1), [arrival |-> k, amount |-> gone[k]])
                            ELSE KeptOf(gone, k - 1) BY <1>0, <2>1, KeptSteps
    <3> QED BY <2>1, <3>1
  <2>7. /\ P[k] = P[j] + o[k] /\ left[k] = Most(0, Least(o[k], P[k] - D)) /\ gone[k] = o[k] - left[k]
        /\ P[k] \in Nat /\ P[j] \in Nat /\ o[k] \in Nat
    <3>1. P[k] = P[k - 1] + o[k] /\ left[k] = Most(0, Least(o[k], P[k] - D)) /\ gone[k] = o[k] - left[k]
      BY <2>1 DEF Summed, TakenFrom
    <3>2. k \in 0..n BY <2>1
    <3> QED BY <2>1, <3>1, <3>2 DEF Summed
  <2> DEFINE lot == [arrival |-> k, amount |-> o[k]]
  <2>8. /\ o[k] = 0 => left[k] = 0 /\ gone[k] = 0 /\ D - Least(D, P[k]) = D - Least(D, P[j])
        /\ o[k] > 0 => TakeFrom(Done(j), lot) =
                At(D, P[k], With(KeptOf(left, j), k, left[k]), With(KeptOf(gone, j), k, gone[k]))
    <3> HIDE DEF k, N
    <3>1. o[k] \in Nat /\ P[j] \in Nat /\ P[k] = P[j] + o[k] BY <2>7
    <3>2. left[k] = Remains(o[k], P[j], D) /\ gone[k] = o[k] - Remains(o[k], P[j], D) BY <2>7 DEF Remains
    <3> DEFINE a == o[k]
               p == P[j]
    <3>3. a \in Nat /\ p \in Nat BY <3>1
    <3> HIDE DEF a, p
    <3>4. /\ a = 0 => Remains(a, p, D) = 0 /\ a - Remains(a, p, D) = 0 /\ D - Least(D, p + a) = D - Least(D, p)
          /\ a > 0 => \A d, L, G : TakeFrom(At(D, p, L, G), [arrival |-> d, amount |-> a]) =
               At(D, p + a, With(L, d, Remains(a, p, D)), With(G, d, a - Remains(a, p, D)))
      BY <3>3, TakeFromOne
    <3>5. Done(j) = At(D, p, KeptOf(left, j), KeptOf(gone, j)) BY DEF At, p
    <3> QED BY <3>1, <3>2, <3>4, <3>5 DEF a, p
  <2>9. CASE o[k] = 0
    <3> HIDE DEF k, N
    <3> QED BY <2>2, <2>4, <2>5, <2>6, <2>8, <2>9
  <2>10. CASE o[k] > 0
    <3>1. lot \in Slice BY <2>1, <2>7 DEF Slice
    <3>2. Consume(KeptOf(o, k), D) = TakeFrom(Done(j), lot)
      <4> HIDE DEF lot, Done
      <4>1. KeptOf(o, k) = Append(KeptOf(o, j), lot) BY <2>4, <2>10 DEF lot
      <4>2. Consume(Append(KeptOf(o, j), lot), D) = TakeFrom(Consume(KeptOf(o, j), D), lot)
        BY <2>3, <3>1, ConsumeSteps
      <4> QED BY <2>2, <4>1, <4>2
    <3> HIDE DEF k, N, lot
    <3> QED BY <2>5, <2>6, <2>8, <2>10, <3>2 DEF At, With
  <2> QED BY <2>7, <2>9, <2>10
<1> HIDE DEF N, Done
<1>3. Nat \subseteq N BY <1>1, <1>2, Counting
<1>4. \A k \in 0..n : Consume(KeptOf(o, k), D) = Done(k) BY <1>3 DEF N
<1> QED BY <1>4 DEF Done

\* What a list is worth when every unit of a day is worth w.
Weigh(q, w) == Total([i \in 1..Len(q) |-> q[i].amount * w[q[i].arrival]], 1..Len(q))

LEMMA WeighEmpty == \A w : Weigh(<<>>, w) = 0
<1> SUFFICES ASSUME NEW w PROVE Weigh(<<>>, w) = 0 OBVIOUS
<1> DEFINE q == <<>>
           g == [i \in 1..Len(q) |-> q[i].amount * w[q[i].arrival]]
<1>1. 1..Len(q) = {} OBVIOUS
<1>2. Weigh(q, w) = Total(g, {}) BY <1>1 DEF Weigh
<1> HIDE DEF g
<1>3. Total(g, {}) = 0
  <2>1. \A x \in {} : g[x] \in Int OBVIOUS
  <2> QED BY <2>1, TotalTakes, FS_EmptySet
<1> QED BY <1>2, <1>3

LEMMA WeighAppend ==
  ASSUME NEW q \in Seq(Slice), NEW x \in Slice, NEW w, x.amount * w[x.arrival] \in Int,
         \A i \in 1..Len(q) : q[i].amount * w[q[i].arrival] \in Int
  PROVE  Weigh(Append(q, x), w) = Weigh(q, w) + x.amount * w[x.arrival] /\ Weigh(q, w) \in Int
<1> DEFINE n == Len(q)
           r == Append(q, x)
           g == [i \in 1..n |-> q[i].amount * w[q[i].arrival]]
           h == [i \in 1..Len(r) |-> r[i].amount * w[r[i].arrival]]
<1>1. n \in Nat /\ Len(r) = n + 1 /\ r[n + 1] = x /\ \A i \in 1..n : r[i] = q[i] OBVIOUS
<1>2. \A i \in 1..n : h[i] = g[i] /\ g[i] \in Int
  <2> HIDE DEF r
  <2>1. \A i \in 1..n : i \in 1..Len(r) BY <1>1
  <2> QED BY <1>1, <2>1
<1>3. h[n + 1] = x.amount * w[x.arrival]
  <2> HIDE DEF r
  <2>1. n + 1 \in 1..Len(r) BY <1>1
  <2> QED BY <1>1, <2>1
<1>4. Weigh(q, w) = Total(g, 1..n) /\ Weigh(r, w) = Total(h, 1..(n + 1)) BY <1>1 DEF Weigh
<1> HIDE DEF g, h, n, r
<1>5. IsFiniteSet(1..n) /\ IsFiniteSet(1..(n + 1)) BY <1>1, FS_Interval
<1>6. Total(g, 1..n) = Total(h, 1..n)
  <2>1. Alike(g, h, 1..n) BY <1>2 DEF Alike
  <2> QED BY <1>5, <2>1, TotalsAgree
<1>7. Total(h, 1..(n + 1)) = h[n + 1] + Total(h, 1..n) /\ Total(h, 1..n) \in Int
  <2>1. (1..(n + 1)) \ {n + 1} = 1..n /\ n + 1 \in 1..(n + 1) BY <1>1
  <2>2. \A i \in 1..(n + 1) : h[i] \in Int
    <3>1. \A i \in 1..(n + 1) : i \in 1..n \/ i = n + 1 BY <1>1
    <3> QED BY <1>2, <1>3, <3>1
  <2> DEFINE S == 1..(n + 1)
  <2>3. IsFiniteSet(S) /\ \A i \in S : h[i] \in Int BY <1>5, <2>2
  <2> HIDE DEF S
  <2>4. \A i \in S : Total(h, S) = h[i] + Total(h, S \ {i}) /\ Total(h, S \ {i}) \in Int BY <2>3, TotalTakes
  <2> QED BY <2>1, <2>4 DEF S
<1> QED BY <1>3, <1>4, <1>6, <1>7 DEF r

\* z is what each day's part of a list is worth.
Worths(z, o, w, n) == /\ z \in [1..n -> Int] /\ o \in [1..n -> Int]
                      /\ \A d \in 1..n : z[d] = IF o[d] > 0 THEN o[d] * w[d] ELSE 0

LEMMA KeptIsWorthItsDays ==
  ASSUME NEW n \in Nat, NEW o, NEW w, NEW z, Worths(z, o, w, n)
  PROVE  \A k \in 0..n : /\ Weigh(KeptOf(o, k), w) = Total(z, 1..k)
                         /\ \A i \in 1..Len(KeptOf(o, k)) :
                               KeptOf(o, k)[i].amount * w[KeptOf(o, k)[i].arrival] \in Int
<1> DEFINE Priced(q) == \A i \in 1..Len(q) : q[i].amount * w[q[i].arrival] \in Int
           N == {k \in Nat : k <= n => Weigh(KeptOf(o, k), w) = Total(z, 1..k) /\ Priced(KeptOf(o, k))}
<1>0. o \in [1..n -> Int] /\ z \in [1..n -> Int] BY DEF Worths
<1>1. 0 \in N
  <2>1. KeptOf(o, 0) = <<>> BY <1>0, KeptSteps
  <2>2. 1..0 = {} /\ Priced(<<>>) OBVIOUS
  <2>3. Total(z, {}) = 0
    <3>1. \A x \in {} : z[x] \in Int OBVIOUS
    <3> QED BY <3>1, TotalTakes, FS_EmptySet
  <2> HIDE DEF Priced
  <2>4. Weigh(KeptOf(o, 0), w) = Total(z, 1..0) /\ Priced(KeptOf(o, 0)) BY <2>1, <2>2, <2>3, WeighEmpty
  <2> QED BY <2>4
<1>2. ASSUME NEW j \in Nat, j \in N PROVE j + 1 \in N
  <2> DEFINE k == j + 1
  <2> SUFFICES ASSUME k <= n PROVE Weigh(KeptOf(o, k), w) = Total(z, 1..k) /\ Priced(KeptOf(o, k)) OBVIOUS
  <2>1. k \in 1..n /\ k - 1 = j /\ k \in Nat OBVIOUS
  <2>2. Weigh(KeptOf(o, j), w) = Total(z, 1..j) /\ Priced(KeptOf(o, j)) BY <1>2, <2>1
  <2>3. KeptOf(o, j) \in Seq(Slice) BY <1>0, KeptSteps
  <2>4. KeptOf(o, k) = IF o[k] > 0 THEN Append(KeptOf(o, j), [arrival |-> k, amount |-> o[k]]) ELSE KeptOf(o, j)
    <3>1. KeptOf(o, k) = IF o[k] > 0 THEN Append(KeptOf(o, k - 1), [arrival |-> k, amount |-> o[k]])
                         ELSE KeptOf(o, k - 1) BY <1>0, <2>1, KeptSteps
    <3> QED BY <2>1, <3>1
  <2>5. o[k] \in Int /\ z[k] \in Int /\ z[k] = IF o[k] > 0 THEN o[k] * w[k] ELSE 0 BY <2>1 DEF Worths
  <2>6. Total(z, 1..k) = z[k] + Total(z, 1..j) /\ Total(z, 1..j) \in Int
    <3> DEFINE S == 1..k
    <3>1. S \ {k} = 1..j /\ k \in S /\ IsFiniteSet(S)
      <4>1. (1..k) \ {k} = 1..j /\ k \in 1..k BY <2>1
      <4>2. 1 \in Int /\ k \in Int BY <2>1
      <4> HIDE DEF k
      <4>3. IsFiniteSet(1..k) BY <4>2, FS_Interval
      <4> QED BY <4>1, <4>3
    <3>2. \A d \in S : z[d] \in Int
      <4>1. \A d \in S : d \in 1..n BY <2>1
      <4> QED BY <1>0, <4>1
    <3> HIDE DEF S
    <3>3. \A d \in S : Total(z, S) = z[d] + Total(z, S \ {d}) /\ Total(z, S \ {d}) \in Int BY <3>1, <3>2, TotalTakes
    <3> QED BY <3>1, <3>3 DEF S
  <2> HIDE DEF N, k
  <2>7. CASE o[k] > 0
    <3> DEFINE q == KeptOf(o, j)
               lot == [arrival |-> k, amount |-> o[k]]
    <3>1. lot \in Slice /\ q \in Seq(Slice) BY <2>1, <2>3, <2>5 DEF Slice
    <3>2. lot.amount * w[lot.arrival] = z[k] BY <2>5, <2>7
    <3>3. KeptOf(o, k) = Append(q, lot) BY <2>4, <2>7
    <3> HIDE DEF q, lot
    <3>4. lot.amount * w[lot.arrival] \in Int BY <2>5, <3>2
    <3>5. \A i \in 1..Len(q) : q[i].amount * w[q[i].arrival] \in Int BY <2>2 DEF q
    <3>6. Weigh(Append(q, lot), w) = Weigh(q, w) + z[k]
      <4>1. Weigh(Append(q, lot), w) = Weigh(q, w) + lot.amount * w[lot.arrival] BY <3>1, <3>4, <3>5, WeighAppend
      <4> QED BY <3>2, <4>1
    <3>7. Priced(Append(q, lot))
      <4>1. Len(Append(q, lot)) = Len(q) + 1 /\ Append(q, lot)[Len(q) + 1] = lot /\ Len(q) \in Nat BY <3>1
      <4>2. \A i \in 1..Len(q) : Append(q, lot)[i] = q[i] BY <3>1
      <4>3. \A i \in 1..(Len(q) + 1) : i \in 1..Len(q) \/ i = Len(q) + 1 BY <4>1
      <4> QED BY <3>4, <3>5, <4>1, <4>2, <4>3
    <3> HIDE DEF Priced
    <3>8. Weigh(q, w) = Total(z, 1..j) BY <2>2 DEF q
    <3>9. Total(z, 1..j) + z[k] = z[k] + Total(z, 1..j) BY <2>5, <2>6
    <3> QED BY <2>6, <3>3, <3>6, <3>7, <3>8, <3>9
  <2>8. CASE ~(o[k] > 0)
    <3>1. KeptOf(o, k) = KeptOf(o, j) /\ z[k] = 0 BY <2>4, <2>5, <2>8
    <3>2. Total(z, 1..k) = Total(z, 1..j) BY <2>6, <3>1
    <3> HIDE DEF Priced
    <3> QED BY <2>2, <3>1, <3>2
  <2> QED BY <2>7, <2>8
<1> HIDE DEF N
<1>3. Nat \subseteq N BY <1>1, <1>2, Counting
<1> QED BY <1>3 DEF N

\* The first entry of the list is of the first day that something is open on.
LEMMA KeptBeginsWithTheOldest ==
  ASSUME NEW n \in Nat, NEW o \in [1..n -> Int]
  PROVE  \A k \in 0..n :
            /\ KeptOf(o, k) = <<>> => \A d \in 1..k : o[d] <= 0
            /\ KeptOf(o, k) # <<>> => /\ Head(KeptOf(o, k)).arrival \in 1..k
                                      /\ \A d \in 1..k : d < Head(KeptOf(o, k)).arrival => o[d] <= 0
            /\ \A d \in 1..k : o[d] > 0 => \E i \in 1..Len(KeptOf(o, k)) : KeptOf(o, k)[i].arrival = d
            /\ \A i \in 1..Len(KeptOf(o, k)) :
                  KeptOf(o, k)[i].arrival \in 1..k /\ o[KeptOf(o, k)[i].arrival] > 0
<1> DEFINE Oldest(q, k) ==
             /\ q = <<>> => \A d \in 1..k : o[d] <= 0
             /\ q # <<>> => Head(q).arrival \in 1..k /\ \A d \in 1..k : d < Head(q).arrival => o[d] <= 0
             /\ \A d \in 1..k : o[d] > 0 => \E i \in 1..Len(q) : q[i].arrival = d
             /\ \A i \in 1..Len(q) : q[i].arrival \in 1..k /\ o[q[i].arrival] > 0
           N == {k \in Nat : k <= n => Oldest(KeptOf(o, k), k)}
<1>1. 0 \in N
  <2>1. KeptOf(o, 0) = <<>> BY KeptSteps
  <2>2. 1..0 = {} /\ Oldest(<<>>, 0) OBVIOUS
  <2> QED BY <2>1, <2>2
<1>2. ASSUME NEW j \in Nat, j \in N PROVE j + 1 \in N
  <2> DEFINE k == j + 1
  <2> SUFFICES ASSUME k <= n PROVE Oldest(KeptOf(o, k), k) OBVIOUS
  <2>1. k \in 1..n /\ k - 1 = j /\ k \in Nat /\ j < k OBVIOUS
  <2>2. Oldest(KeptOf(o, j), j) BY <1>2, <2>1
  <2>3. KeptOf(o, j) \in Seq(Slice) BY KeptSteps
  <2>4. KeptOf(o, k) = IF o[k] > 0 THEN Append(KeptOf(o, j), [arrival |-> k, amount |-> o[k]]) ELSE KeptOf(o, j)
    <3>1. KeptOf(o, k) = IF o[k] > 0 THEN Append(KeptOf(o, k - 1), [arrival |-> k, amount |-> o[k]])
                         ELSE KeptOf(o, k - 1) BY <2>1, KeptSteps
    <3> QED BY <2>1, <3>1
  <2>5. o[k] \in Int /\ \A d \in 1..k : d \in 1..j \/ d = k BY <2>1
  <2>6. \A d \in 1..j : d \in 1..k /\ d < k /\ o[d] \in Int BY <2>1
  <2> DEFINE q == KeptOf(o, j)
  <2> HIDE DEF N, k, q
  <2>7. CASE o[k] > 0
    <3> DEFINE lot == [arrival |-> k, amount |-> o[k]]
    <3>1. KeptOf(o, k) = Append(q, lot) BY <2>4, <2>7 DEF q
    <3>2. lot \in Slice /\ lot.arrival = k /\ q \in Seq(Slice) BY <2>1, <2>3, <2>5 DEF Slice, q
    <3> HIDE DEF lot
    <3>3. /\ Len(Append(q, lot)) = Len(q) + 1 /\ Append(q, lot)[Len(q) + 1] = lot /\ Len(q) \in Nat
          /\ \A i \in 1..Len(q) : Append(q, lot)[i] = q[i] /\ i \in 1..(Len(q) + 1)
      BY <3>2
    <3>4. \A i \in 1..(Len(q) + 1) : i \in 1..Len(q) \/ i = Len(q) + 1 BY <3>3
    <3>5. k \in 1..k /\ Len(q) + 1 \in 1..(Len(q) + 1) BY <2>1, <3>3
    <3>6. Append(q, lot) # <<>> BY <3>2
    <3>7. \A d \in 1..k : o[d] > 0 => \E i \in 1..Len(Append(q, lot)) : Append(q, lot)[i].arrival = d
      BY <2>2, <2>5, <3>2, <3>3, <3>5 DEF q
    <3>8. \A i \in 1..Len(Append(q, lot)) : Append(q, lot)[i].arrival \in 1..k /\ o[Append(q, lot)[i].arrival] > 0
      BY <2>2, <2>6, <2>7, <3>2, <3>3, <3>4, <3>5 DEF q
    <3>9. Head(Append(q, lot)).arrival \in 1..k
          /\ \A d \in 1..k : d < Head(Append(q, lot)).arrival => o[d] <= 0
      <4>1. CASE q = <<>>
        <5>1. Head(Append(q, lot)) = lot BY <4>1
        <5>2. \A d \in 1..j : o[d] <= 0 BY <2>2, <4>1 DEF q
        <5>3. \A d \in 1..k : d < k => o[d] <= 0 BY <2>5, <5>2, <2>1
        <5> QED BY <3>2, <3>5, <5>1, <5>3
      <4>2. CASE q # <<>>
        <5>1. Head(Append(q, lot)) = Head(q) BY <3>2, <4>2
        <5>2. Head(q).arrival \in 1..j /\ \A d \in 1..j : d < Head(q).arrival => o[d] <= 0 BY <2>2, <4>2 DEF q
        <5>3. ~(k < Head(q).arrival) BY <2>1, <5>2
        <5> QED BY <2>5, <2>6, <5>1, <5>2, <5>3
      <4> QED BY <4>1, <4>2
    <3>10. Oldest(Append(q, lot), k) BY <3>6, <3>7, <3>8, <3>9
    <3> QED BY <3>1, <3>10
  <2>8. CASE ~(o[k] > 0)
    <3>1. KeptOf(o, k) = q /\ o[k] <= 0 BY <2>4, <2>5, <2>8 DEF q
    <3>2. Oldest(q, j) BY <2>2 DEF q
    <3>3. Oldest(q, k)
      <4>1. q = <<>> => \A d \in 1..k : o[d] <= 0 BY <2>5, <3>1, <3>2
      <4>2. q # <<>> => Head(q).arrival \in 1..k /\ \A d \in 1..k : d < Head(q).arrival => o[d] <= 0
        BY <2>5, <2>6, <3>1, <3>2
      <4>3. \A d \in 1..k : o[d] > 0 => \E i \in 1..Len(q) : q[i].arrival = d BY <2>5, <2>8, <3>2
      <4>4. \A i \in 1..Len(q) : q[i].arrival \in 1..k /\ o[q[i].arrival] > 0 BY <2>6, <3>2
      <4> QED BY <4>1, <4>2, <4>3, <4>4
    <3> QED BY <3>1, <3>3
  <2> QED BY <2>7, <2>8
<1> HIDE DEF N
<1>3. Nat \subseteq N BY <1>1, <1>2, Counting
<1> QED BY <1>3 DEF N

\* A sum in order is a sum.
Tallies(f, g, S) == f = [s \in SUBSET S |-> IF s = {} THEN 0 ELSE f[s \ {Highest(s)}] + g[Highest(s)]]

LEMMA TallyIsTotal ==
  ASSUME NEW n \in Nat, NEW g, \A i \in 1..n : g[i] \in Int
  PROVE  (CHOOSE f : Tallies(f, g, 1..n))[1..n] = Total(g, 1..n)
<1> DEFINE S == 1..n
           it == [s \in SUBSET S |-> Total(g, s)]
           f == CHOOSE f : Tallies(f, g, S)
<1>1. S \in SUBSET Nat /\ IsFiniteSet(S) /\ \A i \in S : g[i] \in Int BY FS_Interval
<1> HIDE DEF S, f
<1>2. \A s \in SUBSET S : s # {} => Highest(s) \in s BY <1>1, HighestOf, FS_Subset
<1>3. Tallies(it, g, S)
  <2>1. ASSUME NEW s \in SUBSET S
        PROVE  it[s] = IF s = {} THEN 0 ELSE it[s \ {Highest(s)}] + g[Highest(s)]
    <3>1. IsFiniteSet(s) /\ \A i \in s : g[i] \in Int BY <1>1, FS_Subset
    <3>2. Total(g, {}) = 0 /\ \A x \in s : Total(g, s) = g[x] + Total(g, s \ {x}) /\ Total(g, s \ {x}) \in Int
      BY <3>1, TotalTakes
    <3>3. CASE s = {} BY <3>2, <3>3
    <3>4. CASE s # {}
      <4>1. Highest(s) \in s BY <1>2, <3>4
      <4>2. Total(g, s) = Total(g, s \ {Highest(s)}) + g[Highest(s)]
        <5> DEFINE a == g[Highest(s)]
                   b == Total(g, s \ {Highest(s)})
        <5>1. a \in Int BY <3>1, <4>1
        <5>2. Total(g, s) = a + b /\ b \in Int BY <3>2, <4>1
        <5> HIDE DEF a, b
        <5>3. Total(g, s) = b + a BY <5>1, <5>2
        <5> QED BY <5>3 DEF a, b
      <4>3. s \ {Highest(s)} \in SUBSET S OBVIOUS
      <4> QED BY <3>4, <4>2, <4>3
    <3> QED BY <3>3, <3>4
  <2>2. it = [s \in SUBSET S |-> it[s]] OBVIOUS
  <2> HIDE DEF it
  <2> QED BY <2>1, <2>2 DEF Tallies
<1>4. Tallies(f, g, S)
  <2> HIDE DEF it
  <2> QED BY <1>3 DEF f
<1>5. \A s \in SUBSET S : f[s] = it[s]
  <2> DEFINE Q == {s \in SUBSET S : f[s] = it[s]}
  <2> HIDE DEF it
  <2>0. /\ \A s \in SUBSET S : f[s] = IF s = {} THEN 0 ELSE f[s \ {Highest(s)}] + g[Highest(s)]
        /\ \A s \in SUBSET S : it[s] = IF s = {} THEN 0 ELSE it[s \ {Highest(s)}] + g[Highest(s)]
    BY <1>3, <1>4 DEF Tallies
  <2>1. {} \in Q BY <2>0
  <2>2. ASSUME NEW s \in SUBSET S, s # {}, \A x \in s : s \ {x} \in Q PROVE s \in Q
    <3>1. Highest(s) \in s BY <1>2, <2>2
    <3>2. f[s \ {Highest(s)}] = it[s \ {Highest(s)}] BY <2>2, <3>1
    <3>3. f[s] = f[s \ {Highest(s)}] + g[Highest(s)] BY <2>0, <2>2
    <3>4. it[s] = it[s \ {Highest(s)}] + g[Highest(s)] BY <2>0, <2>2
    <3>5. f[s] = it[s] BY <3>2, <3>3, <3>4
    <3> QED BY <3>5
  <2> HIDE DEF Q
  <2>3. \A s \in SUBSET S : s \in Q BY <1>1, <2>1, <2>2, OneByOne
  <2> QED BY <2>3 DEF Q
<1>6. f[S] = Total(g, S) BY <1>5
<1> QED BY <1>6 DEF f, S

LEMMA BankedWeighs ==
  ASSUME NEW q \in Seq(Slice), NEW values, NEW day, NEW w,
         \A i \in 1..Len(q) : w[q[i].arrival] = Growth(values, q[i].arrival, day) - Scale,
         \A i \in 1..Len(q) : q[i].amount * w[q[i].arrival] \in Int
  PROVE  Banked(q, values, day) = Weigh(q, w)
<1> DEFINE n == Len(q)
           S == 1..n
           g == [i \in S |-> q[i].amount * w[q[i].arrival]]
           Sums(f) == f = [s \in SUBSET S |-> IF s = {} THEN 0
                             ELSE f[s \ {Highest(s)}]
                                  + q[Highest(s)].amount * (Growth(values, q[Highest(s)].arrival, day) - Scale)]
           f == CHOOSE f : Sums(f)
<1>1. n \in Nat /\ S = DOMAIN q /\ S \in SUBSET Nat /\ IsFiniteSet(S) BY FS_Interval
<1>2. Banked(q, values, day) = f[S] BY <1>1 DEF Banked, FoldLeft, MapThenFoldSet, Max, Highest
<1>3. \A i \in S : g[i] \in Int /\ g[i] = q[i].amount * (Growth(values, q[i].arrival, day) - Scale) OBVIOUS
<1>4. \A h : Sums(h) <=> Tallies(h, g, S)
  <2> HIDE DEF S, g
  <2>1. \A s \in SUBSET S : s # {} => Highest(s) \in S BY <1>1, HighestOf, FS_Subset
  <2>2. ASSUME NEW h, NEW s \in SUBSET S
        PROVE  (IF s = {} THEN 0
                ELSE h[s \ {Highest(s)}]
                     + q[Highest(s)].amount * (Growth(values, q[Highest(s)].arrival, day) - Scale))
               = (IF s = {} THEN 0 ELSE h[s \ {Highest(s)}] + g[Highest(s)])
    BY <1>3, <2>1
  <2> QED BY <2>2 DEF Tallies
<1>5. (CHOOSE h : Tallies(h, g, S))[S] = Total(g, S) BY <1>1, <1>3, TallyIsTotal
<1>6. Weigh(q, w) = Total(g, S) BY DEF Weigh
<1> HIDE DEF Sums, g, S
<1>7. (CHOOSE h : Sums(h)) = (CHOOSE h : Tallies(h, g, S)) BY <1>4
<1> QED BY <1>2, <1>5, <1>6, <1>7

LEMMA LiveWeighs ==
  ASSUME cashLots \in Seq(Slice), NEW w,
         \A i \in 1..Len(cashLots) : w[cashLots[i].arrival] = Growth(index, cashLots[i].arrival, Len(index)),
         \A i \in 1..Len(cashLots) : cashLots[i].amount * w[cashLots[i].arrival] \in Int
  PROVE  Live = Weigh(cashLots, w)
<1> DEFINE n == Len(cashLots)
           S == 1..n
           g == [i \in S |-> cashLots[i].amount * w[cashLots[i].arrival]]
           Sums(f) == f = [s \in SUBSET S |-> IF s = {} THEN 0
                             ELSE f[s \ {Highest(s)}]
                                  + cashLots[Highest(s)].amount
                                    * Growth(index, cashLots[Highest(s)].arrival, Len(index))]
           f == CHOOSE f : Sums(f)
<1>1. n \in Nat /\ S = DOMAIN cashLots /\ S \in SUBSET Nat /\ IsFiniteSet(S) BY FS_Interval
<1>2. Live = f[S] BY <1>1 DEF Live, FoldLeft, MapThenFoldSet, Max, Highest
<1>3. \A i \in S : g[i] \in Int /\ g[i] = cashLots[i].amount * Growth(index, cashLots[i].arrival, Len(index)) OBVIOUS
<1>4. \A h : Sums(h) <=> Tallies(h, g, S)
  <2> HIDE DEF S, g
  <2>1. \A s \in SUBSET S : s # {} => Highest(s) \in S BY <1>1, HighestOf, FS_Subset
  <2>2. ASSUME NEW h, NEW s \in SUBSET S
        PROVE  (IF s = {} THEN 0
                ELSE h[s \ {Highest(s)}]
                     + cashLots[Highest(s)].amount * Growth(index, cashLots[Highest(s)].arrival, Len(index)))
               = (IF s = {} THEN 0 ELSE h[s \ {Highest(s)}] + g[Highest(s)])
    BY <1>3, <2>1
  <2> QED BY <2>2 DEF Tallies
<1>5. (CHOOSE h : Tallies(h, g, S))[S] = Total(g, S) BY <1>1, <1>3, TallyIsTotal
<1>6. Weigh(cashLots, w) = Total(g, S) BY DEF Weigh
<1> HIDE DEF Sums, g, S
<1>7. (CHOOSE h : Sums(h)) = (CHOOSE h : Tallies(h, g, S)) BY <1>4
<1> QED BY <1>2, <1>5, <1>6, <1>7

-----------------------------------------------------------------------------
(* What has come, and what has gone.                                       *)

\* What the lots mean, of any sequence of balances: what came in by a day, the lowest
\* balance by then, what went out, and what is still there of each day's cash.
Had(s, t)   == IF t = 0 THEN 0 ELSE s[t]
Rises(s)    == [d \in 1..Len(s) |-> Most(0, s[d] - Had(s, d - 1))]
Came(s, t)  == Total(Rises(s), 1..t)
Low(s, t)   == Min({0} \cup {s[d] : d \in 1..t})
Gone(s, t)  == Came(s, t) - (Had(s, t) - Low(s, t))
Still(s, t) == [d \in 1..t |-> Most(0, Least(Rises(s)[d], Came(s, d) - Gone(s, t)))]
UpTo(s, t)  == [d \in 0..t |-> Most(0, Came(s, d) - Gone(s, t))]

LEMMA RisesAreCounted ==
  ASSUME NEW s \in Seq(Int)
  PROVE  /\ Rises(s) \in [1..Len(s) -> Nat] /\ \A t \in 0..Len(s) : Had(s, t) \in Int
         /\ \A d \in 1..Len(s) : Rises(s)[d] = Most(0, s[d] - Had(s, d - 1))
<1>1. \A t \in 0..Len(s) : Had(s, t) \in Int
  <2>1. \A t \in 0..Len(s) : t # 0 => t \in 1..Len(s) OBVIOUS
  <2>2. \A t \in 1..Len(s) : s[t] \in Int OBVIOUS
  <2> QED BY <2>1, <2>2 DEF Had
<1>2. \A d \in 1..Len(s) : s[d] \in Int /\ d - 1 \in 0..Len(s) OBVIOUS
<1>3. \A d \in 1..Len(s) : Most(0, s[d] - Had(s, d - 1)) \in Nat BY <1>1, <1>2 DEF Most
<1> QED BY <1>1, <1>3 DEF Rises

LEMMA LowestOf ==
  ASSUME NEW s \in Seq(Int)
  PROVE  /\ Low(s, 0) = 0
         /\ \A t \in 0..Len(s) : Low(s, t) \in Int /\ Low(s, t) <= 0 /\ Low(s, t) <= Had(s, t)
         /\ \A t \in 1..Len(s) : Low(s, t) = Least(Low(s, t - 1), s[t])
<1> DEFINE Seen(t) == {0} \cup {s[d] : d \in 1..t}
           IsLow(x, t) == x \in Seen(t) /\ \A y \in Seen(t) : x <= y
<1>0. \A d \in 1..Len(s) : s[d] \in Int OBVIOUS
<1>1. \A t \in 0..Len(s) : Seen(t) \subseteq Int BY <1>0
<1>2. \A t, x : t \in 0..Len(s) /\ IsLow(x, t) => Low(s, t) = x
  <2> SUFFICES ASSUME NEW t \in 0..Len(s), NEW x, IsLow(x, t) PROVE Low(s, t) = x OBVIOUS
  <2>1. Low(s, t) = CHOOSE y \in Seen(t) : \A z \in Seen(t) : y <= z BY DEF Low, Min
  <2>2. \A y \in Seen(t) : (\A z \in Seen(t) : y <= z) => y = x BY <1>1
  <2> HIDE DEF Seen
  <2> QED BY <2>1, <2>2
<1>3. Low(s, 0) = 0 /\ IsLow(0, 0)
  <2>1. IsLow(0, 0) OBVIOUS
  <2>2. 0 \in 0..Len(s) OBVIOUS
  <2> HIDE DEF IsLow
  <2> QED BY <1>2, <2>1, <2>2
<1> DEFINE N == {t \in Nat : t <= Len(s) => /\ IsLow(Low(s, t), t)
                                            /\ t > 0 => Low(s, t) = Least(Low(s, t - 1), s[t])}
<1>4. 0 \in N
  <2> HIDE DEF IsLow
  <2>1. IsLow(Low(s, 0), 0) BY <1>3
  <2> QED BY <2>1
<1>5. ASSUME NEW j \in Nat, j \in N PROVE j + 1 \in N
  <2> DEFINE t == j + 1
             x == Least(Low(s, j), s[t])
  <2> SUFFICES ASSUME t <= Len(s) PROVE IsLow(Low(s, t), t) /\ Low(s, t) = Least(Low(s, t - 1), s[t]) OBVIOUS
  <2>1. t \in 1..Len(s) /\ t - 1 = j /\ j \in 0..Len(s) /\ t \in 0..Len(s) /\ j <= Len(s) OBVIOUS
  <2>2. IsLow(Low(s, j), j) BY <1>5, <2>1
  <2>3. Seen(t) = Seen(j) \cup {s[t]} BY <2>1
  <2>4. Low(s, j) \in Int /\ s[t] \in Int
    <3>1. Low(s, j) \in Seen(j) BY <2>2
    <3> HIDE DEF Seen, t
    <3> QED BY <1>0, <1>1, <2>1, <3>1
  <2>5. IsLow(x, t)
    <3>1. Seen(j) \subseteq Int BY <1>1, <2>1
    <3>2. \A y \in Seen(j) : Low(s, j) <= y BY <2>2
    <3> HIDE DEF Seen, t
    <3>3. x \in Seen(t) BY <2>2, <2>3 DEF Least
    <3>4. x <= Low(s, j) /\ x <= s[t] /\ x \in Int BY <2>4 DEF Least
    <3>5. \A y \in Seen(t) : x <= y BY <2>3, <2>4, <3>1, <3>2, <3>4
    <3> QED BY <3>3, <3>5
  <2> HIDE DEF IsLow, x, t
  <2>6. Low(s, t) = x BY <1>2, <2>1, <2>5
  <2> QED BY <2>1, <2>5, <2>6 DEF x
<1> HIDE DEF N
<1>6. Nat \subseteq N BY <1>4, <1>5, Counting
<1>7. \A t \in 0..Len(s) : Low(s, t) \in Int /\ Low(s, t) <= 0 /\ Low(s, t) <= Had(s, t)
  <2> SUFFICES ASSUME NEW t \in 0..Len(s) PROVE Low(s, t) \in Int /\ Low(s, t) <= 0 /\ Low(s, t) <= Had(s, t) OBVIOUS
  <2>1. IsLow(Low(s, t), t) BY <1>6 DEF N
  <2>2. 0 \in Seen(t) /\ Had(s, t) \in Seen(t)
    <3>1. t = 0 \/ t \in 1..t OBVIOUS
    <3> QED BY <3>1 DEF Had
  <2>3. Seen(t) \subseteq Int BY <1>1
  <2> HIDE DEF Seen
  <2> QED BY <2>1, <2>2, <2>3
<1>8. \A t \in 1..Len(s) : Low(s, t) = Least(Low(s, t - 1), s[t])
  <2> HIDE DEF IsLow
  <2>1. \A t \in 1..Len(s) : t \in Nat /\ t > 0 /\ t <= Len(s) OBVIOUS
  <2> QED BY <1>6, <2>1 DEF N
<1> QED BY <1>3, <1>7, <1>8

LEMMA CameGrows ==
  ASSUME NEW s \in Seq(Int)
  PROVE  /\ Came(s, 0) = 0 /\ \A t \in 0..Len(s) : Came(s, t) \in Int
         /\ \A t \in 1..Len(s) : Came(s, t) = Came(s, t - 1) + Rises(s)[t] /\ Rises(s)[t] \in Nat
<1> DEFINE R == Rises(s)
           n == Len(s)
<1>1. R \in [1..n -> Nat] /\ n \in Nat BY RisesAreCounted
<1> HIDE DEF R, n
<1>2. ASSUME NEW t \in 0..n
      PROVE  /\ Total(R, {}) = 0 /\ Total(R, 1..t) \in Int
             /\ t # 0 => Total(R, 1..t) = R[t] + Total(R, 1..(t - 1)) /\ Total(R, 1..(t - 1)) \in Int
  <2> DEFINE S == 1..t
  <2>1. IsFiniteSet(S)
    <3>1. 1 \in Int /\ t \in Int OBVIOUS
    <3> QED BY <3>1, FS_Interval
  <2>2. \A d \in S : R[d] \in Int
    <3>1. \A d \in S : d \in 1..n BY <1>1
    <3> QED BY <1>1, <3>1
  <2>3. t # 0 => t \in S /\ S \ {t} = 1..(t - 1) OBVIOUS
  <2> HIDE DEF S
  <2>4. /\ Total(R, {}) = 0 /\ Total(R, S) \in Int
        /\ \A d \in S : Total(R, S) = R[d] + Total(R, S \ {d}) /\ Total(R, S \ {d}) \in Int
    BY <2>1, <2>2, TotalTakes
  <2> QED BY <2>3, <2>4 DEF S
<1>3. Came(s, 0) = 0
  <2>1. 1..0 = {} /\ 0 \in 0..n BY <1>1
  <2> QED BY <1>2, <2>1 DEF Came, R
<1>4. \A t \in 0..n : Came(s, t) \in Int BY <1>2 DEF Came, R
<1>5. \A t \in 1..n : Came(s, t) = Came(s, t - 1) + R[t] /\ R[t] \in Nat
  <2> SUFFICES ASSUME NEW t \in 1..n PROVE Came(s, t) = Came(s, t - 1) + R[t] /\ R[t] \in Nat OBVIOUS
  <2>1. t \in 0..n /\ t # 0 BY <1>1
  <2>2. R[t] \in Nat BY <1>1
  <2>3. Came(s, t) = Total(R, 1..t) /\ Came(s, t - 1) = Total(R, 1..(t - 1)) BY DEF Came, R
  <2>4. Total(R, 1..t) = R[t] + Total(R, 1..(t - 1)) /\ Total(R, 1..(t - 1)) \in Int BY <1>2, <2>1
  <2> QED BY <2>2, <2>3, <2>4
<1> QED BY <1>3, <1>4, <1>5 DEF R, n

\* What goes out in a day: as much as the balance falls, up to what there is.
LEMMA GoneGrows ==
  ASSUME NEW s \in Seq(Int)
  PROVE  /\ Gone(s, 0) = 0
         /\ \A t \in 0..Len(s) : Gone(s, t) \in Nat
         /\ \A t \in 1..Len(s) :
               /\ s[t] >= Had(s, t - 1) => Gone(s, t) = Gone(s, t - 1)
               /\ s[t] < Had(s, t - 1) =>
                     Gone(s, t) = Gone(s, t - 1) + Least(Had(s, t - 1) - s[t], Came(s, t - 1) - Gone(s, t - 1))
<1>1. Gone(s, 0) = 0 BY CameGrows, LowestOf DEF Gone, Had
<1>2. ASSUME NEW t \in 1..Len(s)
      PROVE  /\ s[t] >= Had(s, t - 1) => Gone(s, t) = Gone(s, t - 1)
             /\ s[t] < Had(s, t - 1) =>
                   Gone(s, t) = Gone(s, t - 1) + Least(Had(s, t - 1) - s[t], Came(s, t - 1) - Gone(s, t - 1))
             /\ Gone(s, t - 1) \in Int /\ Came(s, t - 1) - Gone(s, t - 1) \in Nat
  <2> DEFINE C == Came(s, t - 1)
             r == Had(s, t - 1)
             L == Low(s, t - 1)
             x == s[t]
  <2>0. t - 1 \in 0..Len(s) /\ t # 0 OBVIOUS
  <2>1. C \in Int BY <2>0, CameGrows
  <2>2. r \in Int /\ x \in Int BY <2>0, RisesAreCounted
  <2>3. L \in Int /\ L <= 0 /\ L <= r BY <2>0, LowestOf
  <2>4. Came(s, t) = C + Most(0, x - r)
    <3>1. Came(s, t) = C + Rises(s)[t] BY CameGrows
    <3>2. Rises(s)[t] = Most(0, x - r) BY RisesAreCounted
    <3> QED BY <3>1, <3>2
  <2>5. Low(s, t) = Least(L, x) BY LowestOf
  <2>6. Had(s, t) = x BY <2>0 DEF Had
  <2>7. Gone(s, t) = (C + Most(0, x - r)) - (x - Least(L, x)) /\ Gone(s, t - 1) = C - (r - L)
    BY <2>4, <2>5, <2>6 DEF Gone
  <2> HIDE DEF C, r, L, x
  <2>8. /\ x >= r => (C + Most(0, x - r)) - (x - Least(L, x)) = C - (r - L)
        /\ x < r  => (C + Most(0, x - r)) - (x - Least(L, x)) = (C - (r - L)) + Least(r - x, r - L)
    BY <2>1, <2>2, <2>3 DEF Most, Least
  <2>9. r - L = C - Gone(s, t - 1) /\ r - L \in Nat /\ C - (r - L) \in Int BY <2>1, <2>2, <2>3, <2>7
  <2>10. x >= r => Gone(s, t) = Gone(s, t - 1) BY <2>7, <2>8
  <2>11. x < r => Gone(s, t) = Gone(s, t - 1) + Least(r - x, C - Gone(s, t - 1)) BY <2>7, <2>8, <2>9
  <2> QED BY <2>7, <2>9, <2>10, <2>11 DEF C, r, x
<1> DEFINE N == {t \in Nat : t <= Len(s) => Gone(s, t) \in Nat}
<1>3. 0 \in N BY <1>1
<1>4. ASSUME NEW j \in Nat, j \in N PROVE j + 1 \in N
  <2> DEFINE t == j + 1
  <2> SUFFICES ASSUME t <= Len(s) PROVE Gone(s, t) \in Nat OBVIOUS
  <2>1. t \in 1..Len(s) /\ t - 1 = j /\ j \in 0..Len(s) OBVIOUS
  <2>2. Gone(s, j) \in Nat BY <1>4, <2>1
  <2>3. /\ s[t] >= Had(s, j) => Gone(s, t) = Gone(s, j)
        /\ s[t] < Had(s, j) => Gone(s, t) = Gone(s, j) + Least(Had(s, j) - s[t], Came(s, j) - Gone(s, j))
        /\ Came(s, j) - Gone(s, j) \in Nat
    <3>1. /\ s[t] >= Had(s, t - 1) => Gone(s, t) = Gone(s, t - 1)
          /\ s[t] < Had(s, t - 1) =>
                Gone(s, t) = Gone(s, t - 1) + Least(Had(s, t - 1) - s[t], Came(s, t - 1) - Gone(s, t - 1))
          /\ Came(s, t - 1) - Gone(s, t - 1) \in Nat
      BY <1>2, <2>1
    <3> QED BY <2>1, <3>1
  <2>4. s[t] \in Int /\ Had(s, j) \in Int BY <2>1, RisesAreCounted
  <2> HIDE DEF t
  <2> QED BY <2>2, <2>3, <2>4 DEF Least
<1> HIDE DEF N
<1>5. Nat \subseteq N BY <1>3, <1>4, Counting
<1>6. \A t \in 0..Len(s) : Gone(s, t) \in Nat BY <1>5 DEF N
<1> QED BY <1>1, <1>2, <1>6

\* A day more leaves the earlier ones as they are.
LEMMA PrefixesAgree ==
  ASSUME NEW s \in Seq(Int), NEW x \in Int
  PROVE  \A t \in 0..Len(s) :
            /\ Had(Append(s, x), t) = Had(s, t) /\ Came(Append(s, x), t) = Came(s, t)
            /\ Low(Append(s, x), t) = Low(s, t) /\ Gone(Append(s, x), t) = Gone(s, t)
            /\ Still(Append(s, x), t) = Still(s, t)
<1> DEFINE r == Append(s, x)
           n == Len(s)
<1>1. r \in Seq(Int) /\ Len(r) = n + 1 /\ n \in Nat /\ \A d \in 1..n : r[d] = s[d] /\ d \in 1..(n + 1) OBVIOUS
<1> HIDE DEF r, n
<1>2. \A t \in 0..n : Had(r, t) = Had(s, t)
  <2>1. \A t \in 0..n : t # 0 => t \in 1..n BY <1>1
  <2> QED BY <1>1, <2>1 DEF Had
<1>3. \A d \in 1..n : Rises(r)[d] = Rises(s)[d] /\ Rises(s)[d] \in Int
  <2>1. \A d \in 1..n : Rises(s)[d] = Most(0, s[d] - Had(s, d - 1)) /\ Rises(s)[d] \in Nat
    BY RisesAreCounted DEF n
  <2>2. \A d \in 1..(n + 1) : Rises(r)[d] = Most(0, r[d] - Had(r, d - 1)) BY <1>1, RisesAreCounted
  <2>3. \A d \in 1..n : d - 1 \in 0..n BY <1>1
  <2> QED BY <1>1, <1>2, <2>1, <2>2, <2>3
<1>4. ASSUME NEW t \in 0..n PROVE Came(r, t) = Came(s, t)
  <2>1. IsFiniteSet(1..t)
    <3>1. 1 \in Int /\ t \in Int BY <1>1
    <3> QED BY <3>1, FS_Interval
  <2>2. \A d \in 1..t : d \in 1..n BY <1>1
  <2>3. Alike(Rises(r), Rises(s), 1..t) BY <1>3, <2>2 DEF Alike
  <2> QED BY <2>1, <2>3, TotalsAgree DEF Came
<1>5. ASSUME NEW t \in 0..n PROVE Low(r, t) = Low(s, t)
  <2>1. \A d \in 1..t : r[d] = s[d] BY <1>1
  <2>2. {r[d] : d \in 1..t} = {s[d] : d \in 1..t} BY <2>1
  <2> QED BY <2>2 DEF Low
<1>6. ASSUME NEW t \in 0..n PROVE Gone(r, t) = Gone(s, t) BY <1>2, <1>4, <1>5 DEF Gone
<1>7. ASSUME NEW t \in 0..n PROVE Still(r, t) = Still(s, t)
  <2>1. \A d \in 1..t : d \in 1..n /\ d \in 0..n BY <1>1
  <2>2. \A d \in 1..t : Most(0, Least(Rises(r)[d], Came(r, d) - Gone(r, t)))
                        = Most(0, Least(Rises(s)[d], Came(s, d) - Gone(s, t)))
    BY <1>3, <1>4, <1>6, <2>1
  <2> QED BY <2>2 DEF Still
<1> QED BY <1>2, <1>4, <1>5, <1>6, <1>7 DEF r, n

LEMMA StillAddsUp ==
  ASSUME NEW s \in Seq(Int), NEW t \in 0..Len(s)
  PROVE  /\ Summed(Still(s, t), UpTo(s, t), t)
         /\ UpTo(s, t)[t] = Came(s, t) - Gone(s, t) /\ Came(s, t) - Gone(s, t) = Had(s, t) - Low(s, t)
<1> DEFINE W == Gone(s, t)
           o == Still(s, t)
           P == UpTo(s, t)
<1>0. t \in Nat /\ \A d \in 0..t : d \in 0..Len(s) OBVIOUS
<1>1. W \in Nat BY GoneGrows
<1>2. \A d \in 0..t : Came(s, d) \in Int BY <1>0, CameGrows
<1>3. \A d \in 1..t : Came(s, d) = Came(s, d - 1) + Rises(s)[d] /\ Rises(s)[d] \in Nat /\ Came(s, d - 1) \in Int
  <2>1. \A d \in 1..t : d \in 1..Len(s) /\ d - 1 \in 0..Len(s) OBVIOUS
  <2> QED BY <2>1, CameGrows
<1>4. /\ \A d \in 1..t : o[d] = Most(0, Least(Rises(s)[d], Came(s, d) - W))
      /\ o = [d \in 1..t |-> o[d]] /\ P = [d \in 0..t |-> P[d]]
      /\ \A d \in 0..t : P[d] = Most(0, Came(s, d) - W)
  BY DEF Still, UpTo
<1>5. Came(s, t) - W = Had(s, t) - Low(s, t) /\ Came(s, t) - W \in Nat
  <2>1. Had(s, t) \in Int /\ Low(s, t) \in Int /\ Low(s, t) <= Had(s, t) /\ Came(s, t) \in Int
    BY RisesAreCounted, LowestOf, CameGrows
  <2> QED BY <2>1 DEF Gone
<1> HIDE DEF W, o, P
<1>6. ASSUME NEW d \in 1..t PROVE o[d] \in Nat /\ P[d] = P[d - 1] + o[d]
  <2>1. d \in 0..t /\ d - 1 \in 0..t BY <1>0
  <2> DEFINE C == Came(s, d - 1)
             R == Rises(s)[d]
  <2>2. R \in Nat /\ C \in Int /\ Came(s, d) = C + R BY <1>3
  <2>3. P[d] = Most(0, (C + R) - W) /\ P[d - 1] = Most(0, C - W) /\ o[d] = Most(0, Least(R, (C + R) - W))
    BY <1>4, <2>1, <2>2
  <2> HIDE DEF C, R
  <2>4. R \in Nat /\ C \in Int /\ W \in Nat BY <1>1, <2>2
  <2>5. /\ Most(0, Least(R, (C + R) - W)) \in Nat
        /\ Most(0, (C + R) - W) = Most(0, C - W) + Most(0, Least(R, (C + R) - W))
    BY <2>4 DEF Most, Least
  <2> QED BY <2>3, <2>5
<1>7. \A d \in 0..t : P[d] \in Nat BY <1>1, <1>2, <1>4 DEF Most
<1>8. P[0] = 0
  <2>1. Came(s, 0) = 0 /\ 0 \in 0..t BY <1>0, CameGrows
  <2> QED BY <1>1, <1>4, <2>1 DEF Most
<1>9. o \in [1..t -> Nat] /\ P \in [0..t -> Nat] BY <1>4, <1>6, <1>7
<1>10. Summed(o, P, t) BY <1>0, <1>6, <1>8, <1>9 DEF Summed
<1>11. P[t] = Came(s, t) - W
  <2>1. t \in 0..t BY <1>0
  <2> QED BY <1>4, <1>5, <2>1 DEF Most
<1> QED BY <1>5, <1>10, <1>11 DEF W, o, P

LEMMA LeftOver ==
  ASSUME NEW R \in Nat, NEW C \in Int, NEW W \in Nat, NEW T \in Nat, NEW D \in Nat, C - W <= T
  PROVE  Most(0, Least(R, C - (W + Least(D, T))))
         = Most(0, Least(Most(0, Least(R, C - W)), Most(0, C - W) - D))
BY DEF Most, Least

\* A day more: a rise is a lot of its own, a fall is taken from the oldest.
LEMMA OneDayMore ==
  ASSUME NEW s \in Seq(Int), NEW x \in Int
  PROVE  LET n     == Len(s)
             r     == Append(s, x)
             delta == x - Had(s, n)
             cash  == KeptOf(Still(s, n), n)
             o     == Still(s, n)
             left  == Still(r, n + 1)
         IN  /\ delta > 0 => KeptOf(left, n + 1) = Append(cash, [arrival |-> n + 1, amount |-> delta])
             /\ delta = 0 => KeptOf(left, n + 1) = cash
             /\ delta >= 0 => \A d \in 1..n : left[d] = o[d]
             /\ delta < 0 => /\ KeptOf(left, n + 1) = Consume(cash, -delta).open
                             /\ KeptOf([d \in 1..n |-> o[d] - left[d]], n) = Consume(cash, -delta).consumed
             /\ o \in [1..n -> Nat] /\ left \in [1..(n + 1) -> Nat]
             /\ \A d \in 1..n : o[d] - left[d] >= 0
<1> DEFINE n == Len(s)
           r == Append(s, x)
           h == Had(s, n)
           delta == x - h
           cash == KeptOf(Still(s, n), n)
           o == Still(s, n)
           left == Still(r, n + 1)
           P == UpTo(s, n)
           W == Gone(s, n)
           V == Gone(r, n + 1)
           C(d) == Came(s, d)
           R == Rises(r)
           T == C(n) - W
<1>1. r \in Seq(Int) /\ Len(r) = n + 1 /\ n \in Nat /\ r[n + 1] = x /\ n \in 0..n /\ n + 1 \in 1..Len(r)
      /\ n + 1 \in 0..Len(r) /\ (n + 1) - 1 = n /\ \A d \in 1..n : d \in 0..n /\ d \in 1..(n + 1)
  OBVIOUS
<1> HIDE DEF r
<1>2. h \in Int /\ delta \in Int
  <2>1. h \in Int BY <1>1, RisesAreCounted
  <2> QED BY <2>1
<1>3. Summed(o, P, n) /\ P[n] = T
  BY <1>1, StillAddsUp
<1>4. Summed(left, UpTo(r, n + 1), n + 1) BY <1>1, StillAddsUp
<1>5. o \in [1..n -> Nat] /\ left \in [1..(n + 1) -> Nat] /\ T \in Nat
  <2>1. P[n] \in Nat BY <1>1, <1>3 DEF Summed
  <2> QED BY <1>3, <1>4, <2>1 DEF Summed
<1>6. \A d \in 0..n : Had(r, d) = Had(s, d) /\ Came(r, d) = C(d) /\ Gone(r, d) = Gone(s, d)
  BY PrefixesAgree DEF r
<1>7. W \in Nat /\ V \in Nat BY <1>1, GoneGrows
<1>8. /\ x >= h => V = W
      /\ x < h => V = W + Least(h - x, T)
  <2>1. /\ r[n + 1] >= Had(r, (n + 1) - 1) => V = Gone(r, (n + 1) - 1)
        /\ r[n + 1] < Had(r, (n + 1) - 1) =>
              V = Gone(r, (n + 1) - 1) + Least(Had(r, (n + 1) - 1) - r[n + 1],
                                               Came(r, (n + 1) - 1) - Gone(r, (n + 1) - 1))
    BY <1>1, GoneGrows
  <2>2. Had(r, n) = h /\ Gone(r, n) = W /\ Came(r, n) = C(n) BY <1>1, <1>6
  <2> QED BY <1>1, <2>1, <2>2
<1>9. \A d \in 1..n : /\ o[d] = Most(0, Least(R[d], C(d) - W)) /\ left[d] = Most(0, Least(R[d], C(d) - V))
                      /\ R[d] \in Nat /\ C(d) \in Int /\ C(d) - W <= T
  <2>1. \A d \in 1..n : left[d] = Most(0, Least(Rises(r)[d], Came(r, d) - Gone(r, n + 1))) BY <1>1 DEF Still
  <2>2. \A d \in 1..n : Still(r, n)[d] = Most(0, Least(Rises(r)[d], Came(r, d) - Gone(r, n))) BY DEF Still
  <2>3. Still(r, n) = o BY <1>1, PrefixesAgree DEF r
  <2>4. \A d \in 1..n : R[d] \in Nat BY <1>1, RisesAreCounted
  <2>5. \A d \in 1..n : C(d) \in Int BY <1>1, CameGrows
  <2>6. \A d \in 0..n : C(d) <= C(n)
    <3> DEFINE N == {k \in Nat : k <= n => C(n - k) <= C(n)}
    <3>1. 0 \in N
      <4>1. n - 0 = n /\ C(n) \in Int BY <1>1, CameGrows
      <4> QED BY <4>1
    <3>2. ASSUME NEW k \in Nat, k \in N PROVE k + 1 \in N
      <4> SUFFICES ASSUME k + 1 <= n PROVE C(n - (k + 1)) <= C(n) OBVIOUS
      <4> DEFINE e == n - k
      <4>1. k <= n /\ e \in 1..n /\ e - 1 = n - (k + 1) /\ e - 1 \in 0..n /\ e \in 0..n BY <1>1
      <4>2. C(e) <= C(n) BY <3>2, <4>1
      <4> HIDE DEF e
      <4>3. C(e) = C(e - 1) + Rises(s)[e] /\ Rises(s)[e] \in Nat BY <4>1, CameGrows
      <4>4. C(e) \in Int /\ C(e - 1) \in Int /\ C(n) \in Int BY <1>1, <4>1, CameGrows
      <4>5. C(e - 1) <= C(n) BY <4>2, <4>3, <4>4
      <4> QED BY <4>1, <4>5
    <3> HIDE DEF N
    <3>3. Nat \subseteq N BY <3>1, <3>2, Counting
    <3>4. \A d \in 0..n : n - d \in Nat /\ n - d <= n /\ n - (n - d) = d BY <1>1
    <3>5. \A d \in 0..n : C(n - (n - d)) <= C(n) BY <3>3, <3>4 DEF N
    <3> QED BY <3>4, <3>5
  <2>7. \A d \in 0..n : Gone(r, n) = W /\ Came(r, d) = C(d) BY <1>1, <1>6
  <2>8. \A d \in 1..n : C(d) - W <= T
    <3> SUFFICES ASSUME NEW d \in 1..n PROVE C(d) - W <= T OBVIOUS
    <3>1. C(d) \in Int /\ C(n) \in Int /\ C(d) <= C(n) BY <1>1, <2>5, <2>6, CameGrows
    <3> QED BY <1>7, <3>1
  <2> QED BY <1>1, <2>1, <2>2, <2>3, <2>4, <2>5, <2>7, <2>8
<1>10. left[n + 1] = Most(0, delta)
  <2>1. left[n + 1] = Most(0, Least(R[n + 1], Came(r, n + 1) - V)) BY <1>1 DEF Still
  <2>2. R[n + 1] = Most(0, delta)
    <3>1. R[n + 1] = Most(0, r[n + 1] - Had(r, (n + 1) - 1)) BY <1>1, RisesAreCounted
    <3>2. Had(r, n) = h BY <1>1, <1>6
    <3> QED BY <1>1, <3>1, <3>2
  <2>3. Came(r, n + 1) = C(n) + R[n + 1] /\ R[n + 1] \in Nat
    <3>1. Came(r, n + 1) = Came(r, (n + 1) - 1) + R[n + 1] /\ R[n + 1] \in Nat BY <1>1, CameGrows
    <3> QED BY <1>1, <1>6, <3>1
  <2>4. C(n) \in Int BY <1>1, CameGrows
  <2> DEFINE c == C(n)
  <2>5. CASE x >= h
    <3>1. c + R[n + 1] - V >= R[n + 1]
      <4>1. V = W /\ c - W \in Nat /\ c \in Int /\ W \in Nat BY <1>5, <1>7, <1>8, <2>4, <2>5
      <4> HIDE DEF c, V, W, R
      <4> QED BY <2>3, <4>1
    <3> HIDE DEF c, V, W, R, delta
    <3> QED BY <1>7, <2>1, <2>2, <2>3, <2>4, <3>1 DEF Least, Most, c
  <2>6. CASE x < h
    <3>1. Most(0, delta) = 0 BY <1>2, <2>6 DEF Most
    <3>2. Came(r, n + 1) - V \in Nat
      <4>1. Came(r, n + 1) - V = Had(r, n + 1) - Low(r, n + 1) BY <1>1, StillAddsUp
      <4>2. Had(r, n + 1) \in Int /\ Low(r, n + 1) \in Int /\ Low(r, n + 1) <= Had(r, n + 1)
        BY <1>1, RisesAreCounted, LowestOf
      <4> QED BY <4>1, <4>2
    <3> HIDE DEF V, W, R, delta
    <3> QED BY <2>1, <2>2, <3>1, <3>2 DEF Least, Most
  <2> QED BY <1>2, <2>5, <2>6
<1>11. KeptOf(left, n + 1) = IF left[n + 1] > 0 THEN Append(KeptOf(left, n), [arrival |-> n + 1, amount |-> left[n + 1]])
                             ELSE KeptOf(left, n)
  <2> DEFINE m == n + 1
  <2>1. m \in Nat /\ left \in [1..m -> Int] /\ m \in 1..m BY <1>1, <1>5
  <2>2. m - 1 = n BY <1>1
  <2> HIDE DEF m, left, n
  <2>3. KeptOf(left, m) = IF left[m] > 0 THEN Append(KeptOf(left, m - 1), [arrival |-> m, amount |-> left[m]])
                          ELSE KeptOf(left, m - 1) BY <2>1, KeptSteps
  <2> QED BY <2>2, <2>3 DEF m
<1>12. ASSUME delta >= 0 PROVE \A d \in 1..n : left[d] = o[d]
  <2>1. V = W BY <1>2, <1>8, <1>12
  <2> HIDE DEF V, W, o, left, R
  <2> QED BY <1>9, <2>1
<1>13. ASSUME delta >= 0 PROVE KeptOf(left, n) = cash
  <2>1. \A d \in 1..n : left[d] = o[d] BY <1>12, <1>13
  <2>2. left \in [1..(n + 1) -> Int] /\ o \in [1..n -> Int] /\ n <= n + 1 /\ n + 1 \in Nat /\ n \in Nat /\ n <= n
    BY <1>1, <1>5
  <2> HIDE DEF left, o, n
  <2>3. KeptOf(left, n) = KeptOf(o, n) BY <2>1, <2>2, KeptAgree
  <2> QED BY <2>3 DEF o
<1>14. \A d \in 1..n : o[d] - left[d] >= 0
  <2> SUFFICES ASSUME NEW d \in 1..n PROVE o[d] - left[d] >= 0 OBVIOUS
  <2>1. V \in Nat /\ W \in Nat /\ V >= W
    <3> HIDE DEF V, W, T
    <3> QED BY <1>2, <1>5, <1>7, <1>8 DEF Least
  <2>2. /\ o[d] = Most(0, Least(R[d], C(d) - W)) /\ left[d] = Most(0, Least(R[d], C(d) - V))
        /\ R[d] \in Nat /\ C(d) \in Int
    BY <1>9
  <2> HIDE DEF V, W, o, left, R, C
  <2> QED BY <2>1, <2>2 DEF Most, Least
<1>15. ASSUME delta < 0
       PROVE  /\ KeptOf(left, n + 1) = Consume(cash, -delta).open
              /\ KeptOf([d \in 1..n |-> o[d] - left[d]], n) = Consume(cash, -delta).consumed
  <2> DEFINE D == -delta
             l == [d \in 1..n |-> left[d]]
             g == [d \in 1..n |-> o[d] - left[d]]
  <2>1. D \in Nat /\ D = h - x /\ x < h BY <1>2, <1>15
  <2>2. V = W + Least(D, T) BY <1>8, <2>1
  <2>3. TakenFrom(o, P, n, D, l, g)
    <3>1. \A d \in 1..n : left[d] \in Nat /\ o[d] \in Nat BY <1>1, <1>5
    <3>2. l \in [1..n -> Int] /\ g \in [1..n -> Int]
      <4>1. \A d \in 1..n : left[d] \in Int /\ o[d] - left[d] \in Int BY <3>1
      <4> QED BY <4>1
    <3>3. ASSUME NEW d \in 1..n PROVE l[d] = Most(0, Least(o[d], P[d] - D)) /\ g[d] = o[d] - l[d]
      <4>1. /\ o[d] = Most(0, Least(R[d], C(d) - W)) /\ left[d] = Most(0, Least(R[d], C(d) - V))
            /\ R[d] \in Nat /\ C(d) \in Int /\ C(d) - W <= T
        BY <1>9
      <4>2. P[d] = Most(0, C(d) - W) BY <1>1 DEF UpTo
      <4>3. l[d] = left[d] /\ g[d] = o[d] - left[d] OBVIOUS
      <4> DEFINE a == R[d]
                 c == C(d)
      <4>4. a \in Nat /\ c \in Int /\ W \in Nat /\ T \in Nat /\ D \in Nat /\ c - W <= T BY <1>5, <1>7, <2>1, <4>1
      <4>5. Most(0, Least(a, c - V)) = Most(0, Least(Most(0, Least(a, c - W)), Most(0, c - W) - D))
        <5> HIDE DEF a, c, W, T, D, V
        <5>1. Most(0, Least(a, c - (W + Least(D, T))))
              = Most(0, Least(Most(0, Least(a, c - W)), Most(0, c - W) - D)) BY <4>4, LeftOver
        <5> QED BY <2>2, <5>1
      <4> HIDE DEF V, W, T, P, D, l, g, o, left
      <4> QED BY <4>1, <4>2, <4>3, <4>5
    <3> HIDE DEF l, g, o, P, D
    <3> QED BY <3>2, <3>3 DEF TakenFrom
  <2> HIDE DEF D, l, g, o, P, left
  <2>4. \A k \in 0..n : Consume(KeptOf(o, k), D) =
            [remaining |-> D - Least(D, P[k]), open |-> KeptOf(l, k), consumed |-> KeptOf(g, k)]
    <3>1. n \in Nat BY <1>1
    <3> HIDE DEF n
    <3> QED BY <1>3, <2>1, <2>3, <3>1, ConsumeTakesTheOldest
  <2>5. Consume(KeptOf(o, n), D).open = KeptOf(l, n) /\ Consume(KeptOf(o, n), D).consumed = KeptOf(g, n)
    BY <1>1, <2>4
  <2>6. KeptOf(l, n) = KeptOf(left, n)
    <3>1. l \in [1..n -> Int] BY <2>3 DEF TakenFrom
    <3>2. left \in [1..(n + 1) -> Int] /\ n <= n + 1 /\ n + 1 \in Nat /\ n \in Nat /\ n <= n BY <1>1, <1>5
    <3>3. \A d \in 1..n : l[d] = left[d] BY DEF l
    <3> HIDE DEF n
    <3> QED BY <3>1, <3>2, <3>3, KeptAgree
  <2>7. KeptOf(left, n + 1) = KeptOf(left, n)
    <3>1. ~(left[n + 1] > 0)
      <4>1. left[n + 1] = 0
        <5> HIDE DEF delta
        <5> QED BY <1>2, <1>10, <1>15 DEF Most
      <4> QED BY <4>1
    <3> QED BY <1>11, <3>1
  <2> QED BY <2>5, <2>6, <2>7 DEF o, D, g
<1>16. ASSUME delta > 0 PROVE KeptOf(left, n + 1) = Append(cash, [arrival |-> n + 1, amount |-> delta])
  <2>1. left[n + 1] = delta /\ delta >= 0
    <3> HIDE DEF delta
    <3> QED BY <1>2, <1>10, <1>16 DEF Most
  <2>2. KeptOf(left, n) = cash BY <1>13, <2>1
  <2> HIDE DEF left, cash, delta
  <2> QED BY <1>11, <1>16, <2>1, <2>2
<1>17. ASSUME delta = 0 PROVE KeptOf(left, n + 1) = cash
  <2>1. left[n + 1] = 0 /\ delta >= 0 BY <1>10, <1>17 DEF Most
  <2>2. KeptOf(left, n) = cash BY <1>13, <2>1
  <2>3. ~(left[n + 1] > 0) BY <2>1
  <2> HIDE DEF left, cash, delta
  <2> QED BY <1>11, <2>2, <2>3
<1> QED BY <1>5, <1>12, <1>14, <1>15, <1>16, <1>17 DEF r

-----------------------------------------------------------------------------
(* The properties count what came and went.                                *)

\* The properties say it of the days that are reported.
CountedRight ==
    reported \in Seq(Int) =>
        \A t \in 1..Len(reported) :
            /\ Rise(t) = Rises(reported)[t] /\ CameIn(t) = Came(reported, t)
            /\ Lowest(t) = Low(reported, t) /\ WentOut(t) = Gone(reported, t)
            /\ \A d \in 1..t : Open(d, t) = Still(reported, t)[d]
            /\ Kept(t) = KeptOf(Still(reported, t), t)

LEMMA CameInIsASum ==
  ASSUME NEW t \in Nat, NEW R, \A d \in 1..t : Rise(d) = R[d]
  PROVE  CameIn(t) = Total(R, 1..t)
<1> DEFINE S == 1..t
           Sums(f) == f = [s \in SUBSET S |-> IF s = {} THEN 0 ELSE Rise(Chosen(s)) + f[s \ {Chosen(s)}]]
<1>1. CameIn(t) = (CHOOSE f : Sums(f))[S] BY DEF CameIn, MapThenSumSet, MapThenFoldSet, Chosen
<1>2. \A h : Sums(h) <=> IsSum(h, R, S)
  <2>1. \A s \in SUBSET S : s # {} => Chosen(s) \in S BY DEF Chosen
  <2>2. \A d \in S : Rise(d) = R[d] OBVIOUS
  <2> HIDE DEF S
  <2>3. ASSUME NEW h, NEW s \in SUBSET S
        PROVE  (IF s = {} THEN 0 ELSE Rise(Chosen(s)) + h[s \ {Chosen(s)}])
               = (IF s = {} THEN 0 ELSE R[Chosen(s)] + h[s \ {Chosen(s)}])
    BY <2>1, <2>2
  <2> QED BY <2>3 DEF IsSum
<1> HIDE DEF Sums, S
<1>3. (CHOOSE h : Sums(h)) = (CHOOSE h : IsSum(h, R, S)) BY <1>2
<1>4. Total(R, S) = (CHOOSE h : IsSum(h, R, S))[S] BY DEF Total
<1> QED BY <1>1, <1>3, <1>4 DEF S

LEMMA CountedRightHolds == CountedRight
<1> SUFFICES ASSUME reported \in Seq(Int), NEW t \in 1..Len(reported)
             PROVE  /\ Rise(t) = Rises(reported)[t] /\ CameIn(t) = Came(reported, t)
                    /\ Lowest(t) = Low(reported, t) /\ WentOut(t) = Gone(reported, t)
                    /\ \A d \in 1..t : Open(d, t) = Still(reported, t)[d]
                    /\ Kept(t) = KeptOf(Still(reported, t), t)
  BY DEF CountedRight
<1>0. t \in Nat /\ \A d \in 1..t : d \in 1..Len(reported) /\ d \in Nat /\ \A e \in 1..d : e \in 1..Len(reported) OBVIOUS
<1>1. \A d \in 1..Len(reported) : Rise(d) = Rises(reported)[d]
  <2>1. \A d \in 1..Len(reported) : Had(reported, d - 1) = IF d = 1 THEN 0 ELSE reported[d - 1] BY DEF Had
  <2> QED BY <2>1 DEF Rise, Rises
<1>2. \A d \in 1..t : CameIn(d) = Came(reported, d)
  <2> SUFFICES ASSUME NEW d \in 1..t PROVE CameIn(d) = Came(reported, d) OBVIOUS
  <2> DEFINE R == Rises(reported)
  <2>1. d \in Nat /\ \A e \in 1..d : Rise(e) = R[e] BY <1>0, <1>1
  <2> HIDE DEF R
  <2>2. CameIn(d) = Total(R, 1..d) BY <2>1, CameInIsASum
  <2> QED BY <2>2 DEF Came, R
<1>3. Lowest(t) = Low(reported, t) BY DEF Lowest, Low
<1>4. WentOut(t) = Gone(reported, t)
  <2>1. Had(reported, t) = reported[t] /\ t \in 1..t BY DEF Had
  <2> QED BY <1>2, <1>3, <2>1 DEF WentOut, Gone
<1>5. \A d \in 1..t : Open(d, t) = Still(reported, t)[d]
  <2>1. \A d \in 1..t : Rise(d) = Rises(reported)[d] BY <1>0, <1>1
  <2> QED BY <1>2, <1>4, <2>1 DEF Open, Still
<1>6. Kept(t) = KeptOf(Still(reported, t), t)
  <2>1. Still(reported, t) \in [1..t -> Int]
    <3>1. t \in 0..Len(reported) OBVIOUS
    <3>2. Still(reported, t) \in [1..t -> Nat] BY <3>1, StillAddsUp DEF Summed
    <3> QED BY <3>2
  <2>2. \A d \in 1..t : Open(d, t) \in Int BY <1>5, <2>1
  <2>3. Kept(t) = KeptOf(OpenOf(t), t) BY <1>0, <2>2, KeptIsAFold
  <2>4. OpenOf(t) = Still(reported, t)
    <3>1. Still(reported, t) = [d \in 1..t |-> Still(reported, t)[d]] BY <2>1
    <3> QED BY <1>5, <3>1 DEF OpenOf
  <2> QED BY <2>3, <2>4
<1>7. t \in 1..t OBVIOUS
<1> QED BY <1>1, <1>2, <1>3, <1>4, <1>5, <1>6, <1>7

\* What a day's cash gained on the day it went, and what all of it gained.
Gain(s, v, t) ==
    [d \in 1..Len(s) |-> IF d >= t \/ Still(s, t - 1)[d] = Still(s, t)[d] THEN 0
                         ELSE (Still(s, t - 1)[d] - Still(s, t)[d]) * (Growth(v, d, t) - Scale)]
Bank(s, v) == [t \in 1..Len(s) |-> Total(Gain(s, v, t), 1..Len(s))]

GainsRight ==
    reported \in Seq(Int) => MapThenSumSet(GainsOn, Days) = Total(Bank(reported, index), 1..Len(reported))

LEMMA GainsRightHolds == GainsRight
<1> SUFFICES ASSUME reported \in Seq(Int)
             PROVE  MapThenSumSet(GainsOn, Days) = Total(Bank(reported, index), 1..Len(reported))
  BY DEF GainsRight
<1> DEFINE n == Len(reported)
           S == 1..n
           B == Bank(reported, index)
<1>0. Days = S /\ n \in Nat BY DEF Days
<1>1. ASSUME NEW t \in S PROVE GainsOn(t) = B[t]
  <2> DEFINE g == Gain(reported, index, t)
             Sums(f) == f = [s \in SUBSET S |-> IF s = {} THEN 0 ELSE GainOf(Chosen(s), t) + f[s \ {Chosen(s)}]]
  <2>1. GainsOn(t) = (CHOOSE f : Sums(f))[S]
    BY <1>0 DEF GainsOn, MapThenSumSet, MapThenFoldSet, Chosen
  <2>2. \A d \in S : GainOf(d, t) = g[d]
    <3> SUFFICES ASSUME NEW d \in S PROVE GainOf(d, t) = g[d] OBVIOUS
    <3>1. CASE d >= t BY <3>1 DEF GainOf, Gain
    <3>2. CASE d < t
      <4>1. t - 1 \in 1..n /\ d \in 1..(t - 1) /\ d \in 1..t BY <3>2
      <4>2. Open(d, t) = Still(reported, t)[d] BY <4>1, CountedRightHolds DEF CountedRight
      <4>3. Open(d, t - 1) = Still(reported, t - 1)[d] BY <4>1, CountedRightHolds DEF CountedRight
      <4> QED BY <4>2, <4>3 DEF GainOf, Gain
    <3> QED BY <3>1, <3>2
  <2>3. \A h : Sums(h) <=> IsSum(h, g, S)
    <3>1. \A s \in SUBSET S : s # {} => Chosen(s) \in S BY DEF Chosen
    <3> HIDE DEF S, g
    <3>2. ASSUME NEW h, NEW s \in SUBSET S
          PROVE  (IF s = {} THEN 0 ELSE GainOf(Chosen(s), t) + h[s \ {Chosen(s)}])
                 = (IF s = {} THEN 0 ELSE g[Chosen(s)] + h[s \ {Chosen(s)}])
      BY <2>2, <3>1
    <3> QED BY <3>2 DEF IsSum
  <2>4. B[t] = Total(g, S) BY DEF Bank
  <2> HIDE DEF Sums, S, g, B
  <2>5. (CHOOSE h : Sums(h)) = (CHOOSE h : IsSum(h, g, S)) BY <2>3
  <2>6. Total(g, S) = (CHOOSE h : IsSum(h, g, S))[S] BY DEF Total
  <2> QED BY <2>1, <2>4, <2>5, <2>6
<1> DEFINE Sums(f) == f = [s \in SUBSET S |-> IF s = {} THEN 0 ELSE GainsOn(Chosen(s)) + f[s \ {Chosen(s)}]]
<1>2. MapThenSumSet(GainsOn, Days) = (CHOOSE f : Sums(f))[S]
  BY <1>0 DEF MapThenSumSet, MapThenFoldSet, Chosen
<1>3. \A h : Sums(h) <=> IsSum(h, B, S)
  <2>1. \A s \in SUBSET S : s # {} => Chosen(s) \in S BY DEF Chosen
  <2> HIDE DEF S, B
  <2>2. ASSUME NEW h, NEW s \in SUBSET S
        PROVE  (IF s = {} THEN 0 ELSE GainsOn(Chosen(s)) + h[s \ {Chosen(s)}])
               = (IF s = {} THEN 0 ELSE B[Chosen(s)] + h[s \ {Chosen(s)}])
    BY <1>1, <2>1
  <2> QED BY <2>2 DEF IsSum
<1> HIDE DEF Sums, S, B
<1>4. (CHOOSE h : Sums(h)) = (CHOOSE h : IsSum(h, B, S)) BY <1>3
<1>5. Total(B, S) = (CHOOSE h : IsSum(h, B, S))[S] BY DEF Total
<1> QED BY <1>2, <1>4, <1>5 DEF S, B

MissedIs(s, v) ==
    [d \in 1..Len(s) |-> IF Still(s, Len(s))[d] = 0 THEN 0
                         ELSE Still(s, Len(s))[d] * (Growth(v, d, Len(s)) - Scale)]

LEMMA MissedIsASum ==
  ASSUME reported \in Seq(Int), Len(reported) > 0
  PROVE  MapThenSumSet(MissedOf, Days) = Total(MissedIs(reported, index), 1..Len(reported))
<1> DEFINE n == Len(reported)
           S == 1..n
           B == MissedIs(reported, index)
           Sums(f) == f = [s \in SUBSET S |-> IF s = {} THEN 0 ELSE MissedOf(Chosen(s)) + f[s \ {Chosen(s)}]]
<1>0. Days = S /\ n \in Nat /\ n \in 1..n BY DEF Days
<1>1. \A d \in S : MissedOf(d) = B[d]
  <2>1. \A d \in S : Open(d, n) = Still(reported, n)[d] BY <1>0, CountedRightHolds DEF CountedRight
  <2> QED BY <2>1 DEF MissedOf, MissedIs
<1>2. MapThenSumSet(MissedOf, Days) = (CHOOSE f : Sums(f))[S]
  BY <1>0 DEF MapThenSumSet, MapThenFoldSet, Chosen
<1>3. \A h : Sums(h) <=> IsSum(h, B, S)
  <2>1. \A s \in SUBSET S : s # {} => Chosen(s) \in S BY DEF Chosen
  <2> HIDE DEF S, B
  <2>2. ASSUME NEW h, NEW s \in SUBSET S
        PROVE  (IF s = {} THEN 0 ELSE MissedOf(Chosen(s)) + h[s \ {Chosen(s)}])
               = (IF s = {} THEN 0 ELSE B[Chosen(s)] + h[s \ {Chosen(s)}])
    BY <1>1, <2>1
  <2> QED BY <2>2 DEF IsSum
<1> HIDE DEF Sums, S, B
<1>4. (CHOOSE h : Sums(h)) = (CHOOSE h : IsSum(h, B, S)) BY <1>3
<1>5. Total(B, S) = (CHOOSE h : IsSum(h, B, S))[S] BY DEF Total
<1> QED BY <1>2, <1>4, <1>5 DEF S, B

-----------------------------------------------------------------------------
(* What is gained on a day.                                                *)

LEMMA SumLess ==
  ASSUME NEW n \in Nat, NEW z, NEW y, NEW o, NEW c \in Int,
         \A d \in 1..n : y[d] \in Int /\ o[d] \in Int /\ z[d] = y[d] - c * o[d]
  PROVE  Total(z, 1..n) = Total(y, 1..n) - c * Total(o, 1..n)
<1> DEFINE T == 1..n
           Q == {S \in SUBSET T : Total(z, S) = Total(y, S) - c * Total(o, S)}
<1>1. IsFiniteSet(T) /\ \A d \in T : y[d] \in Int /\ o[d] \in Int /\ z[d] \in Int /\ z[d] = y[d] - c * o[d]
  BY FS_Interval
<1> HIDE DEF T
<1>2. {} \in Q
  <2>1. Total(z, {}) = 0 BY <1>1, TotalTakes
  <2>2. Total(y, {}) = 0 BY <1>1, TotalTakes
  <2>3. Total(o, {}) = 0 BY <1>1, TotalTakes
  <2> QED BY <2>1, <2>2, <2>3
<1>3. ASSUME NEW S \in SUBSET T, S # {}, \A d \in S : S \ {d} \in Q PROVE S \in Q
  <2> PICK d \in S : TRUE BY <1>3
  <2>1. IsFiniteSet(S) /\ \A e \in S : y[e] \in Int /\ o[e] \in Int /\ z[e] \in Int BY <1>1, FS_Subset
  <2>2. Total(z, S) = z[d] + Total(z, S \ {d}) /\ Total(z, S \ {d}) \in Int BY <2>1, TotalTakes
  <2>3. Total(y, S) = y[d] + Total(y, S \ {d}) /\ Total(y, S \ {d}) \in Int BY <2>1, TotalTakes
  <2>4. Total(o, S) = o[d] + Total(o, S \ {d}) /\ Total(o, S \ {d}) \in Int BY <2>1, TotalTakes
  <2>5. Total(z, S \ {d}) = Total(y, S \ {d}) - c * Total(o, S \ {d}) BY <1>3
  <2> DEFINE a == o[d]
             b == Total(o, S \ {d})
             e == y[d]
             f == Total(y, S \ {d})
  <2>6. a \in Int /\ b \in Int /\ e \in Int /\ f \in Int /\ z[d] = e - c * a BY <1>1, <2>3, <2>4
  <2>7. Total(z, S) = (e - c * a) + (f - c * b) BY <2>2, <2>5, <2>6
  <2>8. Total(y, S) = e + f /\ Total(o, S) = a + b BY <2>3, <2>4
  <2> HIDE DEF a, b, e, f
  <2>9. c * (a + b) = c * a + c * b /\ c * a \in Int /\ c * b \in Int BY <2>6
  <2>10. (e - c * a) + (f - c * b) = (e + f) - (c * a + c * b) BY <2>6, <2>9
  <2>11. Total(z, S) = Total(y, S) - c * Total(o, S) BY <2>7, <2>8, <2>9, <2>10
  <2> QED BY <2>11
<1> HIDE DEF Q
<1>4. \A S \in SUBSET T : S \in Q BY <1>1, <1>2, <1>3, OneByOne
<1>5. T \in Q BY <1>4
<1> QED BY <1>5 DEF Q, T

LEMMA SummedIsTotal ==
  ASSUME NEW n \in Nat, NEW o, NEW P, Summed(o, P, n)
  PROVE  Total(o, 1..n) = P[n]
<1> DEFINE N == {k \in Nat : k <= n => Total(o, 1..k) = P[k]}
<1>0. ASSUME NEW k \in Nat, k <= n PROVE IsFiniteSet(1..k) /\ \A d \in 1..k : o[d] \in Int
  <2>1. 1 \in Int /\ k \in Int OBVIOUS
  <2>2. \A d \in 1..k : d \in 1..n BY <1>0
  <2>3. \A d \in 1..n : o[d] \in Int BY DEF Summed
  <2> QED BY <2>1, <2>2, <2>3, FS_Interval
<1>1. 0 \in N
  <2>1. 1..0 = {} /\ P[0] = 0 BY DEF Summed
  <2>2. Total(o, {}) = 0
    <3>1. \A x \in {} : o[x] \in Int OBVIOUS
    <3> QED BY <3>1, TotalTakes, FS_EmptySet
  <2> QED BY <2>1, <2>2
<1>2. ASSUME NEW j \in Nat, j \in N PROVE j + 1 \in N
  <2> DEFINE k == j + 1
  <2> SUFFICES ASSUME k <= n PROVE Total(o, 1..k) = P[k] OBVIOUS
  <2>1. k \in 1..n /\ k - 1 = j /\ k \in Nat OBVIOUS
  <2> DEFINE S == 1..k
  <2>2. k \in S /\ S \ {k} = 1..j OBVIOUS
  <2>3. IsFiniteSet(S) /\ \A d \in S : o[d] \in Int BY <1>0, <2>1
  <2>4. Total(o, 1..j) = P[j] BY <1>2, <2>1
  <2>5. P[k] = P[j] + o[k] /\ P[j] \in Nat /\ o[k] \in Nat
    <3>1. P[k] = P[k - 1] + o[k] /\ j \in 0..n BY <2>1 DEF Summed
    <3> QED BY <2>1, <3>1 DEF Summed
  <2> HIDE DEF S, k
  <2>6. \A d \in S : Total(o, S) = o[d] + Total(o, S \ {d}) BY <2>3, TotalTakes
  <2>7. Total(o, S) = P[k] BY <2>2, <2>4, <2>5, <2>6
  <2> QED BY <2>7 DEF S
<1> HIDE DEF N
<1>3. Nat \subseteq N BY <1>1, <1>2, Counting
<1>4. n \in N BY <1>3
<1> QED BY <1>4 DEF N

LEMMA GrowthIsCounted ==
  ASSUME Scale \in Nat, NEW a \in Nat, NEW b \in Nat \ {0}
  PROVE  (Scale * a) \div b \in Int
<1>1. Scale * a \in Nat OBVIOUS
<1> QED BY <1>1

\* The days that cash came in on have an index.
Covered(s, v) == \A d \in 1..Len(s) : Rises(s)[d] > 0 => v[d] # 0

LEMMA GainsAreCounted ==
  ASSUME Scale \in Nat, NEW s \in Seq(Int), NEW v \in Seq(Nat), Len(v) = Len(s), Covered(s, v),
         NEW t \in 1..Len(s)
  PROVE  /\ \A d \in 1..Len(s) : Gain(s, v, t)[d] \in Int
         /\ \A d \in 1..Len(s) : d < t => /\ Still(s, t - 1)[d] \in Nat /\ Still(s, t)[d] \in Nat
                                          /\ Still(s, t - 1)[d] # Still(s, t)[d] => Growth(v, d, t) \in Int
<1>1. ASSUME NEW d \in 1..Len(s), d < t
      PROVE  /\ Still(s, t - 1)[d] \in Nat /\ Still(s, t)[d] \in Nat
             /\ Still(s, t - 1)[d] # Still(s, t)[d] => Growth(v, d, t) \in Int
  <2>1. t - 1 \in 0..Len(s) /\ t \in 0..Len(s) /\ d \in 1..(t - 1) /\ d \in 1..t /\ d \in 0..Len(s) BY <1>1
  <2>2. Still(s, t) \in [1..t -> Nat] BY <2>1, StillAddsUp DEF Summed
  <2>3. Still(s, t - 1) \in [1..(t - 1) -> Nat] BY <2>1, StillAddsUp DEF Summed
  <2>4. ASSUME Still(s, t - 1)[d] # Still(s, t)[d] PROVE Growth(v, d, t) \in Int
    <3>1. Still(s, t)[d] = Most(0, Least(Rises(s)[d], Came(s, d) - Gone(s, t))) BY <2>1 DEF Still
    <3>2. Still(s, t - 1)[d] = Most(0, Least(Rises(s)[d], Came(s, d) - Gone(s, t - 1))) BY <2>1 DEF Still
    <3>3. Rises(s)[d] \in Nat BY RisesAreCounted
    <3>4. Came(s, d) \in Int /\ Gone(s, t) \in Nat /\ Gone(s, t - 1) \in Nat BY <2>1, CameGrows, GoneGrows
    <3>5. Rises(s)[d] > 0 BY <2>4, <3>1, <3>2, <3>3, <3>4 DEF Most, Least
    <3>6. v[d] \in Nat \ {0} /\ v[t] \in Nat
      <4>1. v[d] # 0 BY <3>5 DEF Covered
      <4>2. d \in 1..Len(v) /\ t \in 1..Len(v) OBVIOUS
      <4> QED BY <4>1, <4>2
    <3> QED BY <3>6, GrowthIsCounted DEF Growth
  <2> QED BY <2>1, <2>2, <2>3, <2>4
<1>2. ASSUME NEW d \in 1..Len(s) PROVE Gain(s, v, t)[d] \in Int
  <2>1. Gain(s, v, t)[d] = IF d >= t \/ Still(s, t - 1)[d] = Still(s, t)[d] THEN 0
                           ELSE (Still(s, t - 1)[d] - Still(s, t)[d]) * (Growth(v, d, t) - Scale)
    BY DEF Gain
  <2>2. CASE d >= t \/ Still(s, t - 1)[d] = Still(s, t)[d] BY <2>1, <2>2
  <2>3. CASE ~(d >= t \/ Still(s, t - 1)[d] = Still(s, t)[d])
    <3>1. d < t /\ Still(s, t - 1)[d] # Still(s, t)[d] BY <2>3
    <3> DEFINE a == Still(s, t - 1)[d]
               b == Still(s, t)[d]
               g == Growth(v, d, t)
    <3>2. a \in Nat /\ b \in Nat /\ g \in Int BY <1>1, <3>1
    <3>3. Gain(s, v, t)[d] = (a - b) * (g - Scale) BY <2>1, <2>3
    <3> HIDE DEF a, b, g
    <3>4. a - b \in Int /\ g - Scale \in Int BY <3>2
    <3>5. \A i, j \in Int : i * j \in Int OBVIOUS
    <3> QED BY <3>3, <3>4, <3>5
  <2> QED BY <2>2, <2>3
<1> QED BY <1>1, <1>2

LEMMA GainsOfADay ==
  ASSUME Scale \in Nat, NEW s \in Seq(Int), NEW x \in Int, NEW v \in Seq(Nat), Len(v) = Len(s), NEW y \in Nat,
         Covered(Append(s, x), Append(v, y))
  PROVE  LET n == Len(s)
             fall == Had(s, n) - x
         IN  /\ Total(Bank(Append(s, x), Append(v, y)), 1..(n + 1))
                = Total(Bank(s, v), 1..n)
                  + (IF fall > 0 THEN Banked(Consume(KeptOf(Still(s, n), n), fall).consumed, Append(v, y), n + 1)
                     ELSE 0)
             /\ Total(Bank(s, v), 1..n) \in Int
             /\ fall > 0 => Banked(Consume(KeptOf(Still(s, n), n), fall).consumed, Append(v, y), n + 1) \in Int
<1> DEFINE n == Len(s)
           m == n + 1
           r == Append(s, x)
           u == Append(v, y)
           h == Had(s, n)
           fall == h - x
           o == Still(s, n)
           left == Still(r, m)
           g == [d \in 1..n |-> o[d] - left[d]]
           w == [d \in 1..n |-> Growth(u, d, m) - Scale]
           z == [d \in 1..n |-> Gain(r, u, m)[d]]
           B == Bank(s, v)
           C == Bank(r, u)
<1>1. /\ n \in Nat /\ m \in Nat /\ r \in Seq(Int) /\ Len(r) = m /\ u \in Seq(Nat) /\ Len(u) = m
      /\ \A d \in 1..n : u[d] = v[d] /\ d \in 1..m /\ d \in 0..n /\ d - 1 \in 0..n
      /\ m \in 1..m /\ n \in 0..n /\ m - 1 = n /\ m \notin 1..n /\ (1..m) \ {m} = 1..n
      /\ \A d \in 1..m : d \in 1..n \/ d = m
  OBVIOUS
<1>2. IsFiniteSet(1..n) /\ IsFiniteSet(1..m)
  <2>1. 1 \in Int /\ n \in Int /\ m \in Int BY <1>1
  <2> HIDE DEF n, m
  <2> QED BY <2>1, FS_Interval
<1>3. /\ \A t \in 0..n : Still(r, t) = Still(s, t)
      /\ Had(r, n) = h
  <2>1. \A t \in 0..n : Had(r, t) = Had(s, t) /\ Still(r, t) = Still(s, t) BY PrefixesAgree
  <2> QED BY <1>1, <2>1
<1>4. h \in Int /\ fall \in Int
  <2>1. h \in Int BY <1>1, RisesAreCounted
  <2> HIDE DEF h
  <2> QED BY <2>1
<1>5. Covered(r, u) OBVIOUS
<1>6. o \in [1..n -> Nat] /\ left \in [1..m -> Nat] /\ \A d \in 1..n : o[d] - left[d] >= 0
  BY OneDayMore
<1>7. /\ fall <= 0 => \A d \in 1..n : left[d] = o[d]
      /\ fall > 0 => KeptOf(g, n) = Consume(KeptOf(o, n), fall).consumed
  <2> DEFINE delta == x - h
  <2>1. /\ delta >= 0 => \A d \in 1..n : left[d] = o[d]
        /\ delta < 0 => KeptOf(g, n) = Consume(KeptOf(o, n), -delta).consumed
    BY OneDayMore
  <2>2. -delta = fall /\ (delta < 0 <=> fall > 0) /\ (delta >= 0 <=> fall <= 0)
    <3> HIDE DEF h
    <3> QED BY <1>4
  <2> HIDE DEF delta, fall, g, o, left
  <2> QED BY <2>1, <2>2
<1>8. ASSUME NEW t \in 1..m
      PROVE  /\ \A d \in 1..m : Gain(r, u, t)[d] \in Int
             /\ \A d \in 1..m : d < t => /\ Still(r, t - 1)[d] \in Nat /\ Still(r, t)[d] \in Nat
                                         /\ Still(r, t - 1)[d] # Still(r, t)[d] => Growth(u, d, t) \in Int
  <2>1. r \in Seq(Int) /\ u \in Seq(Nat) /\ Len(u) = Len(r) /\ Covered(r, u) /\ t \in 1..Len(r) BY <1>1, <1>5
  <2>2. Len(r) = m BY <1>1
  <2> HIDE DEF r, u, m
  <2> QED BY <2>1, <2>2, GainsAreCounted
<1> HIDE DEF n, m, r, u, h, fall, o, left
<1>9. ASSUME NEW t \in 1..m
      PROVE  /\ C[t] = Total(Gain(r, u, t), 1..n) /\ C[t] \in Int
  <2> DEFINE G == Gain(r, u, t)
             S == 1..m
  <2>1. G[m] = 0
    <3>1. m >= t BY <1>1
    <3> QED BY <1>1, <3>1 DEF Gain
  <2>2. C[t] = Total(G, S) BY <1>1 DEF Bank
  <2>3. \A d \in S : G[d] \in Int BY <1>8
  <2>4. m \in S /\ S \ {m} = 1..n /\ IsFiniteSet(S) BY <1>1, <1>2
  <2> HIDE DEF G, S, C
  <2>5. Total(G, S) = G[m] + Total(G, 1..n) /\ Total(G, 1..n) \in Int
    <3>1. \A d \in S : Total(G, S) = G[d] + Total(G, S \ {d}) /\ Total(G, S \ {d}) \in Int BY <2>3, <2>4, TotalTakes
    <3> QED BY <2>4, <3>1
  <2>6. Total(G, S) = Total(G, 1..n) BY <2>1, <2>5
  <2> QED BY <2>2, <2>5, <2>6 DEF G
<1>10. ASSUME NEW t \in 1..n PROVE C[t] = B[t]
  <2> DEFINE G == Gain(r, u, t)
             H == Gain(s, v, t)
  <2>1. t \in 1..m /\ t \in 0..n /\ t - 1 \in 0..n BY <1>1
  <2>2. ASSUME NEW d \in 1..n PROVE G[d] = H[d]
    <3>1. u[d] = v[d] /\ u[t] = v[t] /\ d \in 1..m BY <1>1
    <3>2. Growth(u, d, t) = Growth(v, d, t) BY <3>1 DEF Growth
    <3>3. Still(r, t) = Still(s, t) /\ Still(r, t - 1) = Still(s, t - 1) BY <1>3, <2>1
    <3> QED BY <1>1, <3>1, <3>2, <3>3 DEF Gain, n
  <2>3. Alike(G, H, 1..n) BY <2>2 DEF Alike
  <2>4. B[t] = Total(H, 1..n) BY DEF Bank, n
  <2>5. C[t] = Total(G, 1..n) BY <1>9, <2>1
  <2> HIDE DEF G, H, B, C
  <2>6. Total(G, 1..n) = Total(H, 1..n) BY <1>2, <2>3, TotalsAgree
  <2> QED BY <2>4, <2>5, <2>6
<1>11. Total(C, 1..m) = C[m] + Total(B, 1..n) /\ Total(B, 1..n) \in Int
  <2> DEFINE S == 1..m
  <2>1. m \in S /\ S \ {m} = 1..n /\ IsFiniteSet(S) /\ \A t \in S : C[t] \in Int BY <1>1, <1>2, <1>9
  <2>2. Alike(C, B, 1..n) BY <1>10 DEF Alike
  <2> HIDE DEF S, B, C
  <2>3. Total(C, S) = C[m] + Total(C, S \ {m}) /\ Total(C, S \ {m}) \in Int BY <2>1, TotalTakes
  <2>4. Total(C, 1..n) = Total(B, 1..n) BY <1>2, <2>2, TotalsAgree
  <2> QED BY <2>1, <2>3, <2>4 DEF S
<1>12. C[m] = Total(z, 1..n) /\ C[m] \in Int
  <2> DEFINE G == Gain(r, u, m)
  <2>1. C[m] = Total(G, 1..n) /\ C[m] \in Int BY <1>1, <1>9
  <2>2. Alike(G, z, 1..n) BY DEF Alike
  <2> HIDE DEF G, z, C
  <2>3. Total(G, 1..n) = Total(z, 1..n) BY <1>2, <2>2, TotalsAgree
  <2> QED BY <2>1, <2>3
<1>13. Worths(z, g, w, n)
  <2>1. ASSUME NEW d \in 1..n
        PROVE  /\ z[d] \in Int /\ g[d] \in Int
               /\ z[d] = IF g[d] > 0 THEN g[d] * w[d] ELSE 0
               /\ g[d] > 0 => Growth(u, d, m) \in Int
    <3>1. d \in 1..m /\ d < m /\ m \in 1..m BY <1>1
    <3>2. Still(r, m - 1)[d] = o[d] /\ Still(r, m)[d] = left[d] BY <1>1, <1>3 DEF o, left
    <3>3. o[d] \in Nat /\ left[d] \in Nat /\ o[d] - left[d] >= 0 BY <1>6, <3>1
    <3>4. z[d] = IF d >= m \/ o[d] = left[d] THEN 0 ELSE (o[d] - left[d]) * (Growth(u, d, m) - Scale)
      BY <1>1, <3>1, <3>2 DEF Gain
    <3>5. g[d] = o[d] - left[d] /\ w[d] = Growth(u, d, m) - Scale OBVIOUS
    <3>6. z[d] \in Int /\ (o[d] # left[d] => Growth(u, d, m) \in Int)
      <4> HIDE DEF g, w, z, B, C
      <4>1. PICK t \in 1..m : t = m BY <1>1
      <4>2. /\ Gain(r, u, t)[d] \in Int
            /\ Still(r, t - 1)[d] # Still(r, t)[d] => Growth(u, d, t) \in Int
        <5>1. \A e \in 1..m : Gain(r, u, t)[e] \in Int BY <1>8
        <5>2. \A e \in 1..m : e < t => (Still(r, t - 1)[e] # Still(r, t)[e] => Growth(u, e, t) \in Int) BY <1>8
        <5>3. d \in 1..m /\ d < t BY <3>1, <4>1
        <5>4. Gain(r, u, t)[d] \in Int BY <5>1, <5>3
        <5> QED BY <5>2, <5>3, <5>4
      <4>3. z[d] = Gain(r, u, m)[d] BY DEF z
      <4>4. /\ Gain(r, u, m)[d] \in Int
            /\ Still(r, m - 1)[d] # Still(r, m)[d] => Growth(u, d, m) \in Int
        BY <4>1, <4>2
      <4> QED BY <3>2, <4>3, <4>4
    <3> HIDE DEF g, w, z
    <3>7. g[d] > 0 <=> o[d] # left[d] BY <3>3, <3>5
    <3>8. ~(d >= m) BY <1>1, <3>1
    <3> QED BY <3>3, <3>4, <3>5, <3>6, <3>7, <3>8
  <2>2. z \in [1..n -> Int] /\ g \in [1..n -> Int]
    <3>1. \A d \in 1..n : Gain(r, u, m)[d] \in Int /\ o[d] - left[d] \in Int BY <2>1
    <3> QED BY <3>1
  <2> HIDE DEF z, g, w
  <2> QED BY <2>1, <2>2 DEF Worths
<1>14. g \in [1..n -> Int] BY <1>13 DEF Worths
<1> HIDE DEF z, g, B, C
<1>15. Weigh(KeptOf(g, n), w) = Total(z, 1..n)
       /\ \A i \in 1..Len(KeptOf(g, n)) : KeptOf(g, n)[i].amount * w[KeptOf(g, n)[i].arrival] \in Int
  <2> HIDE DEF w
  <2>1. \A k \in 0..n : /\ Weigh(KeptOf(g, k), w) = Total(z, 1..k)
                        /\ \A i \in 1..Len(KeptOf(g, k)) :
                              KeptOf(g, k)[i].amount * w[KeptOf(g, k)[i].arrival] \in Int
    BY <1>1, <1>13, KeptIsWorthItsDays
  <2> QED BY <1>1, <2>1
<1>16. /\ KeptOf(g, n) \in Seq(Slice)
       /\ \A i \in 1..Len(KeptOf(g, n)) : KeptOf(g, n)[i].arrival \in 1..n /\ g[KeptOf(g, n)[i].arrival] > 0
       /\ KeptOf(g, n) # <<>> => \E i \in 1..Len(KeptOf(g, n)) : TRUE
  <2>1. KeptOf(g, n) \in Seq(Slice) BY <1>1, <1>14, KeptSteps
  <2>2. \A i \in 1..Len(KeptOf(g, n)) : KeptOf(g, n)[i].arrival \in 1..n /\ g[KeptOf(g, n)[i].arrival] > 0
    BY <1>1, <1>14, KeptBeginsWithTheOldest
  <2>3. \A q \in Seq(Slice) : q # <<>> => 1 \in 1..Len(q) OBVIOUS
  <2> QED BY <2>1, <2>2, <2>3
<1>17. ASSUME fall > 0
       PROVE Banked(Consume(KeptOf(o, n), fall).consumed, u, m) = C[m]
  <2> DEFINE q == KeptOf(g, n)
  <2>1. Consume(KeptOf(o, n), fall).consumed = q BY <1>7, <1>17 DEF g
  <2>2. q \in Seq(Slice) /\ \A i \in 1..Len(q) : w[q[i].arrival] = Growth(u, q[i].arrival, m) - Scale BY <1>16
  <2>3. \A i \in 1..Len(q) : q[i].amount * w[q[i].arrival] \in Int BY <1>15
  <2> HIDE DEF q, w
  <2>4. Banked(q, u, m) = Weigh(q, w) BY <2>2, <2>3, BankedWeighs
  <2> QED BY <1>12, <1>15, <2>1, <2>4 DEF q
<1>18. ASSUME ~(fall > 0) PROVE C[m] = 0
  <2>1. \A d \in 1..n : left[d] = o[d]
    <3>1. fall <= 0 BY <1>4, <1>18
    <3> QED BY <1>7, <3>1
  <2>2. \A d \in 1..n : g[d] = 0
    <3> SUFFICES ASSUME NEW d \in 1..n PROVE g[d] = 0 OBVIOUS
    <3>1. o[d] \in Nat /\ left[d] = o[d] BY <1>6, <2>1
    <3>2. g[d] = o[d] - left[d] BY DEF g
    <3> QED BY <3>1, <3>2
  <2>3. KeptOf(g, n) = <<>>
    <3> SUFFICES ASSUME KeptOf(g, n) # <<>> PROVE FALSE OBVIOUS
    <3>1. PICK i \in 1..Len(KeptOf(g, n)) : TRUE BY <1>16
    <3> QED BY <1>16, <2>2, <3>1
  <2> QED BY <1>12, <1>15, <2>3, WeighEmpty
<1>19. Total(C, 1..m) = Total(B, 1..n) + (IF fall > 0 THEN Banked(Consume(KeptOf(o, n), fall).consumed, u, m) ELSE 0)
  <2>1. Total(C, 1..m) = C[m] + Total(B, 1..n) /\ Total(B, 1..n) \in Int /\ C[m] \in Int BY <1>11, <1>12
  <2> QED BY <1>17, <1>18, <2>1
<1> QED BY <1>11, <1>12, <1>17, <1>19 DEF n, m, r, u, h, fall, o, B, C

-----------------------------------------------------------------------------
(* The summary.                                                            *)

\* The properties, said of the days that are reported.
LotsC  == cashLots = KeptOf(Still(reported, Len(reported)), Len(reported))
GainsC == (\A d \in start..Len(index) : index[d] # NoPrice)
          => realized = Total(Bank(reported, index), 1..Len(reported))
CashInv == DaysPass /\ RangesBegin /\ (reported # <<>> => LotsC /\ GainsC)

LEMMA CashIsWhole ==
  ASSUME CashIsCounted, DaysPass
  PROVE  /\ reported \in Seq(Int) /\ index \in Seq(Nat) /\ Len(index) = Len(reported)
         /\ Scale \in Nat /\ start \in Nat \ {0} /\ balance \in Int /\ realized \in Int
<1>1. Balances \cup {0} \subseteq Int /\ Indices \subseteq Nat /\ Starts \subseteq Nat \ {0} BY DEF CashIsCounted
<1>2. Seq(Balances \cup {0}) \subseteq Seq(Int)
  <2>1. ASSUME NEW q \in Seq(Balances \cup {0}) PROVE q \in Seq(Int)
    <3>1. Len(q) \in Nat /\ q = [i \in 1..Len(q) |-> q[i]] /\ \A i \in 1..Len(q) : q[i] \in Balances \cup {0} OBVIOUS
    <3>2. \A i \in 1..Len(q) : q[i] \in Int BY <1>1, <3>1
    <3> QED BY <3>1, <3>2
  <2> QED BY <2>1
<1>3. Seq(Indices) \subseteq Seq(Nat)
  <2>1. ASSUME NEW q \in Seq(Indices) PROVE q \in Seq(Nat)
    <3>1. Len(q) \in Nat /\ q = [i \in 1..Len(q) |-> q[i]] /\ \A i \in 1..Len(q) : q[i] \in Indices OBVIOUS
    <3>2. \A i \in 1..Len(q) : q[i] \in Nat BY <1>1, <3>1
    <3> QED BY <3>1, <3>2
  <2> QED BY <2>1
<1> QED BY <1>1, <1>2, <1>3 DEF CashIsCounted, DaysPass

LEMMA SummaryFollows ==
  ASSUME CashIsCounted, DaysPass, RangesBegin, reported # <<>>, LotsC
  PROVE  SummaryIsOfTheDollars
<1> SUFFICES ASSUME start = 1, ~SummaryRefused
             PROVE  /\ \A d \in Days : d < Since => Open(d, Len(reported)) = 0
                    /\ Missed = MapThenSumSet(MissedOf, Days) - Scale * Lowest(Len(reported))
  BY DEF SummaryIsOfTheDollars
<1> DEFINE n == Len(reported)
           o == Still(reported, n)
           w == [d \in 1..n |-> Growth(index, d, n)]
           y == [d \in 1..n |-> IF o[d] > 0 THEN o[d] * w[d] ELSE 0]
           z == MissedIs(reported, index)
           low == Low(reported, n)
<1>0. reported \in Seq(Int) /\ index \in Seq(Nat) /\ Len(index) = n /\ Scale \in Nat /\ n \in Nat /\ n > 0
      /\ balance \in Int /\ n \in 0..n /\ n \in 1..n
  <2>1. reported \in Seq(Int) /\ index \in Seq(Nat) /\ Len(index) = Len(reported) /\ Scale \in Nat /\ balance \in Int
    BY CashIsWhole
  <2> QED BY <2>1
<1>1. o \in [1..n -> Nat] /\ Summed(o, UpTo(reported, n), n)
      /\ UpTo(reported, n)[n] = Had(reported, n) - low
  <2>1. /\ Summed(Still(reported, n), UpTo(reported, n), n)
        /\ UpTo(reported, n)[n] = Came(reported, n) - Gone(reported, n)
        /\ Came(reported, n) - Gone(reported, n) = Had(reported, n) - Low(reported, n)
    BY <1>0, StillAddsUp
  <2> QED BY <2>1 DEF Summed
<1>2. Had(reported, n) = balance /\ low \in Int
  <2>1. reported[n] = balance
    <3>1. reported[n] = Reported(balance, eventful) BY DEF DaysPass
    <3>2. ~eventful => balance = 0 BY DEF RangesBegin
    <3> QED BY <3>1, <3>2 DEF Reported
  <2>2. low \in Int BY <1>0, LowestOf
  <2> QED BY <1>0, <2>1, <2>2 DEF Had
<1>3. Lowest(n) = low /\ \A d \in 1..n : Open(d, n) = o[d]
  BY <1>0, CountedRightHolds DEF CountedRight
<1>4. cashLots = KeptOf(o, n) BY DEF LotsC
<1> HIDE DEF o, n, low
<1>5. o \in [1..n -> Int] BY <1>1
<1>6. /\ cashLots \in Seq(Slice)
      /\ cashLots = <<>> => \A d \in 1..n : o[d] <= 0
      /\ cashLots # <<>> => \A d \in 1..n : d < Head(cashLots).arrival => o[d] <= 0
      /\ \A d \in 1..n : o[d] > 0 => \E i \in 1..Len(cashLots) : cashLots[i].arrival = d
      /\ \A i \in 1..Len(cashLots) : cashLots[i].arrival \in 1..n /\ o[cashLots[i].arrival] > 0
  <2>1. KeptOf(o, n) \in Seq(Slice) BY <1>0, <1>5, KeptSteps
  <2>2. /\ KeptOf(o, n) = <<>> => \A d \in 1..n : o[d] <= 0
        /\ KeptOf(o, n) # <<>> => \A d \in 1..n : d < Head(KeptOf(o, n)).arrival => o[d] <= 0
        /\ \A d \in 1..n : o[d] > 0 => \E i \in 1..Len(KeptOf(o, n)) : KeptOf(o, n)[i].arrival = d
        /\ \A i \in 1..Len(KeptOf(o, n)) : KeptOf(o, n)[i].arrival \in 1..n /\ o[KeptOf(o, n)[i].arrival] > 0
    BY <1>0, <1>5, KeptBeginsWithTheOldest
  <2> QED BY <1>4, <2>1, <2>2
<1>7. \A d \in Days : d < Since => Open(d, Len(reported)) = 0
  <2> SUFFICES ASSUME NEW d \in 1..n, d < Since PROVE o[d] = 0 BY <1>3 DEF Days, n
  <2>1. o[d] \in Nat BY <1>1
  <2>2. CASE cashLots = <<>> BY <1>6, <2>1, <2>2
  <2>3. CASE cashLots # <<>>
    <3>1. d < Head(cashLots).arrival BY <2>3 DEF Since
    <3> QED BY <1>6, <2>1, <2>3, <3>1
  <2> QED BY <2>2, <2>3
<1>8. ASSUME NEW d \in 1..n, o[d] > 0 PROVE w[d] \in Int
  <2>1. PICK i \in 1..Len(cashLots) : cashLots[i].arrival = d BY <1>6, <1>8
  <2>2. index[d] # 0
    <3>1. i \in DOMAIN cashLots BY <1>6
    <3>2. \A j \in DOMAIN cashLots : index[cashLots[j].arrival] # NoPrice BY DEF SummaryRefused
    <3> QED BY <2>1, <3>1, <3>2 DEF NoPrice
  <2>3. index[d] \in Nat \ {0} /\ index[n] \in Nat
    <3>1. d \in 1..Len(index) /\ n \in 1..Len(index) BY <1>0
    <3> QED BY <1>0, <2>2, <3>1
  <2>4. Growth(index, d, n) \in Int BY <1>0, <2>3, GrowthIsCounted DEF Growth
  <2> QED BY <2>4
<1>9. Worths(y, o, w, n)
  <2>1. ASSUME NEW d \in 1..n PROVE y[d] \in Int
    <3>1. o[d] \in Int BY <1>5
    <3>2. y[d] = IF o[d] > 0 THEN o[d] * w[d] ELSE 0 OBVIOUS
    <3> HIDE DEF y, w
    <3>3. CASE o[d] > 0
      <4>1. w[d] \in Int BY <1>8, <3>3
      <4>2. \A i, j \in Int : i * j \in Int OBVIOUS
      <4> QED BY <3>1, <3>2, <3>3, <4>1, <4>2
    <3> QED BY <3>2, <3>3
  <2>2. y \in [1..n -> Int] BY <2>1
  <2>3. \A d \in 1..n : y[d] = IF o[d] > 0 THEN o[d] * w[d] ELSE 0 OBVIOUS
  <2> HIDE DEF y, w
  <2> QED BY <1>5, <2>2, <2>3 DEF Worths
<1>10. Live = Total(y, 1..n)
  <2>1. \A i \in 1..Len(cashLots) : w[cashLots[i].arrival] = Growth(index, cashLots[i].arrival, Len(index))
    BY <1>0, <1>6
  <2> HIDE DEF y, w
  <2>2. /\ Weigh(KeptOf(o, n), w) = Total(y, 1..n)
        /\ \A i \in 1..Len(KeptOf(o, n)) : KeptOf(o, n)[i].amount * w[KeptOf(o, n)[i].arrival] \in Int
    <3>1. \A k \in 0..n : /\ Weigh(KeptOf(o, k), w) = Total(y, 1..k)
                          /\ \A i \in 1..Len(KeptOf(o, k)) :
                                KeptOf(o, k)[i].amount * w[KeptOf(o, k)[i].arrival] \in Int
      <4>1. n \in Nat BY <1>0
      <4> QED BY <1>9, <4>1, KeptIsWorthItsDays
    <3> QED BY <1>0, <3>1
  <2>3. \A i \in 1..Len(cashLots) : cashLots[i].amount * w[cashLots[i].arrival] \in Int BY <1>4, <2>2
  <2>4. Live = Weigh(cashLots, w) BY <1>6, <2>1, <2>3, LiveWeighs
  <2> QED BY <1>4, <2>2, <2>4
<1>11. ASSUME NEW d \in 1..n PROVE y[d] \in Int /\ o[d] \in Int /\ z[d] = y[d] - Scale * o[d]
  <2>1. y[d] \in Int /\ o[d] \in Nat BY <1>1, <1>9 DEF Worths
  <2>2. y[d] = IF o[d] > 0 THEN o[d] * Growth(index, d, n) ELSE 0 OBVIOUS
  <2>3. z[d] = IF o[d] = 0 THEN 0 ELSE o[d] * (Growth(index, d, n) - Scale) BY DEF MissedIs, o, n
  <2>4. o[d] > 0 => Growth(index, d, n) \in Int BY <1>8
  <2> DEFINE a == o[d]
             g == Growth(index, d, n)
  <2>5. a \in Nat /\ Scale \in Nat BY <1>0, <2>1
  <2>6. CASE a = 0
    <3>1. z[d] = 0 /\ y[d] = 0 BY <2>2, <2>3, <2>6
    <3>2. Scale * a = 0 BY <2>5, <2>6
    <3> QED BY <2>1, <3>1, <3>2
  <2>7. CASE a # 0
    <3>1. g \in Int /\ y[d] = a * g /\ z[d] = a * (g - Scale) BY <2>2, <2>3, <2>4, <2>5, <2>7
    <3> HIDE DEF y, z, g, a
    <3>2. \A i, j, k \in Int : i * (j - k) = i * j - k * i OBVIOUS
    <3>3. a * (g - Scale) = a * g - Scale * a BY <2>5, <3>1, <3>2
    <3> QED BY <2>1, <3>1, <3>3 DEF a
  <2> QED BY <2>6, <2>7
<1> HIDE DEF y, z, w
<1>12. Total(z, 1..n) = Total(y, 1..n) - Scale * Total(o, 1..n)
  <2>1. \A d \in 1..n : y[d] \in Int /\ o[d] \in Int /\ z[d] = y[d] - Scale * o[d] BY <1>11
  <2>2. n \in Nat /\ Scale \in Int BY <1>0
  <2> QED BY <2>1, <2>2, SumLess
<1>13. Total(o, 1..n) = balance - low
  <2>1. Total(o, 1..n) = UpTo(reported, n)[n] BY <1>0, <1>1, SummedIsTotal
  <2> QED BY <1>1, <1>2, <2>1
<1>14. Total(y, 1..n) \in Int
  <2>1. IsFiniteSet(1..n)
    <3>1. 1 \in Int /\ n \in Int BY <1>0
    <3> QED BY <3>1, FS_Interval
  <2>2. \A d \in 1..n : y[d] \in Int BY <1>11
  <2> DEFINE S == 1..n
  <2>3. 1 \in S /\ IsFiniteSet(S) /\ \A d \in S : y[d] \in Int BY <1>0, <2>1, <2>2
  <2> HIDE DEF S
  <2>4. \A d \in S : Total(y, S) = y[d] + Total(y, S \ {d}) /\ Total(y, S \ {d}) \in Int BY <2>3, TotalTakes
  <2>5. Total(y, S) = y[1] + Total(y, S \ {1}) /\ Total(y, S \ {1}) \in Int BY <2>3, <2>4
  <2>6. Total(y, S) \in Int BY <2>3, <2>5
  <2> QED BY <2>6 DEF S
<1>15. MapThenSumSet(MissedOf, Days) = Total(z, 1..n)
  <2>1. reported \in Seq(Int) /\ Len(reported) > 0 BY <1>0 DEF n
  <2> QED BY <2>1, MissedIsASum DEF z, n
<1>16. Missed = Total(z, 1..n) - Scale * low
  <2> DEFINE a == Total(y, 1..n)
             b == Total(z, 1..n)
  <2>1. Missed = a - Scale * balance BY <1>10 DEF Missed
  <2>2. b = a - Scale * (balance - low) BY <1>12, <1>13
  <2>3. a \in Int /\ balance \in Int /\ low \in Int /\ Scale \in Int BY <1>0, <1>2, <1>14
  <2> HIDE DEF a, b
  <2>4. \A i, j, k \in Int : i * (j - k) = i * j - i * k /\ i * j \in Int /\ i * k \in Int OBVIOUS
  <2>5. Scale * (balance - low) = Scale * balance - Scale * low /\ Scale * balance \in Int /\ Scale * low \in Int
    BY <2>3, <2>4
  <2>6. a - Scale * balance = b - Scale * low BY <2>2, <2>3, <2>5
  <2> QED BY <2>1, <2>6 DEF b
<1> QED BY <1>3, <1>7, <1>15, <1>16 DEF n

LEMMA EveryDollarFollows ==
  ASSUME CashIsCounted, CashInv
  PROVE  IInv
<1>0. DaysPass /\ RangesBegin BY DEF CashInv
<1> SUFFICES ASSUME reported # <<>> PROVE LotsAreTheDollars /\ GainsAreBanked /\ SummaryIsOfTheDollars
  BY <1>0 DEF IInv, EveryDollarOnce
<1>1. LotsC /\ GainsC BY DEF CashInv
<1>2. reported \in Seq(Int) BY <1>0, CashIsWhole
<1>3. LotsAreTheDollars
  <2>1. Len(reported) \in 1..Len(reported) BY <1>2
  <2>2. Kept(Len(reported)) = KeptOf(Still(reported, Len(reported)), Len(reported))
    BY <1>2, <2>1, CountedRightHolds DEF CountedRight
  <2> QED BY <1>1, <2>2 DEF LotsC, LotsAreTheDollars
<1>4. GainsAreBanked
  <2>1. MapThenSumSet(GainsOn, Days) = Total(Bank(reported, index), 1..Len(reported))
    BY <1>2, GainsRightHolds DEF GainsRight
  <2> QED BY <1>1, <2>1 DEF GainsC, GainsAreBanked
<1>5. SummaryIsOfTheDollars BY <1>0, <1>1, SummaryFollows
<1> QED BY <1>3, <1>4, <1>5

-----------------------------------------------------------------------------
(* A day keeps it.                                                         *)

LEMMA CashInit == ASSUME CashIsCounted, Init PROVE CashInv
<1> DEFINE none == <<>>
<1>0. /\ index = none /\ reported = none /\ none \in Seq(Indices) /\ none \in Seq(Balances \cup {0})
      /\ index = reported /\ start \in Starts /\ eventful \in BOOLEAN /\ balance = 0 /\ realized = 0
      /\ cashLots = <<>>
  <2>1. \A S : none \in Seq(S) OBVIOUS
  <2>2. index = none /\ reported = none BY DEF Init
  <2>3. start \in Starts /\ eventful \in BOOLEAN /\ balance = 0 /\ realized = 0 /\ cashLots = <<>> BY DEF Init
  <2> HIDE DEF none
  <2> QED BY <2>1, <2>2, <2>3
<1>1. DaysPass
  <2>1. Len(index) = Len(reported) /\ realized \in Int /\ balance \in Balances \cup {0} BY <1>0
  <2>2. reported = <<>> BY DEF Init
  <2>3. index \in Seq(Indices) /\ reported \in Seq(Balances \cup {0}) BY <1>0
  <2> HIDE DEF none
  <2> QED BY <1>0, <2>1, <2>2, <2>3 DEF DaysPass
<1>2. RangesBegin BY DEF Init, RangesBegin, Days
<1> QED BY <1>1, <1>2 DEF CashInv, Init

LEMMA LotsOfTheDays ==
  ASSUME CashIsCounted, CashInv
  PROVE  cashLots = KeptOf(Still(reported, Len(reported)), Len(reported))
<1>0. reported \in Seq(Int) /\ DaysPass BY CashIsWhole DEF CashInv
<1>1. CASE reported # <<>> BY <1>1 DEF CashInv, LotsC
<1>2. CASE reported = <<>>
  <2> DEFINE o == Still(reported, 0)
  <2>1. cashLots = <<>> /\ Len(reported) = 0 BY <1>0, <1>2 DEF DaysPass
  <2>2. o \in [1..0 -> Int] BY DEF Still
  <2> HIDE DEF o
  <2>3. KeptOf(o, 0) = <<>> BY <2>2, KeptSteps
  <2> QED BY <2>1, <2>3 DEF o
<1> QED BY <1>1, <1>2

LEMMA GainsOfTheDays ==
  ASSUME CashIsCounted, CashInv, \A d \in start..Len(index) : index[d] # NoPrice
  PROVE  realized = Total(Bank(reported, index), 1..Len(reported))
<1>0. DaysPass BY DEF CashInv
<1>1. CASE reported # <<>> BY <1>1 DEF CashInv, GainsC
<1>2. CASE reported = <<>>
  <2> DEFINE B == Bank(reported, index)
  <2>1. realized = 0 /\ Len(reported) = 0 /\ 1..0 = {} BY <1>0, <1>2 DEF DaysPass
  <2> HIDE DEF B
  <2>2. Total(B, {}) = 0
    <3>1. \A x \in {} : B[x] \in Int OBVIOUS
    <3> QED BY <3>1, TotalTakes, FS_EmptySet
  <2> QED BY <2>1, <2>2 DEF B
<1> QED BY <1>1, <1>2

LEMMA CashDay ==
  ASSUME CashIsCounted, CashInv, NEW amount \in Balances, NEW value \in Indices, NEW event \in BOOLEAN,
         Day(amount, value, event)
  PROVE  CashInv'
<1> DEFINE n == Len(reported)
           m == n + 1
           now == Reported(amount, eventful')
           had == Had(reported, n)
           delta == now - had
           fall == Consume(cashLots, -delta)
           r == Append(reported, now)
           u == Append(index, value)
<1>0. /\ reported \in Seq(Int) /\ index \in Seq(Nat) /\ Len(index) = n
      /\ Scale \in Nat /\ start \in Nat \ {0} /\ balance \in Int /\ realized \in Int
      /\ n \in Nat /\ m \in Nat
  <2>1. reported \in Seq(Int) /\ index \in Seq(Nat) /\ Len(index) = Len(reported)
        /\ Scale \in Nat /\ start \in Nat \ {0} /\ balance \in Int /\ realized \in Int
    BY CashIsWhole DEF CashInv
  <2> QED BY <2>1
<1>1. /\ value \in Nat /\ amount \in Int /\ now \in Balances \cup {0} /\ now \in Int
  BY DEF CashIsCounted, Reported
<1>2. had = IF reported = <<>> THEN 0 ELSE Last(reported)
  BY <1>0 DEF Had, Last
<1>3. /\ eventful' = (eventful \/ (event /\ m >= start)) /\ eventful' \in BOOLEAN
      /\ event \/ amount = balance
      /\ balance' = amount /\ index' = u /\ reported' = r /\ start' = start
      /\ cashLots' = IF delta > 0 THEN Append(cashLots, [arrival |-> m, amount |-> delta])
                     ELSE IF delta < 0 THEN fall.open ELSE cashLots
      /\ realized' = IF delta < 0 /\ ~Refused(u) THEN realized + Banked(fall.consumed, u, m) ELSE realized
  <2>1. Len(index) + 1 = m BY <1>0
  <2>2. eventful' = (eventful \/ (event /\ m >= start)) BY <2>1 DEF Day
  <2>3. eventful' \in BOOLEAN BY <2>2 DEF CashInv, DaysPass
  <2>4. now = Reported(amount, eventful \/ (event /\ m >= start)) BY <2>2
  <2> QED BY <1>2, <2>1, <2>2, <2>3, <2>4 DEF Day
<1>4. /\ r \in Seq(Int) /\ u \in Seq(Nat) /\ Len(r) = m /\ Len(u) = m /\ r # <<>> /\ r[m] = now
      /\ \A d \in 1..n : r[d] = reported[d] /\ u[d] = index[d]
      /\ \A d \in 1..m : d \in 1..n \/ d = m
      /\ u[m] = value
  <2>1. /\ r \in Seq(Int) /\ Len(r) = m /\ r # <<>> /\ r[m] = now /\ \A d \in 1..n : r[d] = reported[d]
    <3> DEFINE a == now
    <3>1. a \in Int BY <1>1
    <3> HIDE DEF now
    <3> QED BY <1>0, <3>1
  <2>2. /\ u \in Seq(Nat) /\ Len(u) = m /\ u[m] = value /\ \A d \in 1..n : u[d] = index[d]
    <3>1. \A q \in Seq(Nat), a \in Nat :
             /\ Append(q, a) \in Seq(Nat) /\ Len(Append(q, a)) = Len(q) + 1 /\ Append(q, a)[Len(q) + 1] = a
             /\ \A d \in 1..Len(q) : Append(q, a)[d] = q[d]
      OBVIOUS
    <3>2. index \in Seq(Nat) /\ value \in Nat /\ Len(index) = n BY <1>0, <1>1
    <3> HIDE DEF n
    <3> QED BY <3>1, <3>2
  <2>3. \A d \in 1..m : d \in 1..n \/ d = m BY <1>0
  <2> HIDE DEF r, u, m, n, now
  <2> QED BY <2>1, <2>2, <2>3
<1>8. \A d \in 1..m : d < start => r[d] = 0
  <2> SUFFICES ASSUME NEW d \in 1..m, d < start PROVE r[d] = 0 OBVIOUS
  <2>1. CASE d \in 1..n
    <3>1. \A e \in DOMAIN reported : e < start => reported[e] = 0 BY DEF CashInv, RangesBegin, Days
    <3>2. d \in DOMAIN reported BY <1>0, <2>1
    <3>3. reported[d] = 0 BY <3>1, <3>2
    <3> QED BY <1>4, <2>1, <3>3
  <2>2. CASE d = m
    <3>1. ~(m >= start) BY <1>0, <2>2
    <3>2. ~eventful BY <1>0, <3>1 DEF CashInv, RangesBegin
    <3>3. ~eventful' BY <1>3, <3>1, <3>2
    <3>4. now = 0 BY <3>3 DEF Reported
    <3> QED BY <1>4, <2>2, <3>4
  <2> QED BY <1>4, <2>1, <2>2
<1>6. had \in Int BY <1>0, RisesAreCounted
<1>7. RangesBegin'
  <2>1. eventful' => start' <= Len(index')
    <3>1. eventful => start <= n BY <1>0 DEF CashInv, RangesBegin
    <3>2. event /\ m >= start => start <= m BY <1>0
    <3>3. eventful' => start <= m
      <4>1. start <= n => start <= m BY <1>0
      <4>2. eventful' = (eventful \/ (event /\ m >= start)) BY <1>3
      <4> HIDE DEF m, n
      <4> QED BY <3>1, <3>2, <4>1, <4>2
    <3> QED BY <1>3, <1>4, <3>3
  <2>2. start' = 1 /\ ~eventful' => balance' = 0
    <3> SUFFICES ASSUME start = 1, ~eventful' PROVE amount = 0 BY <1>3
    <3>1. ~eventful /\ ~event
      <4>1. m >= start BY <1>0
      <4> QED BY <1>3, <4>1
    <3>2. balance = 0 BY <3>1 DEF CashInv, RangesBegin
    <3> QED BY <1>3, <3>1, <3>2
  <2>3. \A d \in 1..m : d < start => r[d] = 0 BY <1>8
  <2>4. Days' = 1..m BY <1>3, <1>4 DEF Days
  <2>5. reported' = r /\ start' = start BY <1>3
  <2> HIDE DEF r, m
  <2> QED BY <2>1, <2>2, <2>3, <2>4, <2>5 DEF RangesBegin
<1>9. ASSUME ~Refused(u)
      PROVE  /\ Total(Bank(r, u), 1..m) = Total(Bank(reported, index), 1..n)
                                         + (IF had - now > 0 THEN Banked(fall.consumed, u, m) ELSE 0)
             /\ Total(Bank(reported, index), 1..n) \in Int
             /\ had - now > 0 => Banked(fall.consumed, u, m) \in Int
  <2>1. Covered(r, u)
    <3> SUFFICES ASSUME NEW d \in 1..m, Rises(r)[d] > 0 PROVE u[d] # 0 BY <1>4 DEF Covered
    <3>1. CASE d < start
      <4>1. r[d] = 0 BY <1>8, <3>1
      <4>2. Had(r, d - 1) = 0
        <5>1. CASE d = 1 BY <5>1 DEF Had
        <5>2. CASE d # 1
          <6>1. d - 1 \in 1..m /\ d - 1 < start /\ d - 1 # 0 BY <1>0, <3>1, <5>2
          <6>2. r[d - 1] = 0 BY <1>8, <6>1
          <6> QED BY <6>1, <6>2 DEF Had
        <5> QED BY <5>1, <5>2
      <4>3. Rises(r)[d] = Most(0, r[d] - Had(r, d - 1)) BY <1>4, RisesAreCounted
      <4>4. Rises(r)[d] = 0 BY <4>1, <4>2, <4>3 DEF Most
      <4> QED BY <3>1, <4>4
    <3>2. CASE ~(d < start)
      <4>1. d \in start..Len(u) BY <1>0, <1>4, <3>2
      <4> QED BY <1>9, <4>1 DEF Refused, NoPrice
    <3> QED BY <3>1, <3>2
  <2>2. cashLots = KeptOf(Still(reported, n), n) BY LotsOfTheDays
  <2> DEFINE cash == KeptOf(Still(reported, n), n)
             f == had - now
  <2>3. /\ Total(Bank(r, u), 1..m) = Total(Bank(reported, index), 1..n)
                                    + (IF f > 0 THEN Banked(Consume(cash, f).consumed, u, m) ELSE 0)
        /\ Total(Bank(reported, index), 1..n) \in Int
        /\ f > 0 => Banked(Consume(cash, f).consumed, u, m) \in Int
    BY <1>0, <1>1, <2>1, GainsOfADay
  <2>4. fall = Consume(cash, f)
    <3>1. -delta = f
      <4>1. had \in Int /\ now \in Int BY <1>1, <1>6
      <4> HIDE DEF had, now
      <4> QED BY <4>1
    <3> HIDE DEF delta, f, cash
    <3> QED BY <2>2, <3>1 DEF cash
  <2> HIDE DEF fall, cash, r, u, m, n, had, now
  <2> QED BY <2>3, <2>4
<1>10. ASSUME delta < 0, ~Refused(u) PROVE Banked(fall.consumed, u, m) \in Int
  <2>1. had - now > 0
    <3>1. had \in Int /\ now \in Int BY <1>1, <1>6
    <3> HIDE DEF had, now
    <3> QED BY <1>10, <3>1
  <2> HIDE DEF fall, r, u, m, n, had, now
  <2> QED BY <1>9, <1>10, <2>1
<1>5. DaysPass'
  <2>1. index' \in Seq(Indices)
    <3>1. index \in Seq(Indices) BY DEF CashInv, DaysPass
    <3> QED BY <1>3, <3>1
  <2>2. reported' \in Seq(Balances \cup {0})
    <3>1. reported \in Seq(Balances \cup {0}) BY DEF CashInv, DaysPass
    <3> QED BY <1>1, <1>3, <3>1
  <2>3. start' \in Starts /\ balance' \in Balances \cup {0} BY <1>3 DEF CashInv, DaysPass
  <2>4. Len(index') = Len(reported') /\ reported' # <<>> /\ reported'[Len(reported')] = Reported(balance', eventful')
    BY <1>3, <1>4
  <2>5. realized' \in Int
    <3>1. ASSUME delta < 0, ~Refused(u) PROVE Banked(fall.consumed, u, m) \in Int BY <1>10, <3>1
    <3> QED BY <1>0, <1>3, <3>1
  <2> HIDE DEF r, u, now, had, delta, fall
  <2> QED BY <1>3, <2>1, <2>2, <2>3, <2>4, <2>5 DEF DaysPass
<1>12. LotsC'
  <2> DEFINE left == Still(r, m)
             cash == KeptOf(Still(reported, n), n)
  <2>1. cashLots = cash BY LotsOfTheDays
  <2>2. /\ delta > 0 => KeptOf(left, m) = Append(cash, [arrival |-> m, amount |-> delta])
        /\ delta = 0 => KeptOf(left, m) = cash
        /\ delta < 0 => KeptOf(left, m) = Consume(cash, -delta).open
    BY <1>0, <1>1, OneDayMore
  <2>3. delta \in Int BY <1>1, <1>6
  <2> HIDE DEF delta, left, cash, r
  <2>4. cashLots' = KeptOf(left, m)
    <3>1. CASE delta > 0 BY <1>3, <2>1, <2>2, <2>3, <3>1
    <3>2. CASE delta = 0 BY <1>3, <2>1, <2>2, <2>3, <3>2
    <3>3. CASE delta < 0 BY <1>3, <2>1, <2>2, <2>3, <3>3
    <3> QED BY <2>3, <3>1, <3>2, <3>3
  <2>5. reported' = r /\ Len(reported') = m BY <1>3, <1>4
  <2> QED BY <2>4, <2>5 DEF LotsC, left
<1>13. GainsC'
  <2> SUFFICES ASSUME \A d \in start..m : u[d] # NoPrice
               PROVE  realized' = Total(Bank(r, u), 1..m)
    <3>1. reported' = r /\ index' = u /\ Len(reported') = m /\ Len(index') = m /\ start' = start BY <1>3, <1>4
    <3> HIDE DEF r, u, m
    <3> QED BY <3>1 DEF GainsC
  <2>1. ~Refused(u) BY <1>4 DEF Refused
  <2>2. realized = Total(Bank(reported, index), 1..n)
    <3>1. \A d \in start..Len(index) : index[d] # NoPrice
      <4>1. ASSUME NEW d \in start..n PROVE index[d] # NoPrice
        <5>1. d \in start..m /\ d \in 1..n BY <1>0
        <5>2. u[d] = index[d] BY <1>4, <5>1
        <5> QED BY <5>1, <5>2
      <4> QED BY <1>0, <4>1
    <3> QED BY <3>1, GainsOfTheDays
  <2>3. realized' = IF had - now > 0 THEN realized + Banked(fall.consumed, u, m) ELSE realized
    <3>1. had \in Int /\ now \in Int BY <1>1, <1>6
    <3>2. delta < 0 <=> had - now > 0 
      <4> HIDE DEF had, now
      <4> QED BY <3>1
    <3> HIDE DEF delta, fall, u, had, now
    <3> QED BY <1>3, <2>1, <3>2
  <2>4. /\ Total(Bank(r, u), 1..m) = Total(Bank(reported, index), 1..n)
                                     + (IF had - now > 0 THEN Banked(fall.consumed, u, m) ELSE 0)
        /\ Total(Bank(reported, index), 1..n) \in Int
    BY <1>9, <2>1
  <2> DEFINE a == Total(Bank(reported, index), 1..n)
             b == Total(Bank(r, u), 1..m)
             c == Banked(fall.consumed, u, m)
  <2> HIDE DEF a, b, c, r, u, had, now, fall
  <2>5. realized = a /\ a \in Int /\ b = a + (IF had - now > 0 THEN c ELSE 0) BY <2>2, <2>4 DEF a, b, c
  <2>6. realized' = IF had - now > 0 THEN realized + c ELSE realized BY <2>3 DEF c
  <2>7. realized' = b
    <3>1. CASE had - now > 0 BY <2>5, <2>6, <3>1
    <3>2. CASE ~(had - now > 0) BY <2>5, <2>6, <3>2
    <3> QED BY <3>1, <3>2
  <2> QED BY <2>7 DEF b
<1> QED BY <1>5, <1>7, <1>12, <1>13 DEF CashInv

LEMMA CashStep == CashIsCounted /\ CashInv /\ [Next]_vars => CashInv'
<1>1. CashIsCounted /\ CashInv /\ UNCHANGED vars => CashInv'
  BY DEF CashInv, DaysPass, RangesBegin, Days, LotsC, GainsC, vars
<1>2. CashIsCounted /\ CashInv /\ Next => CashInv' BY CashDay DEF Next
<1> QED BY <1>1, <1>2

\* Every dollar is in one lot from the day it came until as many dollars as came before it
\* and itself have gone, and what it gained is banked once; the summary is of the dollars
\* still there.
THEOREM EveryDollarOnceHolds == ASSUME CashIsCounted PROVE Spec => []EveryDollarOnce
<1>1. CashInv => EveryDollarOnce BY EveryDollarFollows DEF IInv
<1> QED BY <1>1, CashInit, CashStep, PTL DEF Spec

-----------------------------------------------------------------------------
(* The money of the goals.                                                 *)

CONSTANTS Schemes, Drawdown, Incomes, LastFundingDay, Funders, MaxFundings
VARIABLES income, contributions, order, fundingDay, funding, happened
Funds == INSTANCE GoalFunding WITH
    Rules <- Schemes, LastDay <- LastFundingDay, Runs <- Funders, MaxEvents <- MaxFundings,
    today <- fundingDay, run <- funding, events <- happened

\* What the parameters are.
SchemesAreSound ==
    /\ DOMAIN Schemes = 1..Len(Schemes) /\ Len(Schemes) \in Nat
    /\ \A i \in DOMAIN Schemes :
          /\ Schemes[i].mode \in {"fixed", "percent", "remainder"}
          /\ Schemes[i].value \in Nat /\ Schemes[i].from \in Nat \ {0}
          /\ Schemes[i].every \in Nat \ {0} /\ Schemes[i].until \in Nat
    /\ DOMAIN Drawdown = 1..Len(Drawdown) /\ Len(Drawdown) \in Nat
    /\ \A m, n \in DOMAIN Drawdown : Drawdown[m] = Drawdown[n] => m = n
    /\ Incomes \subseteq Int

LEMMA FundsFinite == \A S : Funds!IsFiniteSet(S) <=> IsFiniteSet(S) BY DEF Funds!IsFiniteSet, IsFiniteSet

\* The amounts of a list.
AmountsOf(list) == [id \in DOMAIN list |-> list[id].amount]

LEMMA FundsSums ==
  ASSUME NEW list, NEW S \in SUBSET DOMAIN list, IsFiniteSet(S)
  PROVE  Funds!Sum(list, S) = Total(AmountsOf(list), S)
<1> DEFINE f == AmountsOf(list)
           chosen == CHOOSE sum : sum = [s \in SUBSET S |-> IF s = {} THEN 0
                                             ELSE [id \in S |-> list[id].amount][Chosen(s)] + sum[s \ {Chosen(s)}]]
           adds(sum) == sum = [s \in SUBSET S |-> IF s = {} THEN 0
                                             ELSE [id \in S |-> list[id].amount][Chosen(s)] + sum[s \ {Chosen(s)}]]
<1>1. Funds!Sum(list, S) = chosen[S]
  BY DEF Funds!Sum, Funds!FoldFunctionOnSet, Funds!MapThenFoldSet, Chosen
<1>4. \A s \in SUBSET S : s # {} => Chosen(s) \in s BY DEF Chosen
<1>5. \A s \in SUBSET S : s # {} => [id \in S |-> list[id].amount][Chosen(s)] = f[Chosen(s)] BY <1>4 DEF AmountsOf
<1> HIDE DEF f
<1>6. \A sum : adds(sum) <=> IsSum(sum, f, S) BY <1>5 DEF IsSum
<1>7. \E sum : IsSum(sum, f, S) BY SumExists
<1>8. \E sum : adds(sum) BY <1>6, <1>7
<1>9. adds(chosen) BY <1>8
<1> HIDE DEF chosen
<1>10. IsSum(chosen, f, S) BY <1>6, <1>9
<1> DEFINE own == CHOOSE sum : IsSum(sum, f, S)
<1>11. IsSum(own, f, S) BY SumExists
<1>12. Total(f, S) = own[S] BY DEF Total
<1>13. Alike(f, f, S) /\ S \in SUBSET S BY DEF Alike
<1> HIDE DEF own
<1>14. chosen[S] = own[S] BY <1>10, <1>11, <1>13, SumsAgree
<1> QED BY <1>1, <1>12, <1>14 DEF f

-----------------------------------------------------------------------------
(* Rounding.                                                               *)

LEMMA RoundsUpAtMostHalf ==
  /\ \A a \in Int : Funds!Quantized(a) \in Int /\ Funds!Quantized(a) % Funds!Quantum = 0
                    /\ 2 * Funds!Quantized(a) <= 2 * a + 4
  /\ \A a, b \in Int : a <= b /\ b % Funds!Quantum = 0 => Funds!Quantized(a) <= b
  /\ \A a \in Int : a % Funds!Quantum = 0 => Funds!Quantized(a) = a
  /\ \A a \in Int : a >= 0 => Funds!Quantized(a) >= 0
<1>0. \A a \in Int : Funds!Quantized(a) = 4 * ((2 * a + 4) \div 8) BY DEF Funds!Quantized, Funds!Quantum
<1>1. \A a \in Int : LET x == (2 * a + 4) \div 8 IN x \in Int /\ 8 * x <= 2 * a + 4 /\ 2 * a + 4 < 8 * x + 8
  OBVIOUS
<1>2. \A x \in Int : (4 * x) % 4 = 0 OBVIOUS
<1>3. \A a \in Int : a % 4 = 0 => \E x \in Int : a = 4 * x OBVIOUS
<1>4. \A a \in Int : /\ Funds!Quantized(a) \in Int /\ Funds!Quantized(a) % Funds!Quantum = 0
                     /\ 2 * Funds!Quantized(a) <= 2 * a + 4 /\ 2 * a < 2 * Funds!Quantized(a) + 4
  <2> SUFFICES ASSUME NEW a \in Int
               PROVE  /\ Funds!Quantized(a) \in Int /\ Funds!Quantized(a) % 4 = 0
                      /\ 2 * Funds!Quantized(a) <= 2 * a + 4 /\ 2 * a < 2 * Funds!Quantized(a) + 4
    BY DEF Funds!Quantum
  <2> DEFINE x == (2 * a + 4) \div 8
  <2>1. x \in Int /\ 8 * x <= 2 * a + 4 /\ 2 * a + 4 < 8 * x + 8 BY <1>1
  <2>2. Funds!Quantized(a) = 4 * x BY <1>0
  <2> HIDE DEF x
  <2> QED BY <1>2, <2>1, <2>2
<1>5. ASSUME NEW a \in Int, NEW b \in Int, a <= b, b % Funds!Quantum = 0 PROVE Funds!Quantized(a) <= b
  <2> DEFINE x == (2 * a + 4) \div 8
  <2>1. x \in Int /\ 8 * x <= 2 * a + 4 BY <1>1
  <2>2. Funds!Quantized(a) = 4 * x BY <1>0
  <2>3. PICK y \in Int : b = 4 * y BY <1>3, <1>5 DEF Funds!Quantum
  <2> HIDE DEF x
  <2> QED BY <1>5, <2>1, <2>2, <2>3
<1>6. ASSUME NEW a \in Int, a % Funds!Quantum = 0 PROVE Funds!Quantized(a) = a
  <2> DEFINE x == (2 * a + 4) \div 8
  <2>1. x \in Int /\ 8 * x <= 2 * a + 4 /\ 2 * a + 4 < 8 * x + 8 BY <1>1
  <2>2. Funds!Quantized(a) = 4 * x BY <1>0
  <2>3. PICK y \in Int : a = 4 * y BY <1>3, <1>6 DEF Funds!Quantum
  <2> HIDE DEF x
  <2> QED BY <2>1, <2>2, <2>3
<1>7. ASSUME NEW a \in Int, a >= 0 PROVE Funds!Quantized(a) >= 0
  <2> DEFINE x == (2 * a + 4) \div 8
  <2>1. x \in Int /\ 2 * a + 4 < 8 * x + 8 BY <1>1
  <2>2. Funds!Quantized(a) = 4 * x BY <1>0
  <2> HIDE DEF x
  <2> QED BY <1>7, <2>1, <2>2
<1> QED BY <1>4, <1>5, <1>6, <1>7

-----------------------------------------------------------------------------
(* Additions.                                                              *)

NextLeft(due, pool, i, a) ==
    IF i \notin due \/ a <= 0 THEN a ELSE a - Funds!Min2(Funds!Wanted(i, pool, a), a)

PoolAfter(due, pool) ==
    CHOOSE left : left = [n \in 0 .. Funds!Cardinality(Funds!Positions) |->
                             IF n = 0 THEN pool
                             ELSE IF order[n] \notin due \/ left[n - 1] <= 0 THEN left[n - 1]
                             ELSE left[n - 1] - Funds!Min2(Funds!Wanted(order[n], pool, left[n - 1]), left[n - 1])]

PlaceOf(i) == CHOOSE k \in Funds!Positions : order[k] = i

LEMMA FundedIsLeft ==
  ASSUME NEW due, NEW pool
  PROVE  Funds!Funded(due, pool) = [i \in due |-> PoolAfter(due, pool)[PlaceOf(i) - 1] - PoolAfter(due, pool)[PlaceOf(i)]]
BY DEF Funds!Funded, PoolAfter, PlaceOf

HowMany == Len(Schemes)

LEMMA HowManySchemes ==
  ASSUME SchemesAreSound
  PROVE  Funds!Positions = 1..HowMany /\ Funds!Cardinality(Funds!Positions) = HowMany /\ HowMany \in Nat
<1>1. Funds!Positions = 1..HowMany /\ HowMany \in Nat BY DEF SchemesAreSound, Funds!Positions, HowMany
<1>2. Cardinality(1..HowMany) = HowMany BY <1>1, FS_Interval
<1>3. \A S : Funds!Cardinality(S) = Cardinality(S) BY DEF Funds!Cardinality, Cardinality
<1> QED BY <1>1, <1>2, <1>3

\* Every rule has its place.
LEMMA PlacesOfSchemes ==
  ASSUME SchemesAreSound, order \in Funds!Sorted
  PROVE  /\ \A n \in 1..HowMany : order[n] \in 1..HowMany
         /\ \A i \in 1..HowMany : PlaceOf(i) \in 1..HowMany /\ order[PlaceOf(i)] = i
<1>1. /\ order \in [1..HowMany -> 1..HowMany]
      /\ \A i, j \in 1..HowMany : order[i] = order[j] => i = j
  BY HowManySchemes DEF Funds!Sorted
<1>2. IsFiniteSet(1..HowMany) BY HowManySchemes, FS_Interval
<1>3. order \in Injection(1..HowMany, 1..HowMany) BY <1>1 DEF Injection, IsInjective
<1>4. order \in Surjection(1..HowMany, 1..HowMany) BY <1>2, <1>3, FS_Injection
<1>5. \A i \in 1..HowMany : \E k \in 1..HowMany : order[k] = i BY <1>4 DEF Surjection
<1> QED BY <1>1, <1>5, HowManySchemes DEF PlaceOf

\* What a rule takes is not negative and no more than what is left.
LEMMA NextLeftFalls ==
  ASSUME SchemesAreSound, NEW due, NEW pool \in Nat, NEW i \in 1..HowMany, NEW a \in Nat
  PROVE  NextLeft(due, pool, i, a) \in Nat /\ NextLeft(due, pool, i, a) <= a
<1>1. CASE i \notin due \/ a <= 0 BY <1>1 DEF NextLeft
<1>2. CASE ~(i \notin due \/ a <= 0)
  <2>1. /\ Schemes[i].mode \in {"fixed", "percent", "remainder"} /\ Schemes[i].value \in Nat
    BY DEF SchemesAreSound, HowMany
  <2> DEFINE w == Funds!Wanted(i, pool, a)
  <2>2. w \in Nat
    <3>1. pool * Schemes[i].value \in Nat BY <2>1, Times
    <3>2. \A x \in Nat : x \div 100 \in Nat OBVIOUS
    <3>3. CASE Schemes[i].mode = "fixed" BY <2>1, <3>3 DEF Funds!Wanted
    <3>4. CASE Schemes[i].mode = "percent"
      <4>1. w = (pool * Schemes[i].value) \div 100 BY <3>4 DEF Funds!Wanted
      <4> QED BY <3>1, <3>2, <4>1
    <3>5. CASE Schemes[i].mode = "remainder" BY <3>5 DEF Funds!Wanted
    <3> QED BY <2>1, <3>3, <3>4, <3>5
  <2>3. NextLeft(due, pool, i, a) = a - Funds!Min2(w, a) BY <1>2 DEF NextLeft
  <2> HIDE DEF w
  <2>4. Funds!Min2(w, a) \in Nat /\ Funds!Min2(w, a) <= a BY <2>2 DEF Funds!Min2
  <2> QED BY <2>3, <2>4
<1> QED BY <1>1, <1>2

LEMMA PoolRuns ==
  ASSUME SchemesAreSound, order \in Funds!Sorted, NEW due, NEW pool \in Int, NEW A, pool \in A, A \subseteq Int,
         \A i \in 1..HowMany, a \in A : NextLeft(due, pool, i, a) \in A
  PROVE  /\ PoolAfter(due, pool)[0] = pool
         /\ \A n \in 1..HowMany : /\ PoolAfter(due, pool)[n] = NextLeft(due, pool, order[n], PoolAfter(due, pool)[n - 1])
                                  /\ PoolAfter(due, pool)[n] \in A /\ PoolAfter(due, pool)[n - 1] \in A
<1> DEFINE G == [na \in (1..HowMany) \X A |-> NextLeft(due, pool, order[na[1]], na[2])]
           Is(left) == left = [n \in 0 .. HowMany |-> IF n = 0 THEN pool
                                                      ELSE NextLeft(due, pool, order[n], left[n - 1])]
<1>0. HowMany \in Nat BY HowManySchemes
<1>1. \A n \in 1..HowMany, a \in A : G[<<n, a>>] = NextLeft(due, pool, order[n], a) OBVIOUS
<1>2. \A n \in 1..HowMany, a \in A : G[<<n, a>>] \in A BY <1>1, PlacesOfSchemes
<1> HIDE DEF G
<1>3. PICK f : IsRun(f, G, pool, HowMany) /\ \A n \in 0..HowMany : f[n] \in A BY <1>0, <1>2, RecurrenceExists
<1>4. Is(f)
  <2>1. \A n \in 0..HowMany : n # 0 => n \in 1..HowMany /\ n - 1 \in 0..HowMany BY <1>0
  <2>2. \A n \in 0..HowMany : n # 0 => G[<<n, f[n - 1]>>] = NextLeft(due, pool, order[n], f[n - 1]) BY <1>1, <1>3, <2>1
  <2>3. [n \in 0 .. HowMany |-> IF n = 0 THEN pool ELSE G[<<n, f[n - 1]>>]]
          = [n \in 0 .. HowMany |-> IF n = 0 THEN pool ELSE NextLeft(due, pool, order[n], f[n - 1])]
    BY <2>2
  <2> QED BY <1>3, <2>3 DEF IsRun
<1> DEFINE left == CHOOSE g : Is(g)
<1>5. PoolAfter(due, pool) = left BY HowManySchemes DEF PoolAfter, NextLeft
<1>6. Is(left) BY <1>4
<1> HIDE DEF left
<1>7. /\ left[0] = pool
      /\ \A n \in 1..HowMany : left[n] = NextLeft(due, pool, order[n], left[n - 1])
  BY <1>0, <1>6
<1> HIDE DEF Is
<1>8. \A n \in 0..HowMany : left[n] \in A
  <2> DEFINE P == {n \in Nat : n <= HowMany => left[n] \in A}
  <2>1. 0 \in P BY <1>7
  <2>2. ASSUME NEW n \in Nat, n \in P PROVE n + 1 \in P
    <3> SUFFICES ASSUME n + 1 <= HowMany PROVE left[n + 1] \in A OBVIOUS
    <3>1. n <= HowMany /\ n + 1 \in 1..HowMany /\ (n + 1) - 1 = n BY <1>0
    <3>2. left[n] \in A BY <2>2, <3>1
    <3>3. order[n + 1] \in 1..HowMany BY <3>1, PlacesOfSchemes
    <3>4. left[n + 1] = NextLeft(due, pool, order[n + 1], left[n]) BY <1>7, <3>1
    <3> QED BY <3>2, <3>3, <3>4
  <2> HIDE DEF P
  <2>3. Nat \subseteq P BY <2>1, <2>2, Counting
  <2> QED BY <1>0, <2>3 DEF P
<1>9. \A n \in 1..HowMany : left[n] \in A /\ left[n - 1] \in A BY <1>0, <1>8
<1> QED BY <1>5, <1>7, <1>9

\* From a pool that is not empty, each rule takes from what those before it have left.
LEMMA PoolFalls ==
  ASSUME SchemesAreSound, order \in Funds!Sorted, NEW due, NEW pool \in Nat
  PROVE  /\ PoolAfter(due, pool)[0] = pool /\ Falls(PoolAfter(due, pool), HowMany)
         /\ PoolAfter(due, pool)[HowMany] \in Nat
<1>1. \A i \in 1..HowMany, a \in Nat : NextLeft(due, pool, i, a) \in Nat /\ NextLeft(due, pool, i, a) <= a
  BY NextLeftFalls
<1> DEFINE left == PoolAfter(due, pool)
<1>2. /\ left[0] = pool
      /\ \A n \in 1..HowMany : left[n] = NextLeft(due, pool, order[n], left[n - 1]) /\ left[n] \in Nat /\ left[n - 1] \in Nat
  <2> DEFINE A == Nat
  <2>1. pool \in Int /\ pool \in A /\ A \subseteq Int /\ \A i \in 1..HowMany, a \in A : NextLeft(due, pool, i, a) \in A
    BY <1>1
  <2> HIDE DEF A
  <2>2. /\ PoolAfter(due, pool)[0] = pool
        /\ \A n \in 1..HowMany : /\ PoolAfter(due, pool)[n] = NextLeft(due, pool, order[n], PoolAfter(due, pool)[n - 1])
                                 /\ PoolAfter(due, pool)[n] \in A /\ PoolAfter(due, pool)[n - 1] \in A
    BY <2>1, PoolRuns
  <2> QED BY <2>2 DEF A
<1> HIDE DEF left
<1>3. Falls(left, HowMany)
  <2> SUFFICES ASSUME NEW n \in 1..HowMany
               PROVE left[n] \in Int /\ left[n - 1] \in Int /\ left[n] <= left[n - 1] BY DEF Falls
  <2>1. order[n] \in 1..HowMany BY PlacesOfSchemes
  <2>2. left[n - 1] \in Nat /\ left[n] = NextLeft(due, pool, order[n], left[n - 1]) BY <1>2
  <2>3. left[n] \in Nat /\ left[n] <= left[n - 1] BY <1>1, <2>1, <2>2
  <2> QED BY <2>2, <2>3
<1>4. left[HowMany] \in Nat BY <1>2, HowManySchemes
<1> QED BY <1>2, <1>3, <1>4 DEF left

\* An empty pool gives nothing.
LEMMA EmptyPool ==
  ASSUME SchemesAreSound, order \in Funds!Sorted, NEW due \in SUBSET (1..HowMany), NEW pool \in Int, pool <= 0
  PROVE  \A i \in due : Funds!Funded(due, pool)[i] = 0
<1>1. \A i \in 1..HowMany, a \in {pool} : NextLeft(due, pool, i, a) \in {pool} BY DEF NextLeft
<1> DEFINE left == PoolAfter(due, pool)
<1>2. \A n \in 1..HowMany : left[n] \in {pool} /\ left[n - 1] \in {pool}
  <2> DEFINE A == {pool}
  <2>1. pool \in A /\ A \subseteq Int /\ \A i \in 1..HowMany, a \in A : NextLeft(due, pool, i, a) \in A BY <1>1
  <2> HIDE DEF A
  <2>2. \A n \in 1..HowMany : left[n] \in A /\ left[n - 1] \in A BY <2>1, PoolRuns
  <2> QED BY <2>2 DEF A
<1>3. \A i \in due : Funds!Funded(due, pool)[i] = left[PlaceOf(i) - 1] - left[PlaceOf(i)] BY FundedIsLeft
<1> HIDE DEF left
<1>4. \A i \in due : PlaceOf(i) \in 1..HowMany BY PlacesOfSchemes
<1> QED BY <1>2, <1>3, <1>4

LEMMA TotalOfWholes ==
  ASSUME NEW S, IsFiniteSet(S), NEW f, \A x \in S : f[x] \in Int /\ f[x] % 4 = 0
  PROVE  Total(f, S) \in Int /\ Total(f, S) % 4 = 0
<1> DEFINE Q == {s \in SUBSET S : Total(f, s) % 4 = 0}
<1>0. \A x \in S : f[x] \in Int OBVIOUS
<1>1. {} \in Q
  <2>1. Total(f, {}) = 0 BY <1>0, TotalTakes
  <2> QED BY <2>1
<1>2. ASSUME NEW s \in SUBSET S, s # {}, \A x \in s : s \ {x} \in Q PROVE s \in Q
  <2> PICK x \in s : TRUE BY <1>2
  <2>1. IsFiniteSet(s) /\ (\A y \in s : f[y] \in Int) BY <1>0, FS_Subset
  <2>2. Total(f, s) = f[x] + Total(f, s \ {x}) /\ Total(f, s \ {x}) \in Int BY <2>1, TotalTakes
  <2>3. Total(f, s \ {x}) % 4 = 0 /\ f[x] % 4 = 0 /\ f[x] \in Int BY <1>2
  <2>4. \A a, b \in Int : a % 4 = 0 /\ b % 4 = 0 => (a + b) % 4 = 0 OBVIOUS
  <2> QED BY <2>2, <2>3, <2>4
<1> HIDE DEF Q
<1>3. \A s \in SUBSET S : s \in Q BY <1>1, <1>2, OneByOne
<1>4. S \in Q BY <1>3
<1> QED BY <1>0, <1>4, TotalTakes DEF Q

LEMMA WholeAmounts ==
  ASSUME NEW list, NEW day, Funds!Whole(list, day), NEW S \in SUBSET DOMAIN list
  PROVE  /\ IsFiniteSet(DOMAIN list) /\ IsFiniteSet(S) /\ Funds!Sum(list, S) = Total(AmountsOf(list), S)
         /\ \A id \in S : AmountsOf(list)[id] = list[id].amount /\ list[id].amount \in Int /\ list[id].amount % 4 = 0
         /\ Total(AmountsOf(list), S) \in Int /\ Total(AmountsOf(list), S) % 4 = 0
<1>1. IsFiniteSet(DOMAIN list) BY FundsFinite DEF Funds!Whole
<1>2. IsFiniteSet(S) BY <1>1, FS_Subset
<1>3. \A id \in S : AmountsOf(list)[id] = list[id].amount /\ list[id].amount \in Int /\ list[id].amount % 4 = 0
  BY DEF Funds!Whole, Funds!Quantum, AmountsOf
<1>4. Total(AmountsOf(list), S) \in Int /\ Total(AmountsOf(list), S) % 4 = 0 BY <1>2, <1>3, TotalOfWholes
<1> QED BY <1>1, <1>2, <1>3, <1>4, FundsSums

FundingIsSound == SchemesAreSound /\ Funds!MoneyIsWhole

LEMMA BalancesAreWhole ==
  ASSUME FundingIsSound, NEW day \in Nat
  PROVE  /\ Funds!Unallocated(day) \in Int
         /\ \A g : Funds!Balance(contributions, g, day) \in Int /\ Funds!Balance(contributions, g, day) % 4 = 0
<1>1. Funds!Whole(contributions, fundingDay) /\ income \in Int BY DEF FundingIsSound, Funds!MoneyIsWhole
<1>2. Funds!Dated(contributions, day) \in SUBSET DOMAIN contributions BY DEF Funds!Dated
<1>3. Funds!Unallocated(day) \in Int
  <2>1. Funds!Sum(contributions, Funds!Dated(contributions, day)) \in Int BY <1>1, <1>2, WholeAmounts
  <2> QED BY <1>1, <2>1 DEF Funds!Unallocated, Funds!Left
<1>4. ASSUME NEW g PROVE Funds!Balance(contributions, g, day) \in Int /\ Funds!Balance(contributions, g, day) % 4 = 0
  <2> DEFINE S == {id \in Funds!Dated(contributions, day) : contributions[id].goal = g}
  <2>1. Funds!Balance(contributions, g, day) = Funds!Sum(contributions, S) BY DEF Funds!Balance
  <2>2. S \in SUBSET DOMAIN contributions BY <1>2
  <2> HIDE DEF S
  <2> QED BY <1>1, <2>1, <2>2, WholeAmounts
<1> QED BY <1>3, <1>4

LEMMA OccurrencesAreCounted ==
  ASSUME SchemesAreSound, NEW i \in 1..HowMany, NEW day \in Nat
  PROVE  Funds!Occurrence(i, day) \in Int /\ Funds!Occurrence(i, day) <= day
<1> DEFINE last == Funds!Min2(day, Schemes[i].until)
           from == Schemes[i].from
           every == Schemes[i].every
           q == (last - from) \div every
<1>1. from \in Nat \ {0} /\ every \in Nat \ {0} /\ Schemes[i].until \in Nat BY DEF SchemesAreSound, HowMany
<1>2. last \in Nat /\ last <= day BY <1>1 DEF Funds!Min2
<1>3. Funds!Occurrence(i, day) = IF last < from THEN 0 ELSE from + every * q BY DEF Funds!Occurrence
<1>4. CASE last < from BY <1>3, <1>4
<1>5. CASE ~(last < from)
  <2>1. \A x \in Nat, e \in Nat \ {0} : x \div e \in Nat /\ e * (x \div e) \in Nat /\ e * (x \div e) <= x OBVIOUS
  <2>2. last - from \in Nat BY <1>1, <1>2, <1>5
  <2>3. every * q \in Nat /\ every * q <= last - from BY <1>1, <2>1, <2>2
  <2> HIDE DEF last, from, every, q
  <2> QED BY <1>1, <1>2, <1>3, <1>5, <2>3
<1> QED BY <1>4, <1>5

\* What a run adds: no more than the pool, but for the rounding of each.
LEMMA AdditionsFit ==
  ASSUME FundingIsSound, NEW day \in Nat
  PROVE  /\ Funds!Whole(Funds!Additions(day), day)
         /\ Funds!Unallocated(day) <= 0 => DOMAIN Funds!Additions(day) = {}
         /\ Funds!Unallocated(day) >= 0 =>
               2 * Total(AmountsOf(Funds!Additions(day)), DOMAIN Funds!Additions(day))
                 <= 2 * Funds!Unallocated(day) + 4 * Cardinality(DOMAIN Funds!Additions(day))
<1> DEFINE due == Funds!Due(day)
           pool == Funds!Unallocated(day)
           funded == Funds!Funded(due, pool)
           paid == {i \in due : funded[i] > 0}
           rule(id) == CHOOSE i \in paid : id = Funds!AutoId(i, day)
           new == Funds!Additions(day)
           left == PoolAfter(due, pool)
           S == {Funds!AutoId(i, day) : i \in paid}
           place == [id \in S |-> PlaceOf(id[2])]
           f == AmountsOf(new)
<1>1. SchemesAreSound /\ order \in Funds!Sorted /\ HowMany \in Nat /\ pool \in Int
  BY BalancesAreWhole, HowManySchemes DEF FundingIsSound, Funds!MoneyIsWhole
<1>2. due \in SUBSET (1..HowMany) BY HowManySchemes DEF Funds!Due, FundingIsSound
<1>3. new = [id \in S |-> Funds!Contribution(Schemes[rule(id)].goal, id[3], Funds!Quantized(funded[rule(id)]))]
  BY DEF Funds!Additions
<1>4. funded = [i \in due |-> left[PlaceOf(i) - 1] - left[PlaceOf(i)]] BY FundedIsLeft
<1>5. \A i \in paid : /\ i \in due /\ i \in 1..HowMany /\ funded[i] > 0
                      /\ funded[i] = left[PlaceOf(i) - 1] - left[PlaceOf(i)]
                      /\ PlaceOf(i) \in 1..HowMany /\ order[PlaceOf(i)] = i
  BY <1>1, <1>2, <1>4, PlacesOfSchemes
<1>6. /\ \A i : Funds!AutoId(i, day)[2] = i /\ Funds!AutoId(i, day)[3] = Funds!Occurrence(i, day)
      /\ \A id \in S : rule(id) \in paid /\ id = Funds!AutoId(rule(id), day) /\ rule(id) = id[2]
  <2>1. \A i : Funds!AutoId(i, day)[2] = i /\ Funds!AutoId(i, day)[3] = Funds!Occurrence(i, day) BY DEF Funds!AutoId
  <2>2. ASSUME NEW id \in S PROVE rule(id) \in paid /\ id = Funds!AutoId(rule(id), day)
    <3>1. \E i \in paid : id = Funds!AutoId(i, day) OBVIOUS
    <3> QED BY <3>1
  <2> QED BY <2>1, <2>2
<1>7. CASE pool <= 0
  <2>1. \A i \in due : funded[i] = 0 BY <1>1, <1>2, <1>7, EmptyPool
  <2>2. paid = {} BY <2>1
  <2>3. S = {} BY <2>2
  <2>4. DOMAIN new = {} BY <1>3, <2>3
  <2>5. new = [id \in DOMAIN new |-> new[id]] BY <1>3
  <2> HIDE DEF new
  <2>6. IsFiniteSet(DOMAIN new) /\ Cardinality(DOMAIN new) = 0 BY <2>4, FS_EmptySet
  <2>7. Funds!Whole(new, day) BY <2>4, <2>5, <2>6, FundsFinite DEF Funds!Whole
  <2>8. Total(AmountsOf(new), {}) = 0
    <3>1. IsFiniteSet({}) /\ \A x \in {} : AmountsOf(new)[x] \in Int BY FS_EmptySet
    <3> QED BY <3>1, TotalTakes
  <2> HIDE DEF pool
  <2>9. pool >= 0 => 2 * Total(AmountsOf(new), DOMAIN new) <= 2 * pool + 4 * Cardinality(DOMAIN new)
    BY <1>1, <2>4, <2>6, <2>8
  <2> QED BY <2>4, <2>7, <2>9 DEF new, pool
<1>8. CASE pool > 0
  <2>0. pool \in Nat BY <1>1, <1>8
  <2>1. left[0] = pool /\ Falls(left, HowMany) /\ left[HowMany] \in Nat BY <1>1, <2>0, PoolFalls
  <2>2. \A i \in paid : funded[i] \in Int
    <3>1. \A i \in paid : left[PlaceOf(i)] \in Int /\ left[PlaceOf(i) - 1] \in Int BY <1>5, <2>1 DEF Falls
    <3> QED BY <1>5, <3>1
  <2>3. \A id \in S : /\ place[id] = PlaceOf(rule(id)) /\ place[id] \in 1..HowMany
                      /\ id[2] = order[place[id]]
    BY <1>5, <1>6
  <2>4. Places(place, S, HowMany)
    <3>1. \A x, y \in S : place[x] = place[y] => x = y
      <4> SUFFICES ASSUME NEW x \in S, NEW y \in S, place[x] = place[y] PROVE x = y OBVIOUS
      <4>1. x[2] = y[2]
        <5> HIDE DEF S, place
        <5> QED BY <2>3
      <4>2. x = Funds!AutoId(x[2], day) /\ y = Funds!AutoId(y[2], day) BY <1>6
      <4> QED BY <4>1, <4>2
    <3> QED BY <2>3, <3>1 DEF Places
  <2>5. IsFiniteSet(S)
    <3>1. place \in Injection(S, 1..HowMany) BY <2>3, <2>4 DEF Injection, IsInjective, Places
    <3>2. IsFiniteSet(1..HowMany) BY <1>1, FS_Interval
    <3> HIDE DEF S, place
    <3> QED BY <3>1, <3>2, FS_Injection
  <2>6. DOMAIN new = S /\ new = [id \in DOMAIN new |-> new[id]] BY <1>3
  <2>7. ASSUME NEW id \in S
        PROVE  /\ new[id].amount = Funds!Quantized(funded[rule(id)]) /\ new[id].date = Funds!Occurrence(rule(id), day)
               /\ rule(id) \in paid
    <3>1. new[id] = Funds!Contribution(Schemes[rule(id)].goal, id[3], Funds!Quantized(funded[rule(id)])) BY <1>3
    <3>2. id[3] = Funds!Occurrence(rule(id), day) /\ rule(id) \in paid
      <4>1. rule(id) \in paid /\ id = Funds!AutoId(rule(id), day) BY <1>6
      <4>2. Funds!AutoId(rule(id), day)[3] = Funds!Occurrence(rule(id), day) BY <1>6
      <4> QED BY <4>1, <4>2
    <3> HIDE DEF new, rule, funded, S
    <3> QED BY <3>1, <3>2 DEF Funds!Contribution
  <2>8. \A id \in S : /\ new[id].amount \in Int /\ new[id].amount % 4 = 0
                      /\ new[id].date \in Int /\ new[id].date <= day
                      /\ 2 * new[id].amount <= 2 * (left[place[id] - 1] - left[place[id]]) + 4
    <3> SUFFICES ASSUME NEW id \in S
                 PROVE  /\ new[id].amount \in Int /\ new[id].amount % 4 = 0
                        /\ new[id].date \in Int /\ new[id].date <= day
                        /\ 2 * new[id].amount <= 2 * (left[place[id] - 1] - left[place[id]]) + 4
      OBVIOUS
    <3> DEFINE i == rule(id)
               a == funded[i]
    <3>1. a \in Int /\ i \in 1..HowMany /\ a = left[place[id] - 1] - left[place[id]] BY <1>5, <2>2, <2>3, <2>7
    <3>2. new[id].amount = Funds!Quantized(a) /\ new[id].date = Funds!Occurrence(i, day) BY <2>7
    <3> HIDE DEF i, a, new, left, place
    <3>3. Funds!Occurrence(i, day) \in Int /\ Funds!Occurrence(i, day) <= day BY <1>1, <3>1, OccurrencesAreCounted
    <3>4. Funds!Quantized(a) \in Int /\ Funds!Quantized(a) % 4 = 0 /\ 2 * Funds!Quantized(a) <= 2 * a + 4
      BY <3>1, RoundsUpAtMostHalf DEF Funds!Quantum
    <3> QED BY <3>1, <3>2, <3>3, <3>4
  <2> HIDE DEF new, S, place, left, pool, f
  <2>9. Funds!Whole(new, day) BY <2>5, <2>6, <2>8, FundsFinite DEF Funds!Whole, Funds!Quantum
  <2>10. \A id \in S : f[id] \in Int /\ 2 * f[id] <= 2 * (left[place[id] - 1] - left[place[id]]) + 4
    BY <2>6, <2>8 DEF f, AmountsOf
  <2>11. 2 * Total(f, S) <= 2 * (left[0] - left[HowMany]) + 4 * Cardinality(S)
    <3>1. left[0] \in Int /\ 4 \in Nat BY <1>1, <2>1
    <3> QED BY <1>1, <2>1, <2>4, <2>5, <2>10, <3>1, Spending
  <2>12. Total(f, S) \in Int /\ Cardinality(S) \in Nat BY <2>5, <2>10, TotalTakes, FS_CardinalityType
  <2>13. 2 * Total(f, S) <= 2 * pool + 4 * Cardinality(S) BY <1>1, <2>1, <2>11, <2>12
  <2> QED BY <1>1, <1>8, <2>6, <2>9, <2>13 DEF new, f, pool
<1> QED BY <1>1, <1>7, <1>8

-----------------------------------------------------------------------------
(* Draws.                                                                  *)

NextShort(balances, n, a) ==
    IF a <= 0 \/ balances[Drawdown[n]] <= 0 THEN a ELSE a - Funds!Min2(balances[Drawdown[n]], a)

ShortAfter(balances, shortfall) ==
    CHOOSE left : left = [n \in 0 .. Funds!Cardinality(DOMAIN Drawdown) |->
                             IF n = 0 THEN shortfall
                             ELSE IF left[n - 1] <= 0 \/ balances[Drawdown[n]] <= 0 THEN left[n - 1]
                             ELSE left[n - 1] - Funds!Min2(balances[Drawdown[n]], left[n - 1])]

LEMMA DrawnIsLeft ==
  ASSUME NEW balances, NEW shortfall
  PROVE  Funds!Drawn(balances, shortfall)
            = [n \in DOMAIN Drawdown |-> ShortAfter(balances, shortfall)[n - 1] - ShortAfter(balances, shortfall)[n]]
BY DEF Funds!Drawn, ShortAfter

LEMMA HowManyDraws ==
  ASSUME SchemesAreSound
  PROVE  /\ DOMAIN Drawdown = 1..Len(Drawdown) /\ Len(Drawdown) \in Nat
         /\ Funds!Cardinality(DOMAIN Drawdown) = Len(Drawdown)
         /\ \A n \in 1..Len(Drawdown) : Drawdown[n] \in Funds!Goals
<1>1. DOMAIN Drawdown = 1..Len(Drawdown) /\ Len(Drawdown) \in Nat BY DEF SchemesAreSound
<1>2. Cardinality(1..Len(Drawdown)) = Len(Drawdown)
  <2> DEFINE N == Len(Drawdown)
  <2>1. N \in Nat BY <1>1
  <2> HIDE DEF N
  <2>2. Cardinality(1..N) = N BY <2>1, FS_Interval
  <2> QED BY <2>2 DEF N
<1>3. \A S : Funds!Cardinality(S) = Cardinality(S) BY DEF Funds!Cardinality, Cardinality
<1> QED BY <1>1, <1>2, <1>3 DEF Funds!Goals

LEMMA ShortRuns ==
  ASSUME SchemesAreSound, NEW balances, \A n \in 1..Len(Drawdown) : balances[Drawdown[n]] \in Int, NEW short \in Nat
  PROVE  /\ ShortAfter(balances, short)[0] = short
         /\ \A n \in 1..Len(Drawdown) :
               /\ ShortAfter(balances, short)[n] = NextShort(balances, n, ShortAfter(balances, short)[n - 1])
               /\ ShortAfter(balances, short)[n] \in Nat /\ ShortAfter(balances, short)[n - 1] \in Nat
<1> DEFINE N == Len(Drawdown)
           G == [na \in (1..N) \X Nat |-> NextShort(balances, na[1], na[2])]
           Is(left) == left = [n \in 0 .. N |-> IF n = 0 THEN short ELSE NextShort(balances, n, left[n - 1])]
<1>0. N \in Nat BY HowManyDraws
<1>1. \A n \in 1..N, a \in Nat : G[<<n, a>>] = NextShort(balances, n, a) OBVIOUS
<1>2. ASSUME NEW n \in 1..N, NEW a \in Nat PROVE NextShort(balances, n, a) \in Nat
  <2> DEFINE b == balances[Drawdown[n]]
  <2>1. b \in Int OBVIOUS
  <2> HIDE DEF b
  <2> QED BY <2>1 DEF NextShort, Funds!Min2, b
<1>2a. \A n \in 1..N, a \in Nat : G[<<n, a>>] \in Nat BY <1>1, <1>2
<1> HIDE DEF G
<1>3. PICK f : IsRun(f, G, short, N) /\ \A n \in 0..N : f[n] \in Nat
  <2> DEFINE A == Nat
  <2>1. short \in A /\ \A n \in 1..N, a \in A : G[<<n, a>>] \in A BY <1>2a
  <2> HIDE DEF A, N
  <2>2. \E f : IsRun(f, G, short, N) /\ \A n \in 0..N : f[n] \in A BY <1>0, <2>1, RecurrenceExists
  <2> QED BY <2>2 DEF A
<1>4. Is(f)
  <2>1. \A n \in 0..N : n # 0 => n \in 1..N /\ n - 1 \in 0..N BY <1>0
  <2>2. \A n \in 0..N : n # 0 => G[<<n, f[n - 1]>>] = NextShort(balances, n, f[n - 1]) BY <1>1, <1>3, <2>1
  <2>3. [n \in 0 .. N |-> IF n = 0 THEN short ELSE G[<<n, f[n - 1]>>]]
          = [n \in 0 .. N |-> IF n = 0 THEN short ELSE NextShort(balances, n, f[n - 1])]
    BY <2>2
  <2> QED BY <1>3, <2>3 DEF IsRun
<1> DEFINE left == CHOOSE g : Is(g)
<1>5. ShortAfter(balances, short) = left BY HowManyDraws DEF ShortAfter, NextShort
<1>6. Is(left) BY <1>4
<1> HIDE DEF left
<1>7. /\ left[0] = short
      /\ \A n \in 1..N : left[n] = NextShort(balances, n, left[n - 1])
  BY <1>0, <1>6
<1> HIDE DEF Is, N
<1>8. \A n \in 0..N : left[n] \in Nat
  <2> DEFINE P == {n \in Nat : n <= N => left[n] \in Nat}
  <2>1. 0 \in P BY <1>7
  <2>2. ASSUME NEW n \in Nat, n \in P PROVE n + 1 \in P
    <3> SUFFICES ASSUME n + 1 <= N PROVE left[n + 1] \in Nat OBVIOUS
    <3>1. n <= N /\ n + 1 \in 1..N /\ (n + 1) - 1 = n BY <1>0
    <3>2. left[n] \in Nat BY <2>2, <3>1
    <3>3. left[n + 1] = NextShort(balances, n + 1, left[n]) BY <1>7, <3>1
    <3>4. NextShort(balances, n + 1, left[n]) \in Nat BY <1>2, <3>1, <3>2
    <3> QED BY <3>3, <3>4
  <2> HIDE DEF P
  <2>3. Nat \subseteq P BY <2>1, <2>2, Counting
  <2> QED BY <1>0, <2>3 DEF P
<1>9. \A n \in 1..N : left[n] \in Nat /\ left[n - 1] \in Nat BY <1>0, <1>8
<1> QED BY <1>5, <1>7, <1>9 DEF N

\* What a goal gives, it has; all that gives less than it has is what was still missing.
LEMMA ShortStep ==
  ASSUME NEW balances, NEW n, balances[Drawdown[n]] \in Int, NEW a \in Nat, NEW b, b = NextShort(balances, n, a), b \in Nat
  PROVE  /\ b <= a
         /\ b < a => a - b <= balances[Drawdown[n]] /\ a > 0 /\ (b > 0 => a - b = balances[Drawdown[n]])
<1> DEFINE has == balances[Drawdown[n]]
<1>1. b = IF a <= 0 \/ has <= 0 THEN a ELSE a - (IF has < a THEN has ELSE a) BY DEF NextShort, Funds!Min2
<1>2. has \in Int OBVIOUS
<1> HIDE DEF has
<1>3. b <= a /\ (b < a => a - b <= has /\ a > 0 /\ (b > 0 => a - b = has)) BY <1>1, <1>2
<1> QED BY <1>3 DEF has

\* What a run draws: no goal gives more than it has, and all of them no more than is
\* missing, but for the rounding of the last.
LEMMA DrawsFit ==
  ASSUME FundingIsSound, NEW day \in Nat, Funds!Unallocated(day) < 0
  PROVE  /\ Funds!Whole(Funds!Draws(day), day)
         /\ 2 * Total(AmountsOf(Funds!Draws(day)), DOMAIN Funds!Draws(day)) >= 2 * Funds!Unallocated(day) - 4
         /\ \A id \in DOMAIN Funds!Draws(day) :
               /\ -Funds!Draws(day)[id].amount <= Funds!Balance(contributions, Funds!Draws(day)[id].goal, day)
               /\ \A other \in DOMAIN Funds!Draws(day) :
                     Funds!Draws(day)[other].goal = Funds!Draws(day)[id].goal => other = id
<1> DEFINE balances == [g \in Funds!Goals |-> Funds!Balance(contributions, g, day)]
           short == -Funds!Unallocated(day)
           drawn == Funds!Drawn(balances, short)
           given == {n \in DOMAIN Drawdown : drawn[n] > 0}
           at(id) == CHOOSE n \in given : id = Funds!DrawId(Drawdown[n], day)
           new == Funds!Draws(day)
           left == ShortAfter(balances, short)
           S == {Funds!DrawId(Drawdown[n], day) : n \in given}
           place == [id \in S |-> at(id)]
           f == AmountsOf(new)
           h == [id \in S |-> -f[id]]
           N == Len(Drawdown)
<1>1. /\ SchemesAreSound /\ N \in Nat /\ DOMAIN Drawdown = 1..N /\ Funds!Unallocated(day) \in Int /\ short \in Nat
      /\ short = -Funds!Unallocated(day)
  <2>1. Funds!Unallocated(day) \in Int BY BalancesAreWhole
  <2> QED BY <2>1, HowManyDraws DEF FundingIsSound
<1>2. \A n \in 1..N : /\ balances[Drawdown[n]] = Funds!Balance(contributions, Drawdown[n], day)
                      /\ balances[Drawdown[n]] \in Int /\ balances[Drawdown[n]] % 4 = 0
  BY <1>1, BalancesAreWhole, HowManyDraws
<1>3. new = [id \in S |-> Funds!Contribution(id[2], day, -Funds!Quantized(drawn[at(id)]))]
  BY DEF Funds!Draws
<1>4. \A n \in 1..N : drawn[n] = left[n - 1] - left[n] BY <1>1, DrawnIsLeft
<1>5. /\ left[0] = short
      /\ \A n \in 1..N : left[n] = NextShort(balances, n, left[n - 1]) /\ left[n] \in Nat /\ left[n - 1] \in Nat
  <2> HIDE DEF balances, short
  <2> QED BY <1>1, <1>2, ShortRuns
<1>6. \A n \in 1..N : /\ left[n] <= left[n - 1]
                      /\ drawn[n] > 0 => /\ drawn[n] <= balances[Drawdown[n]] /\ left[n - 1] > 0
                                         /\ left[n] > 0 => drawn[n] = balances[Drawdown[n]]
  <2> SUFFICES ASSUME NEW n \in 1..N
               PROVE  /\ left[n] <= left[n - 1]
                      /\ drawn[n] > 0 => /\ drawn[n] <= balances[Drawdown[n]] /\ left[n - 1] > 0
                                         /\ left[n] > 0 => drawn[n] = balances[Drawdown[n]]
    OBVIOUS
  <2> HIDE DEF balances, left, drawn, N
  <2>1. left[n] \in Nat /\ left[n - 1] \in Nat /\ balances[Drawdown[n]] \in Int BY <1>2, <1>5
  <2>2. /\ left[n] <= left[n - 1]
        /\ left[n] < left[n - 1] => /\ left[n - 1] - left[n] <= balances[Drawdown[n]] /\ left[n - 1] > 0
                                    /\ left[n] > 0 => left[n - 1] - left[n] = balances[Drawdown[n]]
    BY <1>5, <2>1, ShortStep
  <2>3. drawn[n] = left[n - 1] - left[n] BY <1>4
  <2> QED BY <2>1, <2>2, <2>3
<1>7. \A goal : Funds!DrawId(goal, day)[2] = goal BY DEF Funds!DrawId
<1>8. \A id \in S : at(id) \in given /\ id = Funds!DrawId(Drawdown[at(id)], day) /\ id[2] = Drawdown[at(id)]
  <2> SUFFICES ASSUME NEW id \in S PROVE at(id) \in given /\ id = Funds!DrawId(Drawdown[at(id)], day)
    BY <1>7
  <2>1. \E n \in given : id = Funds!DrawId(Drawdown[n], day) OBVIOUS
  <2> QED BY <2>1
<1>9. \A id \in S : place[id] \in 1..N /\ drawn[place[id]] > 0 /\ id = Funds!DrawId(Drawdown[place[id]], day)
                    /\ id[2] = Drawdown[place[id]] /\ place[id] = at(id)
  BY <1>1, <1>8
<1> HIDE DEF place
<1>10. Places(place, S, N)
  <2>1. \A x, y \in S : place[x] = place[y] => x = y
    <3> SUFFICES ASSUME NEW x \in S, NEW y \in S, place[x] = place[y] PROVE x = y OBVIOUS
    <3>1. x = Funds!DrawId(Drawdown[place[x]], day) /\ y = Funds!DrawId(Drawdown[place[y]], day) BY <1>9
    <3> QED BY <3>1
  <2> QED BY <1>9, <2>1 DEF Places
<1>11. IsFiniteSet(S)
  <2>1. place \in Injection(S, 1..N) BY <1>9, <1>10 DEF Injection, IsInjective, Places, place
  <2>2. IsFiniteSet(1..N) BY <1>1, FS_Interval
  <2> HIDE DEF S, N
  <2> QED BY <2>1, <2>2, FS_Injection
<1>12. DOMAIN new = S /\ new = [id \in DOMAIN new |-> new[id]] BY <1>3
<1>13. \A id \in S : /\ new[id].amount = -Funds!Quantized(drawn[place[id]]) /\ new[id].date = day
                     /\ new[id].goal = Drawdown[place[id]]
  <2> SUFFICES ASSUME NEW id \in S
               PROVE /\ new[id].amount = -Funds!Quantized(drawn[place[id]]) /\ new[id].date = day
                     /\ new[id].goal = Drawdown[place[id]]
    OBVIOUS
  <2>1. new[id] = Funds!Contribution(id[2], day, -Funds!Quantized(drawn[at(id)])) BY <1>3
  <2>2. at(id) = place[id] /\ id[2] = Drawdown[place[id]] BY <1>9
  <2> HIDE DEF new, at, drawn, S
  <2> QED BY <2>1, <2>2 DEF Funds!Contribution
<1> HIDE DEF new, at, drawn, given, S, left, balances, f, N, short
<1>14. ASSUME NEW id \in S
       PROVE  /\ new[id].amount \in Int /\ new[id].amount % 4 = 0 /\ h[id] = -new[id].amount
              /\ -new[id].amount <= balances[Drawdown[place[id]]]
              /\ h[id] \in Int /\ left[place[id] - 1] > 0 /\ f[id] \in Int /\ f[id] = new[id].amount
              /\ 2 * h[id] <= 2 * (left[place[id] - 1] - left[place[id]]) + 4
              /\ left[place[id]] > 0 => h[id] = left[place[id] - 1] - left[place[id]]
  <2> DEFINE n == place[id]
             a == drawn[n]
             b == balances[Drawdown[n]]
  <2>1. /\ n \in 1..N /\ left[n] \in Nat /\ left[n - 1] \in Nat /\ a = left[n - 1] - left[n] /\ a > 0
        /\ b \in Int /\ b % 4 = 0 /\ a <= b /\ left[n - 1] > 0 /\ (left[n] > 0 => a = b)
    BY <1>2, <1>4, <1>5, <1>6, <1>9
  <2>2. new[id].amount = -Funds!Quantized(a) BY <1>13
  <2>3. f[id] = new[id].amount BY <1>12 DEF f, AmountsOf
  <2>4. h[id] = -f[id] OBVIOUS
  <2> HIDE DEF n, a, b, h
  <2>5. a \in Int BY <2>1
  <2>6. /\ Funds!Quantized(a) \in Int /\ Funds!Quantized(a) % 4 = 0 /\ 2 * Funds!Quantized(a) <= 2 * a + 4
        /\ Funds!Quantized(a) <= b /\ (a = b => Funds!Quantized(a) = a)
    BY <2>1, <2>5, RoundsUpAtMostHalf DEF Funds!Quantum
  <2>7. \A x \in Int : x % 4 = 0 => (-x) % 4 = 0 /\ -(-x) = x OBVIOUS
  <2> DEFINE x == Funds!Quantized(a)
  <2>8. new[id].amount = -x /\ f[id] = -x /\ h[id] = x /\ x \in Int /\ (-x) % 4 = 0 BY <2>2, <2>3, <2>4, <2>6, <2>7
  <2> HIDE DEF x
  <2>9. 2 * x <= 2 * a + 4 /\ x <= b /\ (a = b => x = a) BY <2>6 DEF x
  <2> QED BY <2>1, <2>8, <2>9 DEF n, a, b
<1>15. Funds!Whole(new, day)
  <2>1. \A id \in DOMAIN new : /\ new[id].amount \in Int /\ new[id].amount % Funds!Quantum = 0
                               /\ new[id].date \in Int /\ new[id].date <= day
    BY <1>12, <1>13, <1>14 DEF Funds!Quantum
  <2> QED BY <1>11, <1>12, <2>1, FundsFinite DEF Funds!Whole
<1>16. 2 * Total(h, S) <= 2 * left[0] + 4
  <2>1. left[0] \in Nat /\ 4 \in Nat BY <1>1, <1>5
  <2>2. Falls(left, N) /\ \A n \in 1..N : left[n] >= 0 BY <1>5, <1>6 DEF Falls
  <2>3. \A x \in S : /\ h[x] \in Int /\ left[place[x] - 1] > 0
                     /\ 2 * h[x] <= 2 * (left[place[x] - 1] - left[place[x]]) + 4
                     /\ left[place[x]] > 0 => h[x] = left[place[x] - 1] - left[place[x]]
    BY <1>14
  <2> HIDE DEF h
  <2> QED BY <1>1, <1>10, <1>11, <2>1, <2>2, <2>3, SpendingOnce
<1>17. Total(h, S) = -Total(f, S) /\ Total(f, S) \in Int
  <2>1. \A x \in S : f[x] \in Int /\ h[x] = -f[x] BY <1>14
  <2> HIDE DEF h
  <2> QED BY <1>11, <2>1, TotalNegated, TotalTakes
<1>18. 2 * Total(f, S) >= 2 * Funds!Unallocated(day) - 4
  <2> DEFINE a == Total(h, S)
             b == Total(f, S)
             u == Funds!Unallocated(day)
  <2>1. 2 * a <= 2 * left[0] + 4 /\ a = -b /\ b \in Int BY <1>16, <1>17
  <2>2. left[0] = -u /\ u \in Int BY <1>1, <1>5
  <2> HIDE DEF a, b, u
  <2>3. 2 * b >= 2 * u - 4 BY <2>1, <2>2
  <2> QED BY <2>3 DEF b, u
<1>19. ASSUME NEW id \in S
       PROVE  /\ -new[id].amount <= Funds!Balance(contributions, new[id].goal, day)
              /\ \A other \in S : new[other].goal = new[id].goal => other = id
  <2>1. balances[Drawdown[place[id]]] = Funds!Balance(contributions, new[id].goal, day) BY <1>2, <1>9, <1>13
  <2>2. \A other \in S : new[other].goal = new[id].goal => place[other] = place[id]
    BY <1>1, <1>9, <1>13 DEF SchemesAreSound
  <2> QED BY <1>9, <1>14, <2>1, <2>2
<1> QED BY <1>12, <1>15, <1>18, <1>19 DEF new, f

\* The contributions of a run, from what its rules and goals get or give.
AddTo(due, funded, day) ==
    LET paid     == {i \in due : funded[i] > 0}
        rule(id) == CHOOSE i \in paid : id = Funds!AutoId(i, day)
    IN  [id \in {Funds!AutoId(i, day) : i \in paid} |->
            Funds!Contribution(Schemes[rule(id)].goal, id[3], Funds!Quantized(funded[rule(id)]))]
IdIn(list, goal, day) ==
    <<"draw", goal, day, CHOOSE n \in 0 .. MaxFundings :
                            /\ <<"draw", goal, day, n>> \notin DOMAIN list
                            /\ \A m \in 0 .. n - 1 : <<"draw", goal, day, m>> \in DOMAIN list>>
GiveFrom(drawn, list, day) ==
    LET given     == {n \in DOMAIN Drawdown : drawn[n] > 0}
        place(id) == CHOOSE n \in given : id = IdIn(list, Drawdown[n], day)
    IN  [id \in {IdIn(list, Drawdown[n], day) : n \in given} |->
            Funds!Contribution(id[2], day, -Funds!Quantized(drawn[place(id)]))]

LEMMA PlansStay ==
  ASSUME UNCHANGED <<income, contributions, order>>, NEW day
  PROVE  /\ Funds!Additions(day)' = Funds!Additions(day)
         /\ Funds!Draws(day)' = Funds!Draws(day)
         /\ Funds!Unallocated(day)' = Funds!Unallocated(day)
<1>1. income' = income /\ contributions' = contributions /\ order' = order OBVIOUS
<1>2. Funds!Unallocated(day)' = Funds!Unallocated(day) BY <1>1 DEF Funds!Unallocated
<1>3. Funds!Due(day)' = Funds!Due(day) BY <1>1 DEF Funds!Due
<1>4. Funds!Funded(Funds!Due(day), Funds!Unallocated(day))' = Funds!Funded(Funds!Due(day), Funds!Unallocated(day))
  BY <1>1, <1>2, <1>3 DEF Funds!Funded
<1>6. Funds!Additions(day)' = Funds!Additions(day)
  <2>1. Funds!Additions(day) = AddTo(Funds!Due(day), Funds!Funded(Funds!Due(day), Funds!Unallocated(day)), day)
    BY DEF Funds!Additions, AddTo
  <2>2. Funds!Additions(day)'
          = AddTo(Funds!Due(day)', Funds!Funded(Funds!Due(day), Funds!Unallocated(day))', day)
    BY DEF Funds!Additions, AddTo
  <2> QED BY <1>3, <1>4, <2>1, <2>2
<1>7. Funds!Draws(day)' = Funds!Draws(day)
  <2> DEFINE drawn == Funds!Drawn([g \in Funds!Goals |-> Funds!Balance(contributions, g, day)], -Funds!Unallocated(day))
  <2>1. drawn' = drawn BY <1>1, <1>2
  <2>2. Funds!Draws(day) = GiveFrom(drawn, contributions, day) BY DEF Funds!Draws, Funds!DrawId, GiveFrom, IdIn
  <2>3. Funds!Draws(day)' = GiveFrom(drawn', contributions', day) BY DEF Funds!Draws, Funds!DrawId, GiveFrom, IdIn
  <2> QED BY <1>1, <2>1, <2>2, <2>3
<1> QED BY <1>2, <1>6, <1>7

LEMMA CurrentStays ==
  ASSUME UNCHANGED <<income, contributions, order>>, NEW r, funding'[r] = funding[r], Funds!Current(r)
  PROVE  Funds!Current(r)'
<1> PICK d : d = funding[r].day OBVIOUS
<1>1. d = funding'[r].day OBVIOUS
<1>2. /\ Funds!Additions(d)' = Funds!Additions(d) /\ Funds!Draws(d)' = Funds!Draws(d)
      /\ Funds!Unallocated(d)' = Funds!Unallocated(d)
  BY PlansStay
<1>3. CASE funding[r].kind = "add" /\ funding[r].new = Funds!Additions(funding[r].day)
  BY <1>1, <1>2, <1>3 DEF Funds!Current
<1>4. CASE funding[r].kind = "draw" /\ funding[r].new = Funds!Draws(funding[r].day) /\ Funds!Unallocated(funding[r].day) < 0
  BY <1>1, <1>2, <1>4 DEF Funds!Current
<1> QED BY <1>3, <1>4 DEF Funds!Current

LEMMA FundsInitInv == SchemesAreSound /\ Funds!Init => Funds!IInv
<1> SUFFICES ASSUME SchemesAreSound, Funds!Init PROVE Funds!IInv OBVIOUS
<1>1. /\ income \in Int /\ order \in Funds!Sorted /\ fundingDay = 1 /\ contributions = <<>>
      /\ funding = [r \in Funders |-> Funds!Idle]
  BY DEF Funds!Init, SchemesAreSound
<1>2. \A d \in Nat : Funds!Whole(<<>>, d)
  <2>1. IsFiniteSet({}) BY FS_EmptySet
  <2>2. DOMAIN <<>> = {} /\ <<>> = [id \in DOMAIN <<>> |-> <<>>[id]] OBVIOUS
  <2> QED BY <2>1, <2>2, FundsFinite DEF Funds!Whole
<1>3. \A r \in Funders : funding[r] = [at |-> "idle", kind |-> "none", day |-> 0, new |-> <<>>, overtaken |-> FALSE]
  BY <1>1 DEF Funds!Idle
<1>4. Funds!MoneyIsWhole
  <2>1. funding \in [Funders -> [at : {"idle", "computed"}, kind : {"none", "add", "draw"}, day : Nat,
                                 new : {funding[r].new : r \in Funders}, overtaken : BOOLEAN]]
    <3>1. \A r \in Funders : funding[r].new = <<>> BY <1>3
    <3>2. \A r \in Funders : <<>> \in {funding[s].new : s \in Funders} BY <3>1
    <3> QED BY <1>1, <3>2 DEF Funds!Idle
  <2>2. \A r \in Funders : funding[r].day <= fundingDay /\ Funds!Whole(funding[r].new, funding[r].day) BY <1>1, <1>2, <1>3
  <2> QED BY <1>1, <1>2, <2>1, <2>2 DEF Funds!MoneyIsWhole
<1>5. Funds!RunsAreCurrent BY <1>3 DEF Funds!RunsAreCurrent
<1> QED BY <1>4, <1>5 DEF Funds!IInv

LEMMA WholeLasts ==
  ASSUME NEW list, NEW day \in Nat, NEW later \in Nat, day <= later, Funds!Whole(list, day)
  PROVE  Funds!Whole(list, later)
BY DEF Funds!Whole

\* The fields of the runs.
FundingFields ==
    /\ DOMAIN funding = Funders /\ funding = [r \in Funders |-> funding[r]]
    /\ \A r \in Funders :
          /\ funding[r] = [at |-> funding[r].at, kind |-> funding[r].kind, day |-> funding[r].day,
                           new |-> funding[r].new, overtaken |-> funding[r].overtaken]
          /\ funding[r].at \in {"idle", "computed"} /\ funding[r].kind \in {"none", "add", "draw"}
          /\ funding[r].day \in Nat /\ funding[r].day <= fundingDay /\ funding[r].overtaken \in BOOLEAN
          /\ Funds!Whole(funding[r].new, funding[r].day)

LEMMA MoneyInFields ==
  Funds!MoneyIsWhole <=> /\ income \in Int /\ order \in Funds!Sorted /\ fundingDay \in Nat
                         /\ Funds!Whole(contributions, fundingDay) /\ FundingFields
<1> DEFINE Record == [at : {"idle", "computed"}, kind : {"none", "add", "draw"}, day : Nat,
                      new : {funding[r].new : r \in Funders}, overtaken : BOOLEAN]
<1>1. ASSUME Funds!MoneyIsWhole PROVE FundingFields
  <2>1. funding \in [Funders -> Record] BY <1>1 DEF Funds!MoneyIsWhole
  <2>2. \A r \in Funders : funding[r] \in Record BY <2>1
  <2>3. \A r \in Funders : funding[r].day <= fundingDay /\ Funds!Whole(funding[r].new, funding[r].day)
    BY <1>1 DEF Funds!MoneyIsWhole
  <2> QED BY <2>1, <2>2, <2>3 DEF FundingFields
<1>2. ASSUME FundingFields PROVE funding \in [Funders -> Record]
  <2>1. \A r \in Funders : funding[r] \in Record
    <3> SUFFICES ASSUME NEW r \in Funders PROVE funding[r] \in Record OBVIOUS
    <3>1. /\ funding[r] = [at |-> funding[r].at, kind |-> funding[r].kind, day |-> funding[r].day,
                           new |-> funding[r].new, overtaken |-> funding[r].overtaken]
          /\ funding[r].at \in {"idle", "computed"} /\ funding[r].kind \in {"none", "add", "draw"}
          /\ funding[r].day \in Nat /\ funding[r].overtaken \in BOOLEAN BY <1>2 DEF FundingFields
    <3>2. funding[r].new \in {funding[s].new : s \in Funders} OBVIOUS
    <3> QED BY <3>1, <3>2
  <2> HIDE DEF Record
  <2> QED BY <1>2, <2>1 DEF FundingFields
<1> QED BY <1>1, <1>2 DEF Funds!MoneyIsWhole, FundingFields

\* A run begins.
LEMMA BegunInv ==
  ASSUME FundingIsSound, Funds!IInv, NEW r \in Funders, NEW kind \in {"add", "draw"}, NEW new, Funds!Begin(r, kind, new),
         Funds!Whole(new, fundingDay),
         \/ kind = "add" /\ new = Funds!Additions(fundingDay)
         \/ kind = "draw" /\ new = Funds!Draws(fundingDay) /\ Funds!Unallocated(fundingDay) < 0
  PROVE  Funds!IInv'
<1>1. /\ income \in Int /\ order \in Funds!Sorted /\ fundingDay \in Nat
      /\ Funds!Whole(contributions, fundingDay) /\ FundingFields
  BY MoneyInFields DEF Funds!IInv
<1>2. /\ funding' = [funding EXCEPT ![r] = [at |-> "computed", kind |-> kind, day |-> fundingDay, new |-> new,
                                            overtaken |-> FALSE]]
      /\ UNCHANGED <<income, contributions, order, fundingDay>>
  BY DEF Funds!Begin
<1>3. /\ funding'[r] = [at |-> "computed", kind |-> kind, day |-> fundingDay, new |-> new, overtaken |-> FALSE]
      /\ \A s \in Funders : s # r => funding'[s] = funding[s]
      /\ DOMAIN funding' = Funders /\ funding' = [s \in Funders |-> funding'[s]]
  BY <1>1, <1>2 DEF FundingFields
<1>4. FundingFields'
  <2>1. ASSUME NEW s \in Funders
        PROVE  /\ funding'[s] = [at |-> funding'[s].at, kind |-> funding'[s].kind, day |-> funding'[s].day,
                                 new |-> funding'[s].new, overtaken |-> funding'[s].overtaken]
               /\ funding'[s].at \in {"idle", "computed"} /\ funding'[s].kind \in {"none", "add", "draw"}
               /\ funding'[s].day \in Nat /\ funding'[s].day <= fundingDay' /\ funding'[s].overtaken \in BOOLEAN
               /\ Funds!Whole(funding'[s].new, funding'[s].day)
    <3>1. CASE s = r BY <1>1, <1>2, <1>3, <3>1
    <3>2. CASE s # r
      <4>1. funding'[s] = funding[s] /\ fundingDay' = fundingDay BY <1>2, <1>3, <3>2
      <4> QED BY <1>1, <4>1 DEF FundingFields
    <3> QED BY <3>1, <3>2
  <2> QED BY <1>3, <2>1 DEF FundingFields
<1>5. Funds!MoneyIsWhole'
  <2>1. /\ (income \in Int)' /\ (order \in Funds!Sorted)' /\ (fundingDay \in Nat)'
        /\ Funds!Whole(contributions, fundingDay)'
    BY <1>1, <1>2
  <2> QED BY <1>4, <2>1, MoneyInFields, PTL
<1>6. Funds!RunsAreCurrent'
  <2> SUFFICES ASSUME NEW s \in Funders, funding'[s].at = "computed", ~funding'[s].overtaken
               PROVE  /\ \A id \in DOMAIN contributions' : contributions'[id].date <= funding'[s].day
                      /\ \/ DOMAIN funding'[s].new = {}
                         \/ DOMAIN funding'[s].new \cap DOMAIN contributions' # {}
                         \/ Funds!Current(s)'
    BY DEF Funds!RunsAreCurrent
  <2>1. CASE s = r
    <3>1. \A id \in DOMAIN contributions : contributions[id].date <= fundingDay BY <1>1 DEF Funds!Whole
    <3>2. Funds!Current(r)'
      <4> PICK d : d = fundingDay OBVIOUS
      <4>1. /\ Funds!Additions(d)' = Funds!Additions(d) /\ Funds!Draws(d)' = Funds!Draws(d)
            /\ Funds!Unallocated(d)' = Funds!Unallocated(d)
        BY <1>2, PlansStay
      <4>2. funding'[r].day = d /\ funding'[r].kind = kind /\ funding'[r].new = new BY <1>3
      <4>3. \/ kind = "add" /\ new = Funds!Additions(d)
            \/ kind = "draw" /\ new = Funds!Draws(d) /\ Funds!Unallocated(d) < 0
        OBVIOUS
      <4>4. CASE kind = "add" /\ new = Funds!Additions(d) BY <4>1, <4>2, <4>4 DEF Funds!Current
      <4>5. CASE kind = "draw" /\ new = Funds!Draws(d) /\ Funds!Unallocated(d) < 0
        BY <4>1, <4>2, <4>5 DEF Funds!Current
      <4> QED BY <4>3, <4>4, <4>5
    <3> QED BY <1>2, <1>3, <2>1, <3>1, <3>2
  <2>2. CASE s # r
    <3>1. funding'[s] = funding[s] BY <1>3, <2>2
    <3>2. /\ \A id \in DOMAIN contributions : contributions[id].date <= funding[s].day
          /\ \/ DOMAIN funding[s].new = {}
             \/ DOMAIN funding[s].new \cap DOMAIN contributions # {}
             \/ Funds!Current(s)
      BY <3>1 DEF Funds!IInv, Funds!RunsAreCurrent
    <3>3. Funds!Current(s) => Funds!Current(s)' BY <1>2, <3>1, CurrentStays
    <3> QED BY <1>2, <3>1, <3>2, <3>3
  <2> QED BY <2>1, <2>2
<1> QED BY <1>5, <1>6 DEF Funds!IInv

\* What has overtaken every run leaves none that must be current.
LEMMA OvertakenInv ==
  ASSUME FundingIsSound, Funds!IInv, funding' = Funds!Overtake({}), UNCHANGED fundingDay,
         income' \in Int, order' \in Funds!Sorted, Funds!Whole(contributions', fundingDay)
  PROVE  Funds!IInv'
<1>1. fundingDay \in Nat /\ FundingFields BY MoneyInFields DEF Funds!IInv
<1>2. /\ DOMAIN funding' = Funders /\ funding' = [s \in Funders |-> funding'[s]]
      /\ \A s \in Funders : funding'[s] = IF funding[s].at = "idle" THEN funding[s]
                                          ELSE [funding[s] EXCEPT !.overtaken = TRUE]
  BY DEF Funds!Overtake
<1>3. ASSUME NEW s \in Funders
      PROVE  /\ funding'[s] = [at |-> funding[s].at, kind |-> funding[s].kind, day |-> funding[s].day,
                               new |-> funding[s].new, overtaken |-> funding'[s].overtaken]
             /\ funding'[s].at = funding[s].at /\ funding'[s].kind = funding[s].kind
             /\ funding'[s].day = funding[s].day /\ funding'[s].new = funding[s].new
             /\ funding'[s].overtaken \in BOOLEAN
             /\ funding'[s].at = "computed" => funding'[s].overtaken
  BY <1>1, <1>2 DEF FundingFields
<1>4. FundingFields'
  <2>1. ASSUME NEW s \in Funders
        PROVE  /\ funding'[s] = [at |-> funding'[s].at, kind |-> funding'[s].kind, day |-> funding'[s].day,
                                 new |-> funding'[s].new, overtaken |-> funding'[s].overtaken]
               /\ funding'[s].at \in {"idle", "computed"} /\ funding'[s].kind \in {"none", "add", "draw"}
               /\ funding'[s].day \in Nat /\ funding'[s].day <= fundingDay' /\ funding'[s].overtaken \in BOOLEAN
               /\ Funds!Whole(funding'[s].new, funding'[s].day)
    <3>1. /\ funding[s].at \in {"idle", "computed"} /\ funding[s].kind \in {"none", "add", "draw"}
          /\ funding[s].day \in Nat /\ funding[s].day <= fundingDay
          /\ Funds!Whole(funding[s].new, funding[s].day)
      BY <1>1 DEF FundingFields
    <3> QED BY <1>3, <3>1
  <2> QED BY <1>2, <2>1 DEF FundingFields
<1>5. Funds!MoneyIsWhole'
  <2>1. /\ (income \in Int)' /\ (order \in Funds!Sorted)' /\ (fundingDay \in Nat)'
        /\ Funds!Whole(contributions, fundingDay)'
    BY <1>1
  <2> QED BY <1>4, <2>1, MoneyInFields, PTL
<1>6. Funds!RunsAreCurrent' BY <1>3 DEF Funds!RunsAreCurrent
<1> QED BY <1>5, <1>6 DEF Funds!IInv

LEMMA NextDayInv == ASSUME FundingIsSound, Funds!IInv, Funds!NextDay PROVE Funds!IInv'
<1>1. /\ income \in Int /\ order \in Funds!Sorted /\ fundingDay \in Nat
      /\ Funds!Whole(contributions, fundingDay) /\ FundingFields
  BY MoneyInFields DEF Funds!IInv
<1>2. fundingDay' = fundingDay + 1 /\ UNCHANGED <<income, contributions, order, funding>> BY DEF Funds!NextDay
<1>3. Funds!Whole(contributions, fundingDay') BY <1>1, <1>2, WholeLasts
<1>4. FundingFields' BY <1>1, <1>2 DEF FundingFields
<1>5. Funds!MoneyIsWhole'
  <2>1. /\ (income \in Int)' /\ (order \in Funds!Sorted)' /\ (fundingDay \in Nat)'
        /\ Funds!Whole(contributions, fundingDay)'
    BY <1>1, <1>2, <1>3
  <2> QED BY <1>4, <2>1, MoneyInFields, PTL
<1>6. Funds!RunsAreCurrent'
  <2> SUFFICES ASSUME NEW s \in Funders, funding'[s].at = "computed", ~funding'[s].overtaken
               PROVE  /\ \A id \in DOMAIN contributions' : contributions'[id].date <= funding'[s].day
                      /\ \/ DOMAIN funding'[s].new = {}
                         \/ DOMAIN funding'[s].new \cap DOMAIN contributions' # {}
                         \/ Funds!Current(s)'
    BY DEF Funds!RunsAreCurrent
  <2>1. funding'[s] = funding[s] BY <1>2
  <2>2. /\ \A id \in DOMAIN contributions : contributions[id].date <= funding[s].day
        /\ \/ DOMAIN funding[s].new = {}
           \/ DOMAIN funding[s].new \cap DOMAIN contributions # {}
           \/ Funds!Current(s)
    BY <2>1 DEF Funds!IInv, Funds!RunsAreCurrent
  <2>3. Funds!Current(s) => Funds!Current(s)' BY <1>2, <2>1, CurrentStays
  <2> QED BY <1>2, <2>1, <2>2, <2>3
<1> QED BY <1>5, <1>6 DEF Funds!IInv

\* What is inserted comes beside what is there.
Joined(list, new) ==
    [id \in DOMAIN list \cup DOMAIN new |-> IF id \in DOMAIN new THEN new[id] ELSE list[id]]

LEMMA JoinedFields ==
  ASSUME NEW list, NEW new, DOMAIN new \cap DOMAIN list = {}
  PROVE  /\ DOMAIN Joined(list, new) = DOMAIN list \cup DOMAIN new
         /\ \A id \in DOMAIN new : Joined(list, new)[id] = new[id]
         /\ \A id \in DOMAIN list : Joined(list, new)[id] = list[id]
         /\ list = [id \in DOMAIN list |-> list[id]] /\ DOMAIN new = {} => Joined(list, new) = list
BY DEF Joined

LEMMA JoinedWhole ==
  ASSUME NEW list, NEW new, NEW day \in Nat, Funds!Whole(list, day), Funds!Whole(new, day), DOMAIN new \cap DOMAIN list = {}
  PROVE  Funds!Whole(Joined(list, new), day)
<1> DEFINE all == Joined(list, new)
<1>1. DOMAIN all = DOMAIN list \cup DOMAIN new /\ all = [id \in DOMAIN all |-> all[id]] BY DEF Joined
<1>2. \A id \in DOMAIN all : \/ id \in DOMAIN new /\ all[id] = new[id]
                             \/ id \in DOMAIN list /\ all[id] = list[id]
  BY <1>1 DEF Joined
<1> HIDE DEF all
<1>3. IsFiniteSet(DOMAIN list) /\ IsFiniteSet(DOMAIN new) BY FundsFinite DEF Funds!Whole
<1>4. IsFiniteSet(DOMAIN all) BY <1>1, <1>3, FS_Union
<1>5. \A id \in DOMAIN all : /\ all[id].amount \in Int /\ all[id].amount % Funds!Quantum = 0
                             /\ all[id].date \in Int /\ all[id].date <= day
  BY <1>2 DEF Funds!Whole
<1>6. Funds!Whole(all, day) BY <1>1, <1>4, <1>5, FundsFinite DEF Funds!Whole
<1> QED BY <1>6 DEF all

LEMMA JoinedTotal ==
  ASSUME NEW list, NEW new, NEW day \in Nat, Funds!Whole(list, day), Funds!Whole(new, day), DOMAIN new \cap DOMAIN list = {},
         NEW S \in SUBSET DOMAIN list, NEW T \in SUBSET DOMAIN new
  PROVE  Total(AmountsOf(Joined(list, new)), S \cup T) = Total(AmountsOf(list), S) + Total(AmountsOf(new), T)
<1> DEFINE all == Joined(list, new)
           f == AmountsOf(all)
           g == AmountsOf(list)
           h == AmountsOf(new)
<1>1. /\ IsFiniteSet(S) /\ IsFiniteSet(T) /\ S \cap T = {}
      /\ \A id \in S : g[id] = list[id].amount /\ list[id].amount \in Int
      /\ \A id \in T : h[id] = new[id].amount /\ new[id].amount \in Int
  BY WholeAmounts
<1>2. \A id \in S : f[id] = list[id].amount BY DEF AmountsOf, Joined
<1>3. \A id \in T : f[id] = new[id].amount BY DEF AmountsOf, Joined
<1>4. Alike(f, g, S) /\ Alike(f, h, T) BY <1>1, <1>2, <1>3 DEF Alike
<1>5. \A id \in S \cup T : f[id] \in Int BY <1>1, <1>2, <1>3
<1> HIDE DEF f, g, h
<1>6. Total(f, S \cup T) = Total(f, S) + Total(f, T) BY <1>1, <1>5, TotalOfBoth
<1>7. Total(f, S) = Total(g, S) /\ Total(f, T) = Total(h, T) BY <1>1, <1>4, TotalsAgree
<1> QED BY <1>6, <1>7 DEF f, g, h

\* What two runs of one day, both current, would insert: the same, or one of them nothing.
LEMMA CurrentRuns ==
  ASSUME FundingIsSound, NEW r, NEW s, Funds!Current(r), Funds!Current(s), funding[r].day = funding[s].day, funding[r].day \in Nat,
         DOMAIN funding[r].new # {}
  PROVE  funding[s].new = funding[r].new \/ DOMAIN funding[s].new = {}
<1> PICK d : d = funding[r].day OBVIOUS
<1>1. d \in Nat /\ funding[s].day = d OBVIOUS
<1>2. /\ \/ funding[r].new = Funds!Additions(d)
         \/ funding[r].new = Funds!Draws(d) /\ Funds!Unallocated(d) < 0
      /\ \/ funding[s].new = Funds!Additions(d)
         \/ funding[s].new = Funds!Draws(d) /\ Funds!Unallocated(d) < 0
  BY <1>1 DEF Funds!Current
<1>3. Funds!Unallocated(d) < 0 => DOMAIN Funds!Additions(d) = {}
  <2>1. Funds!Unallocated(d) \in Int BY <1>1, BalancesAreWhole
  <2>2. Funds!Unallocated(d) <= 0 => DOMAIN Funds!Additions(d) = {} BY <1>1, AdditionsFit
  <2> QED BY <2>1, <2>2
<1> QED BY <1>2, <1>3

LEMMA InsertedInv == ASSUME FundingIsSound, Funds!IInv, NEW r \in Funders, Funds!Insert(r) PROVE Funds!IInv'
<1> DEFINE new == funding[r].new
           days == IF funding[r].overtaken THEN {} ELSE {funding[r].day}
<1>1. /\ income \in Int /\ order \in Funds!Sorted /\ fundingDay \in Nat
      /\ Funds!Whole(contributions, fundingDay) /\ FundingFields
  BY MoneyInFields DEF Funds!IInv
<1>2. /\ funding[r].at = "computed" /\ UNCHANGED <<income, order, fundingDay>>
      /\ \/ /\ DOMAIN new \cap DOMAIN contributions = {} /\ contributions' = Joined(contributions, new)
            /\ funding' = [Funds!Overtake(days) EXCEPT ![r] = Funds!Idle]
         \/ /\ DOMAIN new \cap DOMAIN contributions # {} /\ contributions' = contributions
            /\ funding' = [funding EXCEPT ![r] = Funds!Idle]
  BY DEF Funds!Insert, Joined
<1>3. /\ Funds!Whole(new, funding[r].day) /\ funding[r].day \in Nat /\ funding[r].day <= fundingDay
      /\ Funds!Whole(new, fundingDay)
  <2>1. /\ Funds!Whole(new, funding[r].day) /\ funding[r].day \in Nat /\ funding[r].day <= fundingDay
    BY <1>1 DEF FundingFields
  <2> QED BY <1>1, <2>1, WholeLasts
<1>4. Funds!Whole(contributions', fundingDay) BY <1>1, <1>2, <1>3, JoinedWhole
<1>5. /\ funding'[r] = Funds!Idle /\ DOMAIN funding' = Funders /\ funding' = [s \in Funders |-> funding'[s]]
      /\ \A s \in Funders : s # r => \/ funding'[s] = funding[s]
                                     \/ /\ funding'[s] = [funding[s] EXCEPT !.overtaken = TRUE]
  <2>1. /\ DOMAIN Funds!Overtake(days) = Funders
        /\ \A s \in Funders : \/ Funds!Overtake(days)[s] = funding[s]
                              \/ Funds!Overtake(days)[s] = [funding[s] EXCEPT !.overtaken = TRUE]
    BY DEF Funds!Overtake
  <2>2. DOMAIN funding = Funders BY <1>1 DEF FundingFields
  <2> HIDE DEF days
  <2> QED BY <1>2, <2>1, <2>2
<1>6. ASSUME NEW s \in Funders, s # r
      PROVE  /\ funding'[s] = [at |-> funding[s].at, kind |-> funding[s].kind, day |-> funding[s].day,
                               new |-> funding[s].new, overtaken |-> funding'[s].overtaken]
             /\ funding'[s].at = funding[s].at /\ funding'[s].kind = funding[s].kind
             /\ funding'[s].day = funding[s].day /\ funding'[s].new = funding[s].new
             /\ funding'[s].overtaken \in BOOLEAN
             /\ ~funding'[s].overtaken => funding'[s] = funding[s]
  <2>1. /\ funding[s] = [at |-> funding[s].at, kind |-> funding[s].kind, day |-> funding[s].day,
                         new |-> funding[s].new, overtaken |-> funding[s].overtaken]
        /\ funding[s].overtaken \in BOOLEAN BY <1>1 DEF FundingFields
  <2>2. CASE funding'[s] = funding[s] BY <2>1, <2>2
  <2>3. CASE funding'[s] = [funding[s] EXCEPT !.overtaken = TRUE] BY <2>1, <2>3
  <2> QED BY <1>5, <1>6, <2>2, <2>3
<1>7. FundingFields'
  <2>1. ASSUME NEW s \in Funders
        PROVE  /\ funding'[s] = [at |-> funding'[s].at, kind |-> funding'[s].kind, day |-> funding'[s].day,
                                 new |-> funding'[s].new, overtaken |-> funding'[s].overtaken]
               /\ funding'[s].at \in {"idle", "computed"} /\ funding'[s].kind \in {"none", "add", "draw"}
               /\ funding'[s].day \in Nat /\ funding'[s].day <= fundingDay' /\ funding'[s].overtaken \in BOOLEAN
               /\ Funds!Whole(funding'[s].new, funding'[s].day)
    <3>1. CASE s = r
      <4>1. funding'[s] = [at |-> "idle", kind |-> "none", day |-> 0, new |-> <<>>, overtaken |-> FALSE]
        BY <1>5, <3>1 DEF Funds!Idle
      <4>2. Funds!Whole(<<>>, 0)
        <5>1. IsFiniteSet({}) BY FS_EmptySet
        <5>2. DOMAIN <<>> = {} /\ <<>> = [id \in DOMAIN <<>> |-> <<>>[id]] OBVIOUS
        <5> QED BY <5>1, <5>2, FundsFinite DEF Funds!Whole
      <4> QED BY <1>1, <1>2, <4>1, <4>2
    <3>2. CASE s # r
      <4>1. /\ funding[s].at \in {"idle", "computed"} /\ funding[s].kind \in {"none", "add", "draw"}
            /\ funding[s].day \in Nat /\ funding[s].day <= fundingDay
            /\ Funds!Whole(funding[s].new, funding[s].day)
        BY <1>1 DEF FundingFields
      <4> QED BY <1>2, <1>6, <3>2, <4>1
    <3> QED BY <3>1, <3>2
  <2> QED BY <1>5, <2>1 DEF FundingFields
<1>8. Funds!MoneyIsWhole'
  <2>1. /\ (income \in Int)' /\ (order \in Funds!Sorted)' /\ (fundingDay \in Nat)'
        /\ Funds!Whole(contributions, fundingDay)'
    BY <1>1, <1>2, <1>4
  <2> QED BY <1>7, <2>1, MoneyInFields, PTL
<1>9. Funds!RunsAreCurrent'
  <2> SUFFICES ASSUME NEW s \in Funders, funding'[s].at = "computed", ~funding'[s].overtaken
               PROVE  /\ \A id \in DOMAIN contributions' : contributions'[id].date <= funding'[s].day
                      /\ \/ DOMAIN funding'[s].new = {}
                         \/ DOMAIN funding'[s].new \cap DOMAIN contributions' # {}
                         \/ Funds!Current(s)'
    BY DEF Funds!RunsAreCurrent
  <2>1. s # r /\ funding'[s] = funding[s] BY <1>5, <1>6 DEF Funds!Idle
  <2>2. /\ \A id \in DOMAIN contributions : contributions[id].date <= funding[s].day
        /\ \/ DOMAIN funding[s].new = {}
           \/ DOMAIN funding[s].new \cap DOMAIN contributions # {}
           \/ Funds!Current(s)
    BY <2>1 DEF Funds!IInv, Funds!RunsAreCurrent
  <2>3. contributions' = contributions /\ Funds!Current(s) => Funds!Current(s)' BY <1>2, <2>1, CurrentStays
  <2>4. CASE contributions' = contributions BY <2>1, <2>2, <2>3, <2>4
  <2>5. CASE contributions' # contributions
    <3>1. /\ DOMAIN new \cap DOMAIN contributions = {} /\ contributions' = Joined(contributions, new)
          /\ funding' = [Funds!Overtake(days) EXCEPT ![r] = Funds!Idle]
      BY <1>2, <2>5
    <3>2. DOMAIN new # {}
      <4>1. contributions = [id \in DOMAIN contributions |-> contributions[id]] BY <1>1 DEF Funds!Whole
      <4> QED BY <2>5, <3>1, <4>1, JoinedFields
    <3>3. funding[s].day = funding[r].day /\ ~funding[r].overtaken
      <4>1. Funds!Overtake(days)[s] = IF funding[s].at = "idle" \/ funding[s].day \in days THEN funding[s]
                                      ELSE [funding[s] EXCEPT !.overtaken = TRUE]
        BY DEF Funds!Overtake
      <4>2. funding'[s] = Funds!Overtake(days)[s]
        <5>1. DOMAIN Funds!Overtake(days) = Funders BY DEF Funds!Overtake
        <5> HIDE DEF days
        <5> QED BY <2>1, <3>1, <5>1
      <4>3. funding[s].at = "computed" /\ ~funding[s].overtaken BY <2>1
      <4>4. [funding[s] EXCEPT !.overtaken = TRUE].overtaken = TRUE
        BY <1>1 DEF FundingFields
      <4>5. funding[s].day \in days BY <2>1, <4>1, <4>2, <4>3, <4>4
      <4> QED BY <4>5
    <3>4. /\ DOMAIN contributions' = DOMAIN contributions \cup DOMAIN new
          /\ \A id \in DOMAIN new : contributions'[id] = new[id]
          /\ \A id \in DOMAIN contributions : contributions'[id] = contributions[id]
      BY <3>1 DEF Joined
    <3>5. \A id \in DOMAIN contributions' : contributions'[id].date <= funding[s].day
      <4>1. \A id \in DOMAIN new : new[id].date <= funding[s].day BY <1>3, <3>3 DEF Funds!Whole
      <4> QED BY <2>2, <3>4, <4>1
    <3>6. Funds!Current(r)
      <4> HIDE DEF days
      <4> QED BY <1>2, <3>1, <3>2, <3>3 DEF Funds!IInv, Funds!RunsAreCurrent
    <3>7. \/ DOMAIN funding[s].new = {}
          \/ DOMAIN funding[s].new \cap DOMAIN contributions' # {}
      <4>1. CASE DOMAIN funding[s].new \cap DOMAIN contributions # {} BY <3>4, <4>1
      <4>2. CASE Funds!Current(s)
        <5>1. funding[s].new = new \/ DOMAIN funding[s].new = {} BY <1>3, <3>2, <3>3, <3>6, <4>2, CurrentRuns
        <5> QED BY <3>2, <3>4, <5>1
      <4> QED BY <2>2, <4>1, <4>2
    <3> QED BY <2>1, <3>5, <3>7
  <2> QED BY <2>4, <2>5
<1> QED BY <1>8, <1>9 DEF Funds!IInv

LEMMA FundsStepInv == SchemesAreSound /\ Funds!IInv /\ [Funds!Next]_(Funds!vars) => Funds!IInv'
<1> SUFFICES ASSUME SchemesAreSound, Funds!IInv, [Funds!Next]_(Funds!vars) PROVE Funds!IInv' OBVIOUS
<1>0. /\ FundingIsSound /\ income \in Int /\ order \in Funds!Sorted /\ fundingDay \in Nat
      /\ Funds!Whole(contributions, fundingDay) /\ FundingFields
  BY MoneyInFields DEF Funds!IInv, FundingIsSound
<1>1. ASSUME NEW r \in Funders, Funds!Add(r) PROVE Funds!IInv'
  <2>1. Funds!Begin(r, "add", Funds!Additions(fundingDay)) BY <1>1 DEF Funds!Add
  <2>2. Funds!Whole(Funds!Additions(fundingDay), fundingDay) BY <1>0, AdditionsFit
  <2> DEFINE new == Funds!Additions(fundingDay)
  <2>3. new = Funds!Additions(fundingDay) OBVIOUS
  <2> HIDE DEF new
  <2> QED BY <1>0, <2>1, <2>2, <2>3, BegunInv
<1>2. ASSUME NEW r \in Funders, Funds!Draw(r) PROVE Funds!IInv'
  <2>1. Funds!Begin(r, "draw", Funds!Draws(fundingDay)) /\ Funds!Unallocated(fundingDay) < 0 BY <1>2 DEF Funds!Draw
  <2>2. Funds!Whole(Funds!Draws(fundingDay), fundingDay) BY <1>0, <2>1, DrawsFit
  <2> DEFINE new == Funds!Draws(fundingDay)
  <2>3. new = Funds!Draws(fundingDay) OBVIOUS
  <2> HIDE DEF new
  <2> QED BY <1>0, <2>1, <2>2, <2>3, BegunInv
<1>3. ASSUME NEW r \in Funders, Funds!Insert(r) PROVE Funds!IInv' BY <1>0, <1>3, InsertedInv
<1>4. ASSUME NEW new \in Incomes, Funds!Ledger(new) PROVE Funds!IInv'
  <2>1. /\ funding' = Funds!Overtake({}) /\ income' = new /\ UNCHANGED <<contributions, order, fundingDay>>
    BY <1>4 DEF Funds!Ledger, Funds!Event
  <2>2. new \in Int BY DEF SchemesAreSound
  <2> QED BY <1>0, <2>1, <2>2, OvertakenInv
<1>5. ASSUME NEW id \in DOMAIN contributions, Funds!Remove(id) PROVE Funds!IInv'
  <2>1. /\ funding' = Funds!Overtake({}) /\ UNCHANGED <<income, order, fundingDay>>
        /\ contributions' = [x \in DOMAIN contributions \ {id} |-> contributions[x]]
    BY <1>5 DEF Funds!Remove, Funds!Event
  <2>2. IsFiniteSet(DOMAIN contributions \ {id})
    <3>1. IsFiniteSet(DOMAIN contributions) BY <1>0, FundsFinite DEF Funds!Whole
    <3> QED BY <3>1, FS_RemoveElement
  <2>3. Funds!Whole(contributions', fundingDay)
    <3>1. DOMAIN contributions' = DOMAIN contributions \ {id}
          /\ \A x \in DOMAIN contributions' : x \in DOMAIN contributions /\ contributions'[x] = contributions[x]
      BY <2>1
    <3>2. contributions' = [x \in DOMAIN contributions' |-> contributions'[x]] BY <2>1
    <3>3. \A x \in DOMAIN contributions : /\ contributions[x].amount \in Int /\ contributions[x].amount % Funds!Quantum = 0
                                          /\ contributions[x].date \in Int /\ contributions[x].date <= fundingDay
      BY <1>0 DEF Funds!Whole
    <3>4. Funds!IsFiniteSet(DOMAIN contributions') BY <2>2, <3>1, FundsFinite
    <3> QED BY <3>1, <3>2, <3>3, <3>4 DEF Funds!Whole
  <2> QED BY <1>0, <2>1, <2>3, OvertakenInv
<1>6. ASSUME NEW new \in Funds!Sorted, Funds!Reorder(new) PROVE Funds!IInv'
  <2>1. /\ funding' = Funds!Overtake({}) /\ order' = new /\ UNCHANGED <<income, contributions, fundingDay>>
    BY <1>6 DEF Funds!Reorder, Funds!Event
  <2> QED BY <1>0, <2>1, OvertakenInv
<1>7. ASSUME Funds!NextDay PROVE Funds!IInv' BY <1>0, <1>7, NextDayInv
<1>8. ASSUME UNCHANGED Funds!vars PROVE Funds!IInv'
  <2>1. UNCHANGED <<income, contributions, order, fundingDay, funding>> BY <1>8 DEF Funds!vars
  <2>2. FundingFields' BY <1>0, <2>1 DEF FundingFields
  <2>3. Funds!MoneyIsWhole'
    <3>1. /\ (income \in Int)' /\ (order \in Funds!Sorted)' /\ (fundingDay \in Nat)'
          /\ Funds!Whole(contributions, fundingDay)'
      BY <1>0, <2>1
    <3> QED BY <2>2, <3>1, MoneyInFields, PTL
  <2>4. Funds!RunsAreCurrent'
    <3> SUFFICES ASSUME NEW s \in Funders, funding'[s].at = "computed", ~funding'[s].overtaken
                 PROVE  /\ \A id \in DOMAIN contributions' : contributions'[id].date <= funding'[s].day
                        /\ \/ DOMAIN funding'[s].new = {}
                           \/ DOMAIN funding'[s].new \cap DOMAIN contributions' # {}
                           \/ Funds!Current(s)'
      BY DEF Funds!RunsAreCurrent
    <3>1. funding'[s] = funding[s] BY <2>1
    <3>2. /\ \A id \in DOMAIN contributions : contributions[id].date <= funding[s].day
          /\ \/ DOMAIN funding[s].new = {}
             \/ DOMAIN funding[s].new \cap DOMAIN contributions # {}
             \/ Funds!Current(s)
      BY <3>1 DEF Funds!IInv, Funds!RunsAreCurrent
    <3>3. Funds!Current(s) => Funds!Current(s)' BY <2>1, <3>1, CurrentStays
    <3> QED BY <2>1, <3>1, <3>2, <3>3
  <2> QED BY <2>3, <2>4 DEF Funds!IInv
<1> QED BY <1>1, <1>2, <1>3, <1>4, <1>5, <1>6, <1>7, <1>8 DEF Funds!Next

\* What a list comes to when nothing in it is of a later day.
LEMMA AllIsDated ==
  ASSUME NEW list, NEW day \in Nat, Funds!Whole(list, day), NEW earned \in Int
  PROVE  /\ Funds!Dated(list, day) = DOMAIN list
         /\ Funds!Left(earned, list, day) = earned - Total(AmountsOf(list), DOMAIN list)
<1>1. Funds!Dated(list, day) = DOMAIN list BY DEF Funds!Dated, Funds!Whole
<1>2. Funds!Sum(list, DOMAIN list) = Total(AmountsOf(list), DOMAIN list) BY WholeAmounts
<1> QED BY <1>1, <1>2 DEF Funds!Left

\* A run that inserts something and is not out of date inserts what it would compute now.
LEMMA InsertsWhatIsCurrent ==
  ASSUME SchemesAreSound, Funds!IInv, NEW r \in Funders, Funds!Insert(r), ~funding[r].overtaken,
         contributions' # contributions
  PROVE  /\ Funds!Current(r) /\ contributions' = Joined(contributions, funding[r].new) /\ UNCHANGED <<income, fundingDay>>
         /\ DOMAIN funding[r].new \cap DOMAIN contributions = {}
         /\ funding[r].day \in Nat /\ funding[r].day <= fundingDay /\ income \in Int /\ fundingDay \in Nat
         /\ Funds!Whole(contributions, funding[r].day) /\ Funds!Whole(contributions, fundingDay)
         /\ Funds!Whole(funding[r].new, funding[r].day) /\ Funds!Whole(funding[r].new, fundingDay)
<1>1. /\ income \in Int /\ order \in Funds!Sorted /\ fundingDay \in Nat
      /\ Funds!Whole(contributions, fundingDay) /\ FundingFields
  BY MoneyInFields DEF Funds!IInv
<1>2. /\ funding[r].at = "computed" /\ UNCHANGED <<income, fundingDay>>
      /\ DOMAIN funding[r].new \cap DOMAIN contributions = {} /\ contributions' = Joined(contributions, funding[r].new)
  BY DEF Funds!Insert, Joined
<1>3. /\ Funds!Whole(funding[r].new, funding[r].day) /\ funding[r].day \in Nat /\ funding[r].day <= fundingDay
      /\ Funds!Whole(funding[r].new, fundingDay)
  <2>1. /\ Funds!Whole(funding[r].new, funding[r].day) /\ funding[r].day \in Nat /\ funding[r].day <= fundingDay
    BY <1>1 DEF FundingFields
  <2> QED BY <1>1, <2>1, WholeLasts
<1>4. DOMAIN funding[r].new # {}
  <2>1. contributions = [id \in DOMAIN contributions |-> contributions[id]] BY <1>1 DEF Funds!Whole
  <2> QED BY <1>2, <2>1 DEF Joined
<1>5. /\ \A id \in DOMAIN contributions : contributions[id].date <= funding[r].day
      /\ Funds!Current(r)
  BY <1>2, <1>4 DEF Funds!IInv, Funds!RunsAreCurrent
<1>6. Funds!Whole(contributions, funding[r].day) BY <1>1, <1>5 DEF Funds!Whole
<1> QED BY <1>1, <1>2, <1>3, <1>5, <1>6

\* What is left after an insert.
LEMMA LeftAfterInsert ==
  ASSUME SchemesAreSound, Funds!IInv, NEW r \in Funders, Funds!Insert(r), ~funding[r].overtaken,
         contributions' # contributions
  PROVE  /\ Funds!Left(income', contributions', fundingDay)
              = Funds!Unallocated(funding[r].day) - Total(AmountsOf(funding[r].new), DOMAIN funding[r].new)
         /\ Funds!Unallocated(funding[r].day) \in Int
         /\ Total(AmountsOf(funding[r].new), DOMAIN funding[r].new) \in Int
<1> DEFINE new == funding[r].new
           d == funding[r].day
           a == Total(AmountsOf(contributions), DOMAIN contributions)
           b == Total(AmountsOf(new), DOMAIN new)
<1>1. /\ contributions' = Joined(contributions, new) /\ income' = income /\ d \in Nat /\ income \in Int /\ fundingDay \in Nat
      /\ DOMAIN new \cap DOMAIN contributions = {}
      /\ Funds!Whole(contributions, d) /\ Funds!Whole(contributions, fundingDay)
      /\ Funds!Whole(new, d) /\ Funds!Whole(new, fundingDay)
  BY InsertsWhatIsCurrent
<1> HIDE DEF new, d
<1>2. a \in Int /\ b \in Int BY <1>1, WholeAmounts
<1>3. Funds!Unallocated(d) = income - a BY <1>1, AllIsDated DEF Funds!Unallocated
<1>4. Funds!Whole(contributions', fundingDay) BY <1>1, JoinedWhole
<1>5. Funds!Left(income', contributions', fundingDay) = income' - Total(AmountsOf(contributions'), DOMAIN contributions')
  <2> PICK all, m : all = contributions' /\ m = income' OBVIOUS
  <2>1. Funds!Whole(all, fundingDay) /\ m \in Int BY <1>1, <1>4
  <2>2. Funds!Left(m, all, fundingDay) = m - Total(AmountsOf(all), DOMAIN all) BY <1>1, <2>1, AllIsDated
  <2> QED BY <2>2
<1>6. Total(AmountsOf(contributions'), DOMAIN contributions') = a + b
  <2>1. DOMAIN Joined(contributions, new) = DOMAIN contributions \cup DOMAIN new BY DEF Joined
  <2>2. Total(AmountsOf(Joined(contributions, new)), DOMAIN contributions \cup DOMAIN new) = a + b BY <1>1, JoinedTotal
  <2> QED BY <1>1, <2>1, <2>2
<1> HIDE DEF a, b
<1>7. Funds!Left(income', contributions', fundingDay) = Funds!Unallocated(d) - b BY <1>1, <1>2, <1>3, <1>5, <1>6
<1>8. Funds!Unallocated(d) \in Int BY <1>1, <1>2, <1>3
<1> QED BY <1>2, <1>7, <1>8 DEF a, b, new, d

LEMMA AdditionsStay ==
  ASSUME SchemesAreSound, Funds!IInv PROVE Funds!AdditionsStayInThePool
<1> SUFFICES ASSUME NEW r \in Funders, Funds!Insert(r), funding[r].kind = "add", ~funding[r].overtaken,
                    contributions' # contributions
             PROVE  2 * Funds!Left(income', contributions', fundingDay)
                       >= -Funds!Quantum * Funds!Cardinality(DOMAIN funding[r].new)
  BY DEF Funds!AdditionsStayInThePool
<1> DEFINE new == funding[r].new
           u == Funds!Unallocated(funding[r].day)
           b == Total(AmountsOf(new), DOMAIN new)
           c == Cardinality(DOMAIN new)
<1>0. FundingIsSound BY DEF FundingIsSound, Funds!IInv
<1>1. Funds!Left(income', contributions', fundingDay) = u - b /\ u \in Int /\ b \in Int BY LeftAfterInsert
<1>2. /\ Funds!Current(r) /\ funding[r].day \in Nat /\ contributions' = Joined(contributions, new)
      /\ Funds!Whole(contributions, fundingDay) /\ Funds!Whole(new, fundingDay)
  BY InsertsWhatIsCurrent
<1>3. new = Funds!Additions(funding[r].day) BY <1>2 DEF Funds!Current
<1>4. DOMAIN new # {}
  <2>1. contributions = [id \in DOMAIN contributions |-> contributions[id]] BY <1>2 DEF Funds!Whole
  <2> QED BY <1>2, <2>1 DEF Joined
<1>5. u > 0 /\ 2 * b <= 2 * u + 4 * c
  <2>1. /\ u <= 0 => DOMAIN new = {}
        /\ u >= 0 => 2 * b <= 2 * u + 4 * c
    BY <1>0, <1>2, <1>3, AdditionsFit
  <2> HIDE DEF u, b, c
  <2> QED BY <1>1, <1>4, <2>1
<1>6. c \in Nat /\ Funds!Cardinality(DOMAIN new) = c
  <2>1. IsFiniteSet(DOMAIN new) BY <1>2, FundsFinite DEF Funds!Whole
  <2>2. \A S : Funds!Cardinality(S) = Cardinality(S) BY DEF Funds!Cardinality, Cardinality
  <2> QED BY <2>1, <2>2, FS_CardinalityType
<1> HIDE DEF u, b, c
<1>7. 2 * (u - b) >= -4 * c BY <1>1, <1>5, <1>6
<1> QED BY <1>1, <1>6, <1>7 DEF Funds!Quantum

LEMMA DrawsStay ==
  ASSUME SchemesAreSound, Funds!IInv PROVE Funds!DrawsStayInTheGoals
<1> SUFFICES ASSUME NEW r \in Funders, Funds!Insert(r), funding[r].kind = "draw", ~funding[r].overtaken,
                    contributions' # contributions
             PROVE  /\ 2 * Funds!Left(income', contributions', fundingDay) <= Funds!Quantum
                    /\ \A id \in DOMAIN funding[r].new :
                          Funds!Balance(contributions', funding[r].new[id].goal, fundingDay) >= 0
  BY DEF Funds!DrawsStayInTheGoals
<1> DEFINE new == funding[r].new
           d == funding[r].day
           u == Funds!Unallocated(d)
           b == Total(AmountsOf(new), DOMAIN new)
<1>0. FundingIsSound BY DEF FundingIsSound, Funds!IInv
<1>1. Funds!Left(income', contributions', fundingDay) = u - b /\ u \in Int /\ b \in Int BY LeftAfterInsert
<1>2. /\ Funds!Current(r) /\ d \in Nat /\ contributions' = Joined(contributions, new) /\ fundingDay \in Nat
      /\ Funds!Whole(contributions, fundingDay) /\ Funds!Whole(new, fundingDay)
      /\ Funds!Whole(contributions, d) /\ Funds!Whole(new, d)
      /\ DOMAIN new \cap DOMAIN contributions = {}
  BY InsertsWhatIsCurrent
<1>3. new = Funds!Draws(d) /\ u < 0 BY <1>2 DEF Funds!Current
<1>4. /\ 2 * b >= 2 * u - 4
      /\ \A id \in DOMAIN new : /\ -new[id].amount <= Funds!Balance(contributions, new[id].goal, d)
                                /\ \A other \in DOMAIN new : new[other].goal = new[id].goal => other = id
  BY <1>0, <1>2, <1>3, DrawsFit
<1>5. 2 * Funds!Left(income', contributions', fundingDay) <= Funds!Quantum
  <2> HIDE DEF u, b
  <2> QED BY <1>1, <1>4 DEF Funds!Quantum
<1>6. ASSUME NEW id \in DOMAIN new PROVE Funds!Balance(contributions', new[id].goal, fundingDay) >= 0
  <2> DEFINE g == new[id].goal
             all == Joined(contributions, new)
             S == {x \in DOMAIN contributions : contributions[x].goal = g}
             before == Total(AmountsOf(contributions), S)
             a == new[id].amount
  <2>1. Funds!Balance(contributions, g, d) = before /\ before \in Int
    <3>1. Funds!Dated(contributions, d) = DOMAIN contributions BY <1>2 DEF Funds!Dated, Funds!Whole
    <3>2. Funds!Balance(contributions, g, d) = Funds!Sum(contributions, S) BY <3>1 DEF Funds!Balance
    <3>3. S \in SUBSET DOMAIN contributions OBVIOUS
    <3> HIDE DEF S, g
    <3> QED BY <1>2, <3>2, <3>3, WholeAmounts
  <2>2. Funds!Whole(all, fundingDay) BY <1>2, JoinedWhole
  <2>3. {x \in DOMAIN all : all[x].goal = g} = S \cup {id}
    <3>1. DOMAIN all = DOMAIN contributions \cup DOMAIN new /\ id \in DOMAIN new BY DEF Joined
    <3>2. \A x \in DOMAIN new : all[x] = new[x] BY DEF Joined
    <3>3. \A x \in DOMAIN contributions : all[x] = contributions[x] BY <1>2 DEF Joined
    <3>4. \A x \in DOMAIN new : new[x].goal = g <=> x = id BY <1>4
    <3> HIDE DEF all, new, g
    <3> QED BY <3>1, <3>2, <3>3, <3>4
  <2>4. Funds!Balance(all, g, fundingDay) = Total(AmountsOf(all), S \cup {id})
    <3>1. Funds!Dated(all, fundingDay) = DOMAIN all BY <2>2 DEF Funds!Dated, Funds!Whole
    <3>2. Funds!Balance(all, g, fundingDay) = Funds!Sum(all, S \cup {id}) BY <2>3, <3>1 DEF Funds!Balance
    <3>3. S \cup {id} \in SUBSET DOMAIN all BY DEF Joined
    <3> HIDE DEF S, g, all
    <3> QED BY <2>2, <3>2, <3>3, WholeAmounts
  <2>5. Total(AmountsOf(all), S \cup {id}) = before + Total(AmountsOf(new), {id})
    <3>1. S \in SUBSET DOMAIN contributions /\ {id} \in SUBSET DOMAIN new OBVIOUS
    <3> HIDE DEF S, g, new, d
    <3> QED BY <1>2, <3>1, JoinedTotal
  <2>6. Total(AmountsOf(new), {id}) = a /\ a \in Int
    <3> HIDE DEF new
    <3>1. IsFiniteSet({id}) /\ AmountsOf(new)[id] = a /\ a \in Int BY <1>2, WholeAmounts, FS_Singleton
    <3>2. \A x \in {id} : AmountsOf(new)[x] \in Int BY <3>1
    <3>3. {id} \ {id} = {} /\ id \in {id} OBVIOUS
    <3>4. Total(AmountsOf(new), {id}) = AmountsOf(new)[id] + Total(AmountsOf(new), {id} \ {id}) BY <3>1, <3>2, <3>3, TotalTakes
    <3>5. Total(AmountsOf(new), {id} \ {id}) = 0
      <4>1. Total(AmountsOf(new), {}) = 0 BY <3>1, <3>2, TotalTakes
      <4> QED BY <3>3, <4>1
    <3>6. a \in Int /\ AmountsOf(new)[id] = a BY <3>1
    <3> HIDE DEF a
    <3>7. Total(AmountsOf(new), {id}) = a BY <3>4, <3>5, <3>6
    <3> QED BY <3>6, <3>7
  <2>7. -a <= before BY <1>4, <2>1
  <2> HIDE DEF before, a
  <2>8. Funds!Balance(all, g, fundingDay) >= 0 BY <2>1, <2>4, <2>5, <2>6, <2>7
  <2> QED BY <1>2, <2>8
<1> QED BY <1>5, <1>6

\* However many runs of one day are computed side by side, the one whose contributions the
\* database takes adds no more than was not allocated, and draws no more than was missing
\* and no goal below zero, but for the rounding of what is stored.
THEOREM FundingStaysInBoundsHolds ==
  ASSUME SchemesAreSound
  PROVE  Funds!Spec => [][Funds!AdditionsStayInThePool /\ Funds!DrawsStayInTheGoals]_(Funds!vars)
<1>1. SchemesAreSound /\ Funds!IInv => [Funds!AdditionsStayInThePool /\ Funds!DrawsStayInTheGoals]_(Funds!vars)
  BY AdditionsStay, DrawsStay
<1> QED BY <1>1, FundsInitInv, FundsStepInv, PTL DEF Funds!Spec
===============================================================================
