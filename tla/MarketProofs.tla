---- MODULE MarketProofs ----
(***************************************************************************)
(* Theorems about the contracts whose participants decide by stakes, votes *)
(* and announced delays: the prediction market, the exchange, and the      *)
(* governance contract with the proxy, in this order.                      *)
(*                                                                         *)
(* PredictionMarket: whatever the markets, the stakes, the fee and the     *)
(* order of claims are, the purse can pay every winner. The argument is    *)
(* that no resolution promises more than was staked: winners share the     *)
(* losing side in proportion to stakes that add up to the winning side,    *)
(* and every part is rounded down.                                         *)
(***************************************************************************)
EXTENDS Dex, PredictionMarket, MCGovernance, Sums, SequenceTheorems

\* What the assumptions on the constants say.
LEMMA ForecastFacts ==
    /\ IsFiniteSet(Forecasters) /\ ForecastAdmin \in Forecasters
    /\ \A x \in TargetArgs : x \in Nat
    /\ \A x \in StakeArgs : x \in Nat
    /\ ForecastFee \in Nat
  BY ForecastConstants

----
\* One market and its stakes

\* The amounts staked on one side.
On(st, d) == [a \in Forecasters |-> IF st[a].direction = d THEN st[a].amount ELSE 0]

\* The totals of a market are what is staked on its sides.
Totalled(f, st) == \A d \in Directions : f.total[d] = SumFunctionOnSet(On(st, d), Forecasters)

Open(s) == s.amount > 0 /\ ~s.claimed
Other(d) == CHOOSE e \in Directions : e # d
Share(f, s) == s.amount + (s.amount * f.total[Other(s.direction)]) \div f.total[s.direction]
Paid(f, s) == LET fee == (Share(f, s) * ForecastFee) \div 10000 IN IF fee > Share(f, s) THEN 0 ELSE Share(f, s) - fee
Claims(f, st) == [a \in Forecasters |-> IF Open(st[a]) /\ f.winner = {st[a].direction} THEN Paid(f, st[a]) ELSE 0]
Owing(f, st) ==
    IF f.winner = {} THEN f.total["Long"] + f.total["Short"] ELSE SumFunctionOnSet(Claims(f, st), Forecasters)

\* The other side of a side.
LEMMA OtherSide == \A d \in Directions : Other(d) \in Directions /\ Other(d) # d /\ Directions = {d, Other(d)}
  BY DEF Directions, Other

\* The fee takes from a share, and never more than all of it (claim_reward).
LEMMA FeeOfShare ==
    ASSUME NEW f, NEW s, Share(f, s) \in Nat
    PROVE  Paid(f, s) \in Nat /\ Paid(f, s) <= Share(f, s)
  BY Products, ForecastFacts, RoundedDown DEF Paid

\* A winner's share, times the winning side, is at most the stake times both sides.
LEMMA ShareOfBoth ==
    ASSUME NEW f \in Forecast, NEW s \in ForecastStake, f.total[s.direction] > 0
    PROVE  /\ Share(f, s) \in Nat
           /\ f.total[s.direction] * Share(f, s) <= (f.total[s.direction] + f.total[Other(s.direction)]) * s.amount
<1> DEFINE x == s.amount
           w == f.total[s.direction]
           l == f.total[Other(s.direction)]
           part == (x * l) \div w
<1>1. s.direction \in Directions /\ Other(s.direction) \in Directions
  BY OtherSide DEF ForecastStake
<1>2. x \in Nat /\ w \in Nat \ {0} /\ l \in Nat
  BY <1>1 DEF Forecast, ForecastStake
<1>3. Share(f, s) = x + part
  BY DEF Share
<1> HIDE DEF x, w, l
<1>4. x * l \in Nat
  BY <1>2, Products
<1>5. part \in Nat /\ w * part <= x * l
  BY <1>2, <1>4, RoundedDown
<1> HIDE DEF part
<1>6. w * (x + part) = w * x + w * part
  BY <1>2, <1>5, Products
<1>7. (w + l) * x = w * x + x * l
  BY <1>2
<1>8. w * x \in Nat /\ w * part \in Nat
  BY <1>2, <1>5, Products
<1>9. w * (x + part) <= (w + l) * x
  BY <1>4, <1>5, <1>6, <1>7, <1>8
<1>a. Share(f, s) \in Nat
  BY <1>2, <1>3, <1>5
<1> QED
  BY <1>3, <1>9, <1>a DEF w, l, x

\* The amounts on a side are numbers, and so is their sum.
LEMMA OnIsNatural ==
    ASSUME NEW st \in [Forecasters -> ForecastStake], NEW d
    PROVE  /\ \A a \in Forecasters : On(st, d)[a] \in Nat /\ On(st, d)[a] <= SumFunctionOnSet(On(st, d), Forecasters)
           /\ SumFunctionOnSet(On(st, d), Forecasters) \in Nat
  BY SumNatural, ForecastFacts DEF On, ForecastStake

\* A side with a stake of its own is not empty.
LEMMA StakedSide ==
    ASSUME NEW f \in Forecast, NEW st \in [Forecasters -> ForecastStake], Totalled(f, st),
           NEW a \in Forecasters, st[a].amount > 0
    PROVE  f.total[st[a].direction] > 0 /\ f.total[st[a].direction] \in Nat
<1>1. st[a] \in ForecastStake
  OBVIOUS
<1>2. st[a].direction \in Directions /\ st[a].amount \in Nat
  BY <1>1 DEF ForecastStake
<1>3. f.total[st[a].direction] = SumFunctionOnSet(On(st, st[a].direction), Forecasters)
  BY <1>2 DEF Totalled
<1>4. On(st, st[a].direction)[a] = st[a].amount
  BY DEF On
<1> QED
  BY <1>2, <1>3, <1>4, OnIsNatural

\* Every claim is a number.
LEMMA ClaimsAreNatural ==
    ASSUME NEW f \in Forecast, NEW st \in [Forecasters -> ForecastStake], Totalled(f, st)
    PROVE  /\ \A a \in Forecasters : Claims(f, st)[a] \in Nat
           /\ SumFunctionOnSet(Claims(f, st), Forecasters) \in Nat
<1>1. ASSUME NEW a \in Forecasters
      PROVE  Claims(f, st)[a] \in Nat
  <2>1. Claims(f, st)[a] = IF Open(st[a]) /\ f.winner = {st[a].direction} THEN Paid(f, st[a]) ELSE 0
    BY DEF Claims
  <2>2. CASE Open(st[a]) /\ f.winner = {st[a].direction}
    BY <2>2, StakedSide, ShareOfBoth, <2>1, FeeOfShare DEF Open
  <2>3. CASE ~(Open(st[a]) /\ f.winner = {st[a].direction})
    BY <2>1, <2>3
  <2> QED
    BY <2>2, <2>3
<1> QED
  BY <1>1, SumNatural, ForecastFacts

\* No resolution promises more than was staked, whoever has claimed already
\* (resolve_market, claim_reward).
LEMMA ClaimsWithinStakes ==
    ASSUME NEW f \in Forecast, NEW st \in [Forecasters -> ForecastStake], Totalled(f, st), NEW d \in Directions,
           f.winner = {d}
    PROVE  SumFunctionOnSet(Claims(f, st), Forecasters) <= f.total[d] + f.total[Other(d)]
<1> DEFINE w == f.total[d]
           l == f.total[Other(d)]
           g == Claims(f, st)
           x == On(st, d)
           none == [a \in Forecasters |-> 0]
           scaled == [a \in Forecasters |-> w * g[a]]
           bound == [a \in Forecasters |-> (w + l) * x[a]]
<1>1. w \in Nat /\ l \in Nat
  BY OtherSide DEF Forecast
<1>2. \A a \in Forecasters : g[a] \in Nat
  BY ClaimsAreNatural
<1>3. \A a \in Forecasters : x[a] \in Nat
  BY OnIsNatural
<1>4. SumFunctionOnSet(x, Forecasters) = w
  BY DEF Totalled
<1>5. ASSUME NEW a \in Forecasters
      PROVE  w * g[a] <= (w + l) * x[a]
  <2>1. g[a] = IF Open(st[a]) /\ f.winner = {st[a].direction} THEN Paid(f, st[a]) ELSE 0
    BY DEF Claims
  <2>2. CASE Open(st[a]) /\ f.winner = {st[a].direction}
    <3>1. st[a].amount > 0 /\ st[a] \in ForecastStake /\ st[a].direction = d
      BY <2>2 DEF Open
    <3>2. w > 0
      BY <3>1, StakedSide
    <3>3. Share(f, st[a]) \in Nat /\ w * Share(f, st[a]) <= (w + l) * st[a].amount
      BY <3>1, <3>2, ShareOfBoth
    <3>4. g[a] \in Nat /\ g[a] <= Share(f, st[a])
      BY <2>1, <2>2, <3>3, FeeOfShare
    <3>5. x[a] = st[a].amount
      BY <3>1 DEF On
    <3> HIDE DEF w, l, g, x
    <3>6. w * g[a] <= w * Share(f, st[a])
      BY <1>1, <3>3, <3>4, Products
    <3>7. w * g[a] \in Nat /\ w * Share(f, st[a]) \in Nat /\ (w + l) * x[a] \in Nat
      BY <1>1, <1>3, <3>3, <3>4, Products
    <3> QED
      BY <3>3, <3>5, <3>6, <3>7
  <2>3. CASE ~(Open(st[a]) /\ f.winner = {st[a].direction})
    BY <2>1, <2>3, <1>1, <1>3, Products
  <2> QED
    BY <2>2, <2>3
<1> HIDE DEF w, l, g, x
<1>6. SumFunctionOnSet(none, Forecasters) = 0
  BY SumZero, ForecastFacts
<1>7. SumFunctionOnSet(g, Forecasters) \in Nat
  BY <1>2, SumNatural, ForecastFacts
<1>8. SumFunctionOnSet(scaled, Forecasters) = w * SumFunctionOnSet(g, Forecasters)
  <2>1. \A a \in Forecasters : none[a] \in Int /\ g[a] \in Int /\ scaled[a] = none[a] + w * g[a]
    <3> SUFFICES ASSUME NEW a \in Forecasters
                 PROVE  none[a] \in Int /\ g[a] \in Int /\ scaled[a] = none[a] + w * g[a]
      OBVIOUS
    <3>1. none[a] = 0 /\ scaled[a] = w * g[a] /\ g[a] \in Int
      BY <1>2
    <3> HIDE DEF scaled, none
    <3>2. w * g[a] \in Int
      BY <1>1, <3>1, Products
    <3> QED
      BY <3>1, <3>2
  <2> HIDE DEF scaled, none
  <2>2. SumFunctionOnSet(scaled, Forecasters) = SumFunctionOnSet(none, Forecasters) + w * SumFunctionOnSet(g, Forecasters)
    BY <1>1, <2>1, SumLinear, ForecastFacts
  <2> QED
    BY <1>1, <1>6, <1>7, <2>2, Products
<1>9. SumFunctionOnSet(bound, Forecasters) = (w + l) * w
  <2>1. w + l \in Int
    BY <1>1
  <2>2. \A a \in Forecasters : none[a] \in Int /\ x[a] \in Int /\ bound[a] = none[a] + (w + l) * x[a]
    BY <1>3, <2>1, Products
  <2> HIDE DEF bound, none
  <2>3. SumFunctionOnSet(bound, Forecasters) = SumFunctionOnSet(none, Forecasters) + (w + l) * SumFunctionOnSet(x, Forecasters)
    BY <2>1, <2>2, SumLinear, ForecastFacts
  <2> QED
    BY <1>1, <1>4, <1>6, <2>1, <2>3, Products
<1>a. SumFunctionOnSet(scaled, Forecasters) <= SumFunctionOnSet(bound, Forecasters)
  <2>1. \A a \in Forecasters : scaled[a] \in Int /\ bound[a] \in Int /\ scaled[a] <= bound[a]
    BY <1>1, <1>2, <1>3, <1>5, Products
  <2> HIDE DEF scaled, bound
  <2> QED
    BY <2>1, SumMonotone, ForecastFacts
<1> HIDE DEF scaled, bound, none
<1>b. w * SumFunctionOnSet(g, Forecasters) <= w * (w + l)
  BY <1>1, <1>8, <1>9, <1>a
<1>c. CASE w = 0
  <2>1. \A a \in Forecasters : g[a] = 0
    BY <1>c, StakedSide DEF g, Claims, Open, w
  <2>2. SumFunctionOnSet(g, Forecasters) = 0
    BY <2>1, SumZero, ForecastFacts
  <2> QED
    BY <1>1, <2>2 DEF g, w, l
<1>d. CASE w # 0
  BY <1>1, <1>7, <1>b, <1>d, Products DEF g, w, l
<1> QED
  BY <1>c, <1>d

----
\* All markets and the purse

\* What a market owes is a number.
LEMMA OwingIsNatural ==
    ASSUME NEW f \in Forecast, NEW st \in [Forecasters -> ForecastStake], Totalled(f, st)
    PROVE  Owing(f, st) \in Nat
  BY ClaimsAreNatural DEF Forecast, Directions, Owing

Owings(fs, sts) == [m \in DOMAIN fs |-> Owing(fs[m], sts[m])]
Covered(fs, sts, money) == money >= SumFunctionOnSet(Owings(fs, sts), DOMAIN fs)

MarketsGood(fs, sts) ==
    /\ fs \in Seq(Forecast) /\ sts \in Seq([Forecasters -> ForecastStake]) /\ Len(sts) = Len(fs)
    /\ \A m \in DOMAIN fs : Totalled(fs[m], sts[m])

StandingsGood ==
    /\ reputation \in [Forecasters -> [total : Nat, successful : Nat]]
    /\ forecastOracle \subseteq Forecasters /\ Cardinality(forecastOracle) <= 1

PurseInv ==
    /\ MarketsGood(forecasts, forecastStakes)
    /\ purse \in Nat /\ Covered(forecasts, forecastStakes, purse)

\* What the property calls due is what a market owes.
LEMMA DuesAre ==
    /\ PurseCoversClaims <=> ForecastTypeOK /\ Covered(forecasts, forecastStakes, purse)
    /\ \A m, a : Winnings(m, a) = Paid(forecasts[m], forecastStakes[m][a])
<1>1. \A m, a : Winnings(m, a) = Paid(forecasts[m], forecastStakes[m][a])
  BY DEF Winnings, Paid, Share, Other
<1>2. \A m : Due(m) = Owing(forecasts[m], forecastStakes[m])
  BY <1>1 DEF Claimable, Open, Claims, Due, Owing
<1> QED
  BY <1>1, <1>2 DEF PurseCoversClaims, Covered, Owings

\* The sums of markets are over finitely many numbers.
LEMMA MarketsAreFinite ==
    ASSUME NEW fs, NEW sts, MarketsGood(fs, sts)
    PROVE  /\ DOMAIN fs = 1..Len(fs) /\ DOMAIN sts = DOMAIN fs /\ Len(fs) \in Nat /\ IsFiniteSet(DOMAIN fs)
           /\ \A m \in DOMAIN fs : /\ fs[m] \in Forecast /\ sts[m] \in [Forecasters -> ForecastStake]
                                   /\ Owings(fs, sts)[m] = Owing(fs[m], sts[m]) /\ Owings(fs, sts)[m] \in Nat
           /\ SumFunctionOnSet(Owings(fs, sts), DOMAIN fs) \in Nat
<1>1. DOMAIN fs = 1..Len(fs) /\ DOMAIN sts = DOMAIN fs /\ Len(fs) \in Nat
  BY LenProperties DEF MarketsGood
<1>2. IsFiniteSet(DOMAIN fs)
  BY <1>1, FS_Interval
<1>3. \A m \in DOMAIN fs : fs[m] \in Forecast /\ sts[m] \in [Forecasters -> ForecastStake]
  BY <1>1, ElementOfSeq DEF MarketsGood
<1>4. \A m \in DOMAIN fs : Owings(fs, sts)[m] = Owing(fs[m], sts[m]) /\ Owings(fs, sts)[m] \in Nat
  BY <1>3, OwingIsNatural DEF Owings, MarketsGood
<1> QED
  BY <1>1, <1>2, <1>3, <1>4, SumNatural

\* Where one market differs, and the purse by no less than what it owes, the purse
\* stays covered.
LEMMA OneMarketCovered ==
    ASSUME NEW fs, NEW sts, NEW money \in Nat, MarketsGood(fs, sts), Covered(fs, sts, money), NEW m \in DOMAIN fs,
           NEW gs, NEW rst, NEW left \in Nat, MarketsGood(gs, rst), DOMAIN gs = DOMAIN fs,
           \A k \in DOMAIN fs \ {m} : gs[k] = fs[k] /\ rst[k] = sts[k],
           left - Owing(gs[m], rst[m]) >= money - Owing(fs[m], sts[m])
    PROVE  Covered(gs, rst, left)
<1> DEFINE old == Owings(fs, sts)
           new == Owings(gs, rst)
<1>1. /\ IsFiniteSet(DOMAIN fs)
      /\ \A k \in DOMAIN fs : old[k] = Owing(fs[k], sts[k]) /\ old[k] \in Nat
      /\ SumFunctionOnSet(old, DOMAIN fs) \in Nat
  BY MarketsAreFinite
<1>2. \A k \in DOMAIN gs : new[k] = Owing(gs[k], rst[k]) /\ new[k] \in Nat
  BY MarketsAreFinite
<1>3. money >= SumFunctionOnSet(old, DOMAIN fs)
  BY DEF Covered
<1> HIDE DEF old, new
<1>4. \A k \in DOMAIN fs \ {m} : old[k] = new[k]
  BY <1>1, <1>2
<1>5. \A k \in DOMAIN fs : old[k] \in Int /\ new[k] \in Int
  BY <1>1, <1>2
<1>6. SumFunctionOnSet(new, DOMAIN fs) = SumFunctionOnSet(old, DOMAIN fs) - old[m] + new[m]
  BY <1>1, <1>4, <1>5, SumChange
<1>7. /\ old[m] = Owing(fs[m], sts[m]) /\ new[m] = Owing(gs[m], rst[m])
      /\ old[m] \in Nat /\ new[m] \in Nat
  BY <1>1, <1>2
<1>8. left >= SumFunctionOnSet(new, DOMAIN fs)
  BY <1>1, <1>3, <1>6, <1>7
<1> QED
  BY <1>8 DEF Covered, new

\* A message that changes one market keeps all of them well formed.
LEMMA OneMarketKeeps ==
    ASSUME NEW fs, NEW sts, MarketsGood(fs, sts), NEW m \in DOMAIN fs,
           NEW f \in Forecast, NEW st \in [Forecasters -> ForecastStake], Totalled(f, st)
    PROVE  LET gs == [fs EXCEPT ![m] = f]
               rst == [sts EXCEPT ![m] = st]
           IN  /\ MarketsGood(gs, rst) /\ DOMAIN gs = DOMAIN fs /\ gs[m] = f /\ rst[m] = st
               /\ \A k \in DOMAIN fs \ {m} : gs[k] = fs[k] /\ rst[k] = sts[k]
<1> DEFINE gs == [fs EXCEPT ![m] = f]
           rst == [sts EXCEPT ![m] = st]
<1>0. DOMAIN fs = 1..Len(fs) /\ DOMAIN sts = DOMAIN fs /\ Len(fs) \in Nat
  BY MarketsAreFinite
<1>1. gs \in Seq(Forecast) /\ Len(gs) = Len(fs) /\ rst \in Seq([Forecasters -> ForecastStake]) /\ Len(rst) = Len(fs)
  BY <1>0, ExceptSeq DEF MarketsGood
<1>2. DOMAIN gs = DOMAIN fs /\ gs[m] = f /\ rst[m] = st /\ \A k \in DOMAIN fs \ {m} : gs[k] = fs[k] /\ rst[k] = sts[k]
  BY <1>0
<1>3. MarketsGood(gs, rst)
  BY <1>2, <1>1 DEF MarketsGood
<1> QED
  BY <1>2, <1>3

\* A new market owes nothing (create_market, create_oracle_market).
LEMMA CreateKeeps ==
    ASSUME PurseInv, NEW caller, NEW byOracle \in BOOLEAN, NEW target \in Nat, NEW end \in Nat,
           CreateForecast(caller, byOracle, target, end)
    PROVE  PurseInv'
<1> DEFINE f == [byOracle |-> byOracle, target |-> target, end |-> end, total |-> [d \in Directions |-> 0], winner |-> {}]
           st == [a \in Forecasters |-> NoForecastStake]
           fs == forecasts
           sts == forecastStakes
           gs == Append(forecasts, f)
           rst == Append(forecastStakes, st)
           n == Len(forecasts) + 1
<1>1. forecasts' = gs /\ forecastStakes' = rst /\ purse' = purse
  BY DEF CreateForecast
<1>2. f \in Forecast /\ st \in [Forecasters -> ForecastStake]
  BY DEF Forecast, ForecastStake, NoForecastStake, Directions
<1>3. Totalled(f, st)
  BY SumZero, ForecastFacts DEF Totalled, On, NoForecastStake
<1>4. Owing(f, st) = 0
  BY DEF Owing, Directions
<1>5. /\ DOMAIN fs = 1..Len(fs) /\ DOMAIN sts = DOMAIN fs /\ Len(fs) \in Nat /\ IsFiniteSet(DOMAIN fs)
      /\ SumFunctionOnSet(Owings(fs, sts), DOMAIN fs) \in Nat
      /\ \A m \in DOMAIN fs : Owings(fs, sts)[m] = Owing(fs[m], sts[m])
  BY MarketsAreFinite DEF PurseInv
<1> HIDE DEF f, st
<1>6. /\ gs \in Seq(Forecast) /\ Len(gs) = n /\ rst \in Seq([Forecasters -> ForecastStake]) /\ Len(rst) = n
      /\ gs[n] = f /\ rst[n] = st /\ DOMAIN gs = 1..n
      /\ \A m \in DOMAIN fs : gs[m] = fs[m] /\ rst[m] = sts[m]
  BY <1>2, <1>5, AppendProperties, LenProperties DEF PurseInv, MarketsGood
<1>7. DOMAIN gs = DOMAIN fs \cup {n} /\ n \notin DOMAIN fs
  BY <1>5, <1>6
<1>8. MarketsGood(gs, rst)
  BY <1>3, <1>6, <1>7 DEF PurseInv, MarketsGood
<1>9. /\ \A m \in DOMAIN gs : Owings(gs, rst)[m] = Owing(gs[m], rst[m]) /\ Owings(gs, rst)[m] \in Nat
  BY <1>8, MarketsAreFinite
<1> DEFINE old == Owings(fs, sts)
           new == Owings(gs, rst)
<1>a. new[n] = 0 /\ (\A m \in DOMAIN fs : old[m] = new[m]) /\ \A m \in DOMAIN fs \cup {n} : new[m] \in Int
  BY <1>4, <1>5, <1>6, <1>7, <1>9
<1>b. SumFunctionOnSet(new, DOMAIN gs) = SumFunctionOnSet(old, DOMAIN fs)
  <2> HIDE DEF old, new, gs, n
  <2>1. SumFunctionOnSet(new, DOMAIN fs \cup {n}) = SumFunctionOnSet(new, DOMAIN fs) + new[n]
    BY <1>5, <1>7, <1>a, SumAdd
  <2>2. SumFunctionOnSet(old, DOMAIN fs) = SumFunctionOnSet(new, DOMAIN fs)
    BY <1>5, <1>a, SumSame
  <2>3. SumFunctionOnSet(old, DOMAIN fs) \in Nat
    BY <1>5 DEF old
  <2> QED
    BY <1>7, <1>a, <2>1, <2>2, <2>3
<1>c. Covered(gs, rst, purse)
  BY <1>b DEF PurseInv, Covered
<1> QED
  BY <1>1, <1>8, <1>c DEF PurseInv

\* The two together, of the market m that becomes f with the stakes st.
LEMMA OneMarketMoves ==
    ASSUME NEW fs, NEW sts, NEW money \in Nat, MarketsGood(fs, sts), Covered(fs, sts, money), NEW m \in DOMAIN fs,
           NEW f \in Forecast, NEW st \in [Forecasters -> ForecastStake], Totalled(f, st), NEW left \in Nat,
           left - Owing(f, st) >= money - Owing(fs[m], sts[m])
    PROVE  /\ MarketsGood([fs EXCEPT ![m] = f], [sts EXCEPT ![m] = st])
           /\ Covered([fs EXCEPT ![m] = f], [sts EXCEPT ![m] = st], left)
<1> DEFINE gs == [fs EXCEPT ![m] = f]
           rst == [sts EXCEPT ![m] = st]
<1>1. /\ MarketsGood(gs, rst) /\ DOMAIN gs = DOMAIN fs /\ gs[m] = f /\ rst[m] = st
      /\ \A k \in DOMAIN fs \ {m} : gs[k] = fs[k] /\ rst[k] = sts[k]
  BY OneMarketKeeps
<1> HIDE DEF gs, rst
<1>2. left - Owing(gs[m], rst[m]) >= money - Owing(fs[m], sts[m])
  BY <1>1
<1>3. Covered(gs, rst, left)
  BY <1>1, <1>2, OneMarketCovered
<1> QED
  BY <1>1, <1>3 DEF gs, rst

\* The same of a message.
LEMMA MarketMoves ==
    ASSUME PurseInv, NEW m \in DOMAIN forecasts, NEW f \in Forecast, NEW st \in [Forecasters -> ForecastStake],
           Totalled(f, st), NEW left \in Nat, left - Owing(f, st) >= purse - Owing(forecasts[m], forecastStakes[m]),
           forecasts' = [forecasts EXCEPT ![m] = f], forecastStakes' = [forecastStakes EXCEPT ![m] = st], purse' = left
    PROVE  PurseInv'
<1>1. MarketsGood(forecasts, forecastStakes) /\ purse \in Nat /\ Covered(forecasts, forecastStakes, purse)
  BY DEF PurseInv
<1>2. /\ MarketsGood([forecasts EXCEPT ![m] = f], [forecastStakes EXCEPT ![m] = st])
      /\ Covered([forecasts EXCEPT ![m] = f], [forecastStakes EXCEPT ![m] = st], left)
  BY <1>1, OneMarketMoves
<1> QED
  BY <1>2 DEF PurseInv

\* What the invariant says of one market.
LEMMA OneMarketIs ==
    ASSUME PurseInv, NEW m \in DOMAIN forecasts
    PROVE  /\ forecasts[m] \in Forecast /\ forecastStakes[m] \in [Forecasters -> ForecastStake]
           /\ Totalled(forecasts[m], forecastStakes[m]) /\ Owing(forecasts[m], forecastStakes[m]) \in Nat
           /\ m \in DOMAIN forecastStakes /\ purse \in Nat
  BY MarketsAreFinite, OwingIsNatural DEF PurseInv, MarketsGood

\* A stake is added to its side and to the purse (stake_prediction, stake_oracle_market).
LEMMA StakeKeeps ==
    ASSUME PurseInv, NEW caller \in Forecasters, NEW m \in DOMAIN forecasts, NEW direction \in Directions,
           NEW amount \in Nat, StakeForecast(caller, m, direction, amount)
    PROVE  PurseInv'
<1> DEFINE f == forecasts[m]
           st == forecastStakes[m]
           s == st[caller]
           more == [amount |-> s.amount + amount, direction |-> direction, claimed |-> s.claimed]
           g == [f EXCEPT !.total = [f.total EXCEPT ![direction] = f.total[direction] + amount]]
           rs == [st EXCEPT ![caller] = more]
<1>1. /\ f \in Forecast /\ st \in [Forecasters -> ForecastStake] /\ Totalled(f, st) /\ Owing(f, st) \in Nat
      /\ m \in DOMAIN forecastStakes /\ purse \in Nat
  BY OneMarketIs
<1>2. s \in ForecastStake
  BY <1>1
<1>4. /\ f.winner = {} /\ (s.amount > 0 => s.direction = direction) /\ purse' = purse + amount
      /\ forecastStakes' = [forecastStakes EXCEPT ![m] = rs] /\ forecasts' = [forecasts EXCEPT ![m] = g]
  BY DEF StakeForecast
<1>5. more \in ForecastStake
  BY <1>2 DEF ForecastStake
<1>6. rs \in [Forecasters -> ForecastStake] /\ rs[caller] = more /\ \A a \in Forecasters \ {caller} : rs[a] = st[a]
  BY <1>1, <1>5
<1>7. /\ g \in Forecast /\ g.winner = f.winner /\ g.total[direction] = f.total[direction] + amount
      /\ \A d \in Directions \ {direction} : g.total[d] = f.total[d]
  BY <1>1 DEF Forecast
<1>8. s.amount \in Nat /\ s.direction \in Directions
  BY <1>2 DEF ForecastStake
<1>9. /\ more.amount = s.amount + amount /\ more.direction = direction
  OBVIOUS
<1>a. Totalled(g, rs)
  <2> SUFFICES ASSUME NEW d \in Directions
               PROVE  g.total[d] = SumFunctionOnSet(On(rs, d), Forecasters)
    BY DEF Totalled
  <2> DEFINE x == On(st, d)
             y == On(rs, d)
  <2>1. (\A a \in Forecasters : x[a] \in Nat /\ y[a] \in Nat) /\ SumFunctionOnSet(x, Forecasters) \in Nat
    BY <1>1, <1>6, OnIsNatural
  <2>2. \A a \in Forecasters \ {caller} : x[a] = y[a]
    BY <1>6 DEF On
  <2>3. f.total[d] = SumFunctionOnSet(x, Forecasters)
    BY <1>1 DEF Totalled
  <2>4. x[caller] = (IF s.direction = d THEN s.amount ELSE 0) /\ y[caller] = (IF direction = d THEN s.amount + amount ELSE 0)
    BY <1>6, <1>9 DEF On
  <2> HIDE DEF x, y
  <2>5. SumFunctionOnSet(y, Forecasters) = SumFunctionOnSet(x, Forecasters) - x[caller] + y[caller]
    BY <2>1, <2>2, SumChange, ForecastFacts
  <2>6. CASE d = direction
    BY <1>4, <1>8, <2>4, <2>6, <1>7, <2>1, <2>3, <2>5 DEF y
  <2>7. CASE d # direction
    BY <1>4, <1>8, <2>4, <2>7, <1>7, <2>1, <2>3, <2>5 DEF y
  <2> QED
    BY <2>6, <2>7
<1>b. Owing(g, rs) = Owing(f, st) + amount
  BY <1>4, <1>7, <1>1 DEF Owing, Forecast, Directions
<1> HIDE DEF g, rs, more, s
<1>c. purse + amount \in Nat /\ (purse + amount) - Owing(g, rs) >= purse - Owing(f, st)
  BY <1>1, <1>b
<1> QED
  BY <1>4, <1>6, <1>7, <1>a, <1>c, MarketMoves

\* A resolution promises no more than was staked (resolve_market, submit_oracle_data).
LEMMA ResolveKeeps ==
    ASSUME PurseInv, NEW caller, NEW m \in DOMAIN forecasts, NEW value, ResolveForecast(caller, m, value)
    PROVE  PurseInv'
<1> DEFINE f == forecasts[m]
           st == forecastStakes[m]
           d == IF value >= f.target THEN "Long" ELSE "Short"
           g == [f EXCEPT !.winner = {d}]
<1>1. /\ f \in Forecast /\ st \in [Forecasters -> ForecastStake] /\ Totalled(f, st) /\ Owing(f, st) \in Nat
      /\ m \in DOMAIN forecastStakes /\ purse \in Nat
  BY OneMarketIs
<1>2. /\ f.winner = {} /\ purse' = purse /\ forecastStakes' = forecastStakes
      /\ forecasts' = [forecasts EXCEPT ![m] = g]
  BY DEF ResolveForecast
<1>3. d \in Directions
  BY DEF Directions
<1> HIDE DEF d
<1>4. g \in Forecast /\ g.winner = {d} /\ g.total = f.total
  BY <1>1, <1>3 DEF Forecast
<1>5. Totalled(g, st)
  BY <1>1, <1>4 DEF Totalled
<1>6. Owing(f, st) = f.total["Long"] + f.total["Short"]
  BY <1>2 DEF Owing
<1>7. Owing(g, st) = SumFunctionOnSet(Claims(g, st), Forecasters)
  BY <1>4 DEF Owing
<1>8. SumFunctionOnSet(Claims(g, st), Forecasters) <= g.total[d] + g.total[Other(d)]
  BY <1>1, <1>3, <1>4, <1>5, ClaimsWithinStakes
<1>9. g.total[d] + g.total[Other(d)] = f.total["Long"] + f.total["Short"]
  BY <1>1, <1>3, OtherSide, <1>4 DEF Forecast, Directions
<1>a. forecastStakes' = [forecastStakes EXCEPT ![m] = st]
  BY <1>1, <1>2 DEF PurseInv, MarketsGood
<1>b. Owing(g, st) \in Nat
  BY <1>1, <1>4, <1>5, OwingIsNatural
<1> HIDE DEF g
<1>c. purse - Owing(g, st) >= purse - Owing(f, st)
  BY <1>1, <1>6, <1>7, <1>8, <1>9, <1>b
<1> QED
  BY <1>1, <1>2, <1>4, <1>5, <1>a, <1>c, MarketMoves

\* A claim takes from the purse what the winner was owed (claim_reward, claim_winnings).
LEMMA ClaimKeeps ==
    ASSUME PurseInv, NEW caller \in Forecasters, NEW m \in DOMAIN forecasts, ClaimForecast(caller, m)
    PROVE  PurseInv'
<1> DEFINE f == forecasts[m]
           st == forecastStakes[m]
           s == st[caller]
           done == [s EXCEPT !.claimed = TRUE]
           rs == [st EXCEPT ![caller] = done]
           pay == Paid(f, s)
<1>1. /\ f \in Forecast /\ st \in [Forecasters -> ForecastStake] /\ Totalled(f, st) /\ Owing(f, st) \in Nat
      /\ m \in DOMAIN forecastStakes /\ purse \in Nat
  BY OneMarketIs
<1>2. s \in ForecastStake
  BY <1>1
<1>3. /\ Open(s) /\ f.winner = {s.direction} /\ purse >= pay /\ purse' = purse - pay
      /\ forecastStakes' = [forecastStakes EXCEPT ![m] = rs] /\ forecasts' = forecasts
  BY DuesAre DEF ClaimForecast, Claimable, Open
<1>4. done \in ForecastStake /\ done.amount = s.amount /\ done.direction = s.direction /\ done.claimed = TRUE
  BY <1>2 DEF ForecastStake
<1> HIDE DEF done
<1>5. rs \in [Forecasters -> ForecastStake] /\ rs[caller] = done /\ \A a \in Forecasters \ {caller} : rs[a] = st[a]
  BY <1>1, <1>4
<1> HIDE DEF rs
<1>6. Totalled(f, rs)
  BY <1>4, <1>5, SumSame, ForecastFacts, <1>1 DEF Totalled, On
<1> DEFINE x == Claims(f, st)
           y == Claims(f, rs)
<1>7. (\A a \in Forecasters : x[a] \in Nat) /\ SumFunctionOnSet(x, Forecasters) \in Nat
  BY <1>1, ClaimsAreNatural
<1>8. \A a \in Forecasters : y[a] \in Nat
  BY <1>1, <1>5, <1>6, ClaimsAreNatural
<1>9. x[caller] = pay /\ y[caller] = 0 /\ \A a \in Forecasters \ {caller} : x[a] = y[a]
  BY <1>4, <1>5, <1>3 DEF Open, Claims
<1>a. Owing(f, st) = SumFunctionOnSet(x, Forecasters) /\ Owing(f, rs) = SumFunctionOnSet(y, Forecasters)
  BY <1>3 DEF Owing
<1> HIDE DEF x, y, pay
<1>b. SumFunctionOnSet(y, Forecasters) = SumFunctionOnSet(x, Forecasters) - x[caller] + y[caller]
  BY <1>7, <1>8, <1>9, SumChange, ForecastFacts
<1>c. pay \in Nat
  BY <1>7, <1>9
<1>d. purse - pay \in Nat /\ (purse - pay) - Owing(f, rs) >= purse - Owing(f, st)
  BY <1>1, <1>3, <1>7, <1>9, <1>a, <1>b, <1>c
<1>e. forecasts' = [forecasts EXCEPT ![m] = f]
  BY <1>3 DEF PurseInv, MarketsGood
<1> QED
  BY <1>1, <1>3, <1>5, <1>6, <1>d, <1>e, MarketMoves

\* At first there is no market and nothing is owed.
LEMMA PurseInvInit == ForecastInit => PurseInv
  BY SumEmpty DEF ForecastInit, MarketsGood, PurseInv, Covered

\* The invariant of the purse is inductive.
LEMMA PurseInvStep ==
    ASSUME PurseInv, [ForecastNext \/ (NextBlock /\ UNCHANGED forecastVars)]_<<block, forecastVars>>
    PROVE  PurseInv'
<1>1. CASE ForecastNext
  <2> PICK a \in Forecasters :
        \/ \E b \in Forecasters : SetForecastOracle(a, b)
        \/ \E byOracle \in BOOLEAN, target \in TargetArgs, end \in 1..MaxBlock :
              CreateForecast(a, byOracle, target, end)
        \/ \E m \in DOMAIN forecasts :
              \/ \E direction \in Directions, amount \in StakeArgs : StakeForecast(a, m, direction, amount)
              \/ \E value \in TargetArgs : ResolveForecast(a, m, value)
              \/ ClaimForecast(a, m)
    BY <1>1 DEF ForecastNext
  <2>1. ASSUME NEW b \in Forecasters, SetForecastOracle(a, b)
        PROVE  PurseInv'
    BY <2>1 DEF SetForecastOracle, PurseInv
  <2>2. ASSUME NEW byOracle \in BOOLEAN, NEW target \in TargetArgs, NEW end \in 1..MaxBlock,
               CreateForecast(a, byOracle, target, end)
        PROVE  PurseInv'
    BY ForecastFacts, <2>2, CreateKeeps
  <2>3. ASSUME NEW m \in DOMAIN forecasts, NEW direction \in Directions, NEW amount \in StakeArgs,
               StakeForecast(a, m, direction, amount)
        PROVE  PurseInv'
    BY <2>3, StakeKeeps, ForecastFacts
  <2>4. ASSUME NEW m \in DOMAIN forecasts, NEW value \in TargetArgs, ResolveForecast(a, m, value)
        PROVE  PurseInv'
    BY <2>4, ResolveKeeps
  <2>5. ASSUME NEW m \in DOMAIN forecasts, ClaimForecast(a, m)
        PROVE  PurseInv'
    BY <2>5, ClaimKeeps
  <2> QED
    BY <2>1, <2>2, <2>3, <2>4, <2>5
<1>2. CASE UNCHANGED forecastVars
  BY <1>2 DEF forecastVars, PurseInv
<1> QED
  BY <1>1, <1>2 DEF forecastVars

\* Reputations count, and there is one oracle at most (set_oracle, claim_reward).
LEMMA StandingsKeep ==
    /\ ForecastInit => StandingsGood
    /\ StandingsGood /\ [ForecastNext \/ (NextBlock /\ UNCHANGED forecastVars)]_<<block, forecastVars>> => StandingsGood'
<1>1. ForecastInit => StandingsGood
  BY FS_EmptySet DEF ForecastInit, StandingsGood
<1>2. ASSUME StandingsGood, NEW a \in Forecasters, NEW b \in Forecasters, SetForecastOracle(a, b)
      PROVE  StandingsGood'
  <2>1. Cardinality({b}) = 1
    BY FS_Singleton
  <2> QED
    BY <1>2, <2>1 DEF SetForecastOracle, StandingsGood
<1>3. ASSUME NEW a, NEW byOracle, NEW target, NEW end, CreateForecast(a, byOracle, target, end)
      PROVE  UNCHANGED <<reputation, forecastOracle>>
  BY <1>3, Zenon DEF CreateForecast
<1>4. ASSUME NEW a, NEW m, NEW direction, NEW amount, StakeForecast(a, m, direction, amount)
      PROVE  UNCHANGED <<reputation, forecastOracle>>
  BY <1>4, Zenon DEF StakeForecast
<1>5. ASSUME NEW a, NEW m, NEW value, ResolveForecast(a, m, value)
      PROVE  UNCHANGED <<reputation, forecastOracle>>
  BY <1>5, Zenon DEF ResolveForecast
<1>6. ASSUME StandingsGood, NEW a \in Forecasters, NEW m, ClaimForecast(a, m)
      PROVE  StandingsGood'
  BY <1>6 DEF ClaimForecast, StandingsGood
<1>7. ASSUME StandingsGood, UNCHANGED <<reputation, forecastOracle>>
      PROVE  StandingsGood'
  BY <1>7 DEF StandingsGood
<1>8. ASSUME StandingsGood, ForecastNext
      PROVE  StandingsGood'
  BY <1>8, <1>2, <1>3, <1>4, <1>5, <1>6, <1>7, Zenon DEF ForecastNext
<1>9. ASSUME UNCHANGED forecastVars
      PROVE  UNCHANGED <<reputation, forecastOracle>>
  BY <1>9 DEF forecastVars
<1> QED
  BY <1>1, <1>7, <1>8, <1>9

\* The invariants hold the types of markets, stakes, oracle and reputations.
LEMMA ForecastTypes == PurseInv /\ StandingsGood => ForecastTypeOK
<1> SUFFICES ASSUME PurseInv, StandingsGood
             PROVE  ForecastTypeOK
  OBVIOUS
<1>1. forecasts \in Seq(Forecast) /\ purse \in Nat
  BY DEF PurseInv, MarketsGood
<1>2. forecastStakes \in [DOMAIN forecasts -> [Forecasters -> ForecastStake]]
  BY MarketsAreFinite DEF PurseInv, MarketsGood
<1> QED
  BY <1>1, <1>2 DEF ForecastTypeOK, StandingsGood

\* Whatever is staked, resolved and claimed in whatever order, the purse covers all
\* stakes of open markets and every winner's claim of the resolved ones
\* (stake_prediction, resolve_market, claim_reward and their oracle's counterparts).
THEOREM PurseAlwaysCovers == ForecastSpec => []PurseCoversClaims
<1>1. PurseInv /\ StandingsGood => PurseCoversClaims
  BY DuesAre, ForecastTypes DEF PurseInv
<1>2. ChainInit /\ ForecastInit => PurseInv /\ StandingsGood
  BY PurseInvInit, StandingsKeep
<1>3. /\ PurseInv /\ StandingsGood
      /\ [ForecastNext \/ (NextBlock /\ UNCHANGED forecastVars)]_<<block, forecastVars>>
      => (PurseInv /\ StandingsGood)'
  BY PurseInvStep, StandingsKeep
<1> QED
  BY <1>1, <1>2, <1>3, PTL DEF ForecastSpec

----
(***************************************************************************)
(* The exchange's timelock. Its settings and announced actions are changed *)
(* by the admin's messages only, so that a step that changes a setting     *)
(* while the timelock is in force executes an announced action.            *)
(***************************************************************************)

\* No message about pools, orders and trades touches the admin's settings (dex/src/lib.rs).
LEMMA TradingKeepsSettings == PoolNext \/ OrderNext \/ TradeNext => UNCHANGED dexAdminVars
<1>1. ASSUME NEW a, NEW base, NEW quote, NEW fee, NEW baseIn, NEW quoteIn,
             CreatePool(a, base, quote, fee, baseIn, quoteIn)
      PROVE  UNCHANGED dexAdminVars
  BY <1>1, Zenon DEF CreatePool
<1>2. ASSUME NEW a, NEW p, NEW pair, NEW shares, SetLiquidity(a, p, pair, shares)
      PROVE  UNCHANGED dexAdminVars
  BY <1>2, Zenon DEF SetLiquidity
<1>3. ASSUME NEW a, NEW p, NEW baseIn, NEW quoteIn, DexAddLiquidity(a, p, baseIn, quoteIn)
      PROVE  UNCHANGED dexAdminVars
  BY <1>2, <1>3, Zenon DEF DexAddLiquidity
<1>4. ASSUME NEW a, NEW p, NEW shares, DexRemoveLiquidity(a, p, shares)
      PROVE  UNCHANGED dexAdminVars
  BY <1>2, <1>4, Zenon DEF DexRemoveLiquidity
<1>5. ASSUME NEW a, NEW p, ClaimLiquidityRewards(a, p)
      PROVE  UNCHANGED dexAdminVars
  BY <1>5, Zenon DEF ClaimLiquidityRewards
<1>6. ASSUME NEW a, NEW p, NEW side, NEW amount, SwapExact(a, p, side, amount)
      PROVE  UNCHANGED dexAdminVars
  BY <1>6, Zenon DEF SwapExact
<1>7. ASSUME NEW p, NEW book, SetBook(p, book)
      PROVE  UNCHANGED dexAdminVars
  BY <1>7, Zenon DEF SetBook
<1>8. ASSUME NEW a, NEW p, NEW side, NEW kind, NEW price, NEW trigger, NEW amount,
             PlaceOrder(a, p, side, kind, price, trigger, amount)
      PROVE  UNCHANGED dexAdminVars
  BY <1>7, <1>8, Zenon DEF PlaceOrder
<1>9. ASSUME NEW a, NEW n, NEW amount, ExecuteOrder(a, n, amount)
      PROVE  UNCHANGED dexAdminVars
  BY <1>9, Zenon DEF ExecuteOrder
<1>10. ASSUME NEW a, NEW n, CancelOrder(a, n)
       PROVE  UNCHANGED dexAdminVars
  BY <1>7, <1>10, Zenon DEF CancelOrder
<1>11. ASSUME NEW maker, NEW taker, NEW amount, MatchOrders(maker, taker, amount)
       PROVE  UNCHANGED dexAdminVars
  BY <1>11, Zenon DEF MatchOrders
<1>12. ASSUME NEW a, NEW p, NEW chain, CreateCrossChainTrade(a, p, chain)
       PROVE  UNCHANGED dexAdminVars
  BY <1>12, Zenon DEF CreateCrossChainTrade, SetTrades
<1>13. ASSUME NEW a, NEW t, AttachBridgeRequest(a, t) \/ FinalizeCrossChainTrade(a, t)
       PROVE  UNCHANGED dexAdminVars
  BY <1>13, Zenon DEF AttachBridgeRequest, FinalizeCrossChainTrade, SetTrades
<1>14. CASE PoolNext
  BY <1>14, <1>1, <1>3, <1>4, <1>5, Zenon DEF PoolNext
<1>15. CASE OrderNext
  BY <1>15, <1>6, <1>8, <1>9, <1>10, <1>11, Zenon DEF OrderNext
<1>16. CASE TradeNext
  BY <1>16, <1>12, <1>13, Zenon DEF TradeNext
<1> QED
  BY <1>14, <1>15, <1>16, Zenon

\* No message about competitions and fee proposals touches the admin's settings, though
\* proposals name an emission rate (execute_governance_proposal).
LEMMA VotingKeepsSettings == ContestNext \/ ProposalNext => UNCHANGED dexAdminVars
<1>1. ASSUME NEW a, NEW p, NEW prize, NEW start, NEW end, NEW volume,
             CreateTradingCompetition(a, p, prize, start, end, volume)
      PROVE  UNCHANGED dexAdminVars
  BY <1>1, Zenon DEF CreateTradingCompetition, UnchangedByContests
<1>2. ASSUME NEW a, NEW c, ClaimCompetitionReward(a, c)
      PROVE  UNCHANGED dexAdminVars
  BY <1>2, Zenon DEF ClaimCompetitionReward, UnchangedByContests
<1>3. ASSUME NEW a, NEW c, NEW contest, AdjustContest(a, c, contest)
      PROVE  UNCHANGED dexAdminVars
  BY <1>3, Zenon DEF AdjustContest, UnchangedByContests
<1>4. ASSUME NEW a, NEW fee, NEW duration, CreateGovernanceProposal(a, fee, duration)
      PROVE  UNCHANGED dexAdminVars
  BY <1>4, Zenon DEF CreateGovernanceProposal, UnchangedByProposals
<1>5. ASSUME NEW a, NEW n, NEW support, VoteOnProposal(a, n, support)
      PROVE  UNCHANGED dexAdminVars
  BY <1>5, Zenon DEF VoteOnProposal, UnchangedByProposals
<1>6. ASSUME NEW n, ExecuteFeeProposal(n)
      PROVE  UNCHANGED dexAdminVars
  BY <1>6, Zenon DEF ExecuteFeeProposal, UnchangedByProposals
<1>7. CASE ContestNext
  BY <1>7, <1>1, <1>2, <1>3, Zenon DEF ContestNext
<1>8. CASE ProposalNext
  BY <1>8, <1>4, <1>5, <1>6, Zenon DEF ProposalNext
<1> QED
  BY <1>7, <1>8, Zenon

\* While a timelock is in force every change of a setting carries out an action that was
\* announced, that has waited and that is not carried out again, whoever calls whatever in
\* between (schedule_admin_action_internal, execute_admin_action, set_admin_timelock_delay).
THEOREM TimelockAlwaysHonoured == DexSpec => TimelockHonoured
<1> DEFINE Deferred ==
             timelock > 0 /\ <<routes, mining, timelock>>' # <<routes, mining, timelock>> =>
                 \E n \in DOMAIN adminActions :
                     /\ adminActions[n].status = "Scheduled" /\ block >= adminActions[n].from
                     /\ adminActions' = [adminActions EXCEPT ![n].status = "Executed"]
<1>1. ASSUME [DexNext]_dexVars
      PROVE  [Deferred]_dexAdminVars
  <2>1. CASE UNCHANGED dexAdminVars
    BY <2>1
  <2>2. ASSUME NEW a \in Traders, NEW setting \in Settings, SetAtOnce(a, setting)
        PROVE  Deferred
    BY <2>2 DEF SetAtOnce
  <2>3. ASSUME NEW a \in Traders, NEW setting \in Settings, ScheduleAdminAction(a, setting)
        PROVE  Deferred
    BY <2>3, Zenon DEF ScheduleAdminAction
  <2>4. ASSUME NEW a \in Traders, NEW n \in DOMAIN adminActions, ExecuteAdminAction(a, n)
        PROVE  Deferred
    BY <2>4, Zenon DEF ExecuteAdminAction
  <2>5. ASSUME NEW a \in Traders, NEW n \in DOMAIN adminActions, CancelAdminAction(a, n)
        PROVE  Deferred
    BY <2>5, Zenon DEF CancelAdminAction
  <2>6. CASE DexAdminNext
    BY <2>6, <2>2, <2>3, <2>4, <2>5, Zenon DEF DexAdminNext
  <2>7. CASE UNCHANGED dexVars
    BY <2>7, <2>1, Zenon DEF dexVars
  <2> QED
    BY <1>1, <2>1, <2>6, <2>7, TradingKeepsSettings, VotingKeepsSettings, Zenon DEF DexNext
<1>2. [DexNext]_dexVars => [Deferred]_dexAdminVars
  BY <1>1
<1> QED
  BY <1>2, PTL DEF DexSpec, TimelockHonoured

----
(***************************************************************************)
(* Dex: the books of the exchange and the worth of a share. The recursion  *)
(* of a swap, whose fills are swaps, is followed by induction on its depth *)
(* and on the orders of each depth: whatever a swap sets off, the market   *)
(* that it leaves Follows the one it found. DexInv adds to the property    *)
(* what votes weigh by voter, and the lengths of the lists.                *)
(***************************************************************************)

\* What the assumptions on the constants of the exchange say.
LEMMA DexFacts ==
    /\ IsFiniteSet(Traders) /\ DexAdmin \in Traders
    /\ Bips \in Nat \ {0} /\ RewardPrecision \in Nat \ {0} /\ SwapRewardScale \in Nat \ {0}
    /\ FeeLimit \in Nat /\ FeeLimit <= Bips
    /\ MaxSwaps \in Nat /\ MaxReserve \in Nat /\ MaxBlock \in Nat
    /\ GovernanceSupply \in Nat /\ EmissionRate \in Nat
    /\ \A x \in FeeArgs \cup DepositArgs \cup OrderPriceArgs \cup EmissionArgs \cup DelayArgs
                \cup VolumeArgs \cup PrizeArgs : x \in Nat
    /\ \E chain : chain \in Destinations
  BY PoolConstants, DexConstants, ChainConstants

----
\* The arithmetic of pools

\* Proportions are rounded down (checked_div).
LEMMA PortionRounded ==
    ASSUME NEW a \in Nat, NEW b \in Nat, NEW c \in Nat
    PROVE  Portion(a, b, c) \in Nat /\ Portion(a, b, c) * c <= a * b /\ a * b \in Nat
<1>1. a * b \in Nat
  BY Products
<1>2. CASE c = 0
  BY <1>1, <1>2 DEF Portion
<1>3. CASE c # 0
  BY <1>1, <1>3, RoundedDown DEF Portion
<1> QED
  BY <1>2, <1>3

\* The square root by which the first liquidity is minted is a number (integer_sqrt).
LEMMA RootIsNatural == ASSUME NEW n \in Nat PROVE IntegerSqrt(n) \in Nat
<1>1. CASE n <= 1
  BY <1>1 DEF IntegerSqrt
<1>2. CASE ~(n <= 1)
  <2> DEFINE f == CHOOSE h : Guesses(n, n, h)
             next(x) == (x + n \div x) \div 2
             P == {k \in Nat : \A x \in 1..n : x <= k => f[x] \in Nat}
  <2>1. Guesses(n, n, f)
    BY <1>2, GuessesExist
  <2>2. IntegerSqrt(n) = f[n \div 2]
    BY <1>2 DEF IntegerSqrt, Guesses
  <2> HIDE DEF f
  <2>3. ASSUME NEW x \in 1..n
        PROVE  f[x] = IF next(x) < x THEN f[next(x)] ELSE x
    BY <2>1 DEF Guesses
  <2>4. ASSUME NEW x \in 1..n
        PROVE  next(x) \in Nat \ {0}
    BY <1>2, NextGuess
  <2> HIDE DEF next
  <2>5. 0 \in P
    OBVIOUS
  <2>6. ASSUME NEW k \in Nat, k \in P
        PROVE  k + 1 \in P
    BY <2>4, <2>3, <2>6
  <2>7. n \in P
    <3> HIDE DEF P
    <3> QED
      BY <2>5, <2>6, NatInduct
  <2>8. n \div 2 \in 1..n
    BY <1>2
  <2> QED
    BY <2>2, <2>7, <2>8
<1> QED
  BY <1>1, <1>2

\* If neither reserve falls by more, in proportion, than the shares do, then what one
\* share is worth does not fall (add_liquidity, remove_liquidity).
LEMMA InProportion ==
    ASSUME NEW x \in Nat, NEW y \in Nat, NEW s \in Nat, NEW u \in Nat, NEW v \in Nat, NEW t \in Nat,
           x * t <= u * s, y * t <= v * s
    PROVE  u * v * s * s >= x * y * t * t
  BY Products

\* Reserves whose product grows, and the same shares.
LEMMA ProductGrows ==
    ASSUME NEW x \in Nat, NEW y \in Nat, NEW s \in Nat, NEW u \in Nat, NEW v \in Nat, x * y <= u * v
    PROVE  u * v * s * s >= x * y * s * s
  BY Products

\* What a withdrawal takes out of a reserve is at most its part of it.
LEMMA TakenInProportion ==
    ASSUME NEW l \in Nat, NEW r \in Nat, r <= l, NEW s \in Nat
    PROVE  /\ Portion(r, s, l) \in Nat /\ Portion(r, s, l) <= s
           /\ s * (l - r) <= (s - Portion(r, s, l)) * l
<1> DEFINE out == Portion(r, s, l)
<1>1. out \in Nat /\ out * l <= r * s /\ r * s \in Nat
  BY PortionRounded
<1>2. CASE l = 0
  BY <1>2 DEF Portion
<1>3. CASE l # 0
  BY <1>1, Products, <1>3 DEF out
<1> QED
  BY <1>2, <1>3

\* What the curve gives for an input after its fee leaves something in the pool, and the
\* product of the reserves no smaller, whatever is rounded (get_amount_out).
LEMMA CurveOut ==
    ASSUME NEW x \in Nat \ {0}, NEW y \in Nat \ {0}, NEW in \in Nat, NEW f \in Nat, f <= in
    PROVE  LET out == (f * y) \div (x + f)
           IN  out \in Nat /\ out < y /\ x * y <= (x + in) * (y - out)
<1> DEFINE w == x + f
           out == (f * y) \div w
<1>1. f * y \in Nat /\ w \in Nat \ {0}
  BY Products
<1>2. out \in Nat /\ w * out <= f * y
  <2> HIDE DEF w
  <2> QED
    BY <1>1, RoundedDown
<1>3. w = x + f
  OBVIOUS
<1> HIDE DEF out, w
<1>4. w * y = x * y + f * y /\ x * y \in Nat /\ w * y \in Nat /\ x * y > 0
  BY <1>3, Products, <1>1
<1>5. out < y
  BY <1>2, <1>1, Products, <1>4
<1> DEFINE k == y - out
           z == x + in
<1>6. k \in Nat /\ z \in Nat /\ w <= z
  BY <1>2, <1>3, <1>5
<1>7. w * k = w * y - w * out
  BY <1>1, <1>2
<1> HIDE DEF k, z
<1>8. k * w <= k * z /\ k * w = w * k /\ k * z = z * k
  BY <1>1, <1>6, Products
<1>9. x * y <= z * k
  BY <1>1, <1>2, <1>4, <1>6, Products, <1>7, <1>8
<1> QED
  BY <1>2, <1>5, <1>9 DEF out, w, k, z

----
\* The book

\* The best price once an order of the book has been looked at.
Taken(o, p, side, best) ==
    IF o.pair = p /\ o.side = side /\ Waiting(o) /\ Better(side, o.price, best) THEN o.price ELSE best

\* The best price after every number of orders.
Best(book, p, side, k, f) ==
    f = [n \in 0..k |-> IF n = 0 THEN 0 ELSE Taken(book[n], p, side, f[n - 1])]

\* The best quote is what is found after the last order (refresh_best_quotes).
LEMMA BestUnfold ==
    ASSUME NEW book, NEW p, NEW side
    PROVE  BestPrice(book, p, side) = (CHOOSE f : Best(book, p, side, Len(book), f))[Len(book)]
  BY DEF BestPrice, Best, Taken

\* The search through the book ends.
LEMMA BestExists ==
    ASSUME NEW book, NEW p, NEW side, NEW k \in Nat
    PROVE  \E f : Best(book, p, side, k, f)
<1> DEFINE P == {n \in Nat : \E f : Best(book, p, side, n, f)}
<1>1. 0 \in P
  <2> DEFINE e == [n \in 0..0 |-> 0]
  <2>1. Best(book, p, side, 0, e)
    BY DEF Best
  <2> HIDE DEF e
  <2> QED
    BY <2>1
<1>2. ASSUME NEW n \in Nat, n \in P
      PROVE  n + 1 \in P
  <2>1. PICK f : Best(book, p, side, n, f)
    BY <1>2
  <2> DEFINE g == [i \in 0..(n + 1) |-> IF i = n + 1 THEN Taken(book[n + 1], p, side, f[n]) ELSE f[i]]
  <2>2. \A i \in 0..n : g[i] = f[i]
    OBVIOUS
  <2>3. g[n + 1] = Taken(book[n + 1], p, side, f[n])
    OBVIOUS
  <2>4. g = [i \in 0..(n + 1) |-> g[i]]
    OBVIOUS
  <2> HIDE DEF g
  <2>5. ASSUME NEW i \in 0..(n + 1)
        PROVE  g[i] = IF i = 0 THEN 0 ELSE Taken(book[i], p, side, g[i - 1])
    <3>1. CASE i = n + 1
      BY <2>2, <2>3, <3>1
    <3>2. CASE i # n + 1
      BY <3>2, <2>2, <2>1 DEF Best
    <3> QED
      BY <3>1, <3>2
  <2>6. Best(book, p, side, n + 1, g)
    BY <2>4, <2>5 DEF Best
  <2> QED
    BY <2>6
<1> HIDE DEF P
<1>3. k \in P
  BY <1>1, <1>2, NatInduct
<1> QED
  BY <1>3 DEF P

\* A best quote is the price of an order, or 0.
LEMMA BestPriceIsNatural ==
    ASSUME NEW book \in Seq(Order), NEW p, NEW side
    PROVE  BestPrice(book, p, side) \in Nat
<1> DEFINE k == Len(book)
           f == CHOOSE h : Best(book, p, side, k, h)
           P == {n \in Nat : n <= k => f[n] \in Nat}
<1>1. k \in Nat
  OBVIOUS
<1> HIDE DEF k
<1>2. Best(book, p, side, k, f)
  BY <1>1, BestExists
<1>3. BestPrice(book, p, side) = f[k]
  BY BestUnfold DEF k
<1> HIDE DEF f
<1>4. 0 \in P
  BY <1>1, <1>2 DEF Best
<1>5. ASSUME NEW n \in Nat, n \in P
      PROVE  n + 1 \in P
  <2> SUFFICES ASSUME n + 1 <= k
               PROVE  f[n + 1] \in Nat
    OBVIOUS
  <2>1. f[n] \in Nat /\ n + 1 \in 0..k /\ n + 1 # 0 /\ (n + 1) - 1 = n
    BY <1>1, <1>5
  <2>2. f[n + 1] = Taken(book[n + 1], p, side, f[n])
    BY <1>2, <2>1 DEF Best
  <2>3. book[n + 1].price \in Nat
    <3>1. n + 1 \in 1..Len(book)
      BY <1>1, <2>1 DEF k
    <3>2. book[n + 1] \in Order
      BY <3>1
    <3> QED
      BY <3>2 DEF Order
  <2> QED
    BY <2>1, <2>2, <2>3 DEF Taken
<1>6. k \in P
  <2> HIDE DEF P
  <2> QED
    BY <1>1, <1>4, <1>5, NatInduct
<1> QED
  BY <1>1, <1>3, <1>6

\* The best quotes of a pair depend on the orders of this pair only: where two books
\* differ in, or one adds, orders of other pairs, they are the same.
LEMMA SameQuotes ==
    ASSUME NEW old \in Seq(Order), NEW new \in Seq(Order), Len(old) <= Len(new), NEW p, NEW side,
           \A n \in 1..Len(old) : old[n] = new[n] \/ (old[n].pair # p /\ new[n].pair # p),
           \A n \in 1..Len(new) : n > Len(old) => new[n].pair # p
    PROVE  BestPrice(new, p, side) = BestPrice(old, p, side)
<1> DEFINE j == Len(old)
           k == Len(new)
           f == CHOOSE h : Best(old, p, side, j, h)
           g == CHOOSE h : Best(new, p, side, k, h)
           P == {n \in Nat : n <= k => g[n] = f[IF n <= j THEN n ELSE j]}
<1>1. j \in Nat /\ k \in Nat /\ j <= k
  OBVIOUS
<1>2. /\ \A n \in 1..j : old[n] = new[n] \/ (old[n].pair # p /\ new[n].pair # p)
      /\ \A n \in 1..k : n > j => new[n].pair # p
  OBVIOUS
<1>3. BestPrice(old, p, side) = f[j] /\ BestPrice(new, p, side) = g[k]
  BY BestUnfold
<1> HIDE DEF j, k
<1>4. Best(old, p, side, j, f) /\ Best(new, p, side, k, g)
  BY <1>1, BestExists
<1> HIDE DEF f, g
<1>5. 0 \in P
  BY <1>1, <1>4 DEF Best
<1>6. ASSUME NEW n \in Nat, n \in P
      PROVE  n + 1 \in P
  <2> SUFFICES ASSUME n + 1 <= k
               PROVE  g[n + 1] = f[IF n + 1 <= j THEN n + 1 ELSE j]
    OBVIOUS
  <2>1. n + 1 \in 0..k /\ n + 1 \in 1..k /\ n + 1 # 0 /\ (n + 1) - 1 = n
    BY <1>1
  <2>2. g[n + 1] = Taken(new[n + 1], p, side, g[n])
    BY <1>4, <2>1 DEF Best
  <2>3. g[n] = f[IF n <= j THEN n ELSE j]
    BY <1>1, <1>6
  <2>4. CASE n + 1 <= j
    <3>1. n + 1 \in 0..j /\ n + 1 \in 1..j /\ n <= j
      BY <1>1, <2>4
    <3>2. f[n + 1] = Taken(old[n + 1], p, side, f[n])
      BY <1>4, <2>1, <3>1 DEF Best
    <3>3. g[n] = f[n]
      BY <2>3, <3>1
    <3>4. Taken(old[n + 1], p, side, f[n]) = Taken(new[n + 1], p, side, f[n])
      BY <1>2, <3>1 DEF Taken
    <3> QED
      BY <2>2, <2>4, <3>2, <3>3, <3>4
  <2>5. CASE ~(n + 1 <= j)
    BY <1>1, <1>2, <2>1, <2>5, <2>2, <2>3 DEF Taken
  <2> QED
    BY <2>4, <2>5
<1>7. k \in P
  <2> HIDE DEF P
  <2> QED
    BY <1>1, <1>5, <1>6, NatInduct
<1>8. (IF k <= j THEN k ELSE j) = j
  BY <1>1
<1> QED
  BY <1>1, <1>3, <1>7, <1>8

----
\* One pool

\* Rewards of shares grow with the index.
LEMMA EarnedGrows ==
    ASSUME NEW s \in Nat, NEW i \in Nat, NEW j \in Nat, i <= j
    PROVE  Earned(s, i) \in Nat /\ Earned(s, j) \in Nat /\ Earned(s, i) <= Earned(s, j)
  BY Products, DexFacts DEF Earned

\* No rewards of no shares, or before an index.
LEMMA NothingEarned == ASSUME NEW s \in Nat PROVE Earned(0, s) = 0 /\ Earned(s, 0) = 0
  BY DexFacts DEF Earned

\* The clock and the liquidity campaign that rewards are reckoned by.
RewardsTick == block \in Nat /\ mining \in [rate : Nat, start : Nat, end : Nat]

\* What swaps leave of a pool as it was, or better.
Kept(a, b) ==
    /\ b.shares = a.shares /\ b.fee = a.fee /\ a.index <= b.index
    /\ a.base * a.quote <= b.base * b.quote

\* Rewards are added to the index and nothing else of a pool changes (accrue_rewards).
LEMMA AccruedPair ==
    ASSUME RewardsTick, NEW q \in Pair
    PROVE  /\ Accrued(q) \in Pair
           /\ Accrued(q).base = q.base /\ Accrued(q).quote = q.quote /\ Accrued(q).shares = q.shares
           /\ Accrued(q).fee = q.fee /\ q.index <= Accrued(q).index
           /\ Accrued(q).bid = q.bid /\ Accrued(q).ask = q.ask
<1> DEFINE from == Larger(q.rewarded, mining.start)
           to == Smaller(block, mining.end)
           gain == IF to > from THEN Portion((to - from) * mining.rate, RewardPrecision, q.shares) ELSE 0
<1>1. q.index \in Nat /\ q.rewarded \in Nat /\ q.shares \in Nat
  BY DEF Pair
<1>2. mining.rate \in Nat /\ mining.start \in Nat /\ mining.end \in Nat /\ block \in Nat
  BY DEF RewardsTick
<1>3. from \in Nat /\ to \in Nat
  BY <1>1, <1>2 DEF Larger, Smaller
<1>4. Accrued(q) = IF q.shares = 0 THEN q ELSE [q EXCEPT !.index = q.index + gain, !.rewarded = block]
  BY DEF Accrued
<1> HIDE DEF from, to
<1>5. gain \in Nat
  <2>1. CASE to > from
    <3>1. (to - from) \in Nat
      BY <1>3, <2>1
    <3> DEFINE d == to - from
    <3> HIDE DEF d
    <3>2. d * mining.rate \in Nat
      BY <1>2, <3>1, Products DEF d
    <3>3. Portion(d * mining.rate, RewardPrecision, q.shares) \in Nat
      <4> DEFINE x == d * mining.rate
      <4> HIDE DEF x
      <4>1. x \in Nat
        BY <3>2 DEF x
      <4>2. Portion(x, RewardPrecision, q.shares) \in Nat
        BY <1>1, <4>1, PortionRounded, DexFacts
      <4> QED
        BY <4>2 DEF x
    <3> QED
      BY <2>1, <3>3 DEF d
  <2>2. CASE ~(to > from)
    BY <2>2
  <2> QED
    BY <2>1, <2>2
<1> HIDE DEF gain
<1>6. CASE q.shares = 0
  BY <1>1, <1>4, <1>6
<1>7. CASE q.shares # 0
  <2>1. Accrued(q) = [q EXCEPT !.index = q.index + gain, !.rewarded = block]
    BY <1>4, <1>7
  <2>2. q.index + gain \in Nat /\ q.index <= q.index + gain
    BY <1>1, <1>5
  <2> DEFINE i == q.index + gain
  <2> HIDE DEF i
  <2>3. i \in Nat /\ q.index <= i /\ Accrued(q) = [q EXCEPT !.index = i, !.rewarded = block]
    BY <2>1, <2>2 DEF i
  <2> QED
    BY <1>2, <2>3 DEF Pair
<1> QED
  BY <1>6, <1>7

\* New quotes change nothing of a pool's money (refresh_best_quotes).
LEMMA RequotedPair ==
    ASSUME NEW q \in Pair, NEW p, NEW book \in Seq(Order)
    PROVE  /\ Requoted(q, p, book) \in Pair
           /\ Requoted(q, p, book).base = q.base /\ Requoted(q, p, book).quote = q.quote
           /\ Requoted(q, p, book).shares = q.shares /\ Requoted(q, p, book).fee = q.fee
           /\ Requoted(q, p, book).index = q.index
           /\ Requoted(q, p, book).bid = BestPrice(book, p, "Buy")
           /\ Requoted(q, p, book).ask = BestPrice(book, p, "Sell")
<1> DEFINE mid == IF q.bid > 0 /\ q.ask > 0 THEN (q.bid + q.ask) \div 2 ELSE q.last
           bid == BestPrice(book, p, "Buy")
           ask == BestPrice(book, p, "Sell")
<1>1. mid \in Nat
  BY DEF Pair
<1>2. bid \in Nat /\ ask \in Nat
  BY BestPriceIsNatural
<1>3. Requoted(q, p, book) = [q EXCEPT !.reference = mid, !.bid = bid, !.ask = ask]
  BY DEF Requoted
<1> HIDE DEF mid, bid, ask
<1>4. /\ Requoted(q, p, book) \in Pair
      /\ Requoted(q, p, book).base = q.base /\ Requoted(q, p, book).quote = q.quote
      /\ Requoted(q, p, book).shares = q.shares /\ Requoted(q, p, book).fee = q.fee
      /\ Requoted(q, p, book).index = q.index
      /\ Requoted(q, p, book).bid = bid /\ Requoted(q, p, book).ask = ask
  BY <1>1, <1>2, <1>3 DEF Pair
<1> QED
  BY <1>4 DEF bid, ask

\* A price is a number (update_pool_price), and is stored in a pool.
LEMMA PricedPair ==
    ASSUME NEW q \in Pair, NEW x \in Nat
    PROVE  LET r == [q EXCEPT !.last = x]
           IN  /\ r \in Pair /\ r.base = q.base /\ r.quote = q.quote /\ r.shares = q.shares
               /\ r.fee = q.fee /\ r.index = q.index /\ r.bid = q.bid /\ r.ask = q.ask
  BY DEF Pair

\* The product of the reserves grows by a swap (swap).
LEMMA SwappedPool ==
    ASSUME NEW q \in Pair, NEW side \in Sides, NEW in \in Nat, q.base # 0, q.quote # 0
    PROVE  /\ PoolAfterSwap(q, side, in) \in Pair
           /\ Kept(q, PoolAfterSwap(q, side, in))
           /\ AmountOut(q, side, in) \in Nat
<1> DEFINE x == ReserveIn(q, side)
           y == ReserveOut(q, side)
           f == AfterFee(q, in)
           out == AmountOut(q, side, in)
           new == PoolAfterSwap(q, side, in)
<1>1. q.base \in Nat /\ q.quote \in Nat /\ q.shares \in Nat /\ q.index \in Nat /\ q.fee \in Nat /\ q.fee < FeeLimit
  BY DexFacts DEF Pair
<1>2. x \in Nat \ {0} /\ y \in Nat \ {0}
  BY <1>1 DEF ReserveIn, ReserveOut
<1>3. f \in Nat /\ f <= in
  <2> DEFINE k == Bips - q.fee
             n == in * k
  <2>1. k \in Nat /\ k <= Bips /\ Bips \in Nat \ {0}
    BY <1>1, DexFacts
  <2>2. f = n \div Bips
    BY DEF AfterFee
  <2> HIDE DEF k
  <2>3. in * k \in Nat /\ in * k <= in * Bips /\ in * Bips = Bips * in
    BY <2>1, Products
  <2> HIDE DEF n
  <2>4. n \in Nat /\ n <= Bips * in /\ Bips * in \in Nat
    BY <2>1, <2>3, Products DEF n
  <2>5. n \div Bips \in Nat /\ Bips * (n \div Bips) <= n
    BY <2>1, <2>4, RoundedDown
  <2> HIDE DEF f
  <2>6. f \in Nat /\ Bips * f <= n /\ Bips * f \in Nat
    BY <2>1, <2>2, <2>5, Products
  <2>7. Bips * f <= Bips * in
    BY <2>1, <2>4, <2>6
  <2> QED
    BY <2>1, <2>6, <2>7, Products
<1>4. out = (f * y) \div (x + f)
  BY DEF AmountOut
<1> HIDE DEF f, x, y
<1>5. out \in Nat /\ out < y /\ x * y <= (x + in) * (y - out)
  BY <1>2, <1>3, <1>4, CurveOut
<1> HIDE DEF out
<1>6. CASE side = "Sell"
  <2>1. x = q.base /\ y = q.quote
    BY <1>6 DEF x, y, ReserveIn, ReserveOut
  <2>2. new = [q EXCEPT !.base = q.base + in, !.quote = q.quote - out]
    BY <1>6 DEF PoolAfterSwap, out
  <2> DEFINE u == q.base + in
             v == q.quote - out
  <2>3. u \in Nat /\ v \in Nat /\ q.base * q.quote <= u * v
    BY <1>1, <1>5, <2>1
  <2> HIDE DEF u, v
  <2>4. new = [q EXCEPT !.base = u, !.quote = v]
    BY <2>2 DEF u, v
  <2> HIDE DEF new
  <2>5. new \in Pair /\ new.base = u /\ new.quote = v /\ new.shares = q.shares /\ new.fee = q.fee /\ new.index = q.index
    BY <2>3, <2>4 DEF Pair
  <2> QED
    BY <1>1, <1>5, <2>3, <2>5 DEF Kept, new, out
<1>7. CASE side # "Sell"
  <2>1. x = q.quote /\ y = q.base
    BY <1>7 DEF x, y, ReserveIn, ReserveOut
  <2>2. new = [q EXCEPT !.quote = q.quote + in, !.base = q.base - out]
    BY <1>7 DEF PoolAfterSwap, out
  <2> DEFINE u == q.quote + in
             v == q.base - out
  <2>3. u \in Nat /\ v \in Nat /\ q.quote * q.base <= u * v
    BY <1>1, <1>5, <2>1
  <2> HIDE DEF u, v
  <2>4. new = [q EXCEPT !.quote = u, !.base = v]
    BY <2>2 DEF u, v
  <2> HIDE DEF new
  <2>5. new \in Pair /\ new.base = v /\ new.quote = u /\ new.shares = q.shares /\ new.fee = q.fee /\ new.index = q.index
    BY <2>3, <2>4 DEF Pair
  <2>6. q.base * q.quote <= v * u
    BY <1>1, <2>3
  <2> QED
    BY <1>1, <1>5, <2>5, <2>6 DEF Kept, new, out
<1> QED
  BY <1>6, <1>7

\* Swaps that follow each other.
LEMMA KeptOn ==
    ASSUME NEW a \in Pair, NEW b \in Pair, NEW c \in Pair, Kept(a, b), Kept(b, c)
    PROVE  Kept(a, c)
  BY Products DEF Pair, Kept

----
\* Markets and swaps

\* The stored best quotes are those of the orders still open.
QuotesRight(ps, book) ==
    \A p \in DOMAIN ps : ps[p].bid = BestPrice(book, p, "Buy") /\ ps[p].ask = BestPrice(book, p, "Sell")

\* A market of the types it should have, whose quotes are right and whose tokens are all somebody's.
MarketGood(m) ==
    /\ m \in Markets
    /\ \A n \in DOMAIN m.orders : m.orders[n].pair \in DOMAIN m.pairs
    /\ QuotesRight(m.pairs, m.orders)
    /\ m.supply = SumFunctionOnSet(m.balance, Traders)

\* What swaps and fills make of a market, however they are nested.
Follows(m, after) ==
    /\ MarketGood(after)
    /\ DOMAIN after.pairs = DOMAIN m.pairs /\ DOMAIN after.orders = DOMAIN m.orders
    /\ DOMAIN after.scores = DOMAIN m.scores
    /\ \A p \in DOMAIN m.pairs : Kept(m.pairs[p], after.pairs[p])
    /\ \A n \in DOMAIN m.orders : after.orders[n].pair = m.orders[n].pair
    /\ \A a \in Traders : m.balance[a] <= after.balance[a]

\* The parts of a market.
LEMMA MarketParts ==
    ASSUME NEW m \in Markets
    PROVE  /\ m.pairs \in Seq(Pair) /\ m.orders \in Seq(Order) /\ m.balance \in [Traders -> Nat]
           /\ m.supply \in Nat /\ m.scores \in Seq([Traders -> Nat]) /\ m.gas \in Int
           /\ \A p \in DOMAIN m.pairs : m.pairs[p] \in Pair
           /\ \A n \in DOMAIN m.orders : m.orders[n] \in Order
  BY ElementOfSeq, LenProperties DEF Markets

\* A message that does nothing to a market, but for its gas.
LEMMA FollowsItself ==
    ASSUME NEW m, MarketGood(m)
    PROVE  Follows(m, m) /\ Follows(m, [m EXCEPT !.gas = -1])
<1> DEFINE new == [m EXCEPT !.gas = -1]
<1>1. m \in Markets
  BY DEF MarketGood
<1>2. \A p \in DOMAIN m.pairs : Kept(m.pairs[p], m.pairs[p])
  <2> TAKE p \in DOMAIN m.pairs
  <2>1. m.pairs[p] \in Pair
    BY <1>1, MarketParts
  <2>2. m.pairs[p].index \in Nat /\ m.pairs[p].base \in Nat /\ m.pairs[p].quote \in Nat
    BY <2>1 DEF Pair
  <2>3. m.pairs[p].base * m.pairs[p].quote \in Nat
    BY <2>2, Products
  <2> QED
    BY <2>2, <2>3 DEF Kept
<1>3. \A a \in Traders : m.balance[a] <= m.balance[a]
  <2> TAKE a \in Traders
  <2>1. m.balance[a] \in Nat
    BY <1>1, MarketParts
  <2> QED
    BY <2>1
<1>4. Follows(m, m)
  BY <1>2, <1>3 DEF Follows
<1>5. /\ new \in Markets /\ new.pairs = m.pairs /\ new.orders = m.orders /\ new.balance = m.balance
      /\ new.supply = m.supply /\ new.scores = m.scores
  <2>1. -1 \in Int
    OBVIOUS
  <2> QED
    BY <1>1, <2>1 DEF Markets
<1> HIDE DEF new
<1>6. MarketGood(new)
  BY <1>5 DEF MarketGood
<1>7. Follows(m, new)
  BY <1>2, <1>3, <1>5, <1>6 DEF Follows
<1> QED
  BY <1>4, <1>7 DEF new

\* What follows upon what follows.
LEMMA FollowsOn ==
    ASSUME NEW l, NEW m, NEW n, l \in Markets, Follows(l, m), Follows(m, n)
    PROVE  Follows(l, n)
<1>1. m \in Markets /\ n \in Markets
  BY DEF Follows, MarketGood
<1>2. \A p \in DOMAIN l.pairs : Kept(l.pairs[p], n.pairs[p])
  <2> TAKE p \in DOMAIN l.pairs
  <2>1. p \in DOMAIN m.pairs /\ p \in DOMAIN n.pairs
    BY DEF Follows
  <2>2. l.pairs[p] \in Pair /\ m.pairs[p] \in Pair /\ n.pairs[p] \in Pair
    BY <1>1, <2>1, MarketParts
  <2>3. Kept(l.pairs[p], m.pairs[p]) /\ Kept(m.pairs[p], n.pairs[p])
    BY <2>1 DEF Follows
  <2> QED
    BY <2>2, <2>3, KeptOn
<1>3. \A a \in Traders : l.balance[a] <= n.balance[a]
  <2> TAKE a \in Traders
  <2>1. l.balance[a] \in Nat /\ m.balance[a] \in Nat /\ n.balance[a] \in Nat
    BY <1>1, MarketParts
  <2>2. l.balance[a] <= m.balance[a] /\ m.balance[a] <= n.balance[a]
    BY DEF Follows
  <2> QED
    BY <2>1, <2>2
<1> QED
  BY <1>2, <1>3 DEF Follows

\* Scores of competitions are added to (update_trade_competition_score).
LEMMA ScoredList ==
    ASSUME NEW old \in Seq([Traders -> Nat]), NEW p, NEW trader \in Traders, NEW volume \in Nat
    PROVE  Scored(old, p, trader, volume) \in Seq([Traders -> Nat]) /\ DOMAIN Scored(old, p, trader, volume) = DOMAIN old
<1> DEFINE S == [Traders -> Nat]
           new == Scored(old, p, trader, volume)
           on(c) == contests[c].active /\ block \in contests[c].start..contests[c].end
                    /\ contests[c].pair \in {0, p} /\ volume >= contests[c].volume
<1>1. DOMAIN old = 1..Len(old) /\ Len(old) \in Nat /\ \A c \in 1..Len(old) : old[c] \in S
  BY ElementOfSeq, LenProperties
<1>2. new = [c \in DOMAIN old |-> IF on(c) THEN [old[c] EXCEPT ![trader] = old[c][trader] + volume] ELSE old[c]]
  BY DEF Scored
<1> HIDE DEF on
<1>3. DOMAIN new = 1..Len(old) /\ new = [c \in 1..Len(old) |-> new[c]]
  BY <1>1, <1>2
<1>4. \A c \in 1..Len(old) : new[c] \in S
  <2> TAKE c \in 1..Len(old)
  <2>1. old[c] \in S /\ old[c][trader] + volume \in Nat
    BY <1>1
  <2>2. [old[c] EXCEPT ![trader] = old[c][trader] + volume] \in S
    BY <2>1
  <2>3. new[c] = IF on(c) THEN [old[c] EXCEPT ![trader] = old[c][trader] + volume] ELSE old[c]
    BY <1>1, <1>2
  <2> QED
    BY <2>1, <2>2, <2>3
<1> HIDE DEF new, S
<1>5. new \in [1..Len(old) -> S]
  BY <1>3, <1>4
<1>6. new \in Seq(S)
  <2> DEFINE k == Len(old)
  <2>1. k \in Nat /\ new \in [1..k -> S]
    BY <1>1, <1>5
  <2> HIDE DEF k
  <2>2. new \in UNION {[1..n -> S] : n \in Nat}
    BY <2>1
  <2> QED
    BY <2>2, SeqDef
<1> QED
  BY <1>1, <1>3, <1>6 DEF new, S

\* A swap, before it fills orders, pays what the curve gives and mints its reward.
LEMMA MovedFollows ==
    ASSUME RewardsTick, NEW m, MarketGood(m), NEW p \in DOMAIN m.pairs, NEW side \in Sides, NEW in \in Nat,
           NEW caller \in Traders, m.pairs[p].base # 0, m.pairs[p].quote # 0
    PROVE  Follows(m, Moved(m, p, side, in, caller))
<1> DEFINE q == m.pairs[p]
           accrued == Accrued(q)
           pool == PoolAfterSwap(accrued, side, in)
           priced == [pool EXCEPT !.last = PoolPrice(pool)]
           pair == Requoted(priced, p, m.orders)
           reward == (in * mining.rate) \div SwapRewardScale
           out == AmountOut(q, side, in)
           new == Moved(m, p, side, in, caller)
<1>1. m \in Markets
  BY DEF MarketGood
<1>2. /\ m.pairs \in Seq(Pair) /\ m.orders \in Seq(Order) /\ m.balance \in [Traders -> Nat]
      /\ m.supply \in Nat /\ m.scores \in Seq([Traders -> Nat]) /\ m.gas \in Int /\ q \in Pair
  BY <1>1, MarketParts
<1>3. /\ accrued \in Pair /\ accrued.base = q.base /\ accrued.quote = q.quote /\ accrued.shares = q.shares
      /\ accrued.fee = q.fee /\ q.index <= accrued.index
  BY <1>2, AccruedPair
<1>4. q.base # 0 /\ q.quote # 0
  OBVIOUS
<1> HIDE DEF q
<1>5. out \in Nat
  BY <1>2, <1>4, SwappedPool
<1> HIDE DEF accrued
<1>6. pool \in Pair /\ Kept(accrued, pool)
  BY <1>3, <1>4, SwappedPool
<1> HIDE DEF pool
<1>7. PoolPrice(pool) \in Nat
  <2>1. pool.quote \in Nat /\ pool.base \in Nat
    BY <1>6 DEF Pair
  <2>2. Portion(pool.quote, Bips, pool.base) \in Nat
    BY <2>1, PortionRounded, DexFacts
  <2> QED
    BY <2>2 DEF PoolPrice
<1>8. /\ priced \in Pair /\ priced.base = pool.base /\ priced.quote = pool.quote
      /\ priced.shares = pool.shares /\ priced.fee = pool.fee /\ priced.index = pool.index
  BY <1>6, <1>7, PricedPair
<1> HIDE DEF priced
<1>9. /\ pair \in Pair /\ pair.base = priced.base /\ pair.quote = priced.quote /\ pair.shares = priced.shares
      /\ pair.fee = priced.fee /\ pair.index = priced.index
      /\ pair.bid = BestPrice(m.orders, p, "Buy") /\ pair.ask = BestPrice(m.orders, p, "Sell")
  BY <1>2, <1>8, RequotedPair
<1> HIDE DEF pair
<1>10. Kept(q, pair)
  <2>1. Kept(q, accrued)
    <3>1. q.base * q.quote \in Nat
      <4>1. q.base \in Nat /\ q.quote \in Nat
        BY <1>2 DEF Pair
      <4> QED
        BY <4>1, Products
    <3> QED
      BY <1>3, <3>1 DEF Kept
  <2>2. Kept(q, pool)
    BY <1>2, <1>3, <1>6, <2>1, KeptOn
  <2> QED
    BY <1>8, <1>9, <2>2 DEF Kept
<1>11. reward \in Nat
  BY Products, RoundedDown, DexFacts DEF RewardsTick
<1> HIDE DEF out
<1> DEFINE olds == m.scores
           scored == Scored(olds, p, caller, out)
<1>12. scored \in Seq([Traders -> Nat]) /\ DOMAIN scored = DOMAIN m.scores
  <2>1. olds \in Seq([Traders -> Nat])
    BY <1>2
  <2> HIDE DEF olds
  <2>2. scored \in Seq([Traders -> Nat]) /\ DOMAIN scored = DOMAIN olds
    BY <1>5, <2>1, ScoredList
  <2> QED
    BY <2>2 DEF olds
<1>13. new = [m EXCEPT !.gas = m.gas - 1, !.pairs[p] = pair, !.balance[caller] = m.balance[caller] + reward,
                       !.supply = m.supply + reward, !.scores = scored]
  BY DEF Moved, pair, priced, pool, accrued, q, out
<1> HIDE DEF new, scored, reward
<1>14. /\ new.pairs = Written(m.pairs, p, pair) /\ new.orders = m.orders
       /\ new.balance = Written(m.balance, caller, m.balance[caller] + reward)
       /\ new.supply = m.supply + reward /\ new.scores = scored /\ new.gas = m.gas - 1
       /\ DOMAIN new = {"pairs", "orders", "balance", "supply", "scores", "gas"}
       /\ new = [pairs |-> new.pairs, orders |-> new.orders, balance |-> new.balance, supply |-> new.supply,
                 scores |-> new.scores, gas |-> new.gas]
  BY <1>1, <1>13 DEF Markets, Written
<1> DEFINE ps == Written(m.pairs, p, pair)
           x == m.balance[caller] + reward
           bs == Written(m.balance, caller, x)
<1>15. ps \in Seq(Pair) /\ DOMAIN ps = DOMAIN m.pairs /\ ps[p] = pair /\ \A k \in DOMAIN m.pairs \ {p} : ps[k] = m.pairs[k]
  <2> DEFINE qs == m.pairs
  <2>1. qs \in Seq(Pair) /\ p \in DOMAIN qs
    BY <1>2
  <2> HIDE DEF qs, ps
  <2>2. Written(qs, p, pair) \in Seq(Pair) /\ DOMAIN Written(qs, p, pair) = DOMAIN qs /\ Written(qs, p, pair)[p] = pair
        /\ \A k \in DOMAIN qs \ {p} : Written(qs, p, pair)[k] = qs[k]
    BY <1>9, <2>1, SeqWritten
  <2> QED
    BY <2>2 DEF qs, ps
<1>16. x \in Nat /\ m.balance[caller] <= x /\ x = m.balance[caller] + reward
  BY <1>2, <1>11
<1> HIDE DEF ps, x
<1>17. bs \in [Traders -> Nat] /\ bs[caller] = x /\ \A a \in Traders \ {caller} : bs[a] = m.balance[a]
  BY <1>2, <1>16 DEF Written
<1> HIDE DEF bs
<1>18. SumFunctionOnSet(bs, Traders) = m.supply + reward
  <2>1. \A a \in Traders : m.balance[a] \in Int /\ bs[a] \in Int
    BY <1>2, <1>17
  <2>2. SumFunctionOnSet(bs, Traders) = SumFunctionOnSet(m.balance, Traders) - m.balance[caller] + bs[caller]
    BY <1>17, <2>1, SumChange, DexFacts
  <2>3. m.supply = SumFunctionOnSet(m.balance, Traders)
    BY DEF MarketGood
  <2> QED
    BY <1>2, <1>11, <1>16, <1>17, <2>2, <2>3
<1>19. new.pairs = ps /\ new.balance = bs
  BY <1>14 DEF ps, bs, x
<1>20. new \in Markets
  <2>1. m.supply + reward \in Nat /\ m.gas - 1 \in Int
    BY <1>2, <1>11
  <2>2. new.pairs \in Seq(Pair) /\ new.orders \in Seq(Order) /\ new.balance \in [Traders -> Nat] /\ new.supply \in Nat
        /\ new.scores \in Seq([Traders -> Nat]) /\ new.gas \in Int
    BY <1>2, <1>12, <1>14, <1>15, <1>17, <1>19, <2>1
  <2> QED
    BY <1>14, <2>2, Zenon DEF Markets
<1>21. MarketGood(new)
  BY <1>15, <1>9, <1>14, <1>18, <1>19, <1>20 DEF MarketGood, QuotesRight
<1>22. \A k \in DOMAIN m.pairs : Kept(m.pairs[k], ps[k])
  <2> TAKE k \in DOMAIN m.pairs
  <2>1. CASE k = p
    BY <1>10, <1>15, <2>1 DEF q
  <2>2. CASE k # p
    <3>1. Follows(m, m)
      BY FollowsItself
    <3> QED
      BY <1>15, <2>2, <3>1 DEF Follows
  <2> QED
    BY <2>1, <2>2
<1>23. \A a \in Traders : m.balance[a] <= bs[a]
  <2> TAKE a \in Traders
  <2>1. m.balance[a] \in Nat
    BY <1>2
  <2> QED
    BY <1>16, <1>17, <2>1
<1>24. Follows(m, new)
  BY <1>12, <1>14, <1>15, <1>19, <1>21, <1>22, <1>23 DEF Follows
<1> QED
  BY <1>24 DEF new

\* The quotes of the other pairs do not change with an order.
LEMMA OtherQuotesStay ==
    ASSUME NEW book \in Seq(Order), NEW n \in DOMAIN book, NEW o \in Order, o.pair = book[n].pair,
           NEW p, p # o.pair, NEW side
    PROVE  BestPrice(Written(book, n, o), p, side) = BestPrice(book, p, side)
<1> DEFINE new == Written(book, n, o)
<1>1. new \in Seq(Order) /\ Len(new) = Len(book) /\ new[n] = o /\ \A k \in DOMAIN book \ {n} : new[k] = book[k]
  BY SeqWritten
<1>2. DOMAIN book = 1..Len(book) /\ Len(book) \in Nat
  BY LenProperties
<1> HIDE DEF new
<1>3. \A k \in 1..Len(book) : book[k] = new[k] \/ (book[k].pair # p /\ new[k].pair # p)
  BY <1>1, <1>2
<1>4. \A k \in 1..Len(new) : k > Len(book) => new[k].pair # p
  BY <1>1, <1>2
<1>5. Len(book) <= Len(new)
  BY <1>1, <1>2
<1>6. BestPrice(new, p, side) = BestPrice(book, p, side)
  BY <1>1, <1>3, <1>4, <1>5, SameQuotes
<1> QED
  BY <1>6 DEF new

\* One order of a market is written, and the pair's quotes with it.
Rewritten(m, n, o) ==
    LET book == Written(m.orders, n, o)
    IN  [m EXCEPT !.orders = book, !.pairs = Written(@, o.pair, Requoted(m.pairs[o.pair], o.pair, book))]

\* Refreshing one pair's quotes is enough (refresh_best_quotes).
LEMMA RewrittenFollows ==
    ASSUME NEW m, MarketGood(m), NEW n \in DOMAIN m.orders, NEW o \in Order, o.pair = m.orders[n].pair
    PROVE  Follows(m, Rewritten(m, n, o))
<1> DEFINE os == m.orders
           book == Written(os, n, o)
           ps == m.pairs
           p == o.pair
           q == ps[p]
           r == Requoted(q, p, book)
           qs == Written(ps, p, r)
           new == Rewritten(m, n, o)
<1>1. m \in Markets /\ p \in DOMAIN ps /\ n \in DOMAIN os /\ p = os[n].pair
  BY DEF MarketGood
<1>2. /\ ps \in Seq(Pair) /\ os \in Seq(Order) /\ m.balance \in [Traders -> Nat]
      /\ m.supply \in Nat /\ m.scores \in Seq([Traders -> Nat]) /\ m.gas \in Int
      /\ \A k \in DOMAIN ps : ps[k] \in Pair
  BY <1>1, MarketParts
<1>3. q \in Pair
  BY <1>1, <1>2
<1>4. new = [m EXCEPT !.orders = book, !.pairs = qs]
  BY DEF Rewritten
<1> HIDE DEF os, ps
<1>5. book \in Seq(Order) /\ DOMAIN book = DOMAIN os /\ book[n] = o /\ \A k \in DOMAIN os \ {n} : book[k] = os[k]
  BY <1>1, <1>2, SeqWritten
<1>6. \A k, side : k # p => BestPrice(book, k, side) = BestPrice(os, k, side)
  BY <1>1, <1>2, OtherQuotesStay
<1> HIDE DEF book, q
<1>7. /\ r \in Pair /\ r.base = q.base /\ r.quote = q.quote /\ r.shares = q.shares
      /\ r.fee = q.fee /\ r.index = q.index
      /\ r.bid = BestPrice(book, p, "Buy") /\ r.ask = BestPrice(book, p, "Sell")
  BY <1>3, <1>5, RequotedPair
<1> HIDE DEF r, p
<1>8. qs \in Seq(Pair) /\ DOMAIN qs = DOMAIN ps /\ qs[p] = r /\ \A k \in DOMAIN ps \ {p} : qs[k] = ps[k]
  <2>1. ps \in Seq(Pair) /\ p \in DOMAIN ps /\ r \in Pair
    BY <1>1, <1>2, <1>7 DEF p
  <2>2. Written(ps, p, r) \in Seq(Pair) /\ DOMAIN Written(ps, p, r) = DOMAIN ps /\ Written(ps, p, r)[p] = r
        /\ \A k \in DOMAIN ps \ {p} : Written(ps, p, r)[k] = ps[k]
    BY <2>1, SeqWritten
  <2> QED
    BY <2>2
<1> HIDE DEF qs
<1>9. /\ new.pairs = qs /\ new.orders = book /\ new.balance = m.balance /\ new.supply = m.supply
      /\ new.scores = m.scores /\ new \in Markets
  BY <1>1, <1>2, <1>4, <1>5, <1>8 DEF Markets
<1> HIDE DEF new
<1>10. MarketGood(m)
  OBVIOUS
<1>11. \A k \in DOMAIN book : book[k].pair = os[k].pair /\ book[k].pair \in DOMAIN ps
  BY <1>10, <1>1, <1>5 DEF MarketGood, os, ps, p
<1>12. QuotesRight(qs, book)
  <2>1. QuotesRight(ps, os)
    BY <1>10 DEF MarketGood, ps, os
  <2>2. ASSUME NEW k \in DOMAIN qs
        PROVE  qs[k].bid = BestPrice(book, k, "Buy") /\ qs[k].ask = BestPrice(book, k, "Sell")
    <3>1. CASE k = p
      BY <1>7, <1>8, <3>1
    <3>2. CASE k # p
      BY <1>8, <3>2, <2>1, <1>6 DEF QuotesRight
    <3> QED
      BY <3>1, <3>2
  <2> QED
    BY <2>2 DEF QuotesRight
<1>13. MarketGood(new)
  BY <1>10, <1>8, <1>9, <1>11, <1>12 DEF MarketGood
<1>14. Follows(m, m)
  BY FollowsItself
<1>15. \A k \in DOMAIN ps : Kept(ps[k], qs[k])
  <2> TAKE k \in DOMAIN ps
  <2>1. Kept(ps[k], ps[k])
    BY <1>14 DEF Follows, ps
  <2>2. CASE k = p
    BY <1>8, <2>2, <1>7, <2>1 DEF q, Kept
  <2>3. CASE k # p
    BY <1>8, <2>1, <2>3
  <2> QED
    BY <2>2, <2>3
<1>16. \A a \in Traders : m.balance[a] <= new.balance[a]
  BY <1>9, <1>14 DEF Follows
<1>17. Follows(m, new)
  BY <1>5, <1>8, <1>9, <1>11, <1>13, <1>15, <1>16 DEF Follows, ps, os
<1> QED
  BY <1>17 DEF new

\* A fill stores the order with less remaining, and refreshes the quotes, after its swap
\* (execute_order_core).
LEMMA FilledFollows ==
    ASSUME NEW m, MarketGood(m), NEW n \in DOMAIN m.orders, NEW amount \in Nat, amount <= m.orders[n].remaining,
           NEW after, Follows(m, after)
    PROVE  Follows(m, FilledBy(m, n, amount, after))
<1> DEFINE o == m.orders[n]
           filled == [o EXCEPT !.remaining = o.remaining - amount, !.traded = after.orders[n].traded + amount,
                               !.status = IF amount = o.remaining THEN "Filled" ELSE "PartiallyFilled"]
<1>1. m \in Markets /\ after \in Markets /\ n \in DOMAIN after.orders /\ after.orders[n].pair = o.pair
  BY DEF MarketGood, Follows
<1>2. o \in Order /\ after.orders[n] \in Order /\ after.pairs \in Seq(Pair)
  BY <1>1, MarketParts
<1>3. filled \in Order /\ filled.pair = o.pair
  <2>1. o.remaining \in Nat /\ after.orders[n].traded \in Nat /\ amount <= o.remaining
    BY <1>2 DEF Order
  <2> DEFINE x == o.remaining - amount
             y == after.orders[n].traded + amount
             z == IF amount = o.remaining THEN "Filled" ELSE "PartiallyFilled"
  <2>2. x \in Nat /\ y \in Nat /\ z \in {"Open", "PartiallyFilled", "Filled", "Cancelled"}
    BY <2>1
  <2> HIDE DEF x, y, z, o
  <2>3. [o EXCEPT !.remaining = x, !.traded = y, !.status = z] \in Order
        /\ [o EXCEPT !.remaining = x, !.traded = y, !.status = z].pair = o.pair
    BY <1>2, <2>2 DEF Order
  <2> QED
    BY <2>3 DEF x, y, z
<1>4. FilledBy(m, n, amount, after) = Rewritten(after, n, filled)
  <2> DEFINE book == [after.orders EXCEPT ![n] = filled]
             r == Requoted(after.pairs[o.pair], o.pair, book)
  <2>1. FilledBy(m, n, amount, after) = [after EXCEPT !.orders = book, !.pairs[o.pair] = r]
    BY DEF FilledBy
  <2>2. Rewritten(after, n, filled) = [after EXCEPT !.orders = book, !.pairs = [after.pairs EXCEPT ![o.pair] = r]]
    BY <1>3 DEF Rewritten, Written
  <2> HIDE DEF book, r, filled, o
  <2>3. after = [after EXCEPT !.gas = after.gas] /\ DOMAIN after = {"pairs", "orders", "balance", "supply", "scores", "gas"}
    BY <1>1 DEF Markets
  <2> QED
    BY <2>1, <2>2, <2>3
<1>5. MarketGood(after)
  BY DEF Follows
<1> HIDE DEF filled
<1>6. Follows(after, Rewritten(after, n, filled))
  BY <1>1, <1>3, <1>5, RewrittenFollows
<1> QED
  BY <1>1, <1>4, <1>6, FollowsOn

\* What can be filled can be swapped: the pools are not empty.
LEMMA FillableSwap ==
    ASSUME NEW m, MarketGood(m), NEW n \in DOMAIN m.orders, NEW requested, CanFill(m, n, requested)
    PROVE  /\ m.orders[n] \in Order /\ m.orders[n].pair \in DOMAIN m.pairs
           /\ m.pairs[m.orders[n].pair].base # 0 /\ m.pairs[m.orders[n].pair].quote # 0
  BY MarketParts DEF MarketGood, CanFill, CanSwap

\* What a swap, with all it sets off, may make of a market.
SwapsFollow(afterSwap) ==
    \A s \in Swaps :
        /\ MarketGood(s.market) /\ s.pair \in DOMAIN s.market.pairs
        /\ s.market.pairs[s.pair].base # 0 /\ s.market.pairs[s.pair].quote # 0
        => Follows(s.market, afterSwap[s])

\* The market once the n-th order has had its turn.
Turn(afterSwap, moved, p, caller, n, m) ==
    IF n \in ExecutableOrders(moved, p) /\ CanFill(m, n, m.orders[n].remaining)
    THEN FilledBy(m, n, m.orders[n].remaining,
                  afterSwap[SwapOf(m, m.orders[n].pair, m.orders[n].side, m.orders[n].remaining, caller)])
    ELSE m

\* The market after every number of orders.
Turns(afterSwap, moved, p, caller, k, f) ==
    f = [n \in 0..k |-> IF n = 0 THEN moved ELSE Turn(afterSwap, moved, p, caller, n, f[n - 1])]

\* All orders have had their turn (process_executable_limit_orders).
LEMMA FillAllUnfold ==
    ASSUME NEW afterSwap, NEW moved, NEW p, NEW caller
    PROVE  FillAll(afterSwap, moved, p, caller) =
               (CHOOSE f : Turns(afterSwap, moved, p, caller, Len(moved.orders), f))[Len(moved.orders)]
  BY DEF FillAll, Turns, Turn

\* Every order gets its turn.
LEMMA TurnsExist ==
    ASSUME NEW afterSwap, NEW moved, NEW p, NEW caller, NEW k \in Nat
    PROVE  \E f : Turns(afterSwap, moved, p, caller, k, f)
<1> DEFINE P == {n \in Nat : \E f : Turns(afterSwap, moved, p, caller, n, f)}
<1>1. 0 \in P
  <2> DEFINE e == [n \in 0..0 |-> moved]
  <2>1. Turns(afterSwap, moved, p, caller, 0, e)
    BY DEF Turns
  <2> HIDE DEF e
  <2> QED
    BY <2>1
<1>2. ASSUME NEW n \in Nat, n \in P
      PROVE  n + 1 \in P
  <2>1. PICK f : Turns(afterSwap, moved, p, caller, n, f)
    BY <1>2
  <2> DEFINE g == [i \in 0..(n + 1) |-> IF i = n + 1 THEN Turn(afterSwap, moved, p, caller, n + 1, f[n]) ELSE f[i]]
  <2>2. \A i \in 0..n : g[i] = f[i]
    OBVIOUS
  <2>3. g[n + 1] = Turn(afterSwap, moved, p, caller, n + 1, f[n])
    OBVIOUS
  <2>4. g = [i \in 0..(n + 1) |-> g[i]]
    OBVIOUS
  <2> HIDE DEF g
  <2>5. ASSUME NEW i \in 0..(n + 1)
        PROVE  g[i] = IF i = 0 THEN moved ELSE Turn(afterSwap, moved, p, caller, i, g[i - 1])
    <3>1. CASE i = n + 1
      BY <2>2, <2>3, <3>1
    <3>2. CASE i # n + 1
      BY <3>2, <2>2, <2>1 DEF Turns
    <3> QED
      BY <3>1, <3>2
  <2>6. Turns(afterSwap, moved, p, caller, n + 1, g)
    BY <2>4, <2>5 DEF Turns
  <2> QED
    BY <2>6
<1> HIDE DEF P
<1>3. k \in P
  BY <1>1, <1>2, NatInduct
<1> QED
  BY <1>3 DEF P

\* A turn that comes leaves a market that follows.
LEMMA TurnFollows ==
    ASSUME NEW afterSwap, SwapsFollow(afterSwap), NEW moved, MarketGood(moved), NEW p, NEW caller \in Traders,
           NEW m, Follows(moved, m), NEW n \in DOMAIN moved.orders
    PROVE  Follows(moved, Turn(afterSwap, moved, p, caller, n, m))
<1> DEFINE o == m.orders[n]
           s == SwapOf(m, o.pair, o.side, o.remaining, caller)
<1>1. CASE n \in ExecutableOrders(moved, p) /\ CanFill(m, n, o.remaining)
  <2>1. MarketGood(m) /\ n \in DOMAIN m.orders /\ m \in Markets /\ moved \in Markets
    BY DEF Follows, MarketGood
  <2>2. o \in Order /\ o.pair \in DOMAIN m.pairs /\ m.pairs[o.pair].base # 0 /\ m.pairs[o.pair].quote # 0
    BY <1>1, <2>1, FillableSwap
  <2>3. o.pair \in Nat /\ o.side \in Sides /\ o.remaining \in Nat
    BY <2>2 DEF Order
  <2> HIDE DEF o
  <2>4. s \in Swaps /\ s.market = m /\ s.pair = o.pair
    BY <2>1, <2>3 DEF Swaps, SwapOf
  <2> HIDE DEF s
  <2>5. Follows(m, afterSwap[s])
    BY <2>1, <2>2, <2>4 DEF SwapsFollow
  <2>6. o.remaining <= m.orders[n].remaining
    BY <2>3 DEF o
  <2>7. Follows(m, FilledBy(m, n, o.remaining, afterSwap[s]))
    BY <2>1, <2>3, <2>5, <2>6, FilledFollows
  <2>8. Turn(afterSwap, moved, p, caller, n, m) = FilledBy(m, n, o.remaining, afterSwap[s])
    BY <1>1 DEF Turn, o, s
  <2> QED
    BY <2>1, <2>7, <2>8, FollowsOn
<1>2. CASE ~(n \in ExecutableOrders(moved, p) /\ CanFill(m, n, o.remaining))
  BY <1>2, Zenon DEF Turn
<1> QED
  BY <1>1, <1>2

\* The fills that a swap sets off, given that the swap of each of them follows.
LEMMA FillAllFollows ==
    ASSUME NEW afterSwap, SwapsFollow(afterSwap), NEW moved, MarketGood(moved), NEW p, NEW caller \in Traders
    PROVE  Follows(moved, FillAll(afterSwap, moved, p, caller))
<1> DEFINE k == Len(moved.orders)
           f == CHOOSE h : Turns(afterSwap, moved, p, caller, k, h)
           P == {n \in Nat : n <= k => Follows(moved, f[n])}
<1>1. moved.orders \in Seq(Order)
  BY MarketParts DEF MarketGood
<1>2. k \in Nat /\ DOMAIN moved.orders = 1..k
  BY <1>1, LenProperties
<1> HIDE DEF k
<1>3. Turns(afterSwap, moved, p, caller, k, f)
  BY <1>2, TurnsExist
<1>4. FillAll(afterSwap, moved, p, caller) = f[k]
  BY FillAllUnfold DEF k
<1> HIDE DEF f
<1>5. 0 \in P
  <2>1. f[0] = moved
    BY <1>2, <1>3 DEF Turns
  <2>2. Follows(moved, moved)
    BY FollowsItself
  <2> QED
    BY <2>1, <2>2
<1>6. ASSUME NEW n \in Nat, n \in P
      PROVE  n + 1 \in P
  <2> SUFFICES ASSUME n + 1 <= k
               PROVE  Follows(moved, f[n + 1])
    OBVIOUS
  <2>1. n <= k /\ n + 1 \in 0..k /\ n + 1 \in 1..k /\ n + 1 # 0 /\ (n + 1) - 1 = n
    BY <1>2
  <2>2. Follows(moved, f[n])
    BY <1>6, <2>1
  <2>3. f[n + 1] = Turn(afterSwap, moved, p, caller, n + 1, f[n])
    BY <1>3, <2>1 DEF Turns
  <2>4. n + 1 \in DOMAIN moved.orders
    BY <1>2, <2>1
  <2>5. Follows(moved, Turn(afterSwap, moved, p, caller, n + 1, f[n]))
    BY <2>2, <2>4, TurnFollows
  <2> QED
    BY <2>3, <2>5
<1>7. k \in P
  <2> HIDE DEF P
  <2> QED
    BY <1>2, <1>5, <1>6, NatInduct
<1> QED
  BY <1>2, <1>4, <1>7

\* Swaps of every depth up to k.
Swapping(k, f) ==
    f = [depth \in 0..k |-> [s \in Swaps |->
            IF 0 \in {depth, s.market.gas} THEN [s.market EXCEPT !.gas = -1]
            ELSE FillAll(f[depth - 1], Moved(s.market, s.pair, s.side, s.amount, s.caller), s.pair, s.caller)]]

\* The recursion of swaps ends, as each is less deep than the one that set it off.
LEMMA SwappingExists ==
    ASSUME NEW k \in Nat
    PROVE  \E f : Swapping(k, f)
<1> DEFINE level(d, below) ==
             [s \in Swaps |-> IF 0 \in {d, s.market.gas} THEN [s.market EXCEPT !.gas = -1]
                ELSE FillAll(below, Moved(s.market, s.pair, s.side, s.amount, s.caller), s.pair, s.caller)]
           Levels(n, f) == f = [d \in 0..n |-> level(d, f[d - 1])]
           P == {n \in Nat : \E f : Levels(n, f)}
<1>0. \A x, y : level(0, x) = level(0, y)
  OBVIOUS
<1>9. \A n \in Nat : \A f : Levels(n, f) <=> Swapping(n, f)
  BY DEF Swapping
<1> HIDE DEF level
<1>1. 0 \in P
  <2> DEFINE e == [d \in 0..0 |-> level(0, d)]
  <2>1. e = [d \in 0..0 |-> level(d, e[d - 1])]
    <3>1. \A d \in 0..0 : d = 0
      OBVIOUS
    <3>2. \A d \in 0..0 : level(0, d) = level(d, e[d - 1])
      <4> TAKE d \in 0..0
      <4>1. d = 0
        BY <3>1
      <4> HIDE DEF e
      <4>2. level(0, d) = level(0, e[d - 1])
        BY <1>0
      <4> QED
        BY <4>1, <4>2
    <3> QED
      BY <3>2
  <2> HIDE DEF e
  <2> QED
    BY <2>1
<1>2. ASSUME NEW n \in Nat, n \in P
      PROVE  n + 1 \in P
  <2>1. PICK f : Levels(n, f)
    BY <1>2
  <2> DEFINE g == [d \in 0..(n + 1) |-> IF d = n + 1 THEN level(n + 1, f[n]) ELSE f[d]]
  <2>2. \A d \in 0..n : g[d] = f[d]
    OBVIOUS
  <2>3. g[n + 1] = level(n + 1, f[n])
    OBVIOUS
  <2>4. g = [d \in 0..(n + 1) |-> g[d]]
    OBVIOUS
  <2> HIDE DEF g
  <2>5. ASSUME NEW d \in 0..(n + 1)
        PROVE  g[d] = level(d, g[d - 1])
    <3>1. CASE d = n + 1
      BY <2>2, <2>3, <3>1
    <3>2. CASE d # n + 1
      <4>1. d \in 0..n
        BY <3>2
      <4>2. g[d] = f[d] /\ f[d] = level(d, f[d - 1])
        BY <2>1, <2>2, <4>1
      <4>3. CASE d = 0
        BY <1>0, <4>2, <4>3
      <4>4. CASE d # 0
        BY <4>1, <4>4, <2>2, <4>2
      <4> QED
        BY <4>3, <4>4
    <3> QED
      BY <3>1, <3>2
  <2>6. Levels(n + 1, g)
    BY <2>4, <2>5
  <2> QED
    BY <2>6
<1>3. k \in P
  <2> HIDE DEF P
  <2> QED
    BY <1>1, <1>2, NatInduct
<1> HIDE DEF Levels
<1> QED
  BY <1>3, <1>9

\* However deep fills are nested in swaps, of whatever orders, a swap leaves a market whose
\* pools are worth no less and whose books agree (swap, process_executable_limit_orders,
\* execute_order_core).
LEMMA AfterSwapFollows ==
    ASSUME RewardsTick, NEW k \in 0..MaxSwaps
    PROVE  SwapsFollow(AfterSwap[k])
<1> DEFINE P == {n \in Nat : n <= MaxSwaps => SwapsFollow(AfterSwap[n])}
<1>1. AfterSwap = CHOOSE f : Swapping(MaxSwaps, f)
  BY DEF AfterSwap, Swapping
<1>2. Swapping(MaxSwaps, AfterSwap)
  BY <1>1, SwappingExists, DexFacts
<1>3. ASSUME NEW d \in 0..MaxSwaps, NEW s \in Swaps
      PROVE  AfterSwap[d][s] =
                 IF 0 \in {d, s.market.gas} THEN [s.market EXCEPT !.gas = -1]
                 ELSE FillAll(AfterSwap[d - 1], Moved(s.market, s.pair, s.side, s.amount, s.caller), s.pair, s.caller)
  <2>1. AfterSwap[d] = [t \in Swaps |->
            IF 0 \in {d, t.market.gas} THEN [t.market EXCEPT !.gas = -1]
            ELSE FillAll(AfterSwap[d - 1], Moved(t.market, t.pair, t.side, t.amount, t.caller), t.pair, t.caller)]
    BY <1>2 DEF Swapping
  <2> QED
    BY <2>1
<1>4. 0 \in P
  <2>1. ASSUME NEW s \in Swaps, MarketGood(s.market)
        PROVE  Follows(s.market, AfterSwap[0][s])
    <3>1. 0 \in 0..MaxSwaps
      BY DexFacts
    <3>2. AfterSwap[0][s] = [s.market EXCEPT !.gas = -1]
      BY <1>3, <3>1
    <3> QED
      BY <2>1, <3>2, FollowsItself
  <2> QED
    BY <2>1 DEF SwapsFollow
<1>5. ASSUME NEW n \in Nat, n \in P
      PROVE  n + 1 \in P
  <2> SUFFICES ASSUME n + 1 <= MaxSwaps
               PROVE  SwapsFollow(AfterSwap[n + 1])
    OBVIOUS
  <2>1. SwapsFollow(AfterSwap[n]) /\ n + 1 \in 0..MaxSwaps /\ n + 1 # 0 /\ (n + 1) - 1 = n
    BY <1>5, DexFacts
  <2>2. ASSUME NEW s \in Swaps, MarketGood(s.market), s.pair \in DOMAIN s.market.pairs,
               s.market.pairs[s.pair].base # 0, s.market.pairs[s.pair].quote # 0
        PROVE  Follows(s.market, AfterSwap[n + 1][s])
    <3> DEFINE m == s.market
               moved == Moved(m, s.pair, s.side, s.amount, s.caller)
    <3>1. AfterSwap[n + 1][s] = IF 0 \in {n + 1, m.gas} THEN [m EXCEPT !.gas = -1]
                                ELSE FillAll(AfterSwap[n], moved, s.pair, s.caller)
      BY <1>3, <2>1
    <3>2. m \in Markets /\ s.side \in Sides /\ s.amount \in Nat /\ s.caller \in Traders
      BY DEF Swaps
    <3>3. CASE 0 \in {n + 1, m.gas}
      BY <3>1, <3>3, <2>2, FollowsItself
    <3>4. CASE ~(0 \in {n + 1, m.gas})
      <4>1. AfterSwap[n + 1][s] = FillAll(AfterSwap[n], moved, s.pair, s.caller)
        BY <3>1, <3>4
      <4>2. Follows(m, moved)
        BY <2>2, <3>2, MovedFollows
      <4>3. MarketGood(moved)
        BY <4>2 DEF Follows
      <4> HIDE DEF moved
      <4>4. Follows(moved, FillAll(AfterSwap[n], moved, s.pair, s.caller))
        BY <2>1, <3>2, <4>3, FillAllFollows
      <4> QED
        BY <3>2, <4>1, <4>2, <4>4, FollowsOn
    <3> QED
      BY <3>3, <3>4
  <2> QED
    BY <2>2 DEF SwapsFollow
<1>6. k \in P
  <2>1. k \in Nat
    BY DexFacts
  <2> HIDE DEF P
  <2> QED
    BY <1>4, <1>5, <2>1, NatInduct
<1> QED
  BY <1>6, DexFacts

\* A swap message, and the execution of an order, whatever either sets off.
LEMMA SwappedFollows ==
    ASSUME RewardsTick, NEW m, MarketGood(m), NEW p \in DOMAIN m.pairs, NEW side \in Sides, NEW in \in Nat,
           NEW caller \in Traders, m.pairs[p].base # 0, m.pairs[p].quote # 0
    PROVE  Follows(m, Swapped(m, p, side, in, caller))
<1> DEFINE s == SwapOf(m, p, side, in, caller)
<1>1. m \in Markets /\ p \in Nat
  BY MarketParts, LenProperties DEF MarketGood
<1>2. s \in Swaps /\ s.market = m /\ s.pair = p
  BY <1>1 DEF Swaps, SwapOf
<1>3. MaxSwaps \in 0..MaxSwaps
  BY DexFacts
<1>4. SwapsFollow(AfterSwap[MaxSwaps])
  BY <1>3, AfterSwapFollows
<1> HIDE DEF s
<1>5. Follows(m, AfterSwap[MaxSwaps][s])
  BY <1>2, <1>4 DEF SwapsFollow
<1> QED
  BY <1>5 DEF Swapped, s

----
\* The invariant

\* Pools, orders, governance tokens and scores.
BooksGood(ps, os, bs, supply, sc) ==
    /\ ps \in Seq(Pair) /\ os \in Seq(Order) /\ bs \in [Traders -> Nat] /\ supply \in Nat
    /\ sc \in Seq([Traders -> Nat])
    /\ \A n \in DOMAIN os : os[n].pair \in DOMAIN ps
    /\ QuotesRight(ps, os)
    /\ supply = SumFunctionOnSet(bs, Traders)

\* The shares of a pool, provider by provider.
SharesOf(position) == [a \in Traders |-> position[a].shares]

\* The positions of a pool hold its shares, and none owes more than its index has brought.
SharesAgree(ps, pos) ==
    /\ pos \in Seq([Traders -> Position]) /\ Len(pos) = Len(ps)
    /\ \A p \in DOMAIN ps :
          /\ ps[p].shares = SumFunctionOnSet(SharesOf(pos[p]), Traders)
          /\ \A a \in Traders : pos[p][a].debt <= Earned(pos[p][a].shares, ps[p].index)

\* Who has voted on a proposal (vote_on_proposal).
Ballots(cast, n) == {a \in Traders : <<n, a>> \in cast}

\* The votes of a proposal weigh no more than its voters' tokens.
BallotsGood(motions, cast, bs) ==
    /\ motions \in Seq(FeeProposal) /\ cast \subseteq ((DOMAIN motions) \X Traders)
    /\ \A n \in DOMAIN motions : motions[n].for + motions[n].against <= SumFunctionOnSet(bs, Ballots(cast, n))

\* Contests, the list of their scores, and prizes claimed of stored contests only.
ContestsGood(list, sc, claimed) ==
    list \in Seq(Contest) /\ Len(sc) = Len(list) /\ claimed \subseteq ((DOMAIN list) \X Traders)

\* Cross-chain trades of stored pairs.
CrossTrade(ps) == [pair : DOMAIN ps, trader : Traders, status : {"Pending", "BridgeRequested", "Settled"}]

\* What the admin's messages set.
SettingsGood == RewardsTick /\ routes \subseteq Destinations /\ timelock \in Nat /\ adminActions \in Seq(AdminAction)

\* The inductive invariant of the exchange, by the parts of the state that change together.
DexInv ==
    /\ BooksGood(pairs, orders, govBalance, govSupply, scores)
    /\ SharesAgree(pairs, positions)
    /\ BallotsGood(feeProposals, votesCast, govBalance)
    /\ ContestsGood(contests, scores, prizesClaimed)
    /\ crossTrades \in Seq(CrossTrade(pairs))
    /\ SettingsGood

\* What a share of every pool is worth does not fall.
WorthNoLess(ps, qs) ==
    \A p \in DOMAIN ps :
        LET a == ps[p]
            b == qs[p]
        IN  a.shares > 0 /\ b.shares > 0 => b.base * b.quote * a.shares * a.shares >= a.base * a.quote * b.shares * b.shares

\* The market that a swap begins with is the stored one.
LEMMA MarketIs == BooksGood(pairs, orders, govBalance, govSupply, scores) => MarketGood(Market)
  BY DexFacts DEF BooksGood, MarketGood, Market, Markets

\* The lists' elements.
LEMMA BooksParts ==
    ASSUME NEW ps, NEW os, NEW bs, NEW supply, NEW sc, BooksGood(ps, os, bs, supply, sc)
    PROVE  /\ DOMAIN ps = 1..Len(ps) /\ Len(ps) \in Nat /\ \A p \in DOMAIN ps : ps[p] \in Pair
           /\ DOMAIN os = 1..Len(os) /\ Len(os) \in Nat /\ \A n \in DOMAIN os : os[n] \in Order
           /\ \A a \in Traders : bs[a] \in Nat
  BY ElementOfSeq, LenProperties DEF BooksGood

\* The positions of every pool, by its traders.
LEMMA SharesParts ==
    ASSUME NEW ps \in Seq(Pair), NEW pos, SharesAgree(ps, pos)
    PROVE  /\ DOMAIN pos = DOMAIN ps /\ \A p \in DOMAIN ps : pos[p] \in [Traders -> Position]
           /\ \A p \in DOMAIN ps : \A a \in Traders :
                 pos[p][a] \in Position /\ SharesOf(pos[p])[a] = pos[p][a].shares /\ pos[p][a].shares \in Nat
<1>1. pos \in Seq([Traders -> Position]) /\ Len(pos) = Len(ps)
  BY DEF SharesAgree
<1>2. DOMAIN pos = 1..Len(pos) /\ DOMAIN ps = 1..Len(ps) /\ \A p \in DOMAIN pos : pos[p] \in [Traders -> Position]
  BY <1>1, ElementOfSeq, LenProperties
<1>3. ASSUME NEW p \in DOMAIN ps, NEW a \in Traders
      PROVE  pos[p][a] \in Position /\ SharesOf(pos[p])[a] = pos[p][a].shares /\ pos[p][a].shares \in Nat
  BY <1>1, <1>2, <1>3 DEF SharesOf, Position
<1> QED
  BY <1>1, <1>2, <1>3

\* Where shares stay and indices grow, positions still agree.
LEMMA SharesStay ==
    ASSUME NEW ps \in Seq(Pair), NEW qs \in Seq(Pair), NEW pos, SharesAgree(ps, pos), DOMAIN qs = DOMAIN ps,
           \A p \in DOMAIN ps : qs[p].shares = ps[p].shares /\ ps[p].index <= qs[p].index
    PROVE  SharesAgree(qs, pos)
<1>1. DOMAIN ps = 1..Len(ps) /\ DOMAIN qs = 1..Len(qs) /\ Len(ps) \in Nat /\ Len(qs) \in Nat
  BY LenProperties
<1>2. Len(qs) = Len(ps)
  BY <1>1
<1>3. ASSUME NEW p \in DOMAIN qs, NEW a \in Traders
      PROVE  pos[p][a].debt <= Earned(pos[p][a].shares, qs[p].index)
  <2>1. p \in DOMAIN ps /\ pos[p][a].debt <= Earned(pos[p][a].shares, ps[p].index)
    BY DEF SharesAgree
  <2>2. pos[p][a] \in Position /\ pos[p][a].shares \in Nat /\ pos[p][a].debt \in Nat
    BY <2>1, SharesParts DEF Position
  <2>3. ps[p].index \in Nat /\ qs[p].index \in Nat
    <3>1. ps[p] \in Pair /\ qs[p] \in Pair
      BY <2>1, ElementOfSeq, <1>1
    <3> QED
      BY <3>1 DEF Pair
  <2>4. ps[p].index <= qs[p].index
    BY <2>1
  <2>5. /\ Earned(pos[p][a].shares, ps[p].index) \in Nat /\ Earned(pos[p][a].shares, qs[p].index) \in Nat
        /\ Earned(pos[p][a].shares, ps[p].index) <= Earned(pos[p][a].shares, qs[p].index)
    BY <2>2, <2>3, <2>4, EarnedGrows
  <2> QED
    BY <2>1, <2>2, <2>5
<1> QED
  BY <1>2, <1>3 DEF SharesAgree

\* Where balances only grow, votes still weigh no more than their voters' tokens.
LEMMA BallotsStay ==
    ASSUME NEW motions, NEW cast, NEW bs \in [Traders -> Nat], NEW cs \in [Traders -> Nat],
           BallotsGood(motions, cast, bs), \A a \in Traders : bs[a] <= cs[a]
    PROVE  BallotsGood(motions, cast, cs)
<1>1. ASSUME NEW n \in DOMAIN motions
      PROVE  motions[n].for + motions[n].against <= SumFunctionOnSet(cs, Ballots(cast, n))
  <2> DEFINE V == Ballots(cast, n)
  <2>1. V \subseteq Traders
    BY DEF Ballots
  <2>2. motions[n].for + motions[n].against <= SumFunctionOnSet(bs, V)
    BY DEF BallotsGood
  <2>3. motions[n].for \in Nat /\ motions[n].against \in Nat
    <3>1. motions \in Seq(FeeProposal)
      BY DEF BallotsGood
    <3>2. motions[n] \in FeeProposal
      BY <3>1, ElementOfSeq, LenProperties
    <3> QED
      BY <3>2 DEF FeeProposal
  <2> HIDE DEF V
  <2>4. IsFiniteSet(V) /\ \A a \in V : bs[a] \in Int /\ cs[a] \in Int /\ bs[a] <= cs[a]
    BY <2>1, FS_Subset, DexFacts
  <2>5. SumFunctionOnSet(bs, V) <= SumFunctionOnSet(cs, V) /\ SumFunctionOnSet(bs, V) \in Int /\ SumFunctionOnSet(cs, V) \in Int
    BY <2>4, SumMonotone, SumType
  <2>6. motions[n].for + motions[n].against <= SumFunctionOnSet(cs, V)
    BY <2>2, <2>3, <2>5
  <2> QED
    BY <2>6 DEF V
<1> QED
  BY <1>1 DEF BallotsGood

\* A pool whose worth is kept, as by swaps.
LEMMA KeptWorth ==
    ASSUME NEW a \in Pair, NEW b \in Pair, Kept(a, b)
    PROVE  b.base * b.quote * a.shares * a.shares >= a.base * a.quote * b.shares * b.shares
  BY ProductGrows DEF Pair, Kept

\* The books, the positions and the votes agree in a state: what the property says.
LEMMA BooksAreRight == DexInv => MarketBooksAgree
<1> SUFFICES ASSUME DexInv
             PROVE  MarketBooksAgree
  OBVIOUS
<1>1. BooksGood(pairs, orders, govBalance, govSupply, scores) /\ SharesAgree(pairs, positions)
  BY DEF DexInv
<1>2. pairs \in Seq(Pair) /\ orders \in Seq(Order) /\ govBalance \in [Traders -> Nat] /\ govSupply \in Nat
  BY <1>1 DEF BooksGood
<1>3. positions \in [pairIds -> [Traders -> Position]]
  BY <1>1, <1>2, SharesParts DEF SharesAgree, pairIds
<1>4. /\ contests \in Seq(Contest) /\ scores \in [DOMAIN contests -> [Traders -> Nat]]
      /\ prizesClaimed \subseteq ((DOMAIN contests) \X Traders)
  BY <1>1, ElementOfSeq, LenProperties DEF BooksGood, DexInv, ContestsGood
<1>5. feeProposals \in Seq(FeeProposal) /\ votesCast \subseteq ((DOMAIN feeProposals) \X Traders)
  BY DEF DexInv, BallotsGood
<1>6. DexTypeOK
  BY <1>2, <1>3, <1>4, <1>5 DEF DexTypeOK, DexInv, SettingsGood, RewardsTick, CrossTrade, pairIds
<1>7. DexBooksAgree
  BY <1>1 DEF DexBooksAgree, SharesAgree, pairIds, BooksGood, SharesOf, QuotesRight
<1>8. VotesWithinSupply
  <2>1. govSupply = SumFunctionOnSet(govBalance, Traders)
    BY <1>1 DEF BooksGood
  <2>2. ASSUME NEW n \in DOMAIN feeProposals
        PROVE  feeProposals[n].for + feeProposals[n].against <= govSupply
    <3> DEFINE V == Ballots(votesCast, n)
    <3>1. feeProposals[n].for + feeProposals[n].against <= SumFunctionOnSet(govBalance, V)
      BY DEF DexInv, BallotsGood
    <3>2. V \in SUBSET Traders
      BY DEF Ballots
    <3>3. feeProposals[n].for \in Nat /\ feeProposals[n].against \in Nat
      <4>1. feeProposals[n] \in FeeProposal
        BY <1>5, ElementOfSeq, LenProperties
      <4> QED
        BY <4>1 DEF FeeProposal
    <3> HIDE DEF V
    <3>4. \A a \in Traders : govBalance[a] \in Nat
      BY <1>2
    <3>5. /\ SumFunctionOnSet(govBalance, V) \in Nat /\ SumFunctionOnSet(govBalance, Traders) \in Nat
          /\ SumFunctionOnSet(govBalance, V) <= SumFunctionOnSet(govBalance, Traders)
      BY <3>2, <3>4, SumSubset, DexFacts
    <3> QED
      BY <2>1, <3>1, <3>3, <3>5
  <2> QED
    BY <2>1, <2>2 DEF VotesWithinSupply
<1> QED
  BY <1>6, <1>7, <1>8 DEF MarketBooksAgree

\* At first there are no pools, and all governance tokens are the deployer's.
LEMMA DexInvInit == ChainInit /\ DexInit => DexInv
<1> SUFFICES ASSUME ChainInit, DexInit
             PROVE  DexInv
  OBVIOUS
<1>1. /\ block = 1 /\ pairs = << >> /\ positions = << >> /\ orders = << >> /\ govSupply = GovernanceSupply
      /\ govBalance = [a \in Traders |-> IF a = DexAdmin THEN GovernanceSupply ELSE 0]
      /\ mining = [rate |-> EmissionRate, start |-> 0, end |-> MaxBlock]
      /\ feeProposals = << >> /\ votesCast = {} /\ contests = << >> /\ scores = << >> /\ prizesClaimed = {}
      /\ routes = {} /\ crossTrades = << >> /\ timelock = 0 /\ adminActions = << >>
  BY DEF ChainInit, DexInit
<1>2. govBalance \in [Traders -> Nat] /\ govSupply \in Nat
  BY <1>1, DexFacts
<1>3. govSupply = SumFunctionOnSet(govBalance, Traders)
  <2> DEFINE zero == [a \in Traders |-> 0]
             bs == govBalance
  <2>1. SumFunctionOnSet(zero, Traders) = 0
    BY SumZero, DexFacts
  <2>2. \A a \in Traders : zero[a] \in Int /\ bs[a] \in Int
    BY <1>2
  <2>3. \A a \in Traders \ {DexAdmin} : zero[a] = bs[a]
    BY <1>1
  <2>4. zero[DexAdmin] = 0 /\ bs[DexAdmin] = GovernanceSupply
    BY <1>1, DexFacts
  <2> HIDE DEF zero, bs
  <2>5. SumFunctionOnSet(bs, Traders) = SumFunctionOnSet(zero, Traders) - zero[DexAdmin] + bs[DexAdmin]
    BY <2>2, <2>3, SumChange, DexFacts
  <2> QED
    BY <1>1, <2>1, <2>4, <2>5, DexFacts DEF bs
<1>4. DOMAIN pairs = {} /\ DOMAIN orders = {} /\ DOMAIN feeProposals = {}
  BY <1>1
<1>5. BooksGood(pairs, orders, govBalance, govSupply, scores)
  BY <1>1, <1>2, <1>3, <1>4 DEF BooksGood, QuotesRight
<1>6. SharesAgree(pairs, positions)
  BY <1>1, <1>4 DEF SharesAgree
<1>7. BallotsGood(feeProposals, votesCast, govBalance)
  BY <1>1, <1>4 DEF BallotsGood
<1>8. ContestsGood(contests, scores, prizesClaimed)
  BY <1>1 DEF ContestsGood
<1>9. SettingsGood
  BY <1>1, DexFacts DEF SettingsGood, RewardsTick
<1> QED
  BY <1>1, <1>5, <1>6, <1>7, <1>8, <1>9 DEF DexInv

----
\* Swaps and orders

\* What a message does to the books and leaves of everything else.
OthersStay == UNCHANGED <<positions, feeProposals, votesCast, contests, prizesClaimed, crossTrades, dexAdminVars, block>>

\* The settings and the campaign, where no message touches them.
LEMMA SettingsStay == SettingsGood /\ UNCHANGED <<block, dexAdminVars>> => SettingsGood'
  BY DEF SettingsGood, RewardsTick, dexAdminVars

\* The scores are a list of which only the length is asked.
LEMMA ScoresStay ==
    ASSUME NEW list, NEW sc \in Seq([Traders -> Nat]), NEW td \in Seq([Traders -> Nat]), NEW claimed,
           ContestsGood(list, sc, claimed), DOMAIN td = DOMAIN sc
    PROVE  ContestsGood(list, td, claimed)
  BY LenProperties DEF ContestsGood

\* The market that a swap leaves is stored, with everything that it set off.
LEMMA MarketStored ==
    ASSUME DexInv, NEW after, Follows(Market, after), SetMarket(after), OthersStay
    PROVE  DexInv' /\ WorthNoLess(pairs, pairs')
<1>1. /\ pairs' = after.pairs /\ orders' = after.orders /\ govBalance' = after.balance
      /\ govSupply' = after.supply /\ scores' = after.scores
  BY DEF SetMarket
<1>2. /\ Market.pairs = pairs /\ Market.orders = orders /\ Market.balance = govBalance /\ Market.scores = scores
      /\ Market \in Markets
  BY MarketIs DEF DexInv, Market, MarketGood
<1>3. MarketGood(after) /\ after \in Markets
  BY DEF Follows, MarketGood
<1>4. after.pairs \in Seq(Pair) /\ after.orders \in Seq(Order) /\ after.balance \in [Traders -> Nat]
      /\ after.supply \in Nat /\ after.scores \in Seq([Traders -> Nat])
      /\ \A p \in DOMAIN after.pairs : after.pairs[p] \in Pair
  BY <1>3, MarketParts
<1>5. BooksGood(pairs, orders, govBalance, govSupply, scores)'
  BY <1>3, <1>4, <1>1 DEF BooksGood, MarketGood
<1>6. pairs \in Seq(Pair) /\ govBalance \in [Traders -> Nat] /\ scores \in Seq([Traders -> Nat])
      /\ \A p \in DOMAIN pairs : pairs[p] \in Pair
  BY <1>2, MarketParts
<1>7. /\ DOMAIN pairs' = DOMAIN pairs /\ \A p \in DOMAIN pairs : Kept(pairs[p], pairs'[p])
      /\ DOMAIN scores' = DOMAIN scores /\ \A a \in Traders : govBalance[a] <= govBalance'[a]
  BY <1>1, <1>2 DEF Follows
<1>8. pairs' \in Seq(Pair) /\ govBalance' \in [Traders -> Nat] /\ scores' \in Seq([Traders -> Nat])
      /\ \A p \in DOMAIN pairs : pairs'[p] \in Pair
  BY <1>1, <1>4, <1>7
<1>9. SharesAgree(pairs, positions)'
  BY <1>7, <1>6, <1>8, SharesStay DEF DexInv, Kept, OthersStay
<1>10. BallotsGood(feeProposals, votesCast, govBalance)'
  <2>1. BallotsGood(feeProposals, votesCast, govBalance)
    BY DEF DexInv
  <2>2. BallotsGood(feeProposals, votesCast, govBalance')
    BY <1>6, <1>7, <1>8, <2>1, BallotsStay
  <2> QED
    BY <2>2 DEF OthersStay
<1>11. ContestsGood(contests, scores, prizesClaimed)'
  <2>1. ContestsGood(contests, scores, prizesClaimed)
    BY DEF DexInv
  <2>2. ContestsGood(contests, scores', prizesClaimed)
    BY <1>6, <1>7, <1>8, <2>1, ScoresStay
  <2> QED
    BY <2>2 DEF OthersStay
<1>12. (crossTrades \in Seq(CrossTrade(pairs)))'
  BY <1>7 DEF CrossTrade, OthersStay, DexInv
<1>13. SettingsGood'
  BY SettingsStay DEF DexInv, OthersStay
<1>14. WorthNoLess(pairs, pairs')
  <2>1. ASSUME NEW p \in DOMAIN pairs
        PROVE  pairs'[p].base * pairs'[p].quote * pairs[p].shares * pairs[p].shares
                   >= pairs[p].base * pairs[p].quote * pairs'[p].shares * pairs'[p].shares
    BY <1>6, <1>7, <1>8, KeptWorth
  <2> QED
    BY <2>1 DEF WorthNoLess
<1> QED
  BY <1>5, <1>9, <1>10, <1>11, <1>12, <1>13, <1>14 DEF DexInv

\* A swap (swap_exact_in).
LEMMA SwapKeeps ==
    ASSUME DexInv, NEW caller \in Traders, NEW p \in pairIds, NEW side \in Sides, NEW amount \in DepositArgs,
           SwapExact(caller, p, side, amount)
    PROVE  DexInv' /\ WorthNoLess(pairs, pairs')
<1>1. MarketGood(Market) /\ Market.pairs = pairs /\ RewardsTick
  BY MarketIs DEF DexInv, Market, SettingsGood
<1>2. pairs[p].base # 0 /\ pairs[p].quote # 0
  BY <1>1 DEF SwapExact, CanSwap
<1>3. p \in DOMAIN Market.pairs /\ amount \in Nat
  BY <1>1, DexFacts DEF pairIds
<1> DEFINE after == Swapped(Market, p, side, amount, caller)
<1>4. Follows(Market, after)
  BY <1>1, <1>2, <1>3, SwappedFollows
<1>5. SetMarket(after) /\ OthersStay
  BY DEF SwapExact, OthersStay
<1> HIDE DEF after
<1> QED
  BY <1>4, <1>5, MarketStored

\* The execution of an order (execute_order).
LEMMA ExecuteKeeps ==
    ASSUME DexInv, NEW caller \in Traders, NEW n \in DOMAIN orders, NEW amount \in DepositArgs,
           ExecuteOrder(caller, n, amount)
    PROVE  DexInv' /\ WorthNoLess(pairs, pairs')
<1> DEFINE m == Market
           o == m.orders[n]
           x == Smaller(amount, o.remaining)
           swapped == Swapped(m, o.pair, o.side, x, caller)
           after == Filled(m, n, amount, caller)
<1>1. MarketGood(m) /\ n \in DOMAIN m.orders /\ RewardsTick
  BY MarketIs DEF DexInv, Market, SettingsGood
<1>2. CanFill(m, n, amount) /\ SetMarket(after) /\ OthersStay
  BY DEF ExecuteOrder, OthersStay
<1> HIDE DEF m
<1>3. o \in Order /\ o.pair \in DOMAIN m.pairs /\ m.pairs[o.pair].base # 0 /\ m.pairs[o.pair].quote # 0
  BY <1>1, <1>2, FillableSwap
<1>4. o.side \in Sides /\ o.remaining \in Nat /\ amount \in Nat
  BY <1>3, DexFacts DEF Order
<1>5. x \in Nat /\ x <= o.remaining
  BY <1>4 DEF Smaller
<1>6. after = FilledBy(m, n, x, swapped)
  BY DEF Filled
<1> HIDE DEF o, x, after
<1>7. Follows(m, swapped)
  BY <1>1, <1>3, <1>4, <1>5, SwappedFollows
<1> HIDE DEF swapped
<1>8. Follows(m, FilledBy(m, n, x, swapped))
  BY <1>1, <1>5, <1>7, FilledFollows DEF o
<1>9. Follows(Market, after)
  BY <1>6, <1>8 DEF m
<1> QED
  BY <1>2, <1>9, MarketStored

\* The orders of a pair are rewritten, and its quotes from the new book.
BookRewritten(p, book, q) ==
    /\ \A n \in DOMAIN book : book[n].pair \in pairIds
    /\ \A k \in pairIds \ {p} : \A side : BestPrice(book, k, side) = BestPrice(orders, k, side)
    /\ q.base = pairs[p].base /\ q.quote = pairs[p].quote /\ q.shares = pairs[p].shares /\ q.index = pairs[p].index
    /\ orders' = book /\ pairs' = Written(pairs, p, Requoted(q, p, book))
    /\ UNCHANGED <<govBalance, govSupply, scores>> /\ OthersStay

\* The book changes in orders of one pair, whose quotes are refreshed.
LEMMA BookStored ==
    ASSUME DexInv, NEW p \in pairIds, NEW book \in Seq(Order), NEW q \in Pair, BookRewritten(p, book, q)
    PROVE  DexInv' /\ WorthNoLess(pairs, pairs')
<1> USE DEF BookRewritten
<1> DEFINE r == Requoted(q, p, book)
           qs == Written(pairs, p, r)
<1>1. BooksGood(pairs, orders, govBalance, govSupply, scores) /\ p \in DOMAIN pairs /\ pairIds = DOMAIN pairs
  BY DEF DexInv, pairIds
<1>2. pairs \in Seq(Pair) /\ \A k \in DOMAIN pairs : pairs[k] \in Pair
  BY <1>1, BooksParts DEF BooksGood
<1>3. /\ r \in Pair /\ r.base = q.base /\ r.quote = q.quote /\ r.shares = q.shares /\ r.index = q.index
      /\ r.bid = BestPrice(book, p, "Buy") /\ r.ask = BestPrice(book, p, "Sell")
  BY RequotedPair
<1> HIDE DEF r
<1>4. qs \in Seq(Pair) /\ DOMAIN qs = DOMAIN pairs /\ qs[p] = r /\ \A k \in DOMAIN pairs \ {p} : qs[k] = pairs[k]
  BY <1>1, <1>2, <1>3, SeqWritten
<1> HIDE DEF qs
<1>5. pairs' = qs /\ orders' = book
  BY DEF qs, r
<1>6. \A k \in DOMAIN pairs : /\ qs[k].base = pairs[k].base /\ qs[k].quote = pairs[k].quote
                              /\ qs[k].shares = pairs[k].shares /\ qs[k].index = pairs[k].index
  BY <1>3, <1>4
<1>7. QuotesRight(qs, book)
  <2>1. QuotesRight(pairs, orders)
    BY <1>1 DEF BooksGood
  <2>2. ASSUME NEW k \in DOMAIN qs
        PROVE  qs[k].bid = BestPrice(book, k, "Buy") /\ qs[k].ask = BestPrice(book, k, "Sell")
    <3>1. CASE k = p
      BY <1>3, <1>4, <3>1
    <3>2. CASE k # p
      BY <1>1, <1>4, <3>2, <2>1 DEF QuotesRight
    <3> QED
      BY <3>1, <3>2
  <2> QED
    BY <2>2 DEF QuotesRight
<1>8. BooksGood(pairs, orders, govBalance, govSupply, scores)'
  BY <1>1, <1>4, <1>7, <1>5 DEF BooksGood
<1>9. SharesAgree(pairs, positions)'
  <2>1. SharesAgree(pairs, positions)
    BY DEF DexInv
  <2>2. \A k \in DOMAIN pairs : qs[k].shares = pairs[k].shares /\ pairs[k].index <= qs[k].index
    <3> TAKE k \in DOMAIN pairs
    <3>1. pairs[k].index \in Nat
      BY <1>2 DEF Pair
    <3> QED
      BY <1>6, <3>1
  <2>3. SharesAgree(qs, positions)
    BY <1>2, <1>4, <2>1, <2>2, SharesStay
  <2> QED
    BY <1>5, <2>3 DEF OthersStay
<1>10. /\ BallotsGood(feeProposals, votesCast, govBalance)' /\ ContestsGood(contests, scores, prizesClaimed)'
  BY DEF DexInv, OthersStay, BallotsGood, ContestsGood
<1>11. (crossTrades \in Seq(CrossTrade(pairs)))'
  BY <1>4, <1>5 DEF CrossTrade, OthersStay, DexInv
<1>12. SettingsGood'
  BY SettingsStay DEF DexInv, OthersStay
<1>13. WorthNoLess(pairs, qs)
  <2>1. ASSUME NEW k \in DOMAIN pairs
        PROVE  qs[k].base * qs[k].quote * pairs[k].shares * pairs[k].shares
                   >= pairs[k].base * pairs[k].quote * qs[k].shares * qs[k].shares
    <3>1. pairs[k].base \in Nat /\ pairs[k].quote \in Nat /\ pairs[k].shares \in Nat
      BY <1>2 DEF Pair
    <3>2. pairs[k].base * pairs[k].quote \in Nat
      BY <3>1, Products
    <3>3. pairs[k].base * pairs[k].quote <= pairs[k].base * pairs[k].quote
      BY <3>2
    <3>4. pairs[k].base * pairs[k].quote * pairs[k].shares * pairs[k].shares
              >= pairs[k].base * pairs[k].quote * pairs[k].shares * pairs[k].shares
      BY <3>1, <3>3, ProductGrows
    <3> QED
      BY <1>6, <3>4
  <2> QED
    BY <2>1 DEF WorthNoLess
<1> QED
  BY <1>5, <1>8, <1>9, <1>10, <1>11, <1>12, <1>13 DEF DexInv

\* The stored orders and the pairs they are of.
LEMMA StoredOrder ==
    ASSUME DexInv, NEW n \in DOMAIN orders
    PROVE  /\ orders \in Seq(Order) /\ orders[n] \in Order /\ orders[n].pair \in pairIds
           /\ pairs[orders[n].pair] \in Pair
  BY BooksParts DEF DexInv, BooksGood, pairIds

\* One more order (place_order).
LEMMA PlaceKeeps ==
    ASSUME DexInv, NEW caller \in Traders, NEW p \in pairIds, NEW side \in Sides, NEW kind \in OrderKinds,
           NEW amount \in DepositArgs, NEW price \in OrderPriceArgs, NEW trigger \in OrderPriceArgs,
           PlaceOrder(caller, p, side, kind, price, trigger, amount)
    PROVE  DexInv' /\ WorthNoLess(pairs, pairs')
<1> DEFINE o == [pair |-> p, trader |-> caller, side |-> side, kind |-> kind, price |-> price,
                 trigger |-> trigger, amount |-> amount, remaining |-> amount, traded |-> 0, status |-> "Open"]
           book == Append(orders, o)
           q == pairs[p]
<1>1. BooksGood(pairs, orders, govBalance, govSupply, scores) /\ p \in DOMAIN pairs /\ pairIds = DOMAIN pairs
  BY DEF DexInv, pairIds
<1>2. /\ orders \in Seq(Order) /\ q \in Pair /\ DOMAIN pairs = 1..Len(pairs) /\ p \in Nat
      /\ \A n \in DOMAIN orders : orders[n].pair \in pairIds
  BY <1>1, BooksParts DEF BooksGood
<1>3. o \in Order /\ o.pair = p
  BY DexFacts, <1>2 DEF Order
<1>4. SetBook(p, book)
  BY DEF PlaceOrder
<1>5. orders' = book /\ pairs' = Written(pairs, p, Requoted(q, p, book))
      /\ UNCHANGED <<govBalance, govSupply, scores>> /\ OthersStay
  BY <1>4 DEF SetBook, Written, OthersStay
<1> HIDE DEF o
<1>6. /\ book \in Seq(Order) /\ Len(book) = Len(orders) + 1 /\ Len(orders) \in Nat
      /\ DOMAIN orders = 1..Len(orders) /\ DOMAIN book = DOMAIN orders \cup {Len(orders) + 1}
      /\ book[Len(orders) + 1] = o /\ \A n \in DOMAIN orders : book[n] = orders[n]
  BY <1>2, <1>3, SeqAppended
<1> HIDE DEF book
<1>7. \A n \in DOMAIN book : book[n].pair \in pairIds
  BY <1>2, <1>3, <1>6
<1>8. \A k \in pairIds \ {p} : \A s : BestPrice(book, k, s) = BestPrice(orders, k, s)
  <2> TAKE k \in pairIds \ {p}
  <2> TAKE s
  <2>1. \A n \in 1..Len(orders) : orders[n] = book[n] \/ (orders[n].pair # k /\ book[n].pair # k)
    BY <1>6
  <2>2. \A n \in 1..Len(book) : n > Len(orders) => book[n].pair # k
    <3> TAKE n \in 1..Len(book)
    <3>1. n > Len(orders) => n = Len(orders) + 1
      BY <1>6
    <3> QED
      BY <1>3, <1>6, <3>1
  <2>3. Len(orders) <= Len(book)
    BY <1>6
  <2> QED
    BY <1>2, <1>6, <2>1, <2>2, <2>3, SameQuotes
<1>9. q.base = pairs[p].base /\ q.quote = pairs[p].quote /\ q.shares = pairs[p].shares /\ q.index = pairs[p].index
  OBVIOUS
<1> HIDE DEF q
<1> QED
  BY <1>5, <1>7, <1>8, <1>9, <1>2, <1>6, BookStored DEF BookRewritten

\* An order is cancelled, whatever its status (cancel_order).
LEMMA CancelKeeps ==
    ASSUME DexInv, NEW caller \in Traders, NEW n \in DOMAIN orders, CancelOrder(caller, n)
    PROVE  DexInv' /\ WorthNoLess(pairs, pairs')
<1> DEFINE o == orders[n]
           p == o.pair
           c == [o EXCEPT !.status = "Cancelled"]
           book == Written(orders, n, c)
           q == pairs[p]
<1>1. orders \in Seq(Order) /\ o \in Order /\ p \in pairIds /\ q \in Pair
      /\ \A k \in DOMAIN orders : orders[k].pair \in pairIds
  BY StoredOrder
<1>2. c \in Order /\ c.pair = p
  BY <1>1 DEF Order
<1>3. SetBook(p, book)
  BY DEF Written, CancelOrder
<1>4. orders' = book /\ pairs' = Written(pairs, p, Requoted(q, p, book))
      /\ UNCHANGED <<govBalance, govSupply, scores>> /\ OthersStay
  BY <1>3 DEF SetBook, Written, OthersStay
<1> HIDE DEF c, q
<1>5. book \in Seq(Order) /\ DOMAIN book = DOMAIN orders /\ book[n] = c /\ \A k \in DOMAIN orders \ {n} : book[k] = orders[k]
  BY <1>1, <1>2, SeqWritten
<1>6. \A k \in DOMAIN book : book[k].pair \in pairIds
  BY <1>1, <1>2, <1>5
<1>7. \A k \in pairIds \ {p} : \A s : BestPrice(book, k, s) = BestPrice(orders, k, s)
  BY <1>1, <1>2, OtherQuotesStay
<1> HIDE DEF book, p
<1>8. q.base = pairs[p].base /\ q.quote = pairs[p].quote /\ q.shares = pairs[p].shares /\ q.index = pairs[p].index
  BY DEF q
<1> QED
  BY <1>4, <1>6, <1>7, <1>8, <1>1, <1>5, BookStored DEF BookRewritten

\* Two orders are matched, whatever their status and prices are (match_orders).
LEMMA MatchKeeps ==
    ASSUME DexInv, NEW maker \in DOMAIN orders, NEW taker \in DOMAIN orders, NEW amount \in DepositArgs,
           MatchOrders(maker, taker, amount)
    PROVE  DexInv' /\ WorthNoLess(pairs, pairs')
<1> DEFINE a == orders[maker]
           b == orders[taker]
           p == a.pair
           fill == Smaller(amount, Smaller(a.remaining, b.remaining))
           price == IF a.price > 0 THEN a.price ELSE b.price
           after(o) == [o EXCEPT !.remaining = o.remaining - fill,
                                 !.status = IF fill = o.remaining THEN "Filled" ELSE "PartiallyFilled"]
           half == Written(orders, maker, after(a))
           book == Written(half, taker, after(b))
           q == [pairs[p] EXCEPT !.last = price]
<1>1. orders \in Seq(Order) /\ a \in Order /\ b \in Order /\ p \in pairIds /\ pairs[p] \in Pair
      /\ \A k \in DOMAIN orders : orders[k].pair \in pairIds
  BY StoredOrder
<1>2. /\ b.pair = p /\ a.side # b.side
      /\ orders' = [orders EXCEPT ![maker] = after(@), ![taker] = after(@)]
      /\ pairs' = [pairs EXCEPT ![p] = Requoted([@ EXCEPT !.last = price], p, orders')]
  BY DEF MatchOrders
<1>a. UNCHANGED <<govBalance, govSupply, scores>> /\ OthersStay
  BY DEF MatchOrders, OthersStay
<1>3. /\ a.remaining \in Nat /\ b.remaining \in Nat /\ a.price \in Nat /\ b.price \in Nat /\ amount \in Nat
  BY <1>1, DexFacts DEF Order
<1>4. fill \in Nat /\ fill <= a.remaining /\ fill <= b.remaining /\ price \in Nat
  BY <1>3 DEF Smaller
<1> HIDE DEF fill, price
<1>5. ASSUME NEW o \in Order, fill <= o.remaining
      PROVE  after(o) \in Order /\ after(o).pair = o.pair
  <2>1. o.remaining \in Nat
    BY DEF Order
  <2> DEFINE x == o.remaining - fill
             z == IF fill = o.remaining THEN "Filled" ELSE "PartiallyFilled"
  <2>2. x \in Nat /\ z \in {"Open", "PartiallyFilled", "Filled", "Cancelled"}
    BY <1>4, <1>5, <2>1
  <2> HIDE DEF x, z
  <2>3. [o EXCEPT !.remaining = x, !.status = z] \in Order /\ [o EXCEPT !.remaining = x, !.status = z].pair = o.pair
    BY <2>2 DEF Order
  <2> QED
    BY <2>3 DEF x, z
<1>6. after(a) \in Order /\ after(a).pair = p /\ after(b) \in Order /\ after(b).pair = p
  BY <1>1, <1>2, <1>4, <1>5
<1>7. maker # taker
  BY <1>2
<1>8. orders' = book
  BY <1>7, <1>2 DEF Written
<1> DEFINE x == after(a)
           y == after(b)
<1> HIDE DEF after
<1>9. x \in Order /\ x.pair = p /\ y \in Order /\ y.pair = p
  BY <1>6
<1> HIDE DEF x, y
<1>10. half = Written(orders, maker, x) /\ book = Written(half, taker, y)
  BY DEF x, y
<1> HIDE DEF book, half, a, b
<1>11. half \in Seq(Order) /\ DOMAIN half = DOMAIN orders /\ half[maker] = x /\ \A k \in DOMAIN orders \ {maker} : half[k] = orders[k]
  <2>1. orders \in Seq(Order) /\ maker \in DOMAIN orders /\ x \in Order
    BY <1>1, <1>9
  <2> DEFINE w == Written(orders, maker, x)
  <2>2. w \in Seq(Order) /\ DOMAIN w = DOMAIN orders /\ w[maker] = x /\ \A k \in DOMAIN orders \ {maker} : w[k] = orders[k]
    BY <2>1, SeqWritten
  <2> QED
    BY <1>10, <2>2
<1>12. book \in Seq(Order) /\ DOMAIN book = DOMAIN half /\ book[taker] = y /\ \A k \in DOMAIN half \ {taker} : book[k] = half[k]
  BY <1>9, <1>11, SeqWritten, <1>10
<1>13. \A k \in DOMAIN book : book[k].pair \in pairIds
  BY <1>1, <1>9, <1>11, <1>12 DEF p, a
<1>14. half[taker].pair = p /\ orders[maker].pair = p
  BY <1>2, <1>7, <1>11 DEF a, b
<1>15. ASSUME NEW k \in pairIds \ {p}, NEW s
       PROVE  BestPrice(book, k, s) = BestPrice(orders, k, s)
  BY <1>9, <1>14, <1>1, <1>10, OtherQuotesStay, <1>11
<1>16. /\ q \in Pair /\ q.base = pairs[p].base /\ q.quote = pairs[p].quote /\ q.shares = pairs[p].shares
       /\ q.index = pairs[p].index
  BY <1>1, <1>4, PricedPair DEF p, a
<1>17. pairs' = Written(pairs, p, Requoted(q, p, book))
  <2>1. pairs' = [pairs EXCEPT ![p] = Requoted([pairs[p] EXCEPT !.last = price], p, book)]
    BY <1>2, <1>8
  <2> QED
    BY <2>1 DEF Written
<1>18. p \in pairIds
  BY <1>1 DEF p, a
<1> HIDE DEF q, p
<1> QED
  <2>1. BookRewritten(p, book, q)
    BY <1>8, <1>13, <1>15, <1>16, <1>17, <1>a DEF BookRewritten
  <2> QED
    BY <1>12, <1>16, <1>18, <2>1, BookStored

----
\* Pools and liquidity

\* Governance tokens that are granted are added to the supply (claim_liquidity_rewards,
\* claim_competition_reward).
LEMMA Granted ==
    ASSUME NEW bs \in [Traders -> Nat], NEW caller \in Traders, NEW x \in Nat
    PROVE  LET w == Written(bs, caller, bs[caller] + x)
           IN  /\ w \in [Traders -> Nat] /\ \A a \in Traders : bs[a] <= w[a]
               /\ SumFunctionOnSet(w, Traders) = SumFunctionOnSet(bs, Traders) + x
               /\ SumFunctionOnSet(bs, Traders) \in Nat
<1> DEFINE w == Written(bs, caller, bs[caller] + x)
<1>1. w \in [Traders -> Nat] /\ w[caller] = bs[caller] + x /\ \A a \in Traders \ {caller} : w[a] = bs[a]
  BY DEF Written
<1>2. \A a \in Traders : bs[a] \in Nat
  OBVIOUS
<1> HIDE DEF w
<1>3. \A a \in Traders : bs[a] <= w[a]
  BY <1>1, <1>2
<1>4. SumFunctionOnSet(w, Traders) = SumFunctionOnSet(bs, Traders) - bs[caller] + w[caller]
  BY <1>1, <1>2, SumChange, DexFacts
<1>5. SumFunctionOnSet(bs, Traders) \in Nat
  BY <1>2, SumNatural, DexFacts
<1>6. SumFunctionOnSet(w, Traders) = SumFunctionOnSet(bs, Traders) + x
  BY <1>1, <1>2, <1>4, <1>5
<1> QED
  BY <1>1, <1>3, <1>5, <1>6 DEF w

\* One provider's position and its pool change by the same shares.
LEMMA PositionChanged ==
    ASSUME NEW ps \in Seq(Pair), NEW pos, SharesAgree(ps, pos), NEW p \in DOMAIN ps, NEW caller \in Traders,
           NEW q \in Pair, NEW new \in Position, ps[p].index <= q.index,
           new.debt <= Earned(new.shares, q.index), q.shares = ps[p].shares - pos[p][caller].shares + new.shares
    PROVE  SharesAgree(Written(ps, p, q), Written(pos, p, Written(pos[p], caller, new)))
<1> DEFINE mine == pos[p]
           row == Written(mine, caller, new)
           qs == Written(ps, p, q)
           rows == Written(pos, p, row)
<1>1. /\ DOMAIN pos = DOMAIN ps /\ mine \in [Traders -> Position] /\ pos \in Seq([Traders -> Position])
      /\ Len(pos) = Len(ps) /\ ps[p] \in Pair
  BY SharesParts, ElementOfSeq, LenProperties DEF SharesAgree
<1>2. row \in [Traders -> Position] /\ row[caller] = new /\ \A a \in Traders \ {caller} : row[a] = mine[a]
  BY <1>1 DEF Written
<1> HIDE DEF row
<1>3. qs \in Seq(Pair) /\ DOMAIN qs = DOMAIN ps /\ Len(qs) = Len(ps) /\ qs[p] = q /\ \A k \in DOMAIN ps \ {p} : qs[k] = ps[k]
  BY SeqWritten
<1>4. /\ rows \in Seq([Traders -> Position]) /\ Len(rows) = Len(pos) /\ rows[p] = row
      /\ \A k \in DOMAIN pos \ {p} : rows[k] = pos[k]
  <2> DEFINE S == [Traders -> Position]
  <2>1. p \in DOMAIN pos /\ pos \in Seq(S) /\ row \in S
    BY <1>1, <1>2
  <2> HIDE DEF mine, S
  <2>2. /\ rows \in Seq(S) /\ Len(rows) = Len(pos) /\ rows[p] = row
        /\ \A k \in DOMAIN pos \ {p} : rows[k] = pos[k]
    BY <2>1, SeqWritten
  <2> QED
    BY <2>2 DEF S
<1> HIDE DEF qs, rows, mine
<1>5. mine = pos[p]
  BY DEF mine
<1>6. /\ ps[p].shares = SumFunctionOnSet(SharesOf(mine), Traders)
      /\ \A a \in Traders : mine[a].debt <= Earned(mine[a].shares, ps[p].index)
  BY <1>5 DEF SharesAgree
<1>7. \A a \in Traders : /\ mine[a].shares \in Nat /\ mine[a].debt \in Nat /\ row[a].shares \in Nat
                         /\ SharesOf(mine)[a] = mine[a].shares /\ SharesOf(row)[a] = row[a].shares
  BY <1>1, <1>2 DEF SharesOf, Position
<1>8. q.shares = SumFunctionOnSet(SharesOf(row), Traders)
  <2> DEFINE f == SharesOf(mine)
             g == SharesOf(row)
  <2>1. \A a \in Traders : f[a] \in Int /\ g[a] \in Int
    BY <1>7
  <2>2. \A a \in Traders \ {caller} : f[a] = g[a]
    BY <1>2, <1>7
  <2>3. f[caller] = mine[caller].shares /\ g[caller] = new.shares
    BY <1>2, <1>7
  <2> HIDE DEF f, g
  <2>4. SumFunctionOnSet(g, Traders) = SumFunctionOnSet(f, Traders) - f[caller] + g[caller]
    BY <2>1, <2>2, SumChange, DexFacts
  <2> QED
    BY <1>5, <1>6, <2>3, <2>4 DEF f, g
<1>9. ASSUME NEW a \in Traders
      PROVE  row[a].debt <= Earned(row[a].shares, q.index)
  <2>1. CASE a = caller
    BY <1>2, <2>1
  <2>2. CASE a # caller
    <3>1. row[a] = mine[a] /\ mine[a].debt \in Nat /\ mine[a].shares \in Nat
      BY <1>2, <1>7, <2>2
    <3>2. ps[p].index \in Nat /\ q.index \in Nat
      BY <1>1 DEF Pair
    <3>3. /\ Earned(mine[a].shares, ps[p].index) \in Nat /\ Earned(mine[a].shares, q.index) \in Nat
          /\ Earned(mine[a].shares, ps[p].index) <= Earned(mine[a].shares, q.index)
      BY <3>1, <3>2, EarnedGrows
    <3> QED
      BY <1>6, <3>1, <3>3
  <2> QED
    BY <2>1, <2>2
<1>10. ASSUME NEW k \in DOMAIN qs
       PROVE  /\ qs[k].shares = SumFunctionOnSet(SharesOf(rows[k]), Traders)
              /\ \A a \in Traders : rows[k][a].debt <= Earned(rows[k][a].shares, qs[k].index)
  <2>1. CASE k = p
    BY <1>3, <1>4, <1>8, <1>9, <2>1
  <2>2. CASE k # p
    BY <1>1, <1>3, <1>4, <2>2 DEF SharesAgree
  <2> QED
    BY <2>1, <2>2
<1>11. SharesAgree(qs, rows)
  BY <1>1, <1>3, <1>4, <1>10 DEF SharesAgree
<1> QED
  BY <1>11 DEF qs, rows, row, mine

\* A pool with some other number of shares: they are worth no less each, and the rest is as it was.
Reshared(p, q, shares) ==
    /\ q.bid = pairs[p].bid /\ q.ask = pairs[p].ask /\ pairs[p].index <= q.index
    /\ q.shares = shares
    /\ pairs[p].shares > 0 =>
          q.base * q.quote * pairs[p].shares * pairs[p].shares >= pairs[p].base * pairs[p].quote * q.shares * q.shares

\* A pool and the position of one of its providers are rewritten, who is granted x votes.
PositionRewritten(p, caller, q, new, x) ==
    /\ Reshared(p, q, pairs[p].shares - positions[p][caller].shares + new.shares)
    /\ new.debt <= Earned(new.shares, q.index)
    /\ pairs' = Written(pairs, p, q) /\ positions' = Written(positions, p, Written(positions[p], caller, new))
    /\ govBalance' = Written(govBalance, caller, govBalance[caller] + x) /\ govSupply' = govSupply + x
    /\ UNCHANGED <<block, orders, scores, feeProposals, votesCast, contests, prizesClaimed, crossTrades, dexAdminVars>>

\* A pool is stored with the position of a provider, and with rewards that are paid.
LEMMA LiquidityStored ==
    ASSUME DexInv, NEW p \in pairIds, NEW caller \in Traders, NEW q \in Pair, NEW new \in Position, NEW x \in Nat,
           PositionRewritten(p, caller, q, new, x)
    PROVE  DexInv' /\ WorthNoLess(pairs, pairs')
<1> USE DEF PositionRewritten, Reshared
<1> DEFINE qs == Written(pairs, p, q)
           bs == Written(govBalance, caller, govBalance[caller] + x)
<1>1. BooksGood(pairs, orders, govBalance, govSupply, scores) /\ p \in DOMAIN pairs /\ pairIds = DOMAIN pairs
  BY DEF DexInv, pairIds
<1>2. /\ pairs \in Seq(Pair) /\ govBalance \in [Traders -> Nat] /\ govSupply \in Nat
      /\ \A k \in DOMAIN pairs : pairs[k] \in Pair
  BY <1>1, BooksParts DEF BooksGood
<1>3. qs \in Seq(Pair) /\ DOMAIN qs = DOMAIN pairs /\ qs[p] = q /\ \A k \in DOMAIN pairs \ {p} : qs[k] = pairs[k]
  BY <1>1, <1>2, SeqWritten
<1>4. /\ bs \in [Traders -> Nat] /\ \A a \in Traders : govBalance[a] <= bs[a]
      /\ SumFunctionOnSet(bs, Traders) = SumFunctionOnSet(govBalance, Traders) + x
  BY <1>2, Granted
<1> HIDE DEF qs, bs
<1>5. pairs' = qs /\ govBalance' = bs
  BY DEF qs, bs
<1>6. BooksGood(pairs, orders, govBalance, govSupply, scores)'
  <2>1. QuotesRight(qs, orders)
    <3>1. QuotesRight(pairs, orders)
      BY <1>1 DEF BooksGood
    <3>2. \A k \in DOMAIN pairs : qs[k].bid = pairs[k].bid /\ qs[k].ask = pairs[k].ask
      BY <1>3
    <3> QED
      BY <1>3, <3>1, <3>2 DEF QuotesRight
  <2>2. BooksGood(qs, orders, bs, govSupply + x, scores)
    BY <1>1, <1>2, <1>3, <1>4, <2>1 DEF BooksGood
  <2> QED
    BY <1>5, <2>2
<1>7. SharesAgree(pairs, positions)'
  BY <1>1, <1>2, PositionChanged DEF DexInv
<1>8. BallotsGood(feeProposals, votesCast, govBalance)'
  <2>1. BallotsGood(feeProposals, votesCast, govBalance)
    BY DEF DexInv
  <2>2. BallotsGood(feeProposals, votesCast, bs)
    BY <1>2, <1>4, <2>1, BallotsStay
  <2> QED
    BY <1>5, <2>2
<1>9. ContestsGood(contests, scores, prizesClaimed)'
  BY DEF DexInv, ContestsGood
<1>10. (crossTrades \in Seq(CrossTrade(pairs)))'
  BY <1>3, <1>5 DEF CrossTrade, DexInv
<1>11. SettingsGood'
  BY SettingsStay DEF DexInv
<1>12. WorthNoLess(pairs, qs)
  <2>1. ASSUME NEW k \in DOMAIN pairs
        PROVE  pairs[k].shares > 0 =>
                   qs[k].base * qs[k].quote * pairs[k].shares * pairs[k].shares
                       >= pairs[k].base * pairs[k].quote * qs[k].shares * qs[k].shares
    <3>1. CASE k = p
      BY <1>3, <3>1
    <3>2. CASE k # p
      <4> DEFINE z == pairs[k]
      <4>1. z \in Pair /\ qs[k] = z
        BY <1>2, <1>3, <3>2
      <4> HIDE DEF z
      <4>2. z.base \in Nat /\ z.quote \in Nat /\ z.shares \in Nat
        BY <4>1 DEF Pair
      <4>3. z.base * z.quote \in Nat
        BY <4>2, Products
      <4>4. z.base * z.quote <= z.base * z.quote
        BY <4>3
      <4>5. z.base * z.quote * z.shares * z.shares >= z.base * z.quote * z.shares * z.shares
        BY <4>2, <4>4, ProductGrows
      <4> QED
        BY <4>1, <4>5 DEF z
    <3> QED
      BY <3>1, <3>2
  <2> QED
    BY <2>1 DEF WorthNoLess
<1> QED
  BY <1>5, <1>6, <1>7, <1>8, <1>9, <1>10, <1>11, <1>12 DEF DexInv

\* Rewards set aside leave a position that owes what its index has brought.
LEMMA SettledPosition ==
    ASSUME NEW mine \in Position, NEW index \in Nat, NEW shares \in Nat
    PROVE  /\ Settled(mine, index, shares) \in Position /\ Settled(mine, index, shares).shares = shares
           /\ Settled(mine, index, shares).debt = Earned(shares, index)
           /\ Earned(shares, index) \in Nat
<1>1. mine.shares \in Nat /\ mine.debt \in Nat /\ mine.pending \in Nat
  BY DEF Position
<1>2. Earned(shares, index) \in Nat /\ Earned(mine.shares, index) \in Nat
  <2>1. ASSUME NEW s \in Nat
        PROVE  Earned(s, index) \in Nat
    BY EarnedGrows
  <2> QED
    BY <1>1, <2>1
<1> DEFINE x == mine.pending + Larger(0, Earned(mine.shares, index) - mine.debt)
<1>3. x \in Nat
  BY <1>1, <1>2 DEF Larger
<1>4. Settled(mine, index, shares) = [shares |-> shares, debt |-> Earned(shares, index), pending |-> x]
  BY DEF Settled
<1> HIDE DEF x
<1> QED
  BY <1>2, <1>3, <1>4 DEF Position

\* A deposit brings as much of either reserve, in proportion, as it mints of shares
\* (add_liquidity).
LEMMA DepositedPair ==
    ASSUME NEW q \in Pair, NEW base \in Nat, NEW quote \in Nat
    PROVE  LET m == Minted(q, base, quote)
               r == PoolAfterDeposit(q, base, quote)
           IN  /\ m \in Nat /\ r \in Pair /\ r.shares = q.shares + m
               /\ r.index = q.index /\ r.bid = q.bid /\ r.ask = q.ask
               /\ q.shares > 0 => r.base * r.quote * q.shares * q.shares >= q.base * q.quote * r.shares * r.shares
<1> DEFINE m == Minted(q, base, quote)
           r == PoolAfterDeposit(q, base, quote)
           left == Portion(base, q.shares, q.base)
           right == Portion(quote, q.shares, q.quote)
<1>1. q.base \in Nat /\ q.quote \in Nat /\ q.shares \in Nat
  BY DEF Pair
<1>2. left \in Nat /\ left * q.base <= base * q.shares /\ right \in Nat /\ right * q.quote <= quote * q.shares
      /\ base * q.shares \in Nat /\ quote * q.shares \in Nat
  BY <1>1, PortionRounded
<1>3. m = IF q.shares = 0 THEN IntegerSqrt(base * quote) ELSE Smaller(left, right)
  BY DEF Minted
<1>4. r = [q EXCEPT !.base = q.base + base, !.quote = q.quote + quote, !.shares = q.shares + m]
  BY DEF PoolAfterDeposit
<1> HIDE DEF left, right, m, r
<1>5. m \in Nat
  <2>1. base * quote \in Nat
    BY Products
  <2>2. IntegerSqrt(base * quote) \in Nat
    BY <2>1, RootIsNatural
  <2> QED
    BY <1>2, <1>3, <2>2 DEF Smaller
<1> DEFINE u == q.base + base
           v == q.quote + quote
           t == q.shares + m
<1>6. u \in Nat /\ v \in Nat /\ t \in Nat
  BY <1>1, <1>5
<1>7. ASSUME q.shares > 0
      PROVE  q.base * t <= u * q.shares /\ q.quote * t <= v * q.shares
  BY <1>2, <1>3, <1>7, <1>1, <1>5, Products DEF Smaller
<1> HIDE DEF t, u, v
<1>8. q.shares > 0 => u * v * q.shares * q.shares >= q.base * q.quote * t * t
  BY <1>1, <1>6, <1>7, InProportion
<1>9. r = [q EXCEPT !.base = u, !.quote = v, !.shares = t]
  BY <1>4 DEF t, u, v
<1>10. /\ r \in Pair /\ r.base = u /\ r.quote = v /\ r.shares = t
       /\ r.index = q.index /\ r.bid = q.bid /\ r.ask = q.ask
  BY <1>6, <1>9 DEF Pair
<1> QED
  BY <1>5, <1>8, <1>10 DEF t, m, r

\* A withdrawal takes no more of either reserve, in proportion, than of the shares
\* (remove_liquidity).
LEMMA WithdrawnPair ==
    ASSUME NEW q \in Pair, NEW shares \in Nat, shares <= q.shares
    PROVE  LET r == PoolAfterWithdrawal(q, shares)
           IN  /\ r \in Pair /\ r.shares = q.shares - shares
               /\ r.index = q.index /\ r.bid = q.bid /\ r.ask = q.ask
               /\ r.base * r.quote * q.shares * q.shares >= q.base * q.quote * r.shares * r.shares
<1> DEFINE r == PoolAfterWithdrawal(q, shares)
           left == Portion(shares, q.base, q.shares)
           right == Portion(shares, q.quote, q.shares)
           u == q.base - left
           v == q.quote - right
           t == q.shares - shares
<1>1. q.base \in Nat /\ q.quote \in Nat /\ q.shares \in Nat
  BY DEF Pair
<1>2. /\ left \in Nat /\ left <= q.base /\ q.base * t <= u * q.shares
      /\ right \in Nat /\ right <= q.quote /\ q.quote * t <= v * q.shares
  BY <1>1, TakenInProportion
<1>3. r = [q EXCEPT !.base = u, !.quote = v, !.shares = t]
  BY DEF PoolAfterWithdrawal
<1> HIDE DEF left, right, r
<1>4. u \in Nat /\ v \in Nat /\ t \in Nat
  BY <1>1, <1>2
<1> HIDE DEF u, v, t
<1>5. u * v * q.shares * q.shares >= q.base * q.quote * t * t
  BY <1>1, <1>2, <1>4, InProportion
<1>6. /\ r \in Pair /\ r.base = u /\ r.quote = v /\ r.shares = t
      /\ r.index = q.index /\ r.bid = q.bid /\ r.ask = q.ask
  BY <1>3, <1>4 DEF Pair
<1> QED
  BY <1>5, <1>6 DEF t, r

\* The stored pool of a message, and the caller's position in it.
LEMMA StoredPool ==
    ASSUME DexInv, NEW p \in pairIds, NEW caller \in Traders
    PROVE  /\ pairs[p] \in Pair /\ positions[p][caller] \in Position /\ RewardsTick
           /\ pairs[p].shares \in Nat /\ pairs[p].index \in Nat /\ positions[p][caller].shares \in Nat
           /\ positions[p][caller].shares <= pairs[p].shares
           /\ govBalance \in [Traders -> Nat] /\ govSupply \in Nat
<1>1. BooksGood(pairs, orders, govBalance, govSupply, scores) /\ p \in DOMAIN pairs /\ SharesAgree(pairs, positions)
  BY DEF DexInv, pairIds
<1>2. pairs \in Seq(Pair) /\ pairs[p] \in Pair /\ govBalance \in [Traders -> Nat] /\ govSupply \in Nat
  BY <1>1, BooksParts DEF BooksGood
<1> DEFINE f == SharesOf(positions[p])
<1>3. /\ positions[p][caller] \in Position /\ f[caller] = positions[p][caller].shares
      /\ \A a \in Traders : f[a] \in Nat
  BY <1>1, <1>2, SharesParts
<1>4. pairs[p].shares = SumFunctionOnSet(f, Traders)
  BY <1>1 DEF SharesAgree
<1> HIDE DEF f
<1>5. f[caller] <= SumFunctionOnSet(f, Traders)
  BY <1>3, SumNatural, DexFacts
<1>6. pairs[p].shares \in Nat /\ pairs[p].index \in Nat /\ positions[p][caller].shares \in Nat
  BY <1>2, <1>3 DEF Pair, Position
<1>7. RewardsTick
  BY DEF DexInv, SettingsGood
<1> QED
  BY <1>2, <1>3, <1>4, <1>5, <1>6, <1>7

\* A deposit or a withdrawal is stored (add_liquidity, remove_liquidity).
LEMMA LiquiditySet ==
    ASSUME DexInv, NEW caller \in Traders, NEW p \in pairIds, NEW q \in Pair, NEW shares \in Nat,
           Reshared(p, q, pairs[p].shares - positions[p][caller].shares + shares), SetLiquidity(caller, p, q, shares)
    PROVE  DexInv' /\ WorthNoLess(pairs, pairs')
<1> DEFINE new == Settled(positions[p][caller], q.index, shares)
<1>1. positions[p][caller] \in Position /\ govBalance \in [Traders -> Nat] /\ govSupply \in Nat /\ q.index \in Nat
  BY StoredPool DEF Pair
<1>2. new \in Position /\ new.shares = shares /\ new.debt = Earned(shares, q.index) /\ Earned(shares, q.index) \in Nat
  <2> DEFINE mine == positions[p][caller]
             index == q.index
  <2>1. mine \in Position /\ index \in Nat
    BY <1>1
  <2> HIDE DEF mine, index
  <2>2. /\ Settled(mine, index, shares) \in Position /\ Settled(mine, index, shares).shares = shares
        /\ Settled(mine, index, shares).debt = Earned(shares, index) /\ Earned(shares, index) \in Nat
    BY <2>1, SettledPosition
  <2> QED
    BY <2>2 DEF mine, index
<1>3. pairs' = Written(pairs, p, q) /\ positions' = Written(positions, p, Written(positions[p], caller, new))
      /\ UNCHANGED <<block, orders, scores, feeProposals, votesCast, contests, prizesClaimed, crossTrades, dexAdminVars>>
      /\ UNCHANGED <<govBalance, govSupply>>
  BY DEF SetLiquidity, Written
<1> HIDE DEF new
<1>4. govBalance' = Written(govBalance, caller, govBalance[caller] + 0) /\ govSupply' = govSupply + 0
  BY <1>1, <1>3 DEF Written
<1>5. new.debt <= Earned(new.shares, q.index)
      /\ Reshared(p, q, pairs[p].shares - positions[p][caller].shares + new.shares)
  BY <1>2
<1>6. PositionRewritten(p, caller, q, new, 0)
  BY <1>3, <1>4, <1>5 DEF PositionRewritten
<1>7. 0 \in Nat
  OBVIOUS
<1> QED
  BY <1>2, <1>6, <1>7, LiquidityStored

\* A deposit (add_liquidity).
LEMMA DepositKeeps ==
    ASSUME DexInv, NEW caller \in Traders, NEW p \in pairIds, NEW base \in DepositArgs, NEW quote \in DepositArgs,
           DexAddLiquidity(caller, p, base, quote)
    PROVE  DexInv' /\ WorthNoLess(pairs, pairs')
<1> DEFINE a == Accrued(pairs[p])
           m == Minted(a, base, quote)
           q == PoolAfterDeposit(a, base, quote)
           mine == positions[p][caller].shares
<1>1. pairs[p] \in Pair /\ RewardsTick /\ pairs[p].shares \in Nat /\ mine \in Nat /\ base \in Nat /\ quote \in Nat
      /\ pairs[p].index \in Nat
  BY StoredPool, DexFacts
<1>2. /\ a \in Pair /\ a.base = pairs[p].base /\ a.quote = pairs[p].quote /\ a.shares = pairs[p].shares
      /\ pairs[p].index <= a.index /\ a.bid = pairs[p].bid /\ a.ask = pairs[p].ask
  BY <1>1, AccruedPair
<1>3. SetLiquidity(caller, p, q, mine + m)
  BY DEF DexAddLiquidity
<1> HIDE DEF a, mine
<1>4. /\ m \in Nat /\ q \in Pair /\ q.shares = a.shares + m /\ q.index = a.index /\ q.bid = a.bid /\ q.ask = a.ask
      /\ a.shares > 0 => q.base * q.quote * a.shares * a.shares >= a.base * a.quote * q.shares * q.shares
  BY <1>1, <1>2, DepositedPair
<1> HIDE DEF m, q
<1>5. mine + m \in Nat /\ q.shares = pairs[p].shares - mine + (mine + m)
  BY <1>1, <1>2, <1>4
<1>6. q.shares = pairs[p].shares - positions[p][caller].shares + (mine + m)
  BY <1>5 DEF mine
<1>7. q.bid = pairs[p].bid /\ q.ask = pairs[p].ask /\ pairs[p].index <= q.index
  BY <1>2, <1>4
<1>8. pairs[p].shares > 0 =>
          q.base * q.quote * pairs[p].shares * pairs[p].shares >= pairs[p].base * pairs[p].quote * q.shares * q.shares
  BY <1>2, <1>4
<1> DEFINE s == mine + m
<1> HIDE DEF s
<1>9. s \in Nat /\ q.shares = pairs[p].shares - positions[p][caller].shares + s /\ SetLiquidity(caller, p, q, s)
  BY <1>3, <1>5, <1>6 DEF s
<1>10. Reshared(p, q, pairs[p].shares - positions[p][caller].shares + s)
  BY <1>7, <1>8, <1>9 DEF Reshared
<1> QED
  BY <1>4, <1>9, <1>10, LiquiditySet

\* A withdrawal (remove_liquidity).
LEMMA WithdrawalKeeps ==
    ASSUME DexInv, NEW caller \in Traders, NEW p \in pairIds, NEW shares \in 1..MaxReserve,
           DexRemoveLiquidity(caller, p, shares)
    PROVE  DexInv' /\ WorthNoLess(pairs, pairs')
<1> DEFINE a == Accrued(pairs[p])
           q == PoolAfterWithdrawal(a, shares)
           mine == positions[p][caller].shares
<1>1. pairs[p] \in Pair /\ RewardsTick /\ pairs[p].shares \in Nat /\ mine \in Nat /\ mine <= pairs[p].shares
      /\ pairs[p].index \in Nat
  BY StoredPool, DexFacts
<1>2. /\ a \in Pair /\ a.base = pairs[p].base /\ a.quote = pairs[p].quote /\ a.shares = pairs[p].shares
      /\ pairs[p].index <= a.index /\ a.bid = pairs[p].bid /\ a.ask = pairs[p].ask
  BY <1>1, AccruedPair
<1>3. shares \in 1..mine /\ SetLiquidity(caller, p, q, mine - shares)
  BY DEF DexRemoveLiquidity
<1>4. shares \in Nat /\ shares <= mine /\ shares <= a.shares
  BY <1>1, <1>2, <1>3
<1> HIDE DEF a, mine
<1>5. /\ q \in Pair /\ q.shares = a.shares - shares /\ q.index = a.index /\ q.bid = a.bid /\ q.ask = a.ask
      /\ q.base * q.quote * a.shares * a.shares >= a.base * a.quote * q.shares * q.shares
  BY <1>2, <1>4, WithdrawnPair
<1> HIDE DEF q
<1> DEFINE s == mine - shares
<1>6. s \in Nat /\ q.shares = pairs[p].shares - mine + s
  BY <1>1, <1>2, <1>4, <1>5
<1>7. q.bid = pairs[p].bid /\ q.ask = pairs[p].ask /\ pairs[p].index <= q.index
  BY <1>2, <1>5
<1>8. pairs[p].shares > 0 =>
          q.base * q.quote * pairs[p].shares * pairs[p].shares >= pairs[p].base * pairs[p].quote * q.shares * q.shares
  BY <1>2, <1>5
<1>9. q.shares = pairs[p].shares - positions[p][caller].shares + s /\ SetLiquidity(caller, p, q, s)
  BY <1>3, <1>6 DEF mine
<1> HIDE DEF s
<1>10. Reshared(p, q, pairs[p].shares - positions[p][caller].shares + s)
  BY <1>7, <1>8, <1>9 DEF Reshared
<1> QED
  BY <1>5, <1>6, <1>9, <1>10, LiquiditySet

\* Rewards are paid out (claim_liquidity_rewards).
LEMMA RewardsKeep ==
    ASSUME DexInv, NEW caller \in Traders, NEW p \in pairIds, ClaimLiquidityRewards(caller, p)
    PROVE  DexInv' /\ WorthNoLess(pairs, pairs')
<1> DEFINE q == Accrued(pairs[p])
           mine == positions[p][caller]
           settled == Settled(mine, q.index, mine.shares)
           new == [settled EXCEPT !.pending = 0]
           x == settled.pending
<1>1. pairs[p] \in Pair /\ RewardsTick /\ pairs[p].shares \in Nat /\ mine \in Position /\ mine.shares \in Nat
      /\ govBalance \in [Traders -> Nat] /\ govSupply \in Nat /\ pairs[p].index \in Nat
  BY StoredPool
<1>2. /\ q \in Pair /\ q.base = pairs[p].base /\ q.quote = pairs[p].quote /\ q.shares = pairs[p].shares
      /\ pairs[p].index <= q.index /\ q.bid = pairs[p].bid /\ q.ask = pairs[p].ask
  BY <1>1, AccruedPair
<1>3. /\ pairs' = [pairs EXCEPT ![p] = q] /\ positions' = [positions EXCEPT ![p][caller] = new]
      /\ govBalance' = [govBalance EXCEPT ![caller] = @ + x] /\ govSupply' = govSupply + x
      /\ UNCHANGED <<block, orders, scores, feeProposals, votesCast, contests, prizesClaimed, crossTrades, dexAdminVars>>
  BY DEF ClaimLiquidityRewards
<1> HIDE DEF q
<1>4. q.index \in Nat
  BY <1>2 DEF Pair
<1>5. settled \in Position /\ settled.shares = mine.shares /\ settled.debt = Earned(mine.shares, q.index)
      /\ Earned(mine.shares, q.index) \in Nat
  <2> DEFINE index == q.index
             shares == mine.shares
  <2>1. mine \in Position /\ index \in Nat /\ shares \in Nat
    BY <1>1, <1>4
  <2> HIDE DEF mine, index, shares
  <2>2. /\ Settled(mine, index, shares) \in Position /\ Settled(mine, index, shares).shares = shares
        /\ Settled(mine, index, shares).debt = Earned(shares, index) /\ Earned(shares, index) \in Nat
    BY <2>1, SettledPosition
  <2> QED
    BY <2>2 DEF index, shares
<1> HIDE DEF settled, mine
<1>6. new \in Position /\ new.shares = mine.shares /\ new.debt = Earned(mine.shares, q.index) /\ x \in Nat
  BY <1>5 DEF Position
<1> HIDE DEF new, x
<1>7. pairs' = Written(pairs, p, q) /\ positions' = Written(positions, p, Written(positions[p], caller, new))
      /\ govBalance' = Written(govBalance, caller, govBalance[caller] + x)
  BY <1>3 DEF Written
<1>8. new.debt <= Earned(new.shares, q.index) /\ q.shares = pairs[p].shares - mine.shares + new.shares
  BY <1>1, <1>2, <1>5, <1>6
<1>9. q.shares = pairs[p].shares - positions[p][caller].shares + new.shares
  BY <1>8 DEF mine
<1>10. q.base * q.quote * pairs[p].shares * pairs[p].shares >= pairs[p].base * pairs[p].quote * q.shares * q.shares
  BY <1>1, Products, ProductGrows, <1>2 DEF Pair
<1>11. /\ q \in Pair /\ new \in Position /\ x \in Nat /\ q.bid = pairs[p].bid /\ q.ask = pairs[p].ask
       /\ pairs[p].index <= q.index /\ new.debt <= Earned(new.shares, q.index) /\ govSupply' = govSupply + x
       /\ UNCHANGED <<block, orders, scores, feeProposals, votesCast, contests, prizesClaimed, crossTrades, dexAdminVars>>
  BY <1>2, <1>3, <1>6, <1>8
<1> HIDE DEF mine
<1>12. Reshared(p, q, pairs[p].shares - positions[p][caller].shares + new.shares)
  BY <1>9, <1>10, <1>11 DEF Reshared
<1>13. PositionRewritten(p, caller, q, new, x)
  BY <1>7, <1>11, <1>12 DEF PositionRewritten
<1> QED
  BY <1>11, <1>13, LiquidityStored

\* A pool that no message touches is worth what it was.
LEMMA SameWorth ==
    ASSUME NEW z \in Pair
    PROVE  z.base * z.quote * z.shares * z.shares >= z.base * z.quote * z.shares * z.shares
  BY Products, ProductGrows DEF Pair

\* A pair without orders has no quotes (refresh_best_quotes).
LEMMA NoQuotes ==
    ASSUME NEW book \in Seq(Order), NEW p, NEW side, \A n \in DOMAIN book : book[n].pair # p
    PROVE  BestPrice(book, p, side) = 0
<1> DEFINE none == << >>
<1>1. none \in Seq(Order) /\ Len(none) = 0 /\ DOMAIN book = 1..Len(book) /\ Len(book) \in Nat
  BY LenProperties
<1> HIDE DEF none
<1>2. BestPrice(none, p, side) = 0
  <2> DEFINE f == CHOOSE h : Best(none, p, side, 0, h)
  <2>1. BestPrice(none, p, side) = f[0]
    BY <1>1, BestUnfold
  <2>2. Best(none, p, side, 0, f)
    <3>1. 0 \in Nat
      OBVIOUS
    <3> QED
      BY <3>1, BestExists
  <2> HIDE DEF f
  <2>3. f[0] = 0
    BY <2>2 DEF Best
  <2> QED
    BY <2>1, <2>3
<1>3. Len(none) <= Len(book) /\ none \in Seq(Order)
  BY <1>1
<1>4. \A n \in 1..Len(none) : none[n] = book[n] \/ (none[n].pair # p /\ book[n].pair # p)
  BY <1>1
<1>5. \A n \in 1..Len(book) : n > Len(none) => book[n].pair # p
  BY <1>1
<1>6. BestPrice(book, p, side) = BestPrice(none, p, side)
  BY <1>3, <1>4, <1>5, SameQuotes
<1> QED
  BY <1>2, <1>6

\* A list of some records is one of more of them.
LEMMA WiderSeq ==
    ASSUME NEW S, NEW T, S \subseteq T, NEW s \in Seq(S)
    PROVE  s \in Seq(T)
  BY ElementOfSeq, LenProperties, SeqDef

\* The first position in a pool has all its shares (create_pool).
LEMMA FirstShares ==
    ASSUME NEW caller \in Traders, NEW minted \in Nat, NEW row,
           row = [a \in Traders |-> [shares |-> IF a = caller THEN minted ELSE 0, debt |-> 0, pending |-> 0]]
    PROVE  /\ row \in [Traders -> Position] /\ SumFunctionOnSet(SharesOf(row), Traders) = minted
           /\ \A a \in Traders : row[a].debt <= Earned(row[a].shares, 0)
<1> DEFINE s(a) == IF a = caller THEN minted ELSE 0
           zero == [a \in Traders |-> 0]
           f == SharesOf(row)
<1>1. \A a \in Traders : s(a) \in Nat
  OBVIOUS
<1>2. s(caller) = minted /\ \A a \in Traders \ {caller} : s(a) = 0
  OBVIOUS
<1>3. row = [a \in Traders |-> [shares |-> s(a), debt |-> 0, pending |-> 0]]
  OBVIOUS
<1> HIDE DEF s
<1>4. \A a \in Traders : row[a] = [shares |-> s(a), debt |-> 0, pending |-> 0]
  BY <1>3
<1>5. \A a \in Traders : row[a].shares = s(a) /\ row[a].debt = 0 /\ row[a] \in Position
  BY <1>1, <1>4 DEF Position
<1>6. row \in [Traders -> Position]
  BY <1>3, <1>5
<1>7. \A a \in Traders : f[a] = s(a) /\ zero[a] = 0
  BY <1>5 DEF SharesOf
<1>8. \A a \in Traders : row[a].debt <= Earned(row[a].shares, 0)
  <2> TAKE a \in Traders
  <2>1. s(a) \in Nat /\ row[a].shares = s(a) /\ row[a].debt = 0
    BY <1>1, <1>5
  <2>2. Earned(s(a), 0) = 0
    BY <2>1, NothingEarned
  <2> QED
    BY <2>1, <2>2
<1> HIDE DEF f, zero
<1>9. SumFunctionOnSet(zero, Traders) = 0
  BY <1>7, SumZero, DexFacts
<1>10. SumFunctionOnSet(f, Traders) = SumFunctionOnSet(zero, Traders) - zero[caller] + f[caller]
  BY <1>1, <1>7, <1>2, SumChange, DexFacts
<1>11. SumFunctionOnSet(f, Traders) = minted
  BY <1>2, <1>7, <1>9, <1>10
<1> QED
  BY <1>6, <1>8, <1>11 DEF f

\* A new pool and its first position are added to the lists.
LEMMA PoolAdded ==
    ASSUME NEW ps \in Seq(Pair), NEW pos, SharesAgree(ps, pos), NEW q \in Pair, NEW row \in [Traders -> Position],
           q.shares = SumFunctionOnSet(SharesOf(row), Traders),
           \A a \in Traders : row[a].debt <= Earned(row[a].shares, q.index)
    PROVE  SharesAgree(Append(ps, q), Append(pos, row))
<1> DEFINE k == Len(ps) + 1
           S == [Traders -> Position]
           qs == Append(ps, q)
           rows == Append(pos, row)
<1>1. pos \in Seq(S) /\ Len(pos) = Len(ps) /\ row \in S
  BY DEF SharesAgree
<1> HIDE DEF S
<1>2. /\ qs \in Seq(Pair) /\ Len(qs) = Len(ps) + 1 /\ Len(ps) \in Nat /\ DOMAIN ps = 1..Len(ps)
      /\ DOMAIN qs = DOMAIN ps \cup {k} /\ qs[k] = q /\ \A p \in DOMAIN ps : qs[p] = ps[p]
  BY SeqAppended
<1>3. /\ rows \in Seq(S) /\ Len(rows) = Len(pos) + 1 /\ DOMAIN pos = 1..Len(pos)
      /\ rows[Len(pos) + 1] = row /\ \A p \in DOMAIN pos : rows[p] = pos[p]
  BY <1>1, SeqAppended
<1> HIDE DEF qs, rows
<1>4. rows[k] = row /\ Len(rows) = Len(qs) /\ \A p \in DOMAIN ps : rows[p] = pos[p]
  BY <1>1, <1>2, <1>3
<1>5. ASSUME NEW p \in DOMAIN qs
      PROVE  /\ qs[p].shares = SumFunctionOnSet(SharesOf(rows[p]), Traders)
             /\ \A a \in Traders : rows[p][a].debt <= Earned(rows[p][a].shares, qs[p].index)
  <2>1. CASE p = k
    BY <1>2, <1>4, <2>1
  <2>2. CASE p # k
    BY <1>2, <1>4, <2>2 DEF SharesAgree
  <2> QED
    BY <2>1, <2>2
<1>6. SharesAgree(qs, rows)
  BY <1>3, <1>4, <1>5 DEF SharesAgree, S
<1> QED
  BY <1>6 DEF qs, rows

\* A new pool (create_pool).
LEMMA PoolKeeps ==
    ASSUME DexInv, NEW caller \in Traders, NEW base \in DexTokens, NEW quote \in DexTokens, NEW fee \in FeeArgs,
           NEW baseIn \in DepositArgs, NEW quoteIn \in DepositArgs, CreatePool(caller, base, quote, fee, baseIn, quoteIn)
    PROVE  DexInv' /\ WorthNoLess(pairs, pairs')
<1> DEFINE minted == IntegerSqrt(baseIn * quoteIn)
           price == Portion(quoteIn, Bips, baseIn)
           q == [tokens |-> {base, quote}, base |-> baseIn, quote |-> quoteIn, shares |-> minted,
                 fee |-> fee, index |-> 0, rewarded |-> block, last |-> price,
                 reference |-> price, bid |-> 0, ask |-> 0]
           row == [a \in Traders |-> [shares |-> IF a = caller THEN minted ELSE 0, debt |-> 0, pending |-> 0]]
           qs == Append(pairs, q)
           k == Len(pairs) + 1
<1>1. /\ BooksGood(pairs, orders, govBalance, govSupply, scores) /\ SharesAgree(pairs, positions)
      /\ block \in Nat
  BY DEF DexInv, SettingsGood, RewardsTick
<1>2. baseIn \in Nat /\ quoteIn \in Nat /\ fee \in Nat /\ Bips \in Nat /\ FeeLimit \in Nat
  BY DexFacts
<1>3. minted \in Nat
  BY <1>2, Products, RootIsNatural
<1>4. price \in Nat
  BY <1>2, PortionRounded
<1>5. /\ pairs' = qs /\ positions' = Append(positions, row) /\ fee < FeeLimit
      /\ UNCHANGED <<block, orders, govBalance, govSupply, scores, feeProposals, votesCast, contests,
                     prizesClaimed, crossTrades, dexAdminVars>>
  BY DEF CreatePool
<1> HIDE DEF minted, price
<1>6. q \in Pair /\ q.shares = minted /\ q.index = 0 /\ q.bid = 0 /\ q.ask = 0
  BY <1>2, <1>5, <1>1, <1>3, <1>4 DEF Pair
<1>7. /\ row \in [Traders -> Position] /\ SumFunctionOnSet(SharesOf(row), Traders) = minted
      /\ \A a \in Traders : row[a].debt <= Earned(row[a].shares, 0)
  BY <1>3, FirstShares
<1> HIDE DEF q, row
<1>8. /\ pairs \in Seq(Pair) /\ orders \in Seq(Order) /\ \A p \in DOMAIN pairs : pairs[p] \in Pair
      /\ \A n \in DOMAIN orders : orders[n].pair \in DOMAIN pairs
  BY <1>1, BooksParts DEF BooksGood
<1>9. /\ qs \in Seq(Pair) /\ DOMAIN qs = DOMAIN pairs \cup {k} /\ k \notin DOMAIN pairs /\ qs[k] = q
      /\ \A p \in DOMAIN pairs : qs[p] = pairs[p]
  BY <1>6, <1>8, SeqAppended
<1>10. SharesAgree(pairs, positions)'
  BY <1>1, <1>6, <1>7, <1>8, PoolAdded, <1>5
<1> HIDE DEF qs, k
<1>11. QuotesRight(qs, orders)
  <2>1. \A n \in DOMAIN orders : orders[n].pair # k
    BY <1>8, <1>9
  <2>2. BestPrice(orders, k, "Buy") = 0 /\ BestPrice(orders, k, "Sell") = 0
    BY <1>8, <2>1, NoQuotes
  <2>3. ASSUME NEW p \in DOMAIN qs
        PROVE  qs[p].bid = BestPrice(orders, p, "Buy") /\ qs[p].ask = BestPrice(orders, p, "Sell")
    <3>1. CASE p = k
      BY <1>6, <1>9, <2>2, <3>1
    <3>2. CASE p # k
      BY <1>9, <3>2, <1>1 DEF BooksGood, QuotesRight
    <3> QED
      BY <3>1, <3>2
  <2> QED
    BY <2>3 DEF QuotesRight
<1>12. BooksGood(pairs, orders, govBalance, govSupply, scores)'
  BY <1>1, <1>9, <1>11, <1>5 DEF BooksGood
<1>13. (crossTrades \in Seq(CrossTrade(pairs)))'
  <2>1. CrossTrade(pairs) \subseteq CrossTrade(qs)
    BY <1>9 DEF CrossTrade
  <2>2. crossTrades \in Seq(CrossTrade(pairs))
    BY DEF DexInv
  <2>3. crossTrades \in Seq(CrossTrade(qs))
    BY <2>1, <2>2, WiderSeq
  <2> QED
    BY <1>5, <2>3
<1>14. BallotsGood(feeProposals, votesCast, govBalance)' /\ ContestsGood(contests, scores, prizesClaimed)'
  BY <1>5 DEF DexInv, BallotsGood, ContestsGood
<1>15. SettingsGood'
  BY <1>5, SettingsStay DEF DexInv
<1>16. WorthNoLess(pairs, qs)
  <2>1. ASSUME NEW p \in DOMAIN pairs
        PROVE  qs[p].base * qs[p].quote * pairs[p].shares * pairs[p].shares
                   >= pairs[p].base * pairs[p].quote * qs[p].shares * qs[p].shares
    BY <1>8, <1>9, SameWorth
  <2> QED
    BY <2>1 DEF WorthNoLess
<1> QED
  BY <1>5, <1>10, <1>12, <1>13, <1>14, <1>15, <1>16 DEF DexInv

----
\* Competitions, proposals, trades and settings

\* Where no pool is touched, none is worth less.
LEMMA WorthStays == DexInv /\ UNCHANGED pairs => WorthNoLess(pairs, pairs')
<1> SUFFICES ASSUME DexInv, UNCHANGED pairs
             PROVE  WorthNoLess(pairs, pairs)
  OBVIOUS
<1>1. \A p \in DOMAIN pairs : pairs[p] \in Pair
  BY BooksParts DEF DexInv
<1>2. ASSUME NEW p \in DOMAIN pairs
      PROVE  pairs[p].base * pairs[p].quote * pairs[p].shares * pairs[p].shares
                 >= pairs[p].base * pairs[p].quote * pairs[p].shares * pairs[p].shares
  BY <1>1, SameWorth
<1> QED
  BY <1>2 DEF WorthNoLess

\* Messages that touch neither pools, orders, tokens nor positions leave their books alone.
LEMMA PoolsStay ==
    ASSUME DexInv, UNCHANGED <<pairs, orders, positions, crossTrades>>
    PROVE  /\ SharesAgree(pairs, positions)' /\ (crossTrades \in Seq(CrossTrade(pairs)))'
           /\ UNCHANGED <<govBalance, govSupply, scores>> => BooksGood(pairs, orders, govBalance, govSupply, scores)'
           /\ UNCHANGED <<feeProposals, votesCast, govBalance>> => BallotsGood(feeProposals, votesCast, govBalance)'
           /\ UNCHANGED <<contests, scores, prizesClaimed>> => ContestsGood(contests, scores, prizesClaimed)'
  BY DEF DexInv, SharesAgree, CrossTrade, BooksGood, BallotsGood, ContestsGood

\* The stored competitions and their scores.
LEMMA StoredContests ==
    DexInv => /\ contests \in Seq(Contest) /\ scores \in Seq([Traders -> Nat]) /\ Len(scores) = Len(contests)
              /\ DOMAIN scores = DOMAIN contests /\ prizesClaimed \subseteq ((DOMAIN contests) \X Traders)
              /\ \A c \in DOMAIN contests : contests[c] \in Contest /\ \A a \in Traders : scores[c][a] \in Nat
  BY LenProperties, ElementOfSeq DEF DexInv, ContestsGood, BooksGood

\* A new competition, in which nobody has scored (create_trading_competition).
LEMMA ContestCreatedKeeps ==
    ASSUME DexInv, NEW caller \in Traders, NEW pair \in {0} \cup pairIds, NEW prize \in PrizeArgs, NEW start \in 0..MaxBlock,
           NEW end \in 0..MaxBlock, NEW volume \in VolumeArgs,
           CreateTradingCompetition(caller, pair, prize, start, end, volume)
    PROVE  DexInv' /\ WorthNoLess(pairs, pairs')
<1> DEFINE x == [pair |-> pair, prize |-> prize, start |-> start, end |-> end, volume |-> volume, active |-> TRUE]
           row == [a \in Traders |-> 0]
           S == [Traders -> Nat]
           list == Append(contests, x)
           sc == Append(scores, row)
<1>1. /\ contests' = list /\ scores' = sc /\ UNCHANGED <<govBalance, govSupply, prizesClaimed>>
      /\ UNCHANGED <<block, pairs, orders, positions, feeProposals, votesCast, crossTrades, dexAdminVars>>
  BY DEF CreateTradingCompetition, UnchangedByContests
<1>2. /\ contests \in Seq(Contest) /\ scores \in Seq(S) /\ Len(scores) = Len(contests)
      /\ prizesClaimed \subseteq ((DOMAIN contests) \X Traders)
  BY StoredContests
<1>3. pair \in Nat /\ prize \in Nat /\ start \in Nat /\ end \in Nat /\ volume \in Nat
  BY BooksParts, DexFacts DEF DexInv, pairIds
<1>4. x \in Contest /\ row \in S
  BY <1>3 DEF Contest
<1> HIDE DEF x, row, S
<1>5. list \in Seq(Contest) /\ Len(list) = Len(contests) + 1 /\ DOMAIN list = DOMAIN contests \cup {Len(contests) + 1}
  BY <1>2, <1>4, SeqAppended
<1>6. sc \in Seq(S) /\ Len(sc) = Len(scores) + 1
  BY <1>2, <1>4, SeqAppended
<1> HIDE DEF list, sc
<1>7. ContestsGood(contests, scores, prizesClaimed)'
  BY <1>1, <1>2, <1>5, <1>6 DEF ContestsGood
<1>8. BooksGood(pairs, orders, govBalance, govSupply, scores)'
  BY <1>6, <1>1 DEF DexInv, BooksGood, S
<1>9. /\ SharesAgree(pairs, positions)' /\ (crossTrades \in Seq(CrossTrade(pairs)))'
      /\ BallotsGood(feeProposals, votesCast, govBalance)'
  BY <1>1, PoolsStay
<1>10. SettingsGood' /\ WorthNoLess(pairs, pairs')
  BY <1>1, SettingsStay, WorthStays DEF DexInv
<1> QED
  BY <1>7, <1>8, <1>9, <1>10 DEF DexInv

\* A competition is adjusted by the admin.
LEMMA ContestAdjustedKeeps ==
    ASSUME DexInv, NEW caller \in Traders, NEW c \in DOMAIN contests, NEW contest \in Adjusted(contests[c]),
           AdjustContest(caller, c, contest)
    PROVE  DexInv' /\ WorthNoLess(pairs, pairs')
<1> DEFINE list == Written(contests, c, contest)
<1>1. /\ contests' = list /\ UNCHANGED <<govBalance, govSupply, scores, prizesClaimed>>
      /\ UNCHANGED <<block, pairs, orders, positions, feeProposals, votesCast, crossTrades, dexAdminVars>>
  BY DEF AdjustContest, UnchangedByContests, Written
<1>2. /\ contests \in Seq(Contest) /\ scores \in Seq([Traders -> Nat]) /\ Len(scores) = Len(contests)
      /\ prizesClaimed \subseteq ((DOMAIN contests) \X Traders) /\ contests[c] \in Contest
  BY StoredContests
<1>3. contest \in Contest
  <2> DEFINE z == contests[c]
  <2>1. z \in Contest /\ block \in Nat
    BY <1>2 DEF DexInv, SettingsGood, RewardsTick
  <2>2. \/ contest \in {[z EXCEPT !.active = FALSE], [z EXCEPT !.active = TRUE],
                        [z EXCEPT !.active = FALSE, !.end = block]}
        \/ \E volume \in VolumeArgs : contest = [z EXCEPT !.volume = volume]
        \/ \E prize \in PrizeArgs : contest = [z EXCEPT !.prize = prize]
    BY DEF Adjusted
  <2> HIDE DEF z
  <2>3. CASE contest \in {[z EXCEPT !.active = FALSE], [z EXCEPT !.active = TRUE],
                          [z EXCEPT !.active = FALSE, !.end = block]}
    BY <2>1, <2>3 DEF Contest
  <2>4. CASE \E volume \in VolumeArgs : contest = [z EXCEPT !.volume = volume]
    BY <2>1, <2>4, DexFacts DEF Contest
  <2>5. CASE \E prize \in PrizeArgs : contest = [z EXCEPT !.prize = prize]
    BY <2>1, <2>5, DexFacts DEF Contest
  <2> QED
    BY <2>2, <2>3, <2>4, <2>5
<1>4. list \in Seq(Contest) /\ DOMAIN list = DOMAIN contests /\ Len(list) = Len(contests)
  <2>1. contests \in Seq(Contest) /\ c \in DOMAIN contests /\ contest \in Contest
    BY <1>2, <1>3
  <2> DEFINE w == Written(contests, c, contest)
  <2>2. w \in Seq(Contest) /\ DOMAIN w = DOMAIN contests /\ Len(w) = Len(contests)
    BY <2>1, SeqWritten
  <2> QED
    BY <2>2
<1> HIDE DEF list
<1>5. ContestsGood(contests, scores, prizesClaimed)'
  BY <1>1, <1>2, <1>4 DEF ContestsGood
<1>6. /\ SharesAgree(pairs, positions)' /\ (crossTrades \in Seq(CrossTrade(pairs)))'
      /\ BooksGood(pairs, orders, govBalance, govSupply, scores)' /\ BallotsGood(feeProposals, votesCast, govBalance)'
  BY <1>1, PoolsStay
<1>7. SettingsGood' /\ WorthNoLess(pairs, pairs')
  BY <1>1, SettingsStay, WorthStays DEF DexInv
<1> QED
  BY <1>5, <1>6, <1>7 DEF DexInv

\* A part of a competition's prize is paid out (claim_competition_reward).
LEMMA PrizeKeeps ==
    ASSUME DexInv, NEW caller \in Traders, NEW c \in DOMAIN contests, ClaimCompetitionReward(caller, c)
    PROVE  DexInv' /\ WorthNoLess(pairs, pairs')
<1> DEFINE x == Prize(c, caller)
           bs == Written(govBalance, caller, govBalance[caller] + x)
<1>1. /\ prizesClaimed' = prizesClaimed \cup {<<c, caller>>} /\ govBalance' = bs /\ govSupply' = govSupply + x
      /\ UNCHANGED <<contests, scores>>
      /\ UNCHANGED <<block, pairs, orders, positions, feeProposals, votesCast, crossTrades, dexAdminVars>>
  BY DEF ClaimCompetitionReward, UnchangedByContests, Written
<1>2. /\ contests[c] \in Contest /\ \A a \in Traders : scores[c][a] \in Nat
  BY StoredContests
<1>3. x \in Nat
  <2> DEFINE f == scores[c]
             total == SumFunctionOnSet(f, Traders)
             prize == contests[c].prize
  <2>1. \A a \in Traders : f[a] \in Nat
    BY <1>2
  <2>2. x = Portion(prize, f[caller], total)
    BY DEF Prize
  <2>3. prize \in Nat
    BY <1>2 DEF Contest
  <2> HIDE DEF f, x, prize
  <2>4. total \in Nat /\ f[caller] \in Nat
    BY <2>1, SumNatural, DexFacts
  <2> HIDE DEF total
  <2> QED
    BY <2>2, <2>3, <2>4, PortionRounded
<1>4. BooksGood(pairs, orders, govBalance, govSupply, scores) /\ BallotsGood(feeProposals, votesCast, govBalance)
  BY DEF DexInv
<1>5. govBalance \in [Traders -> Nat] /\ govSupply \in Nat /\ govSupply = SumFunctionOnSet(govBalance, Traders)
  BY <1>4 DEF BooksGood
<1> HIDE DEF x
<1>6. /\ bs \in [Traders -> Nat] /\ \A a \in Traders : govBalance[a] <= bs[a]
      /\ SumFunctionOnSet(bs, Traders) = SumFunctionOnSet(govBalance, Traders) + x
  BY <1>3, <1>5, Granted
<1> HIDE DEF bs
<1>7. BooksGood(pairs, orders, govBalance, govSupply, scores)'
  BY <1>3, <1>4, <1>5, <1>6, <1>1 DEF BooksGood
<1>8. BallotsGood(feeProposals, votesCast, govBalance)'
  BY <1>4, <1>5, <1>6, BallotsStay, <1>1
<1>9. ContestsGood(contests, scores, prizesClaimed)'
  BY <1>1 DEF DexInv, ContestsGood
<1>10. SharesAgree(pairs, positions)' /\ (crossTrades \in Seq(CrossTrade(pairs)))'
  BY <1>1, PoolsStay
<1>11. SettingsGood' /\ WorthNoLess(pairs, pairs')
  BY <1>1, SettingsStay, WorthStays DEF DexInv
<1> QED
  BY <1>7, <1>8, <1>9, <1>10, <1>11 DEF DexInv

\* The stored proposals, and the votes cast on each.
LEMMA StoredProposals ==
    DexInv => /\ feeProposals \in Seq(FeeProposal) /\ votesCast \subseteq ((DOMAIN feeProposals) \X Traders)
              /\ govBalance \in [Traders -> Nat] /\ block \in Nat
              /\ \A n \in DOMAIN feeProposals :
                    /\ feeProposals[n] \in FeeProposal /\ feeProposals[n].for \in Nat /\ feeProposals[n].against \in Nat
                    /\ feeProposals[n].for + feeProposals[n].against <= SumFunctionOnSet(govBalance, Ballots(votesCast, n))
<1> SUFFICES ASSUME DexInv
             PROVE  /\ feeProposals \in Seq(FeeProposal) /\ votesCast \subseteq ((DOMAIN feeProposals) \X Traders)
                    /\ govBalance \in [Traders -> Nat] /\ block \in Nat
                    /\ \A n \in DOMAIN feeProposals :
                          /\ feeProposals[n] \in FeeProposal /\ feeProposals[n].for \in Nat /\ feeProposals[n].against \in Nat
                          /\ feeProposals[n].for + feeProposals[n].against
                                 <= SumFunctionOnSet(govBalance, Ballots(votesCast, n))
  OBVIOUS
<1>1. BallotsGood(feeProposals, votesCast, govBalance) /\ govBalance \in [Traders -> Nat] /\ block \in Nat
  BY DEF DexInv, BooksGood, SettingsGood, RewardsTick
<1>2. feeProposals \in Seq(FeeProposal)
  BY <1>1 DEF BallotsGood
<1>3. \A n \in DOMAIN feeProposals : feeProposals[n] \in FeeProposal
  BY <1>2, ElementOfSeq, LenProperties
<1>4. \A n \in DOMAIN feeProposals : feeProposals[n].for \in Nat /\ feeProposals[n].against \in Nat
  BY <1>3 DEF FeeProposal
<1> QED
  BY <1>1, <1>2, <1>3, <1>4 DEF BallotsGood

\* What messages on proposals leave alone.
LEMMA ProposalsApart ==
    ASSUME DexInv, UnchangedByProposals, UNCHANGED pairs, BallotsGood(feeProposals, votesCast, govBalance)'
    PROVE  DexInv' /\ WorthNoLess(pairs, pairs')
  BY PoolsStay, SettingsStay, WorthStays DEF UnchangedByProposals, DexInv

\* A new proposal, on which nobody has voted (create_governance_proposal).
LEMMA ProposalKeeps ==
    ASSUME DexInv, NEW caller \in Traders, NEW fee \in {{}} \cup {{f} : f \in FeeArgs}, NEW duration \in DelayArgs,
           CreateGovernanceProposal(caller, fee, duration)
    PROVE  DexInv' /\ WorthNoLess(pairs, pairs')
<1> DEFINE x == [fee |-> fee, for |-> 0, against |-> 0, end |-> block + duration, executed |-> FALSE]
           list == Append(feeProposals, x)
           k == Len(feeProposals) + 1
<1>1. feeProposals' = list /\ UNCHANGED <<pairs, votesCast, govBalance>> /\ UnchangedByProposals
  BY DEF CreateGovernanceProposal, UnchangedByProposals
<1>2. /\ feeProposals \in Seq(FeeProposal) /\ votesCast \subseteq ((DOMAIN feeProposals) \X Traders)
      /\ govBalance \in [Traders -> Nat] /\ block \in Nat
  BY StoredProposals
<1>3. x \in FeeProposal /\ x.for = 0 /\ x.against = 0
  BY DexFacts, <1>2 DEF FeeProposal
<1> HIDE DEF x
<1>4. /\ list \in Seq(FeeProposal) /\ DOMAIN list = DOMAIN feeProposals \cup {k} /\ list[k] = x
      /\ \A n \in DOMAIN feeProposals : list[n] = feeProposals[n]
  BY <1>2, <1>3, SeqAppended
<1> HIDE DEF list, k
<1>5. ASSUME NEW n \in DOMAIN list
      PROVE  list[n].for + list[n].against <= SumFunctionOnSet(govBalance, Ballots(votesCast, n))
  <2>1. CASE n \in DOMAIN feeProposals
    BY <1>4, <2>1, StoredProposals
  <2>2. CASE n \notin DOMAIN feeProposals
    <3>1. list[n] = x
      BY <1>4, <2>2
    <3> DEFINE V == Ballots(votesCast, n)
    <3>2. V \in SUBSET Traders
      BY DEF Ballots
    <3> HIDE DEF V
    <3>3. \A a \in Traders : govBalance[a] \in Nat
      BY <1>2
    <3>4. SumFunctionOnSet(govBalance, V) \in Nat
      BY <3>2, <3>3, SumSubset, DexFacts
    <3> QED
      BY <1>3, <3>1, <3>4 DEF V
  <2> QED
    BY <2>1, <2>2
<1>6. BallotsGood(list, votesCast, govBalance)
  BY <1>2, <1>4, <1>5 DEF BallotsGood
<1>7. BallotsGood(feeProposals, votesCast, govBalance)'
  BY <1>1, <1>6
<1> QED
  BY <1>1, <1>7, ProposalsApart

\* A vote, which weighs what the voter has at the time (vote_on_proposal).
LEMMA VoteKeeps ==
    ASSUME DexInv, NEW caller \in Traders, NEW n \in DOMAIN feeProposals, NEW support \in BOOLEAN,
           VoteOnProposal(caller, n, support)
    PROVE  DexInv' /\ WorthNoLess(pairs, pairs')
<1> DEFINE o == feeProposals[n]
           for == IF support THEN o.for + govBalance[caller] ELSE o.for
           against == IF support THEN o.against ELSE o.against + govBalance[caller]
           new == [o EXCEPT !.for = for, !.against = against]
           list == Written(feeProposals, n, new)
           cast == votesCast \cup {<<n, caller>>}
<1>1. /\ feeProposals \in Seq(FeeProposal) /\ votesCast \subseteq ((DOMAIN feeProposals) \X Traders)
      /\ govBalance \in [Traders -> Nat] /\ o \in FeeProposal /\ o.for \in Nat /\ o.against \in Nat
      /\ o.for + o.against <= SumFunctionOnSet(govBalance, Ballots(votesCast, n))
  BY StoredProposals
<1>2. feeProposals' = list
  <2>1. feeProposals' = [feeProposals EXCEPT ![n].for = for, ![n].against = against]
    BY DEF VoteOnProposal
  <2> HIDE DEF for, against
  <2>2. [feeProposals EXCEPT ![n].for = for, ![n].against = against] = [feeProposals EXCEPT ![n] = new]
    BY <1>1
  <2> QED
    BY <2>1, <2>2 DEF Written
<1>3. /\ votesCast' = cast /\ <<n, caller>> \notin votesCast /\ UNCHANGED <<pairs, govBalance>> /\ UnchangedByProposals
  BY DEF VoteOnProposal, UnchangedByProposals
<1>4. govBalance[caller] \in Nat /\ \A a \in Traders : govBalance[a] \in Nat
  BY <1>1
<1>5. for \in Nat /\ against \in Nat /\ for + against = o.for + o.against + govBalance[caller]
  BY <1>1, <1>4
<1> HIDE DEF for, against, o
<1>6. new \in FeeProposal /\ new.for = for /\ new.against = against
  BY <1>1, <1>5 DEF FeeProposal
<1> HIDE DEF new
<1>7. /\ list \in Seq(FeeProposal) /\ DOMAIN list = DOMAIN feeProposals /\ list[n] = new
      /\ \A m \in DOMAIN feeProposals \ {n} : list[m] = feeProposals[m]
  BY <1>1, <1>6, SeqWritten
<1> HIDE DEF list
<1>8. new.for + new.against <= SumFunctionOnSet(govBalance, Ballots(cast, n))
  <2> DEFINE V == Ballots(votesCast, n)
  <2>1. V \in SUBSET Traders /\ caller \notin V /\ Ballots(cast, n) = V \cup {caller}
    BY <1>3 DEF Ballots
  <2> HIDE DEF V
  <2>2. IsFiniteSet(V)
    BY <2>1, FS_Subset, DexFacts
  <2>3. \A a \in V \cup {caller} : govBalance[a] \in Int
    BY <1>4, <2>1
  <2>4. SumFunctionOnSet(govBalance, V \cup {caller}) = SumFunctionOnSet(govBalance, V) + govBalance[caller]
    BY <2>1, <2>2, <2>3, SumAdd
  <2>5. SumFunctionOnSet(govBalance, V) \in Nat
    BY <1>4, <2>1, SumSubset, DexFacts
  <2>6. o.for + o.against <= SumFunctionOnSet(govBalance, V)
    BY <1>1 DEF V
  <2>7. new.for + new.against = o.for + o.against + govBalance[caller]
    BY <1>5, <1>6
  <2>8. SumFunctionOnSet(govBalance, Ballots(cast, n)) = SumFunctionOnSet(govBalance, V) + govBalance[caller]
    BY <2>1, <2>4
  <2> HIDE DEF cast
  <2>9. o.for \in Nat /\ o.against \in Nat /\ govBalance[caller] \in Nat
    BY <1>1, <1>4
  <2> QED
    BY <2>5, <2>6, <2>7, <2>8, <2>9
<1>9. ASSUME NEW m \in DOMAIN list
      PROVE  list[m].for + list[m].against <= SumFunctionOnSet(govBalance, Ballots(cast, m))
  <2>1. CASE m = n
    BY <1>7, <1>8, <2>1
  <2>2. CASE m # n
    BY <1>7, <2>2, StoredProposals DEF Ballots
  <2> QED
    BY <2>1, <2>2
<1>10. cast \subseteq ((DOMAIN list) \X Traders)
  BY <1>1, <1>7
<1>11. BallotsGood(list, cast, govBalance)
  BY <1>7, <1>9, <1>10 DEF BallotsGood
<1>12. BallotsGood(feeProposals, votesCast, govBalance)'
  BY <1>2, <1>3, <1>11
<1> QED
  BY <1>3, <1>12, ProposalsApart

\* A passed proposal sets the fee of every pool, and nothing else of it
\* (execute_governance_proposal).
LEMMA FeeKeeps ==
    ASSUME DexInv, NEW n \in DOMAIN feeProposals, ExecuteFeeProposal(n)
    PROVE  DexInv' /\ WorthNoLess(pairs, pairs')
<1> DEFINE o == feeProposals[n]
           new == [o EXCEPT !.executed = TRUE]
           list == Written(feeProposals, n, new)
           passed == o.for > o.against
           fee == CHOOSE f \in o.fee : TRUE
           charged(p) == IF passed /\ o.fee # {} THEN [pairs[p] EXCEPT !.fee = fee] ELSE pairs[p]
           qs == [p \in pairIds |-> charged(p)]
<1>1. /\ feeProposals \in Seq(FeeProposal) /\ votesCast \subseteq ((DOMAIN feeProposals) \X Traders)
      /\ o \in FeeProposal /\ o.for \in Nat /\ o.against \in Nat
  BY StoredProposals
<1>16. passed => \A f \in o.fee : f < FeeLimit
  BY DEF ExecuteFeeProposal
<1>2. /\ feeProposals' = list /\ pairs' = qs
      /\ UNCHANGED <<votesCast, block, orders, govBalance, govSupply, scores, positions, contests, prizesClaimed,
                     crossTrades, dexAdminVars>>
  BY DEF ExecuteFeeProposal, UnchangedByProposals, Written
<1>3. /\ BooksGood(pairs, orders, govBalance, govSupply, scores) /\ SharesAgree(pairs, positions)
      /\ BallotsGood(feeProposals, votesCast, govBalance)
  BY DEF DexInv
<1>4. /\ pairs \in Seq(Pair) /\ pairIds = 1..Len(pairs) /\ DOMAIN pairs = pairIds /\ Len(pairs) \in Nat
      /\ \A p \in pairIds : pairs[p] \in Pair
  BY <1>3, BooksParts DEF BooksGood, pairIds
<1>5. passed /\ o.fee # {} => fee \in 0..(FeeLimit - 1)
  <2>1. o.fee \in SUBSET Nat
    BY <1>1 DEF FeeProposal
  <2>2. o.fee # {} => fee \in o.fee
    OBVIOUS
  <2> HIDE DEF fee
  <2>3. ASSUME passed, o.fee # {}
        PROVE  fee \in 0..(FeeLimit - 1)
    BY <1>16, <2>1, <2>2, <2>3, DexFacts
  <2> QED
    BY <2>3
<1>6. new \in FeeProposal /\ new.for = o.for /\ new.against = o.against
  BY <1>1 DEF FeeProposal
<1>7. ASSUME NEW p \in pairIds
      PROVE  /\ charged(p) \in Pair /\ charged(p).base = pairs[p].base /\ charged(p).quote = pairs[p].quote
             /\ charged(p).shares = pairs[p].shares /\ charged(p).index = pairs[p].index
             /\ charged(p).bid = pairs[p].bid /\ charged(p).ask = pairs[p].ask
  <2> DEFINE z == pairs[p]
             y == charged(p)
  <2>1. z \in Pair
    BY <1>4
  <2>2. y = IF passed /\ o.fee # {} THEN [z EXCEPT !.fee = fee] ELSE z
    OBVIOUS
  <2> HIDE DEF z, y, fee, passed
  <2>3. /\ y \in Pair /\ y.base = z.base /\ y.quote = z.quote /\ y.shares = z.shares /\ y.index = z.index
        /\ y.bid = z.bid /\ y.ask = z.ask
    <3>1. CASE passed /\ o.fee # {}
      BY <1>5, <2>2, <3>1, <2>1 DEF Pair
    <3>2. CASE ~(passed /\ o.fee # {})
      BY <2>1, <2>2, <3>2
    <3> QED
      BY <3>1, <3>2
  <2> QED
    BY <2>3 DEF y, z
<1> HIDE DEF charged
<1>8. /\ qs \in Seq(Pair) /\ DOMAIN qs = pairIds
      /\ \A p \in pairIds : /\ qs[p] \in Pair /\ qs[p].base = pairs[p].base /\ qs[p].quote = pairs[p].quote
                            /\ qs[p].shares = pairs[p].shares /\ qs[p].index = pairs[p].index
                            /\ qs[p].bid = pairs[p].bid /\ qs[p].ask = pairs[p].ask
  BY <1>4, <1>7, SeqDef
<1>9. /\ list \in Seq(FeeProposal) /\ DOMAIN list = DOMAIN feeProposals /\ list[n] = new
      /\ \A m \in DOMAIN feeProposals \ {n} : list[m] = feeProposals[m]
  <2> HIDE DEF new, qs
  <2>1. feeProposals \in Seq(FeeProposal) /\ n \in DOMAIN feeProposals /\ new \in FeeProposal
    BY <1>1, <1>6
  <2> QED
    BY <2>1, SeqWritten
<1> HIDE DEF new, list, qs, passed, fee
<1>10. BallotsGood(feeProposals, votesCast, govBalance)'
  <2>1. ASSUME NEW m \in DOMAIN list
        PROVE  list[m].for + list[m].against <= SumFunctionOnSet(govBalance, Ballots(votesCast, m))
    <3>1. feeProposals[m].for + feeProposals[m].against <= SumFunctionOnSet(govBalance, Ballots(votesCast, m))
      BY <1>9, StoredProposals
    <3>2. list[m].for = feeProposals[m].for /\ list[m].against = feeProposals[m].against
      BY <1>6, <1>9
    <3> QED
      BY <3>1, <3>2
  <2>2. BallotsGood(list, votesCast, govBalance)
    BY <1>1, <1>9, <2>1 DEF BallotsGood
  <2> QED
    BY <1>2, <2>2
<1>11. BooksGood(pairs, orders, govBalance, govSupply, scores)'
  <2>1. QuotesRight(qs, orders)
    BY <1>3, <1>4, <1>8 DEF BooksGood, QuotesRight
  <2>2. BooksGood(qs, orders, govBalance, govSupply, scores)
    BY <1>3, <1>4, <1>8, <2>1 DEF BooksGood
  <2> QED
    BY <1>2, <2>2
<1>12. SharesAgree(pairs, positions)'
  <2>1. DOMAIN qs = DOMAIN pairs
    BY <1>4, <1>8
  <2>2. \A p \in DOMAIN pairs : qs[p].shares = pairs[p].shares /\ pairs[p].index <= qs[p].index
    <3> TAKE p \in DOMAIN pairs
    <3>1. pairs[p].index \in Nat /\ p \in pairIds
      BY <1>4 DEF Pair
    <3> QED
      BY <1>8, <3>1
  <2>3. SharesAgree(qs, positions)
    BY <1>3, <1>4, <1>8, <2>1, <2>2, SharesStay
  <2> QED
    BY <1>2, <2>3
<1>13. (crossTrades \in Seq(CrossTrade(pairs)))'
  BY <1>4, <1>8, <1>2 DEF CrossTrade, DexInv
<1>14. ContestsGood(contests, scores, prizesClaimed)' /\ SettingsGood'
  BY <1>2, SettingsStay DEF DexInv, ContestsGood
<1>15. WorthNoLess(pairs, qs)
  <2>1. ASSUME NEW p \in DOMAIN pairs
        PROVE  qs[p].base * qs[p].quote * pairs[p].shares * pairs[p].shares
                   >= pairs[p].base * pairs[p].quote * qs[p].shares * qs[p].shares
    BY <1>4, <1>8, SameWorth
  <2> QED
    BY <2>1 DEF WorthNoLess
<1> QED
  BY <1>2, <1>10, <1>11, <1>12, <1>13, <1>14, <1>15 DEF DexInv

\* What the clock and the admin's settings leave alone.
LEMMA SettingsApart ==
    ASSUME DexInv, UNCHANGED <<marketVars, positions, feeProposals, votesCast, contests, prizesClaimed, crossTrades>>,
           SettingsGood'
    PROVE  DexInv' /\ WorthNoLess(pairs, pairs')
  BY PoolsStay, WorthStays DEF marketVars, DexInv

\* Cross-chain trades are stored (create_cross_chain_trade, attach_bridge_request,
\* finalize_cross_chain_trade).
LEMMA TradesKeep ==
    ASSUME DexInv, NEW trades, trades \in Seq(CrossTrade(pairs)), SetTrades(trades)
    PROVE  DexInv' /\ WorthNoLess(pairs, pairs')
<1>1. /\ crossTrades' = trades
      /\ UNCHANGED <<block, pairs, orders, govBalance, govSupply, scores, positions, feeProposals, votesCast, contests,
                     prizesClaimed, dexAdminVars>>
  BY DEF SetTrades, marketVars
<1>2. SharesAgree(pairs, positions)' /\ BooksGood(pairs, orders, govBalance, govSupply, scores)'
  BY <1>1 DEF DexInv, SharesAgree, BooksGood
<1>3. ContestsGood(contests, scores, prizesClaimed)' /\ BallotsGood(feeProposals, votesCast, govBalance)'
  BY <1>1 DEF DexInv, ContestsGood, BallotsGood
<1>4. (crossTrades \in Seq(CrossTrade(pairs)))'
  BY <1>1 DEF CrossTrade
<1>5. SettingsGood' /\ WorthNoLess(pairs, pairs')
  BY <1>1, SettingsStay, WorthStays DEF DexInv
<1> QED
  BY <1>2, <1>3, <1>4, <1>5 DEF DexInv

\* Every message on cross-chain trades.
LEMMA TradesStayTyped ==
    ASSUME DexInv, TradeNext
    PROVE  DexInv' /\ WorthNoLess(pairs, pairs')
<1>1. crossTrades \in Seq(CrossTrade(pairs)) /\ pairIds = DOMAIN pairs
  BY DEF DexInv, pairIds
<1>2. ASSUME NEW a \in Traders, NEW p \in pairIds, NEW chain \in Destinations, CreateCrossChainTrade(a, p, chain)
      PROVE  DexInv' /\ WorthNoLess(pairs, pairs')
  <2> DEFINE x == [pair |-> p, trader |-> a, status |-> "Pending"]
             trades == Append(crossTrades, x)
  <2>1. x \in CrossTrade(pairs)
    BY <1>1 DEF CrossTrade
  <2>2. SetTrades(trades)
    BY <1>2 DEF CreateCrossChainTrade
  <2> HIDE DEF x
  <2>3. trades \in Seq(CrossTrade(pairs))
    BY <1>1, <2>1, SeqAppended
  <2> HIDE DEF trades
  <2> QED
    BY <2>2, <2>3, TradesKeep
<1>3. ASSUME NEW t \in DOMAIN crossTrades, NEW status \in {"BridgeRequested", "Settled"},
             SetTrades([crossTrades EXCEPT ![t].status = status])
      PROVE  DexInv' /\ WorthNoLess(pairs, pairs')
  <2> DEFINE x == [crossTrades[t] EXCEPT !.status = status]
             trades == Written(crossTrades, t, x)
  <2>1. crossTrades[t] \in CrossTrade(pairs)
    BY <1>1, ElementOfSeq, LenProperties
  <2>2. x \in CrossTrade(pairs)
    BY <2>1 DEF CrossTrade
  <2>3. SetTrades(trades)
    BY <1>3 DEF Written
  <2> HIDE DEF x
  <2>4. trades \in Seq(CrossTrade(pairs))
    BY <1>1, <2>2, SeqWritten
  <2> HIDE DEF trades
  <2> QED
    BY <2>3, <2>4, TradesKeep
<1>4. ASSUME NEW a \in Traders, NEW t \in DOMAIN crossTrades, AttachBridgeRequest(a, t)
      PROVE  DexInv' /\ WorthNoLess(pairs, pairs')
  BY <1>3, <1>4 DEF AttachBridgeRequest
<1>5. ASSUME NEW a \in Traders, NEW t \in DOMAIN crossTrades, FinalizeCrossChainTrade(a, t)
      PROVE  DexInv' /\ WorthNoLess(pairs, pairs')
  BY <1>3, <1>5 DEF FinalizeCrossChainTrade
<1> QED
  BY <1>2, <1>4, <1>5 DEF TradeNext

\* What a setting or an announced action carries.
SettingTyped(s) ==
    /\ s.kind \in {"Route", "Mining", "Delay"} /\ s.chain \in Destinations
    /\ s.campaign \in [rate : Nat, start : Nat, end : Nat] /\ s.delay \in Nat

\* The settings that the admin chooses from.
LEMMA SettingsTyped == ASSUME NEW s \in Settings PROVE SettingTyped(s)
<1> DEFINE none == NoSetting
<1>1. (CHOOSE chain \in Destinations : TRUE) \in Destinations
  BY DexFacts
<1>2. /\ none = [kind |-> none.kind, chain |-> none.chain, campaign |-> none.campaign, delay |-> none.delay]
      /\ none.kind = "Delay" /\ none.chain \in Destinations /\ none.delay = 0
      /\ none.campaign \in [rate : Nat, start : Nat, end : Nat]
  BY <1>1 DEF NoSetting
<1>3. \/ \E chain \in Destinations : s = [none EXCEPT !.kind = "Route", !.chain = chain]
      \/ \E c \in Campaigns : s = [none EXCEPT !.kind = "Mining", !.campaign = c]
      \/ \E delay \in DelayArgs : s = [none EXCEPT !.delay = delay]
  BY DEF Settings
<1> HIDE DEF none
<1>4. CASE \E chain \in Destinations : s = [none EXCEPT !.kind = "Route", !.chain = chain]
  BY <1>2, <1>4 DEF SettingTyped
<1>5. CASE \E c \in Campaigns : s = [none EXCEPT !.kind = "Mining", !.campaign = c]
  BY <1>5, DexFacts, <1>2 DEF Campaigns, SettingTyped
<1>6. CASE \E delay \in DelayArgs : s = [none EXCEPT !.delay = delay]
  BY <1>2, <1>6, DexFacts DEF SettingTyped
<1> QED
  BY <1>3, <1>4, <1>5, <1>6

\* A setting that is applied is of its type (set_liquidity_mining_campaign,
\* configure_bridge_route, set_admin_timelock_delay).
LEMMA AppliedSettings ==
    ASSUME SettingsGood, NEW s, SettingTyped(s), Apply(s), UNCHANGED block
    PROVE  RewardsTick' /\ routes' \subseteq Destinations /\ timelock' \in Nat
  BY DEF SettingsGood, RewardsTick, SettingTyped, Apply

\* Every message of the admin.
LEMMA AdminKeeps ==
    ASSUME DexInv, DexAdminNext
    PROVE  DexInv' /\ WorthNoLess(pairs, pairs')
<1>1. SettingsGood /\ adminActions \in Seq(AdminAction) /\ block \in Nat /\ timelock \in Nat
  BY DEF DexInv, SettingsGood, RewardsTick
<1>2. ASSUME UnchangedByAdmin, SettingsGood'
      PROVE  DexInv' /\ WorthNoLess(pairs, pairs')
  BY <1>2, SettingsApart DEF UnchangedByAdmin
<1>3. ASSUME NEW a \in Traders, NEW s \in Settings, SetAtOnce(a, s)
      PROVE  DexInv' /\ WorthNoLess(pairs, pairs')
  BY <1>3, SettingsTyped, <1>1, AppliedSettings, <1>2 DEF SetAtOnce, UnchangedByAdmin, SettingsGood
<1>4. ASSUME NEW a \in Traders, NEW s \in Settings, ScheduleAdminAction(a, s)
      PROVE  DexInv' /\ WorthNoLess(pairs, pairs')
  <2> DEFINE x == [kind |-> s.kind, chain |-> s.chain, campaign |-> s.campaign, delay |-> s.delay,
                   from |-> block + timelock, status |-> "Scheduled"]
  <2>1. SettingTyped(s)
    BY SettingsTyped
  <2>2. x \in AdminAction
    BY <1>1, <2>1 DEF SettingTyped, AdminAction
  <2>3. adminActions' = Append(adminActions, x) /\ UNCHANGED <<routes, mining, timelock, block>> /\ UnchangedByAdmin
    BY <1>4 DEF ScheduleAdminAction, UnchangedByAdmin
  <2> HIDE DEF x
  <2>4. Append(adminActions, x) \in Seq(AdminAction)
    BY <1>1, <2>2, SeqAppended
  <2>5. SettingsGood'
    BY <1>1, <2>3, <2>4 DEF SettingsGood, RewardsTick
  <2> QED
    BY <1>2, <2>3, <2>5
<1>5. ASSUME NEW n \in DOMAIN adminActions, NEW status \in {"Executed", "Cancelled"}
      PROVE  [adminActions EXCEPT ![n].status = status] \in Seq(AdminAction) /\ SettingTyped(adminActions[n])
  <2> DEFINE z == adminActions[n]
             x == [z EXCEPT !.status = status]
  <2>1. z \in AdminAction
    BY <1>1, ElementOfSeq, LenProperties
  <2>2. x \in AdminAction /\ SettingTyped(z)
    BY <2>1 DEF AdminAction, SettingTyped
  <2> HIDE DEF x
  <2>3. Written(adminActions, n, x) \in Seq(AdminAction)
    BY <1>1, <2>2, SeqWritten
  <2> QED
    BY <2>2, <2>3 DEF Written, x
<1>6. ASSUME NEW a \in Traders, NEW n \in DOMAIN adminActions, ExecuteAdminAction(a, n)
      PROVE  DexInv' /\ WorthNoLess(pairs, pairs')
  <2>1. /\ adminActions' = [adminActions EXCEPT ![n].status = "Executed"] /\ Apply(adminActions[n])
        /\ UNCHANGED block /\ UnchangedByAdmin
    BY <1>6 DEF ExecuteAdminAction, UnchangedByAdmin
  <2>2. adminActions' \in Seq(AdminAction) /\ SettingTyped(adminActions[n])
    BY <1>5, <2>1
  <2>3. RewardsTick' /\ routes' \subseteq Destinations /\ timelock' \in Nat
    BY <1>1, <2>1, <2>2, AppliedSettings
  <2>4. SettingsGood'
    BY <2>2, <2>3 DEF SettingsGood
  <2> QED
    BY <1>2, <2>1, <2>4
<1>7. ASSUME NEW a \in Traders, NEW n \in DOMAIN adminActions, CancelAdminAction(a, n)
      PROVE  DexInv' /\ WorthNoLess(pairs, pairs')
  <2>1. /\ adminActions' = [adminActions EXCEPT ![n].status = "Cancelled"]
        /\ UNCHANGED <<routes, mining, timelock, block>> /\ UnchangedByAdmin
    BY <1>7 DEF CancelAdminAction, UnchangedByAdmin
  <2>2. adminActions' \in Seq(AdminAction)
    BY <1>5, <2>1
  <2>3. SettingsGood'
    BY <1>1, <2>1, <2>2 DEF SettingsGood, RewardsTick
  <2> QED
    BY <1>2, <2>1, <2>3
<1> QED
  BY <1>3, <1>4, <1>6, <1>7 DEF DexAdminNext

\* Every message of the exchange, and every block, keeps the invariant and what a share of
\* a pool is worth.
LEMMA DexStepKeeps ==
    ASSUME DexInv, [DexNext]_dexVars
    PROVE  DexInv' /\ WorthNoLess(pairs, pairs')
<1>1. CASE PoolNext
  BY PoolKeeps, DepositKeeps, WithdrawalKeeps, RewardsKeep, <1>1 DEF PoolNext
<1>2. CASE OrderNext
  BY SwapKeeps, PlaceKeeps, ExecuteKeeps, CancelKeeps, MatchKeeps, <1>2 DEF OrderNext
<1>3. CASE TradeNext
  BY <1>3, TradesStayTyped
<1>4. CASE ContestNext
  BY ContestCreatedKeeps, PrizeKeeps, ContestAdjustedKeeps, <1>4 DEF ContestNext
<1>5. CASE ProposalNext
  BY ProposalKeeps, VoteKeeps, FeeKeeps, <1>5 DEF ProposalNext
<1>6. CASE DexAdminNext
  BY <1>6, AdminKeeps
<1>7. ASSUME UNCHANGED <<marketVars, positions, feeProposals, votesCast, contests, prizesClaimed, crossTrades, dexAdminVars>>,
             block' \in Nat
      PROVE  DexInv' /\ WorthNoLess(pairs, pairs')
  BY <1>7, SettingsApart DEF DexInv, SettingsGood, RewardsTick, dexAdminVars
<1>8. block \in Nat
  BY DEF DexInv, SettingsGood, RewardsTick
<1>9. CASE NextBlock /\ UNCHANGED <<marketVars, positions, feeProposals, votesCast, contests, prizesClaimed, crossTrades, dexAdminVars>>
  BY <1>8, <1>9, <1>7 DEF NextBlock
<1>10. CASE UNCHANGED dexVars
  BY <1>10, <1>7, <1>8 DEF dexVars
<1> QED
  BY <1>1, <1>2, <1>3, <1>4, <1>5, <1>6, <1>9, <1>10, Zenon DEF DexNext

\* The books of the exchange agree after every message, however deep swaps and fills are
\* nested: pools' shares are their providers', no reward debt exceeds what the index has
\* brought, stored quotes are those of the open orders, and votes weigh no more than all
\* tokens.
THEOREM MarketBooksAlwaysAgree == DexSpec => []MarketBooksAgree
<1>1. ChainInit /\ DexInit => DexInv
  BY DexInvInit
<1>2. DexInv /\ [DexNext]_dexVars => DexInv'
  BY DexStepKeeps
<1>3. DexInv => MarketBooksAgree
  BY BooksAreRight
<1> QED
  BY <1>1, <1>2, <1>3, PTL DEF DexSpec

\* What one share of a pool is worth never falls, whatever a message sets off and whatever
\* is rounded (swap, add_liquidity, remove_liquidity, process_executable_limit_orders).
THEOREM SharesNeverLoseValue == DexSpec => ShareValueNeverFalls
<1>1. ChainInit /\ DexInit => DexInv
  BY DexInvInit
<1>2. DexInv /\ [DexNext]_dexVars => DexInv'
  BY DexStepKeeps
<1>3. DexInv /\ [DexNext]_dexVars =>
          [\A p \in pairIds :
              LET a == pairs[p]
                  b == pairs'[p]
              IN  a.shares > 0 /\ b.shares > 0 =>
                      b.base * b.quote * a.shares * a.shares >= a.base * a.quote * b.shares * b.shares]_pairs
  BY DexStepKeeps DEF WorthNoLess, pairIds
<1> QED
  BY <1>1, <1>2, <1>3, PTL DEF DexSpec, ShareValueNeverFalls

----
(***************************************************************************)
(* The governance contract and the proxy, for any number of signers,       *)
(* proposals and votes: the theorems are about the specification with      *)
(* every message, Spec, and not about the aspects that model checking      *)
(* looks at one by one.                                                    *)
(***************************************************************************)
\* The signers

\* What the constructor is given is a list of accounts, and so is what is left of
\* it without repetitions (Vec::dedup).
LEMMA DedupType ==
    ASSUME NEW list \in Seq(Accounts)
    PROVE  Dedup(list) \in Seq(Accounts)
<1> DEFINE L == Len(list)
           next(n, acc) == IF n > 1 /\ list[n] = list[n - 1] THEN acc ELSE Append(acc, list[n])
           Solves(k, m) == k = [n \in 0..m |-> IF n = 0 THEN << >> ELSE next(n, k[n - 1])]
           Solved == {m \in Nat : \E k : Solves(k, m)}
           kept == CHOOSE k : Solves(k, L)
           Typed == {n \in Nat : n <= L => kept[n] \in Seq(Accounts)}
<1> HIDE DEF next
<1>1. 0 \in Solved
  <2>1. Solves([n \in 0..0 |-> << >>], 0)
    OBVIOUS
  <2> QED
    BY <2>1
<1>2. ASSUME NEW m \in Nat, m \in Solved
      PROVE  m + 1 \in Solved
  <2>1. PICK k : Solves(k, m)
    BY <1>2
  <2> DEFINE longer == [n \in 0..(m + 1) |-> IF n = 0 THEN << >> ELSE next(n, k[n - 1])]
  <2>2. ASSUME NEW n \in 0..m
        PROVE  longer[n] = k[n]
    BY <2>1
  <2>3. ASSUME NEW n \in 0..(m + 1), n # 0
        PROVE  longer[n - 1] = k[n - 1]
    <3>1. n - 1 \in 0..m
      BY <2>3
    <3> QED
      BY <2>2, <3>1, Zenon
  <2>4. Solves(longer, m + 1)
    <3> HIDE DEF longer
    <3>1. [n \in 0..(m + 1) |-> IF n = 0 THEN << >> ELSE next(n, k[n - 1])]
          = [n \in 0..(m + 1) |-> IF n = 0 THEN << >> ELSE next(n, longer[n - 1])]
      BY <2>3, Zenon
    <3> QED
      BY <3>1, Zenon DEF longer
  <2>5. m + 1 \in Nat
    OBVIOUS
  <2> QED
    BY <2>4, <2>5, Zenon
<1>3. L \in Solved
  <2>1. L \in Nat
    OBVIOUS
  <2> HIDE DEF Solved
  <2> QED
    BY <1>1, <1>2, <2>1, NatInduct
<1>4. Solves(kept, L)
  BY <1>3, Zenon
<1> HIDE DEF kept
<1>5. 0 \in Typed
  BY <1>4
<1>6. ASSUME NEW n \in Nat, n \in Typed
      PROVE  n + 1 \in Typed
  <2>1. SUFFICES ASSUME n + 1 <= L PROVE kept[n + 1] \in Seq(Accounts)
    OBVIOUS
  <2>2. kept[n] \in Seq(Accounts) /\ list[n + 1] \in Accounts
    BY <1>6, <2>1
  <2>3. n + 1 \in 0..L /\ n + 1 # 0 /\ (n + 1) - 1 = n
    BY <2>1
  <2>4. kept[n + 1] = IF n + 1 = 0 THEN << >> ELSE next(n + 1, kept[(n + 1) - 1])
    BY <1>4, <2>3, Zenon
  <2>5. kept[n + 1] = next(n + 1, kept[n])
    BY <2>3, <2>4
  <2> QED
    BY <2>2, <2>5 DEF next
<1>7. L \in Typed
  <2>1. L \in Nat
    OBVIOUS
  <2> HIDE DEF Typed
  <2> QED
    BY <1>5, <1>6, <2>1, NatInduct
<1>8. Dedup(list) = kept[L]
  BY DEF Dedup, kept, next
<1> QED
  BY <1>7, <1>8

----
\* The books

\* Only finitely many accounts have voted.
VotersAreFew == \A p \in DOMAIN proposals, c \in Choice : IsFiniteSet(Voters(p, c))

BooksInv == GovernanceBooksAgree /\ VotersAreFew

\* A contract begins with agreeing books, whoever deploys it and with whatever
\* list of signers (new).
LEMMA BooksInit == Init => BooksInv
<1> SUFFICES ASSUME Init PROVE BooksInv
  OBVIOUS
<1> USE GovernanceConstants
<1>1. signers \in Seq(Accounts) /\ threshold \in 0..Len(signers)
  BY DedupType DEF Init
<1>2. GovernanceTypeOK
  BY <1>1 DEF Init, ChainInit, GovernanceTypeOK
<1>3. VotesTally /\ VotersAreFew
  BY DEF Init, VotesTally, VotersAreFew
<1>4. CountersMatchRecount
  BY FS_EmptySet DEF Init, ProposalStatus, CountersMatchRecount
<1> QED
  BY <1>2, <1>3, <1>4 DEF BooksInv, GovernanceBooksAgree

\* One more proposal, with the status it is created with, is one more to count.
LEMMA CountGrows ==
    ASSUME NEW S, IsFiniteSet(S), NEW e, e \notin S
    PROVE  IsFiniteSet(S \cup {e}) /\ Cardinality(S \cup {e}) = Cardinality(S) + 1
  BY FS_AddElement

\* The proposals that have a status are finitely many.
LEMMA WithStatusFinite ==
    \A S : \A list \in Seq(S) : \A s :
        /\ IsFiniteSet({p \in DOMAIN list : list[p].status = s})
        /\ Cardinality({p \in DOMAIN list : list[p].status = s}) \in Nat
<1> SUFFICES ASSUME NEW S, NEW list \in Seq(S), NEW s
             PROVE  /\ IsFiniteSet({p \in DOMAIN list : list[p].status = s})
                    /\ Cardinality({p \in DOMAIN list : list[p].status = s}) \in Nat
  OBVIOUS
<1>1. IsFiniteSet(1..Len(list))
  BY FS_Interval
<1>2. {p \in DOMAIN list : list[p].status = s} \subseteq 1..Len(list)
  OBVIOUS
<1> QED
  BY <1>1, <1>2, FS_Subset, FS_CardinalityType

\* A new proposal gets the next id and no votes (create_proposal,
\* create_emergency_proposal).
LEMMA AddProposalBooks ==
    ASSUME BooksInv, NEW caller \in Accounts, NEW needed \in Nat, NEW emergency \in BOOLEAN,
           AddProposal(caller, needed, emergency)
    PROVE  BooksInv'
<1> DEFINE new == NewProposal(caller, needed, emergency)
           n == Len(proposals) + 1
<1> USE DEF BooksInv, GovernanceBooksAgree
<1>1. /\ proposals' = Append(proposals, new)
      /\ count' = [count EXCEPT !["Active"] = @ + 1]
      /\ UNCHANGED <<block, admin, rotation, signers, threshold, keys, votes, commitments, revealing, closed>>
  BY DEF AddProposal, adminVars, signerVars, ballotVars
<1>2. new \in Proposal
  BY DEF NewProposal, Proposal, ProposalStatus, GovernanceTypeOK
<1>3. /\ proposals' \in Seq(Proposal) /\ Len(proposals') = n /\ n \in Nat
      /\ DOMAIN proposals' = DOMAIN proposals \cup {n} /\ n \notin DOMAIN proposals
      /\ proposals'[n] = new
      /\ \A p \in DOMAIN proposals : proposals'[p] = proposals[p]
  BY <1>1, <1>2 DEF GovernanceTypeOK
<1>4. GovernanceTypeOK'
  <2> HIDE DEF new
  <2>1. count' \in [ProposalStatus -> Nat]
    BY <1>1 DEF GovernanceTypeOK, ProposalStatus
  <2>2. n = Len(proposals) + 1 /\ Len(proposals) \in Nat
    BY <1>3 DEF GovernanceTypeOK
  <2>3. 1..Len(proposals) \subseteq 1..n
    BY <2>2
  <2>4. /\ votes' \subseteq (1..Len(proposals')) \X Accounts \X Choice
        /\ commitments' \subseteq (1..Len(proposals')) \X Accounts \X Commitment
        /\ revealing' \subseteq 1..Len(proposals')
    BY <1>1, <1>3, <2>3 DEF GovernanceTypeOK
  <2> QED
    BY <1>1, <1>3, <2>1, <2>4 DEF GovernanceTypeOK
<1>5. \A p, c : Voters(p, c)' = Voters(p, c)
  BY <1>1 DEF Voters
<1>6. \A c : Voters(n, c) = {}
  BY <1>3 DEF Voters, GovernanceTypeOK
<1>7. VotesTally'
  <2>1. /\ new.votesFor = 0 /\ new.votesAgainst = 0 /\ new.threshold = needed
    BY DEF NewProposal
  <2>2. ASSUME NEW p \in DOMAIN proposals'
        PROVE  /\ proposals'[p].votesFor = Cardinality(Voters(p, "for")')
               /\ proposals'[p].votesAgainst = Cardinality(Voters(p, "against")')
               /\ Voters(p, "for")' \cap Voters(p, "against")' = {}
               /\ proposals'[p].status = "Active" =>
                     \/ proposals'[p].votesFor < proposals'[p].threshold
                     \/ proposals'[p].threshold = 0 /\ proposals'[p].votesFor + proposals'[p].votesAgainst = 0
    <3>1. CASE p = n
      <4>1. Voters(p, "for")' = {} /\ Voters(p, "against")' = {}
        BY <1>5, <1>6, <3>1
      <4>2. /\ proposals'[p].votesFor = 0 /\ proposals'[p].votesAgainst = 0
            /\ proposals'[p].threshold = needed
        BY <1>3, <2>1, <3>1
      <4>3. Cardinality(Voters(p, "for")') = 0 /\ Cardinality(Voters(p, "against")') = 0
        BY <4>1, FS_EmptySet
      <4> QED
        BY <4>1, <4>2, <4>3
    <3>2. CASE p # n
      BY <1>3, <3>2, <1>5 DEF VotesTally
    <3> QED
      BY <3>1, <3>2
  <2> QED
    BY <2>2 DEF VotesTally
<1>8. VotersAreFew'
  <2>1. ASSUME NEW p \in DOMAIN proposals', NEW c \in Choice
        PROVE  IsFiniteSet(Voters(p, c)')
    <3>1. Voters(p, c)' = Voters(p, c)
      BY <1>5
    <3>2. CASE p = n
      BY <1>6, <3>1, <3>2, FS_EmptySet
    <3>3. CASE p # n
      BY <1>3, <3>1, <3>3 DEF VotersAreFew
    <3> QED
      BY <3>2, <3>3
  <2> QED
    BY <2>1 DEF VotersAreFew
<1>10. CountersMatchRecount'
  <2> DEFINE with(s) == {p \in DOMAIN proposals : proposals[p].status = s}
             after(s) == {p \in DOMAIN proposals' : proposals'[p].status = s}
  <2>1. after("Active") = with("Active") \cup {n} /\ n \notin with("Active")
    BY <1>3 DEF NewProposal
  <2>2. \A s \in ProposalStatus \ {"Active"} : after(s) = with(s)
    BY <1>3 DEF NewProposal
  <2>3. Cardinality(after("Active")) = Cardinality(with("Active")) + 1
    <3>1. IsFiniteSet(with("Active"))
      BY WithStatusFinite DEF GovernanceTypeOK
    <3> HIDE DEF with, after, n
    <3> QED
      BY <2>1, <3>1, CountGrows
  <2>4. \A s \in ProposalStatus : count[s] = Cardinality(with(s))
    BY DEF CountersMatchRecount
  <2>5. \A s \in ProposalStatus : count'[s] = Cardinality(after(s))
    <3> HIDE DEF with, after
    <3> QED
      BY <1>1, <2>2, <2>3, <2>4 DEF GovernanceTypeOK, ProposalStatus
  <2>6. closed'.count = count'["Executed"] + count'["Rejected"]
    BY <1>1 DEF CountersMatchRecount, GovernanceTypeOK, ProposalStatus
  <2> QED
    BY <2>5, <2>6 DEF CountersMatchRecount
<1> QED
  BY <1>4, <1>7, <1>8, <1>10

\* What one more vote makes of a proposal (record_vote): the count of its side grows
\* by one, it is approved if and only if it has the support it needs, and its
\* timelock begins with the approval.
LEMMA VotedFacts ==
    ASSUME NEW proposal \in Proposal, NEW choice \in Choice, GovernanceTypeOK
    PROVE  LET after == Voted(proposal, choice) IN
           /\ after \in Proposal
           /\ after.votesFor = proposal.votesFor + (IF choice = "for" THEN 1 ELSE 0)
           /\ after.votesAgainst = proposal.votesAgainst + (IF choice = "against" THEN 1 ELSE 0)
           /\ after.threshold = proposal.threshold
           /\ after.createdAt = proposal.createdAt
           /\ after.emergency = proposal.emergency
           /\ after.status \in {"Active", "Approved", "Rejected"}
           /\ after.status = "Approved" <=> after.votesFor >= after.threshold
           /\ after.status = "Approved" /\ ~after.emergency => after.timelockUntil = block + TimelockBlocks
           /\ after.status = "Approved" /\ after.emergency => after.timelockUntil = block
<1> DEFINE for == proposal.votesFor + (IF choice = "for" THEN 1 ELSE 0)
           against == proposal.votesAgainst + (IF choice = "against" THEN 1 ELSE 0)
           remaining == IF for + against > Len(signers) THEN 0 ELSE Len(signers) - (for + against)
           status == IF for >= proposal.threshold THEN "Approved"
                     ELSE IF for + remaining < proposal.threshold THEN "Rejected" ELSE "Active"
           until == IF status # "Approved" THEN proposal.timelockUntil
                    ELSE IF proposal.emergency THEN block ELSE block + TimelockBlocks
<1>1. Voted(proposal, choice) = [proposal EXCEPT !.votesFor = for, !.votesAgainst = against,
                                                 !.status = status, !.timelockUntil = until]
  BY DEF Voted
<1>2. for \in Nat /\ against \in Nat
  BY DEF Proposal, Choice
<1>3. status \in {"Active", "Approved", "Rejected"} /\ (status = "Approved" <=> for >= proposal.threshold)
  OBVIOUS
<1>4. until \in Nat
  BY GovernanceConstants, SMTT(30) DEF GovernanceTypeOK, Proposal
<1>5. /\ status = "Approved" /\ ~proposal.emergency => until = block + TimelockBlocks
      /\ status = "Approved" /\ proposal.emergency => until = block
  OBVIOUS
<1> HIDE DEF for, against, remaining, status, until
<1>6. Voted(proposal, choice) \in Proposal
  BY <1>1, <1>2, <1>3, <1>4 DEF Proposal, ProposalStatus
<1>7. LET after == Voted(proposal, choice) IN
      /\ after.votesFor = for /\ after.votesAgainst = against /\ after.status = status
      /\ after.timelockUntil = until /\ after.threshold = proposal.threshold
      /\ after.createdAt = proposal.createdAt /\ after.emergency = proposal.emergency
  BY <1>1 DEF Proposal
<1> QED
  BY <1>3, <1>5, <1>6, <1>7 DEF for, against

\* A share of the signers in basis points is a number (apply_status_transition).
LEMMA ShareIsNat == \A a \in Nat, b \in Nat \ {0} : a \div b \in Nat
  OBVIOUS

\* The counters follow a proposal from one status to another, or to the same one
\* (apply_status_transition).
LEMMA CountersFollow ==
    ASSUME GovernanceTypeOK, CountersMatchRecount, NEW p \in DOMAIN proposals,
           NEW next \in Proposal, NEW counted \in Proposal, UNCHANGED signers,
           counted.status = proposals[p].status,
           next.status \in {"Approved", "Rejected", "Executed", "Cancelled"},
           counted.status \in {"Executed", "Rejected"} => next.status \in {"Executed", "Rejected"},
           proposals' = [proposals EXCEPT ![p] = next],
           ApplyStatusTransition(counted, next.status)
    PROVE  /\ CountersMatchRecount'
           /\ count' \in [ProposalStatus -> Nat]
           /\ closed' \in [count : Nat, participation : Nat]
<1> DEFINE with(s) == {q \in DOMAIN proposals : proposals[q].status = s}
           after(s) == {q \in DOMAIN proposals' : proposals'[q].status = s}
           old == proposals[p].status
           new == next.status
<1>1. /\ proposals \in Seq(Proposal) /\ proposals' \in Seq(Proposal)
      /\ DOMAIN proposals' = DOMAIN proposals /\ proposals'[p] = next
      /\ \A q \in DOMAIN proposals \ {p} : proposals'[q] = proposals[q]
      /\ old \in ProposalStatus /\ new \in ProposalStatus
  <2>1. proposals \in Seq(Proposal)
    BY DEF GovernanceTypeOK
  <2>2. old \in ProposalStatus /\ new \in ProposalStatus
    BY <2>1 DEF Proposal
  <2> QED
    BY <2>1, <2>2
<1>2. /\ \A s : IsFiniteSet(with(s)) /\ Cardinality(with(s)) \in Nat
      /\ \A s : IsFiniteSet(after(s)) /\ Cardinality(after(s)) \in Nat
  <2>1. DOMAIN proposals = 1..Len(proposals) /\ Len(proposals) \in Nat
    BY <1>1
  <2>2. IsFiniteSet(DOMAIN proposals)
    <3>1. \A n \in Int : IsFiniteSet(1..n)
      BY FS_Interval
    <3>2. Len(proposals) \in Int
      BY <2>1
    <3> QED
      BY <2>1, <3>1, <3>2, Zenon
  <2>3. \A s : with(s) \subseteq DOMAIN proposals /\ after(s) \subseteq DOMAIN proposals
    BY <1>1
  <2> HIDE DEF with, after
  <2> QED
    BY <2>2, <2>3, FS_Subset, FS_CardinalityType
<1>3. \A s \in ProposalStatus : count[s] = Cardinality(with(s))
  BY DEF CountersMatchRecount
<1>4. p \in with(old) /\ p \in after(new)
  BY <1>1
<1>5. \A s : s # old /\ s # new => after(s) = with(s)
  BY <1>1
<1>6. /\ count' = [[count EXCEPT ![old] = Decremented(@)] EXCEPT ![new] = @ + 1]
      /\ count \in [ProposalStatus -> Nat]
  BY DEF ApplyStatusTransition, GovernanceTypeOK
<1>7. count[old] >= 1
  <2>1. Cardinality(with(old)) # 0
    BY <1>2, <1>4, FS_EmptySet
  <2> HIDE DEF with, old
  <2> QED
    BY <1>1, <1>2, <1>3, <2>1
<1>8. \A s \in ProposalStatus : count'[s] = Cardinality(after(s))
  <2>1. CASE old = new
    <3>1. \A s : after(s) = with(s)
      BY <1>1, <2>1
    <3>2. count' = count
      BY <1>1, <1>6, <1>7, <2>1 DEF Decremented
    <3> HIDE DEF with, after
    <3> QED
      BY <1>3, <3>1, <3>2
  <2>2. CASE old # new
    <3>1. after(old) = with(old) \ {p} /\ after(new) = with(new) \cup {p} /\ p \notin with(new)
      BY <1>1, <2>2
    <3> HIDE DEF with, after, old, new
    <3>0. IsFiniteSet(with(old)) /\ IsFiniteSet(with(new))
      BY <1>2
    <3>2. Cardinality(after(old)) = Cardinality(with(old)) - 1
      <4>1. p \in with(old)
        BY <1>4
      <4>2. Cardinality(with(old) \ {p}) = Cardinality(with(old)) - 1
        BY <3>0, <4>1, FS_RemoveElement
      <4> QED
        BY <3>1, <4>2
    <3>3. Cardinality(after(new)) = Cardinality(with(new)) + 1
      <4>1. Cardinality(with(new) \cup {p}) = Cardinality(with(new)) + 1
        BY <3>0, <3>1, FS_AddElement
      <4> QED
        BY <3>1, <4>1
    <3>4. count'[old] = count[old] - 1 /\ count'[new] = count[new] + 1
      BY <1>1, <1>6, <1>7, <2>2 DEF Decremented
    <3>5. \A s \in ProposalStatus : s # old /\ s # new => count'[s] = count[s]
      BY <1>1, <1>6
    <3> QED
      BY <1>1, <1>3, <1>5, <3>2, <3>3, <3>4, <3>5
  <2> QED
    BY <2>1, <2>2
<1>9. count' \in [ProposalStatus -> Nat]
  <2> HIDE DEF with, after, old, new
  <2>1. count' \in [ProposalStatus -> Int]
    BY <1>1, <1>6 DEF Decremented
  <2> QED
    BY <1>2, <1>8, <2>1
<1>10. closed' \in [count : Nat, participation : Nat]
  <2>1. /\ closed \in [count : Nat, participation : Nat]
        /\ Len(signers) \in Nat /\ (signers # << >> => Len(signers) # 0)
    BY DEF GovernanceTypeOK
  <2>3. (counted.votesFor + counted.votesAgainst) * 10000 \in Nat
    BY DEF Proposal
  <2>2. signers # << >> => ((counted.votesFor + counted.votesAgainst) * 10000) \div Len(signers) \in Nat
    BY <2>1, <2>3, ShareIsNat
  <2> QED
    BY <2>1, <2>2 DEF ApplyStatusTransition
<1>11. closed'.count = count'["Executed"] + count'["Rejected"]
  <2>1. closed.count = count["Executed"] + count["Rejected"] /\ closed.count \in Nat
    BY DEF CountersMatchRecount, GovernanceTypeOK
  <2>2. closed'.count = closed.count +
           (IF old \notin {"Executed", "Rejected"} /\ new \in {"Executed", "Rejected"} THEN 1 ELSE 0)
    BY <2>1 DEF ApplyStatusTransition
  <2>3. /\ \A s \in ProposalStatus : count'[s] = count[s] + (IF s = new THEN 1 ELSE 0) - (IF s = old THEN 1 ELSE 0)
        /\ old \in {"Executed", "Rejected"} => new \in {"Executed", "Rejected"}
    BY <1>1, <1>6, <1>7 DEF Decremented
  <2>4. new # "Active" /\ old \in ProposalStatus /\ count["Executed"] \in Nat /\ count["Rejected"] \in Nat
    BY <1>1, <1>6 DEF ProposalStatus
  <2>5. /\ count'["Executed"] = count["Executed"] + (IF new = "Executed" THEN 1 ELSE 0) - (IF old = "Executed" THEN 1 ELSE 0)
        /\ count'["Rejected"] = count["Rejected"] + (IF new = "Rejected" THEN 1 ELSE 0) - (IF old = "Rejected" THEN 1 ELSE 0)
    BY <2>3 DEF ProposalStatus
  <2> HIDE DEF old, new
  <2> QED
    BY <2>1, <2>2, <2>3, <2>4, <2>5
<1> QED
  BY <1>8, <1>9, <1>10, <1>11 DEF CountersMatchRecount

\* A vote, in public or revealed, keeps the books: the account that has not voted
\* becomes one more supporter of its side, and of no other proposal.
LEMMA RecordVoteBooks ==
    ASSUME BooksInv, NEW p \in proposalIds, NEW caller \in Accounts, NEW choice \in Choice,
           RecordVote(p, caller, choice), commitments' \subseteq commitments,
           UNCHANGED <<block, adminVars, signerVars, revealing>>
    PROVE  BooksInv'
<1> DEFINE next == Voted(proposals[p], choice)
<1> USE DEF BooksInv, GovernanceBooksAgree
<1>1. /\ proposals[p].status = "Active" /\ ~HasVoted(p, caller)
      /\ votes' = votes \cup {<<p, caller, choice>>}
      /\ proposals' = [proposals EXCEPT ![p] = next]
  BY DEF RecordVote
<1>2. /\ p \in DOMAIN proposals /\ proposals[p] \in Proposal
      /\ next \in Proposal
      /\ next.votesFor = proposals[p].votesFor + (IF choice = "for" THEN 1 ELSE 0)
      /\ next.votesAgainst = proposals[p].votesAgainst + (IF choice = "against" THEN 1 ELSE 0)
      /\ next.threshold = proposals[p].threshold
      /\ next.status \in {"Active", "Approved", "Rejected"}
      /\ next.status = "Approved" <=> next.votesFor >= next.threshold
  BY VotedFacts DEF proposalIds, GovernanceTypeOK
<1> HIDE DEF next
<1>3. /\ proposals' \in Seq(Proposal) /\ Len(proposals') = Len(proposals)
      /\ DOMAIN proposals' = DOMAIN proposals /\ proposals'[p] = next
      /\ \A q \in DOMAIN proposals \ {p} : proposals'[q] = proposals[q]
  BY <1>1, <1>2 DEF GovernanceTypeOK
<1>4. CountersMatchRecount' /\ count' \in [ProposalStatus -> Nat] /\ closed' \in [count : Nat, participation : Nat]
  <2>1. CASE next.status = "Active"
    <3>1. UNCHANGED <<count, closed>>
      BY <2>1 DEF RecordVote, next
    <3>2. \A s : {q \in DOMAIN proposals' : proposals'[q].status = s} = {q \in DOMAIN proposals : proposals[q].status = s}
      BY <1>1, <1>3, <2>1
    <3> QED
      BY <3>1, <3>2 DEF CountersMatchRecount, GovernanceTypeOK
  <2>2. CASE next.status # "Active"
    <3> DEFINE counted == [next EXCEPT !.status = "Active"]
    <3>1. ApplyStatusTransition(counted, next.status)
      BY <2>2 DEF RecordVote, next
    <3>2. counted \in Proposal /\ counted.status = "Active"
      BY <1>2 DEF Proposal, ProposalStatus
    <3>3. UNCHANGED signers
      BY DEF signerVars
    <3> HIDE DEF counted
    <3> QED
      BY <1>1, <1>2, <2>2, <3>1, <3>2, <3>3, CountersFollow
  <2> QED
    BY <2>1, <2>2
<1>5. GovernanceTypeOK'
  BY <1>1, <1>3, <1>4 DEF GovernanceTypeOK, proposalIds, adminVars, signerVars
<1>6. /\ Voters(p, choice)' = Voters(p, choice) \cup {caller}
      /\ \A c \in Choice : caller \notin Voters(p, c)
      /\ \A q, c : q # p \/ c # choice => Voters(q, c)' = Voters(q, c)
  BY <1>1 DEF Voters, HasVoted
<1>7. /\ IsFiniteSet(Voters(p, choice)')
      /\ Cardinality(Voters(p, choice)') = Cardinality(Voters(p, choice)) + 1
  BY <1>2, <1>6, FS_AddElement DEF VotersAreFew
<1>8. VotersAreFew'
  <2>1. ASSUME NEW q \in DOMAIN proposals', NEW c \in Choice
        PROVE  IsFiniteSet(Voters(q, c)')
    <3>1. CASE q = p /\ c = choice
      BY <1>7, <3>1
    <3>2. CASE q # p \/ c # choice
      BY <1>3, <1>6, <3>2 DEF VotersAreFew
    <3> QED
      BY <3>1, <3>2
  <2> QED
    BY <2>1 DEF VotersAreFew
<1>9. /\ next.votesFor = Cardinality(Voters(p, "for")')
      /\ next.votesAgainst = Cardinality(Voters(p, "against")')
      /\ Voters(p, "for")' \cap Voters(p, "against")' = {}
  <2>1. /\ proposals[p].votesFor = Cardinality(Voters(p, "for"))
        /\ proposals[p].votesAgainst = Cardinality(Voters(p, "against"))
        /\ Voters(p, "for") \cap Voters(p, "against") = {}
        /\ proposals[p].votesFor \in Nat /\ proposals[p].votesAgainst \in Nat
    BY <1>2 DEF VotesTally, Proposal
  <2>2. CASE choice = "for"
    <3>1. Voters(p, "against")' = Voters(p, "against") /\ caller \notin Voters(p, "against")
      BY <1>6, <2>2 DEF Choice
    <3>2. /\ Voters(p, "for")' = Voters(p, "for") \cup {caller}
          /\ Cardinality(Voters(p, "for")') = Cardinality(Voters(p, "for")) + 1
      BY <1>6, <1>7, <2>2
    <3>3. next.votesFor = proposals[p].votesFor + 1 /\ next.votesAgainst = proposals[p].votesAgainst
      BY <1>2, <2>1, <2>2
    <3> QED
      BY <2>1, <3>1, <3>2, <3>3
  <2>3. CASE choice = "against"
    <3>1. Voters(p, "for")' = Voters(p, "for") /\ caller \notin Voters(p, "for")
      BY <1>6, <2>3 DEF Choice
    <3>2. /\ Voters(p, "against")' = Voters(p, "against") \cup {caller}
          /\ Cardinality(Voters(p, "against")') = Cardinality(Voters(p, "against")) + 1
      BY <1>6, <1>7, <2>3
    <3>3. next.votesAgainst = proposals[p].votesAgainst + 1 /\ next.votesFor = proposals[p].votesFor
      BY <1>2, <2>1, <2>3
    <3> QED
      BY <2>1, <3>1, <3>2, <3>3
  <2> QED
    BY <2>2, <2>3 DEF Choice
<1>10. VotesTally'
  <2>1. ASSUME NEW q \in DOMAIN proposals'
        PROVE  /\ proposals'[q].votesFor = Cardinality(Voters(q, "for")')
               /\ proposals'[q].votesAgainst = Cardinality(Voters(q, "against")')
               /\ Voters(q, "for")' \cap Voters(q, "against")' = {}
               /\ proposals'[q].status = "Active" =>
                     \/ proposals'[q].votesFor < proposals'[q].threshold
                     \/ proposals'[q].threshold = 0 /\ proposals'[q].votesFor + proposals'[q].votesAgainst = 0
    <3>1. CASE q = p
      <4>1. proposals'[q] = next
        BY <1>3, <3>1
      <4>2. next.status = "Active" => next.votesFor < next.threshold
        BY <1>2 DEF Proposal
      <4> QED
        BY <1>9, <3>1, <4>1, <4>2
    <3>2. CASE q # p
      BY <1>3, <3>2, <1>6 DEF VotesTally
    <3> QED
      BY <3>1, <3>2
  <2> QED
    BY <2>1 DEF VotesTally
<1> QED
  BY <1>4, <1>5, <1>8, <1>10

\* Executing, cancelling and overriding keep the books: only the status is another,
\* and it is one no vote has to back.
LEMMA SetStatusBooks ==
    ASSUME BooksInv, NEW p \in proposalIds, NEW new \in {"Executed", "Rejected", "Cancelled"},
           proposals[p].status \in {"Executed", "Rejected"} => new \in {"Executed", "Rejected"},
           SetStatus(p, new)
    PROVE  BooksInv'
<1> DEFINE next == [proposals[p] EXCEPT !.status = new, !.executedAt = IF new = "Executed" THEN block ELSE @]
<1> USE DEF BooksInv, GovernanceBooksAgree
<1>1. /\ ApplyStatusTransition(proposals[p], new)
      /\ UNCHANGED <<block, admin, rotation, signers, threshold, keys, votes, commitments, revealing>>
  BY DEF SetStatus, adminVars, signerVars, ballotVars
<1>2. proposals \in Seq(Proposal) /\ p \in DOMAIN proposals /\ proposals[p] \in Proposal /\ block \in Nat
  BY DEF GovernanceTypeOK, proposalIds
<1>3. proposals' = [proposals EXCEPT ![p] = next]
  BY <1>2 DEF SetStatus
<1>4. /\ next \in Proposal /\ next.status = new
      /\ next.votesFor = proposals[p].votesFor /\ next.votesAgainst = proposals[p].votesAgainst
  BY <1>2 DEF Proposal, ProposalStatus
<1> HIDE DEF next
<1>5. /\ proposals' \in Seq(Proposal) /\ Len(proposals') = Len(proposals)
      /\ DOMAIN proposals' = DOMAIN proposals /\ proposals'[p] = next
      /\ \A q \in DOMAIN proposals \ {p} : proposals'[q] = proposals[q]
  BY <1>2, <1>3, <1>4
<1>6. CountersMatchRecount' /\ count' \in [ProposalStatus -> Nat] /\ closed' \in [count : Nat, participation : Nat]
  <2>1. /\ proposals[p].status \in {"Executed", "Rejected"} => next.status \in {"Executed", "Rejected"}
        /\ ApplyStatusTransition(proposals[p], next.status)
        /\ next.status \in {"Approved", "Rejected", "Executed", "Cancelled"}
    BY <1>1, <1>4
  <2> QED
    BY <1>1, <1>2, <1>3, <1>4, <2>1, CountersFollow
<1>7. GovernanceTypeOK'
  BY <1>1, <1>5, <1>6 DEF GovernanceTypeOK
<1>8. \A q, c : Voters(q, c)' = Voters(q, c)
  BY <1>1 DEF Voters
<1>9. VotesTally'
  <2>1. ASSUME NEW q \in DOMAIN proposals'
        PROVE  /\ proposals'[q].votesFor = Cardinality(Voters(q, "for")')
               /\ proposals'[q].votesAgainst = Cardinality(Voters(q, "against")')
               /\ Voters(q, "for")' \cap Voters(q, "against")' = {}
               /\ proposals'[q].status = "Active" =>
                     \/ proposals'[q].votesFor < proposals'[q].threshold
                     \/ proposals'[q].threshold = 0 /\ proposals'[q].votesFor + proposals'[q].votesAgainst = 0
    BY <1>5, <1>8, <1>4 DEF VotesTally
  <2> QED
    BY <2>1 DEF VotesTally
<1>10. VotersAreFew'
  BY <1>5, <1>8 DEF VotersAreFew
<1> QED
  BY <1>6, <1>7, <1>9, <1>10

\* Messages about signers, commitments, reveals and the admin, and new blocks,
\* leave every proposal and every vote alone.
LEMMA OtherBooks ==
    ASSUME BooksInv, GovernanceTypeOK', UNCHANGED <<votes, proposals, count, closed>>
    PROVE  BooksInv'
<1> USE DEF BooksInv, GovernanceBooksAgree
<1>1. \A p, c : Voters(p, c)' = Voters(p, c)
  BY DEF Voters
<1>2. VotesTally'
  BY <1>1 DEF VotesTally
<1>3. CountersMatchRecount'
  BY DEF CountersMatchRecount
<1>4. VotersAreFew'
  BY <1>1 DEF VotersAreFew
<1> QED
  BY <1>2, <1>3, <1>4

\* Adding and removing signers keeps the books of signers and votes right
\* (add_signer, remove_signer).
LEMMA SignerBooks ==
    ASSUME BooksInv, SignerNext
    PROVE  BooksInv'
<1> USE GovernanceConstants DEF BooksInv, GovernanceBooksAgree
<1>1. UNCHANGED <<block, admin, rotation, votes, commitments, revealing, proposals, count, closed>>
  BY DEF SignerNext, AddSigner, RemoveSigner, UpdateThreshold, RegisterPublicKey, adminVars, ballotVars, proposalVars
<1>2. signers' \in Seq(Accounts) /\ threshold' \in 0..Len(signers') /\ keys' \subseteq Accounts
  <2>1. ASSUME NEW caller \in Accounts, NEW signer \in Accounts, AddSigner(caller, signer)
        PROVE  signers' \in Seq(Accounts) /\ threshold' \in 0..Len(signers') /\ keys' \subseteq Accounts
    BY <2>1 DEF AddSigner, GovernanceTypeOK
  <2>2. ASSUME NEW caller \in Accounts, NEW signer \in Accounts, RemoveSigner(caller, signer)
        PROVE  signers' \in Seq(Accounts) /\ threshold' \in 0..Len(signers') /\ keys' \subseteq Accounts
    <3>1. Len(signers) > 0 /\ signers \in Seq(Accounts) /\ keys' = keys /\ keys \subseteq Accounts
      BY <2>2 DEF RemoveSigner, GovernanceTypeOK
    <3>2. SwapRemove(signers, signer) \in Seq(Accounts)
      BY <3>1 DEF SwapRemove
    <3> QED
      BY <2>2, <3>1, <3>2 DEF RemoveSigner, GovernanceTypeOK
  <2>3. ASSUME NEW caller \in Accounts, NEW new \in ThresholdArgs, UpdateThreshold(caller, new)
        PROVE  signers' \in Seq(Accounts) /\ threshold' \in 0..Len(signers') /\ keys' \subseteq Accounts
    BY <2>3 DEF UpdateThreshold, GovernanceTypeOK
  <2>4. ASSUME NEW caller \in Accounts, RegisterPublicKey(caller)
        PROVE  signers' \in Seq(Accounts) /\ threshold' \in 0..Len(signers') /\ keys' \subseteq Accounts
    BY <2>4 DEF RegisterPublicKey, GovernanceTypeOK
  <2> QED
    BY <2>1, <2>2, <2>3, <2>4 DEF SignerNext
<1>3. GovernanceTypeOK'
  BY <1>1, <1>2 DEF GovernanceTypeOK
<1> QED
  BY <1>1, <1>3, OtherBooks

\* The invariant of governance's books is inductive.
LEMMA BooksStep ==
    ASSUME BooksInv, [Next]_vars
    PROVE  BooksInv'
<1> USE DEF BooksInv, GovernanceBooksAgree
<1>1. CASE CreateNext
  <2>1. threshold \in Nat /\ Len(signers) \in Nat
    BY DEF GovernanceTypeOK
  <2>2. PICK caller \in Accounts : CreateProposal(caller) \/ CreateEmergencyProposal(caller)
    BY <1>1 DEF CreateNext
  <2>3. CASE CreateProposal(caller)
    BY <2>1, <2>3, AddProposalBooks DEF CreateProposal
  <2>4. CASE CreateEmergencyProposal(caller)
    BY <2>1, <2>4, AddProposalBooks DEF CreateEmergencyProposal
  <2> QED
    BY <2>2, <2>3, <2>4
<1>2. CASE VoteNext
  BY <1>2, RecordVoteBooks DEF VoteNext, VoteWithSignature, Vote
<1>3. CASE PrivateVoteNext
  <2>1. PICK caller \in Accounts, p \in proposalIds :
           \/ \E commitment \in Commitment : CommitVote(caller, p, commitment)
           \/ StartRevealPhase(caller, p)
           \/ \E choice \in Choice : RevealVote(caller, p, choice)
    BY <1>3 DEF PrivateVoteNext
  <2>2. ASSUME NEW commitment \in Commitment, CommitVote(caller, p, commitment)
        PROVE  BooksInv'
    <3>1. GovernanceTypeOK'
      BY <2>2 DEF CommitVote, GovernanceTypeOK, adminVars, signerVars, proposalVars, proposalIds
    <3> QED
      BY <2>2, <3>1, OtherBooks DEF CommitVote, proposalVars
  <2>3. CASE StartRevealPhase(caller, p)
    <3>1. GovernanceTypeOK'
      BY <2>3 DEF StartRevealPhase, GovernanceTypeOK, adminVars, signerVars, proposalVars, proposalIds
    <3> QED
      BY <2>3, <3>1, OtherBooks DEF StartRevealPhase, proposalVars
  <2>4. ASSUME NEW choice \in Choice, RevealVote(caller, p, choice)
        PROVE  BooksInv'
    BY <2>4, RecordVoteBooks DEF RevealVote
  <2> QED
    BY <2>1, <2>2, <2>3, <2>4
<1>4. CASE CloseNext
  BY <1>4, SetStatusBooks DEF CloseNext, DecideNext, OverrideNext, ExecuteProposal, CancelProposal, EmergencyOverride
<1>5. CASE SignerNext
  BY <1>5, SignerBooks
<1>6. CASE RotationNext
  <2>1. UNCHANGED <<block, signers, threshold, keys, votes, commitments, revealing, proposals, count, closed>>
    BY <1>6 DEF RotationNext, RequestAdminRotation, ConfirmAdminRotation, CancelAdminRotation,
                signerVars, ballotVars, proposalVars
  <2>2. admin' \in Accounts /\ rotation' \subseteq Rotation
    BY <1>6, GovernanceConstants DEF RotationNext, RequestAdminRotation, ConfirmAdminRotation, CancelAdminRotation,
                                     GovernanceTypeOK, Rotation
  <2>3. GovernanceTypeOK'
    BY <2>1, <2>2 DEF GovernanceTypeOK
  <2> QED
    BY <2>1, <2>3, OtherBooks
<1>7. CASE TimeNext
  <2>1. GovernanceTypeOK'
    BY <1>7 DEF TimeNext, NextBlock, GovernanceTypeOK, adminVars, signerVars, ballotVars, proposalVars
  <2> QED
    BY <1>7, <2>1, OtherBooks DEF TimeNext, ballotVars, proposalVars
<1>8. CASE UNCHANGED vars
  BY <1>8, OtherBooks DEF vars, GovernanceTypeOK, adminVars, signerVars, ballotVars, proposalVars
<1> QED
  BY <1>1, <1>2, <1>3, <1>4, <1>5, <1>6, <1>7, <1>8 DEF Next

\* Governance's books agree in every reachable state.
LEMMA BooksHold == Spec => []BooksInv
<1>1. Init => BooksInv
  BY BooksInit
<1>2. BooksInv /\ [Next]_vars => BooksInv'
  BY BooksStep
<1> QED
  BY <1>1, <1>2, PTL DEF Spec

\* Whatever votes, commitments, reveals, overrides and changes of signers and
\* threshold come in which order, and with however many accounts: the books of the
\* governance agree, one account has one vote, and the counters are those of a
\* recount (record_vote, apply_status_transition, remove_signer).
THEOREM GovernanceBooks == Spec => []GovernanceBooksAgree
<1>1. BooksInv => GovernanceBooksAgree
  BY DEF BooksInv
<1> QED
  BY <1>1, BooksHold, PTL

----
\* What an execution rests on

\* No warrant is of a block to come.
WarrantTyped(w) == w.at \in Nat /\ w.at <= block

\* The proposal has a warrant for the state it is in.
Backed(p) == \E w \in warrants : w.proposal = p /\ Backs(w, proposals[p], proposals[p].votesFor)

WarrantsInv ==
    /\ BooksInv
    /\ \A w \in warrants : WarrantTyped(w)
    /\ \A p \in DOMAIN proposals : proposals[p].status \in {"Approved", "Executed"} => Backed(p)

\* What a step of the signers does to the proposal p: nothing that needs a warrant, its
\* approval with the timelock that begins with it, or its execution after the timelock.
Advanced(p) ==
    \/ p \in DOMAIN proposals /\ proposals'[p] = proposals[p]
    \/ proposals'[p].status \notin {"Approved", "Executed"}
    \/ /\ p \in proposalIds /\ proposals[p].status = "Active" /\ proposals'[p].status = "Approved"
       /\ proposals'[p].votesFor >= proposals'[p].threshold
       /\ proposals'[p].timelockUntil = block + (IF proposals'[p].emergency THEN 0 ELSE TimelockBlocks)
    \/ /\ p \in DOMAIN proposals /\ proposals[p].status = "Approved" /\ block >= proposals[p].timelockUntil
       /\ proposals'[p] = [proposals[p] EXCEPT !.status = "Executed", !.executedAt = block]

\* A vote approves only with the support the proposal needs, and begins its timelock
\* (vote, reveal_vote).
LEMMA VoteCarries ==
    ASSUME GovernanceTypeOK, NEW q \in proposalIds, NEW caller \in Accounts, NEW choice \in Choice,
           RecordVote(q, caller, choice)
    PROVE  \A p \in DOMAIN proposals' : Advanced(p)
<1>1. /\ proposals \in Seq(Proposal) /\ proposalIds = DOMAIN proposals /\ proposals[q] \in Proposal
      /\ proposals[q].status = "Active"
      /\ proposals' = [proposals EXCEPT ![q] = Voted(proposals[q], choice)]
  BY DEF GovernanceTypeOK, proposalIds, RecordVote
<1>2. DOMAIN proposals' = DOMAIN proposals /\ proposals'[q] = Voted(proposals[q], choice)
      /\ \A p \in DOMAIN proposals \ {q} : proposals'[p] = proposals[p]
  BY <1>1
<1>3. /\ proposals'[q].status \in {"Active", "Approved", "Rejected"}
      /\ proposals'[q].status = "Approved" => proposals'[q].votesFor >= proposals'[q].threshold
      /\ proposals'[q].status = "Approved" /\ ~proposals'[q].emergency =>
            proposals'[q].timelockUntil = block + TimelockBlocks
      /\ proposals'[q].status = "Approved" /\ proposals'[q].emergency => proposals'[q].timelockUntil = block
  BY <1>1, <1>2, VotedFacts
<1>4. block = block + 0
  BY DEF GovernanceTypeOK
<1>5. Advanced(q)
  BY <1>1, <1>3, <1>4 DEF Advanced
<1> QED
  BY <1>2, <1>5 DEF Advanced

\* Every step but an override carries on like that, and goes on to a block that is
\* not an earlier one.
LEMMA UsualCarries ==
    ASSUME GovernanceTypeOK,
           \/ CreateNext \/ VoteNext \/ PrivateVoteNext \/ DecideNext \/ SignerNext \/ RotationNext \/ TimeNext
           \/ UNCHANGED vars
    PROVE  (\A p \in DOMAIN proposals' : Advanced(p)) /\ block' >= block
<1>1. proposals \in Seq(Proposal) /\ proposalIds = DOMAIN proposals /\ block \in Nat
  BY DEF GovernanceTypeOK, proposalIds
<1>2. proposals' = proposals => \A p \in DOMAIN proposals' : Advanced(p)
  BY DEF Advanced
<1>3. CASE CreateNext
  <2>1. PICK caller \in Accounts, needed \in {threshold, Len(signers)}, emergency \in BOOLEAN :
           AddProposal(caller, needed, emergency)
    BY <1>3 DEF CreateNext, CreateProposal, CreateEmergencyProposal
  <2> DEFINE new == NewProposal(caller, needed, emergency)
  <2>2. proposals' = Append(proposals, new) /\ block' = block
    BY <2>1 DEF AddProposal
  <2>3. new.status = "Active"
    BY DEF NewProposal
  <2> HIDE DEF new
  <2>4. DOMAIN proposals' = DOMAIN proposals \cup {Len(proposals) + 1} /\ proposals'[Len(proposals) + 1] = new
        /\ \A p \in DOMAIN proposals : proposals'[p] = proposals[p]
    BY <1>1, <2>2
  <2>5. \A p \in DOMAIN proposals' : Advanced(p)
    BY <2>3, <2>4 DEF Advanced
  <2> QED
    BY <1>1, <2>2, <2>5
<1>4. CASE VoteNext
  BY <1>1, <1>4, VoteCarries DEF VoteNext, VoteWithSignature, Vote
<1>5. CASE PrivateVoteNext
  <2>1. PICK caller \in Accounts, p \in proposalIds :
           \/ \E commitment \in Commitment : CommitVote(caller, p, commitment)
           \/ StartRevealPhase(caller, p)
           \/ \E choice \in Choice : RevealVote(caller, p, choice)
    BY <1>5 DEF PrivateVoteNext
  <2>2. ASSUME NEW choice \in Choice, RevealVote(caller, p, choice)
        PROVE  (\A r \in DOMAIN proposals' : Advanced(r)) /\ block' = block
    BY <2>2, VoteCarries DEF RevealVote
  <2>3. CASE proposals' = proposals /\ block' = block
    BY <1>1, <1>2, <2>3
  <2> QED
    BY <1>1, <2>1, <2>2, <2>3 DEF CommitVote, StartRevealPhase, proposalVars
<1>6. CASE DecideNext
  <2>1. PICK caller \in Accounts, q \in proposalIds : ExecuteProposal(caller, q) \/ CancelProposal(caller, q)
    BY <1>6 DEF DecideNext
  <2>2. PICK new \in {"Executed", "Cancelled"} :
           /\ SetStatus(q, new)
           /\ new = "Executed" => proposals[q].status = "Approved" /\ block >= proposals[q].timelockUntil
    BY <2>1 DEF ExecuteProposal, CancelProposal
  <2> DEFINE next == [proposals[q] EXCEPT !.status = new, !.executedAt = IF new = "Executed" THEN block ELSE @]
  <2>3. proposals' = [proposals EXCEPT ![q] = next] /\ block' = block
    BY <1>1, <2>2 DEF SetStatus
  <2>4. proposals[q] \in Proposal
    BY <1>1
  <2>5. next.status = new
    BY <2>4 DEF Proposal
  <2>6. new = "Executed" => next = [proposals[q] EXCEPT !.status = "Executed", !.executedAt = block]
    OBVIOUS
  <2> HIDE DEF next
  <2>7. DOMAIN proposals' = DOMAIN proposals /\ proposals'[q] = next
        /\ \A p \in DOMAIN proposals \ {q} : proposals'[p] = proposals[p]
    BY <1>1, <2>3
  <2>8. Advanced(q)
    BY <1>1, <2>2, <2>5, <2>6, <2>7 DEF Advanced
  <2>9. \A p \in DOMAIN proposals' : Advanced(p)
    BY <2>7, <2>8 DEF Advanced
  <2> QED
    BY <1>1, <2>3, <2>9
<1>7. CASE SignerNext \/ RotationNext
  BY <1>1, <1>2, <1>7 DEF SignerNext, AddSigner, RemoveSigner, UpdateThreshold, RegisterPublicKey,
        RotationNext, RequestAdminRotation, ConfirmAdminRotation, CancelAdminRotation, proposalVars
<1>8. CASE TimeNext \/ UNCHANGED vars
  BY <1>1, <1>2, <1>8 DEF TimeNext, NextBlock, vars, proposalVars
<1> QED
  BY <1>3, <1>4, <1>5, <1>6, <1>7, <1>8

\* The ledger keeps a warrant for what it had one for, and enters one for what is approved.
LEMMA WarrantsFollow ==
    ASSUME WarrantsInv, BooksInv', NEW p \in DOMAIN proposals', Advanced(p),
           proposals'[p].status \in {"Approved", "Executed"},
           warrants \subseteq warrants', Approvals \subseteq warrants'
    PROVE  Backed(p)'
<1>1. block \in Nat /\ TimelockBlocks \in Nat
  BY GovernanceConstants DEF WarrantsInv, BooksInv, GovernanceBooksAgree, GovernanceTypeOK
<1>2. CASE p \in DOMAIN proposals /\ proposals'[p] = proposals[p]
  BY <1>2 DEF WarrantsInv, Backed, Backs
<1>3. CASE /\ p \in proposalIds /\ proposals[p].status = "Active" /\ proposals'[p].status = "Approved"
           /\ proposals'[p].votesFor >= proposals'[p].threshold
           /\ proposals'[p].timelockUntil = block + (IF proposals'[p].emergency THEN 0 ELSE TimelockBlocks)
  <2>1. PICK w \in warrants' : w.proposal = p /\ w.by = "signers" /\ w.at = block
    <3>1. [proposal |-> p, by |-> "signers", at |-> block] \in warrants'
      BY <1>3 DEF Approvals
    <3> QED
      BY <3>1
  <2>2. Backs(w, proposals[p], proposals[p].votesFor)'
    BY <1>1, <1>3, <2>1 DEF Backs
  <2> QED
    BY <2>1, <2>2 DEF Backed
<1>4. CASE /\ p \in DOMAIN proposals /\ proposals[p].status = "Approved" /\ block >= proposals[p].timelockUntil
           /\ proposals'[p] = [proposals[p] EXCEPT !.status = "Executed", !.executedAt = block]
  <2>1. PICK w \in warrants : w.proposal = p /\ Backs(w, proposals[p], proposals[p].votesFor)
    BY <1>4 DEF WarrantsInv, Backed
  <2>2. w.at \in Nat /\ proposals[p] \in Proposal
    <3>1. proposals \in Seq(Proposal)
      BY DEF WarrantsInv, BooksInv, GovernanceBooksAgree, GovernanceTypeOK
    <3> QED
      BY <1>4, <3>1 DEF WarrantsInv, WarrantTyped
  <2>3. /\ proposals'[p].status = "Executed" /\ proposals'[p].executedAt = block
        /\ proposals'[p].timelockUntil = proposals[p].timelockUntil
        /\ proposals'[p].votesFor = proposals[p].votesFor /\ proposals'[p].threshold = proposals[p].threshold
        /\ proposals'[p].emergency = proposals[p].emergency /\ proposals[p].timelockUntil \in Nat
    BY <1>4, <2>2 DEF Proposal
  <2>4. Backs(w, proposals[p], proposals[p].votesFor)'
    BY <1>1, <1>4, <2>1, <2>2, <2>3 DEF Backs
  <2> QED
    BY <2>1, <2>4 DEF Backed
<1> QED
  BY <1>2, <1>3, <1>4 DEF Advanced

\* The warrants stay in step with the proposals through the admin's overrides.
LEMMA OverrulingStep ==
    ASSUME WarrantsInv, BooksInv', Overruling
    PROVE  WarrantsInv'
<1>1. PICK q \in proposalIds, execute \in BOOLEAN :
         /\ OverrideNext(q, execute)
         /\ warrants' = {w \in warrants : w.proposal # q} \cup
                           (IF execute THEN {[proposal |-> q, by |-> "admin", at |-> block]} ELSE {})
  BY DEF Overruling
<1>2. proposals \in Seq(Proposal) /\ proposalIds = DOMAIN proposals /\ block \in Nat
  BY DEF WarrantsInv, BooksInv, GovernanceBooksAgree, GovernanceTypeOK, proposalIds
<1>3. SetStatus(q, IF execute THEN "Executed" ELSE "Rejected") /\ block' = block
  BY <1>1 DEF OverrideNext, EmergencyOverride, SetStatus
<1>4. /\ DOMAIN proposals' = DOMAIN proposals
      /\ proposals'[q].status = IF execute THEN "Executed" ELSE "Rejected"
      /\ \A p \in DOMAIN proposals \ {q} : proposals'[p] = proposals[p]
  <2>1. proposals[q] \in Proposal
    BY <1>2
  <2> QED
    BY <1>2, <1>3, <2>1 DEF SetStatus, Proposal
<1>5. \A w \in warrants' : WarrantTyped(w)'
  BY <1>1, <1>2, <1>3 DEF WarrantsInv, WarrantTyped
<1>6. ASSUME NEW p \in DOMAIN proposals', proposals'[p].status \in {"Approved", "Executed"}
      PROVE  Backed(p)'
  <2>1. CASE p = q
    <3>1. execute /\ proposals'[p].status = "Executed"
      BY <1>4, <1>6, <2>1
    <3>2. PICK w \in warrants' : w.proposal = q /\ w.by = "admin"
      <4>1. [proposal |-> q, by |-> "admin", at |-> block] \in warrants'
        BY <1>1, <3>1
      <4> QED
        BY <4>1
    <3>3. Backs(w, proposals[p], proposals[p].votesFor)'
      BY <3>1, <3>2 DEF Backs
    <3> QED
      BY <2>1, <3>2, <3>3 DEF Backed
  <2>2. CASE p # q
    <3>1. proposals'[p] = proposals[p] /\ p \in DOMAIN proposals
      BY <1>4, <2>2
    <3>2. PICK w \in warrants : w.proposal = p /\ Backs(w, proposals[p], proposals[p].votesFor)
      BY <1>6, <3>1 DEF WarrantsInv, Backed
    <3>3. w \in warrants'
      BY <1>1, <2>2, <3>2
    <3> QED
      BY <3>1, <3>2, <3>3 DEF Backed, Backs
  <2> QED
    BY <2>1, <2>2
<1> QED
  BY <1>5, <1>6 DEF WarrantsInv

\* The warrants are inductive together with the books.
LEMMA WarrantsStep ==
    ASSUME WarrantsInv, [LedgerNext]_<<vars, warrants>>
    PROVE  WarrantsInv'
<1>1. [Next]_vars
  BY DEF LedgerNext, Overruling, Next, CloseNext
<1>2. BooksInv'
  BY <1>1, BooksStep DEF WarrantsInv
<1>3. CASE Overruling
  BY <1>2, <1>3, OverrulingStep
<1>4. CASE \/ /\ CreateNext \/ VoteNext \/ PrivateVoteNext \/ DecideNext \/ SignerNext \/ RotationNext \/ TimeNext
              /\ Warranting
           \/ UNCHANGED <<vars, warrants>>
  <2>1. GovernanceTypeOK /\ block \in Nat /\ block' \in Nat
    BY <1>2 DEF WarrantsInv, BooksInv, GovernanceBooksAgree, GovernanceTypeOK
  <2>2. (\A p \in DOMAIN proposals' : Advanced(p)) /\ block' >= block
    BY <1>4, <2>1, UsualCarries
  <2>3. Warranting \/ UNCHANGED <<vars, warrants>>
    BY <1>4
  <2>4. warrants \subseteq warrants' /\ Approvals \subseteq warrants'
    <3>1. CASE Warranting
      BY <3>1 DEF Warranting
    <3>2. CASE UNCHANGED <<vars, warrants>>
      BY <3>2 DEF Approvals, vars, proposalVars
    <3> QED
      BY <2>3, <3>1, <3>2
  <2>5. \A w \in warrants' : WarrantTyped(w)'
    <3>1. \A w \in warrants' : w \in warrants \/ w.at = block
      BY <2>3 DEF Warranting, Approvals
    <3> QED
      BY <2>1, <2>2, <3>1 DEF WarrantsInv, WarrantTyped
  <2>6. \A p \in DOMAIN proposals' : proposals'[p].status \in {"Approved", "Executed"} => Backed(p)'
    BY <1>2, <2>2, <2>4, WarrantsFollow
  <2> QED
    BY <1>2, <2>5, <2>6 DEF WarrantsInv
<1> QED
  BY <1>3, <1>4 DEF LedgerNext

\* What is approved, or executed without the admin, has the different supporters it asked
\* for and, unless it is an emergency, has its timelock behind it or before it, counted
\* from the block of its approval, for any timelock, threshold and signers (vote,
\* reveal_vote, execute_proposal, emergency_override).
THEOREM ApprovalsAreBacked == LedgerSpec => []ApprovalBacked
<1>1. Init /\ warrants = {} => WarrantsInv
  BY BooksInit DEF Init, WarrantsInv
<1>2. WarrantsInv /\ [LedgerNext]_<<vars, warrants>> => WarrantsInv'
  BY WarrantsStep
<1>3. WarrantsInv => ApprovalBacked
  BY DEF WarrantsInv, BooksInv, GovernanceBooksAgree, VotesTally, ApprovalBacked, Backed
<1> QED
  BY <1>1, <1>2, <1>3, PTL DEF LedgerSpec

----
\* What is final

\* What a step may do to a proposal that was executed, cancelled or rejected.
LEMMA DecidedStep ==
    ASSUME GovernanceTypeOK, [Next]_vars
    PROVE  \A p \in DOMAIN proposals :
              /\ proposals[p].status \in {"Executed", "Cancelled"} => proposals'[p] = proposals[p]
              /\ proposals[p].status = "Rejected" =>
                    proposals'[p].status \in {"Rejected", "Executed"}
<1> DEFINE Carried(p) ==
              /\ proposals[p].status \in {"Executed", "Cancelled"} => proposals'[p] = proposals[p]
              /\ proposals[p].status = "Rejected" =>
                    proposals'[p].status \in {"Rejected", "Executed"}
<1> SUFFICES ASSUME NEW p \in DOMAIN proposals PROVE Carried(p)
  OBVIOUS
<1>1. proposals \in Seq(Proposal) /\ proposals[p] \in Proposal /\ proposalIds = DOMAIN proposals
  BY DEF GovernanceTypeOK, proposalIds
<1>2. proposals'[p] = proposals[p] => Carried(p)
  OBVIOUS
<1>3. ASSUME NEW caller \in Accounts, NEW q \in proposalIds, NEW choice \in Choice, RecordVote(q, caller, choice)
      PROVE  Carried(p)
  <2>1. proposals[q].status = "Active" /\ proposals' = [proposals EXCEPT ![q] = Voted(proposals[q], choice)]
    BY <1>3 DEF RecordVote
  <2>2. Voted(proposals[q], choice).status # "Executed"
    BY <1>1, VotedFacts
  <2>3. CASE q = p
    <3>1. proposals'[p] = Voted(proposals[q], choice)
      BY <1>1, <2>1, <2>3
    <3> QED
      BY <2>1, <2>2, <2>3, <3>1
  <2>4. CASE q # p
    BY <1>1, <1>2, <2>1, <2>4
  <2> QED
    BY <2>3, <2>4
<1>4. ASSUME NEW q \in proposalIds, NEW new \in {"Executed", "Rejected", "Cancelled"}, SetStatus(q, new),
             proposals[q].status \notin {"Executed", "Cancelled"},
             proposals[q].status = "Rejected" => new # "Cancelled"
      PROVE  Carried(p)
  <2>1. proposals'[q].status = new
    <3>1. proposals' = [proposals EXCEPT ![q] =
             [proposals[q] EXCEPT !.status = new, !.executedAt = IF new = "Executed" THEN block ELSE @]]
      BY <1>1, <1>4 DEF SetStatus
    <3>2. proposals[q] \in Proposal
      BY <1>1
    <3> QED
      BY <1>1, <3>1, <3>2 DEF Proposal
  <2>2. q # p => proposals'[p] = proposals[p]
    BY <1>1, <1>4 DEF SetStatus
  <2> QED
    BY <1>2, <1>4, <2>1, <2>2
<1>5. CASE CreateNext
  <2>1. PICK new : proposals' = Append(proposals, new)
    BY <1>5 DEF CreateNext, CreateProposal, CreateEmergencyProposal, AddProposal
  <2>2. proposals'[p] = proposals[p]
    BY <1>1, <2>1
  <2> QED
    BY <1>2, <2>2
<1>6. CASE VoteNext
  BY <1>3, <1>6 DEF VoteNext, VoteWithSignature, Vote
<1>7. CASE PrivateVoteNext
  <2>1. ASSUME NEW caller \in Accounts, NEW q \in proposalIds, NEW choice \in Choice, RevealVote(caller, q, choice)
        PROVE  Carried(p)
    BY <1>3, <2>1 DEF RevealVote
  <2> HIDE DEF Carried
  <2> QED
    BY <1>2, <1>7, <2>1 DEF PrivateVoteNext, CommitVote, StartRevealPhase, proposalVars
<1>8. CASE CloseNext
  <2>1. ASSUME NEW caller \in Accounts, NEW q \in proposalIds, ExecuteProposal(caller, q)
        PROVE  Carried(p)
    <3> HIDE DEF Carried
    <3> QED
      BY <1>4, <2>1 DEF ExecuteProposal
  <2>2. ASSUME NEW caller \in Accounts, NEW q \in proposalIds, CancelProposal(caller, q)
        PROVE  Carried(p)
    <3> HIDE DEF Carried
    <3> QED
      BY <1>4, <2>2 DEF CancelProposal
  <2>3. ASSUME NEW caller \in Accounts, NEW q \in proposalIds, NEW execute \in BOOLEAN,
               EmergencyOverride(caller, q, execute)
        PROVE  Carried(p)
    <3>1. caller = admin /\ proposals[q].status \notin {"Executed", "Cancelled"}
      BY <2>3 DEF EmergencyOverride
    <3>2. CASE execute
      BY <2>3, <3>2, <1>4, <3>1 DEF EmergencyOverride
    <3>3. CASE ~execute
      BY <2>3, <3>3, <1>4, <3>1 DEF EmergencyOverride
    <3> QED
      BY <3>2, <3>3
  <2> HIDE DEF Carried
  <2> QED
    BY <1>8, <2>1, <2>2, <2>3 DEF CloseNext, DecideNext, OverrideNext
<1> HIDE DEF Carried
<1>9. CASE SignerNext \/ RotationNext \/ TimeNext \/ UNCHANGED vars
  <2>1. proposals' = proposals
    BY <1>9 DEF SignerNext, AddSigner, RemoveSigner, UpdateThreshold, RegisterPublicKey,
                RotationNext, RequestAdminRotation, ConfirmAdminRotation, CancelAdminRotation,
                TimeNext, vars, proposalVars
  <2> QED
    BY <1>2, <2>1
<1> QED
  BY <1>5, <1>6, <1>7, <1>8, <1>9 DEF Next

\* A commitment goes only as the vote it was made for.
LEMMA RevealedStep ==
    ASSUME GovernanceTypeOK, [Next]_vars
    PROVE  \A p \in DOMAIN proposals, a \in Accounts, c \in Commitment :
              <<p, a, c>> \in commitments /\ <<p, a, c>> \notin commitments' =>
                  c \in Choice /\ votes' = votes \cup {<<p, a, c>>} /\ p \in revealing
<1>1. ASSUME commitments \subseteq commitments'
      PROVE  \A p, a, c : ~(<<p, a, c>> \in commitments /\ <<p, a, c>> \notin commitments')
  BY <1>1
<1>2. ASSUME NEW caller \in Accounts, NEW q \in proposalIds, NEW choice \in Choice, RevealVote(caller, q, choice)
      PROVE  \A p, a, c : <<p, a, c>> \in commitments /\ <<p, a, c>> \notin commitments' =>
                  c \in Choice /\ votes' = votes \cup {<<p, a, c>>} /\ p \in revealing
  BY <1>2 DEF RevealVote, RecordVote
<1>3. CASE PrivateVoteNext
  BY <1>3, <1>1, <1>2 DEF PrivateVoteNext, CommitVote, StartRevealPhase
<1>4. CASE ~PrivateVoteNext
  <2>1. commitments' = commitments
    BY <1>4 DEF Next, CreateNext, CreateProposal, CreateEmergencyProposal, AddProposal,
                VoteNext, VoteWithSignature, Vote, CloseNext, DecideNext, OverrideNext, ExecuteProposal, CancelProposal, EmergencyOverride,
                SetStatus, SignerNext, AddSigner, RemoveSigner, UpdateThreshold, RegisterPublicKey,
                RotationNext, RequestAdminRotation, ConfirmAdminRotation, CancelAdminRotation,
                TimeNext, vars, ballotVars
  <2> QED
    BY <1>1, <2>1
<1> QED
  BY <1>3, <1>4, Zenon

\* What was decided stays decided, and what was committed to in private is what is
\* counted, in every order of messages and for any number of proposals (the status
\* checks of every message, reveal_vote).
THEOREM DecisionsStand == Spec => VotesAndDecisionsAreFinal
<1> DEFINE Decided == \A p \in DOMAIN proposals :
              /\ proposals[p].status \in {"Executed", "Cancelled"} => proposals'[p] = proposals[p]
              /\ proposals[p].status = "Rejected" =>
                    proposals'[p].status \in {"Rejected", "Executed"}
           Revealed == \A p \in DOMAIN proposals, a \in Accounts, c \in Commitment :
              <<p, a, c>> \in commitments /\ <<p, a, c>> \notin commitments' =>
                  c \in Choice /\ votes' = votes \cup {<<p, a, c>>} /\ p \in revealing
<1>1. BooksInv => GovernanceTypeOK
  BY DEF BooksInv, GovernanceBooksAgree
<1>2. GovernanceTypeOK /\ [Next]_vars => [Decided]_vars /\ [Revealed]_vars
  BY DecidedStep, RevealedStep
<1>3. Spec => [][Decided]_vars /\ [][Revealed]_vars
  <2> HIDE DEF Decided, Revealed
  <2> QED
    BY <1>1, <1>2, BooksHold, PTL DEF Spec
<1> QED
  BY <1>3 DEF VotesAndDecisionsAreFinal, DecisionsAreFinal, RevealedAsCommitted

----
\* What is announced

\* A step that changes the admin is consented to by the new one.
LEMMA AdminStep ==
    ASSUME GovernanceTypeOK, [Next]_vars, admin' # admin
    PROVE  AdminConsented
<1>1. PICK caller \in Accounts : ConfirmAdminRotation(caller)
  BY DEF Next, CreateNext, CreateProposal, CreateEmergencyProposal, AddProposal,
         VoteNext, VoteWithSignature, Vote, PrivateVoteNext, CommitVote, StartRevealPhase, RevealVote,
         CloseNext, DecideNext, OverrideNext, ExecuteProposal, CancelProposal, EmergencyOverride, SetStatus,
         SignerNext, AddSigner, RemoveSigner, UpdateThreshold, RegisterPublicKey,
         RotationNext, RequestAdminRotation, CancelAdminRotation, TimeNext, vars, adminVars
<1>2. \A r \in rotation : r.effective \in Nat
  BY DEF GovernanceTypeOK, Rotation
<1>3. block \in Nat
  BY DEF GovernanceTypeOK
<1> QED
  BY <1>1, <1>2, <1>3, GovernanceConstants DEF ConfirmAdminRotation, AdminConsented

\* What is staged is what the ledger says, and its time is a delay after it.
StagedInv ==
    /\ block \in Nat /\ upgradeDelay \in Nat
    /\ pendingImplementation # {} =>
          \E s \in staged : /\ s.to = pendingImplementation /\ (\E i : s.to = {i})
                            /\ s.at \in Nat /\ s.delay \in Nat /\ upgradeEffectiveAt = s.at + s.delay

\* A step of the proxy changes the implementation only to one that was staged for as
\* long as its timelock asks for.
LEMMA StagedStep ==
    ASSUME StagedInv, [ProxyMoves]_<<block, proxyVars, staged>>
    PROVE  /\ StagedInv'
           /\ implementation' # implementation => \E s \in staged : s.to = {implementation'} /\ block - s.at >= s.delay
<1> USE ProxyConstants DEF StagedInv
<1>1. ASSUME NEW caller \in Callers, NEW new \in Implementations, SetImplementation(caller, new), Staging
      PROVE  StagedInv' /\ implementation' = implementation
  <2> DEFINE entry == [to |-> pendingImplementation', at |-> block, delay |-> upgradeDelay]
  <2>1. /\ pendingImplementation' = {new} /\ upgradeEffectiveAt' = block + upgradeDelay
        /\ UNCHANGED <<block, implementation, upgradeDelay>>
    BY <1>1 DEF SetImplementation
  <2>2. staged' = {entry}
    BY <1>1, <2>1 DEF Staging
  <2>3. entry.to = {new} /\ entry.at = block /\ entry.delay = upgradeDelay
    BY <2>1
  <2> HIDE DEF entry
  <2> QED
    BY <2>1, <2>2, <2>3
<1>2. ASSUME ~\E caller \in Callers, new \in Implementations : SetImplementation(caller, new), Staging
      PROVE  staged' = IF pendingImplementation' = {} THEN {} ELSE staged
  BY <1>2, Zenon DEF Staging
<1>3. ASSUME NEW caller \in Callers, ConfirmImplementation(caller)
      PROVE  /\ StagedInv'
             /\ \E s \in staged : s.to = {implementation'} /\ block - s.at >= s.delay
  BY <1>3 DEF ConfirmImplementation
<1>4. ASSUME UNCHANGED <<implementation, pendingImplementation, upgradeEffectiveAt>>,
             block' \in Nat, upgradeDelay' \in Nat,
             staged' = IF pendingImplementation' = {} THEN {} ELSE staged
      PROVE  StagedInv' /\ implementation' = implementation
  BY <1>4
<1>5. ASSUME NEW caller \in Callers, NEW delay \in UpgradeDelayArgs, SetUpgradeDelayBlocks(caller, delay),
             ~\E a \in Callers, new \in Implementations : SetImplementation(a, new), Staging
      PROVE  StagedInv' /\ implementation' = implementation
  <2>1. /\ UNCHANGED <<implementation, pendingImplementation, upgradeEffectiveAt>>
        /\ block' \in Nat /\ upgradeDelay' \in Nat
    BY <1>5 DEF SetUpgradeDelayBlocks
  <2> QED
    BY <1>2, <1>4, <1>5, <2>1
<1>6. ASSUME NextBlock, UNCHANGED proxyVars, Staging,
             ~\E a \in Callers, new \in Implementations : SetImplementation(a, new)
      PROVE  StagedInv' /\ implementation' = implementation
  <2>1. /\ UNCHANGED <<implementation, pendingImplementation, upgradeEffectiveAt>>
        /\ block' \in Nat /\ upgradeDelay' \in Nat
    BY <1>6 DEF NextBlock, proxyVars
  <2> QED
    BY <1>2, <1>4, <1>6, <2>1
<1>7. CASE UNCHANGED <<block, proxyVars, staged>>
  BY <1>7 DEF proxyVars
<1> HIDE DEF StagedInv
<1> QED
  BY <1>1, <1>3, <1>5, <1>6, <1>7, Zenon DEF ProxyMoves, ProxyNext

\* Nobody gets hold of the system unannounced, for any delay, cooldown and expiry and
\* whatever is staged, requested, cancelled or reconfigured in between: neither the
\* admin of the governance nor the implementation of the proxy that runs beside it
\* changes but as it was announced, and no sooner (confirm_admin_rotation,
\* confirm_implementation).
THEOREM NothingUnannounced == Spec /\ ProxySpec => ChangesAreAnnounced
<1> DEFINE Announced == implementation' # implementation =>
              \E s \in staged : s.to = {implementation'} /\ block - s.at >= s.delay
<1>1. BooksInv /\ [Next]_vars => [admin' # admin => AdminConsented]_vars
  BY AdminStep DEF BooksInv, GovernanceBooksAgree
<1>2. ChainInit /\ ProxyInit => StagedInv
  BY ProxyConstants DEF ChainInit, ProxyInit, StagedInv
<1>3. StagedInv /\ [ProxyMoves]_<<block, proxyVars, staged>> => StagedInv' /\ Announced
  BY StagedStep
<1>4. Announced => [Announced]_mcVars
  OBVIOUS
<1>5. Spec => GovernanceAdminConsents
  BY <1>1, BooksHold, PTL DEF Spec, GovernanceAdminConsents
<1>6. ProxySpec => [][Announced]_mcVars
  <2> HIDE DEF Announced
  <2> QED
    BY <1>2, <1>3, <1>4, PTL DEF ProxySpec
<1>7. [][Announced]_mcVars => UpgradesAreAnnounced
  BY DEF UpgradesAreAnnounced
<1> QED
  BY <1>5, <1>6, <1>7 DEF ChangesAreAnnounced
====
