---- MODULE FinanceProofs ----
(***************************************************************************)
(* Theorems about Fractional, Crowdfunding, Lending and Insurance:         *)
(* liquidity is never diluted, whatever is rounded; the books of shares    *)
(* and of campaigns agree; loans change their terms by consent of both     *)
(* parties, are originated once, and are charged each block's interest     *)
(* once; pools pay every claim once, and policies have one holder.         *)
(***************************************************************************)
EXTENDS MCFinance, Sums

\* What the assumptions on the constants of the share market and of campaigns say.
LEMMA ShareFacts ==
    /\ IsFiniteSet(Holders) /\ IsFiniteSet(Investors)
    /\ \A x \in AmountArgs : x \in Nat
    /\ \A x \in DurationArgs : x \in Nat
    /\ \A x \in PaymentArgs : x \in Nat
    /\ ShareUnit \in Nat \ {0}
  BY FractionalConstants, CrowdfundingConstants

----
(***************************************************************************)
(* The rotation of the admin, which several of the contracts contain.      *)
(***************************************************************************)

\* Who holds the key, with at most one request to hand it on.
KeyHeld(people, key, requests) ==
    /\ key \in people
    /\ requests \subseteq [old : people, new : people, effective : Nat] /\ Cardinality(requests) <= 1

\* A rotation is requested, or confirmed, or cancelled.
KeyTurned(people, key, new, requests) ==
    \/ /\ new = key
       /\ \E a, b \in people, n \in Nat : requests = {[old |-> a, new |-> b, effective |-> n]}
    \/ new \in people \cup {key} /\ requests = {}

\* request_admin_rotation, confirm_admin_rotation, cancel_admin_rotation keep the types.
LEMMA KeyTurns ==
    ASSUME NEW people, NEW key, NEW new, NEW old, NEW requests,
           KeyHeld(people, key, old), KeyTurned(people, key, new, requests)
    PROVE  KeyHeld(people, new, requests)
<1>1. CASE new = key /\ \E a, b \in people, n \in Nat : requests = {[old |-> a, new |-> b, effective |-> n]}
  <2>1. PICK a \in people, b \in people, n \in Nat : requests = {[old |-> a, new |-> b, effective |-> n]}
    BY <1>1
  <2> DEFINE x == [old |-> a, new |-> b, effective |-> n]
  <2>2. x \in [old : people, new : people, effective : Nat] /\ requests = {x}
    BY <2>1
  <2> HIDE DEF x
  <2> QED
    BY <1>1, <2>2, NoneOrOne DEF KeyHeld
<1>2. CASE new \in people \cup {key} /\ requests = {}
  BY <1>2, NoneOrOne DEF KeyHeld
<1> QED
  BY <1>1, <1>2 DEF KeyTurned

----
(***************************************************************************)
(* The integer root by which a pool's first liquidity is minted (isqrt).   *)
(***************************************************************************)

\* The iteration of isqrt begins at n.
LEMMA IsqrtUnfold ==
    ASSUME NEW n \in Nat \ {0}
    PROVE  Isqrt(n) = (CHOOSE f : Guesses(n, n, f))[n]
  BY DEF Isqrt, Guesses

\* isqrt is the integer root, of every number: the guess that is not lowered any more is the
\* root, since no guess falls below it.
LEMMA IsqrtIsRoot ==
    ASSUME NEW n \in Nat
    PROVE  /\ Isqrt(n) \in Nat
           /\ Isqrt(n) * Isqrt(n) <= n /\ n < (Isqrt(n) + 1) * (Isqrt(n) + 1)
<1>1. CASE n = 0
  BY <1>1 DEF Isqrt
<1>2. CASE n # 0
  BY <1>2, GuessesExist, LastGuessIsRoot, IsqrtUnfold
<1> QED
  BY <1>1, <1>2

----
(***************************************************************************)
(* What one share of liquidity is worth: the product of the reserves over  *)
(* the square of the liquidity, compared without division.                 *)
(***************************************************************************)

Worth(p, q) == q.shares * q.value * p.lp * p.lp >= p.shares * p.value * q.lp * q.lp

\* The parts of swap and liquidity amounts are rounded down (checked_div).
LEMMA ShareRounded ==
    ASSUME NEW a \in Nat, NEW b \in Nat, NEW c \in Nat
    PROVE  /\ Share(a, b, c) \in Nat
           /\ Share(a, b, c) * c <= a * b
           /\ a * b \in Nat
<1>1. a * b \in Nat
  BY Products
<1>2. CASE c = 0
  BY <1>1, <1>2 DEF Share
<1>3. CASE c # 0
  BY <1>1, <1>3, RoundedDown DEF Share
<1> QED
  BY <1>2, <1>3

\* If neither reserve falls by more, in proportion, than the liquidity does, then what one
\* share of it is worth does not fall (add_liquidity, remove_liquidity).
LEMMA InProportion ==
    ASSUME NEW p \in Pool, NEW q \in Pool,
           p.shares * q.lp <= q.shares * p.lp, p.value * q.lp <= q.value * p.lp
    PROVE  Worth(p, q)
  BY Products DEF Pool, Worth

\* What is minted for an addition is at most the part of the smaller of the two amounts.
LEMMA MintedInProportion ==
    ASSUME NEW p \in Pool, NEW amount \in Nat, NEW value \in Nat
    PROVE  /\ LpMinted(p, amount, value) \in Nat
           /\ LpMinted(p, amount, value) * p.shares <= amount * p.lp
           /\ LpMinted(p, amount, value) * p.value <= value * p.lp
<1>1. p.shares \in Nat /\ p.value \in Nat /\ p.lp \in Nat
  BY DEF Pool
<1> DEFINE m == LpMinted(p, amount, value)
           a == Share(amount, p.lp, p.shares)
           b == Share(value, p.lp, p.value)
<1>2. a \in Nat /\ a * p.shares <= amount * p.lp /\ amount * p.lp \in Nat
  BY <1>1, ShareRounded
<1>3. b \in Nat /\ b * p.value <= value * p.lp /\ value * p.lp \in Nat
  BY <1>1, ShareRounded
<1>4. m = IF a < b THEN a ELSE b
  BY DEF LpMinted, LessOf
<1> HIDE DEF m, a, b
<1>5. m \in Nat /\ m <= a /\ m <= b
  BY <1>2, <1>3, <1>4
<1>6. p.shares * m <= p.shares * a /\ p.value * m <= p.value * b
  BY <1>1, <1>2, <1>3, <1>5, Products
<1>7. m * p.shares \in Nat /\ a * p.shares \in Nat /\ m * p.value \in Nat /\ b * p.value \in Nat
  BY <1>1, <1>2, <1>3, <1>5, Products
<1>8. m * p.shares <= a * p.shares /\ m * p.value <= b * p.value
  BY <1>1, <1>2, <1>3, <1>5, <1>6
<1>9. m * p.shares <= amount * p.lp /\ m * p.value <= value * p.lp
  BY <1>2, <1>3, <1>7, <1>8
<1> QED
  BY <1>5, <1>9 DEF m

\* Adding liquidity dilutes nobody's (add_liquidity).
LEMMA AddingDilutesNobody ==
    ASSUME NEW p \in Pool, NEW amount \in Nat, NEW value \in Nat,
           NEW q, q = [shares |-> p.shares + amount, value |-> p.value + value,
                       lp |-> p.lp + LpMinted(p, amount, value)]
    PROVE  q \in Pool /\ Worth(p, q)
<1>1. p.shares \in Nat /\ p.value \in Nat /\ p.lp \in Nat
  BY DEF Pool
<1> DEFINE m == LpMinted(p, amount, value)
<1>2. m \in Nat /\ m * p.shares <= amount * p.lp /\ m * p.value <= value * p.lp
  BY MintedInProportion
<1>3. q.shares = p.shares + amount /\ q.value = p.value + value /\ q.lp = p.lp + m /\ q \in Pool
  BY <1>1, <1>2 DEF Pool
<1> HIDE DEF m
<1>4. p.shares * q.lp = p.shares * p.lp + m * p.shares /\ p.value * q.lp = p.value * p.lp + m * p.value
  BY <1>1, <1>2, <1>3
<1>5. q.shares * p.lp = p.shares * p.lp + amount * p.lp /\ q.value * p.lp = p.value * p.lp + value * p.lp
  BY <1>1, <1>2, <1>3
<1>6. p.shares * p.lp \in Nat /\ p.value * p.lp \in Nat /\ m * p.shares \in Nat /\ m * p.value \in Nat
      /\ amount * p.lp \in Nat /\ value * p.lp \in Nat
  BY <1>1, <1>2, Products
<1>7. p.shares * q.lp <= q.shares * p.lp /\ p.value * q.lp <= q.value * p.lp
  BY <1>2, <1>4, <1>5, <1>6
<1> QED
  BY <1>3, <1>7, InProportion

\* What a removal takes out of a reserve is at most its part of it.
LEMMA TakenInProportion ==
    ASSUME NEW l \in Nat, NEW r \in Nat, r <= l, NEW s \in Nat
    PROVE  /\ Share(r, s, l) \in Nat /\ Share(r, s, l) <= s
           /\ s * (l - r) <= (s - Share(r, s, l)) * l
<1> DEFINE out == Share(r, s, l)
<1>1. out \in Nat /\ out * l <= r * s /\ r * s \in Nat
  BY ShareRounded
<1>2. CASE l = 0
  BY <1>2 DEF Share
<1>3. CASE l # 0
  BY <1>1, Products, <1>3 DEF out
<1> QED
  BY <1>2, <1>3

\* Removing liquidity dilutes nobody else's (remove_liquidity).
LEMMA RemovingDilutesNobody ==
    ASSUME NEW p \in Pool, NEW lp \in Nat, lp <= p.lp,
           NEW q, q = [shares |-> p.shares - Share(lp, p.shares, p.lp),
                       value |-> p.value - Share(lp, p.value, p.lp), lp |-> p.lp - lp]
    PROVE  q \in Pool /\ Worth(p, q)
<1>1. p.shares \in Nat /\ p.value \in Nat /\ p.lp \in Nat
  BY DEF Pool
<1>2. /\ Share(lp, p.shares, p.lp) \in Nat /\ Share(lp, p.shares, p.lp) <= p.shares
      /\ p.shares * (p.lp - lp) <= (p.shares - Share(lp, p.shares, p.lp)) * p.lp
  BY <1>1, TakenInProportion
<1>3. /\ Share(lp, p.value, p.lp) \in Nat /\ Share(lp, p.value, p.lp) <= p.value
      /\ p.value * (p.lp - lp) <= (p.value - Share(lp, p.value, p.lp)) * p.lp
  BY <1>1, TakenInProportion
<1>4. q.shares = p.shares - Share(lp, p.shares, p.lp) /\ q.value = p.value - Share(lp, p.value, p.lp)
      /\ q.lp = p.lp - lp
  OBVIOUS
<1>5. q \in Pool
  BY <1>1, <1>2, <1>3 DEF Pool
<1>6. p.shares * q.lp <= q.shares * p.lp /\ p.value * q.lp <= q.value * p.lp
  BY <1>2, <1>3, <1>4
<1> QED
  BY <1>5, <1>6, InProportion

\* A swap takes out less than its part, by the fee and by the rounding (swap_shares_for_value).
LEMMA SwappingDilutesNobody ==
    ASSUME NEW p \in Pool, NEW amount \in Nat, SwapOut(p, amount) < p.value,
           NEW q, q = [shares |-> p.shares + amount, value |-> p.value - SwapOut(p, amount), lp |-> p.lp]
    PROVE  q \in Pool /\ Worth(p, q)
<1>1. p.shares \in Nat /\ p.value \in Nat /\ p.lp \in Nat
  BY DEF Pool
<1> DEFINE s == p.shares
           v == p.value
           l == p.lp
           f == amount * 9970
           w == s * 10000 + f
           out == SwapOut(p, amount)
<1>2. f \in Nat /\ w \in Nat /\ s \in Nat /\ v \in Nat /\ l \in Nat
  BY <1>1
<1>3. out = Share(f, v, w)
  BY DEF SwapOut
<1>4. out \in Nat /\ out * w <= f * v /\ f * v \in Nat
  <2> HIDE DEF f, w, v, out
  <2> QED
    BY <1>2, <1>3, ShareRounded
<1>5. out < v /\ q.shares = s + amount /\ q.value = v - out /\ q.lp = l
  OBVIOUS
<1>6. q \in Pool
  BY <1>1, <1>4 DEF Pool
<1>7. w <= 10000 * (s + amount)
  BY <1>1
<1>8. w = 10000 * s + f
  BY <1>1
<1> HIDE DEF s, v, l, f, w, out
<1>9. s * v <= (s + amount) * (v - out)
  <2> DEFINE k == v - out
             u == 10000 * (s + amount)
  <2>1. k \in Nat /\ u \in Nat
    BY <1>2, <1>4, <1>5
  <2>2. k * w <= k * u
    BY <1>2, <1>7, <2>1, Products
  <2>3. k * w = v * w - out * w /\ v * w = 10000 * (s * v) + f * v
    BY <1>2, <1>4, <1>8
  <2>4. k * u = 10000 * ((s + amount) * k)
    BY <1>2, <2>1
  <2>5. s * v \in Nat /\ (s + amount) * k \in Nat /\ out * w \in Nat /\ k * w \in Nat /\ k * u \in Nat /\ v * w \in Nat
    BY <1>2, <1>4, <2>1, Products
  <2> DEFINE a == s * v
             b == (s + amount) * k
             c == out * w
             d == f * v
  <2>6. a \in Nat /\ b \in Nat /\ c \in Nat /\ d \in Nat /\ c <= d
    BY <1>4, <2>5
  <2>7. 10000 * a + d - c <= 10000 * b
    BY <2>2, <2>3, <2>4, <2>5, <2>6
  <2> HIDE DEF a, b, c, d
  <2>8. a <= b
    BY <2>6, <2>7
  <2> QED
    BY <2>8 DEF a, b, k
<1>10. Worth(p, q)
  <2> DEFINE a == s * v
             b == (s + amount) * (v - out)
             e == l * l
  <2>1. a \in Nat /\ b \in Nat /\ e \in Nat
    BY <1>2, <1>4, <1>5, Products
  <2>2. e * a <= e * b
    BY <1>9, <2>1, Products DEF a, b
  <2>3. q.shares * q.value * p.lp * p.lp = e * b /\ p.shares * p.value * q.lp * q.lp = e * a
    BY <1>2, <1>4, <1>5 DEF s, v, l
  <2>4. e * a \in Nat /\ e * b \in Nat
    BY <2>1, Products
  <2> HIDE DEF a, b, e
  <2> QED
    BY <2>2, <2>3, <2>4 DEF Worth
<1> QED
  BY <1>6, <1>10

----
(***************************************************************************)
(* The books of one token: the accounts' shares, their number, the pool,   *)
(* and the liquidity the accounts hold.                                    *)
(***************************************************************************)

InPool(P) == SumFunctionOnSet([p \in P |-> p.shares], P)
Liquidity(P) == SumFunctionOnSet([p \in P |-> p.lp], P)

TokenGood(held, total, P, lp) ==
    /\ held \in [Holders -> Nat] /\ total \in Nat /\ lp \in [Holders -> Nat]
    /\ P = {} \/ \E p \in Pool : P = {p}
    /\ total <= SumFunctionOnSet(held, Holders) + InPool(P)
    /\ Liquidity(P) = SumFunctionOnSet(lp, Holders)

\* A token has one pool or none (amm_pools).
LEMMA OnePool ==
    /\ InPool({}) = 0 /\ Liquidity({}) = 0
    /\ \A p \in Pool : InPool({p}) = p.shares /\ Liquidity({p}) = p.lp
<1>1. InPool({}) = 0 /\ Liquidity({}) = 0
  BY SumEmpty DEF InPool, Liquidity
<1>2. ASSUME NEW p \in Pool, NEW f, f[p] \in Nat
      PROVE  SumFunctionOnSet(f, {p}) = f[p]
  BY <1>2, FS_EmptySet, SumAdd, SumEmpty
<1>3. ASSUME NEW p \in Pool
      PROVE  InPool({p}) = p.shares /\ Liquidity({p}) = p.lp
  BY <1>2 DEF Pool, InPool, Liquidity
<1> QED
  BY <1>1, <1>3


\* The sum of what the accounts have, after a message that writes one balance.
LEMMA HeldChange ==
    ASSUME NEW held \in [Holders -> Nat], NEW a \in Holders, NEW x \in Nat
    PROVE  /\ Written(held, a, x) \in [Holders -> Nat]
           /\ SumFunctionOnSet(Written(held, a, x), Holders) = SumFunctionOnSet(held, Holders) - held[a] + x
           /\ SumFunctionOnSet(held, Holders) \in Nat /\ held[a] <= SumFunctionOnSet(held, Holders)
<1> DEFINE g == Written(held, a, x)
<1>1. g \in [Holders -> Nat] /\ g[a] = x /\ \A b \in Holders \ {a} : held[b] = g[b]
  BY DEF Written
<1>2. \A b \in Holders : held[b] \in Int /\ g[b] \in Int
  BY <1>1
<1>3. \A b \in Holders : held[b] \in Nat
  OBVIOUS
<1> HIDE DEF g
<1>4. SumFunctionOnSet(g, Holders) = SumFunctionOnSet(held, Holders) - held[a] + g[a]
  BY <1>1, <1>2, ShareFacts, SumChange
<1>5. SumFunctionOnSet(held, Holders) \in Nat /\ held[a] <= SumFunctionOnSet(held, Holders)
  BY <1>3, ShareFacts, SumNatural
<1> QED
  BY <1>1, <1>4, <1>5 DEF g

\* A sale takes no more from the seller than it gives to the buyer, also if they are the same
\* and if the seller has less than is sold (buy_shares, bid_dutch_auction).
LEMMA TransferKeeps ==
    ASSUME NEW held, NEW total, NEW P, NEW lp, TokenGood(held, total, P, lp),
           NEW seller \in Holders, NEW buyer \in Holders, NEW x \in Nat
    PROVE  TokenGood(Transferred(held, seller, buyer, x), total, P, lp)
<1> DEFINE left == Written(held, seller, Left(held[seller], x))
           sold == Written(left, buyer, left[buyer] + x)
<1>1. held \in [Holders -> Nat] /\ held[seller] \in Nat
  BY DEF TokenGood
<1>2. Left(held[seller], x) \in Nat /\ Left(held[seller], x) + x >= held[seller]
  BY <1>1 DEF Left
<1>3. /\ left \in [Holders -> Nat]
      /\ SumFunctionOnSet(left, Holders) = SumFunctionOnSet(held, Holders) - held[seller] + Left(held[seller], x)
      /\ SumFunctionOnSet(held, Holders) \in Nat
  BY <1>1, <1>2, HeldChange
<1>4. Transferred(held, seller, buyer, x) = sold
  BY DEF Transferred, Written
<1> HIDE DEF left
<1>5. left[buyer] \in Nat /\ left[buyer] + x \in Nat
  BY <1>3
<1>6. /\ sold \in [Holders -> Nat]
      /\ SumFunctionOnSet(sold, Holders) = SumFunctionOnSet(left, Holders) - left[buyer] + (left[buyer] + x)
      /\ SumFunctionOnSet(left, Holders) \in Nat
  BY <1>3, <1>5, HeldChange
<1> HIDE DEF sold
<1>7. SumFunctionOnSet(sold, Holders) >= SumFunctionOnSet(held, Holders) /\ SumFunctionOnSet(sold, Holders) \in Nat
  BY <1>1, <1>2, <1>3, <1>5, <1>6
<1>8. total <= SumFunctionOnSet(held, Holders) + InPool(P) /\ InPool(P) \in Nat /\ total \in Nat
  BY OnePool DEF TokenGood, Pool
<1>9. total <= SumFunctionOnSet(sold, Holders) + InPool(P)
  BY <1>3, <1>7, <1>8
<1> QED
  BY <1>4, <1>6, <1>9 DEF TokenGood

\* Minted and redeemed shares are counted (mint_shares, redeem_shares).
LEMMA MintKeeps ==
    ASSUME NEW held, NEW total, NEW P, NEW lp, TokenGood(held, total, P, lp),
           NEW a \in Holders, NEW x \in Nat
    PROVE  /\ TokenGood(Written(held, a, held[a] + x), total + x, P, lp)
           /\ x <= held[a] => TokenGood(Written(held, a, held[a] - x), Left(total, x), P, lp)
<1>1. held \in [Holders -> Nat] /\ held[a] \in Nat /\ total \in Nat
  BY DEF TokenGood
<1>2. InPool(P) \in Nat
  BY OnePool DEF TokenGood, Pool
<1>3. total <= SumFunctionOnSet(held, Holders) + InPool(P)
  BY DEF TokenGood
<1>4. TokenGood(Written(held, a, held[a] + x), total + x, P, lp)
  BY <1>1, HeldChange, <1>2, <1>3 DEF TokenGood
<1>5. ASSUME x <= held[a]
      PROVE  TokenGood(Written(held, a, held[a] - x), Left(total, x), P, lp)
  <2> DEFINE g == Written(held, a, held[a] - x)
  <2>1. held[a] - x \in Nat
    BY <1>1, <1>5
  <2>2. /\ g \in [Holders -> Nat]
        /\ SumFunctionOnSet(g, Holders) = SumFunctionOnSet(held, Holders) - held[a] + (held[a] - x)
        /\ SumFunctionOnSet(held, Holders) \in Nat
        /\ held[a] <= SumFunctionOnSet(held, Holders)
    BY <1>1, <2>1, HeldChange
  <2> HIDE DEF g
  <2>3. Left(total, x) \in Nat /\ (Left(total, x) = 0 \/ Left(total, x) = total - x)
    BY <1>1 DEF Left
  <2>4. Left(total, x) <= SumFunctionOnSet(g, Holders) + InPool(P)
    BY <1>1, <1>2, <1>3, <1>5, <2>2, <2>3
  <2>5. TokenGood(g, Left(total, x), P, lp)
    BY <2>2, <2>3, <2>4 DEF TokenGood
  <2> QED
    BY <2>5 DEF g
<1> QED
  BY <1>4, <1>5

\* Shares go from an account to the pool, and liquidity is minted to the account; or the other way
\* round (add_liquidity, remove_liquidity, swap_shares_for_value).
LEMMA PoolMoveKeeps ==
    ASSUME NEW held, NEW total, NEW P, NEW lp, TokenGood(held, total, P, lp),
           NEW a \in Holders, NEW x \in Nat, NEW y \in Nat, NEW q \in Pool, NEW n \in Nat, n <= total,
           q.shares + x = InPool(P) + held[a], q.lp + lp[a] = Liquidity(P) + y
    PROVE  TokenGood(Written(held, a, x), n, {q}, Written(lp, a, y))
<1> DEFINE g == Written(held, a, x)
           h == Written(lp, a, y)
<1>1. held \in [Holders -> Nat] /\ lp \in [Holders -> Nat] /\ held[a] \in Nat /\ lp[a] \in Nat
  BY DEF TokenGood
<1>2. InPool(P) \in Nat /\ Liquidity(P) \in Nat
  <2>1. ASSUME NEW p \in Pool
        PROVE  InPool({p}) \in Nat /\ Liquidity({p}) \in Nat
    BY OnePool DEF Pool
  <2>2. P = {} \/ \E p \in Pool : P = {p}
    BY Zenon DEF TokenGood
  <2>3. CASE P = {}
    BY <2>3, OnePool
  <2>4. CASE \E p \in Pool : P = {p}
    BY <2>1, <2>4, Zenon
  <2> QED
    BY <2>2, <2>3, <2>4
<1>3. /\ g \in [Holders -> Nat]
      /\ SumFunctionOnSet(g, Holders) = SumFunctionOnSet(held, Holders) - held[a] + x
      /\ SumFunctionOnSet(held, Holders) \in Nat
  BY <1>1, HeldChange
<1>4. /\ h \in [Holders -> Nat]
      /\ SumFunctionOnSet(h, Holders) = SumFunctionOnSet(lp, Holders) - lp[a] + y
      /\ SumFunctionOnSet(lp, Holders) \in Nat
  BY <1>1, HeldChange
<1>5. q.shares \in Nat /\ q.lp \in Nat /\ InPool({q}) = q.shares /\ Liquidity({q}) = q.lp
  BY OnePool DEF Pool
<1>6. total <= SumFunctionOnSet(held, Holders) + InPool(P) /\ total \in Nat
      /\ Liquidity(P) = SumFunctionOnSet(lp, Holders)
  BY DEF TokenGood
<1> HIDE DEF g, h
<1>7. n <= SumFunctionOnSet(g, Holders) + InPool({q})
  BY <1>1, <1>2, <1>3, <1>5, <1>6
<1>8. Liquidity({q}) = SumFunctionOnSet(h, Holders)
  BY <1>1, <1>2, <1>4, <1>5, <1>6
<1>9. TokenGood(g, n, {q}, h)
  BY <1>3, <1>4, <1>7, <1>8 DEF TokenGood
<1> QED
  BY <1>9 DEF g, h

----
(***************************************************************************)
(* Fractional: every message leaves the books of all tokens in order, and  *)
(* no message dilutes the liquidity of a pool.                             *)
(***************************************************************************)

TokensGood(held, total, P, lp) ==
    /\ held = [t \in Tokens |-> held[t]] /\ total = [t \in Tokens |-> total[t]]
    /\ P = [t \in Tokens |-> P[t]] /\ lp = [t \in Tokens |-> lp[t]]
    /\ \A t \in Tokens : TokenGood(held[t], total[t], P[t], lp[t])

PaidEnough(sale) ==
    sale.status = "Bid" => sale.paid >= sale.shares * LessOf(sale.start, sale.end)

AuctionsGood ==
    /\ auctions \in Seq(Auction)
    /\ \A n \in DOMAIN auctions : auctions[n].from <= block /\ PaidEnough(auctions[n])

FractionalInv ==
    block \in Nat /\ TokensGood(shares, totalShares, pool, lpShares) /\ AuctionsGood

Undiluted ==
    \A t \in Tokens : \A q \in pool'[t] :
        /\ \A p \in pool[t] : 0 \in {p.lp, q.lp} \/ Worth(p, q)
        /\ pool[t] = {} => q.shares * q.value \in (q.lp * q.lp)..((q.lp + 1) * (q.lp + 1) - 1)

\* A message about one token leaves the others alone.
LEMMA OneToken ==
    ASSUME NEW t \in Tokens, NEW held, NEW total, NEW P, NEW lp, TokenGood(held, total, P, lp),
           TokensGood(shares, totalShares, pool, lpShares),
           shares' = [shares EXCEPT ![t] = held], totalShares' = [totalShares EXCEPT ![t] = total],
           pool' = [pool EXCEPT ![t] = P], lpShares' = [lpShares EXCEPT ![t] = lp]
    PROVE  TokensGood(shares, totalShares, pool, lpShares)'
<1>1. /\ shares' = [u \in Tokens |-> shares'[u]] /\ totalShares' = [u \in Tokens |-> totalShares'[u]]
      /\ pool' = [u \in Tokens |-> pool'[u]] /\ lpShares' = [u \in Tokens |-> lpShares'[u]]
  BY DEF TokensGood
<1>2. shares'[t] = held /\ totalShares'[t] = total /\ pool'[t] = P /\ lpShares'[t] = lp
  BY DEF TokensGood
<1>3. \A u \in Tokens \ {t} : /\ shares'[u] = shares[u] /\ totalShares'[u] = totalShares[u]
                             /\ pool'[u] = pool[u] /\ lpShares'[u] = lpShares[u]
  BY DEF TokensGood
<1>4. \A u \in Tokens : TokenGood(shares'[u], totalShares'[u], pool'[u], lpShares'[u])
  <2> SUFFICES ASSUME NEW u \in Tokens
               PROVE  TokenGood(shares'[u], totalShares'[u], pool'[u], lpShares'[u])
    OBVIOUS
  <2>1. CASE u = t
    BY <1>2, <2>1
  <2>2. CASE u # t
    <3>1. TokenGood(shares[u], totalShares[u], pool[u], lpShares[u])
      BY DEF TokensGood
    <3> QED
      BY <1>3, <2>2, <3>1
  <2> QED
    BY <2>1, <2>2
<1> QED
  BY <1>1, <1>4, Zenon DEF TokensGood

\* What does not change is written as it is.
LEMMA Unwritten ==
    ASSUME TokensGood(shares, totalShares, pool, lpShares), NEW t \in Tokens
    PROVE  /\ shares = [shares EXCEPT ![t] = shares[t]] /\ totalShares = [totalShares EXCEPT ![t] = totalShares[t]]
           /\ pool = [pool EXCEPT ![t] = pool[t]] /\ lpShares = [lpShares EXCEPT ![t] = lpShares[t]]
  BY DEF TokensGood

\* Messages that touch neither a pool nor an auction.
LEMMA UntouchedPools ==
    ASSUME FractionalInv, UNCHANGED pool
    PROVE  Undiluted
<1> SUFFICES ASSUME NEW t \in Tokens, NEW q \in pool[t]
             PROVE  /\ \A p \in pool[t] : 0 \in {p.lp, q.lp} \/ Worth(p, q)
                    /\ pool[t] # {}
  BY DEF Undiluted
<1>1. PICK p \in Pool : pool[t] = {p}
  BY DEF FractionalInv, TokensGood, TokenGood
<1>2. q = p
  BY <1>1
<1>3. p.shares * p.value * p.lp * p.lp \in Nat
  BY Products DEF Pool
<1>4. Worth(p, p)
  BY <1>3 DEF Worth
<1> QED
  BY <1>1, <1>2, <1>4

\* Messages about offers and prices, and rotation, leave the books alone (list_shares, cancel_listing).
LEMMA BooksFrame ==
    ASSUME FractionalInv, UNCHANGED <<block, shares, totalShares, pool, lpShares, auctions>>
    PROVE  FractionalInv' /\ Undiluted
  BY UntouchedPools DEF FractionalInv, AuctionsGood

\* A message that leaves block and auctions alone and keeps one token's books, keeps all books.
LEMMA TokenMessage ==
    ASSUME FractionalInv, UNCHANGED <<block, auctions>>, TokensGood(shares, totalShares, pool, lpShares)'
    PROVE  FractionalInv'
  BY DEF FractionalInv, AuctionsGood

\* mint_shares keeps the books.
LEMMA MintSharesKeeps ==
    ASSUME FractionalInv, NEW a \in Holders, NEW t \in Tokens, NEW x \in Nat, MintShares(a, t, x)
    PROVE  FractionalInv' /\ Undiluted
<1>1. TokensGood(shares, totalShares, pool, lpShares) /\ TokenGood(shares[t], totalShares[t], pool[t], lpShares[t])
  BY DEF FractionalInv, TokensGood
<1>2. TokenGood(Written(shares[t], a, shares[t][a] + x), totalShares[t] + x, pool[t], lpShares[t])
  BY <1>1, MintKeeps
<1>3. /\ shares' = [shares EXCEPT ![t] = Written(shares[t], a, shares[t][a] + x)]
      /\ totalShares' = [totalShares EXCEPT ![t] = totalShares[t] + x]
      /\ pool' = pool /\ lpShares' = lpShares /\ UNCHANGED <<block, auctions>>
  BY DEF MintShares, Written
<1>4. pool' = [pool EXCEPT ![t] = pool[t]] /\ lpShares' = [lpShares EXCEPT ![t] = lpShares[t]]
  BY <1>1, <1>3, Unwritten
<1> DEFINE held == Written(shares[t], a, shares[t][a] + x)
           total == totalShares[t] + x
           P == pool[t]
           lp == lpShares[t]
<1>5. TokensGood(shares, totalShares, pool, lpShares)'
  <2>1. /\ shares' = [shares EXCEPT ![t] = held] /\ totalShares' = [totalShares EXCEPT ![t] = total]
        /\ pool' = [pool EXCEPT ![t] = P] /\ lpShares' = [lpShares EXCEPT ![t] = lp]
        /\ TokenGood(held, total, P, lp)
    BY <1>2, <1>3, <1>4
  <2> HIDE DEF held, total, P, lp
  <2> QED
    BY <1>1, <2>1, OneToken
<1> QED
  BY <1>3, <1>5, TokenMessage, UntouchedPools

\* redeem_shares keeps the books.
LEMMA RedeemSharesKeeps ==
    ASSUME FractionalInv, NEW a \in Holders, NEW t \in Tokens, NEW x \in Nat, RedeemShares(a, t, x)
    PROVE  FractionalInv' /\ Undiluted
<1>1. TokensGood(shares, totalShares, pool, lpShares) /\ TokenGood(shares[t], totalShares[t], pool[t], lpShares[t])
  BY DEF FractionalInv, TokensGood
<1>2. x <= shares[t][a]
  BY <1>1 DEF RedeemShares, TokenGood
<1>3. TokenGood(Written(shares[t], a, shares[t][a] - x), Left(totalShares[t], x), pool[t], lpShares[t])
  BY <1>1, <1>2, MintKeeps
<1>4. /\ shares' = [shares EXCEPT ![t] = Written(shares[t], a, shares[t][a] - x)]
      /\ totalShares' = [totalShares EXCEPT ![t] = Left(totalShares[t], x)]
      /\ pool' = pool /\ lpShares' = lpShares /\ UNCHANGED <<block, auctions>>
  BY DEF RedeemShares, Written
<1>5. pool' = [pool EXCEPT ![t] = pool[t]] /\ lpShares' = [lpShares EXCEPT ![t] = lpShares[t]]
  BY <1>1, <1>4, Unwritten
<1> DEFINE held == Written(shares[t], a, shares[t][a] - x)
           total == Left(totalShares[t], x)
           P == pool[t]
           lp == lpShares[t]
<1>6. TokensGood(shares, totalShares, pool, lpShares)'
  <2>1. /\ shares' = [shares EXCEPT ![t] = held] /\ totalShares' = [totalShares EXCEPT ![t] = total]
        /\ pool' = [pool EXCEPT ![t] = P] /\ lpShares' = [lpShares EXCEPT ![t] = lp]
        /\ TokenGood(held, total, P, lp)
    BY <1>3, <1>4, <1>5
  <2> HIDE DEF held, total, P, lp
  <2> QED
    BY <1>1, <2>1, OneToken
<1> QED
  BY <1>4, <1>6, TokenMessage, UntouchedPools

\* A sale of shares keeps the books of its token.
LEMMA SaleKeeps ==
    ASSUME FractionalInv, NEW t \in Tokens, NEW seller \in Holders, NEW buyer \in Holders, NEW x \in Nat,
           shares' = [shares EXCEPT ![t] = Transferred(shares[t], seller, buyer, x)],
           UNCHANGED <<totalShares, pool, lpShares>>
    PROVE  TokensGood(shares, totalShares, pool, lpShares)'
<1>1. TokensGood(shares, totalShares, pool, lpShares) /\ TokenGood(shares[t], totalShares[t], pool[t], lpShares[t])
  BY DEF FractionalInv, TokensGood
<1>2. TokenGood(Transferred(shares[t], seller, buyer, x), totalShares[t], pool[t], lpShares[t])
  BY <1>1, TransferKeeps
<1>3. /\ totalShares' = [totalShares EXCEPT ![t] = totalShares[t]]
      /\ pool' = [pool EXCEPT ![t] = pool[t]] /\ lpShares' = [lpShares EXCEPT ![t] = lpShares[t]]
  BY <1>1, Unwritten
<1> DEFINE held == Transferred(shares[t], seller, buyer, x)
           total == totalShares[t]
           P == pool[t]
           lp == lpShares[t]
<1>4. /\ shares' = [shares EXCEPT ![t] = held] /\ totalShares' = [totalShares EXCEPT ![t] = total]
      /\ pool' = [pool EXCEPT ![t] = P] /\ lpShares' = [lpShares EXCEPT ![t] = lp]
      /\ TokenGood(held, total, P, lp)
  BY <1>2, <1>3
<1> HIDE DEF held, total, P, lp
<1> QED
  BY <1>1, <1>4, OneToken

\* buy_shares keeps the books.
LEMMA BuySharesKeeps ==
    ASSUME FractionalInv, NEW a \in Holders, NEW b \in Holders, NEW t \in Tokens, NEW x \in Nat, BuyShares(a, b, t, x)
    PROVE  FractionalInv' /\ Undiluted
<1>1. /\ shares' = [shares EXCEPT ![t] = Transferred(shares[t], b, a, x)]
      /\ UNCHANGED <<totalShares, pool, lpShares>> /\ UNCHANGED <<block, auctions>>
  BY Zenon DEF BuyShares
<1>2. TokensGood(shares, totalShares, pool, lpShares)'
  BY <1>1, SaleKeeps
<1> QED
  BY <1>1, <1>2, TokenMessage, UntouchedPools

----
\* The pool

\* A message that leaves one pool in the place of another, of at least its worth.
LEMMA PoolStep ==
    ASSUME FractionalInv, NEW t \in Tokens, NEW q \in Pool, pool' = [pool EXCEPT ![t] = {q}],
           \A p \in pool[t] : 0 \in {p.lp, q.lp} \/ Worth(p, q),
           pool[t] = {} => q.shares * q.value \in (q.lp * q.lp)..((q.lp + 1) * (q.lp + 1) - 1)
    PROVE  Undiluted
<1> SUFFICES ASSUME NEW u \in Tokens, NEW r \in pool'[u]
             PROVE  /\ \A p \in pool[u] : 0 \in {p.lp, r.lp} \/ Worth(p, r)
                    /\ pool[u] = {} => r.shares * r.value \in (r.lp * r.lp)..((r.lp + 1) * (r.lp + 1) - 1)
  BY Zenon DEF Undiluted
<1>1. pool = [v \in Tokens |-> pool[v]]
  BY DEF FractionalInv, TokensGood
<1>2. CASE u = t
  BY <1>1, <1>2
<1>3. CASE u # t
  <2>1. pool'[u] = pool[u]
    BY <1>1, <1>3
  <2>2. PICK p \in Pool : pool[u] = {p}
    BY <2>1 DEF FractionalInv, TokensGood, TokenGood
  <2>3. p.shares * p.value * p.lp * p.lp \in Nat
    BY Products DEF Pool
  <2>4. Worth(p, p)
    BY <2>3 DEF Worth
  <2>5. r = p
    BY <2>1, <2>2
  <2> QED
    BY <2>2, <2>4, <2>5
<1> QED
  BY <1>2, <1>3

\* The same of the books: shares go from the account to the pool or back.
LEMMA PoolBooks ==
    ASSUME FractionalInv, NEW t \in Tokens, NEW a \in Holders, NEW x \in Nat, NEW y \in Nat, NEW q \in Pool,
           NEW n \in Nat, n <= totalShares[t],
           q.shares + x = InPool(pool[t]) + shares[t][a], q.lp + lpShares[t][a] = Liquidity(pool[t]) + y,
           pool' = [pool EXCEPT ![t] = {q}],
           shares' = [shares EXCEPT ![t] = Written(shares[t], a, x)],
           lpShares' = [lpShares EXCEPT ![t] = Written(lpShares[t], a, y)],
           totalShares' = [totalShares EXCEPT ![t] = n]
    PROVE  TokensGood(shares, totalShares, pool, lpShares)'
<1>1. TokensGood(shares, totalShares, pool, lpShares) /\ TokenGood(shares[t], totalShares[t], pool[t], lpShares[t])
  BY DEF FractionalInv, TokensGood
<1> DEFINE held == shares[t]
           total == totalShares[t]
           P == pool[t]
           lp == lpShares[t]
<1>2. TokenGood(Written(held, a, x), n, {q}, Written(lp, a, y))
  BY <1>1, PoolMoveKeeps DEF held, total, P, lp
<1> QED
  BY <1>1, <1>2, OneToken

\* What the books say of one account and one token.
LEMMA PoolFacts ==
    ASSUME FractionalInv, NEW t \in Tokens, NEW a \in Holders
    PROVE  /\ shares[t][a] \in Nat /\ totalShares[t] \in Nat /\ lpShares[t][a] \in Nat
           /\ pool[t] = {} \/ \E p \in Pool : pool[t] = {p}
           /\ lpShares[t][a] <= Liquidity(pool[t])
           /\ shares = [u \in Tokens |-> shares[u]] /\ lpShares = [u \in Tokens |-> lpShares[u]]
           /\ totalShares = [totalShares EXCEPT ![t] = totalShares[t]]
<1>1. TokensGood(shares, totalShares, pool, lpShares) /\ TokenGood(shares[t], totalShares[t], pool[t], lpShares[t])
  BY DEF FractionalInv, TokensGood
<1>2. lpShares[t] \in [Holders -> Nat] /\ Liquidity(pool[t]) = SumFunctionOnSet(lpShares[t], Holders)
  BY <1>1 DEF TokenGood
<1>3. lpShares[t][a] \in Nat /\ lpShares[t][a] <= Liquidity(pool[t])
  BY <1>2, HeldChange
<1>4. shares[t][a] \in Nat /\ totalShares[t] \in Nat
  BY <1>1 DEF TokenGood
<1>5. pool[t] = {} \/ \E p \in Pool : pool[t] = {p}
  BY <1>1 DEF TokenGood
<1>6. shares = [u \in Tokens |-> shares[u]] /\ lpShares = [u \in Tokens |-> lpShares[u]]
  BY <1>1 DEF TokensGood
<1> QED
  BY <1>1, <1>3, <1>4, <1>5, <1>6, Unwritten

\* A message on the pool keeps the books and dilutes nobody.
LEMMA PoolMessage ==
    ASSUME FractionalInv, NEW t \in Tokens, NEW a \in Holders, NEW x \in Nat, NEW y \in Nat, NEW q \in Pool,
           NEW n \in Nat, n <= totalShares[t],
           q.shares + x = InPool(pool[t]) + shares[t][a], q.lp + lpShares[t][a] = Liquidity(pool[t]) + y,
           pool' = [pool EXCEPT ![t] = {q}],
           shares' = [shares EXCEPT ![t] = Written(shares[t], a, x)],
           lpShares' = [lpShares EXCEPT ![t] = Written(lpShares[t], a, y)],
           totalShares' = [totalShares EXCEPT ![t] = n],
           UNCHANGED <<block, auctions>>,
           \A p \in pool[t] : 0 \in {p.lp, q.lp} \/ Worth(p, q),
           pool[t] = {} => q.shares * q.value \in (q.lp * q.lp)..((q.lp + 1) * (q.lp + 1) - 1)
    PROVE  FractionalInv' /\ Undiluted
<1>1. TokensGood(shares, totalShares, pool, lpShares)'
  BY PoolBooks
<1>2. Undiluted
  BY PoolStep
<1> QED
  BY <1>1, <1>2, TokenMessage

\* The first liquidity of a pool is minted by the integer root (add_liquidity).
LEMMA FirstLiquidity ==
    ASSUME NEW amount \in Nat, NEW value \in Nat, NEW q,
           q = [shares |-> amount, value |-> value, lp |-> Isqrt(amount * value)]
    PROVE  q \in Pool /\ q.shares * q.value \in (q.lp * q.lp)..((q.lp + 1) * (q.lp + 1) - 1)
<1> DEFINE n == amount * value
           r == Isqrt(n)
<1>1. n \in Nat
  BY Products
<1>2. r \in Nat /\ r * r <= n /\ n < (r + 1) * (r + 1)
  <2> HIDE DEF n
  <2> QED
    BY <1>1, IsqrtIsRoot
<1>3. q \in Pool /\ q.shares * q.value = n /\ q.lp = r
  BY <1>2 DEF Pool
<1> HIDE DEF n, r
<1>4. r * r \in Nat /\ (r + 1) * (r + 1) \in Nat
  BY <1>2, Products
<1> DEFINE s == r * r
           k == (r + 1) * (r + 1)
<1>5. n \in s..(k - 1)
  BY <1>2, <1>4, <1>1
<1> QED
  BY <1>3, <1>5

\* add_liquidity keeps the books and dilutes nobody.
LEMMA AddLiquidityKeeps ==
    ASSUME FractionalInv, NEW a \in Holders, NEW t \in Tokens, NEW amount \in Nat, NEW value \in Nat,
           AddLiquidity(a, t, amount, value)
    PROVE  FractionalInv' /\ Undiluted
<1>1. /\ shares[t][a] \in Nat /\ totalShares[t] \in Nat /\ lpShares[t][a] \in Nat
      /\ pool[t] = {} \/ \E p \in Pool : pool[t] = {p}
      /\ totalShares = [totalShares EXCEPT ![t] = totalShares[t]]
  BY PoolFacts
<1>2. amount <= shares[t][a] /\ UNCHANGED <<block, auctions>> /\ totalShares' = totalShares
      /\ shares' = [shares EXCEPT ![t] = Written(shares[t], a, shares[t][a] - amount)]
  BY <1>1 DEF AddLiquidity, Written
<1> DEFINE x == shares[t][a] - amount
           n == totalShares[t]
<1>3. x \in Nat /\ n \in Nat /\ totalShares' = [totalShares EXCEPT ![t] = n] /\ shares[t][a] = x + amount
      /\ shares' = [shares EXCEPT ![t] = Written(shares[t], a, x)] /\ n <= totalShares[t]
  BY <1>1, <1>2
<1>4. CASE pool[t] = {}
  <2> DEFINE m == Isqrt(amount * value)
             y == lpShares[t][a] + m
             q == [shares |-> amount, value |-> value, lp |-> m]
  <2>1. q \in Pool /\ q.shares * q.value \in (q.lp * q.lp)..((q.lp + 1) * (q.lp + 1) - 1)
    BY FirstLiquidity DEF q
  <2>2. m \in Nat /\ q.shares = amount /\ q.lp = m
    BY <2>1 DEF Pool
  <2>3. lpShares' = [lpShares EXCEPT ![t] = Written(lpShares[t], a, y)]
    BY <1>4 DEF AddLiquidity, Written
  <2>4. pool' = [pool EXCEPT ![t] = {[shares |-> 0 + amount, value |-> 0 + value, lp |-> 0 + m]}]
    BY <1>4 DEF AddLiquidity, SetPool
  <2>5. pool' = [pool EXCEPT ![t] = {q}]
    <3>1. 0 + amount = amount /\ 0 + value = value /\ 0 + m = m
      BY <2>2
    <3> QED
      BY <2>4, <3>1, Zenon
  <2>6. InPool(pool[t]) = 0 /\ Liquidity(pool[t]) = 0
    BY <1>4, OnePool
  <2> HIDE DEF m, q, x, n
  <2>7. y \in Nat /\ q.shares + x = InPool(pool[t]) + shares[t][a] /\ q.lp + lpShares[t][a] = Liquidity(pool[t]) + y
    BY <1>1, <1>3, <2>2, <2>6
  <2>8. \A p \in pool[t] : 0 \in {p.lp, q.lp} \/ Worth(p, q)
    BY <1>4
  <2> HIDE DEF y
  <2> QED
    BY <1>2, <1>3, <2>1, <2>3, <2>5, <2>7, <2>8, PoolMessage
<1>5. CASE \E p \in Pool : pool[t] = {p}
  <2>1. PICK p \in Pool : pool[t] = {p}
    BY <1>5
  <2> DEFINE m == LpMinted(p, amount, value)
             y == lpShares[t][a] + m
             q == [shares |-> p.shares + amount, value |-> p.value + value, lp |-> p.lp + m]
  <2>2. q \in Pool /\ Worth(p, q) /\ m \in Nat
    <3> HIDE DEF q
    <3>1. q \in Pool /\ Worth(p, q)
      BY AddingDilutesNobody DEF q
    <3> QED
      BY <3>1, MintedInProportion
  <2>3. q.shares = p.shares + amount /\ q.lp = p.lp + m /\ p.shares \in Nat /\ p.lp \in Nat
    BY DEF Pool
  <2>4. (CHOOSE r \in pool[t] : TRUE) = p /\ pool[t] # {}
    BY <2>1
  <2>5. lpShares' = [lpShares EXCEPT ![t] = Written(lpShares[t], a, y)] /\ pool' = [pool EXCEPT ![t] = {q}]
    BY <2>4 DEF AddLiquidity, SetPool, Written
  <2>6. InPool(pool[t]) = p.shares /\ Liquidity(pool[t]) = p.lp
    BY <2>1, OnePool
  <2> HIDE DEF m, q, x, n
  <2>7. y \in Nat /\ q.shares + x = InPool(pool[t]) + shares[t][a] /\ q.lp + lpShares[t][a] = Liquidity(pool[t]) + y
    BY <1>1, <2>2, <1>3, <2>3, <2>6
  <2>8. \A r \in pool[t] : 0 \in {r.lp, q.lp} \/ Worth(r, q)
    BY <2>1, <2>2
  <2> HIDE DEF y
  <2> QED
    BY <1>2, <1>3, <2>2, <2>4, <2>5, <2>7, <2>8, PoolMessage
<1> QED
  BY <1>1, <1>4, <1>5

\* remove_liquidity keeps the books and dilutes nobody.
LEMMA RemoveLiquidityKeeps ==
    ASSUME FractionalInv, NEW a \in Holders, NEW t \in Tokens, NEW lp \in Nat, RemoveLiquidity(a, t, lp)
    PROVE  FractionalInv' /\ Undiluted
<1>1. /\ shares[t][a] \in Nat /\ totalShares[t] \in Nat /\ lpShares[t][a] \in Nat
      /\ pool[t] = {} \/ \E p \in Pool : pool[t] = {p}
      /\ lpShares[t][a] <= Liquidity(pool[t])
      /\ totalShares = [totalShares EXCEPT ![t] = totalShares[t]]
  BY PoolFacts
<1>2. PICK p \in pool[t] :
          /\ SetPool(t, [shares |-> p.shares - Share(lp, p.shares, p.lp), value |-> p.value - Share(lp, p.value, p.lp),
                         lp |-> p.lp - lp])
          /\ shares' = [shares EXCEPT ![t][a] = @ + Share(lp, p.shares, p.lp)]
  BY Zenon DEF RemoveLiquidity
<1>3. pool[t] = {p} /\ p \in Pool
  BY <1>1, <1>2
<1> DEFINE out == Share(lp, p.shares, p.lp)
           x == shares[t][a] + out
           y == lpShares[t][a] - lp
           n == totalShares[t]
           q == [shares |-> p.shares - out, value |-> p.value - Share(lp, p.value, p.lp), lp |-> p.lp - lp]
<1>4. lp <= lpShares[t][a] /\ UNCHANGED <<block, auctions>> /\ totalShares' = totalShares
      /\ lpShares' = [lpShares EXCEPT ![t] = Written(lpShares[t], a, y)]
      /\ shares' = [shares EXCEPT ![t] = Written(shares[t], a, x)] /\ pool' = [pool EXCEPT ![t] = {q}]
  <2>1. lp \in 1..lpShares[t][a] /\ UNCHANGED <<block, auctions>> /\ totalShares' = totalShares
        /\ lpShares' = [lpShares EXCEPT ![t][a] = @ - lp]
    BY Zenon DEF RemoveLiquidity
  <2>2. lp <= lpShares[t][a]
    BY <1>1, <2>1
  <2>3. lpShares' = [lpShares EXCEPT ![t] = Written(lpShares[t], a, y)]
    BY <2>1 DEF Written
  <2>4. shares' = [shares EXCEPT ![t] = Written(shares[t], a, x)]
    BY <1>2 DEF Written
  <2>5. pool' = [pool EXCEPT ![t] = {q}]
    BY <1>2, Zenon DEF SetPool
  <2> QED
    BY <2>1, <2>2, <2>3, <2>4, <2>5
<1>5. InPool(pool[t]) = p.shares /\ Liquidity(pool[t]) = p.lp /\ p.shares \in Nat /\ p.lp \in Nat
  BY <1>3, OnePool DEF Pool
<1>6. lp <= p.lp
  BY <1>1, <1>4, <1>5
<1>7. q \in Pool /\ Worth(p, q)
  <2> HIDE DEF q
  <2> QED
    BY <1>3, <1>6, RemovingDilutesNobody DEF q
<1>8. out \in Nat /\ out <= p.shares
  BY <1>5, <1>6, TakenInProportion
<1>9. q.shares = p.shares - out /\ q.lp = p.lp - lp
  OBVIOUS
<1>10. n \in Nat /\ n <= totalShares[t] /\ totalShares' = [totalShares EXCEPT ![t] = n]
  BY <1>1, <1>4
<1> HIDE DEF out, q, n
<1>11. x \in Nat /\ y \in Nat
       /\ q.shares + x = InPool(pool[t]) + shares[t][a] /\ q.lp + lpShares[t][a] = Liquidity(pool[t]) + y
  BY <1>1, <1>4, <1>5, <1>6, <1>8, <1>9
<1>12. \A r \in pool[t] : 0 \in {r.lp, q.lp} \/ Worth(r, q)
  BY <1>3, <1>7
<1>13. pool[t] # {}
  BY <1>3
<1> HIDE DEF x, y
<1> QED
  BY <1>4, <1>7, <1>10, <1>11, <1>12, <1>13, PoolMessage

\* swap_shares_for_value keeps the books and dilutes nobody.
LEMMA SwapKeeps ==
    ASSUME FractionalInv, NEW a \in Holders, NEW t \in Tokens, NEW amount \in Nat, SwapSharesForValue(a, t, amount)
    PROVE  FractionalInv' /\ Undiluted
<1>1. /\ shares[t][a] \in Nat /\ totalShares[t] \in Nat /\ lpShares[t][a] \in Nat
      /\ pool[t] = {} \/ \E p \in Pool : pool[t] = {p}
      /\ shares = [u \in Tokens |-> shares[u]] /\ lpShares = [u \in Tokens |-> lpShares[u]]
  BY PoolFacts
<1>2. PICK p \in pool[t] :
          /\ SwapOut(p, amount) < p.value
          /\ SetPool(t, [shares |-> p.shares + amount, value |-> p.value - SwapOut(p, amount), lp |-> p.lp])
  BY Zenon DEF SwapSharesForValue
<1>3. pool[t] = {p} /\ p \in Pool
  BY <1>1, <1>2
<1> DEFINE x == shares[t][a] - amount
           y == lpShares[t][a]
           n == Left(totalShares[t], amount)
           q == [shares |-> p.shares + amount, value |-> p.value - SwapOut(p, amount), lp |-> p.lp]
<1>4. amount <= shares[t][a] /\ UNCHANGED <<block, auctions>> /\ totalShares' = [totalShares EXCEPT ![t] = n]
      /\ shares' = [shares EXCEPT ![t] = Written(shares[t], a, x)] /\ pool' = [pool EXCEPT ![t] = {q}]
      /\ lpShares' = lpShares
  <2>1. amount \in 1..shares[t][a] /\ UNCHANGED <<block, auctions>> /\ lpShares' = lpShares
        /\ shares' = [shares EXCEPT ![t][a] = @ - amount]
        /\ totalShares' = [totalShares EXCEPT ![t] = Left(@, amount)]
    BY Zenon DEF SwapSharesForValue
  <2>2. amount <= shares[t][a]
    BY <1>1, <2>1
  <2>3. shares' = [shares EXCEPT ![t] = Written(shares[t], a, x)]
    BY <2>1 DEF Written
  <2>4. totalShares' = [totalShares EXCEPT ![t] = n]
    BY <2>1
  <2>5. pool' = [pool EXCEPT ![t] = {q}]
    BY <1>2, Zenon DEF SetPool
  <2> QED
    BY <2>1, <2>2, <2>3, <2>4, <2>5
<1>5. lpShares' = [lpShares EXCEPT ![t] = Written(lpShares[t], a, y)]
  BY <1>1, <1>4 DEF FractionalInv, TokensGood, TokenGood, Written
<1>6. InPool(pool[t]) = p.shares /\ Liquidity(pool[t]) = p.lp /\ p.shares \in Nat /\ p.lp \in Nat
  BY <1>3, OnePool DEF Pool
<1>7. q \in Pool /\ Worth(p, q)
  <2> HIDE DEF q
  <2> QED
    BY <1>2, <1>3, SwappingDilutesNobody DEF q
<1>8. n \in Nat /\ n <= totalShares[t]
  BY <1>1 DEF Left
<1>9. q.shares = p.shares + amount /\ q.lp = p.lp
  OBVIOUS
<1> HIDE DEF q, n
<1>10. x \in Nat /\ y \in Nat
       /\ q.shares + x = InPool(pool[t]) + shares[t][a] /\ q.lp + lpShares[t][a] = Liquidity(pool[t]) + y
  BY <1>1, <1>4, <1>6, <1>9
<1>11. \A r \in pool[t] : 0 \in {r.lp, q.lp} \/ Worth(r, q)
  BY <1>3, <1>7
<1>12. pool[t] # {}
  BY <1>3
<1> HIDE DEF x, y
<1> QED
  BY <1>4, <1>5, <1>7, <1>8, <1>10, <1>11, <1>12, PoolMessage

----
\* Dutch auctions

\* The price of an auction falls from its start to its end, and never lower than the less of
\* the two (calculate_dutch_price).
LEMMA DutchPriceBounds ==
    ASSUME NEW d \in Auction, block \in Nat, d.from <= block
    PROVE  DutchPrice(d) \in Nat /\ DutchPrice(d) >= LessOf(d.start, d.end)
<1> DEFINE s == d.start
           e == d.end
           k == d.duration
           elapsed == block - d.from
           fall == Left(s, e)
           x == (fall * elapsed) \div k
<1>1. s \in Nat /\ e \in Nat /\ k \in Nat \ {0} /\ elapsed \in Nat
  BY DEF Auction
<1>2. DutchPrice(d) = IF elapsed >= k THEN e ELSE s - x
  BY DEF DutchPrice
<1>3. LessOf(s, e) = IF s < e THEN s ELSE e
  BY DEF LessOf
<1>4. fall = IF s > e THEN s - e ELSE 0
  BY DEF Left
<1>5. ASSUME elapsed < k
      PROVE  x \in Nat /\ x <= fall
  <2> HIDE DEF s, e, k, elapsed, fall
  <2>1. fall \in Nat
    BY <1>1, <1>4
  <2>2. fall * elapsed \in Nat /\ fall * k \in Nat /\ fall * elapsed <= fall * k
    BY <1>1, <1>5, <2>1, Products
  <2> DEFINE n == fall * elapsed
  <2>3. x \in Nat /\ k * x <= n
    BY <1>1, <2>2, RoundedDown DEF n
  <2> HIDE DEF x
  <2>4. k * x \in Nat /\ fall * k = k * fall
    BY <1>1, <2>1, <2>3, Products
  <2>5. k * x <= k * fall
    BY <2>2, <2>3, <2>4 DEF n
  <2> QED
    BY <1>1, <2>1, <2>3, <2>5, Products
<1> HIDE DEF s, e, k, elapsed, fall, x
<1>6. DutchPrice(d) \in Nat /\ DutchPrice(d) >= LessOf(s, e)
  <2>1. CASE elapsed >= k
    BY <1>1, <1>2, <1>3, <2>1
  <2>2. CASE elapsed < k
    BY <1>1, <1>2, <1>5, <2>2, <1>3, <1>4
  <2> QED
    BY <1>1, <2>1, <2>2
<1> QED
  BY <1>6 DEF s, e

\* One auction is written, as it is bid on or cancelled.
LEMMA AuctionWritten ==
    ASSUME AuctionsGood, UNCHANGED block, NEW n \in DOMAIN auctions, NEW d \in Auction,
           auctions' = Written(auctions, n, d), d.from = auctions[n].from, PaidEnough(d)
    PROVE  AuctionsGood'
<1>1. /\ auctions \in Seq(Auction) /\ n \in 1..Len(auctions)
      /\ \A m \in 1..Len(auctions) : auctions[m].from <= block /\ PaidEnough(auctions[m])
  BY DEF AuctionsGood
<1>2. /\ auctions' \in Seq(Auction) /\ Len(auctions') = Len(auctions)
      /\ \A m \in 1..Len(auctions) : auctions'[m] = IF m = n THEN d ELSE auctions[m]
  <2> DEFINE s == auctions
             g == [s EXCEPT ![n] = d]
  <2>1. s \in Seq(Auction) /\ n \in 1..Len(s)
    BY <1>1
  <2>2. g \in Seq(Auction) /\ Len(g) = Len(s) /\ \A m \in 1..Len(s) : g[m] = IF m = n THEN d ELSE s[m]
    BY <2>1, ExceptSeq
  <2>3. auctions' = g
    BY DEF Written
  <2> QED
    BY <2>2, <2>3, Zenon
<1>3. DOMAIN auctions' = 1..Len(auctions)
  BY <1>2
<1>4. \A m \in 1..Len(auctions) : auctions'[m].from <= block' /\ PaidEnough(auctions'[m])
  BY <1>1, <1>2
<1> QED
  BY <1>2, <1>3, <1>4 DEF AuctionsGood, PaidEnough

\* bid_dutch_auction keeps the books: it pays the price of the block.
LEMMA BidKeeps ==
    ASSUME FractionalInv, NEW a \in Holders, NEW n \in DOMAIN auctions, BidDutchAuction(a, n)
    PROVE  FractionalInv' /\ Undiluted
<1>1. auctions \in Seq(Auction) /\ n \in 1..Len(auctions) /\ auctions[n].from <= block /\ block \in Nat
  BY DEF FractionalInv, AuctionsGood
<1> DEFINE o == auctions[n]
           d == [o EXCEPT !.status = "Bid", !.paid = DutchPrice(o) * o.shares]
<1>2. o \in Auction
  BY <1>1, ElementOfSeq, Zenon
<1>3. DutchPrice(o) \in Nat /\ DutchPrice(o) >= LessOf(o.start, o.end)
  BY <1>1, <1>2, DutchPriceBounds DEF o
<1>4. o.shares \in Nat /\ o.start \in Nat /\ o.end \in Nat /\ o.token \in Tokens /\ o.seller \in Holders
  BY <1>2 DEF Auction
<1>5. DutchPrice(o) * o.shares \in Nat
  BY <1>3, <1>4, Products
<1>6. d \in Auction /\ d.from = o.from /\ d.paid = DutchPrice(o) * o.shares
      /\ d.shares = o.shares /\ d.start = o.start /\ d.end = o.end
  BY <1>2, <1>5 DEF Auction
<1>7. PaidEnough(d)
  <2> DEFINE k == DutchPrice(o)
             s == o.shares
             low == LessOf(o.start, o.end)
  <2>1. k \in Nat /\ s \in Nat /\ low \in Nat /\ low <= k
    BY <1>3, <1>4 DEF LessOf
  <2> HIDE DEF k, s, low
  <2>2. s * low <= s * k /\ s * k = k * s
    BY <2>1, Products
  <2>3. k * s >= s * low
    BY <2>2
  <2> QED
    BY <1>6, <2>3 DEF PaidEnough, k, s, low
<1>8. auctions' = Written(auctions, n, d)
  BY DEF BidDutchAuction, Written
<1>9. /\ shares' = [shares EXCEPT ![o.token] = Transferred(shares[o.token], o.seller, a, o.shares)]
      /\ UNCHANGED <<totalShares, pool, lpShares, block>>
  BY DEF BidDutchAuction
<1>10. TokensGood(shares, totalShares, pool, lpShares)'
  <2> HIDE DEF o
  <2> QED
    BY <1>4, <1>9, SaleKeeps
<1> HIDE DEF d
<1>11. AuctionsGood'
  BY <1>6, <1>7, <1>8, <1>9, AuctionWritten DEF FractionalInv
<1>12. FractionalInv'
  BY <1>1, <1>9, <1>10, <1>11 DEF FractionalInv
<1> QED
  BY <1>9, <1>12, UntouchedPools

\* cancel_dutch_auction keeps the books.
LEMMA CancelAuctionKeeps ==
    ASSUME FractionalInv, NEW a \in Holders, NEW n \in DOMAIN auctions, CancelDutchAuction(a, n)
    PROVE  FractionalInv' /\ Undiluted
<1>1. auctions \in Seq(Auction) /\ n \in 1..Len(auctions)
  BY DEF FractionalInv, AuctionsGood
<1> DEFINE o == auctions[n]
           d == [o EXCEPT !.status = "Cancelled"]
<1>2. o \in Auction
  BY <1>1, ElementOfSeq, Zenon
<1>3. d \in Auction /\ d.from = o.from /\ PaidEnough(d)
  BY <1>2 DEF Auction, PaidEnough
<1>4. auctions' = Written(auctions, n, d) /\ UNCHANGED <<shares, totalShares, pool, lpShares, block>>
  BY DEF CancelDutchAuction, Written
<1> HIDE DEF d
<1>5. AuctionsGood'
  BY <1>3, <1>4, AuctionWritten DEF FractionalInv
<1>6. FractionalInv'
  BY <1>4, <1>5 DEF FractionalInv
<1> QED
  BY <1>4, <1>6, UntouchedPools

\* create_dutch_auction keeps the books.
LEMMA CreateAuctionKeeps ==
    ASSUME FractionalInv, NEW a \in Holders, NEW t \in Tokens, NEW amount \in AmountArgs, NEW start \in AmountArgs,
           NEW end \in AmountArgs, NEW duration \in DurationArgs, CreateDutchAuction(a, t, amount, start, end, duration)
    PROVE  FractionalInv' /\ Undiluted
<1> DEFINE d == [seller |-> a, token |-> t, shares |-> amount, start |-> start, end |-> end,
                 from |-> block, duration |-> duration, paid |-> 0, status |-> "Open"]
<1>1. auctions \in Seq(Auction) /\ block \in Nat /\ shares[t][a] \in Nat
  BY PoolFacts DEF FractionalInv, AuctionsGood
<1>2. d \in Auction /\ d.from = block /\ PaidEnough(d)
  BY <1>1, ShareFacts DEF CreateDutchAuction, Auction, PaidEnough
<1>3. auctions' = Append(auctions, d) /\ UNCHANGED <<shares, totalShares, pool, lpShares, block>>
  BY Zenon DEF CreateDutchAuction
<1> HIDE DEF d
<1>4. /\ auctions' \in Seq(Auction) /\ Len(auctions') = Len(auctions) + 1 /\ auctions'[Len(auctions) + 1] = d
      /\ \A m \in 1..Len(auctions) : auctions'[m] = auctions[m]
  BY <1>1, <1>2, <1>3, SeqAppended
<1>5. AuctionsGood'
  <2>1. \A m \in 1..Len(auctions) : auctions[m].from <= block /\ PaidEnough(auctions[m])
    BY DEF FractionalInv, AuctionsGood
  <2>2. Len(auctions) \in Nat
    BY <1>1, LenProperties
  <2>3. \A m \in 1..(Len(auctions) + 1) : auctions'[m].from <= block' /\ PaidEnough(auctions'[m])
    <3> SUFFICES ASSUME NEW m \in 1..(Len(auctions) + 1)
                 PROVE  auctions'[m].from <= block' /\ PaidEnough(auctions'[m])
      OBVIOUS
    <3>1. CASE m = Len(auctions) + 1
      BY <1>1, <1>2, <1>3, <1>4, <3>1
    <3>2. CASE m # Len(auctions) + 1
      BY <2>2, <3>2, <1>3, <1>4, <2>1
    <3> QED
      BY <3>1, <3>2
  <2>4. DOMAIN auctions' = 1..(Len(auctions) + 1)
    BY <1>4
  <2> QED
    BY <1>4, <2>3, <2>4 DEF AuctionsGood, PaidEnough
<1>6. FractionalInv'
  BY <1>3, <1>5 DEF FractionalInv
<1> QED
  BY <1>3, <1>6, UntouchedPools

----
\* Every message of Fractional

\* The contract begins with empty books.
LEMMA FractionalBegins ==
    ASSUME ChainInit, FractionalInit
    PROVE  FractionalInv
<1> DEFINE none == [a \in Holders |-> 0]
<1>1. \A a \in Holders : none[a] = 0
  OBVIOUS
<1>2. none \in [Holders -> Nat]
  OBVIOUS
<1>3. SumFunctionOnSet(none, Holders) = 0
  BY <1>1, ShareFacts, SumZero
<1>4. TokenGood(none, 0, {}, none)
  BY <1>2, <1>3, OnePool DEF TokenGood
<1>5. TokensGood(shares, totalShares, pool, lpShares)
  BY <1>4 DEF FractionalInit, TokensGood
<1>6. AuctionsGood
  BY DEF FractionalInit, AuctionsGood
<1> QED
  BY <1>5, <1>6 DEF FractionalInv, ChainInit

\* Time passes: auctions have begun in the past.
LEMMA BlockKeepsAuctions ==
    ASSUME FractionalInv, block' = block + 1, UNCHANGED <<shares, totalShares, pool, lpShares, auctions>>
    PROVE  FractionalInv' /\ Undiluted
<1>1. AuctionsGood'
  <2>1. \A n \in DOMAIN auctions : auctions[n].from \in Nat
    <3> SUFFICES ASSUME NEW n \in DOMAIN auctions
                 PROVE  auctions[n].from \in Nat
      OBVIOUS
    <3>1. auctions \in Seq(Auction) /\ n \in 1..Len(auctions)
      BY DEF FractionalInv, AuctionsGood
    <3>2. auctions[n] \in Auction
      BY <3>1, ElementOfSeq, Zenon
    <3> QED
      BY <3>2 DEF Auction
  <2> QED
    BY <2>1 DEF FractionalInv, AuctionsGood
<1>2. FractionalInv'
  BY <1>1 DEF FractionalInv
<1> QED
  BY <1>2, UntouchedPools

\* Every message keeps the books and dilutes nobody's liquidity.
LEMMA FractionalStepKeeps ==
    ASSUME FractionalInv, FractionalNext
    PROVE  FractionalInv' /\ Undiluted
<1>1. CASE ShareNext
  <2>1. PICK a \in Holders, t \in Tokens, amount \in AmountArgs :
            \/ SetLastPrice(t, amount)
            \/ MintShares(a, t, amount)
            \/ \E price \in AmountArgs : ListShares(a, t, amount, price)
            \/ CancelOffer(a, t)
            \/ \E b \in Holders : BuyShares(a, b, t, amount)
            \/ RedeemShares(a, t, amount)
    BY <1>1 DEF ShareNext
  <2>2. amount \in Nat
    BY ShareFacts
  <2>3. CASE SetLastPrice(t, amount)
    BY <2>3, BooksFrame DEF SetLastPrice
  <2>4. CASE MintShares(a, t, amount)
    BY <2>2, <2>4, MintSharesKeeps
  <2>5. CASE \E price \in AmountArgs : ListShares(a, t, amount, price)
    BY <2>5, BooksFrame DEF ListShares
  <2>6. CASE CancelOffer(a, t)
    BY <2>6, BooksFrame DEF CancelOffer
  <2>7. CASE \E b \in Holders : BuyShares(a, b, t, amount)
    BY <2>2, <2>7, BuySharesKeeps
  <2>8. CASE RedeemShares(a, t, amount)
    BY <2>2, <2>8, RedeemSharesKeeps
  <2> QED
    BY <2>1, <2>3, <2>4, <2>5, <2>6, <2>7, <2>8
<1>2. CASE PoolNext
  <2>1. PICK a \in Holders, t \in Tokens, amount \in AmountArgs :
            \/ \E value \in AmountArgs : AddLiquidity(a, t, amount, value)
            \/ SwapSharesForValue(a, t, amount)
            \/ \E lp \in 1..lpShares[t][a] : RemoveLiquidity(a, t, lp)
    BY <1>2 DEF PoolNext
  <2>2. amount \in Nat /\ \A value \in AmountArgs : value \in Nat
    BY ShareFacts
  <2>3. CASE \E value \in AmountArgs : AddLiquidity(a, t, amount, value)
    BY <2>2, <2>3, AddLiquidityKeeps
  <2>4. CASE SwapSharesForValue(a, t, amount)
    BY <2>2, <2>4, SwapKeeps
  <2>5. CASE \E lp \in 1..lpShares[t][a] : RemoveLiquidity(a, t, lp)
    BY <2>5, PoolFacts, RemoveLiquidityKeeps
  <2> QED
    BY <2>1, <2>3, <2>4, <2>5
<1>3. CASE AuctionNext
  BY <1>3, CreateAuctionKeeps, BidKeeps, CancelAuctionKeeps DEF AuctionNext
<1>4. CASE FractionalRotationNext
  BY <1>4, BooksFrame DEF FractionalRotationNext, FractionalKey!RotationNext, FractionalKey!RequestAdminRotation,
     FractionalKey!ConfirmAdminRotation, FractionalKey!CancelAdminRotation
<1>5. CASE NextBlock /\ UNCHANGED <<fractionalAdminVars, lastPrice, shares, totalShares, shareOffers, pool, lpShares, auctions>>
  BY <1>5, BlockKeepsAuctions DEF NextBlock
<1> QED
  BY <1>1, <1>2, <1>3, <1>4, <1>5 DEF FractionalNext

\* Whatever is added, removed and swapped, in whatever amounts and by whomever, what one share of
\* liquidity is worth never falls, and the first liquidity is the integer root of what it puts in
\* (add_liquidity, remove_liquidity, swap_shares_for_value, isqrt).
THEOREM LiquidityIsNotDiluted == FractionalSpec => LiquidityNotDiluted
<1>1. ChainInit /\ FractionalInit => FractionalInv
  BY FractionalBegins
<1>2. FractionalInv /\ [FractionalNext]_fractionalVars => FractionalInv' /\ [Undiluted]_pool
  <2> SUFFICES ASSUME FractionalInv, [FractionalNext]_fractionalVars
               PROVE  FractionalInv' /\ [Undiluted]_pool
    OBVIOUS
  <2>1. CASE FractionalNext
    BY <2>1, FractionalStepKeeps
  <2>2. CASE UNCHANGED fractionalVars
    BY <2>2, BooksFrame DEF fractionalVars
  <2> QED
    BY <2>1, <2>2
<1> QED
  BY <1>1, <1>2, PTL DEF FractionalSpec, LiquidityNotDiluted, Undiluted, Worth

----
(***************************************************************************)
(* Crowdfunding: what a campaign raised, counted and released, and what    *)
(* its investors were told they get back.                                  *)
(***************************************************************************)

Backers(held) == {a \in Investors : held[a] > 0}

CampaignGood(campaign, held) ==
    /\ campaign.raised = SumFunctionOnSet(held, Investors)
    /\ campaign.status = "Funded" => campaign.raised >= campaign.target
    /\ campaign.investors >= Cardinality(Backers(held))

FundsInv ==
    /\ campaigns \in Seq(Campaign) /\ Len(campaigns) <= MaxCampaigns
    /\ investments \in [campaignIds -> [Investors -> Nat]]
    /\ \A c \in DOMAIN campaigns : CampaignGood(campaigns[c], investments[c])
    /\ \A c \in campaignIds \ DOMAIN campaigns : \A a \in Investors : investments[c][a] = 0

Released(list, c) == {m \in DOMAIN list : list[m].campaign = c /\ list[m].status = "Released"}
Capital(list, c) == SumFunctionOnSet([m \in Released(list, c) |-> list[m].amount], Released(list, c))

MilestonesInv ==
    /\ milestones \in Seq(Milestone)
    /\ releases \in [campaignIds -> [count : Nat, capital : Nat]]
    /\ \A c \in campaignIds : /\ releases[c].count >= Cardinality(Released(milestones, c))
                             /\ releases[c].capital >= Capital(milestones, c)

RefundsInv ==
    /\ investments \in [campaignIds -> [Investors -> Nat]] /\ paidOut \in [campaignIds -> [Investors -> Nat]]
    /\ \A c \in campaignIds, a \in Investors :
          paidOut[c][a] <= investments[c][a] /\ (<<c, a>> \notin refunded => paidOut[c][a] = 0)

CampaignInv == FundsInv /\ MilestonesInv /\ RefundsInv

\* A campaign's number is one of the numbers.
LEMMA CampaignNumbers ==
    ASSUME FundsInv
    PROVE  DOMAIN campaigns \subseteq campaignIds /\ Len(campaigns) \in Nat /\ DOMAIN campaigns = 1..Len(campaigns)
  BY CrowdfundingConstants DEF FundsInv, campaignIds

\* One account's investment grows: the sum by as much, the backers by one at most (invest).
LEMMA InvestmentCounted ==
    ASSUME NEW held \in [Investors -> Nat], NEW a \in Investors, NEW x \in Nat
    PROVE  /\ Written(held, a, held[a] + x) \in [Investors -> Nat]
           /\ SumFunctionOnSet(Written(held, a, held[a] + x), Investors) = SumFunctionOnSet(held, Investors) + x
           /\ SumFunctionOnSet(held, Investors) \in Nat
           /\ Cardinality(Backers(held)) \in Nat
           /\ Cardinality(Backers(Written(held, a, held[a] + x))) <=
                  Cardinality(Backers(held)) + (IF held[a] = 0 THEN 1 ELSE 0)
<1> DEFINE g == Written(held, a, held[a] + x)
<1>1. g \in [Investors -> Nat] /\ g[a] = held[a] + x /\ \A b \in Investors \ {a} : held[b] = g[b]
  BY DEF Written
<1>2. \A b \in Investors : held[b] \in Int /\ g[b] \in Int
  BY <1>1
<1>3. \A b \in Investors : held[b] \in Nat
  OBVIOUS
<1> HIDE DEF g
<1>4. SumFunctionOnSet(g, Investors) = SumFunctionOnSet(held, Investors) - held[a] + g[a]
  BY <1>1, <1>2, ShareFacts, SumChange
<1>5. SumFunctionOnSet(held, Investors) \in Nat
  BY <1>3, ShareFacts, SumNatural
<1>6. SumFunctionOnSet(g, Investors) = SumFunctionOnSet(held, Investors) + x
  BY <1>1, <1>4, <1>5
<1>7. Backers(held) \subseteq Investors /\ Backers(g) \subseteq Backers(held) \cup {a}
  BY <1>1 DEF Backers
<1>8. IsFiniteSet(Backers(held))
  BY <1>7, ShareFacts, FS_Subset
<1>9. Cardinality(Backers(held)) \in Nat
  BY <1>8, FS_CardinalityType
<1>10. Cardinality(Backers(g)) <= Cardinality(Backers(held)) + (IF held[a] = 0 THEN 1 ELSE 0)
  <2>1. CASE held[a] = 0
    <3>1. a \notin Backers(held)
      BY <2>1 DEF Backers
    <3>2. IsFiniteSet(Backers(held) \cup {a}) /\ Cardinality(Backers(held) \cup {a}) = Cardinality(Backers(held)) + 1
      BY <1>8, <3>1, FS_AddElement
    <3>3. Cardinality(Backers(g)) <= Cardinality(Backers(held) \cup {a})
      BY <1>7, <3>2, FS_Subset
    <3> QED
      BY <2>1, <3>2, <3>3
  <2>2. CASE held[a] # 0
    BY <2>2, <1>7, <1>8, FS_Subset, <1>9 DEF Backers
  <2> QED
    BY <2>1, <2>2
<1> QED
  BY <1>1, <1>5, <1>6, <1>9, <1>10 DEF g

\* What has not been released any more, or never was, is not counted (approve_milestone,
\* add_milestone, oracle_verify_milestone).
LEMMA ReleasedFewer ==
    ASSUME NEW old \in Seq(Milestone), NEW new, NEW c, Released(new, c) \subseteq Released(old, c),
           \A m \in Released(new, c) : new[m].amount = old[m].amount
    PROVE  /\ Cardinality(Released(old, c)) \in Nat /\ Cardinality(Released(new, c)) \in Nat
           /\ Cardinality(Released(new, c)) <= Cardinality(Released(old, c))
           /\ Capital(old, c) \in Nat /\ Capital(new, c) \in Nat /\ Capital(new, c) <= Capital(old, c)
<1> DEFINE R == Released(old, c)
           T == Released(new, c)
           f == [m \in R |-> old[m].amount]
           g == [m \in T |-> new[m].amount]
<1>1. IsFiniteSet(R)
  BY FS_Interval, FS_Subset DEF Released
<1>2. \A m \in R : f[m] \in Nat
  <2>1. \A m \in DOMAIN old : old[m] \in Milestone
    OBVIOUS
  <2> QED
    BY <2>1 DEF Released, Milestone
<1>3. T \subseteq R /\ \A m \in T : g[m] = f[m]
  OBVIOUS
<1>4. Capital(old, c) = SumFunctionOnSet(f, R) /\ Capital(new, c) = SumFunctionOnSet(g, T)
  BY DEF Capital
<1> HIDE DEF R, T, f, g
<1>5. IsFiniteSet(T) /\ Cardinality(T) <= Cardinality(R)
  BY <1>1, <1>3, FS_Subset
<1>6. Cardinality(T) \in Nat /\ Cardinality(R) \in Nat
  BY <1>1, <1>5, FS_CardinalityType
<1>7. SumFunctionOnSet(f, T) \in Nat /\ SumFunctionOnSet(f, R) \in Nat /\ SumFunctionOnSet(f, T) <= SumFunctionOnSet(f, R)
  BY <1>1, <1>2, <1>3, SumSubset
<1>8. SumFunctionOnSet(g, T) = SumFunctionOnSet(f, T)
  BY <1>3, <1>5, SumSame
<1> QED
  BY <1>4, <1>5, <1>6, <1>7, <1>8 DEF R, T

\* Of the milestones of one campaign one more is released.
OneMore(old, new, c, n) ==
    /\ n \notin Released(old, c) /\ Released(new, c) = Released(old, c) \cup {n}
    /\ \A m \in Released(old, c) : new[m].amount = old[m].amount

\* A milestone that is released counts once more (release_milestone).
LEMMA ReleasedOneMore ==
    ASSUME NEW old \in Seq(Milestone), NEW new, NEW c, NEW n, OneMore(old, new, c, n),
           NEW x \in Nat, new[n].amount = x
    PROVE  /\ Cardinality(Released(old, c)) \in Nat
           /\ Cardinality(Released(new, c)) = Cardinality(Released(old, c)) + 1
           /\ Capital(old, c) \in Nat /\ Capital(new, c) = Capital(old, c) + x
<1> DEFINE R == Released(old, c)
           T == Released(new, c)
           f == [m \in R |-> old[m].amount]
           g == [m \in T |-> new[m].amount]
<1>1. /\ Cardinality(R) \in Nat /\ Capital(old, c) \in Nat
  BY ReleasedFewer
<1>2. IsFiniteSet(R)
  BY FS_Interval, FS_Subset DEF Released
<1>3. \A m \in R : f[m] \in Int
  <2>1. \A m \in DOMAIN old : old[m] \in Milestone
    OBVIOUS
  <2> QED
    BY <2>1 DEF Released, Milestone
<1>4. T = R \cup {n} /\ n \notin R /\ \A m \in R : g[m] = f[m]
  BY DEF OneMore
<1>5. g[n] = x
  BY <1>4
<1>6. Capital(old, c) = SumFunctionOnSet(f, R) /\ Capital(new, c) = SumFunctionOnSet(g, T)
  BY DEF Capital
<1> HIDE DEF R, T, f, g
<1>7. Cardinality(T) = Cardinality(R) + 1
  BY <1>2, <1>4, FS_AddElement
<1>8. SumFunctionOnSet(g, R) = SumFunctionOnSet(f, R)
  BY <1>2, <1>4, SumSame
<1>9. \A m \in R \cup {n} : g[m] \in Int
  BY <1>3, <1>4, <1>5
<1>10. SumFunctionOnSet(g, R \cup {n}) = SumFunctionOnSet(g, R) + g[n]
  BY <1>2, <1>4, <1>9, SumAdd
<1> QED
  BY <1>1, <1>4, <1>5, <1>6, <1>7, <1>8, <1>10 DEF R, T

\* Messages that touch neither campaigns nor investments, neither milestones nor releases,
\* nothing about refunds.
LEMMA CampaignFrames ==
    /\ FundsInv /\ UNCHANGED <<campaigns, investments>> => FundsInv'
    /\ MilestonesInv /\ UNCHANGED <<milestones, releases>> => MilestonesInv'
    /\ RefundsInv /\ UNCHANGED <<investments, paidOut, refunded>> => RefundsInv'
  BY DEF FundsInv, MilestonesInv, RefundsInv

\* A campaign and the investments in it are written.
LEMMA CampaignWritten ==
    ASSUME FundsInv, NEW c \in DOMAIN campaigns, NEW d \in Campaign, NEW held \in [Investors -> Nat],
           campaigns' = Written(campaigns, c, d), investments' = Written(investments, c, held), CampaignGood(d, held)
    PROVE  FundsInv'
<1>1. campaigns \in Seq(Campaign) /\ Len(campaigns) <= MaxCampaigns
  BY DEF FundsInv
<1>2. /\ campaigns' \in Seq(Campaign) /\ DOMAIN campaigns' = DOMAIN campaigns /\ Len(campaigns') = Len(campaigns)
      /\ campaigns'[c] = d /\ \A m \in DOMAIN campaigns \ {c} : campaigns'[m] = campaigns[m]
  BY <1>1, SeqWritten
<1>3. c \in campaignIds
  BY CampaignNumbers
<1>4. /\ investments' \in [campaignIds -> [Investors -> Nat]] /\ investments'[c] = held
      /\ \A m \in campaignIds \ {c} : investments'[m] = investments[m]
  BY <1>3 DEF FundsInv, Written
<1>5. \A m \in DOMAIN campaigns' : CampaignGood(campaigns'[m], investments'[m])
  <2> SUFFICES ASSUME NEW m \in DOMAIN campaigns
               PROVE  CampaignGood(campaigns'[m], investments'[m])
    BY <1>2
  <2>1. CASE m = c
    BY <1>2, <1>4, <2>1
  <2>2. CASE m # c
    BY CampaignNumbers, <1>2, <1>4, <2>2 DEF FundsInv
  <2> QED
    BY <2>1, <2>2
<1>6. \A m \in campaignIds \ DOMAIN campaigns' : \A a \in Investors : investments'[m][a] = 0
  <2> SUFFICES ASSUME NEW m \in campaignIds, m \notin DOMAIN campaigns
               PROVE  investments'[m] = investments[m] /\ \A a \in Investors : investments[m][a] = 0
    BY <1>2
  <2> QED
    BY <1>4 DEF FundsInv
<1> QED
  BY <1>1, <1>2, <1>4, <1>5, <1>6 DEF FundsInv, CampaignGood, Backers

\* The same if only the campaign is, as its status.
LEMMA StatusWritten ==
    ASSUME FundsInv, NEW c \in DOMAIN campaigns, NEW status \in {"Active", "Cancelled"},
           campaigns' = [campaigns EXCEPT ![c].status = status], UNCHANGED investments
    PROVE  FundsInv'
<1> DEFINE d == [campaigns[c] EXCEPT !.status = status]
           held == investments[c]
<1>1. c \in campaignIds /\ campaigns[c] \in Campaign /\ CampaignGood(campaigns[c], held) /\ held \in [Investors -> Nat]
  BY CampaignNumbers DEF FundsInv
<1>2. d \in Campaign /\ CampaignGood(d, held)
  BY <1>1 DEF Campaign, CampaignGood
<1>3. campaigns' = Written(campaigns, c, d) /\ investments' = Written(investments, c, held)
  BY <1>1 DEF Written, FundsInv
<1> HIDE DEF d, held
<1> QED
  BY <1>1, <1>2, <1>3, CampaignWritten

\* create_campaign begins with nothing raised, whoever invests.
LEMMA CreateCampaignKeeps ==
    ASSUME FundsInv, NEW a \in Investors, NEW target \in PaymentArgs, CreateCampaign(a, target)
    PROVE  FundsInv'
<1> DEFINE d == [creator |-> a, target |-> target, raised |-> 0, investors |-> 0, status |-> "Draft"]
           n == Len(campaigns) + 1
<1>1. campaigns \in Seq(Campaign) /\ Len(campaigns) < MaxCampaigns
      /\ campaigns' = Append(campaigns, d) /\ investments' = investments
  BY DEF FundsInv, CreateCampaign
<1>2. d \in Campaign
  BY ShareFacts DEF Campaign
<1>3. /\ campaigns' \in Seq(Campaign) /\ Len(campaigns') = n /\ Len(campaigns) \in Nat
      /\ DOMAIN campaigns = 1..Len(campaigns) /\ DOMAIN campaigns' = DOMAIN campaigns \cup {n} /\ n \notin DOMAIN campaigns
      /\ campaigns'[n] = d /\ \A m \in DOMAIN campaigns : campaigns'[m] = campaigns[m]
  <2> HIDE DEF d
  <2> QED
    BY <1>1, <1>2, SeqAppended
<1>4. n \in campaignIds /\ Len(campaigns') <= MaxCampaigns
  BY <1>1, <1>3, CrowdfundingConstants DEF campaignIds
<1>5. CampaignGood(d, investments[n])
  <2> DEFINE held == investments[n]
  <2>1. \A b \in Investors : held[b] = 0
    BY <1>3, <1>4 DEF FundsInv
  <2> HIDE DEF held
  <2>2. SumFunctionOnSet(held, Investors) = 0 /\ Backers(held) = {}
    BY <2>1, ShareFacts, SumZero DEF Backers
  <2> QED
    BY <2>2, FS_EmptySet DEF CampaignGood, held
<1>6. \A c \in DOMAIN campaigns' : CampaignGood(campaigns'[c], investments[c])
  BY <1>3, <1>5 DEF FundsInv
<1>7. /\ investments \in [campaignIds -> [Investors -> Nat]]
      /\ \A c \in campaignIds \ DOMAIN campaigns' : \A b \in Investors : investments[c][b] = 0
  BY <1>3 DEF FundsInv
<1> QED
  BY <1>1, <1>3, <1>4, <1>6, <1>7 DEF FundsInv, CampaignGood, Backers

\* invest adds to the investment what it adds to the sum, and finds the target reached.
LEMMA InvestKeeps ==
    ASSUME FundsInv, NEW a \in Investors, NEW c \in campaignIds, NEW amount \in Nat, Invest(a, c, amount)
    PROVE  FundsInv'
<1> DEFINE o == campaigns[c]
           held == investments[c]
           raised == o.raised + amount
           counted == o.investors + (IF held[a] = 0 THEN 1 ELSE 0)
           status == IF raised >= o.target THEN "Funded" ELSE o.status
           d == [o EXCEPT !.raised = raised, !.investors = counted, !.status = status]
           more == Written(held, a, held[a] + amount)
<1>1. c \in DOMAIN campaigns
  BY DEF Invest
<1>2. o \in Campaign /\ CampaignGood(o, held) /\ held \in [Investors -> Nat] /\ o.status = "Active"
  BY <1>1 DEF FundsInv, Invest
<1>3. o.raised \in Nat /\ o.target \in Nat /\ o.investors \in Nat /\ o.creator \in Investors
  BY <1>2 DEF Campaign
<1>4. /\ more \in [Investors -> Nat]
      /\ SumFunctionOnSet(more, Investors) = SumFunctionOnSet(held, Investors) + amount
      /\ SumFunctionOnSet(held, Investors) \in Nat
      /\ Cardinality(Backers(held)) \in Nat
      /\ Cardinality(Backers(more)) <= Cardinality(Backers(held)) + (IF held[a] = 0 THEN 1 ELSE 0)
  BY <1>2, InvestmentCounted
<1>5. d \in Campaign /\ d.raised = raised /\ d.target = o.target /\ d.investors = counted /\ d.status = status
  <2>1. raised \in Nat /\ counted \in Nat /\ status \in {"Active", "Funded"}
    BY <1>2, <1>3
  <2> HIDE DEF o, raised, counted, status
  <2> QED
    BY <1>2, <2>1 DEF Campaign
<1>6. campaigns' = Written(campaigns, c, d)
  BY DEF Invest, Written
<1>7. investments' = Written(investments, c, more)
  BY DEF Invest, Written
<1>8. CampaignGood(d, more)
  <2>1. d.raised = raised /\ d.target = o.target /\ d.investors = counted /\ d.status = status
    BY <1>5
  <2>2. o.raised = SumFunctionOnSet(held, Investors) /\ o.investors >= Cardinality(Backers(held))
    BY <1>2 DEF CampaignGood
  <2> HIDE DEF more, d, held
  <2>3. d.raised = SumFunctionOnSet(more, Investors)
    BY <1>4, <2>1, <2>2
  <2>4. d.status = "Funded" => d.raised >= d.target
    BY <1>2, <2>1
  <2>5. d.investors >= Cardinality(Backers(more))
    <3>1. IsFiniteSet(Backers(more))
      BY ShareFacts, FS_Subset DEF Backers
    <3>2. Cardinality(Backers(more)) \in Nat
      BY <3>1, FS_CardinalityType
    <3> QED
      BY <1>3, <1>4, <2>1, <2>2, <3>2
  <2> QED
    BY <2>3, <2>4, <2>5 DEF CampaignGood
<1> HIDE DEF d, more
<1> QED
  BY <1>1, <1>4, <1>5, <1>6, <1>7, <1>8, CampaignWritten

\* invest adds to what can be paid out, claim_refund pays out once.
LEMMA RefundsKept ==
    ASSUME RefundsInv, NEW a \in Investors, NEW c \in campaignIds
    PROVE  /\ \A amount \in Nat : Invest(a, c, amount) /\ UNCHANGED paidOut => RefundsInv'
           /\ ClaimRefund(a, c) /\ paidOut' = [paidOut EXCEPT ![c][a] = @ + investments[c][a]] => RefundsInv'
<1>1. ASSUME NEW amount \in Nat, Invest(a, c, amount), UNCHANGED paidOut
      PROVE  RefundsInv'
  <2>1. refunded' = refunded /\ investments' = [investments EXCEPT ![c][a] = investments[c][a] + amount]
    BY <1>1 DEF Invest
  <2>2. investments' \in [campaignIds -> [Investors -> Nat]]
    BY <2>1 DEF RefundsInv
  <2>3. ASSUME NEW k \in campaignIds, NEW b \in Investors
        PROVE  investments'[k][b] >= investments[k][b]
    BY <2>1 DEF RefundsInv
  <2>4. ASSUME NEW k \in campaignIds, NEW b \in Investors
        PROVE  paidOut[k][b] <= investments'[k][b] /\ (<<k, b>> \notin refunded => paidOut[k][b] = 0)
    BY <2>2, <2>3 DEF RefundsInv
  <2> QED
    BY <1>1, <2>1, <2>2, <2>4 DEF RefundsInv
<1>2. ASSUME ClaimRefund(a, c), paidOut' = [paidOut EXCEPT ![c][a] = @ + investments[c][a]]
      PROVE  RefundsInv'
  <2>1. <<c, a>> \notin refunded /\ refunded' = refunded \cup {<<c, a>>} /\ investments' = investments
    BY <1>2 DEF ClaimRefund
  <2>2. paidOut[c][a] = 0 /\ investments[c][a] \in Nat
    BY <2>1 DEF RefundsInv
  <2>3. paidOut' = [paidOut EXCEPT ![c][a] = investments[c][a]]
    <3>1. paidOut[c][a] + investments[c][a] = investments[c][a]
      BY <2>2
    <3>2. paidOut' = [paidOut EXCEPT ![c][a] = paidOut[c][a] + investments[c][a]]
      BY <1>2
    <3> QED
      BY <3>1, <3>2, Zenon
  <2>4. paidOut' \in [campaignIds -> [Investors -> Nat]]
    BY <2>2, <2>3 DEF RefundsInv
  <2>5. ASSUME NEW k \in campaignIds, NEW b \in Investors
        PROVE  paidOut'[k][b] <= investments[k][b] /\ (<<k, b>> \notin refunded' => paidOut'[k][b] = 0)
    BY <2>3, <2>1, <2>2 DEF RefundsInv
  <2> QED
    BY <2>1, <2>4, <2>5 DEF RefundsInv
<1> QED
  BY <1>1, <1>2

\* Milestones are added, approved and verified: none of that releases one.
LEMMA NothingReleased ==
    ASSUME MilestonesInv, UNCHANGED releases, milestones' \in Seq(Milestone),
           \A m \in DOMAIN milestones' : milestones'[m].status = "Released" =>
               /\ m \in DOMAIN milestones /\ milestones[m].status = "Released"
               /\ milestones'[m].campaign = milestones[m].campaign /\ milestones'[m].amount = milestones[m].amount
    PROVE  MilestonesInv'
<1>1. ASSUME NEW c \in campaignIds
      PROVE  /\ releases[c].count >= Cardinality(Released(milestones', c))
             /\ releases[c].capital >= Capital(milestones', c)
  <2>1. milestones \in Seq(Milestone) /\ releases[c].count \in Nat /\ releases[c].capital \in Nat
        /\ releases[c].count >= Cardinality(Released(milestones, c)) /\ releases[c].capital >= Capital(milestones, c)
    BY DEF MilestonesInv
  <2>2. Released(milestones', c) \subseteq Released(milestones, c)
        /\ \A m \in Released(milestones', c) : milestones'[m].amount = milestones[m].amount
    BY DEF Released
  <2> DEFINE new == milestones'
             old == milestones
  <2>3. /\ old \in Seq(Milestone) /\ Released(new, c) \subseteq Released(old, c)
        /\ \A m \in Released(new, c) : new[m].amount = old[m].amount
    BY <2>1, <2>2
  <2> HIDE DEF new, old
  <2>4. /\ Cardinality(Released(old, c)) \in Nat /\ Cardinality(Released(new, c)) \in Nat
        /\ Cardinality(Released(new, c)) <= Cardinality(Released(old, c))
        /\ Capital(old, c) \in Nat /\ Capital(new, c) \in Nat /\ Capital(new, c) <= Capital(old, c)
    BY <2>3, ReleasedFewer
  <2>5. releases[c].count >= Cardinality(Released(old, c)) /\ releases[c].capital >= Capital(old, c)
    BY <2>1 DEF old
  <2>6. releases[c].count >= Cardinality(Released(new, c)) /\ releases[c].capital >= Capital(new, c)
    BY <2>1, <2>4, <2>5
  <2> QED
    BY <2>6 DEF new
<1> QED
  BY <1>1 DEF MilestonesInv, Capital, Released

\* release_milestone counts the milestone and its capital, also the second time.
LEMMA ReleaseKeeps ==
    ASSUME MilestonesInv, NEW n \in DOMAIN milestones, ReleaseMilestone(n)
    PROVE  MilestonesInv'
<1> DEFINE o == milestones[n]
           d == [o EXCEPT !.status = "Released"]
           k == o.campaign
<1>1. milestones \in Seq(Milestone) /\ o \in Milestone /\ o.status = "Approved"
  BY DEF MilestonesInv, ReleaseMilestone
<1>2. d \in Milestone /\ d.campaign = k /\ d.amount = o.amount /\ d.status = "Released" /\ k \in campaignIds /\ o.amount \in Nat
  <2> HIDE DEF o
  <2> QED
    BY <1>1 DEF Milestone
<1>3. milestones' = Written(milestones, n, d)
  BY DEF ReleaseMilestone, Written
<1>4. releases' = [releases EXCEPT ![k].count = @ + 1, ![k].capital = @ + o.amount]
  BY Zenon DEF ReleaseMilestone
<1> HIDE DEF d
<1>5. /\ milestones' \in Seq(Milestone) /\ DOMAIN milestones' = DOMAIN milestones
      /\ milestones'[n] = d /\ \A m \in DOMAIN milestones \ {n} : milestones'[m] = milestones[m]
  BY <1>1, <1>2, <1>3, SeqWritten
<1>6. /\ releases' \in [campaignIds -> [count : Nat, capital : Nat]]
      /\ releases'[k].count = releases[k].count + 1 /\ releases'[k].capital = releases[k].capital + o.amount
      /\ \A c \in campaignIds \ {k} : releases'[c] = releases[c]
  <2> DEFINE r == releases[k]
             x == o.amount
             y == r.count + 1
             z == r.capital + x
             e == [r EXCEPT !.count = y, !.capital = z]
  <2>1. releases \in [campaignIds -> [count : Nat, capital : Nat]] /\ r \in [count : Nat, capital : Nat]
    BY <1>2 DEF MilestonesInv
  <2>2. releases' = Written(releases, k, e)
    BY <1>4 DEF Written
  <2>3. x \in Nat
    BY <1>2
  <2> HIDE DEF x
  <2>4. y \in Nat /\ z \in Nat
    BY <2>1, <2>3
  <2>5. e \in [count : Nat, capital : Nat] /\ e.count = y /\ e.capital = z
    <3> HIDE DEF r, y, z
    <3> QED
      BY <2>1, <2>4
  <2> HIDE DEF e, o, k
  <2> QED
    BY <1>2, <2>1, <2>2, <2>5 DEF Written, x
<1>7. ASSUME NEW c \in campaignIds
      PROVE  /\ releases'[c].count >= Cardinality(Released(milestones', c))
             /\ releases'[c].capital >= Capital(milestones', c)
  <2> DEFINE new == milestones'
             old == milestones
  <2>1. releases[c].count \in Nat /\ releases[c].capital \in Nat
        /\ releases[c].count >= Cardinality(Released(old, c)) /\ releases[c].capital >= Capital(old, c)
    BY DEF MilestonesInv
  <2>2. /\ old \in Seq(Milestone) /\ n \in DOMAIN old /\ n \notin Released(old, c)
        /\ \A m \in Released(old, c) : new[m].amount = old[m].amount
    BY <1>1, <1>5 DEF Released
  <2>3. Released(new, c) = IF c = k THEN Released(old, c) \cup {n} ELSE Released(old, c)
    BY <1>1, <1>2, <1>5 DEF Released
  <2>4. new[n].amount = o.amount /\ o.amount \in Nat
    BY <1>2, <1>5
  <2>5. CASE c = k
    <3>1. OneMore(old, new, c, n)
      BY <2>2, <2>3, <2>5 DEF OneMore
    <3> DEFINE x == o.amount
    <3>2. x \in Nat /\ new[n].amount = x
      BY <2>4
    <3>3. releases'[c].count = releases[c].count + 1 /\ releases'[c].capital = releases[c].capital + x
      BY <1>6, <2>5
    <3> HIDE DEF new, old, x
    <3>4. /\ Cardinality(Released(old, c)) \in Nat /\ Cardinality(Released(new, c)) = Cardinality(Released(old, c)) + 1
          /\ Capital(old, c) \in Nat /\ Capital(new, c) = Capital(old, c) + x
      BY <2>2, <3>1, <3>2, ReleasedOneMore
    <3>5. releases'[c].count >= Cardinality(Released(new, c)) /\ releases'[c].capital >= Capital(new, c)
      BY <2>1, <3>2, <3>3, <3>4
    <3> QED
      BY <3>5 DEF new
  <2>6. CASE c # k
    BY <2>2, <2>3, <2>6, ReleasedFewer, <1>6, <2>1 DEF new
  <2> QED
    BY <2>5, <2>6
<1> QED
  BY <1>5, <1>6, <1>7 DEF MilestonesInv, Capital, Released

\* Every message about milestones keeps their books.
LEMMA MilestoneStepKeeps ==
    ASSUME MilestonesInv, MilestoneNext
    PROVE  MilestonesInv'
<1>1. milestones \in Seq(Milestone)
  BY DEF MilestonesInv
<1>2. ASSUME NEW a \in Investors, NEW c \in campaignIds, NEW amount \in PaymentArgs, AddMilestone(a, c, amount)
      PROVE  MilestonesInv'
  BY ShareFacts, <1>2, <1>1, SeqAppended, NothingReleased DEF Milestone, AddMilestone
<1>3. ASSUME NEW n \in DOMAIN milestones, NEW d \in Milestone, milestones' = Written(milestones, n, d), UNCHANGED releases,
             d.status = "Released" => d.campaign = milestones[n].campaign /\ d.amount = milestones[n].amount
                                      /\ milestones[n].status = "Released"
      PROVE  MilestonesInv'
  <2>1. /\ milestones' \in Seq(Milestone) /\ DOMAIN milestones' = DOMAIN milestones
        /\ milestones'[n] = d /\ \A m \in DOMAIN milestones \ {n} : milestones'[m] = milestones[m]
    BY <1>1, <1>3, SeqWritten
  <2>2. \A m \in DOMAIN milestones' : milestones'[m].status = "Released" =>
            /\ m \in DOMAIN milestones /\ milestones[m].status = "Released"
            /\ milestones'[m].campaign = milestones[m].campaign /\ milestones'[m].amount = milestones[m].amount
    BY <1>3, <2>1
  <2> QED
    BY <1>3, <2>1, <2>2, NothingReleased
<1>4. ASSUME NEW a \in Investors, NEW n \in DOMAIN milestones, ApproveMilestone(a, n)
      PROVE  MilestonesInv'
  <2> DEFINE o == milestones[n]
             d == [o EXCEPT !.status = "Approved"]
  <2>1. d \in Milestone /\ d.status = "Approved"
    <3>1. o \in Milestone
      BY <1>1
    <3> HIDE DEF o
    <3> QED
      BY <3>1 DEF Milestone
  <2>2. milestones' = Written(milestones, n, d) /\ releases' = releases
    BY <1>4 DEF ApproveMilestone, Written
  <2> HIDE DEF d
  <2> QED
    BY <1>3, <2>1, <2>2
<1>5. ASSUME NEW a \in Investors, NEW n \in DOMAIN milestones, OracleVerifyMilestone(a, n)
      PROVE  MilestonesInv'
  <2> DEFINE o == milestones[n]
             d == [o EXCEPT !.verified = TRUE]
  <2>1. d \in Milestone /\ d.status = o.status /\ d.campaign = o.campaign /\ d.amount = o.amount
    <3>1. o \in Milestone
      BY <1>1
    <3> HIDE DEF o
    <3> QED
      BY <3>1 DEF Milestone
  <2>2. milestones' = Written(milestones, n, d) /\ releases' = releases
    BY <1>5 DEF OracleVerifyMilestone, Written
  <2> HIDE DEF d
  <2> QED
    BY <1>3, <2>1, <2>2
<1>6. ASSUME NEW a \in Investors, NEW oracle \in Investors, AddOracle(a, oracle)
      PROVE  MilestonesInv'
  BY <1>6, CampaignFrames DEF AddOracle
<1>7. ASSUME NEW n \in DOMAIN milestones, ReleaseMilestone(n)
      PROVE  MilestonesInv'
  BY <1>7, ReleaseKeeps
<1> QED
  BY <1>2, <1>4, <1>5, <1>6, <1>7 DEF MilestoneNext

\* Every message of Crowdfunding keeps the books of the campaigns.
LEMMA CampaignStepKeeps ==
    ASSUME CampaignInv, CampaignLedgerNext
    PROVE  CampaignInv'
<1>1. FundsInv /\ MilestonesInv /\ RefundsInv
  BY DEF CampaignInv
<1>2. CASE RefundStep
  <2>1. PICK a \in Investors, c \in campaignIds :
            ClaimRefund(a, c) /\ paidOut' = [paidOut EXCEPT ![c][a] = @ + investments[c][a]]
    BY <1>2 DEF RefundStep
  <2>2. RefundsInv'
    BY <1>1, <2>1, RefundsKept
  <2>3. UNCHANGED <<campaigns, investments, milestones, releases>>
    BY <2>1 DEF ClaimRefund, milestoneVars
  <2> QED
    BY <1>1, <2>2, <2>3, CampaignFrames DEF CampaignInv
<1>3. CASE FundingNext /\ UNCHANGED paidOut
  <2>1. PICK a \in Investors :
            \/ \E target \in PaymentArgs : CreateCampaign(a, target)
            \/ \E accredited \in BOOLEAN : OnboardInvestor(a, accredited)
            \/ \E investor \in Investors : VerifyAccreditation(a, investor)
            \/ \E c \in campaignIds :
                  \/ ActivateCampaign(a, c)
                  \/ FailCampaign(a, c)
                  \/ \E amount \in PaymentArgs : Invest(a, c, amount)
    BY <1>3 DEF FundingNext
  <2>2. CASE \E target \in PaymentArgs : CreateCampaign(a, target)
    BY <2>2, <1>1, CreateCampaignKeeps, <1>3, CampaignFrames DEF CreateCampaign, milestoneVars, CampaignInv
  <2>3. CASE (\E accredited \in BOOLEAN : OnboardInvestor(a, accredited)) \/ (\E investor \in Investors : VerifyAccreditation(a, investor))
    BY <1>3, <2>3, <1>1, CampaignFrames DEF OnboardInvestor, VerifyAccreditation, milestoneVars, CampaignInv
  <2>4. CASE \E c \in campaignIds : ActivateCampaign(a, c) \/ FailCampaign(a, c)
    <3>1. PICK c \in campaignIds : ActivateCampaign(a, c) \/ FailCampaign(a, c)
      BY <2>4
    <3>2. UNCHANGED <<investments, paidOut, refunded, milestones, releases>>
      BY <1>3, <3>1 DEF ActivateCampaign, FailCampaign, milestoneVars
    <3>3. FundsInv'
      <4>1. CASE ActivateCampaign(a, c)
        <5>1. c \in DOMAIN campaigns /\ campaigns' = [campaigns EXCEPT ![c].status = "Active"]
          BY <4>1 DEF ActivateCampaign
        <5> QED
          BY <1>1, <3>2, <5>1, StatusWritten
      <4>2. CASE FailCampaign(a, c)
        <5>1. c \in DOMAIN campaigns /\ campaigns' = [campaigns EXCEPT ![c].status = "Cancelled"]
          BY <4>2 DEF FailCampaign
        <5> QED
          BY <1>1, <3>2, <5>1, StatusWritten
      <4> QED
        BY <3>1, <4>1, <4>2
    <3> QED
      BY <1>1, <3>2, <3>3, CampaignFrames DEF CampaignInv
  <2>5. CASE \E c \in campaignIds, amount \in PaymentArgs : Invest(a, c, amount)
    <3>1. PICK c \in campaignIds, amount \in PaymentArgs : Invest(a, c, amount)
      BY <2>5
    <3>2. amount \in Nat
      BY ShareFacts
    <3>3. FundsInv'
      BY <1>1, <3>1, <3>2, InvestKeeps
    <3>4. RefundsInv'
      BY <1>1, <1>3, <3>1, <3>2, RefundsKept
    <3>5. UNCHANGED <<milestones, releases>>
      BY <3>1 DEF Invest, milestoneVars
    <3> QED
      BY <1>1, <3>3, <3>4, <3>5, CampaignFrames DEF CampaignInv
  <2> QED
    BY <2>1, <2>2, <2>3, <2>4, <2>5
<1>4. CASE MilestoneNext /\ UNCHANGED paidOut
  <2>1. UNCHANGED <<campaigns, investments, refunded>>
    BY <1>4 DEF MilestoneNext, AddMilestone, ApproveMilestone, OracleVerifyMilestone, AddOracle, ReleaseMilestone,
                fundingVars
  <2>2. MilestonesInv'
    BY <1>1, <1>4, MilestoneStepKeeps
  <2> QED
    BY <1>1, <1>4, <2>1, <2>2, CampaignFrames DEF CampaignInv
<1>5. CASE (BallotNext \/ CampaignSharesNext) /\ UNCHANGED paidOut
  <2>1. CASE BallotNext
    <3>1. UNCHANGED <<campaigns, investments, refunded, milestones, releases>>
      BY <2>1 DEF BallotNext, CreateBallot, VoteOnBallot, FinalizeBallot, AssessRisk, fundingVars, milestoneVars
    <3> QED
      BY <1>1, <1>5, <3>1, CampaignFrames DEF CampaignInv
  <2>2. CASE CampaignSharesNext
    <3>1. UNCHANGED <<campaigns, investments, refunded, milestones, releases>>
      BY <2>2 DEF CampaignSharesNext, ListCampaignShares, BuyCampaignShares, fundingVars, milestoneVars
    <3> QED
      BY <1>1, <1>5, <3>1, CampaignFrames DEF CampaignInv
  <2> QED
    BY <1>5, <2>1, <2>2
<1> QED
  BY <1>2, <1>3, <1>4, <1>5 DEF CampaignLedgerNext

\* The contract begins without campaigns and milestones.
LEMMA CampaignsBegin ==
    ASSUME CrowdfundingInit, paidOut = [c \in campaignIds |-> [a \in Investors |-> 0]]
    PROVE  CampaignInv
<1>1. FundsInv
  BY CrowdfundingConstants DEF CrowdfundingInit, FundsInv
<1>2. RefundsInv
  BY DEF CrowdfundingInit, RefundsInv
<1>3. MilestonesInv
  BY FS_EmptySet, SumEmpty DEF CrowdfundingInit, Released, Capital, MilestonesInv
<1> QED
  BY <1>1, <1>2, <1>3 DEF CampaignInv

----
(***************************************************************************)
(* What the books do not say of the state of Fractional: its admin, prices *)
(* and offers.                                                             *)
(***************************************************************************)

LEMMA FractionalCardinality == \A S : FractionalKey!Cardinality(S) = Cardinality(S)
  BY Zenon DEF FractionalKey!Cardinality, Cardinality

LEMMA FractionalKeyTyped ==
    /\ FractionalKey!RotationTypeOK <=> KeyHeld(Holders, fractionalAdmin, fractionalRotation)
    /\ FractionalKey!RotationTypeOK' <=> KeyHeld(Holders, fractionalAdmin', fractionalRotation')
  BY FractionalCardinality DEF FractionalKey!RotationTypeOK, FractionalKey!Rotation, KeyHeld

LEMMA FractionalKeyTurns ==
    ASSUME block \in Nat, FractionalKey!RotationNext
    PROVE  KeyTurned(Holders, fractionalAdmin, fractionalAdmin', fractionalRotation')
<1>1. PICK a \in Holders : \/ \E b \in Holders : FractionalKey!RequestAdminRotation(a, b)
                           \/ FractionalKey!ConfirmAdminRotation(a)
                           \/ FractionalKey!CancelAdminRotation(a)
  BY DEF FractionalKey!RotationNext
<1>2. block + FractionalCooldown \in Nat
  BY FractionalConstants
<1> QED
  BY <1>1, <1>2 DEF KeyTurned, FractionalKey!RequestAdminRotation, FractionalKey!ConfirmAdminRotation,
                    FractionalKey!CancelAdminRotation

OffersInv ==
    /\ FractionalKey!RotationTypeOK
    /\ lastPrice \in [Tokens -> Nat]
    /\ DOMAIN shareOffers \subseteq Holders \X Tokens
    /\ \A k \in DOMAIN shareOffers : shareOffers[k] \in [shares : Nat \ {0}, price : Nat]

LEMMA OffersFrame ==
    ASSUME OffersInv, UNCHANGED <<fractionalAdminVars, lastPrice, shareOffers>>
    PROVE  OffersInv'
  BY FractionalKeyTyped DEF OffersInv, fractionalAdminVars

\* Messages about the pool give the token its price.
LEMMA PoolPriced ==
    ASSUME OffersInv, FractionalInv', NEW t \in Tokens, NEW p, SetPool(t, p),
           pool = [u \in Tokens |-> pool[u]], UNCHANGED <<fractionalAdminVars, shareOffers>>
    PROVE  OffersInv'
<1>1. pool'[t] = {p}
  BY DEF SetPool
<1>2. p \in Pool
  BY <1>1 DEF FractionalInv, TokensGood, TokenGood
<1>3. p.shares = 0 \/ p.value \div p.shares \in Nat
  BY <1>2 DEF Pool
<1>4. lastPrice' \in [Tokens -> Nat]
  BY <1>3 DEF OffersInv, SetPool
<1> QED
  BY <1>4, FractionalKeyTyped DEF OffersInv, fractionalAdminVars

\* An offer is withdrawn, or what is left of it is written.
LEMMA OffersLeft ==
    ASSUME OffersInv, UNCHANGED <<fractionalAdminVars, lastPrice>>, NEW k \in DOMAIN shareOffers,
           \/ shareOffers' = WithoutOffer(k)
           \/ \E x \in 1..shareOffers[k].shares : x # shareOffers[k].shares
                  /\ shareOffers' = [shareOffers EXCEPT ![k].shares = @ - x]
    PROVE  OffersInv'
<1> DEFINE Kind == [shares : Nat \ {0}, price : Nat]
           Good(f) == DOMAIN f \subseteq Holders \X Tokens /\ \A j \in DOMAIN f : f[j] \in Kind
<1>1. Good(shareOffers)
  BY DEF OffersInv
<1>2. Good(shareOffers')
  <2>1. CASE shareOffers' = WithoutOffer(k)
    BY <1>1, <2>1 DEF WithoutOffer
  <2>2. CASE \E x \in 1..shareOffers[k].shares : x # shareOffers[k].shares
                  /\ shareOffers' = [shareOffers EXCEPT ![k].shares = @ - x]
    <3>1. PICK x \in 1..shareOffers[k].shares : x # shareOffers[k].shares
                  /\ shareOffers' = [shareOffers EXCEPT ![k].shares = @ - x]
      BY <2>2
    <3> DEFINE o == shareOffers[k]
               d == [o EXCEPT !.shares = o.shares - x]
    <3>2. shareOffers' = [shareOffers EXCEPT ![k] = d]
      BY <1>1, <3>1
    <3>3. o \in Kind
      BY <1>1
    <3>4. x \in 1..o.shares /\ x # o.shares
      BY <3>1
    <3>5. d \in Kind
      BY <3>3, <3>4
    <3> HIDE DEF d
    <3> QED
      BY <1>1, <3>2, <3>5
  <2> QED
    BY <2>1, <2>2
<1> QED
  BY <1>2, FractionalKeyTyped DEF OffersInv, fractionalAdminVars

\* Every message keeps prices, offers and the admin in their types.
LEMMA OffersStay ==
    ASSUME OffersInv, FractionalInv, FractionalInv', FractionalNext
    PROVE  OffersInv'
<1>1. CASE ShareNext
  <2>1. PICK a \in Holders, t \in Tokens, amount \in AmountArgs :
            \/ SetLastPrice(t, amount)
            \/ MintShares(a, t, amount)
            \/ \E price \in AmountArgs : ListShares(a, t, amount, price)
            \/ CancelOffer(a, t)
            \/ \E b \in Holders : BuyShares(a, b, t, amount)
            \/ RedeemShares(a, t, amount)
    BY <1>1 DEF ShareNext
  <2>2. amount \in Nat
    BY ShareFacts
  <2>3. CASE SetLastPrice(t, amount)
    BY <2>2, <2>3, FractionalKeyTyped DEF SetLastPrice, OffersInv, fractionalAdminVars
  <2>4. CASE MintShares(a, t, amount) \/ RedeemShares(a, t, amount)
    BY <2>4, OffersFrame DEF MintShares, RedeemShares
  <2>5. CASE \E price \in AmountArgs : ListShares(a, t, amount, price)
    <3>1. PICK price \in AmountArgs : ListShares(a, t, amount, price)
      BY <2>5
    <3>2. price \in Nat /\ amount \in Nat \ {0}
      BY <3>1, PoolFacts, ShareFacts DEF ListShares
    <3>3. lastPrice' \in [Tokens -> Nat] /\ UNCHANGED fractionalAdminVars
      BY <3>1, <3>2 DEF ListShares, OffersInv
    <3> DEFINE k == <<a, t>>
               x == [shares |-> amount, price |-> price]
    <3>4. shareOffers' = [j \in DOMAIN shareOffers \cup {k} |-> IF j = k THEN x ELSE shareOffers[j]]
      BY <3>1 DEF ListShares
    <3>5. k \in Holders \X Tokens /\ x \in [shares : Nat \ {0}, price : Nat]
      BY <3>2
    <3> HIDE DEF k, x
    <3>6. /\ DOMAIN shareOffers' \subseteq Holders \X Tokens
          /\ \A j \in DOMAIN shareOffers' : shareOffers'[j] \in [shares : Nat \ {0}, price : Nat]
      BY <3>4, <3>5 DEF OffersInv
    <3> QED
      BY <3>3, <3>6, FractionalKeyTyped DEF OffersInv, fractionalAdminVars
  <2>6. CASE CancelOffer(a, t)
    BY <2>6, OffersLeft DEF CancelOffer
  <2>7. CASE \E b \in Holders : BuyShares(a, b, t, amount)
    <3>1. PICK b \in Holders : BuyShares(a, b, t, amount)
      BY <2>7
    <3> DEFINE k == <<b, t>>
    <3>2. /\ k \in DOMAIN shareOffers /\ amount \in 1..shareOffers[k].shares
          /\ shareOffers' = IF amount = shareOffers[k].shares THEN WithoutOffer(k)
                            ELSE [shareOffers EXCEPT ![k].shares = @ - amount]
          /\ UNCHANGED <<fractionalAdminVars, lastPrice>>
      BY <3>1, Zenon DEF BuyShares
    <3> HIDE DEF k
    <3>3. CASE amount = shareOffers[k].shares
      BY <3>2, <3>3, OffersLeft
    <3>4. CASE amount # shareOffers[k].shares
      <4>1. \E x \in 1..shareOffers[k].shares : x # shareOffers[k].shares
                  /\ shareOffers' = [shareOffers EXCEPT ![k].shares = @ - x]
        BY <3>2, <3>4
      <4> QED
        BY <3>2, <4>1, OffersLeft
    <3> QED
      BY <3>3, <3>4
  <2> QED
    BY <2>1, <2>3, <2>4, <2>5, <2>6, <2>7
<1>2. CASE PoolNext
  <2>1. PICK a \in Holders, t \in Tokens, amount \in AmountArgs :
            \/ \E value \in AmountArgs : AddLiquidity(a, t, amount, value)
            \/ SwapSharesForValue(a, t, amount)
            \/ \E lp \in 1..lpShares[t][a] : RemoveLiquidity(a, t, lp)
    BY <1>2 DEF PoolNext
  <2>2. (\E p : SetPool(t, p)) /\ UNCHANGED <<fractionalAdminVars, shareOffers>>
    <3>1. CASE \E value \in AmountArgs : AddLiquidity(a, t, amount, value)
      BY <3>1, Zenon DEF AddLiquidity
    <3>2. CASE SwapSharesForValue(a, t, amount)
      BY <3>2, Zenon DEF SwapSharesForValue
    <3>3. CASE \E lp \in 1..lpShares[t][a] : RemoveLiquidity(a, t, lp)
      BY <3>3, Zenon DEF RemoveLiquidity
    <3> QED
      BY <2>1, <3>1, <3>2, <3>3
  <2>3. PICK p : SetPool(t, p)
    BY <2>2
  <2>4. pool = [u \in Tokens |-> pool[u]]
    BY DEF FractionalInv, TokensGood
  <2> QED
    BY <2>2, <2>3, <2>4, PoolPriced
<1>3. CASE AuctionNext
  <2>1. UNCHANGED <<fractionalAdminVars, lastPrice, shareOffers>>
    BY <1>3, Zenon DEF AuctionNext, CreateDutchAuction, BidDutchAuction, CancelDutchAuction
  <2> QED
    BY <2>1, OffersFrame
<1>4. CASE FractionalRotationNext
  BY <1>4, FractionalKeyTurns, FractionalKeyTyped, KeyTurns DEF FractionalRotationNext, FractionalInv, OffersInv
<1>5. CASE NextBlock /\ UNCHANGED <<fractionalAdminVars, lastPrice, shares, totalShares, shareOffers, pool, lpShares, auctions>>
  BY <1>5, OffersFrame
<1> QED
  BY <1>1, <1>2, <1>3, <1>4, <1>5 DEF FractionalNext

\* The contract begins without prices and offers.
LEMMA OffersBegin ==
    ASSUME FractionalInit
    PROVE  OffersInv
  BY NoneOrOne, FractionalConstants, FractionalKeyTyped DEF FractionalInit, KeyHeld, OffersInv

LEMMA FractionalTyped == FractionalInv /\ OffersInv => FractionalTypeOK
<1> SUFFICES ASSUME FractionalInv, OffersInv
             PROVE  FractionalTypeOK
  OBVIOUS
<1>1. /\ shares = [t \in Tokens |-> shares[t]] /\ totalShares = [t \in Tokens |-> totalShares[t]]
      /\ lpShares = [t \in Tokens |-> lpShares[t]] /\ auctions \in Seq(Auction)
  BY DEF FractionalInv, TokensGood, AuctionsGood
<1>2. ASSUME NEW t \in Tokens
      PROVE  /\ shares[t] \in [Holders -> Nat] /\ totalShares[t] \in Nat /\ lpShares[t] \in [Holders -> Nat]
             /\ pool[t] \subseteq Pool /\ Cardinality(pool[t]) <= 1
  <2>1. TokenGood(shares[t], totalShares[t], pool[t], lpShares[t])
    BY DEF FractionalInv, TokensGood
  <2>2. pool[t] \subseteq Pool /\ Cardinality(pool[t]) <= 1
    BY <2>1, NoneOrOne DEF TokenGood
  <2> QED
    BY <2>1, <2>2 DEF TokenGood
<1>3. /\ shares \in [Tokens -> [Holders -> Nat]] /\ totalShares \in [Tokens -> Nat]
      /\ lpShares \in [Tokens -> [Holders -> Nat]]
  BY <1>1, <1>2
<1> QED
  BY <1>1, <1>2, <1>3 DEF OffersInv, FractionalTypeOK

----
(***************************************************************************)
(* What the books do not say of the state of Crowdfunding: investors,      *)
(* votes and holdings.                                                     *)
(***************************************************************************)

Ballot == [campaign : campaignIds, for : Nat, against : Nat, status : {"Active", "Passed", "Rejected"}]
ShareListing == [campaign : campaignIds, seller : Investors, shares : Nat, open : BOOLEAN]

InvestorsInv ==
    /\ accreditation \in [Investors -> {"Unknown", "Onboarded", "Accredited"}]
    /\ refunded \subseteq campaignIds \X Investors
    /\ oracles \subseteq Investors

VotesInv ==
    /\ ballots \in Seq(Ballot) /\ ballotVotes \subseteq (DOMAIN ballots) \X Investors
    /\ risk \in [campaignIds -> {"Unrated", "Low", "Medium", "High"}]

HoldingsInv ==
    /\ holdings \in [campaignIds -> [Investors -> Nat]]
    /\ shareListings \in Seq(ShareListing)

BackingInv == InvestorsInv /\ VotesInv /\ HoldingsInv

LEMMA BackingFrames ==
    /\ InvestorsInv /\ UNCHANGED <<accreditation, refunded, oracles>> => InvestorsInv'
    /\ VotesInv /\ UNCHANGED <<ballots, ballotVotes, risk>> => VotesInv'
    /\ HoldingsInv /\ UNCHANGED <<holdings, shareListings>> => HoldingsInv'
  BY DEF InvestorsInv, VotesInv, HoldingsInv

\* create_campaign, onboard_investor, verify_accreditation, activate_campaign, fail_campaign, invest
LEMMA FundingStays ==
    ASSUME BackingInv, FundingNext
    PROVE  BackingInv'
<1>1. InvestorsInv /\ VotesInv /\ HoldingsInv
  BY DEF BackingInv
<1>2. PICK a \in Investors :
            \/ \E target \in PaymentArgs : CreateCampaign(a, target)
            \/ \E accredited \in BOOLEAN : OnboardInvestor(a, accredited)
            \/ \E investor \in Investors : VerifyAccreditation(a, investor)
            \/ \E c \in campaignIds :
                  \/ ActivateCampaign(a, c)
                  \/ FailCampaign(a, c)
                  \/ \E amount \in PaymentArgs : Invest(a, c, amount)
  BY DEF FundingNext
<1>3. CASE (\E target \in PaymentArgs : CreateCampaign(a, target)) \/ \E c \in campaignIds : ActivateCampaign(a, c) \/ FailCampaign(a, c)
  <2>1. UNCHANGED <<accreditation, refunded, milestoneVars, ballotVars, shareVars>>
    BY <1>3, Zenon DEF CreateCampaign, ActivateCampaign, FailCampaign
  <2> QED
    BY <1>1, <2>1, BackingFrames DEF milestoneVars, ballotVars, shareVars, BackingInv
<1>4. CASE (\E accredited \in BOOLEAN : OnboardInvestor(a, accredited)) \/ \E investor \in Investors : VerifyAccreditation(a, investor)
  <2>1. /\ accreditation' \in [Investors -> {"Unknown", "Onboarded", "Accredited"}]
        /\ UNCHANGED <<refunded, milestoneVars, ballotVars, shareVars>>
    BY <1>1, <1>4 DEF OnboardInvestor, VerifyAccreditation, InvestorsInv
  <2>2. InvestorsInv'
    BY <1>1, <2>1 DEF InvestorsInv, milestoneVars
  <2> QED
    BY <1>1, <2>1, <2>2, BackingFrames DEF ballotVars, shareVars, BackingInv
<1>5. CASE \E c \in campaignIds, amount \in PaymentArgs : Invest(a, c, amount)
  <2>1. PICK c \in campaignIds, amount \in PaymentArgs : Invest(a, c, amount)
    BY <1>5
  <2> DEFINE n == amount \div ShareUnit
  <2>2. /\ holdings' = [holdings EXCEPT ![c][a] = @ + n]
        /\ UNCHANGED <<accreditation, refunded, milestoneVars, ballotVars, shareListings>>
    BY <2>1 DEF Invest
  <2>3. n \in Nat
    BY ShareFacts
  <2> HIDE DEF n
  <2>4. holdings[c] \in [Investors -> Nat]
    BY <1>1 DEF HoldingsInv
  <2>5. holdings' = [holdings EXCEPT ![c] = [holdings[c] EXCEPT ![a] = holdings[c][a] + n]]
    BY <1>1, <2>2, <2>4 DEF HoldingsInv
  <2>6. [holdings[c] EXCEPT ![a] = holdings[c][a] + n] \in [Investors -> Nat]
    BY <2>3, <2>4
  <2>7. HoldingsInv'
    BY <1>1, <2>2, <2>5, <2>6 DEF HoldingsInv
  <2> QED
    BY <1>1, <2>2, <2>7, BackingFrames DEF milestoneVars, ballotVars, BackingInv
<1> QED
  BY <1>2, <1>3, <1>4, <1>5

\* Messages about milestones, of which one names an oracle (authorize_oracle).
LEMMA MilestonesStay ==
    ASSUME BackingInv, MilestoneNext
    PROVE  BackingInv'
<1>1. InvestorsInv /\ VotesInv /\ HoldingsInv
  BY DEF BackingInv
<1>2. UNCHANGED <<fundingVars, ballotVars, shareVars>> /\ oracles' \subseteq oracles \cup Investors
  <2>1. ASSUME NEW a \in Investors, NEW oracle \in Investors, AddOracle(a, oracle)
        PROVE  UNCHANGED <<fundingVars, ballotVars, shareVars>> /\ oracles' \subseteq oracles \cup Investors
    BY <2>1 DEF AddOracle
  <2>2. ASSUME NEW a \in Investors, NEW c \in campaignIds, NEW amount \in PaymentArgs, AddMilestone(a, c, amount)
        PROVE  UNCHANGED <<fundingVars, ballotVars, shareVars>> /\ oracles' \subseteq oracles \cup Investors
    BY <2>2 DEF AddMilestone
  <2>3. ASSUME NEW a \in Investors, NEW m \in DOMAIN milestones,
               ApproveMilestone(a, m) \/ OracleVerifyMilestone(a, m) \/ ReleaseMilestone(m)
        PROVE  UNCHANGED <<fundingVars, ballotVars, shareVars>> /\ oracles' \subseteq oracles \cup Investors
    BY <2>3, Zenon DEF ApproveMilestone, OracleVerifyMilestone, ReleaseMilestone
  <2>4. ASSUME NEW m \in DOMAIN milestones, ReleaseMilestone(m)
        PROVE  UNCHANGED <<fundingVars, ballotVars, shareVars>> /\ oracles' \subseteq oracles \cup Investors
    BY <2>4 DEF ReleaseMilestone
  <2> QED
    BY <2>1, <2>2, <2>3, <2>4 DEF MilestoneNext
<1>3. InvestorsInv'
  BY <1>1, <1>2 DEF InvestorsInv, fundingVars
<1> QED
  BY <1>1, <1>2, <1>3, BackingFrames DEF ballotVars, shareVars, BackingInv

\* create_proposal, vote_on_proposal, finalize_proposal, assess_risk
LEMMA BallotsStay ==
    ASSUME BackingInv, BallotNext
    PROVE  BackingInv'
<1>1. InvestorsInv /\ VotesInv /\ HoldingsInv
  BY DEF BackingInv
<1>2. CASE \E c \in campaignIds : CreateBallot(c)
  <2>1. PICK c \in campaignIds : CreateBallot(c)
    BY <1>2
  <2> DEFINE d == [campaign |-> c, for |-> 0, against |-> 0, status |-> "Active"]
  <2>2. ballots' = Append(ballots, d) /\ UNCHANGED <<fundingVars, milestoneVars, ballotVotes, risk, shareVars>>
    BY <2>1 DEF CreateBallot
  <2>3. d \in Ballot /\ ballots \in Seq(Ballot)
    BY <1>1 DEF Ballot, VotesInv
  <2> HIDE DEF d
  <2>4. ballots' \in Seq(Ballot) /\ DOMAIN ballots \subseteq DOMAIN ballots'
    BY <2>2, <2>3, SeqAppended
  <2>5. VotesInv'
    BY <1>1, <2>2, <2>4 DEF VotesInv
  <2> QED
    BY <1>1, <2>2, <2>5, BackingFrames DEF fundingVars, milestoneVars, shareVars, BackingInv
<1>3. CASE \E b \in DOMAIN ballots : (\E a \in Investors, inFavour \in BOOLEAN : VoteOnBallot(a, b, inFavour)) \/ FinalizeBallot(b)
  <2>1. PICK b \in DOMAIN ballots : (\E a \in Investors, inFavour \in BOOLEAN : VoteOnBallot(a, b, inFavour)) \/ FinalizeBallot(b)
    BY <1>3
  <2> DEFINE o == ballots[b]
  <2>2. ballots \in Seq(Ballot) /\ o \in Ballot
    BY <1>1, ElementOfSeq DEF VotesInv
  <2>3. \E d \in Ballot : ballots' = Written(ballots, b, d)
    <3>1. CASE \E a \in Investors, inFavour \in BOOLEAN : VoteOnBallot(a, b, inFavour)
      <4>1. PICK a \in Investors, inFavour \in BOOLEAN : VoteOnBallot(a, b, inFavour)
        BY <3>1
      <4> DEFINE x == o.for + (IF inFavour THEN 1 ELSE 0)
                 y == o.against + (IF inFavour THEN 0 ELSE 1)
                 d == [o EXCEPT !.for = x, !.against = y]
      <4>2. ballots' = Written(ballots, b, d)
        BY <2>2, <4>1 DEF VoteOnBallot, Written
      <4>3. x \in Nat /\ y \in Nat
        BY <2>2 DEF Ballot
      <4> HIDE DEF o, x, y
      <4>4. d \in Ballot
        BY <2>2, <4>3 DEF Ballot
      <4> QED
        BY <4>2, <4>4
    <3>2. CASE FinalizeBallot(b)
      <4> DEFINE r == IF o.for > o.against THEN "Passed" ELSE "Rejected"
                 d == [o EXCEPT !.status = r]
      <4>1. ballots' = Written(ballots, b, d)
        BY <2>2, <3>2 DEF FinalizeBallot, Written
      <4>2. r \in {"Passed", "Rejected"}
        OBVIOUS
      <4> HIDE DEF o, r
      <4>3. d \in Ballot
        BY <2>2, <4>2 DEF Ballot
      <4> QED
        BY <4>1, <4>3
    <3> QED
      BY <2>1, <3>1, <3>2
  <2>4. PICK d \in Ballot : ballots' = Written(ballots, b, d)
    BY <2>3
  <2>5. ballots' \in Seq(Ballot) /\ DOMAIN ballots' = DOMAIN ballots
    BY <2>2, <2>4, SeqWritten
  <2>6. /\ ballotVotes' \subseteq ballotVotes \cup (DOMAIN ballots) \X Investors
        /\ UNCHANGED <<fundingVars, milestoneVars, risk, shareVars>>
    <3>1. ASSUME NEW a \in Investors, NEW inFavour \in BOOLEAN, VoteOnBallot(a, b, inFavour)
          PROVE  /\ ballotVotes' = ballotVotes \cup {<<b, a>>}
                 /\ UNCHANGED <<fundingVars, milestoneVars, risk, shareVars>>
      BY <3>1 DEF VoteOnBallot
    <3>2. FinalizeBallot(b) => UNCHANGED <<ballotVotes, fundingVars, milestoneVars, risk, shareVars>>
      BY DEF FinalizeBallot
    <3>3. \A a \in Investors : <<b, a>> \in (DOMAIN ballots) \X Investors
      OBVIOUS
    <3>4. CASE \E a \in Investors, inFavour \in BOOLEAN : VoteOnBallot(a, b, inFavour)
      BY <3>4, <3>1, <3>3
    <3>5. CASE FinalizeBallot(b)
      BY <3>2, <3>5
    <3> QED
      BY <2>1, <3>4, <3>5
  <2>7. VotesInv'
    BY <1>1, <2>5, <2>6 DEF VotesInv
  <2> QED
    BY <1>1, <2>6, <2>7, BackingFrames DEF fundingVars, milestoneVars, shareVars, BackingInv
<1>4. CASE \E a \in Investors, c \in campaignIds, measures \in RiskArgs : AssessRisk(a, c, measures)
  <2>1. PICK a \in Investors, c \in campaignIds, measures \in RiskArgs : AssessRisk(a, c, measures)
    BY <1>4
  <2>2. Rating(measures) \in {"Unrated", "Low", "Medium", "High"}
    BY Zenon DEF Rating
  <2>3. /\ risk' = [risk EXCEPT ![c] = Rating(measures)]
        /\ UNCHANGED <<fundingVars, milestoneVars, ballots, ballotVotes, shareVars>>
    BY <2>1 DEF AssessRisk
  <2>4. VotesInv'
    BY <1>1, <2>2, <2>3 DEF VotesInv
  <2> QED
    BY <1>1, <2>3, <2>4, BackingFrames DEF fundingVars, milestoneVars, shareVars, BackingInv
<1> QED
  BY <1>2, <1>3, <1>4 DEF BallotNext

\* list_shares, buy_shares
LEMMA HoldingsStay ==
    ASSUME BackingInv, CampaignSharesNext
    PROVE  BackingInv'
<1>1. InvestorsInv /\ VotesInv /\ HoldingsInv
  BY DEF BackingInv
<1>2. PICK a \in Investors :
        \/ \E c \in campaignIds, n \in 0..MaxRaised : ListCampaignShares(a, c, n)
        \/ \E l \in DOMAIN shareListings : BuyCampaignShares(a, l)
  BY DEF CampaignSharesNext
<1>3. UNCHANGED <<fundingVars, milestoneVars, ballotVars>>
  BY <1>2 DEF ListCampaignShares, BuyCampaignShares
<1>4. HoldingsInv'
  <2>1. CASE \E c \in campaignIds, n \in 0..MaxRaised : ListCampaignShares(a, c, n)
    BY <2>1, <1>1, SeqAppended DEF ListCampaignShares, ShareListing, HoldingsInv
  <2>2. CASE \E l \in DOMAIN shareListings : BuyCampaignShares(a, l)
    <3>1. PICK l \in DOMAIN shareListings : BuyCampaignShares(a, l)
      BY <2>2
    <3> DEFINE o == shareListings[l]
               d == [o EXCEPT !.open = FALSE]
    <3>2. shareListings \in Seq(ShareListing) /\ o \in ShareListing
      BY <1>1, ElementOfSeq DEF HoldingsInv
    <3>3. /\ holdings' = [holdings EXCEPT ![o.campaign] = Sold(holdings[o.campaign], o.seller, a, o.shares)]
          /\ shareListings' = Written(shareListings, l, d)
      BY <1>1, <3>1, <3>2 DEF BuyCampaignShares, Written
    <3> HIDE DEF o
    <3> DEFINE c == o.campaign
               held == holdings[c]
               s == o.seller
               n == o.shares
               left == [held EXCEPT ![s] = IF @ > n THEN @ - n ELSE 0]
    <3>4. c \in campaignIds /\ s \in Investors /\ n \in Nat /\ d \in ShareListing
      BY <3>2 DEF ShareListing
    <3>5. held \in [Investors -> Nat]
      BY <1>1, <3>4 DEF HoldingsInv
    <3> HIDE DEF c, held, s, n, d
    <3>6. left \in [Investors -> Nat]
      BY <3>4, <3>5
    <3>7. Sold(held, s, a, n) \in [Investors -> Nat]
      BY <3>6, <3>4 DEF Sold
    <3>8. shareListings' \in Seq(ShareListing)
      BY <3>2, <3>3, <3>4, SeqWritten
    <3> QED
      BY <1>1, <3>3, <3>7, <3>8 DEF HoldingsInv, c, held, s, n
  <2> QED
    BY <1>2, <2>1, <2>2
<1> QED
  BY <1>1, <1>3, <1>4, BackingFrames DEF fundingVars, milestoneVars, ballotVars, BackingInv

\* Every message of Crowdfunding keeps investors, votes and holdings in their types.
LEMMA BackingStays ==
    ASSUME BackingInv, CampaignLedgerNext
    PROVE  BackingInv'
<1>1. CASE RefundStep
  BY <1>1, BackingFrames DEF RefundStep, ClaimRefund, InvestorsInv, BackingInv, milestoneVars, ballotVars,
     shareVars
<1> QED
  BY <1>1, FundingStays, MilestonesStay, BallotsStay, HoldingsStay DEF CampaignLedgerNext

LEMMA BackingBegins ==
    ASSUME CrowdfundingInit
    PROVE  BackingInv
  BY DEF CrowdfundingInit, BackingInv, InvestorsInv, VotesInv, HoldingsInv

LEMMA CrowdfundingTyped == CampaignInv /\ BackingInv => CrowdfundingTypeOK
  BY DEF CampaignInv, FundsInv, MilestonesInv, BackingInv, InvestorsInv, VotesInv, HoldingsInv, Ballot, ShareListing,
         CrowdfundingTypeOK

----
\* The books of campaigns and of fractional properties agree, in every order of investments,
\* refunds, failures and releases, of sales, swaps and bids, also of what a seller no longer has:
\* sums, counts and totals of the records on one side are those of the accounts on the other, and
\* all of the state has its type.
THEOREM ShareBooksAlwaysAgree == ShareLedgerSpec => []ShareBooksAgree
<1> DEFINE Inv == FractionalInv /\ OffersInv /\ CampaignInv /\ BackingInv
           vars == <<block, crowdfundingState, fractionalState, paidOut>>
<1>1. ChainInit /\ CrowdfundingInit /\ FractionalInit /\ paidOut = [c \in campaignIds |-> [a \in Investors |-> 0]] => Inv
  BY FractionalBegins, CampaignsBegin, OffersBegin, BackingBegins
<1>2. Inv /\ [ShareLedgerNext]_vars => Inv'
  <2> SUFFICES ASSUME FractionalInv, OffersInv, CampaignInv, BackingInv, [ShareLedgerNext]_vars
               PROVE  Inv'
    BY Zenon
  <2>1. CASE CampaignLedgerNext /\ UNCHANGED fractionalState
    <3>1. CampaignInv'
      BY <2>1, CampaignStepKeeps
    <3>2. UNCHANGED block
      <4>1. RefundStep => UNCHANGED block
        BY DEF RefundStep, ClaimRefund
      <4>2. FundingNext => UNCHANGED block
        <5>1. ASSUME NEW a \in Investors, NEW c \in campaignIds, NEW amount \in PaymentArgs
              PROVE  /\ CreateCampaign(a, amount) => UNCHANGED block
                     /\ \A accredited \in BOOLEAN : OnboardInvestor(a, accredited) => UNCHANGED block
                     /\ \A investor \in Investors : VerifyAccreditation(a, investor) => UNCHANGED block
                     /\ ActivateCampaign(a, c) \/ FailCampaign(a, c) \/ Invest(a, c, amount) => UNCHANGED block
          BY Zenon DEF CreateCampaign, OnboardInvestor, VerifyAccreditation, ActivateCampaign, FailCampaign, Invest
        <5>2. ASSUME NEW a \in Investors
              PROVE  /\ \A target \in PaymentArgs : CreateCampaign(a, target) => UNCHANGED block
                     /\ \A accredited \in BOOLEAN : OnboardInvestor(a, accredited) => UNCHANGED block
                     /\ \A investor \in Investors : VerifyAccreditation(a, investor) => UNCHANGED block
                     /\ \A c \in campaignIds : ActivateCampaign(a, c) \/ FailCampaign(a, c) => UNCHANGED block
          BY Zenon DEF CreateCampaign, OnboardInvestor, VerifyAccreditation, ActivateCampaign, FailCampaign
        <5> QED
          BY <5>1, <5>2, Zenon DEF FundingNext
      <4>3. MilestoneNext => UNCHANGED block
        BY DEF MilestoneNext, AddMilestone, ApproveMilestone, OracleVerifyMilestone, AddOracle, ReleaseMilestone
      <4>4. BallotNext => UNCHANGED block
        BY DEF BallotNext, CreateBallot, VoteOnBallot, FinalizeBallot, AssessRisk
      <4>5. CampaignSharesNext => UNCHANGED block
        BY DEF CampaignSharesNext, ListCampaignShares, BuyCampaignShares
      <4> QED
        BY <2>1, <4>1, <4>2, <4>3, <4>4, <4>5 DEF CampaignLedgerNext
    <3>3. UNCHANGED <<fractionalAdminVars, lastPrice, shares, totalShares, shareOffers, pool, lpShares, auctions>>
      BY <2>1 DEF fractionalState
    <3>4. BackingInv'
      BY <2>1, BackingStays
    <3> QED
      BY <3>1, <3>2, <3>3, <3>4, BooksFrame, OffersFrame
  <2>2. CASE FractionalNext /\ UNCHANGED <<crowdfundingState, paidOut>>
    <3>1. UNCHANGED <<campaigns, investments, refunded, milestones, releases, paidOut>>
      BY <2>2 DEF crowdfundingState, fundingVars, milestoneVars
    <3>2. CampaignInv'
      BY <3>1, CampaignFrames DEF CampaignInv
    <3>3. BackingInv'
      BY <2>2, BackingFrames DEF BackingInv, crowdfundingState, fundingVars, milestoneVars, ballotVars, shareVars
    <3>4. FractionalInv'
      BY <2>2, FractionalStepKeeps
    <3>5. OffersInv'
      BY <2>2, <3>4, OffersStay
    <3> QED
      BY <3>2, <3>3, <3>4, <3>5
  <2>3. CASE UNCHANGED vars
    <3>1. UNCHANGED <<campaigns, investments, refunded, milestones, releases, paidOut>>
      BY <2>3 DEF crowdfundingState, fundingVars, milestoneVars
    <3>2. CampaignInv'
      BY <3>1, CampaignFrames DEF CampaignInv
    <3>3. UNCHANGED <<block, fractionalAdminVars, lastPrice, shares, totalShares, shareOffers, pool, lpShares, auctions>>
      BY <2>3 DEF fractionalState
    <3>4. BackingInv'
      BY <2>3, BackingFrames DEF BackingInv, crowdfundingState, fundingVars, milestoneVars, ballotVars, shareVars
    <3> QED
      BY <3>2, <3>3, <3>4, BooksFrame, OffersFrame
  <2> QED
    BY <2>1, <2>2, <2>3 DEF ShareLedgerNext
<1>3. Inv => ShareBooksAgree
  <2> SUFFICES ASSUME FractionalInv, OffersInv, CampaignInv, BackingInv
               PROVE  ShareBooksAgree
    OBVIOUS
  <2>1. CampaignBooksAgree
    <3> SUFFICES ASSUME NEW c \in DOMAIN campaigns
                 PROVE  /\ campaigns[c].raised = SumFunctionOnSet(investments[c], Investors)
                        /\ campaigns[c].status = "Funded" => campaigns[c].raised >= campaigns[c].target
                        /\ campaigns[c].investors >= Cardinality({a \in Investors : investments[c][a] > 0})
                        /\ releases[c].count >= Cardinality(Released(milestones, c))
                        /\ releases[c].capital >= Capital(milestones, c)
                        /\ \A a \in Investors : paidOut[c][a] <= investments[c][a]
      BY Zenon DEF CampaignBooksAgree, Released, Capital
    <3>1. c \in campaignIds
      BY CampaignNumbers DEF CampaignInv
    <3>2. CampaignGood(campaigns[c], investments[c])
      BY DEF CampaignInv, FundsInv
    <3>3. releases[c].count >= Cardinality(Released(milestones, c)) /\ releases[c].capital >= Capital(milestones, c)
      BY <3>1 DEF CampaignInv, MilestonesInv
    <3>4. \A a \in Investors : paidOut[c][a] <= investments[c][a]
      BY <3>1 DEF CampaignInv, RefundsInv
    <3> QED
      BY <3>2, <3>3, <3>4 DEF CampaignGood, Backers
  <2>2. SharesAccountedFor
    <3>1. ASSUME NEW t \in Tokens
          PROVE  /\ totalShares[t] <= SumFunctionOnSet(shares[t], Holders) + InPool(pool[t])
                 /\ Liquidity(pool[t]) = SumFunctionOnSet(lpShares[t], Holders)
      BY DEF FractionalInv, TokensGood, TokenGood
    <3>2. \A n \in DOMAIN auctions : auctions[n].status = "Bid" =>
              auctions[n].paid >= auctions[n].shares * LessOf(auctions[n].start, auctions[n].end)
      BY DEF FractionalInv, AuctionsGood, PaidEnough
    <3> QED
      BY <3>1, <3>2, Zenon DEF SharesAccountedFor, InPool, Liquidity
  <2> QED
    BY <2>1, <2>2, FractionalTyped, CrowdfundingTyped DEF ShareBooksAgree
<1> QED
  BY <1>1, <1>2, <1>3, PTL DEF ShareLedgerSpec

----
(***************************************************************************)
(* Lending: what interest a loan is charged, what its parties agreed to,   *)
(* and which listings and offers became loans.                             *)
(***************************************************************************)

\* What the assumptions on the constants of lending say.
LEMMA LendingFacts ==
    /\ MaxLoans \in Nat /\ InterestScale \in Nat \ {0} /\ LendingAdmin \in Accounts
    /\ \A x \in Properties : x \in Nat
    /\ \A x \in ValueArgs : x \in Nat
    /\ \A x \in TermArgs : x \in Nat
    /\ \A x \in RateArgs : x \in Nat
  BY LendingConstants

Debt == [sum : Nat, rounded : Nat]

ChargedBy(l, b) == l.accrued * InterestScale + l.amount * l.rate * (b - l.last)

\* A loan that is in force, or that somebody asks to restructure, has a snapshot.
Running(id, l, asked) == l.status \in {"Active", "Restructured", "RestructuringProposed"} \/ id \in asked

LoanGood(id, l, b, debt, asked) ==
    /\ l \in Loan /\ debt \in Debt /\ l.last <= b
    /\ Running(id, l, asked) => l.last # 0
    /\ l.last # 0 => /\ ChargedBy(l, b) <= debt.sum
                     /\ debt.sum <= ChargedBy(l, b) + debt.rounded * (InterestScale - 1)

DebtsInv ==
    /\ block \in Nat \ {0}
    /\ loans \in Seq(Loan) /\ Len(loans) <= MaxLoans
    /\ owed \in [1..MaxLoans -> Debt]
    /\ \A id \in DOMAIN loans : LoanGood(id, loans[id], block, owed[id], DOMAIN restructurings)
    /\ \A id \in (1..MaxLoans) \ DOMAIN loans : owed[id] = NoDebt

Given(id, role, r) == [loan |-> id, role |-> role, term |-> r.term, rate |-> r.rate]

Agreed(id, r, given) ==
    /\ r.borrower => Given(id, "borrower", r) \in given
    /\ r.lender => Given(id, "lender", r) \in given

TermsInv ==
    /\ DOMAIN restructurings \subseteq DOMAIN loans
    /\ \A id \in DOMAIN restructurings :
          restructurings[id] \in Restructuring /\ Agreed(id, restructurings[id], consents)

Originated(list) == {l \in DOMAIN list : list[l].status = "Originated"}
Accepted(list, l) == {o \in DOMAIN list : list[o].listing = l /\ list[o].accepted}

ListingGood(list, l) ==
    /\ listings[l].accepted = Accepted(list, l)
    /\ listings[l].status = "Originated" => \E o \in DOMAIN list : Accepted(list, l) = {o}
    /\ listings[l].status # "Originated" => Accepted(list, l) = {}

MarketInv ==
    /\ listings \in Seq(Listing) /\ offers \in Seq(Offer)
    /\ \A o \in DOMAIN offers :
          offers[o].listing \in DOMAIN listings /\ offers[o].rate <= listings[offers[o].listing].maxRate
    /\ \A l \in DOMAIN listings : ListingGood(offers, l)

LoansCounted == applied \in Nat /\ Len(loans) = applied + Cardinality(Originated(listings))

CreditInv ==
    /\ profiles \in [Accounts -> [repaid : Nat, defaults : Nat, active : Nat]]
    /\ servicers \in Seq([account : Accounts, active : BOOLEAN])
    /\ \A p \in DOMAIN collateral : collateral[p].value \in Nat

LendingInv == CreditInv /\ DebtsInv /\ TermsInv /\ MarketInv /\ LoansCounted

Consented ==
    \A id \in DOMAIN loans :
        \/ loans'[id].term = loans[id].term /\ loans'[id].rate = loans[id].rate
        \/ {[loan |-> id, role |-> role, term |-> loans'[id].term, rate |-> loans'[id].rate] :
               role \in {"borrower", "lender"}} \subseteq consents'

\* Messages that leave the parts of the state alone.
LEMMA LendingFrames ==
    /\ CreditInv /\ UNCHANGED <<profiles, servicers, collateral>> => CreditInv'
    /\ DebtsInv /\ UNCHANGED <<block, loans, owed, restructurings>> => DebtsInv'
    /\ TermsInv /\ UNCHANGED <<loans, restructurings, consents>> => TermsInv'
    /\ MarketInv /\ UNCHANGED <<listings, offers>> => MarketInv'
    /\ LoansCounted /\ UNCHANGED <<loans, applied, listings>> => LoansCounted'
    /\ UNCHANGED loans => Consented
<1>1. CreditInv /\ UNCHANGED <<profiles, servicers, collateral>> => CreditInv'
  BY DEF CreditInv
<1>2. DebtsInv /\ UNCHANGED <<block, loans, owed, restructurings>> => DebtsInv'
  BY DEF DebtsInv
<1>3. TermsInv /\ UNCHANGED <<loans, restructurings, consents>> => TermsInv'
  BY DEF TermsInv
<1>4. MarketInv /\ UNCHANGED <<listings, offers>> => MarketInv'
  BY DEF MarketInv, ListingGood
<1>5. LoansCounted /\ UNCHANGED <<loans, applied, listings>> => LoansCounted'
  BY DEF LoansCounted
<1>6. UNCHANGED loans => Consented
  BY DEF Consented
<1> QED
  BY <1>1, <1>2, <1>3, <1>4, <1>5, <1>6

\* A loan's number is one of the numbers.
LEMMA LoanNumbers ==
    ASSUME DebtsInv
    PROVE  DOMAIN loans \subseteq 1..MaxLoans /\ Len(loans) \in Nat /\ DOMAIN loans = 1..Len(loans)
           /\ \A id \in DOMAIN loans : loans[id] \in Loan /\ owed[id] \in Debt
  BY LendingFacts DEF DebtsInv

\* One loan is written, with what it owes.
LEMMA DebtWritten ==
    ASSUME DebtsInv, NEW id \in DOMAIN loans, NEW d, NEW debt,
           loans' = Written(loans, id, d), owed' = Written(owed, id, debt), UNCHANGED block,
           DOMAIN restructurings' \subseteq DOMAIN restructurings \cup {id},
           LoanGood(id, d, block, debt, DOMAIN restructurings')
    PROVE  DebtsInv' /\ DOMAIN loans' = DOMAIN loans /\ Len(loans') = Len(loans) /\ loans'[id] = d
           /\ \A k \in DOMAIN loans \ {id} : loans'[k] = loans[k]
<1>1. d \in Loan /\ debt \in Debt /\ loans \in Seq(Loan) /\ id \in 1..MaxLoans
  BY LoanNumbers DEF LoanGood, DebtsInv
<1>2. /\ loans' \in Seq(Loan) /\ DOMAIN loans' = DOMAIN loans /\ Len(loans') = Len(loans)
      /\ loans'[id] = d /\ \A k \in DOMAIN loans \ {id} : loans'[k] = loans[k]
  BY <1>1, SeqWritten
<1>3. /\ owed' \in [1..MaxLoans -> Debt] /\ owed'[id] = debt
      /\ \A k \in (1..MaxLoans) \ {id} : owed'[k] = owed[k]
  BY <1>1 DEF DebtsInv, Written
<1>4. \A k \in DOMAIN loans' : LoanGood(k, loans'[k], block', owed'[k], DOMAIN restructurings')
  <2> SUFFICES ASSUME NEW k \in DOMAIN loans
               PROVE  LoanGood(k, loans'[k], block, owed'[k], DOMAIN restructurings')
    BY <1>2
  <2>1. CASE k = id
    BY <1>2, <1>3, <2>1
  <2>2. CASE k # id
    BY <1>2, <1>3, <2>2, LoanNumbers DEF DebtsInv, LoanGood, Running
  <2> QED
    BY <2>1, <2>2
<1>5. \A k \in (1..MaxLoans) \ DOMAIN loans' : owed'[k] = NoDebt
  BY <1>2, <1>3 DEF DebtsInv
<1> QED
  BY <1>1, <1>2, <1>3, <1>4, <1>5 DEF DebtsInv

\* A message that writes back a loan with the amounts and terms it had (assign_loan_servicer,
\* update_servicing_status, liquidate_loan, and underwrite_loan when it refuses).
LEMMA LoanKept ==
    ASSUME LendingInv, NEW id \in DOMAIN loans, NEW d \in Loan, loans' = Written(loans, id, d),
           d.term = loans[id].term, d.rate = loans[id].rate, d.amount = loans[id].amount,
           d.accrued = loans[id].accrued, d.last = loans[id].last,
           d.status \in {loans[id].status, "Pending", "Liquidated"},
           UNCHANGED <<block, owed, restructurings, consents, profiles, servicers, collateral, listings, offers, applied>>
    PROVE  LendingInv' /\ Consented
<1>1. CreditInv /\ DebtsInv /\ TermsInv /\ MarketInv /\ LoansCounted
  BY DEF LendingInv
<1>2. LoanGood(id, loans[id], block, owed[id], DOMAIN restructurings)
  BY <1>1 DEF DebtsInv
<1>3. Running(id, d, DOMAIN restructurings) => Running(id, loans[id], DOMAIN restructurings)
  BY DEF Running
<1>4. ChargedBy(d, block) = ChargedBy(loans[id], block)
  BY DEF ChargedBy
<1>5. LoanGood(id, d, block, owed[id], DOMAIN restructurings)
  BY <1>2, <1>3, <1>4 DEF LoanGood
<1>6. owed' = Written(owed, id, owed[id])
  BY <1>1, LoanNumbers DEF DebtsInv, Written
<1>7. /\ DebtsInv' /\ DOMAIN loans' = DOMAIN loans /\ Len(loans') = Len(loans) /\ loans'[id] = d
      /\ \A k \in DOMAIN loans \ {id} : loans'[k] = loans[k]
  BY <1>5, <1>6, <1>1, DebtWritten
<1>8. TermsInv'
  BY <1>1, <1>7 DEF TermsInv
<1>9. LoansCounted'
  BY <1>1, <1>7 DEF LoansCounted
<1>10. Consented
  BY <1>7 DEF Consented
<1> QED
  BY <1>1, <1>7, <1>8, <1>9, <1>10, LendingFrames DEF LendingInv

\* A new loan owes nothing yet, and nobody asks to restructure it.
LEMMA LoanAppended ==
    ASSUME DebtsInv, TermsInv, NEW d \in Loan, Len(loans) < MaxLoans, loans' = Append(loans, d),
           UNCHANGED <<block, owed, restructurings, consents>>,
           d.last <= block, d.accrued = 0, d.status = "Pending" \/ d.last = block, d.last \in {0, block}
    PROVE  DebtsInv' /\ TermsInv' /\ Consented /\ Len(loans') = Len(loans) + 1
<1> DEFINE n == Len(loans) + 1
<1>1. /\ loans' \in Seq(Loan) /\ Len(loans') = n /\ DOMAIN loans = 1..Len(loans) /\ Len(loans) \in Nat
      /\ DOMAIN loans' = DOMAIN loans \cup {n} /\ n \notin DOMAIN loans
      /\ loans'[n] = d /\ \A k \in DOMAIN loans : loans'[k] = loans[k]
  BY SeqAppended DEF DebtsInv
<1>2. n \in 1..MaxLoans /\ n <= MaxLoans
  BY <1>1, LendingFacts
<1>3. owed[n] = NoDebt /\ n \notin DOMAIN restructurings
  BY <1>1, <1>2 DEF DebtsInv, TermsInv
<1>4. LoanGood(n, d, block, owed[n], DOMAIN restructurings)
  <2>1. NoDebt \in Debt /\ NoDebt.sum = 0 /\ NoDebt.rounded = 0
    BY DEF NoDebt, Debt
  <2>2. d.last # 0 => ChargedBy(d, block) = 0
    BY LendingFacts, Products DEF Loan, DebtsInv, ChargedBy
  <2>3. Running(n, d, DOMAIN restructurings) => d.last # 0
    BY <1>3 DEF Running, DebtsInv
  <2>4. 0 * (InterestScale - 1) = 0
    BY LendingFacts
  <2> QED
    BY <1>3, <2>1, <2>2, <2>3, <2>4 DEF LoanGood
<1>5. \A k \in DOMAIN loans' : LoanGood(k, loans'[k], block, owed[k], DOMAIN restructurings)
  <2> HIDE DEF n
  <2> QED
    BY <1>1, <1>4 DEF DebtsInv
<1>6. \A k \in (1..MaxLoans) \ DOMAIN loans' : owed[k] = NoDebt
  BY <1>1 DEF DebtsInv
<1>7. DebtsInv'
  BY <1>1, <1>2, <1>5, <1>6 DEF DebtsInv
<1>8. TermsInv'
  BY <1>1 DEF TermsInv
<1>9. Consented
  BY <1>1 DEF Consented
<1> QED
  BY <1>1, <1>7, <1>8, <1>9

\* propose_loan_restructuring: the proposer's consent is to the terms proposed.
LEMMA ProposeKeeps ==
    ASSUME LendingInv, NEW caller \in Accounts, NEW id \in ids, NEW term \in TermArgs, NEW rate \in RateArgs,
           ProposeByConsent(caller, id, term, rate)
    PROVE  LendingInv' /\ Consented
<1>1. CreditInv /\ DebtsInv /\ TermsInv /\ MarketInv /\ LoansCounted
  BY DEF LendingInv
<1> DEFINE o == loans[id]
           d == [o EXCEPT !.status = "RestructuringProposed"]
           r == [term |-> term, rate |-> rate, borrower |-> caller = o.applicant, lender |-> caller = lendingAdmin]
<1>2. id \in DOMAIN loans /\ term # 0 /\ rate # 0 /\ o.status \in {"Active", "Restructured"}
  BY DEF ProposeByConsent, ProposeLoanRestructuring
<1>3. o \in Loan /\ LoanGood(id, o, block, owed[id], DOMAIN restructurings)
  BY <1>1, <1>2, LoanNumbers DEF DebtsInv
<1>4. loans' = Written(loans, id, d)
      /\ restructurings' = [k \in DOMAIN restructurings \cup {id} |-> IF k = id THEN r ELSE restructurings[k]]
  BY DEF ProposeByConsent, ProposeLoanRestructuring, SetLoan, Written
<1>5. UNCHANGED <<block, owed, profiles, servicers, collateral, listings, offers, applied>>
  BY DEF ProposeByConsent, ProposeLoanRestructuring, serviceVars, marketVars
<1>6. d \in Loan /\ d.term = o.term /\ d.rate = o.rate /\ d.amount = o.amount /\ d.accrued = o.accrued /\ d.last = o.last
  <2> HIDE DEF o
  <2> QED
    BY <1>3 DEF Loan, LoanStatus
<1>7. DOMAIN restructurings' = DOMAIN restructurings \cup {id}
  BY <1>4
<1> DEFINE debt == owed[id]
<1>8. LoanGood(id, d, block, debt, DOMAIN restructurings') /\ owed' = Written(owed, id, debt)
  <2>1. d.last # 0 /\ ChargedBy(d, block) = ChargedBy(o, block)
    BY <1>2, <1>3, <1>6 DEF LoanGood, Running, ChargedBy
  <2>2. owed' = Written(owed, id, debt)
    BY <1>1, <1>2, <1>5, LoanNumbers DEF DebtsInv, Written
  <2> HIDE DEF d, o, r
  <2> QED
    BY <1>3, <1>6, <2>1, <2>2 DEF LoanGood
<1> HIDE DEF d, debt
<1>9. /\ DebtsInv' /\ DOMAIN loans' = DOMAIN loans /\ Len(loans') = Len(loans) /\ loans'[id] = d
      /\ \A k \in DOMAIN loans \ {id} : loans'[k] = loans[k]
  BY <1>1, <1>2, <1>4, <1>5, <1>7, <1>8, DebtWritten
<1>10. TermsInv'
  <2>1. consents' = {c \in consents : c.loan # id} \cup Consent(caller, id, term, rate)
    BY DEF ProposeByConsent
  <2>2. r \in Restructuring
    BY <1>2, LendingFacts DEF Restructuring
  <2>3. Agreed(id, r, consents')
    BY <2>1 DEF Agreed, Given, Consent
  <2>4. ASSUME NEW k \in DOMAIN restructurings, k # id
        PROVE  restructurings'[k] = restructurings[k] /\ Agreed(k, restructurings[k], consents')
    BY <1>1, <2>1, <2>4, <1>4 DEF TermsInv, Given, Agreed
  <2>5. restructurings'[id] = r
    BY <1>4
  <2> HIDE DEF r
  <2>6. \A k \in DOMAIN restructurings' : restructurings'[k] \in Restructuring /\ Agreed(k, restructurings'[k], consents')
    BY <1>1, <1>7, <2>2, <2>3, <2>4, <2>5 DEF TermsInv
  <2> QED
    BY <1>1, <1>2, <1>7, <1>9, <2>6 DEF TermsInv
<1>11. Consented
  BY <1>6, <1>9 DEF Consented
<1>12. LoansCounted'
  BY <1>1, <1>5, <1>9 DEF LoansCounted
<1> QED
  BY <1>1, <1>5, <1>9, <1>10, <1>11, <1>12, LendingFrames DEF LendingInv

\* Interest accrued at the old rate, rounded down once, is what the blocks charged
\* (compute_accrued_interest, update_interest_snapshot).
LEMMA SnapshotCharges ==
    ASSUME block \in Nat \ {0}, NEW l \in Loan, l.last # 0, l.last <= block, NEW debt \in Debt,
           ChargedBy(l, block) <= debt.sum, debt.sum <= ChargedBy(l, block) + debt.rounded * (InterestScale - 1),
           NEW d \in Loan, d.accrued = l.accrued + Interest(l.amount, l.rate, block - l.last), d.last = block
    PROVE  /\ ChargedBy(d, block) <= debt.sum
           /\ debt.sum <= ChargedBy(d, block) + (debt.rounded + 1) * (InterestScale - 1)
           /\ l.last = block => debt.sum <= ChargedBy(d, block) + debt.rounded * (InterestScale - 1)
           /\ Interest(l.amount, l.rate, block - l.last) \in Nat
<1> DEFINE k == InterestScale
           e == block - l.last
           x == l.amount * l.rate
           n == x * e
           i == Interest(l.amount, l.rate, e)
           a == l.accrued
           s == debt.sum
           w == debt.rounded
<1>1. k \in Nat \ {0} /\ e \in Nat /\ a \in Nat /\ s \in Nat /\ w \in Nat /\ x \in Nat
  BY LendingFacts, Products DEF Loan, Debt
<1>2. n \in Nat
  BY <1>1, Products
<1>3. i = n \div k
  BY DEF Interest
<1>4. i \in Nat /\ k * i <= n /\ n < k * i + k
  <2> HIDE DEF k, n, i
  <2> QED
    BY <1>1, <1>2, <1>3
<1>5. ChargedBy(l, block) = a * k + n
  BY DEF ChargedBy
<1>6. ChargedBy(d, block) = (a + i) * k + (d.amount * d.rate) * 0
  BY DEF ChargedBy
<1>7. (d.amount * d.rate) * 0 = 0
  BY Products DEF Loan
<1>8. l.last = block => n = 0
  BY <1>1
<1> DEFINE p == a * k
           q == k * i
           z == w * (k - 1)
<1>9. ChargedBy(d, block) = p + q
  BY <1>1, <1>4, <1>6, <1>7, Products
<1>10. (w + 1) * (k - 1) = z + (k - 1)
  BY <1>1
<1>11. p \in Nat /\ q \in Nat /\ z \in Nat
  BY <1>1, <1>4, Products
<1>12. ChargedBy(l, block) = p + n /\ p + n <= s /\ s <= p + n + z
  BY <1>5
<1> HIDE DEF k, e, x, n, i, a, s, w, p, q, z
<1>13. q <= n /\ n <= q + (k - 1) /\ (n = 0 => q = 0)
  BY <1>4, <1>1, <1>2, <1>11 DEF q
<1>14. p + q <= s /\ s <= (p + q) + (z + (k - 1)) /\ (n = 0 => s <= (p + q) + z)
  BY <1>1, <1>2, <1>11, <1>12, <1>13
<1>15. ChargedBy(d, block) <= s /\ s <= ChargedBy(d, block) + (w + 1) * (k - 1)
       /\ (n = 0 => s <= ChargedBy(d, block) + w * (k - 1))
  BY <1>9, <1>10, <1>14 DEF z
<1> QED
  BY <1>4, <1>8, <1>15 DEF s, w, k, i, e

\* approve_loan_restructuring: terms change once both parties gave their consent to them.
LEMMA ApproveKeeps ==
    ASSUME LendingInv, NEW caller \in Accounts, NEW id \in ids, ApproveByConsent(caller, id)
    PROVE  LendingInv' /\ Consented
<1>1. CreditInv /\ DebtsInv /\ TermsInv /\ MarketInv /\ LoansCounted
  BY DEF LendingInv
<1> DEFINE o == loans[id]
           old == restructurings[id]
           by == (caller = o.applicant)
           r == [old EXCEPT !.borrower = @ \/ by, !.lender = @ \/ ~by]
<1>2. id \in DOMAIN restructurings /\ id \in DOMAIN loans /\ (by \/ caller = lendingAdmin)
  BY <1>1 DEF ApproveByConsent, ApproveLoanRestructuring, TermsInv
<1>3. o \in Loan /\ LoanGood(id, o, block, owed[id], DOMAIN restructurings) /\ owed[id] \in Debt
  BY <1>1, <1>2, LoanNumbers DEF DebtsInv
<1>4. old \in Restructuring /\ Agreed(id, old, consents)
  BY <1>1, <1>2 DEF TermsInv
<1>5. r \in Restructuring /\ r.term = old.term /\ r.rate = old.rate
      /\ r.borrower = (old.borrower \/ by) /\ r.lender = (old.lender \/ ~by)
  <2> HIDE DEF old, by
  <2> QED
    BY <1>4 DEF Restructuring
<1>6. consents' = consents \cup Consent(caller, id, old.term, old.rate)
  BY DEF ApproveByConsent
<1>7. Agreed(id, r, consents')
  <2>1. by => Given(id, "borrower", r) \in consents'
    BY <1>5, <1>6 DEF Given, Consent
  <2>2. ~by => Given(id, "lender", r) \in consents'
    BY <1>2, <1>5, <1>6 DEF Given, Consent
  <2>3. \A role : Given(id, role, r) = Given(id, role, old)
    BY <1>5 DEF Given
  <2> HIDE DEF r, old, by
  <2> QED
    BY <1>4, <1>5, <1>6, <2>1, <2>2, <2>3 DEF Agreed
<1>8. UNCHANGED <<block, profiles, servicers, collateral, listings, offers, applied>>
  BY DEF ApproveByConsent, ApproveLoanRestructuring, serviceVars, marketVars
<1>9. /\ \/ /\ r.borrower /\ r.lender
            /\ SetLoan(id, Restructured(o, r))
            /\ restructurings' = [k \in DOMAIN restructurings \ {id} |-> restructurings[k]]
         \/ /\ restructurings' = [restructurings EXCEPT ![id] = r]
            /\ UNCHANGED loans
      /\ owed' = IF id \in DOMAIN restructurings' \/ o.last = block THEN owed
                 ELSE [owed EXCEPT ![id].rounded = @ + 1]
  BY DEF ApproveByConsent, ApproveLoanRestructuring
<1>10. ASSUME NEW k, NEW s, Agreed(k, s, consents)
       PROVE  Agreed(k, s, consents')
  BY <1>6, <1>10 DEF Agreed
<1>11. CASE restructurings' = [restructurings EXCEPT ![id] = r] /\ UNCHANGED loans
  <2>1. DOMAIN restructurings' = DOMAIN restructurings /\ restructurings'[id] = r
        /\ \A k \in DOMAIN restructurings \ {id} : restructurings'[k] = restructurings[k]
    BY <1>2, <1>11
  <2>2. owed' = owed
    BY <1>2, <1>9, <2>1
  <2>3. DebtsInv'
    BY <1>1, <1>8, <1>11, <2>1, <2>2 DEF DebtsInv
  <2> HIDE DEF r
  <2>4. \A k \in DOMAIN restructurings' : restructurings'[k] \in Restructuring /\ Agreed(k, restructurings'[k], consents')
    BY <1>1, <1>5, <1>7, <1>10, <2>1 DEF TermsInv
  <2>5. TermsInv'
    BY <1>1, <1>11, <2>1, <2>4 DEF TermsInv
  <2> QED
    BY <1>1, <1>8, <1>11, <2>3, <2>5, LendingFrames DEF LendingInv
<1>12. CASE /\ r.borrower /\ r.lender /\ SetLoan(id, Restructured(o, r))
            /\ restructurings' = [k \in DOMAIN restructurings \ {id} |-> restructurings[k]]
  <2> DEFINE d == Restructured(o, r)
             debt == [owed[id] EXCEPT !.rounded = @ + (IF o.last = block THEN 0 ELSE 1)]
  <2>1. o.last # 0 /\ o.last <= block /\ block \in Nat \ {0}
        /\ ChargedBy(o, block) <= owed[id].sum /\ owed[id].sum <= ChargedBy(o, block) + owed[id].rounded * (InterestScale - 1)
    BY <1>1, <1>2, <1>3 DEF LoanGood, Running, DebtsInv
  <2> DEFINE i == Interest(o.amount, o.rate, block - o.last)
  <2>2. i \in Nat
    <3> DEFINE x == o.amount * o.rate
               e == block - o.last
               n == x * e
    <3>1. x \in Nat /\ e \in Nat /\ InterestScale \in Nat \ {0}
      BY <1>3, <2>1, LendingFacts, Products DEF Loan
    <3>2. n \in Nat
      BY <3>1, Products
    <3>3. i = n \div InterestScale
      BY DEF Interest
    <3> HIDE DEF n, i
    <3> QED
      BY <3>1, <3>2, <3>3, RoundedDown
  <2>3. d \in Loan /\ d.term = r.term /\ d.rate = r.rate /\ d.accrued = o.accrued + i /\ d.last = block
        /\ d.status = "Restructured"
    <3>1. Snapshot(o) = [o EXCEPT !.accrued = o.accrued + i, !.last = block]
      BY <2>1 DEF Snapshot
    <3>2. o.accrued + i \in Nat /\ block \in Nat /\ r.term \in Nat /\ r.rate \in Nat
      <4>1. o.accrued \in Nat
        BY <1>3 DEF Loan
      <4>2. r.term \in Nat /\ r.rate \in Nat
        <5> HIDE DEF r
        <5> QED
          BY <1>5 DEF Restructuring
      <4> HIDE DEF o, i, r
      <4> QED
        BY <2>1, <2>2, <4>1, <4>2
    <3> DEFINE y == o.accrued + i
               t == r.term
               u == r.rate
    <3>3. d = [[o EXCEPT !.accrued = y, !.last = block] EXCEPT !.term = t, !.rate = u, !.status = "Restructured"]
      BY <3>1 DEF Restructured
    <3>4. y \in Nat /\ t \in Nat /\ u \in Nat
      BY <3>2
    <3> HIDE DEF o, y, t, u, d
    <3>5. d \in Loan /\ d.term = t /\ d.rate = u /\ d.accrued = y /\ d.last = block /\ d.status = "Restructured"
      BY <1>3, <2>1, <3>3, <3>4 DEF Loan, LoanStatus
    <3> QED
      BY <3>5 DEF y, t, u
  <2>4. debt \in Debt /\ debt.sum = owed[id].sum
        /\ debt.rounded = owed[id].rounded + (IF o.last = block THEN 0 ELSE 1) /\ owed[id].rounded \in Nat
    BY <1>3 DEF Debt
  <2>5. id \notin DOMAIN restructurings' /\ DOMAIN restructurings' = DOMAIN restructurings \ {id}
        /\ \A k \in DOMAIN restructurings' : restructurings'[k] = restructurings[k]
    BY <1>12
  <2>6. owed' = Written(owed, id, debt)
    <3>1. CASE o.last = block
      BY <1>3, <1>9, <3>1, <1>1 DEF Debt, DebtsInv, Written
    <3>2. CASE o.last # block
      BY <1>9, <2>5, <3>2 DEF Written
    <3> QED
      BY <3>1, <3>2
  <2>7. LoanGood(id, d, block, debt, DOMAIN restructurings')
    <3> DEFINE g == owed[id]
    <3> HIDE DEF o, d, i, g, debt
    <3>1. /\ ChargedBy(d, block) <= g.sum /\ g.sum <= ChargedBy(d, block) + (g.rounded + 1) * (InterestScale - 1)
          /\ o.last = block => g.sum <= ChargedBy(d, block) + g.rounded * (InterestScale - 1)
      BY <1>3, <2>1, <2>3, SnapshotCharges DEF g, i
    <3>2. debt.sum <= ChargedBy(d, block) + debt.rounded * (InterestScale - 1) /\ ChargedBy(d, block) <= debt.sum
      <4>1. CASE o.last = block
        BY <2>4, <4>1, <3>1 DEF g
      <4>2. CASE o.last # block
        BY <2>4, <4>2, <3>1 DEF g
      <4> QED
        BY <4>1, <4>2
    <3> QED
      BY <2>1, <2>3, <2>4, <3>2 DEF LoanGood
  <2>8. loans' = Written(loans, id, d)
    BY <1>12 DEF SetLoan, Written
  <2> HIDE DEF d, debt, i
  <2>9. /\ DebtsInv' /\ DOMAIN loans' = DOMAIN loans /\ Len(loans') = Len(loans) /\ loans'[id] = d
        /\ \A k \in DOMAIN loans \ {id} : loans'[k] = loans[k]
    BY <1>1, <1>2, <1>8, <2>5, <2>6, <2>7, <2>8, DebtWritten
  <2>10. TermsInv'
    BY <1>1, <1>10, <2>5, <2>9 DEF TermsInv
  <2>11. Consented
    BY <1>7, <1>12, <2>3, <2>9 DEF Agreed, Given, Consented
  <2>12. LoansCounted'
    BY <1>1, <1>8, <2>9 DEF LoansCounted
  <2> QED
    BY <1>1, <1>8, <2>9, <2>10, <2>11, <2>12, LendingFrames DEF LendingInv
<1> QED
  BY <1>9, <1>11, <1>12

\* A loan whose snapshot is of this block, with nothing accrued, was charged nothing.
LEMMA NothingCharged ==
    ASSUME block \in Nat, NEW d \in Loan, d.accrued = 0, d.last = block
    PROVE  ChargedBy(d, block) = 0
  BY LendingFacts, Products DEF Loan, ChargedBy

\* underwrite_loan: an approved loan is charged from this block on, whatever it was charged
\* before; a refused one keeps its amounts, its terms and what it was charged.
LEMMA UnderwriteKeeps ==
    ASSUME LendingInv, NEW caller \in Accounts, NEW id \in ids, UnderwriteAndCharge(caller, id)
    PROVE  LendingInv' /\ Consented
<1>1. CreditInv /\ DebtsInv /\ TermsInv /\ MarketInv /\ LoansCounted
  BY DEF LendingInv
<1> DEFINE o == loans[id]
           who == o.applicant
           d == [o EXCEPT !.accrued = 0, !.last = block, !.status = "Active"]
           refused == [o EXCEPT !.status = "Pending"]
<1>2. id \in DOMAIN loans
  BY DEF UnderwriteAndCharge, UnderwriteLoan
<1>3. o \in Loan /\ block \in Nat \ {0}
  BY <1>1, <1>2, LoanNumbers DEF DebtsInv
<1>4. UNCHANGED <<block, restructurings, consents, servicers, collateral, listings, offers, applied>>
  BY DEF UnderwriteAndCharge, UnderwriteLoan, serviceVars, marketVars
<1>5. /\ \/ profiles' = [profiles EXCEPT ![who].active = @ + 1] /\ loans' = Written(loans, id, d)
         \/ UNCHANGED profiles /\ loans' = Written(loans, id, refused)
      /\ owed' = IF profiles' = profiles THEN owed ELSE Written(owed, id, NoDebt)
  BY DEF UnderwriteAndCharge, UnderwriteLoan, SetLoan, Written
<1>6. CASE UNCHANGED profiles /\ loans' = Written(loans, id, refused)
  <2>1. /\ refused \in Loan /\ refused.term = o.term /\ refused.rate = o.rate /\ refused.amount = o.amount
        /\ refused.accrued = o.accrued /\ refused.last = o.last /\ refused.status = "Pending"
    BY <1>3 DEF Loan, LoanStatus
  <2>2. owed' = owed
    BY <1>5, <1>6
  <2> HIDE DEF refused
  <2> QED
    BY <1>2, <1>4, <1>6, <2>1, <2>2, LoanKept
<1>7. CASE profiles' = [profiles EXCEPT ![who].active = @ + 1] /\ loans' = Written(loans, id, d)
  <2>1. profiles' \in [Accounts -> [repaid : Nat, defaults : Nat, active : Nat]] /\ profiles' # profiles
    <3> DEFINE e == profiles[who]
               f == [e EXCEPT !.active = @ + 1]
    <3>1. who \in Accounts
      BY <1>3 DEF Loan
    <3>2. e \in [repaid : Nat, defaults : Nat, active : Nat]
      BY <1>1, <3>1 DEF CreditInv
    <3>3. profiles' = Written(profiles, who, f)
      BY <1>7 DEF Written
    <3>4. f \in [repaid : Nat, defaults : Nat, active : Nat] /\ f.active = e.active + 1 /\ e.active \in Nat
      BY <3>2
    <3> HIDE DEF f, who
    <3>5. profiles' \in [Accounts -> [repaid : Nat, defaults : Nat, active : Nat]] /\ profiles'[who] = f
      BY <1>1, <3>1, <3>3, <3>4 DEF CreditInv, Written
    <3>6. f # e
      BY <3>4
    <3> QED
      BY <3>5, <3>6
  <2>2. /\ d \in Loan /\ d.term = o.term /\ d.rate = o.rate /\ d.accrued = 0 /\ d.last = block
        /\ d.status = "Active"
    <3> HIDE DEF o
    <3> QED
      BY <1>3 DEF Loan, LoanStatus
  <2>3. owed' = Written(owed, id, NoDebt)
    BY <1>5, <2>1
  <2> HIDE DEF d
  <2>4. LoanGood(id, d, block, NoDebt, DOMAIN restructurings')
    BY <1>3, <2>2, NothingCharged, LendingFacts DEF NoDebt, Debt, LoanGood
  <2>5. /\ DebtsInv' /\ DOMAIN loans' = DOMAIN loans /\ Len(loans') = Len(loans) /\ loans'[id] = d
        /\ \A k \in DOMAIN loans \ {id} : loans'[k] = loans[k]
    BY <1>1, <1>2, <1>4, <1>7, <2>3, <2>4, DebtWritten
  <2>6. CreditInv'
    BY <1>1, <1>4, <2>1 DEF CreditInv
  <2>7. TermsInv'
    BY <1>1, <1>4, <2>5 DEF TermsInv
  <2>8. LoansCounted'
    BY <1>1, <1>4, <2>5 DEF LoansCounted
  <2>9. Consented
    BY <2>2, <2>5 DEF Consented
  <2> QED
    BY <1>1, <1>4, <2>5, <2>6, <2>7, <2>8, <2>9, LendingFrames DEF LendingInv
<1> QED
  BY <1>5, <1>6, <1>7

\* What is charged grows by the amount times the rate in a block.
LEMMA ChargedLater ==
    ASSUME NEW l \in Loan, NEW b \in Nat, l.last <= b
    PROVE  ChargedBy(l, b + 1) = ChargedBy(l, b) + l.amount * l.rate
<1> DEFINE x == l.amount * l.rate
           p == l.accrued * InterestScale
           e == b - l.last
<1>1. x \in Nat /\ p \in Nat /\ e \in Nat /\ l.last \in Nat
  BY LendingFacts, Products DEF Loan
<1>2. (b + 1) - l.last = e + 1
  BY <1>1
<1>3. x * (e + 1) = x * e + x /\ x * e \in Nat
  BY <1>1, Products
<1>4. ChargedBy(l, b) = p + x * e /\ ChargedBy(l, b + 1) = p + x * ((b + 1) - l.last)
  BY Zenon DEF ChargedBy
<1> HIDE DEF x, p, e
<1>5. ChargedBy(l, b + 1) = p + (x * e + x)
  BY <1>2, <1>3, <1>4
<1>6. ChargedBy(l, b + 1) = ChargedBy(l, b) + x
  BY <1>1, <1>3, <1>4, <1>5
<1> QED
  BY <1>6 DEF x

\* In a block every loan runs up its amount times its rate.
LEMMA BlockKeepsDebts ==
    ASSUME LendingInv, BlockCharged
    PROVE  LendingInv' /\ Consented
<1>1. CreditInv /\ DebtsInv /\ TermsInv /\ MarketInv /\ LoansCounted
  BY DEF LendingInv
<1>2. /\ block' = block + 1
      /\ UNCHANGED <<loans, restructurings, profiles, servicers, collateral, listings, offers, consents, applied>>
  BY DEF BlockCharged, LendingTimeNext, NextBlock, loanVars, serviceVars, marketVars
<1> DEFINE more(id) == loans[id].amount * loans[id].rate
           debt(id) == [owed[id] EXCEPT !.sum = @ + more(id)]
<1>3. owed' = [id \in 1..MaxLoans |-> IF id \in DOMAIN loans THEN debt(id) ELSE owed[id]]
  BY DEF BlockCharged
<1>4. ASSUME NEW id \in DOMAIN loans
      PROVE  /\ more(id) \in Nat /\ debt(id) \in Debt /\ debt(id).rounded = owed[id].rounded
             /\ debt(id).sum = owed[id].sum + more(id)
  <2> DEFINE o == loans[id]
             g == owed[id]
             m == more(id)
  <2>1. o \in Loan /\ g \in Debt
    BY <1>1, LoanNumbers
  <2>2. m \in Nat
    <3>1. o.amount \in Nat /\ o.rate \in Nat
      BY <2>1 DEF Loan
    <3> QED
      BY <3>1, Products
  <2>3. debt(id) = [g EXCEPT !.sum = @ + m]
    OBVIOUS
  <2> HIDE DEF m, g, debt
  <2>4. debt(id) \in Debt /\ debt(id).rounded = g.rounded /\ debt(id).sum = g.sum + m
    BY <2>1, <2>2, <2>3 DEF Debt
  <2> QED
    BY <2>2, <2>4 DEF g, m
<1>5. \A id \in DOMAIN loans : id \in 1..MaxLoans
  BY <1>1, LoanNumbers
<1> HIDE DEF debt
<1>6. owed' \in [1..MaxLoans -> Debt]
  BY <1>1, <1>3, <1>4 DEF DebtsInv
<1>7. ASSUME NEW id \in DOMAIN loans
      PROVE  LoanGood(id, loans[id], block + 1, debt(id), DOMAIN restructurings)
  <2> DEFINE l == loans[id]
             x == l.amount * l.rate
             e == block - l.last
             p == l.accrued * InterestScale
             n == x * e
             z == owed[id].rounded * (InterestScale - 1)
  <2>1. LoanGood(id, l, block, owed[id], DOMAIN restructurings) /\ block \in Nat
    BY <1>1 DEF DebtsInv
  <2>2. x \in Nat /\ e \in Nat /\ InterestScale \in Nat \ {0} /\ l.last \in Nat /\ l.accrued \in Nat
        /\ owed[id].rounded \in Nat /\ owed[id].sum \in Nat
    BY <2>1, LendingFacts, Products DEF Loan, LoanGood, Debt
  <2>3. p \in Nat /\ n \in Nat
    BY <2>2, Products
  <2>4. z \in Nat
    BY <2>2, Products
  <2>5. ChargedBy(l, block) = p + n
    BY DEF ChargedBy
  <2>6. ChargedBy(l, block + 1) = (p + n) + x
    BY <2>1, <2>5, ChargedLater DEF LoanGood
  <2>7. x = more(id)
    OBVIOUS
  <2> HIDE DEF more
  <2>8. debt(id).sum = owed[id].sum + x /\ debt(id).rounded = owed[id].rounded /\ debt(id) \in Debt
    BY <1>4, <2>7
  <2> HIDE DEF l, x, e, p, n
  <2>9. l.last # 0 => /\ ChargedBy(l, block + 1) <= debt(id).sum
                      /\ debt(id).sum <= ChargedBy(l, block + 1) + debt(id).rounded * (InterestScale - 1)
    BY <2>1, <2>5, <2>8, <2>2, <2>3, <2>4, <2>6 DEF LoanGood
  <2>10. l \in Loan /\ l.last <= block + 1 /\ (Running(id, l, DOMAIN restructurings) => l.last # 0)
    BY <2>1, <2>2 DEF LoanGood
  <2>11. LoanGood(id, l, block + 1, debt(id), DOMAIN restructurings)
    BY <2>8, <2>9, <2>10 DEF LoanGood
  <2> QED
    BY <2>11 DEF l
<1> HIDE DEF more
<1>8. \A id \in DOMAIN loans : owed'[id] = debt(id)
  BY <1>3, <1>5
<1>9. \A id \in (1..MaxLoans) \ DOMAIN loans : owed'[id] = NoDebt
  BY <1>1, <1>3 DEF DebtsInv
<1>10. block + 1 \in Nat \ {0}
  BY <1>1 DEF DebtsInv
<1>11. DebtsInv'
  BY <1>1, <1>2, <1>6, <1>7, <1>8, <1>9, <1>10 DEF DebtsInv
<1> QED
  BY <1>1, <1>2, <1>11, LendingFrames DEF LendingInv

\* A loan applied for is added, and counted.
LEMMA ApplicationKept ==
    ASSUME LendingInv, NEW d \in Loan, Len(loans) < MaxLoans, loans' = Append(loans, d),
           d.accrued = 0, d.last = 0, d.status = "Pending", applied' = applied + 1,
           UNCHANGED <<block, owed, restructurings, consents, profiles, servicers, collateral, listings, offers>>
    PROVE  LendingInv' /\ Consented
<1>1. CreditInv /\ DebtsInv /\ TermsInv /\ MarketInv /\ LoansCounted
  BY DEF LendingInv
<1>2. d.last <= block
  BY <1>1 DEF DebtsInv
<1>3. DebtsInv' /\ TermsInv' /\ Consented /\ Len(loans') = Len(loans) + 1
  BY <1>1, <1>2, LoanAppended
<1>4. LoansCounted'
  <2> DEFINE many == Cardinality(Originated(listings))
  <2>1. Len(loans) = applied + many /\ applied \in Nat /\ Len(loans) \in Nat
    BY <1>1, LoanNumbers DEF LoansCounted
  <2>2. many \in Nat
    <3>1. Originated(listings) \subseteq 1..Len(listings) /\ Len(listings) \in Nat
      BY <1>1 DEF MarketInv, Originated
    <3>2. IsFiniteSet(1..Len(listings))
      BY <3>1, FS_Interval
    <3>3. IsFiniteSet(Originated(listings))
      BY <3>1, <3>2, FS_Subset
    <3> QED
      BY <3>3, FS_CardinalityType
  <2>3. Cardinality(Originated(listings)') = many
    OBVIOUS
  <2> HIDE DEF many
  <2>4. Len(loans') = applied' + many /\ applied' \in Nat
    BY <1>3, <2>1, <2>2
  <2> QED
    BY <2>3, <2>4 DEF LoansCounted, many
<1> QED
  BY <1>1, <1>3, <1>4, LendingFrames DEF LendingInv

\* apply_for_loan and apply_for_property_backed_loan: a loan with its terms, not yet charged.
LEMMA ApplyKeeps ==
    ASSUME LendingInv, ApplyNext, applied' = applied + 1, UNCHANGED <<consents, owed>>
    PROVE  LendingInv' /\ Consented
<1>1. PICK a \in Accounts, p \in Properties, amount \in ValueArgs, term \in TermArgs, rate \in RateArgs :
          \/ \E value \in ValueArgs, fixed \in BOOLEAN : ApplyForLoan(a, p, amount, value, term, rate, fixed)
          \/ ApplyForPropertyBackedLoan(a, p, amount, term, rate)
  BY DEF ApplyNext
<1>2. ASSUME NEW value \in Nat, NEW fixed \in BOOLEAN, amount # 0, Len(loans) < MaxLoans,
             loans' = Append(loans, NewLoan(a, p, amount, value, term, rate, fixed)),
             UNCHANGED <<block, restructurings, profiles, servicers, collateral, listings, offers>>
      PROVE  LendingInv' /\ Consented
  BY <1>2, LendingFacts, ApplicationKept DEF NewLoan, Loan, LoanStatus
<1>3. CASE \E value \in ValueArgs, fixed \in BOOLEAN : ApplyForLoan(a, p, amount, value, term, rate, fixed)
  BY <1>3, LendingFacts, <1>2 DEF ApplyForLoan, serviceVars, marketVars
<1>4. CASE ApplyForPropertyBackedLoan(a, p, amount, term, rate)
  <2> DEFINE value == collateral[p].value
             fixed == FALSE
  <2>1. /\ amount # 0 /\ Len(loans) < MaxLoans /\ p \in DOMAIN collateral
        /\ loans' = Append(loans, NewLoan(a, p, amount, value, term, rate, fixed))
        /\ UNCHANGED <<block, restructurings, profiles, servicers, collateral, listings, offers>>
    BY <1>4 DEF ApplyForPropertyBackedLoan, serviceVars, marketVars
  <2>2. value \in Nat /\ fixed \in BOOLEAN
    BY <2>1 DEF LendingInv, CreditInv
  <2> HIDE DEF value, fixed
  <2> QED
    BY <1>2, <2>1, <2>2
<1> QED
  BY <1>1, <1>3, <1>4

\* record_repayment and record_default write the borrower's record, and no loan.
LEMMA CreditKeeps ==
    ASSUME LendingInv, CreditNext, UNCHANGED loanLedgers
    PROVE  LendingInv' /\ Consented
<1>1. CreditInv /\ DebtsInv /\ TermsInv /\ MarketInv /\ LoansCounted
  BY DEF LendingInv
<1>2. PICK b \in Accounts : RecordCredit(b, "repaid") \/ RecordCredit(b, "defaults")
  BY DEF CreditNext, RecordRepayment, RecordDefault
<1>3. UNCHANGED <<block, loans, restructurings, servicers, collateral, listings, offers, consents, owed, applied>>
  BY <1>2 DEF RecordCredit, serviceVars, marketVars, loanLedgers
<1> DEFINE e == profiles[b]
           m == Minus(e.active, 1)
           f == [e EXCEPT !.repaid = @ + 1, !.active = m]
           g == [e EXCEPT !.defaults = @ + 1, !.active = m]
<1>4. e \in [repaid : Nat, defaults : Nat, active : Nat]
  BY <1>1 DEF CreditInv
<1>5. m \in Nat
  <2> HIDE DEF e
  <2> QED
    BY <1>4 DEF Minus
<1>6. profiles' = Written(profiles, b, f) \/ profiles' = Written(profiles, b, g)
  <2>1. CASE RecordCredit(b, "repaid")
    BY <1>1, <2>1 DEF RecordCredit, Written, CreditInv
  <2>2. CASE RecordCredit(b, "defaults")
    BY <1>1, <2>2 DEF RecordCredit, Written, CreditInv
  <2> QED
    BY <1>2, <2>1, <2>2
<1>7. f \in [repaid : Nat, defaults : Nat, active : Nat] /\ g \in [repaid : Nat, defaults : Nat, active : Nat]
  <2> DEFINE y == e.repaid + 1
             z == e.defaults + 1
  <2> HIDE DEF e, m
  <2>1. y \in Nat /\ z \in Nat
    BY <1>4
  <2> HIDE DEF y, z
  <2>2. [e EXCEPT !.repaid = y, !.active = m] \in [repaid : Nat, defaults : Nat, active : Nat]
    BY <1>4, <1>5, <2>1
  <2>3. [e EXCEPT !.defaults = z, !.active = m] \in [repaid : Nat, defaults : Nat, active : Nat]
    BY <1>4, <1>5, <2>1
  <2> QED
    BY <2>2, <2>3 DEF y, z
<1> HIDE DEF f, g
<1>8. profiles' \in [Accounts -> [repaid : Nat, defaults : Nat, active : Nat]]
  BY <1>1, <1>6, <1>7 DEF CreditInv, Written
<1>9. CreditInv'
  BY <1>1, <1>3, <1>8 DEF CreditInv
<1> QED
  BY <1>1, <1>3, <1>9, LendingFrames DEF LendingInv

\* Messages about servicers: what they write of a loan is its servicing.
LEMMA ServicingKeeps ==
    ASSUME LendingInv, ServicingNext, UNCHANGED loanLedgers
    PROVE  LendingInv' /\ Consented
<1>1. CreditInv /\ DebtsInv /\ TermsInv /\ MarketInv /\ LoansCounted
  BY DEF LendingInv
<1>2. PICK a \in Accounts :
        \/ \E b \in Accounts : RegisterLoanServicer(a, b)
        \/ \E s \in DOMAIN servicers, active \in BOOLEAN : SetLoanServicerActive(a, s, active)
        \/ \E id \in ids, s \in DOMAIN servicers : AssignLoanServicer(a, id, s)
        \/ \E id \in ids : UpdateServicingStatus(a, id)
        \/ \E id \in ids, s \in ScheduleArgs : CreatePaymentSchedule(a, id, s)
  BY DEF ServicingNext
<1>3. UNCHANGED <<owed, consents, applied>>
  BY DEF loanLedgers
<1>4. ASSUME servicers' \in Seq([account : Accounts, active : BOOLEAN]),
             UNCHANGED <<block, loans, restructurings, profiles, collateral, listings, offers>>
      PROVE  LendingInv' /\ Consented
  BY <1>1, <1>4, <1>3, LendingFrames DEF CreditInv, LendingInv
<1>5. servicers \in Seq([account : Accounts, active : BOOLEAN])
  BY <1>1 DEF CreditInv
<1>6. ASSUME NEW b \in Accounts, RegisterLoanServicer(a, b)
      PROVE  LendingInv' /\ Consented
  BY <1>6, <1>5, SeqAppended, <1>4 DEF RegisterLoanServicer, loanVars, marketVars
<1>7. ASSUME NEW s \in DOMAIN servicers, NEW active \in BOOLEAN, SetLoanServicerActive(a, s, active)
      PROVE  LendingInv' /\ Consented
  <2> DEFINE o == servicers[s]
             d == [o EXCEPT !.active = active]
  <2>1. o \in [account : Accounts, active : BOOLEAN]
    <3> DEFINE T == [account : Accounts, active : BOOLEAN]
    <3>1. servicers \in Seq(T)
      BY <1>5
    <3> HIDE DEF T
    <3>2. o \in T
      BY <3>1
    <3> QED
      BY <3>2 DEF T
  <2>2. d \in [account : Accounts, active : BOOLEAN]
    BY <2>1
  <2>3. servicers' = Written(servicers, s, d) /\ UNCHANGED <<block, loans, restructurings, profiles, collateral, listings, offers>>
    BY <1>7 DEF SetLoanServicerActive, loanVars, marketVars, Written
  <2> HIDE DEF d
  <2>4. servicers' \in Seq([account : Accounts, active : BOOLEAN])
    BY <1>5, <2>2, <2>3, SeqWritten
  <2> QED
    BY <1>4, <2>3, <2>4
<1>8. ASSUME NEW id \in DOMAIN loans, NEW servicer \in SUBSET Nat,
             NEW servicing \in {"Pending", "Boarded", "Originated", "Reported"},
             SetLoan(id, [loans[id] EXCEPT !.servicer = servicer, !.servicing = servicing]),
             UNCHANGED <<block, restructurings, profiles, servicers, collateral, listings, offers>>
      PROVE  LendingInv' /\ Consented
  <2> DEFINE o == loans[id]
             d == [o EXCEPT !.servicer = servicer, !.servicing = servicing]
  <2>1. o \in Loan
    BY <1>1, LoanNumbers
  <2>2. d \in Loan /\ d.term = o.term /\ d.rate = o.rate /\ d.amount = o.amount
        /\ d.accrued = o.accrued /\ d.last = o.last /\ d.status = o.status
    <3> HIDE DEF o
    <3> QED
      BY <2>1 DEF Loan
  <2>3. loans' = Written(loans, id, d)
    BY <1>8 DEF SetLoan, Written
  <2> HIDE DEF d
  <2> QED
    BY <1>3, <1>8, <2>2, <2>3, LoanKept
<1>9. ASSUME NEW id \in ids, NEW s \in DOMAIN servicers, AssignLoanServicer(a, id, s)
      PROVE  LendingInv' /\ Consented
  <2> DEFINE servicer == {s}
             servicing == "Boarded"
  <2>1. servicer \in SUBSET Nat /\ servicing \in {"Pending", "Boarded", "Originated", "Reported"}
    BY <1>5
  <2>2. /\ id \in DOMAIN loans /\ SetLoan(id, [loans[id] EXCEPT !.servicer = servicer, !.servicing = servicing])
        /\ UNCHANGED <<block, restructurings, profiles, servicers, collateral, listings, offers>>
    BY <1>9 DEF AssignLoanServicer, serviceVars, marketVars
  <2> HIDE DEF servicer, servicing
  <2> QED
    BY <1>8, <2>1, <2>2
<1>10. ASSUME NEW id \in ids, UpdateServicingStatus(a, id)
       PROVE  LendingInv' /\ Consented
  <2> DEFINE o == loans[id]
             d == [o EXCEPT !.servicing = "Reported"]
  <2>1. /\ id \in DOMAIN loans /\ loans' = Written(loans, id, d)
        /\ UNCHANGED <<block, restructurings, profiles, servicers, collateral, listings, offers>>
    BY <1>10 DEF UpdateServicingStatus, serviceVars, marketVars, SetLoan, Written
  <2>2. o \in Loan
    BY <1>1, <2>1, LoanNumbers
  <2>3. d \in Loan /\ d.term = o.term /\ d.rate = o.rate /\ d.amount = o.amount
        /\ d.accrued = o.accrued /\ d.last = o.last /\ d.status = o.status
    BY <2>2 DEF Loan
  <2> HIDE DEF d
  <2> QED
    BY <1>3, <2>1, <2>3, LoanKept
<1>11. ASSUME NEW id \in ids, NEW s \in ScheduleArgs, CreatePaymentSchedule(a, id, s)
       PROVE  LendingInv' /\ Consented
  BY <1>11, <1>4, <1>5 DEF CreatePaymentSchedule, loanVars, marketVars
<1> QED
  BY <1>2, <1>6, <1>7, <1>9, <1>10, <1>11

\* assess_collateral values a property; a liquidation ends a loan that keeps its amounts.
LEMMA CollateralKeeps ==
    ASSUME LendingInv, CollateralNext \/ LiquidateNext, UNCHANGED loanLedgers
    PROVE  LendingInv' /\ Consented
<1>1. CreditInv /\ DebtsInv /\ TermsInv /\ MarketInv /\ LoansCounted
  BY DEF LendingInv
<1>2. UNCHANGED <<owed, consents, applied>>
  BY DEF loanLedgers
<1>3. ASSUME NEW p \in Properties, NEW a \in Accounts, NEW value \in ValueArgs, NEW ratios \in RatioArgs,
             AssessCollateral(a, p, value, ratios)
      PROVE  LendingInv' /\ Consented
  <2> DEFINE d == [value |-> value, ltv |-> ratios[1], threshold |-> ratios[2]]
  <2>1. /\ collateral' = [q \in DOMAIN collateral \cup {p} |-> IF q = p THEN d ELSE collateral[q]]
        /\ UNCHANGED <<block, loans, restructurings, profiles, servicers, listings, offers>>
    BY <1>3 DEF AssessCollateral, serviceVars, marketVars
  <2>2. d.value \in Nat
    BY LendingFacts
  <2> HIDE DEF d
  <2>3. \A q \in DOMAIN collateral' : collateral'[q].value \in Nat
    BY <1>1, <2>1, <2>2 DEF CreditInv
  <2>4. CreditInv'
    BY <1>1, <2>1, <2>3 DEF CreditInv
  <2> QED
    BY <1>1, <1>2, <2>1, <2>4, LendingFrames DEF LendingInv
<1>4. ASSUME NEW p \in Properties, NEW id \in ids, PledgeAdditionalCollateral(id, p)
      PROVE  LendingInv' /\ Consented
  BY <1>4, <1>1, <1>2, LendingFrames DEF PledgeAdditionalCollateral, serviceVars, marketVars, LendingInv
<1>5. ASSUME NEW id \in ids, NEW prices \in Prices, LiquidateLoan(id, prices)
      PROVE  LendingInv' /\ Consented
  <2> DEFINE o == loans[id]
             d == [o EXCEPT !.status = "Liquidated"]
  <2>1. /\ id \in DOMAIN loans /\ loans' = Written(loans, id, d)
        /\ UNCHANGED <<block, restructurings, profiles, servicers, collateral, listings, offers>>
    BY <1>5 DEF LiquidateLoan, serviceVars, marketVars, SetLoan, Written
  <2>2. o \in Loan
    BY <1>1, <2>1, LoanNumbers
  <2>3. d \in Loan /\ d.term = o.term /\ d.rate = o.rate /\ d.amount = o.amount
        /\ d.accrued = o.accrued /\ d.last = o.last /\ d.status = "Liquidated"
    BY <2>2 DEF Loan, LoanStatus
  <2> HIDE DEF d
  <2> QED
    BY <1>2, <2>1, <2>3, LoanKept
<1>6. CASE CollateralNext
  BY <1>6, <1>3, <1>4 DEF CollateralNext
<1>7. CASE LiquidateNext
  BY <1>7, <1>5 DEF LiquidateNext
<1> QED
  BY <1>6, <1>7

\* Messages about pools, positions, yield, votes and the admin write no loan.
LEMMA OtherLendingKeeps ==
    ASSUME LendingInv, LendingPoolNext \/ LendingVoteNext \/ LendingRotationNext, UNCHANGED loanLedgers
    PROVE  LendingInv' /\ Consented
<1>1. LendingPoolNext => UNCHANGED <<block, loanVars, serviceVars, marketVars>>
  BY Zenon DEF LendingPoolNext, CreatePool, OpenPosition, StakeYield, Deposit, Borrow
<1>2. LendingVoteNext => UNCHANGED <<block, loanVars, serviceVars, marketVars>>
  BY Zenon DEF LendingVoteNext, Propose, VoteOnLending, ExecuteLendingProposal
<1>3. LendingRotationNext => UNCHANGED <<block, loanVars, serviceVars, marketVars>>
  BY Zenon DEF LendingRotationNext, AdminKey!RotationNext, AdminKey!RequestAdminRotation,
               AdminKey!ConfirmAdminRotation, AdminKey!CancelAdminRotation
<1>4. UNCHANGED <<block, loans, restructurings, profiles, servicers, collateral, listings, offers, owed, consents, applied>>
  BY <1>1, <1>2, <1>3 DEF loanVars, serviceVars, marketVars, loanLedgers
<1> QED
  BY <1>4, LendingFrames DEF LendingInv

\* Which listings made a loan is as before when a listing is added, or written with a status
\* that is not Originated either.
LEMMA OriginatedKept ==
    ASSUME MarketInv,
           NEW n \in Nat, NEW d \in Listing, d.status # "Originated",
           \/ listings' = Append(listings, d)
           \/ n \in DOMAIN listings /\ listings[n].status # "Originated" /\ listings' = Written(listings, n, d)
    PROVE  Originated(listings') = Originated(listings)
<1>1. CASE listings' = Append(listings, d)
  BY <1>1, SeqAppended DEF MarketInv, Originated
<1>2. CASE n \in DOMAIN listings /\ listings[n].status # "Originated" /\ listings' = Written(listings, n, d)
  <2>1. DOMAIN listings' = DOMAIN listings
        /\ listings'[n] = d /\ \A m \in DOMAIN listings \ {n} : listings'[m] = listings[m]
    BY <1>2, SeqWritten DEF MarketInv
  <2> QED
    BY <1>2, <2>1 DEF Originated
<1> QED
  BY <1>1, <1>2

\* create_loan_listing and cancel_loan_listing: no offer of the listing is accepted.
LEMMA ListingKeeps ==
    ASSUME LendingInv, ListingNext, UNCHANGED loanLedgers
    PROVE  LendingInv' /\ Consented
<1>1. CreditInv /\ DebtsInv /\ TermsInv /\ MarketInv /\ LoansCounted
  BY DEF LendingInv
<1>2. UNCHANGED <<owed, consents, applied>>
  BY DEF loanLedgers
<1>3. listings \in Seq(Listing) /\ DOMAIN listings = 1..Len(listings) /\ Len(listings) \in Nat
  BY <1>1 DEF MarketInv
<1>4. ASSUME Originated(listings') = Originated(listings), MarketInv',
             UNCHANGED <<block, loans, restructurings, profiles, servicers, collateral>>
      PROVE  LendingInv' /\ Consented
  BY <1>1, <1>2, <1>4, LendingFrames DEF LoansCounted, LendingInv
<1>5. ASSUME NEW a \in Accounts, NEW p \in Properties, NEW amount \in ValueArgs, NEW rate \in RateArgs,
             NEW term \in TermArgs, CreateLoanListing(a, p, amount, rate, term)
      PROVE  LendingInv' /\ Consented
  <2> DEFINE d == [borrower |-> a, property |-> p, maxRate |-> rate, status |-> "Open", accepted |-> {}]
             n == Len(listings) + 1
  <2>1. d \in Listing /\ d.status = "Open" /\ d.accepted = {}
    BY LendingFacts DEF Listing
  <2>2. /\ listings' = Append(listings, d)
        /\ UNCHANGED <<block, loans, restructurings, profiles, servicers, collateral, offers>>
    BY <1>5 DEF CreateLoanListing, loanVars, serviceVars
  <2> HIDE DEF d
  <2>3. /\ listings' \in Seq(Listing) /\ DOMAIN listings' = DOMAIN listings \cup {n} /\ n \notin DOMAIN listings
        /\ listings'[n] = d /\ \A m \in DOMAIN listings : listings'[m] = listings[m]
    BY <1>3, <2>1, <2>2, SeqAppended
  <2> HIDE DEF n
  <2>4. Accepted(offers, n) = {}
    BY <1>1, <2>3 DEF Accepted, MarketInv
  <2>5. MarketInv'
    BY <1>1, <2>1, <2>2, <2>3, <2>4 DEF MarketInv, ListingGood
  <2>6. Originated(listings') = Originated(listings)
    BY <1>1, <2>1, <2>2, OriginatedKept
  <2> QED
    BY <1>4, <2>2, <2>5, <2>6
<1>6. ASSUME NEW a \in Accounts, NEW n \in DOMAIN listings, CancelLoanListing(a, n)
      PROVE  LendingInv' /\ Consented
  <2> DEFINE o == listings[n]
             d == [o EXCEPT !.status = "Cancelled"]
  <2>1. o \in Listing /\ o.status = "Open"
    BY <1>3, <1>6 DEF CancelLoanListing
  <2>2. d \in Listing /\ d.status = "Cancelled" /\ d.accepted = o.accepted /\ d.maxRate = o.maxRate
    BY <2>1 DEF Listing
  <2>3. /\ listings' = Written(listings, n, d)
        /\ UNCHANGED <<block, loans, restructurings, profiles, servicers, collateral, offers>>
    BY <1>6 DEF CancelLoanListing, loanVars, serviceVars, Written
  <2> HIDE DEF d
  <2>4. /\ listings' \in Seq(Listing) /\ DOMAIN listings' = DOMAIN listings
        /\ listings'[n] = d /\ \A m \in DOMAIN listings \ {n} : listings'[m] = listings[m]
    <3>1. listings \in Seq(Listing) /\ n \in DOMAIN listings /\ d \in Listing
      BY <1>3, <2>2
    <3>2. listings' = Written(listings, n, d)
      BY <2>3
    <3> QED
      BY <3>1, <3>2, SeqWritten
  <2>5. MarketInv'
    <3>1. \A m \in DOMAIN listings : ListingGood(offers, m)
      BY <1>1 DEF MarketInv
    <3>2. \A m \in DOMAIN listings : listings'[m].maxRate = listings[m].maxRate /\ listings'[m].accepted = listings[m].accepted
      BY <2>2, <2>4
    <3>3. \A m \in DOMAIN listings : listings'[m].status = "Originated" => listings[m].status = "Originated"
      BY <2>2, <2>4
    <3>4. \A m \in DOMAIN listings : listings'[m].status # "Originated" => Accepted(offers, m) = {}
      BY <2>1, <3>1, <2>4 DEF ListingGood
    <3>5. \A m \in DOMAIN listings' : ListingGood(offers, m)'
      BY <2>3, <2>4, <3>1, <3>2, <3>3, <3>4 DEF ListingGood
    <3> QED
      BY <1>1, <2>3, <2>4, <3>2, <3>5 DEF MarketInv
  <2>6. Originated(listings') = Originated(listings)
    BY <1>1, <1>3, <2>1, <2>2, <2>3, OriginatedKept
  <2> QED
    BY <1>4, <2>3, <2>5, <2>6
<1> QED
  BY <1>5, <1>6 DEF ListingNext

\* submit_loan_offer: a new offer is not accepted, and is within the listing's maximal rate.
LEMMA OfferKeeps ==
    ASSUME LendingInv, OfferNext, UNCHANGED loanLedgers
    PROVE  LendingInv' /\ Consented
<1>1. CreditInv /\ DebtsInv /\ TermsInv /\ MarketInv /\ LoansCounted
  BY DEF LendingInv
<1>2. PICK l \in DOMAIN listings, amount \in ValueArgs, rate \in RateArgs, term \in TermArgs :
          SubmitLoanOffer(l, amount, rate, term)
  BY DEF OfferNext
<1> DEFINE d == [listing |-> l, amount |-> amount, rate |-> rate, term |-> term, accepted |-> FALSE]
           n == Len(offers) + 1
<1>3. /\ offers' = Append(offers, d) /\ rate <= listings[l].maxRate /\ amount # 0
      /\ UNCHANGED <<block, loans, restructurings, profiles, servicers, collateral, listings>>
  BY <1>2 DEF SubmitLoanOffer, loanVars, serviceVars
<1>4. UNCHANGED <<owed, consents, applied>>
  BY DEF loanLedgers
<1>5. d \in Offer /\ d.listing = l /\ d.rate = rate /\ d.accepted = FALSE
  <2>1. l \in Nat
    BY <1>1 DEF MarketInv
  <2> QED
    BY <1>3, <2>1, LendingFacts DEF Offer
<1> HIDE DEF d
<1>6. /\ offers' \in Seq(Offer) /\ DOMAIN offers' = DOMAIN offers \cup {n} /\ n \notin DOMAIN offers
      /\ offers'[n] = d /\ \A m \in DOMAIN offers : offers'[m] = offers[m]
  BY <1>1, <1>3, <1>5, SeqAppended DEF MarketInv
<1> HIDE DEF n
<1>7. \A m \in DOMAIN listings : Accepted(offers', m) = Accepted(offers, m)
  BY <1>5, <1>6 DEF Accepted
<1>8. \A m \in DOMAIN listings' : ListingGood(offers, m)'
  <2> SUFFICES ASSUME NEW m \in DOMAIN listings
               PROVE  ListingGood(offers, m)'
    BY <1>3
  <2>1. ListingGood(offers, m)
    BY <1>1 DEF MarketInv
  <2>2. Accepted(offers, m)' = Accepted(offers, m)
    BY <1>7
  <2>3. (\E o \in DOMAIN offers : Accepted(offers, m) = {o}) => \E o \in DOMAIN offers' : Accepted(offers, m) = {o}
    BY <1>6
  <2> QED
    BY <1>3, <2>1, <2>2, <2>3 DEF ListingGood
<1>9. \A o \in DOMAIN offers' : offers'[o].listing \in DOMAIN listings /\ offers'[o].rate <= listings[offers'[o].listing].maxRate
  BY <1>1, <1>3, <1>5, <1>6 DEF MarketInv
<1>10. MarketInv'
  BY <1>1, <1>3, <1>6, <1>8, <1>9 DEF MarketInv
<1> QED
  BY <1>1, <1>3, <1>4, <1>10, LendingFrames DEF LendingInv

\* One more listing made a loan.
LEMMA OriginatedOneMore ==
    ASSUME MarketInv, NEW l \in DOMAIN listings, NEW e \in Listing,
           listings[l].status # "Originated", e.status = "Originated", listings' = Written(listings, l, e)
    PROVE  Cardinality(Originated(listings')) = Cardinality(Originated(listings)) + 1
           /\ Cardinality(Originated(listings)) \in Nat
<1>1. listings \in Seq(Listing)
  BY DEF MarketInv
<1>2. DOMAIN listings' = DOMAIN listings
      /\ listings'[l] = e /\ \A m \in DOMAIN listings \ {l} : listings'[m] = listings[m]
  BY <1>1, SeqWritten
<1>3. Originated(listings') = Originated(listings) \cup {l} /\ l \notin Originated(listings)
  BY <1>2 DEF Originated
<1>4. IsFiniteSet(Originated(listings))
  BY <1>1, FS_Interval, FS_Subset DEF Originated
<1>5. Cardinality(Originated(listings) \cup {l}) = Cardinality(Originated(listings)) + 1
  BY <1>3, <1>4, FS_AddElement
<1>6. Cardinality(Originated(listings)) \in Nat
  BY <1>4, FS_CardinalityType
<1> QED
  BY <1>3, <1>5, <1>6

\* accept_loan_offer: the listing names the offer, which is its only accepted one, and there is
\* one loan more.
LEMMA AcceptKeeps ==
    ASSUME LendingInv, AcceptNext, UNCHANGED loanLedgers
    PROVE  LendingInv' /\ Consented
<1>1. CreditInv /\ DebtsInv /\ TermsInv /\ MarketInv /\ LoansCounted
  BY DEF LendingInv
<1>2. PICK a \in Accounts, o \in DOMAIN offers : AcceptLoanOffer(a, o)
  BY DEF AcceptNext
<1> DEFINE offer == offers[o]
           l == offer.listing
           listing == listings[l]
           fresh == NewLoan(a, listing.property, offer.amount, offer.amount, offer.term, offer.rate, FALSE)
           d == [fresh EXCEPT !.servicing = "Originated", !.status = "Active", !.last = block]
           e == [listing EXCEPT !.status = "Originated", !.accepted = {o}]
           x == [offer EXCEPT !.accepted = TRUE]
<1>3. /\ Len(loans) < MaxLoans /\ listing.status = "Open" /\ ~offer.accepted
      /\ loans' = Append(loans, d)
      /\ UNCHANGED <<block, restructurings, profiles, servicers, collateral>>
  BY <1>2 DEF AcceptLoanOffer, serviceVars
<1>4. offers' = Written(offers, o, x) /\ listings' = Written(listings, l, e)
  BY <1>2 DEF AcceptLoanOffer, Written
<1>5. UNCHANGED <<owed, consents, applied>>
  BY DEF loanLedgers
<1>6. l \in DOMAIN listings /\ o \in Nat /\ offer \in Offer /\ listing \in Listing /\ block \in Nat \ {0}
  BY <1>1 DEF MarketInv, DebtsInv
<1>7. e \in Listing /\ e.status = "Originated" /\ e.accepted = {o} /\ e.maxRate = listing.maxRate
  <2> HIDE DEF listing
  <2> QED
    BY <1>6 DEF Listing
<1>8. x \in Offer /\ x.listing = l /\ x.accepted = TRUE /\ x.rate = offer.rate
  <2> HIDE DEF offer
  <2> QED
    BY <1>6 DEF Offer
<1>9. d \in Loan /\ d.accrued = 0 /\ d.last = block
  <2>1. fresh \in Loan /\ fresh.accrued = 0
    BY <1>6 DEF Offer, Listing, NewLoan, Loan, LoanStatus
  <2> HIDE DEF fresh
  <2> QED
    BY <1>6, <2>1 DEF Loan, LoanStatus
<1> HIDE DEF d, e, x
<1>10. DebtsInv' /\ TermsInv' /\ Consented /\ Len(loans') = Len(loans) + 1
  BY <1>6, <1>9, <1>1, <1>3, <1>5, LoanAppended
<1>11. /\ offers' \in Seq(Offer) /\ DOMAIN offers' = DOMAIN offers
       /\ offers'[o] = x /\ \A m \in DOMAIN offers \ {o} : offers'[m] = offers[m]
  BY <1>1, <1>4, <1>8, SeqWritten DEF MarketInv
<1>12. /\ listings' \in Seq(Listing) /\ DOMAIN listings' = DOMAIN listings
       /\ listings'[l] = e /\ \A m \in DOMAIN listings \ {l} : listings'[m] = listings[m]
  <2>1. listings \in Seq(Listing)
    BY <1>1 DEF MarketInv
  <2> HIDE DEF l
  <2> QED
    BY <1>4, <1>6, <1>7, <2>1, SeqWritten
<1>13. \A m \in DOMAIN listings' : ListingGood(offers, m)'
  <2> SUFFICES ASSUME NEW m \in DOMAIN listings
               PROVE  ListingGood(offers, m)'
    BY <1>12
  <2>1. ListingGood(offers, m)
    BY <1>1 DEF MarketInv
  <2>2. CASE m = l
    <3>1. Accepted(offers, l) = {}
      BY <1>3, <2>1, <2>2 DEF ListingGood
    <3>2. Accepted(offers', l) = {o}
      BY <1>8, <1>11, <3>1 DEF Accepted
    <3> HIDE DEF l
    <3> QED
      BY <1>7, <1>11, <1>12, <2>2, <3>2 DEF ListingGood
  <2>3. CASE m # l
    <3>1. Accepted(offers', m) = Accepted(offers, m)
      BY <1>8, <1>11, <2>3 DEF Accepted
    <3>2. listings'[m] = listings[m]
      BY <1>12, <2>3
    <3> QED
      BY <1>11, <2>1, <3>1, <3>2 DEF ListingGood
  <2> QED
    BY <2>2, <2>3
<1>14. MarketInv'
  BY <1>7, <1>12, <1>8, <1>11, <1>1, <1>13 DEF MarketInv
<1>15. LoansCounted'
  <2>1. Cardinality(Originated(listings')) = Cardinality(Originated(listings)) + 1
        /\ Cardinality(Originated(listings)) \in Nat
    BY <1>3, <1>1, <1>4, <1>6, <1>7, OriginatedOneMore
  <2> DEFINE n == Cardinality(Originated(listings))
             m == Cardinality(Originated(listings'))
  <2>2. Len(loans) = applied + n /\ applied \in Nat
    BY <1>1 DEF LoansCounted
  <2>3. m = n + 1 /\ n \in Nat
    BY <2>1
  <2>4. Cardinality(Originated(listings))' = m
    OBVIOUS
  <2> HIDE DEF n, m
  <2>5. Len(loans') = applied' + m /\ applied' \in Nat
    BY <1>5, <1>10, <2>2, <2>3
  <2> QED
    BY <2>4, <2>5 DEF LoansCounted
<1> QED
  BY <1>1, <1>3, <1>10, <1>14, <1>15, LendingFrames DEF LendingInv

\* The contract begins without loans, listings and collateral.
LEMMA LendingBegins ==
    ASSUME ChainInit, LendingInit, consents = {}, owed = [id \in 1..MaxLoans |-> NoDebt], applied = 0
    PROVE  LendingInv
<1>1. CreditInv
  BY DEF LendingInit, CreditInv, NoEntries
<1>2. DebtsInv
  BY LendingFacts DEF NoDebt, Debt, ChainInit, LendingInit, DebtsInv
<1>3. TermsInv
  BY DEF LendingInit, TermsInv, NoEntries
<1>4. listings = << >> /\ offers = << >>
  BY DEF LendingInit
<1>5. MarketInv
  BY <1>4 DEF MarketInv
<1>6. LoansCounted
  BY <1>4, FS_EmptySet DEF Originated, LendingInit, LoansCounted
<1> QED
  BY <1>1, <1>2, <1>3, <1>5, <1>6 DEF LendingInv

\* Every message of Lending keeps the books of loans, and changes terms by consent.
LEMMA LendingStepKeeps ==
    ASSUME LendingInv, [LendingLedgerNext]_<<lendingVars, loanLedgers>>
    PROVE  LendingInv' /\ Consented
<1>1. CASE \E caller \in Accounts, id \in ids, term \in TermArgs, rate \in RateArgs :
              ProposeByConsent(caller, id, term, rate)
  BY <1>1, ProposeKeeps
<1>2. CASE \E caller \in Accounts, id \in ids : ApproveByConsent(caller, id)
  BY <1>2, ApproveKeeps
<1>3. CASE \E caller \in Accounts, id \in ids : UnderwriteAndCharge(caller, id)
  BY <1>3, UnderwriteKeeps
<1>4. CASE BlockCharged
  BY <1>4, BlockKeepsDebts
<1>5. CASE ApplyNext /\ applied' = applied + 1 /\ UNCHANGED <<consents, owed>>
  BY <1>5, ApplyKeeps
<1>6. CASE /\ \/ CollateralNext \/ CreditNext \/ ServicingNext \/ LiquidateNext
              \/ ListingNext \/ OfferNext \/ AcceptNext
              \/ LendingPoolNext \/ LendingVoteNext \/ LendingRotationNext
           /\ UNCHANGED loanLedgers
  BY <1>6, CollateralKeeps, CreditKeeps, ServicingKeeps, ListingKeeps, OfferKeeps, AcceptKeeps, OtherLendingKeeps
<1>7. CASE UNCHANGED <<lendingVars, loanLedgers>>
  BY <1>7, LendingFrames DEF lendingVars, loanVars, serviceVars, marketVars, loanLedgers, LendingInv
<1> QED
  BY <1>1, <1>2, <1>3, <1>4, <1>5, <1>6, <1>7 DEF LendingLedgerNext

----
(***************************************************************************)
(* What the books do not say of the state of Lending: the admin,           *)
(* collateral and pledges, servicers and schedules, pools, yield, votes.   *)
(***************************************************************************)

LEMMA AdminCardinality == \A S : AdminKey!Cardinality(S) = Cardinality(S)
  BY Zenon DEF AdminKey!Cardinality, Cardinality

LEMMA AdminKeyTyped ==
    /\ AdminKey!RotationTypeOK <=> KeyHeld(Accounts, lendingAdmin, lendingRotation)
    /\ AdminKey!RotationTypeOK' <=> KeyHeld(Accounts, lendingAdmin', lendingRotation')
  BY AdminCardinality DEF AdminKey!RotationTypeOK, AdminKey!Rotation, KeyHeld

LEMMA AdminKeyTurns ==
    ASSUME block \in Nat, AdminKey!RotationNext
    PROVE  KeyTurned(Accounts, lendingAdmin, lendingAdmin', lendingRotation')
<1>1. PICK a \in Accounts : \/ \E b \in Accounts : AdminKey!RequestAdminRotation(a, b)
                            \/ AdminKey!ConfirmAdminRotation(a)
                            \/ AdminKey!CancelAdminRotation(a)
  BY DEF AdminKey!RotationNext
<1>2. block + RotationCooldown \in Nat
  BY LendingConstants
<1> QED
  BY <1>1, <1>2 DEF KeyTurned, AdminKey!RequestAdminRotation, AdminKey!ConfirmAdminRotation,
                    AdminKey!CancelAdminRotation

CollateralRecord == [value : Nat, ltv : Nat, threshold : Nat]
ScheduleOf(loan) == [loan : loan, installment : Nat, count : Nat \ {0}, next : Nat]
LoanPool == [deposits : Nat, borrows : Nat]
Vote == [for : Nat, against : Nat, executed : BOOLEAN]

PledgesInv ==
    /\ DOMAIN collateral \subseteq Properties
    /\ \A p \in DOMAIN collateral : collateral[p] \in CollateralRecord
    /\ pledged \in [1..MaxLoans -> SUBSET DOMAIN collateral]

ServicersInv ==
    /\ \A id \in DOMAIN loans : loans[id].servicer \subseteq DOMAIN servicers
    /\ schedules \in Seq(ScheduleOf(1..Len(loans)))
    /\ \A id \in DOMAIN loanSchedule :
          loanSchedule[id] \in DOMAIN schedules /\ schedules[loanSchedule[id]].loan = id

LentInv ==
    /\ pools \in Seq(LoanPool) /\ \A p \in DOMAIN pools : pools[p].borrows <= pools[p].deposits
    /\ positions \in Seq(Accounts)
    /\ yieldStakes \in [Accounts -> Nat] /\ totalYield = SumFunctionOnSet(yieldStakes, Accounts)
    /\ proposals \in Seq(Vote)

BankInv == AdminKey!RotationTypeOK /\ PledgesInv /\ ServicersInv /\ LentInv

LEMMA BankFrames ==
    /\ AdminKey!RotationTypeOK /\ UNCHANGED adminVars => AdminKey!RotationTypeOK'
    /\ PledgesInv /\ UNCHANGED <<collateral, pledged>> => PledgesInv'
    /\ ServicersInv /\ UNCHANGED <<loans, serviceVars>> => ServicersInv'
    /\ LentInv /\ UNCHANGED poolVars => LentInv'
  BY AdminKeyTyped DEF adminVars, PledgesInv, ServicersInv, serviceVars, LentInv, poolVars

\* Loans are added, never removed, so that schedules keep theirs.
LEMMA LoansServiced ==
    ASSUME LendingInv, LendingInv', ServicersInv, UNCHANGED <<schedules, loanSchedule>>,
           DOMAIN loans \subseteq DOMAIN loans', \A id \in DOMAIN loans' : loans'[id].servicer \subseteq DOMAIN servicers'
    PROVE  ServicersInv'
<1> DEFINE m == Len(loans)
           n == Len(loans')
<1>1. m \in Nat /\ n \in Nat /\ DOMAIN loans = 1..m /\ DOMAIN loans' = 1..n
  BY DEF LendingInv, DebtsInv
<1> HIDE DEF m, n
<1>2. 1..m \subseteq 1..n
  BY <1>1
<1>3. ScheduleOf(1..m) \subseteq ScheduleOf(1..n)
  BY <1>2 DEF ScheduleOf
<1>4. schedules \in Seq(ScheduleOf(1..m))
  BY DEF ServicersInv, m
<1>5. schedules \in Seq(ScheduleOf(1..n))
  BY <1>3, <1>4, SeqWider
<1> QED
  BY <1>5 DEF ServicersInv, n

\* A loan is written with its servicer.
LEMMA LoanServiced ==
    ASSUME LendingInv, LendingInv', ServicersInv, UNCHANGED serviceVars, NEW id \in DOMAIN loans, NEW d, SetLoan(id, d),
           d.servicer \subseteq DOMAIN servicers
    PROVE  ServicersInv'
  BY LoansServiced DEF SetLoan, ServicersInv, serviceVars

\* A new loan has no servicer.
LEMMA NewLoanServiced ==
    ASSUME LendingInv, LendingInv', ServicersInv, UNCHANGED serviceVars, NEW d, loans' = Append(loans, d), d.servicer = {}
    PROVE  ServicersInv'
  BY SeqWider, SeqAppended, LoansServiced DEF LendingInv, DebtsInv, ServicersInv, serviceVars

\* propose_loan_restructuring, approve_loan_restructuring, underwrite_loan
LEMMA TermsStay ==
    ASSUME LendingInv, LendingInv', BankInv, NEW caller \in Accounts, NEW id \in ids, NEW term, NEW rate,
           \/ ProposeLoanRestructuring(caller, id, term, rate)
           \/ ApproveLoanRestructuring(caller, id)
           \/ UnderwriteLoan(caller, id)
    PROVE  BankInv'
<1>1. UNCHANGED <<adminVars, collateral, pledged, serviceVars, poolVars>>
  BY Zenon DEF ProposeLoanRestructuring, ApproveLoanRestructuring, UnderwriteLoan
<1> DEFINE o == loans[id]
<1>2. UNCHANGED loans \/ (id \in DOMAIN loans /\ \E d : SetLoan(id, d) /\ d.servicer = o.servicer)
  <2>1. id \in DOMAIN loans => o \in Loan
    BY LoanNumbers DEF LendingInv
  <2>2. CASE ProposeLoanRestructuring(caller, id, term, rate)
    <3> DEFINE d == [o EXCEPT !.status = "RestructuringProposed"]
    <3>1. id \in DOMAIN loans /\ SetLoan(id, d)
      BY <2>2 DEF ProposeLoanRestructuring
    <3>2. d.servicer = o.servicer
      BY <2>1, <3>1 DEF Loan
    <3> HIDE DEF o, d
    <3> QED
      BY <3>1, <3>2
  <2>3. CASE ApproveLoanRestructuring(caller, id)
    <3>1. id \in DOMAIN loans
      BY <2>3 DEF ApproveLoanRestructuring, LendingInv, TermsInv
    <3>2. UNCHANGED loans \/ \E r : SetLoan(id, Restructured(o, r))
      BY <2>3, Zenon DEF ApproveLoanRestructuring
    <3>3. ASSUME NEW r
          PROVE  Restructured(o, r).servicer = o.servicer
      BY <2>1, <3>1 DEF Snapshot, Loan, Restructured
    <3> HIDE DEF o
    <3> QED
      BY <3>1, <3>2, <3>3
  <2>4. CASE UnderwriteLoan(caller, id)
    <3> DEFINE d == [o EXCEPT !.accrued = 0, !.last = block, !.status = "Active"]
               e == [o EXCEPT !.status = "Pending"]
    <3>1. id \in DOMAIN loans /\ (SetLoan(id, d) \/ SetLoan(id, e))
      BY <2>4, Zenon DEF UnderwriteLoan
    <3>2. d.servicer = o.servicer /\ e.servicer = o.servicer
      BY <2>1, <3>1 DEF Loan
    <3> HIDE DEF o, d, e
    <3> QED
      BY <3>1, <3>2
  <2> QED
    BY <2>2, <2>3, <2>4
<1>3. ServicersInv'
  <2>1. CASE UNCHANGED loans
    BY <1>1, <2>1, BankFrames DEF BankInv
  <2>2. CASE id \in DOMAIN loans /\ \E d : SetLoan(id, d) /\ d.servicer = o.servicer
    BY <2>2, <1>1, LoanServiced DEF BankInv, ServicersInv
  <2> QED
    BY <1>2, <2>1, <2>2
<1> QED
  BY <1>1, <1>3, BankFrames DEF BankInv

\* apply_for_loan, apply_for_property_backed_loan, accept_loan_offer
LEMMA ApplicationStays ==
    ASSUME LendingInv, LendingInv', BankInv, ApplyNext
    PROVE  BankInv'
<1>1. PICK a \in Accounts, p \in Properties, amount \in ValueArgs, term \in TermArgs, rate \in RateArgs :
          \/ \E value \in ValueArgs, fixed \in BOOLEAN : ApplyForLoan(a, p, amount, value, term, rate, fixed)
          \/ ApplyForPropertyBackedLoan(a, p, amount, term, rate)
  BY DEF ApplyNext
<1>2. UNCHANGED <<adminVars, collateral, serviceVars, poolVars>>
  BY <1>1, Zenon DEF ApplyForLoan, ApplyForPropertyBackedLoan
<1>3. \E d : loans' = Append(loans, d) /\ d.servicer = {}
  <2>1. \A value, fixed : NewLoan(a, p, amount, value, term, rate, fixed).servicer = {}
    BY DEF NewLoan
  <2>2. \E value, fixed : loans' = Append(loans, NewLoan(a, p, amount, value, term, rate, fixed))
    BY <1>1, Zenon DEF ApplyForLoan, ApplyForPropertyBackedLoan
  <2> QED
    BY <2>1, <2>2
<1>4. ServicersInv'
  BY <1>2, <1>3, NewLoanServiced DEF BankInv
<1>5. PledgesInv'
  <2>1. CASE \E value \in ValueArgs, fixed \in BOOLEAN : ApplyForLoan(a, p, amount, value, term, rate, fixed)
    BY <2>1, BankFrames DEF ApplyForLoan, BankInv
  <2>2. CASE ApplyForPropertyBackedLoan(a, p, amount, term, rate)
    <3> DEFINE n == Len(loans) + 1
    <3>1. p \in DOMAIN collateral /\ pledged' = [pledged EXCEPT ![n] = {p}] /\ UNCHANGED collateral
      BY <2>2 DEF ApplyForPropertyBackedLoan
    <3> HIDE DEF n
    <3> QED
      BY <3>1 DEF BankInv, PledgesInv
  <2> QED
    BY <1>1, <2>1, <2>2
<1> QED
  BY <1>2, <1>4, <1>5, BankFrames DEF BankInv

LEMMA AcceptanceStays ==
    ASSUME LendingInv, LendingInv', BankInv, AcceptNext
    PROVE  BankInv'
<1>1. PICK a \in Accounts, o \in DOMAIN offers : AcceptLoanOffer(a, o)
  BY DEF AcceptNext
<1>2. UNCHANGED <<adminVars, collateral, pledged, serviceVars, poolVars>>
  BY <1>1, Zenon DEF AcceptLoanOffer
<1>3. \E d : loans' = Append(loans, d) /\ d.servicer = {}
  <2> DEFINE offer == offers[o]
             listing == listings[offer.listing]
             e == NewLoan(a, listing.property, offer.amount, offer.amount, offer.term, offer.rate, FALSE)
             d == [e EXCEPT !.servicing = "Originated", !.status = "Active", !.last = block]
  <2>1. loans' = Append(loans, d)
    BY <1>1, Zenon DEF AcceptLoanOffer
  <2>2. d.servicer = {}
    BY DEF NewLoan
  <2> QED
    BY <2>1, <2>2
<1>4. ServicersInv'
  BY <1>2, <1>3, NewLoanServiced DEF BankInv
<1> QED
  BY <1>2, <1>4, BankFrames DEF BankInv

\* assess_collateral, pledge_additional_collateral, liquidate_loan
LEMMA PledgesStay ==
    ASSUME LendingInv, LendingInv', BankInv, CollateralNext \/ LiquidateNext
    PROVE  BankInv'
<1>1. PledgesInv /\ ServicersInv
  BY DEF BankInv
<1>2. ASSUME NEW p \in Properties, NEW a \in Accounts, NEW value \in ValueArgs, NEW ratios \in RatioArgs,
             AssessCollateral(a, p, value, ratios)
      PROVE  BankInv'
  <2> DEFINE d == [value |-> value, ltv |-> ratios[1], threshold |-> ratios[2]]
  <2>1. /\ collateral' = [q \in DOMAIN collateral \cup {p} |-> IF q = p THEN d ELSE collateral[q]]
        /\ UNCHANGED <<adminVars, loans, pledged, serviceVars, poolVars>>
    BY <1>2 DEF AssessCollateral
  <2>2. d \in CollateralRecord
    BY LendingConstants, LendingFacts DEF CollateralRecord
  <2> HIDE DEF d
  <2>3. DOMAIN collateral' = DOMAIN collateral \cup {p} /\ \A q \in DOMAIN collateral' : collateral'[q] \in CollateralRecord
    BY <1>1, <2>1, <2>2 DEF PledgesInv
  <2>4. pledged' \in [1..MaxLoans -> SUBSET DOMAIN collateral']
    BY <1>1, <2>1, <2>3 DEF PledgesInv
  <2>5. PledgesInv'
    BY <1>1, <2>3, <2>4 DEF PledgesInv
  <2> QED
    BY <2>1, <2>5, BankFrames DEF BankInv
<1>3. ASSUME NEW p \in Properties, NEW id \in ids, PledgeAdditionalCollateral(id, p)
      PROVE  BankInv'
  BY <1>3, <1>1, BankFrames DEF PledgeAdditionalCollateral, PledgesInv, ids, BankInv
<1>4. ASSUME NEW id \in ids, NEW prices \in Prices, LiquidateLoan(id, prices)
      PROVE  BankInv'
  <2> DEFINE o == loans[id]
             d == [o EXCEPT !.status = "Liquidated"]
             b == Backing(id)
  <2>1. /\ id \in DOMAIN loans /\ SetLoan(id, d) /\ b \subseteq DOMAIN collateral
        /\ pledged' = [pledged EXCEPT ![id] = b]
        /\ UNCHANGED <<adminVars, collateral, serviceVars, poolVars>>
    BY <1>4 DEF LiquidateLoan
  <2>2. o \in Loan
    BY <2>1, LoanNumbers DEF LendingInv
  <2>3. d.servicer = o.servicer
    BY <2>2 DEF Loan
  <2>4. d.servicer \subseteq DOMAIN servicers
    BY <1>1, <2>1, <2>3 DEF ServicersInv
  <2> HIDE DEF b, d
  <2>5. PledgesInv'
    BY <1>1, <2>1 DEF PledgesInv
  <2>6. ServicersInv'
    BY <1>1, <2>1, <2>4, LoanServiced
  <2> QED
    BY <2>1, <2>5, <2>6, BankFrames DEF BankInv
<1>5. CASE CollateralNext
  BY <1>5, <1>2, <1>3 DEF CollateralNext
<1>6. CASE LiquidateNext
  BY <1>6, <1>4 DEF LiquidateNext
<1> QED
  BY <1>5, <1>6

\* What a schedule asks for in each interval is an amount (Schedule::installment).
LEMMA InstallmentIsNatural ==
    ASSUME NEW l \in Loan, NEW s \in ScheduleArgs, s.interval # 0
    PROVE  /\ Installment(l, s) \in Nat /\ s.interval \in Nat
           /\ AtLeastOne(AsU32((l.term * MonthBlocks) \div s.interval)) \in Nat \ {0}
<1> DEFINE w == s.interval
           type == s.type
           payment == s.payment
           amount == l.amount
           n == (l.term * MonthBlocks) \div w
           interest == (amount * l.rate * w) \div ScheduleScale
<1>1. /\ type \in {"Bullet", "Annuity", "Linear", "Custom"} /\ payment \in Nat /\ w \in Nat \ {0}
      /\ type = "Custom" \/ payment = 0
  BY LendingConstants
<1>2. amount \in Nat /\ l.rate \in Nat /\ l.term \in Nat
  BY DEF Loan
<1>3. MonthBlocks \in Nat \ {0} /\ ScheduleScale \in Nat \ {0}
  BY LendingConstants
<1> HIDE DEF w
<1>4. n \in Nat
  BY <1>2, <1>3, Products, <1>1, RoundedDown
<1>5. interest \in Nat
  BY <1>1, <1>2, Products, <1>3, RoundedDown
<1>6. Installment(l, s) =
          CASE type = "Custom" /\ payment > 0 -> payment
            [] type = "Bullet" \/ (n = 0 /\ payment = 0) -> amount
            [] type = "Custom" /\ payment = 0 /\ n > 0 -> amount \div n
            [] type \in {"Annuity", "Linear"} /\ n > 0 -> amount \div n + interest
  BY Zenon DEF Installment, w
<1> HIDE DEF type, payment, amount, n, interest
<1>7. n > 0 => amount \div n \in Nat
  BY <1>2, <1>4, RoundedDown
<1>8. Installment(l, s) \in Nat
  <2>1. CASE type = "Custom" /\ payment > 0
    BY <1>1, <1>6, <2>1
  <2>2. CASE type = "Bullet" \/ (n = 0 /\ payment = 0)
    BY <1>1, <1>2, <1>4, <1>6, <2>2
  <2>3. CASE type = "Custom" /\ payment = 0 /\ n > 0
    BY <1>1, <1>6, <1>7, <2>3
  <2>4. CASE type \in {"Annuity", "Linear"} /\ n > 0
    BY <1>1, <2>4, <1>6, <1>4, <1>5, <1>7
  <2> QED
    BY <1>1, <1>4, <2>1, <2>2, <2>3, <2>4
<1>9. AtLeastOne(AsU32(n)) \in Nat \ {0}
  BY <1>4, WordConstants DEF AtLeastOne, AsU32
<1> QED
  BY <1>1, <1>8, <1>9 DEF w, n

\* Messages about servicers and schedules.
LEMMA ServicingStays ==
    ASSUME LendingInv, LendingInv', BankInv, ServicingNext
    PROVE  BankInv'
<1>1. PICK a \in Accounts :
        \/ \E b \in Accounts : RegisterLoanServicer(a, b)
        \/ \E s \in DOMAIN servicers, active \in BOOLEAN : SetLoanServicerActive(a, s, active)
        \/ \E id \in ids, s \in DOMAIN servicers : AssignLoanServicer(a, id, s)
        \/ \E id \in ids : UpdateServicingStatus(a, id)
        \/ \E id \in ids, s \in ScheduleArgs : CreatePaymentSchedule(a, id, s)
  BY DEF ServicingNext
<1>2. UNCHANGED <<adminVars, collateral, pledged, poolVars>>
  BY <1>1, Zenon DEF RegisterLoanServicer, SetLoanServicerActive, AssignLoanServicer, UpdateServicingStatus,
                     CreatePaymentSchedule, loanVars
<1>3. servicers \in Seq([account : Accounts, active : BOOLEAN]) /\ ServicersInv /\ DebtsInv
  BY DEF LendingInv, CreditInv, BankInv
<1>4. ServicersInv'
  <2>1. CASE \/ \E b \in Accounts : RegisterLoanServicer(a, b)
             \/ \E s \in DOMAIN servicers, active \in BOOLEAN : SetLoanServicerActive(a, s, active)
    <3>1. UNCHANGED <<loans, schedules, loanSchedule>> /\ DOMAIN servicers \subseteq DOMAIN servicers'
      <4>1. ASSUME NEW b \in Accounts, RegisterLoanServicer(a, b)
            PROVE  UNCHANGED <<loans, schedules, loanSchedule>> /\ DOMAIN servicers \subseteq DOMAIN servicers'
        BY <4>1, <1>3, SeqAppended DEF RegisterLoanServicer, loanVars
      <4>2. ASSUME NEW s \in DOMAIN servicers, NEW active \in BOOLEAN, SetLoanServicerActive(a, s, active)
            PROVE  UNCHANGED <<loans, schedules, loanSchedule>> /\ DOMAIN servicers \subseteq DOMAIN servicers'
        BY <4>2 DEF SetLoanServicerActive, loanVars
      <4> QED
        BY <2>1, <4>1, <4>2
    <3>2. \A id \in DOMAIN loans' : loans'[id].servicer \subseteq DOMAIN servicers'
      BY <1>3, <3>1 DEF ServicersInv
    <3> QED
      BY <1>3, <3>1, <3>2, LoansServiced
  <2>2. CASE \E id \in ids, s \in DOMAIN servicers : AssignLoanServicer(a, id, s)
    <3>1. PICK id \in ids, s \in DOMAIN servicers : AssignLoanServicer(a, id, s)
      BY <2>2
    <3> DEFINE o == loans[id]
               d == [o EXCEPT !.servicer = {s}, !.servicing = "Boarded"]
    <3>2. id \in DOMAIN loans /\ SetLoan(id, d) /\ UNCHANGED serviceVars
      BY <3>1 DEF AssignLoanServicer
    <3>3. o \in Loan
      BY <1>3, <3>2, LoanNumbers
    <3>4. d.servicer = {s}
      BY <3>3 DEF Loan
    <3> HIDE DEF d
    <3> QED
      BY <1>3, <3>2, <3>4, LoanServiced
  <2>3. CASE \E id \in ids : UpdateServicingStatus(a, id)
    <3>1. PICK id \in ids : UpdateServicingStatus(a, id)
      BY <2>3
    <3> DEFINE o == loans[id]
               d == [o EXCEPT !.servicing = "Reported"]
    <3>2. id \in DOMAIN loans /\ SetLoan(id, d) /\ UNCHANGED serviceVars
      BY <3>1 DEF UpdateServicingStatus
    <3>3. o \in Loan /\ o.servicer \subseteq DOMAIN servicers
      BY <1>3, <3>2, LoanNumbers DEF ServicersInv
    <3>4. d.servicer = o.servicer
      BY <3>3 DEF Loan
    <3> HIDE DEF o, d
    <3> QED
      BY <1>3, <3>2, <3>3, <3>4, LoanServiced
  <2>4. CASE \E id \in ids, s \in ScheduleArgs : CreatePaymentSchedule(a, id, s)
    <3>1. PICK id \in ids, s \in ScheduleArgs : CreatePaymentSchedule(a, id, s)
      BY <2>4
    <3> DEFINE d == [loan |-> id, installment |-> Installment(loans[id], s),
                     count |-> AtLeastOne(AsU32((loans[id].term * MonthBlocks) \div s.interval)),
                     next |-> block + s.interval]
               n == Len(schedules)
               S == ScheduleOf(1..Len(loans))
    <3>2. /\ id \in DOMAIN loans /\ s.interval # 0 /\ schedules' = Append(schedules, d)
          /\ loanSchedule' = [k \in DOMAIN loanSchedule \cup {id} |-> IF k = id THEN n + 1 ELSE loanSchedule[k]]
          /\ UNCHANGED <<loans, servicers>>
      BY <3>1 DEF CreatePaymentSchedule, loanVars
    <3>3. loans[id] \in Loan /\ id \in 1..Len(loans) /\ block \in Nat
      BY <1>3, <3>2, LoanNumbers DEF DebtsInv
    <3>4. d \in S /\ d.loan = id
      BY <3>2, <3>3, InstallmentIsNatural DEF ScheduleOf
    <3>5. schedules \in Seq(S)
      BY <1>3 DEF ServicersInv
    <3> HIDE DEF d, S
    <3>6. /\ schedules' \in Seq(S) /\ DOMAIN schedules' = DOMAIN schedules \cup {n + 1} /\ n + 1 \notin DOMAIN schedules
          /\ schedules'[n + 1] = d /\ \A m \in DOMAIN schedules : schedules'[m] = schedules[m]
      BY <3>2, <3>4, <3>5, SeqAppended
    <3> DEFINE k1 == n + 1
    <3> HIDE DEF n, k1
    <3>7. \A k \in DOMAIN loanSchedule' : loanSchedule'[k] \in DOMAIN schedules' /\ schedules'[loanSchedule'[k]].loan = k
      BY <3>2, <3>6, <1>3, <3>4 DEF k1, ServicersInv
    <3> QED
      BY <1>3, <3>2, <3>6, <3>7 DEF ServicersInv, S
  <2> QED
    BY <1>1, <2>1, <2>2, <2>3, <2>4
<1> QED
  BY <1>2, <1>4, BankFrames DEF BankInv

\* Messages about pools and positions, and stakes of the yield.
LEMMA PoolsStay ==
    ASSUME LentInv, LendingPoolNext
    PROVE  LentInv'
<1>1. PICK a \in Accounts : \E amount, p :
        \/ CreatePool(a) \/ OpenPosition(a)
        \/ amount \in ValueArgs /\ StakeYield(a, amount)
        \/ p \in DOMAIN pools /\ amount \in ValueArgs /\ (Deposit(p, amount) \/ Borrow(p, amount))
  BY LendingFacts DEF LendingPoolNext
<1>2. PICK amount, p :
        \/ CreatePool(a) \/ OpenPosition(a)
        \/ amount \in ValueArgs /\ StakeYield(a, amount)
        \/ p \in DOMAIN pools /\ amount \in ValueArgs /\ (Deposit(p, amount) \/ Borrow(p, amount))
  BY <1>1
<1>3. pools \in Seq(LoanPool) /\ \A q \in DOMAIN pools : pools[q].borrows <= pools[q].deposits
  BY DEF LentInv
<1>4. CASE CreatePool(a)
  <2> DEFINE d == [deposits |-> 0, borrows |-> 0]
  <2>1. pools' = Append(pools, d) /\ UNCHANGED <<positions, yieldStakes, totalYield, proposals>>
    BY <1>4 DEF CreatePool
  <2>2. d \in LoanPool /\ d.borrows <= d.deposits
    BY DEF LoanPool
  <2> HIDE DEF d
  <2>3. /\ pools' \in Seq(LoanPool) /\ DOMAIN pools' = DOMAIN pools \cup {Len(pools) + 1}
        /\ pools'[Len(pools) + 1] = d /\ \A q \in DOMAIN pools : pools'[q] = pools[q]
    BY <1>3, <2>1, <2>2, SeqAppended
  <2>4. \A q \in DOMAIN pools' : pools'[q].borrows <= pools'[q].deposits
    BY <1>3, <2>2, <2>3
  <2> QED
    BY <2>1, <2>3, <2>4 DEF LentInv
<1>5. CASE OpenPosition(a)
  BY <1>5, SeqAppended DEF OpenPosition, LentInv
<1>6. CASE amount \in ValueArgs /\ StakeYield(a, amount)
  <2> DEFINE x == yieldStakes[a] + amount
  <2>1. amount \in Nat /\ IsFiniteSet(Accounts)
    BY <1>6, LendingFacts, LendingConstants
  <2>2. /\ yieldStakes' = [yieldStakes EXCEPT ![a] = x] /\ totalYield' = totalYield + amount
        /\ UNCHANGED <<pools, positions, proposals>>
    BY <1>6 DEF StakeYield
  <2>3. yieldStakes \in [Accounts -> Nat] /\ totalYield = SumFunctionOnSet(yieldStakes, Accounts)
    BY DEF LentInv
  <2>4. x \in Nat /\ x = yieldStakes[a] + amount
    BY <2>1, <2>3
  <2> HIDE DEF x
  <2>5. yieldStakes' \in [Accounts -> Nat] /\ yieldStakes'[a] = x /\ \A b \in Accounts \ {a} : yieldStakes'[b] = yieldStakes[b]
    BY <2>2, <2>3, <2>4
  <2> DEFINE f == yieldStakes
             g == yieldStakes'
  <2>6. \A b \in Accounts : f[b] \in Int /\ g[b] \in Int
    BY <2>3, <2>5
  <2>7. \A b \in Accounts \ {a} : f[b] = g[b]
    BY <2>5
  <2> HIDE DEF f, g
  <2>8. SumFunctionOnSet(g, Accounts) = SumFunctionOnSet(f, Accounts) - f[a] + g[a]
    BY <2>1, <2>6, <2>7, SumChange
  <2>9. SumFunctionOnSet(f, Accounts) \in Int
    BY <2>1, <2>6, SumType
  <2>10. totalYield' = SumFunctionOnSet(yieldStakes', Accounts)
    BY <2>1, <2>2, <2>3, <2>4, <2>5, <2>8, <2>9 DEF f, g
  <2> QED
    BY <2>2, <2>5, <2>10 DEF LentInv
<1>7. CASE p \in DOMAIN pools /\ amount \in ValueArgs /\ (Deposit(p, amount) \/ Borrow(p, amount))
  <2> DEFINE o == pools[p]
             y == o.deposits + amount
             z == o.borrows + amount
             d == [o EXCEPT !.deposits = y]
             e == [o EXCEPT !.borrows = z]
  <2>1. amount \in Nat
    BY <1>7, LendingFacts
  <2>2. o \in LoanPool /\ o.borrows <= o.deposits
    BY <1>3, <1>7, ElementOfSeq
  <2>3. /\ pools' = Written(pools, p, d) \/ (z <= o.deposits /\ pools' = Written(pools, p, e))
        /\ UNCHANGED <<positions, yieldStakes, totalYield, proposals>>
    BY <1>7 DEF Deposit, Borrow, Written
  <2>4. \E x \in LoanPool : x.borrows <= x.deposits /\ pools' = Written(pools, p, x)
    <3>1. o.deposits \in Nat /\ o.borrows \in Nat
      BY <2>2 DEF LoanPool
    <3>2. d \in LoanPool /\ d.deposits = y /\ d.borrows = o.borrows
      BY <2>1, <3>1, <2>2 DEF LoanPool
    <3>3. e \in LoanPool /\ e.deposits = o.deposits /\ e.borrows = z
      BY <2>1, <3>1, <2>2 DEF LoanPool
    <3>4. o.borrows <= y
      BY <2>1, <2>2, <3>1
    <3> HIDE DEF o, d, e, y, z
    <3> QED
      BY <2>3, <3>2, <3>3, <3>4
  <2>5. PICK x \in LoanPool : x.borrows <= x.deposits /\ pools' = Written(pools, p, x)
    BY <2>4
  <2>6. /\ pools' \in Seq(LoanPool) /\ DOMAIN pools' = DOMAIN pools /\ pools'[p] = x
        /\ \A q \in DOMAIN pools \ {p} : pools'[q] = pools[q]
    BY <1>3, <1>7, <2>5, SeqWritten
  <2>7. \A q \in DOMAIN pools' : pools'[q].borrows <= pools'[q].deposits
    BY <1>3, <2>5, <2>6
  <2> QED
    BY <2>3, <2>6, <2>7 DEF LentInv
<1> QED
  BY <1>2, <1>4, <1>5, <1>6, <1>7

\* propose, vote, execute_proposal
LEMMA VotesStay ==
    ASSUME LentInv, LendingVoteNext
    PROVE  LentInv'
<1>1. UNCHANGED <<pools, positions, yieldStakes, totalYield>>
  BY Zenon DEF LendingVoteNext, Propose, VoteOnLending, ExecuteLendingProposal
<1>2. proposals \in Seq(Vote)
  BY DEF LentInv
<1>3. proposals' \in Seq(Vote)
  <2>1. CASE Propose
    BY <2>1, <1>2, SeqAppended DEF Propose, Vote
  <2>2. CASE \E p \in DOMAIN proposals :
                (\E inFavour \in BOOLEAN : VoteOnLending(p, inFavour)) \/ ExecuteLendingProposal(p)
    <3>1. PICK p \in DOMAIN proposals, inFavour \in BOOLEAN : VoteOnLending(p, inFavour) \/ ExecuteLendingProposal(p)
      BY <2>2
    <3> DEFINE o == proposals[p]
               y == o.for + (IF inFavour THEN 1 ELSE 0)
               z == o.against + (IF inFavour THEN 0 ELSE 1)
               d == [o EXCEPT !.for = y, !.against = z]
               e == [o EXCEPT !.executed = TRUE]
    <3>2. o \in Vote
      BY <1>2, ElementOfSeq
    <3>3. proposals' = Written(proposals, p, d) \/ proposals' = Written(proposals, p, e)
      BY <3>1, <3>2 DEF VoteOnLending, ExecuteLendingProposal, Written, Vote
    <3>4. y \in Nat /\ z \in Nat
      BY <3>2 DEF Vote
    <3>5. d \in Vote /\ e \in Vote
      <4> HIDE DEF o, y, z
      <4> QED
        BY <3>2, <3>4 DEF Vote
    <3> HIDE DEF o, d, e
    <3>6. PICK x \in Vote : proposals' = Written(proposals, p, x)
      BY <3>3, <3>5
    <3> QED
      BY <1>2, <3>6, SeqWritten
  <2> QED
    BY <2>1, <2>2 DEF LendingVoteNext
<1> QED
  BY <1>1, <1>3 DEF LentInv

\* Every message of Lending keeps the rest of its state in its types.
LEMMA BankStays ==
    ASSUME LendingInv, LendingInv', BankInv, [LendingLedgerNext]_<<lendingVars, loanLedgers>>
    PROVE  BankInv'
<1>1. CASE \E caller \in Accounts, id \in ids, term \in TermArgs, rate \in RateArgs :
              ProposeByConsent(caller, id, term, rate)
  BY <1>1, TermsStay DEF ProposeByConsent
<1>2. CASE \E caller \in Accounts, id \in ids : ApproveByConsent(caller, id)
  BY <1>2, TermsStay DEF ApproveByConsent
<1>3. CASE \E caller \in Accounts, id \in ids : UnderwriteAndCharge(caller, id)
  BY <1>3, TermsStay DEF UnderwriteAndCharge
<1>4. CASE BlockCharged
  BY <1>4, BankFrames DEF BlockCharged, LendingTimeNext, BankInv, loanVars
<1>5. CASE ApplyNext
  BY <1>5, ApplicationStays
<1>6. CASE CollateralNext \/ LiquidateNext
  BY <1>6, PledgesStay
<1>7. CASE CreditNext \/ ListingNext \/ OfferNext
  <2>1. CreditNext => UNCHANGED <<adminVars, collateral, loans, pledged, serviceVars, poolVars>>
    BY Zenon DEF CreditNext, RecordRepayment, RecordDefault, RecordCredit
  <2>2. ListingNext => UNCHANGED <<adminVars, collateral, loans, pledged, serviceVars, poolVars>>
    BY Zenon DEF ListingNext, CreateLoanListing, CancelLoanListing, loanVars
  <2>3. OfferNext => UNCHANGED <<adminVars, collateral, loans, pledged, serviceVars, poolVars>>
    BY Zenon DEF OfferNext, SubmitLoanOffer, loanVars
  <2> QED
    BY <1>7, <2>1, <2>2, <2>3, BankFrames DEF BankInv
<1>8. CASE ServicingNext
  BY <1>8, ServicingStays
<1>9. CASE AcceptNext
  BY <1>9, AcceptanceStays
<1>10. CASE LendingPoolNext
  <2>1. UNCHANGED <<adminVars, loanVars, serviceVars>>
    BY <1>10, Zenon DEF LendingPoolNext, CreatePool, OpenPosition, StakeYield, Deposit, Borrow
  <2> QED
    BY <1>10, <2>1, PoolsStay, BankFrames DEF BankInv, loanVars
<1>11. CASE LendingVoteNext
  <2>1. UNCHANGED <<adminVars, loanVars, serviceVars>>
    BY <1>11, Zenon DEF LendingVoteNext, Propose, VoteOnLending, ExecuteLendingProposal
  <2> QED
    BY <1>11, <2>1, VotesStay, BankFrames DEF BankInv, loanVars
<1>12. CASE LendingRotationNext
  <2>1. AdminKey!RotationNext /\ UNCHANGED <<loanVars, serviceVars, poolVars>>
    BY <1>12 DEF LendingRotationNext
  <2>2. KeyTurned(Accounts, lendingAdmin, lendingAdmin', lendingRotation')
    BY <2>1, AdminKeyTurns DEF LendingInv, DebtsInv
  <2>3. KeyHeld(Accounts, lendingAdmin, lendingRotation)
    BY AdminKeyTyped DEF BankInv
  <2>4. AdminKey!RotationTypeOK'
    BY <2>2, <2>3, KeyTurns, AdminKeyTyped
  <2> QED
    BY <2>1, <2>4, BankFrames DEF BankInv, loanVars
<1>13. CASE UNCHANGED <<lendingVars, loanLedgers>>
  BY <1>13, BankFrames DEF BankInv, lendingVars, loanVars
<1> QED
  BY <1>1, <1>2, <1>3, <1>4, <1>5, <1>6, <1>7, <1>8, <1>9, <1>10, <1>11, <1>12, <1>13 DEF LendingLedgerNext

LEMMA BankBegins ==
    ASSUME LendingInit
    PROVE  BankInv
<1>1. KeyHeld(Accounts, lendingAdmin, lendingRotation)
  BY NoneOrOne, LendingFacts DEF LendingInit, KeyHeld
<1>2. AdminKey!RotationTypeOK
  BY <1>1, AdminKeyTyped
<1>3. PledgesInv /\ ServicersInv
  BY DEF LendingInit, NoEntries, PledgesInv, ServicersInv
<1>4. LentInv
  <2>1. yieldStakes = [a \in Accounts |-> 0] /\ totalYield = 0
    BY DEF LendingInit
  <2>2. \A a \in Accounts : yieldStakes[a] = 0
    BY <2>1
  <2>3. SumFunctionOnSet(yieldStakes, Accounts) = 0
    BY <2>2, SumZero, LendingConstants
  <2> QED
    BY <2>1, <2>3 DEF LendingInit, LentInv
<1> QED
  BY <1>2, <1>3, <1>4 DEF BankInv

LEMMA LendingTyped == LendingInv /\ BankInv => LendingTypeOK
  BY DEF LendingInv, CreditInv, DebtsInv, TermsInv, MarketInv, BankInv, PledgesInv, ServicersInv, LentInv,
         CollateralRecord, ScheduleOf, LoanPool, Vote, LendingTypeOK

----
\* A loan's terms change only to terms its borrower and a lender have both agreed to since they
\* were proposed: in every order of proposals, approvals, underwritings and changes of the admin.
THEOREM LoanTermsChangeByConsent == LendingLedgerSpec => TermsByConsent
<1> DEFINE vars == <<lendingVars, loanLedgers>>
<1>1. ChainInit /\ LendingInit /\ consents = {} /\ owed = [id \in 1..MaxLoans |-> NoDebt] /\ applied = 0 => LendingInv
  BY LendingBegins
<1>2. LendingInv /\ [LendingLedgerNext]_vars => LendingInv' /\ [Consented]_<<loans, consents>>
  BY LendingStepKeeps
<1> QED
  BY <1>1, <1>2, PTL DEF LendingLedgerSpec, TermsByConsent, Consented

\* Every block's interest is charged once, at the rate of the block, less what rounding takes;
\* a listing makes one loan, within the borrower's maximal rate, and every other loan was applied for.
\* All of the lending state has its type.
THEOREM LoansAlwaysOriginatedAndChargedOnce == LendingLedgerSpec => []LoansAreOriginatedAndChargedOnce
<1> DEFINE vars == <<lendingVars, loanLedgers>>
<1>1. ChainInit /\ LendingInit /\ consents = {} /\ owed = [id \in 1..MaxLoans |-> NoDebt] /\ applied = 0
         => LendingInv /\ BankInv
  BY LendingBegins, BankBegins
<1>2. LendingInv /\ BankInv /\ [LendingLedgerNext]_vars => (LendingInv /\ BankInv)'
  BY LendingStepKeeps, BankStays
<1>3. LendingInv /\ BankInv => LoansAreOriginatedAndChargedOnce
  <2> SUFFICES ASSUME LendingInv, BankInv
               PROVE  LoansAreOriginatedAndChargedOnce
    OBVIOUS
  <2>1. DebtsInv /\ MarketInv /\ LoansCounted
    BY DEF LendingInv
  <2>2. InterestChargedOnce
    BY <2>1 DEF InterestChargedOnce, DebtsInv, LoanGood, ChargedBy
  <2>3. ASSUME NEW l \in DOMAIN listings
        PROVE  /\ listings[l].accepted = Accepted(offers, l)
               /\ listings[l].status = "Originated" <=> Cardinality(listings[l].accepted) = 1
               /\ \A o \in listings[l].accepted : offers[o].rate <= listings[l].maxRate
    <3>1. ListingGood(offers, l)
      BY <2>1 DEF MarketInv
    <3>2. listings[l].status = "Originated" => Cardinality(Accepted(offers, l)) = 1
      <4> SUFFICES ASSUME listings[l].status = "Originated"
                   PROVE  Cardinality(Accepted(offers, l)) = 1
        OBVIOUS
      <4>1. PICK o \in DOMAIN offers : Accepted(offers, l) = {o}
        BY <3>1 DEF ListingGood
      <4> QED
        BY <4>1, FS_Singleton
    <3>3. listings[l].status # "Originated" => Cardinality(Accepted(offers, l)) = 0
      BY <3>1, FS_EmptySet DEF ListingGood
    <3>4. \A o \in Accepted(offers, l) : offers[o].rate <= listings[l].maxRate
      BY <2>1 DEF MarketInv, Accepted
    <3>5. listings[l].accepted = Accepted(offers, l)
      BY <3>1 DEF ListingGood
    <3> QED
      BY <3>2, <3>3, <3>4, <3>5
  <2>4. ListingsOriginateOnce
    BY <2>1, <2>3, Zenon DEF ListingsOriginateOnce, LoansCounted, Accepted, Originated
  <2> QED
    BY <2>2, <2>4, LendingTyped DEF LoansAreOriginatedAndChargedOnce
<1> QED
  BY <1>1, <1>2, <1>3, PTL DEF LendingLedgerSpec

----
(***************************************************************************)
(* Insurance: what pools have and owe, which claims were paid, and who     *)
(* holds a policy.                                                         *)
(***************************************************************************)

\* What the assumptions on the constants of insurance say.
LEMMA InsuranceFacts ==
    /\ IsFiniteSet(Insured) /\ InsuranceAdmin \in Insured
    /\ MaxRiskPools \in Nat /\ MaxFee \in Nat /\ FirstFee \in 0..MaxFee /\ FirstWindow \in Nat \ {0}
    /\ Epoch \in Nat /\ InsuranceCooldown \in Nat /\ FirstClaimCooldown \in Nat
    /\ ReadingSpan \in Nat \ {0}
    /\ \A x \in MoneyArgs : x \in Nat
    /\ \A x \in SpanArgs : x \in Nat
    /\ \A x \in CoverageTypes : TypeRate[x] \in Nat
    /\ \A x \in Readings : x \in Nat
    /\ \A x \in Thresholds : x \in Int
    /\ \A x \in ExposureArgs \cup BreakerArgs : x[1] \in Nat /\ x[2] \in Nat
    /\ \A x \in ScoreArgs : x[1] \in Nat /\ x[2] \in Nat /\ x[3] \in Nat /\ x[4] \in Nat
    /\ \A x \in PayoutArgs : x.mode \in {"Fixed", "Percent", "Full"} /\ x.value \in Nat
    /\ \A x \in TreatyArgs : x.limit \in Nat /\ x.retention \in Nat /\ x.rate \in Nat
  BY InsuranceConstants

One(b) == IF b THEN 1 ELSE 0

----
\* Which policies and claims a pool answers for

\* The list ds is cs with another entry at c, or with one more.
Rewritten(cs, ds, c) ==
    /\ DOMAIN ds = DOMAIN cs \cup {c}
    /\ \A m \in DOMAIN cs \ {c} : ds[m] = cs[m]

OfPool(ps, q) == {n \in DOMAIN ps : ps[n].pool = q}
Standing(ps, q, statuses) == {n \in OfPool(ps, q) : ps[n].status \in statuses}

PaidOn(cs, S) == {c \in DOMAIN cs : cs[c].status = "Paid" /\ cs[c].policy \in S}
PaidSum(cs, S) == SumFunctionOnSet([c \in PaidOn(cs, S) |-> cs[c].payout], PaidOn(cs, S))

Covered(ds, q) ==
    SumFunctionOnSet([n \in Standing(ds, q, {"Triggered"}) |-> ds[n].coverage], Standing(ds, q, {"Triggered"}))

\* A claim that was not paid is made or decided: what was paid grows by its payout if it is
\* paid now.
LEMMA ClaimDecided ==
    ASSUME NEW cs \in Seq(Claim), NEW ds \in Seq(Claim), NEW c, Rewritten(cs, ds, c),
           c \in DOMAIN cs => cs[c].status # "Paid", NEW S
    PROVE  /\ PaidSum(cs, S) \in Int
           /\ PaidSum(ds, S) = PaidSum(cs, S)
                  + (IF ds[c].status = "Paid" /\ ds[c].policy \in S THEN ds[c].payout ELSE 0)
<1> DEFINE P == PaidOn(cs, S)
           Q == PaidOn(ds, S)
           f == [m \in P |-> cs[m].payout]
           g == [m \in Q |-> ds[m].payout]
           new == IF ds[c].status = "Paid" /\ ds[c].policy \in S THEN ds[c].payout ELSE 0
<1>1. IsFiniteSet(P)
  BY DomainFinite, FS_Subset DEF PaidOn
<1>2. Q \ {c} = P \ {c} /\ c \notin P
  BY DEF PaidOn, Rewritten
<1>3. \A m \in DOMAIN cs : cs[m].payout \in Nat
  <2> SUFFICES ASSUME NEW m \in DOMAIN cs
               PROVE  cs[m].payout \in Nat
    OBVIOUS
  <2>1. cs[m] \in Claim
    BY ElementOfSeq, LenProperties
  <2> QED
    BY <2>1 DEF Claim
<1>4. \A m \in P \ {c} : f[m] \in Int /\ g[m] = f[m]
  BY <1>2, <1>3 DEF PaidOn, Rewritten
<1>5. c \in Q => g[c] = new
  BY DEF PaidOn
<1>6. c \notin Q => new = 0
  BY DEF PaidOn, Rewritten
<1>7. new \in Int
  <2>1. c \in DOMAIN ds
    BY DEF Rewritten
  <2>2. ds[c] \in Claim
    BY <2>1, ElementOfSeq, LenProperties
  <2>3. ds[c].payout \in Nat
    BY <2>2 DEF Claim
  <2> QED
    BY <2>3
<1>8. SumFunctionOnSet(f, P) \in Int
  BY <1>3, <1>1, SumType DEF PaidOn
<1>9. SumFunctionOnSet(g, Q) = SumFunctionOnSet(f, P) - 0 + new
  <2> HIDE DEF f, g, P, Q, new
  <2> QED
    BY <1>1, <1>2, <1>4, <1>5, <1>6, <1>7, SumSwap
<1>10. PaidSum(cs, S) = SumFunctionOnSet(f, P) /\ PaidSum(ds, S) = SumFunctionOnSet(g, Q)
  BY DEF PaidSum
<1> HIDE DEF f, g, P, Q
<1>11. PaidSum(ds, S) = PaidSum(cs, S) + new
  BY <1>7, <1>8, <1>9, <1>10
<1> QED
  BY <1>8, <1>10, <1>11

\* What was paid on claims is a number.
LEMMA PaidType ==
    ASSUME NEW cs \in Seq(Claim), NEW S
    PROVE  PaidSum(cs, S) \in Int
<1> DEFINE P == PaidOn(cs, S)
           f == [m \in P |-> cs[m].payout]
<1>1. IsFiniteSet(P)
  BY DomainFinite, FS_Subset DEF PaidOn
<1>2. \A m \in P : f[m] \in Int
  <2> SUFFICES ASSUME NEW m \in DOMAIN cs
               PROVE  cs[m].payout \in Int
    BY DEF PaidOn
  <2>1. cs[m] \in Claim
    BY ElementOfSeq, LenProperties
  <2> QED
    BY <2>1 DEF Claim
<1> HIDE DEF P, f
<1>3. SumFunctionOnSet(f, P) \in Int
  BY <1>1, <1>2, SumType
<1> QED
  BY <1>3 DEF PaidSum, P, f

\* The same claims are paid on the same policies.
LEMMA PaidAlike ==
    ASSUME NEW cs, NEW S, NEW T, \A c \in DOMAIN cs : cs[c].policy \in S <=> cs[c].policy \in T
    PROVE  PaidSum(cs, S) = PaidSum(cs, T)
  BY DEF PaidOn, PaidSum

\* A policy is made, or one changes its status: the policies of a pool that stand are counted anew.
LEMMA StandingMoved ==
    ASSUME NEW ps, NEW rs, NEW n, IsFiniteSet(DOMAIN ps), Rewritten(ps, rs, n), NEW q, NEW statuses
    PROVE  /\ Cardinality(Standing(ps, q, statuses)) \in Nat /\ Cardinality(Standing(rs, q, statuses)) \in Nat
           /\ Cardinality(Standing(rs, q, statuses)) =
                  Cardinality(Standing(ps, q, statuses))
                      - One(n \in Standing(ps, q, statuses)) + One(n \in Standing(rs, q, statuses))
           /\ Cardinality(Standing(ps, q, statuses)) >= One(n \in Standing(ps, q, statuses))
<1> DEFINE S == Standing(ps, q, statuses)
           T == Standing(rs, q, statuses)
<1>1. IsFiniteSet(S)
  BY FS_Subset DEF Standing, OfPool
<1>2. T \ {n} = S \ {n}
  BY DEF Standing, OfPool, Rewritten
<1> HIDE DEF S, T
<1>3. /\ Cardinality(S) \in Nat /\ Cardinality(T) \in Nat
      /\ Cardinality(T) = Cardinality(S) - One(n \in S) + One(n \in T)
      /\ Cardinality(S) >= One(n \in S)
  BY <1>1, <1>2, CountSwap DEF One
<1> QED
  BY <1>3 DEF S, T

\* What triggered parametric policies cover is a number.
LEMMA CoveredType ==
    ASSUME NEW ds \in Seq(Parametric), NEW q
    PROVE  Covered(ds, q) \in Int
<1> DEFINE P == Standing(ds, q, {"Triggered"})
           f == [m \in P |-> ds[m].coverage]
<1>1. IsFiniteSet(P)
  BY DomainFinite, FS_Subset DEF Standing, OfPool
<1>2. \A m \in P : f[m] \in Int
  <2> SUFFICES ASSUME NEW m \in DOMAIN ds
               PROVE  ds[m].coverage \in Int
    BY DEF Standing, OfPool
  <2>1. ds[m] \in Parametric
    BY ElementOfSeq, LenProperties
  <2> QED
    BY <2>1 DEF Parametric
<1> HIDE DEF P, f
<1>3. SumFunctionOnSet(f, P) \in Int
  BY <1>1, <1>2, SumType
<1> QED
  BY <1>3 DEF Covered, P, f

\* A parametric policy is made, or one that was not triggered changes: what a pool paid on
\* triggered ones grows by its coverage if it is triggered now.
LEMMA CoveredMoved ==
    ASSUME NEW ds \in Seq(Parametric), NEW es \in Seq(Parametric), NEW n, Rewritten(ds, es, n),
           n \in DOMAIN ds => ds[n].status # "Triggered", NEW q
    PROVE  /\ Covered(ds, q) \in Int
           /\ Covered(es, q) = Covered(ds, q)
                  + (IF es[n].status = "Triggered" /\ es[n].pool = q THEN es[n].coverage ELSE 0)
<1> DEFINE P == Standing(ds, q, {"Triggered"})
           Q == Standing(es, q, {"Triggered"})
           f == [m \in P |-> ds[m].coverage]
           g == [m \in Q |-> es[m].coverage]
           new == IF es[n].status = "Triggered" /\ es[n].pool = q THEN es[n].coverage ELSE 0
<1>1. IsFiniteSet(P)
  BY DomainFinite, FS_Subset DEF Standing, OfPool
<1>2. Q \ {n} = P \ {n} /\ n \notin P
  BY DEF Standing, OfPool, Rewritten
<1>3. \A m \in DOMAIN ds : ds[m].coverage \in Nat
  <2> SUFFICES ASSUME NEW m \in DOMAIN ds
               PROVE  ds[m].coverage \in Nat
    OBVIOUS
  <2>1. ds[m] \in Parametric
    BY ElementOfSeq, LenProperties
  <2> QED
    BY <2>1 DEF Parametric
<1>4. \A m \in P \ {n} : f[m] \in Int /\ g[m] = f[m]
  BY <1>2, <1>3 DEF Standing, OfPool, Rewritten
<1>5. n \in Q => g[n] = new
  BY DEF Standing, OfPool
<1>6. n \notin Q => new = 0
  BY DEF Standing, OfPool, Rewritten
<1>7. new \in Int
  <2>1. n \in DOMAIN es
    BY DEF Rewritten
  <2>2. es[n] \in Parametric
    BY <2>1, ElementOfSeq, LenProperties
  <2>3. es[n].coverage \in Nat
    BY <2>2 DEF Parametric
  <2> QED
    BY <2>3
<1>8. SumFunctionOnSet(f, P) \in Int
  BY <1>3, <1>1, SumType DEF Standing, OfPool
<1>9. SumFunctionOnSet(g, Q) = SumFunctionOnSet(f, P) - 0 + new
  <2> HIDE DEF f, g, P, Q, new
  <2> QED
    BY <1>1, <1>2, <1>4, <1>5, <1>6, <1>7, SumSwap
<1>10. Covered(ds, q) = SumFunctionOnSet(f, P) /\ Covered(es, q) = SumFunctionOnSet(g, Q)
  BY DEF Covered
<1> HIDE DEF f, g, P, Q
<1>11. Covered(es, q) = Covered(ds, q) + new
  BY <1>7, <1>8, <1>9, <1>10
<1> QED
  BY <1>8, <1>10, <1>11

----
\* The books of pools and policies

Live(ps, ds, q, statuses) == Cardinality(Standing(ps, q, statuses)) + Cardinality(Standing(ds, q, {"Active"}))

PoolGood(r, given, q, ps, cs, ds) ==
    /\ r \in RiskPool
    /\ r.available + r.paid = r.capital + r.premiums
    /\ r.capital = SumFunctionOnSet(given, Insured)
    /\ r.paid = PaidSum(cs, OfPool(ps, q)) + Covered(ds, q)
    /\ Live(ps, ds, q, {"Active"}) <= r.policies
    /\ r.policies <= Live(ps, ds, q, {"Active", "Claimed"})

PolicyGood(n, d, cs) ==
    /\ d.claimed = PaidSum(cs, {n})
    /\ d.status = "Claimed" => d.claimed >= d.coverage

\* Every policy is of a pool, every claim of a policy, and a pool that is yet to be has no capital.
Linked(rps, cap, ps, cs, ds) ==
    /\ rps \in Seq(RiskPool) /\ Len(rps) <= MaxRiskPools
    /\ cap \in [riskPoolIds -> [Insured -> Nat]]
    /\ ps \in Seq(Policy) /\ cs \in Seq(Claim) /\ ds \in Seq(Parametric)
    /\ \A q \in riskPoolIds \ DOMAIN rps : \A a \in Insured : cap[q][a] = 0
    /\ \A n \in DOMAIN ps : ps[n].pool \in DOMAIN rps
    /\ \A n \in DOMAIN ds : ds[n].pool \in DOMAIN rps
    /\ \A c \in DOMAIN cs : cs[c].policy \in DOMAIN ps

Books(rps, cap, ps, cs, ds) ==
    /\ Linked(rps, cap, ps, cs, ds)
    /\ \A q \in DOMAIN rps : PoolGood(rps[q], cap[q], q, ps, cs, ds)
    /\ \A n \in DOMAIN ps : PolicyGood(n, ps[n], cs)

\* What holds of the lists of books.
LEMMA BooksFacts ==
    ASSUME NEW rps, NEW cap, NEW ps, NEW cs, NEW ds, Linked(rps, cap, ps, cs, ds)
    PROVE  /\ IsFiniteSet(DOMAIN ps) /\ IsFiniteSet(DOMAIN ds) /\ IsFiniteSet(DOMAIN cs)
           /\ DOMAIN rps = 1..Len(rps) /\ Len(rps) \in Nat /\ DOMAIN rps \subseteq riskPoolIds
           /\ \A q \in DOMAIN rps : rps[q] \in RiskPool
           /\ \A n \in DOMAIN ps : ps[n] \in Policy
           /\ \A c \in DOMAIN cs : cs[c] \in Claim
           /\ \A n \in DOMAIN ds : ds[n] \in Parametric
  BY DomainFinite, LenProperties, InsuranceFacts, ElementOfSeq DEF Linked, riskPoolIds

\* A pool with other books.
Rebooked(o, c, v, m, d, n) ==
    [o EXCEPT !.capital = c, !.available = v, !.premiums = m, !.paid = d, !.policies = n]

LEMMA RebookedFields ==
    ASSUME NEW o \in RiskPool, NEW c, NEW v, NEW m, NEW d, NEW n
    PROVE  /\ Rebooked(o, c, v, m, d, n).capital = c /\ Rebooked(o, c, v, m, d, n).available = v
           /\ Rebooked(o, c, v, m, d, n).premiums = m /\ Rebooked(o, c, v, m, d, n).paid = d
           /\ Rebooked(o, c, v, m, d, n).policies = n
  BY DEF RiskPool, Rebooked

LEMMA RebookedType ==
    ASSUME NEW o \in RiskPool, NEW c \in Nat, NEW v \in Nat, NEW m \in Nat, NEW d \in Nat, NEW n \in Nat
    PROVE  Rebooked(o, c, v, m, d, n) \in RiskPool
  BY DEF RiskPool, Rebooked

\* A policy that is in force is counted by its pool.
LEMMA InForceIsCounted ==
    ASSUME NEW rps, NEW cap, NEW ps, NEW cs, NEW ds, Books(rps, cap, ps, cs, ds)
    PROVE  /\ \A n \in DOMAIN ps : ps[n].status = "Active" => rps[ps[n].pool].policies >= 1
           /\ \A n \in DOMAIN ds : ds[n].status = "Active" => rps[ds[n].pool].policies >= 1
<1>1. Linked(rps, cap, ps, cs, ds)
  BY DEF Books
<1>2. IsFiniteSet(DOMAIN ps) /\ IsFiniteSet(DOMAIN ds)
  BY <1>1, BooksFacts
<1>3. ASSUME NEW q \in DOMAIN rps
      PROVE  rps[q].policies \in Nat /\ Live(ps, ds, q, {"Active"}) <= rps[q].policies
  BY DEF Books, PoolGood, RiskPool
<1>4. ASSUME NEW list, IsFiniteSet(DOMAIN list), NEW n \in DOMAIN list, list[n].status = "Active"
      PROVE  Cardinality(Standing(list, list[n].pool, {"Active"})) >= 1
  <2>1. Rewritten(list, list, n)
    BY <1>4 DEF Rewritten
  <2>2. n \in Standing(list, list[n].pool, {"Active"})
    BY <1>4 DEF Standing, OfPool
  <2> QED
    BY <1>4, <2>1, <2>2, StandingMoved DEF One
<1>5. ASSUME NEW list, IsFiniteSet(DOMAIN list), NEW q
      PROVE  Cardinality(Standing(list, q, {"Active"})) \in Nat
  BY <1>5, FS_Subset, FS_CardinalityType DEF Standing, OfPool
<1>6. ASSUME NEW n \in DOMAIN ps, ps[n].status = "Active"
      PROVE  rps[ps[n].pool].policies >= 1
  BY <1>1, <1>2, <1>3, <1>4, <1>5, <1>6 DEF Linked, Live
<1>7. ASSUME NEW n \in DOMAIN ds, ds[n].status = "Active"
      PROVE  rps[ds[n].pool].policies >= 1
  BY <1>1, <1>2, <1>3, <1>4, <1>5, <1>7 DEF Linked, Live
<1> QED
  BY <1>6, <1>7

\* A pool's other books: x more is paid, and what it has is still what it took in less what it paid.
PoolMoved(o, r, x) ==
    r.available + r.paid = r.capital + r.premiums /\ r.capital = o.capital /\ r.paid = o.paid + x

\* Policy n of pool p is new, or charged x more.
PolicyCharged(ps, rs, n, p, x) ==
    /\ rs \in Seq(Policy) /\ Rewritten(ps, rs, n) /\ rs[n].pool = p
    /\ n \in DOMAIN ps => ps[n].pool = p
    /\ rs[n].claimed = (IF n \in DOMAIN ps THEN ps[n].claimed ELSE 0) + x
    /\ rs[n].status = "Claimed" => rs[n].claimed >= rs[n].coverage

\* Its pool counts k policies more.
PolicyCounted(ps, rs, n, k) ==
    /\ k >= One(rs[n].status = "Active") - One(n \in DOMAIN ps /\ ps[n].status = "Active")
    /\ k <= One(rs[n].status \in {"Active", "Claimed"}) - One(n \in DOMAIN ps /\ ps[n].status \in {"Active", "Claimed"})

\* Claims on it are paid x.
ClaimsPaid(cs, es, rs, n, x) ==
    /\ es \in Seq(Claim) /\ \A c \in DOMAIN es : es[c].policy \in DOMAIN rs
    /\ \A S : PaidSum(cs, S) \in Int /\ PaidSum(es, S) = PaidSum(cs, S) + (IF n \in S THEN x ELSE 0)

\* A message makes a policy or changes one, and moves the books of its pool with it; x is paid on it.
LEMMA PolicyMoved ==
    ASSUME NEW rps, NEW cap, NEW ps, NEW cs, NEW ds, Books(rps, cap, ps, cs, ds),
           NEW p \in DOMAIN rps, NEW r \in RiskPool, NEW x \in Nat, PoolMoved(rps[p], r, x),
           NEW n, NEW rs, PolicyCharged(ps, rs, n, p, x), PolicyCounted(ps, rs, n, r.policies - rps[p].policies),
           NEW es, ClaimsPaid(cs, es, rs, n, x)
    PROVE  Books(Written(rps, p, r), cap, rs, es, ds)
<1> USE DEF PoolMoved, PolicyCharged, PolicyCounted, ClaimsPaid
<1> DEFINE new == Written(rps, p, r)
           both == {"Active", "Claimed"}
<1>0. Linked(rps, cap, ps, cs, ds)
  BY DEF Books
<1>1. /\ IsFiniteSet(DOMAIN ps) /\ \A q \in DOMAIN rps : rps[q] \in RiskPool
      /\ \A m \in DOMAIN ps : ps[m] \in Policy
  BY <1>0, BooksFacts
<1>2. /\ new \in Seq(RiskPool) /\ DOMAIN new = DOMAIN rps /\ Len(new) = Len(rps)
      /\ new[p] = r /\ \A q \in DOMAIN rps \ {p} : new[q] = rps[q]
  BY <1>0, SeqWritten DEF Linked
<1> HIDE DEF new
<1>3. \A m \in DOMAIN rs : rs[m].pool \in DOMAIN rps
  BY <1>0 DEF Linked, Rewritten
<1>4. Linked(new, cap, rs, es, ds)
  BY <1>0, <1>2, <1>3 DEF Linked
<1>5. ASSUME NEW q \in DOMAIN rps
      PROVE  /\ PaidSum(cs, OfPool(rs, q)) = PaidSum(cs, OfPool(ps, q))
             /\ PaidSum(es, OfPool(rs, q)) = PaidSum(cs, OfPool(ps, q)) + (IF q = p THEN x ELSE 0)
  <2>1. \A c \in DOMAIN cs : cs[c].policy \in OfPool(rs, q) <=> cs[c].policy \in OfPool(ps, q)
    <3> SUFFICES ASSUME NEW c \in DOMAIN cs
                 PROVE  cs[c].policy \in OfPool(rs, q) <=> cs[c].policy \in OfPool(ps, q)
      OBVIOUS
    <3>1. cs[c].policy \in DOMAIN ps
      BY <1>0 DEF Linked
    <3> QED
      BY <3>1 DEF OfPool, Rewritten
  <2>2. PaidSum(cs, OfPool(rs, q)) = PaidSum(cs, OfPool(ps, q))
    BY <2>1, PaidAlike
  <2>3. n \in OfPool(rs, q) <=> q = p
    BY DEF OfPool, Rewritten
  <2> QED
    BY <2>2, <2>3
<1>6. ASSUME NEW q \in DOMAIN rps, NEW statuses
      PROVE  /\ Cardinality(Standing(ps, q, statuses)) \in Nat /\ Cardinality(Standing(rs, q, statuses)) \in Nat
             /\ q # p => Cardinality(Standing(rs, q, statuses)) = Cardinality(Standing(ps, q, statuses))
             /\ Cardinality(Standing(rs, p, statuses)) =
                    Cardinality(Standing(ps, p, statuses))
                        - One(n \in DOMAIN ps /\ ps[n].status \in statuses) + One(rs[n].status \in statuses)
  <2>1. ASSUME NEW k
        PROVE  /\ Cardinality(Standing(ps, k, statuses)) \in Nat /\ Cardinality(Standing(rs, k, statuses)) \in Nat
               /\ Cardinality(Standing(rs, k, statuses)) =
                      Cardinality(Standing(ps, k, statuses))
                          - One(n \in Standing(ps, k, statuses)) + One(n \in Standing(rs, k, statuses))
    BY <1>1, StandingMoved
  <2>2. q # p => n \notin Standing(ps, q, statuses) /\ n \notin Standing(rs, q, statuses)
    BY DEF Standing, OfPool
  <2>3. /\ n \in Standing(ps, p, statuses) <=> n \in DOMAIN ps /\ ps[n].status \in statuses
        /\ n \in Standing(rs, p, statuses) <=> rs[n].status \in statuses
    BY DEF Standing, OfPool, Rewritten
  <2>4. One(n \in Standing(ps, p, statuses)) = One(n \in DOMAIN ps /\ ps[n].status \in statuses)
        /\ One(n \in Standing(rs, p, statuses)) = One(rs[n].status \in statuses)
    BY <2>3 DEF One
  <2>5. ASSUME q # p
        PROVE  Cardinality(Standing(rs, q, statuses)) = Cardinality(Standing(ps, q, statuses))
    BY <2>2, <2>5, <2>1 DEF One
  <2> QED
    BY <2>1, <2>4, <2>5
<1>7. ASSUME NEW q \in DOMAIN rps
      PROVE  Cardinality(Standing(ds, q, {"Active"})) \in Nat
  BY <1>0, BooksFacts, FS_Subset, FS_CardinalityType DEF Standing, OfPool
<1>8. ASSUME NEW q \in DOMAIN rps
      PROVE  PoolGood(new[q], cap[q], q, rs, es, ds)
  <2>1. PoolGood(rps[q], cap[q], q, ps, cs, ds)
    BY DEF Books
  <2>2. CASE q # p
    <3>1. new[q] = rps[q] /\ Live(rs, ds, q, {"Active"}) = Live(ps, ds, q, {"Active"}) /\ Live(rs, ds, q, both) = Live(ps, ds, q, both)
      BY <1>2, <1>6, <2>2 DEF Live
    <3>2. PaidSum(es, OfPool(rs, q)) = PaidSum(cs, OfPool(ps, q))
      BY <1>5, <2>2
    <3> QED
      BY <2>1, <3>1, <3>2 DEF PoolGood
  <2>3. CASE q = p
    <3>1. PoolGood(rps[p], cap[p], p, ps, cs, ds)
      BY <2>1, <2>3
    <3>2. /\ One(rs[n].status \in {"Active"}) = One(rs[n].status = "Active")
          /\ One(n \in DOMAIN ps /\ ps[n].status \in {"Active"}) = One(n \in DOMAIN ps /\ ps[n].status = "Active")
      BY DEF One
    <3>3. rps[p].policies \in Nat /\ r.policies \in Nat /\ rps[p].paid \in Nat
      BY <1>1 DEF RiskPool
    <3>4. Live(rs, ds, p, {"Active"}) <= r.policies
      <4>1. Live(ps, ds, p, {"Active"}) <= rps[p].policies
        BY <3>1 DEF PoolGood
      <4> DEFINE c == Cardinality(Standing(ps, p, {"Active"}))
                 d == Cardinality(Standing(rs, p, {"Active"}))
                 e == Cardinality(Standing(ds, p, {"Active"}))
                 out == One(n \in DOMAIN ps /\ ps[n].status = "Active")
                 join == One(rs[n].status = "Active")
      <4>3. c \in Nat /\ d \in Nat /\ e \in Nat
        BY <1>6, <1>7
      <4>4. d = c - out + join
        <5>1. d = c - One(n \in DOMAIN ps /\ ps[n].status \in {"Active"}) + One(rs[n].status \in {"Active"})
          BY <1>6
        <5> QED
          BY <3>2, <5>1, Zenon
      <4>5. Live(ps, ds, p, {"Active"}) = c + e /\ Live(rs, ds, p, {"Active"}) = d + e
        BY DEF Live
      <4>2. join \in Nat /\ out \in Nat
        BY DEF One
      <4>6. r.policies - rps[p].policies >= join - out
        OBVIOUS
      <4> HIDE DEF c, d, e, join, out
      <4> QED
        BY <3>3, <4>1, <4>2, <4>3, <4>4, <4>5, <4>6
    <3>5. r.policies <= Live(rs, ds, p, both)
      <4>1. rps[p].policies <= Live(ps, ds, p, both)
        BY <3>1 DEF PoolGood
      <4> DEFINE c == Cardinality(Standing(ps, p, both))
                 d == Cardinality(Standing(rs, p, both))
                 e == Cardinality(Standing(ds, p, {"Active"}))
                 out == One(n \in DOMAIN ps /\ ps[n].status \in both)
                 join == One(rs[n].status \in both)
      <4>3. c \in Nat /\ d \in Nat /\ e \in Nat
        BY <1>6, <1>7
      <4>4. d = c - out + join
        BY <1>6
      <4>5. Live(ps, ds, p, both) = c + e /\ Live(rs, ds, p, both) = d + e
        BY DEF Live
      <4>2. join \in Nat /\ out \in Nat
        BY DEF One
      <4>6. r.policies - rps[p].policies <= join - out
        OBVIOUS
      <4> HIDE DEF c, d, e, join, out
      <4> QED
        BY <3>3, <4>1, <4>2, <4>3, <4>4, <4>5, <4>6
    <3>6. r.paid = PaidSum(es, OfPool(rs, p)) + Covered(ds, p)
      <4>1. rps[p].paid = PaidSum(cs, OfPool(ps, p)) + Covered(ds, p)
        BY <3>1 DEF PoolGood
      <4>2. PaidSum(cs, OfPool(ps, p)) \in Int /\ Covered(ds, p) \in Int
        BY <1>0, CoveredType DEF Linked
      <4> QED
        BY <1>5, <3>3, <4>1, <4>2
    <3>7. r.capital = SumFunctionOnSet(cap[p], Insured)
      BY <3>1 DEF PoolGood
    <3>8. new[q] = r
      BY <1>2, <2>3
    <3> QED
      BY <2>3, <3>4, <3>5, <3>6, <3>7, <3>8 DEF PoolGood
  <2> QED
    BY <2>2, <2>3
<1>9. ASSUME NEW m \in DOMAIN rs
      PROVE  PolicyGood(m, rs[m], es)
  <2>1. CASE m # n
    BY <2>1 DEF Rewritten, Books, PolicyGood
  <2>2. CASE m = n
    <3>1. PaidSum(es, {n}) = PaidSum(cs, {n}) + x
      OBVIOUS
    <3>2. PaidSum(cs, {n}) = IF n \in DOMAIN ps THEN ps[n].claimed ELSE 0
      <4>1. CASE n \in DOMAIN ps
        BY <4>1 DEF Books, PolicyGood
      <4>2. CASE n \notin DOMAIN ps
        <5>1. PaidOn(cs, {n}) = {}
          BY <1>0, <4>2 DEF PaidOn, Linked
        <5> QED
          BY <4>2, <5>1, SumEmpty DEF PaidSum
      <4> QED
        BY <4>1, <4>2
    <3> QED
      BY <2>2, <3>1, <3>2 DEF PolicyGood
  <2> QED
    BY <2>1, <2>2
<1>10. Books(new, cap, rs, es, ds)
  BY <1>2, <1>4, <1>8, <1>9 DEF Books
<1> QED
  BY <1>10 DEF new

\* Parametric policy n of pool p is new, or was in force; x is paid if it is triggered.
ParametricChanged(ds, es, n, p, x) ==
    /\ es \in Seq(Parametric) /\ Rewritten(ds, es, n) /\ es[n].pool = p
    /\ n \in DOMAIN ds => ds[n].pool = p /\ ds[n].status = "Active"
    /\ x = IF es[n].status = "Triggered" THEN es[n].coverage ELSE 0

\* A parametric policy is made, cancelled or triggered, and moves the books of its pool with it.
LEMMA ParametricMoved ==
    ASSUME NEW rps, NEW cap, NEW ps, NEW cs, NEW ds, Books(rps, cap, ps, cs, ds),
           NEW p \in DOMAIN rps, NEW r \in RiskPool, NEW x \in Nat, PoolMoved(rps[p], r, x),
           NEW n, NEW es, ParametricChanged(ds, es, n, p, x),
           r.policies - rps[p].policies = One(es[n].status = "Active") - One(n \in DOMAIN ds)
    PROVE  Books(Written(rps, p, r), cap, ps, cs, es)
<1> USE DEF PoolMoved, ParametricChanged
<1> DEFINE new == Written(rps, p, r)
           out == One(n \in DOMAIN ds)
           join == One(es[n].status = "Active")
<1>0. Linked(rps, cap, ps, cs, ds)
  BY DEF Books
<1>1. /\ IsFiniteSet(DOMAIN ps) /\ IsFiniteSet(DOMAIN ds) /\ \A q \in DOMAIN rps : rps[q] \in RiskPool
  BY <1>0, BooksFacts
<1>2. /\ new \in Seq(RiskPool) /\ DOMAIN new = DOMAIN rps /\ Len(new) = Len(rps)
      /\ new[p] = r /\ \A q \in DOMAIN rps \ {p} : new[q] = rps[q]
  BY <1>0, SeqWritten DEF Linked
<1> HIDE DEF new
<1>3. \A m \in DOMAIN es : es[m].pool \in DOMAIN rps
  BY <1>0 DEF Linked, Rewritten
<1>4. Linked(new, cap, ps, cs, es)
  BY <1>0, <1>2, <1>3 DEF Linked
<1>5. ASSUME NEW q
      PROVE  /\ Cardinality(Standing(ds, q, {"Active"})) \in Nat /\ Cardinality(Standing(es, q, {"Active"})) \in Nat
             /\ q # p => Cardinality(Standing(es, q, {"Active"})) = Cardinality(Standing(ds, q, {"Active"}))
             /\ q = p => Cardinality(Standing(es, q, {"Active"})) = Cardinality(Standing(ds, q, {"Active"})) - out + join
  <2>1. /\ Cardinality(Standing(ds, q, {"Active"})) \in Nat /\ Cardinality(Standing(es, q, {"Active"})) \in Nat
        /\ Cardinality(Standing(es, q, {"Active"})) =
               Cardinality(Standing(ds, q, {"Active"}))
                   - One(n \in Standing(ds, q, {"Active"})) + One(n \in Standing(es, q, {"Active"}))
    BY <1>1, StandingMoved
  <2>2. q # p => n \notin Standing(ds, q, {"Active"}) /\ n \notin Standing(es, q, {"Active"})
    BY DEF Standing, OfPool
  <2>3. q = p => /\ n \in Standing(ds, q, {"Active"}) <=> n \in DOMAIN ds
                 /\ n \in Standing(es, q, {"Active"}) <=> es[n].status = "Active"
    BY DEF Standing, OfPool, Rewritten
  <2>4. q = p => One(n \in Standing(ds, q, {"Active"})) = out /\ One(n \in Standing(es, q, {"Active"})) = join
    BY <2>3 DEF One
  <2> HIDE DEF out, join
  <2> QED
    BY <2>1, <2>2, <2>4 DEF One
<1>6. ASSUME NEW q, NEW statuses
      PROVE  Cardinality(Standing(ps, q, statuses)) \in Nat
  BY <1>1, FS_Subset, FS_CardinalityType DEF Standing, OfPool
<1>7. ASSUME NEW q
      PROVE  /\ Covered(ds, q) \in Int
             /\ Covered(es, q) = Covered(ds, q)
                    + (IF es[n].status = "Triggered" /\ es[n].pool = q THEN es[n].coverage ELSE 0)
  BY <1>0, CoveredMoved DEF Linked
<1>8. out \in Nat /\ join \in Nat /\ r.policies = rps[p].policies - out + join
  <2>1. out \in Nat /\ join \in Nat
    BY DEF One
  <2>2. r.policies - rps[p].policies = join - out
    OBVIOUS
  <2> DEFINE i == r.policies
             k == rps[p].policies
  <2>3. i \in Nat /\ k \in Nat
    BY <1>1 DEF RiskPool
  <2> HIDE DEF out, join, i, k
  <2>4. i - k = join - out
    BY <2>2 DEF i, k
  <2>5. i = k - out + join
    BY <2>1, <2>3, <2>4
  <2> QED
    BY <2>1, <2>5 DEF i, k
<1> HIDE DEF out, join
<1>9. ASSUME NEW q \in DOMAIN rps
      PROVE  PoolGood(new[q], cap[q], q, ps, cs, es)
  <2>1. PoolGood(rps[q], cap[q], q, ps, cs, ds)
    BY DEF Books
  <2>2. CASE q # p
    BY <1>5, <2>2, <1>7, <1>2, <2>1 DEF PoolGood, Live
  <2>3. CASE q = p
    <3>1. PoolGood(rps[p], cap[p], p, ps, cs, ds)
      BY <2>1, <2>3
    <3>2. rps[p].policies \in Nat /\ rps[p].paid \in Nat
      BY <1>1 DEF RiskPool
    <3> DEFINE a == Cardinality(Standing(ps, p, {"Active"}))
               b == Cardinality(Standing(ps, p, {"Active", "Claimed"}))
               c == Cardinality(Standing(ds, p, {"Active"}))
               d == Cardinality(Standing(es, p, {"Active"}))
    <3>3. a \in Nat /\ b \in Nat /\ c \in Nat /\ d \in Nat /\ d = c - out + join
      BY <1>5, <1>6
    <3>4. a + c <= rps[p].policies /\ rps[p].policies <= b + c
      BY <3>1 DEF PoolGood, Live
    <3>5. a + d <= r.policies /\ r.policies <= b + d
      <4> DEFINE e == r.policies
                 f == rps[p].policies
      <4>1. /\ out \in Nat /\ join \in Nat /\ f \in Nat /\ e = f - out + join /\ f <= b + c /\ a + c <= f
            /\ a \in Nat /\ b \in Nat /\ c \in Nat /\ d \in Nat /\ d = c - out + join
        BY <1>8, <3>2, <3>3, <3>4
      <4> HIDE DEF a, b, c, d, e, f
      <4>2. a + d <= e /\ e <= b + d
        BY <4>1
      <4> QED
        BY <4>2 DEF e
    <3>6. Live(ps, es, p, {"Active"}) <= r.policies /\ r.policies <= Live(ps, es, p, {"Active", "Claimed"})
      BY <3>5 DEF Live
    <3>7. r.paid = PaidSum(cs, OfPool(ps, p)) + Covered(es, p)
      <4>1. rps[p].paid = PaidSum(cs, OfPool(ps, p)) + Covered(ds, p)
        BY <3>1 DEF PoolGood
      <4>2. PaidSum(cs, OfPool(ps, p)) \in Int
        BY <1>0, PaidType DEF Linked
      <4>3. n \in DOMAIN es /\ es[n].coverage \in Nat
        <5>1. n \in DOMAIN es
          BY DEF Rewritten
        <5>2. es[n] \in Parametric
          BY <5>1, ElementOfSeq, LenProperties
        <5> QED
          BY <5>1, <5>2 DEF Parametric
      <4> QED
        BY <1>7, <3>2, <4>1, <4>2, <4>3
    <3>8. r.capital = SumFunctionOnSet(cap[p], Insured)
      BY <3>1 DEF PoolGood
    <3>9. new[q] = r
      BY <1>2, <2>3
    <3> QED
      BY <2>3, <3>6, <3>7, <3>8, <3>9 DEF PoolGood
  <2> QED
    BY <2>2, <2>3
<1>10. \A m \in DOMAIN ps : PolicyGood(m, ps[m], cs)
  BY DEF Books
<1>11. Books(new, cap, ps, cs, es)
  BY <1>2, <1>4, <1>9, <1>10 DEF Books
<1> QED
  BY <1>11 DEF new

\* Claims are made or decided and nothing is paid.
LEMMA NothingPaid ==
    ASSUME NEW rps, NEW cap, NEW ps, NEW cs, NEW ds, Books(rps, cap, ps, cs, ds),
           NEW es \in Seq(Claim), \A c \in DOMAIN es : es[c].policy \in DOMAIN ps,
           \A S : PaidSum(es, S) = PaidSum(cs, S)
    PROVE  Books(rps, cap, ps, es, ds)
<1>1. Linked(rps, cap, ps, es, ds)
  BY DEF Books, Linked
<1>2. ASSUME NEW q \in DOMAIN rps
      PROVE  PoolGood(rps[q], cap[q], q, ps, es, ds)
  BY DEF Books, PoolGood
<1>3. ASSUME NEW n \in DOMAIN ps
      PROVE  PolicyGood(n, ps[n], es)
  BY DEF Books, PolicyGood
<1> QED
  BY <1>1, <1>2, <1>3 DEF Books

\* A pool is made.
LEMMA PoolAdded ==
    ASSUME NEW rps, NEW cap, NEW ps, NEW cs, NEW ds, Books(rps, cap, ps, cs, ds), Len(rps) < MaxRiskPools,
           NEW r \in RiskPool, r.capital = 0, r.available = 0, r.premiums = 0, r.paid = 0, r.policies = 0
    PROVE  Books(Append(rps, r), cap, ps, cs, ds)
<1> DEFINE new == Append(rps, r)
           p == Len(rps) + 1
<1>0. Linked(rps, cap, ps, cs, ds)
  BY DEF Books
<1>1. /\ new \in Seq(RiskPool) /\ Len(new) = p /\ Len(rps) \in Nat
      /\ DOMAIN rps = 1..Len(rps) /\ DOMAIN new = DOMAIN rps \cup {p} /\ p \notin DOMAIN rps
      /\ new[p] = r /\ \A q \in DOMAIN rps : new[q] = rps[q]
  BY <1>0, SeqAppended DEF Linked
<1>2. p \in riskPoolIds /\ p <= MaxRiskPools
  BY <1>1, InsuranceFacts DEF riskPoolIds
<1> HIDE DEF new, p
<1>3. Linked(new, cap, ps, cs, ds)
  BY <1>0, <1>1, <1>2 DEF Linked
<1>4. PoolGood(r, cap[p], p, ps, cs, ds)
  <2>1. OfPool(ps, p) = {} /\ Standing(ps, p, {"Active"}) = {} /\ Standing(ps, p, {"Active", "Claimed"}) = {}
    BY <1>0, <1>1 DEF Linked, OfPool, Standing
  <2>2. Standing(ds, p, {"Active"}) = {} /\ Standing(ds, p, {"Triggered"}) = {}
    BY <1>0, <1>1 DEF Linked, OfPool, Standing
  <2>3. Covered(ds, p) = 0
    BY <2>2, SumEmpty DEF Covered
  <2>4. PaidSum(cs, OfPool(ps, p)) = 0
    <3>1. PaidOn(cs, {}) = {}
      BY DEF PaidOn
    <3> QED
      BY <2>1, <3>1, SumEmpty DEF PaidSum
  <2>5. SumFunctionOnSet(cap[p], Insured) = 0
    BY <1>0, <1>1, <1>2, InsuranceFacts, SumZero DEF Linked
  <2>6. Live(ps, ds, p, {"Active"}) = 0 /\ Live(ps, ds, p, {"Active", "Claimed"}) = 0
    <3>1. Cardinality({}) = 0
      BY FS_EmptySet
    <3>2. Live(ps, ds, p, {"Active"}) = Cardinality({}) + Cardinality({})
      BY <2>1, <2>2, Zenon DEF Live
    <3>3. Live(ps, ds, p, {"Active", "Claimed"}) = Cardinality({}) + Cardinality({})
      BY <2>1, <2>2, Zenon DEF Live
    <3> QED
      BY <3>1, <3>2, <3>3
  <2> QED
    BY <2>3, <2>4, <2>5, <2>6 DEF PoolGood
<1>5. \A q \in DOMAIN new : PoolGood(new[q], cap[q], q, ps, cs, ds)
  BY <1>1, <1>4, Zenon DEF Books
<1>6. \A n \in DOMAIN ps : PolicyGood(n, ps[n], cs)
  BY DEF Books
<1> QED
  BY <1>3, <1>5, <1>6 DEF Books, new

\* An account puts capital into a pool.
LEMMA Deposited ==
    ASSUME NEW rps, NEW cap, NEW ps, NEW cs, NEW ds, Books(rps, cap, ps, cs, ds),
           NEW p \in DOMAIN rps, NEW r \in RiskPool, NEW a \in Insured, NEW x \in Nat,
           r.capital = rps[p].capital + x, r.available = rps[p].available + x,
           r.premiums = rps[p].premiums, r.paid = rps[p].paid, r.policies = rps[p].policies
    PROVE  Books(Written(rps, p, r), [cap EXCEPT ![p][a] = @ + x], ps, cs, ds)
<1> DEFINE new == Written(rps, p, r)
           given == [cap EXCEPT ![p][a] = @ + x]
<1>0. Linked(rps, cap, ps, cs, ds)
  BY DEF Books
<1>1. DOMAIN rps \subseteq riskPoolIds /\ rps[p] \in RiskPool
  BY <1>0, BooksFacts
<1>2. /\ new \in Seq(RiskPool) /\ DOMAIN new = DOMAIN rps /\ Len(new) = Len(rps)
      /\ new[p] = r /\ \A q \in DOMAIN rps \ {p} : new[q] = rps[q]
  BY <1>0, SeqWritten DEF Linked
<1>3. cap \in [riskPoolIds -> [Insured -> Nat]] /\ p \in riskPoolIds
  BY <1>0, <1>1 DEF Linked
<1>4. /\ given \in [riskPoolIds -> [Insured -> Nat]] /\ \A q \in riskPoolIds \ {p} : given[q] = cap[q]
      /\ given[p][a] = cap[p][a] + x /\ \A b \in Insured \ {a} : given[p][b] = cap[p][b]
  BY <1>3
<1> HIDE DEF new, given
<1>5. Linked(new, given, ps, cs, ds)
  BY <1>0, <1>2, <1>4 DEF Linked
<1>6. SumFunctionOnSet(given[p], Insured) = SumFunctionOnSet(cap[p], Insured) + x
  BY <1>3, <1>4, InsuranceFacts, SumChange, SumType
<1>7. ASSUME NEW q \in DOMAIN rps
      PROVE  PoolGood(new[q], given[q], q, ps, cs, ds)
  <2>1. PoolGood(rps[q], cap[q], q, ps, cs, ds)
    BY DEF Books
  <2>2. CASE q # p
    BY <1>1, <1>2, <1>4, <2>1, <2>2
  <2>3. CASE q = p
    <3>1. new[q] = r
      BY <1>2, <2>3
    <3>2. r.available + r.paid = r.capital + r.premiums
      BY <1>1, <2>1, <2>3 DEF PoolGood, RiskPool
    <3> QED
      BY <1>6, <2>1, <2>3, <3>1, <3>2 DEF PoolGood
  <2> QED
    BY <2>2, <2>3
<1>8. \A n \in DOMAIN ps : PolicyGood(n, ps[n], cs)
  BY DEF Books
<1> QED
  BY <1>2, <1>5, <1>7, <1>8 DEF Books, new, given

----
\* Numbers

\* What is taken as a rate is a natural number.
LEMMA BpsIsNatural ==
    ASSUME NEW a \in Nat, NEW b \in Nat
    PROVE  Bps(a, b) \in Nat /\ (b <= 10000 => Bps(a, b) <= a)
  BY Products DEF Bps

LEMMA BpsNatural == \A a, b \in Nat : Bps(a, b) \in Nat
  BY BpsIsNatural

\* What is left of an amount, and the smaller one of two, are natural numbers.
LEMMA AmountFacts ==
    ASSUME NEW a \in Nat, NEW b \in Nat
    PROVE  /\ Above(a, b) \in Nat /\ Above(a, b) <= a
           /\ Least(a, b) \in Nat /\ Least(a, b) <= a /\ Least(a, b) <= b
  BY DEF Above, Least

\* The deductible of a policy is a number (calculate_deductible).
LEMMA DeductibleIsNatural ==
    ASSUME NEW coverage \in Nat, NEW s \in ScoreArgs
    PROVE  Deductible(coverage, s) \in Nat
<1> DEFINE steps == <<20, 40, 60, 80>>
           values == <<200, 150, 100, 75, 50>>
           S == {i \in DOMAIN steps : Overall(s) <= steps[i]} \cup {Len(values)}
<1>1. DOMAIN steps = 1..4 /\ Len(values) = 5
  OBVIOUS
<1>2. S \subseteq 1..5 /\ S # {}
  BY <1>1
<1>3. Min(S) \in 1..5
  BY <1>2, LeastNumber DEF Min
<1>4. Step(steps, values, Overall(s)) \in Nat
  BY <1>3 DEF Step
<1> DEFINE x == Step(steps, values, Overall(s))
<1>5. Deductible(coverage, s) = Bps(coverage, 500 + x)
  BY DEF Deductible
<1>6. x \in Nat
  BY <1>4
<1> HIDE DEF steps, values, S, x
<1>7. 500 + x \in Nat
  BY <1>6
<1>8. Bps(coverage, 500 + x) \in Nat
  BY <1>6, <1>7, BpsIsNatural
<1> QED
  BY <1>5, <1>8

----
\* The invariant of insurance

BooksInv == Books(riskPools, capital, policies, claims, parametric)

OfficeInv ==
    /\ OfficeKey!RotationTypeOK
    /\ dataOracles \subseteq Insured /\ assessors \subseteq Insured
    /\ settings \in [fee : 0..MaxFee, cooldown : Nat, single : Nat, daily : Nat, window : Nat \ {0}]

RiskInv ==
    /\ DOMAIN assessments = Houses
    /\ \A h \in Houses : assessments[h] \subseteq [scores : ScoreArgs, until : Nat]
    /\ models \in Seq([type : CoverageTypes, rate : Nat])

TimesInv == claimTimes \in [Houses -> Nat] /\ windows \in [riskPoolIds -> [start : Nat, total : Nat]]

Cessions(ts) == [treaty : DOMAIN ts, amount : Nat \ {0}]
Recoveries(ts, cs) == [treaty : DOMAIN ts, claim : DOMAIN cs, amount : Nat \ {0}]

TreatyInv ==
    /\ treaties \in Seq(Treaty)
    /\ cessions \in Seq(Cessions(treaties)) /\ recoveries \in Seq(Recoveries(treaties, claims))
    /\ \A t \in DOMAIN treaties :
          treaties[t].recovered = Amounts(recoveries, t) /\ treaties[t].ceded = Amounts(cessions, t)

\* A trigger pays a share of what remains, and its claim is one that was approved for its policy.
TriggerGood(t, ps, cs) ==
    /\ t.policy \in DOMAIN ps
    /\ t.mode.mode = "Percent" => t.mode.value <= 10000
    /\ t.claim # 0 => /\ t.claim \in DOMAIN cs
                      /\ cs[t.claim].policy = t.policy /\ cs[t.claim].status \in {"Approved", "Paid"}
                      /\ cs[t.claim].amount <= ps[t.policy].coverage

TriggerInv ==
    /\ triggers \in Seq(Trigger)
    /\ \A t \in DOMAIN triggers : TriggerGood(triggers[t], policies, claims)
    /\ \A t \in DOMAIN triggers : triggers[t].claim # 0 =>
          \A u \in DOMAIN triggers \ {t} : triggers[u].claim # triggers[t].claim

\* The list names each of the set once.
Names(list, S) ==
    /\ {list[i] : i \in DOMAIN list} = S
    /\ \A i, j \in DOMAIN list : list[i] = list[j] => i = j

HeldBy(a, ps) == {n \in DOMAIN ps : ps[n].holder = a}

HeldInv ==
    /\ tokens \in Seq([owner : Insured, price : SUBSET Nat]) /\ Len(tokens) = Len(policies)
    /\ portfolio \in [Insured -> Seq(DOMAIN policies)]
    /\ \A a \in Insured : Names(portfolio[a], HeldBy(a, policies))
    /\ \A n \in DOMAIN policies : tokens[n].owner = policies[n].holder
    /\ tokenListings = {n \in DOMAIN tokens : tokens[n].price # {}}

InsuranceInv ==
    /\ block \in Nat
    /\ BooksInv /\ OfficeInv /\ RiskInv /\ TimesInv /\ TreatyInv /\ TriggerInv /\ HeldInv

\* Messages that leave the parts of the state alone.
LEMMA InsuranceFrames ==
    /\ BooksInv /\ UNCHANGED <<riskPools, capital, policies, claims, parametric>> => BooksInv'
    /\ OfficeInv /\ UNCHANGED officeVars => OfficeInv'
    /\ RiskInv /\ UNCHANGED underwritingVars => RiskInv'
    /\ TimesInv /\ UNCHANGED <<claimTimes, windows>> => TimesInv'
    /\ TreatyInv /\ UNCHANGED <<treatyVars, claims>> => TreatyInv'
    /\ TriggerInv /\ UNCHANGED <<triggers, policies, claims>> => TriggerInv'
    /\ HeldInv /\ UNCHANGED policyVars => HeldInv'
<1>1. BooksInv /\ UNCHANGED <<riskPools, capital, policies, claims, parametric>> => BooksInv'
  BY DEF BooksInv
<1>2. OfficeInv /\ UNCHANGED officeVars => OfficeInv'
  BY DEF OfficeInv, officeVars, OfficeKey!RotationTypeOK, OfficeKey!Rotation
<1>3. RiskInv /\ UNCHANGED underwritingVars => RiskInv'
  BY DEF RiskInv, underwritingVars
<1>4. TimesInv /\ UNCHANGED <<claimTimes, windows>> => TimesInv'
  BY DEF TimesInv
<1>5. TreatyInv /\ UNCHANGED <<treatyVars, claims>> => TreatyInv'
  BY DEF TreatyInv, treatyVars
<1>6. TriggerInv /\ UNCHANGED <<triggers, policies, claims>> => TriggerInv'
  BY DEF TriggerInv
<1>7. HeldInv /\ UNCHANGED policyVars => HeldInv'
  BY DEF HeldInv, policyVars
<1> QED
  BY <1>1, <1>2, <1>3, <1>4, <1>5, <1>6, <1>7

\* Policies keep what they cover, and claims that were approved stay so: the triggers' books hold.
LEMMA TriggersKept ==
    ASSUME TriggerInv, UNCHANGED triggers,
           DOMAIN policies \subseteq DOMAIN policies',
           \A n \in DOMAIN policies : policies'[n].coverage = policies[n].coverage,
           DOMAIN claims \subseteq DOMAIN claims',
           \A c \in DOMAIN claims : claims[c].status \in {"Approved", "Paid"} =>
               /\ claims'[c].policy = claims[c].policy /\ claims'[c].amount = claims[c].amount
               /\ claims'[c].status \in {"Approved", "Paid"}
    PROVE  TriggerInv'
<1>1. ASSUME NEW t \in DOMAIN triggers
      PROVE  TriggerGood(triggers[t], policies', claims')
  BY DEF TriggerInv, TriggerGood
<1> QED
  BY <1>1 DEF TriggerInv

\* Policies keep their holders: so do the lists and the tokens.
LEMMA HoldersKept ==
    ASSUME HeldInv, UNCHANGED <<portfolio, tokens, tokenListings>>,
           DOMAIN policies' = DOMAIN policies, Len(policies') = Len(policies),
           \A n \in DOMAIN policies : policies'[n].holder = policies[n].holder
    PROVE  HeldInv'
<1>1. \A a : HeldBy(a, policies') = HeldBy(a, policies)
  BY DEF HeldBy
<1> QED
  BY <1>1 DEF HeldInv

\* Claims are made, decided and paid, none is forgotten: treaties' records hold.
LEMMA RecordsKept ==
    ASSUME TreatyInv, UNCHANGED treatyVars, DOMAIN claims \subseteq DOMAIN claims'
    PROVE  TreatyInv'
<1>1. treaties' = treaties /\ cessions' = cessions /\ recoveries' = recoveries
  BY DEF treatyVars
<1>2. Recoveries(treaties, claims) \subseteq Recoveries(treaties, claims')
  BY DEF Recoveries
<1>3. recoveries \in Seq(Recoveries(treaties, claims'))
  BY <1>2, SeqWider DEF TreatyInv
<1> QED
  BY <1>1, <1>3 DEF TreatyInv

\* A record is added: the sum of its treaty's records grows by its amount.
LEMMA RecordAdded ==
    ASSUME NEW S, NEW list \in Seq(S), NEW d \in S, \A x \in S : x.amount \in Int, NEW t
    PROVE  /\ Amounts(list, t) \in Int
           /\ Amounts(Append(list, d), t) = Amounts(list, t) + (IF d.treaty = t THEN d.amount ELSE 0)
<1> DEFINE new == Append(list, d)
           k == Len(list) + 1
           P == {i \in DOMAIN list : list[i].treaty = t}
           Q == {i \in DOMAIN new : new[i].treaty = t}
           f == [i \in P |-> list[i].amount]
           g == [i \in Q |-> new[i].amount]
           x == IF d.treaty = t THEN d.amount ELSE 0
<1>1. /\ DOMAIN new = DOMAIN list \cup {k} /\ k \notin DOMAIN list /\ new[k] = d
      /\ \A m \in DOMAIN list : new[m] = list[m]
  BY SeqAppended
<1>2. IsFiniteSet(P)
  BY DomainFinite, FS_Subset
<1>3. \A i \in DOMAIN list : list[i].amount \in Int
  BY ElementOfSeq, LenProperties
<1> HIDE DEF new, k
<1>4. Q \ {k} = P \ {k} /\ k \notin P /\ \A i \in P \ {k} : f[i] \in Int /\ g[i] = f[i]
  BY <1>1, <1>3
<1>5. (k \in Q => g[k] = x) /\ (k \notin Q => x = 0) /\ x \in Int
  BY <1>1
<1>6. SumFunctionOnSet(f, P) \in Int
  BY <1>3, <1>2, SumType
<1>7. SumFunctionOnSet(g, Q) = SumFunctionOnSet(f, P) - 0 + x
  <2> HIDE DEF f, g, P, Q, x
  <2> QED
    BY <1>2, <1>4, <1>5, SumSwap
<1>8. Amounts(list, t) = SumFunctionOnSet(f, P) /\ Amounts(new, t) = SumFunctionOnSet(g, Q)
  BY DEF Amounts
<1> HIDE DEF f, g, P, Q
<1>9. Amounts(new, t) = Amounts(list, t) + x
  <2> HIDE DEF x
  <2> QED
    BY <1>5, <1>6, <1>7, <1>8
<1> QED
  BY <1>6, <1>8, <1>9 DEF new

----
\* Pools, risk, and policies

\* create_risk_pool
LEMMA CreateRiskPoolKeeps ==
    ASSUME InsuranceInv, NEW a, NEW type \in CoverageTypes, NEW exposure \in ExposureArgs,
           CreateRiskPool(a, type, exposure)
    PROVE  InsuranceInv'
  BY InsuranceFacts, PoolAdded, InsuranceFrames DEF CreateRiskPool, RiskPool, InsuranceInv, BooksInv, policyVars,
     claimVars

\* provide_pool_liquidity
LEMMA ProvidePoolLiquidityKeeps ==
    ASSUME InsuranceInv, NEW a \in Insured, NEW p, NEW amount \in Nat,
           ProvidePoolLiquidity(a, p, amount)
    PROVE  InsuranceInv'
<1> DEFINE o == riskPools[p]
           c == o.capital + amount
           v == o.available + amount
           r == Rebooked(o, c, v, o.premiums, o.paid, o.policies)
<1>1. /\ p \in DOMAIN riskPools
      /\ riskPools' = [riskPools EXCEPT ![p].capital = @ + amount, ![p].available = @ + amount]
      /\ capital' = [capital EXCEPT ![p][a] = @ + amount]
      /\ UNCHANGED <<block, officeVars, underwritingVars, policyVars, claimVars, triggers, treatyVars,
                     parametric>>
  BY DEF ProvidePoolLiquidity
<1>2. /\ o \in RiskPool /\ o.capital \in Nat /\ o.available \in Nat /\ o.premiums \in Nat
      /\ o.paid \in Nat /\ o.policies \in Nat
  BY <1>1, BooksFacts DEF InsuranceInv, BooksInv, Books, RiskPool
<1>3. /\ r \in RiskPool /\ r.capital = c /\ r.available = v
      /\ r.premiums = o.premiums /\ r.paid = o.paid /\ r.policies = o.policies
  <2>1. c \in Nat /\ v \in Nat
    BY <1>2
  <2> HIDE DEF c, v, o
  <2>2. r \in RiskPool
    BY <1>2, <2>1, RebookedType
  <2>3. /\ r.capital = c /\ r.available = v /\ r.premiums = o.premiums /\ r.paid = o.paid
        /\ r.policies = o.policies
    BY <1>2, RebookedFields
  <2> QED
    BY <2>2, <2>3
<1>4. riskPools' = Written(riskPools, p, r)
  BY <1>1, <1>2 DEF Written, Rebooked, RiskPool
<1> HIDE DEF r
<1>5. Books(riskPools', capital', policies, claims, parametric)
  <2>1. Books(riskPools, capital, policies, claims, parametric)
    BY DEF InsuranceInv, BooksInv
  <2>2. Books(Written(riskPools, p, r), [capital EXCEPT ![p][a] = @ + amount], policies, claims, parametric)
    BY <1>1, <1>3, <2>1, Deposited
  <2> QED
    BY <1>1, <1>4, <2>2
<1>6. UNCHANGED <<policies, claims, parametric, claimTimes, windows>>
  BY <1>1 DEF policyVars, claimVars
<1>7. BooksInv'
  BY <1>5, <1>6 DEF BooksInv
<1> QED
  BY <1>1, <1>6, <1>7, InsuranceFrames DEF InsuranceInv

\* update_risk_assessment, update_actuarial_model
LEMMA UnderwritingKeeps ==
    ASSUME InsuranceInv, NEW a,
           \/ \E house \in Houses, scores \in ScoreArgs, span \in SpanArgs :
                 UpdateRiskAssessment(a, house, scores, span)
           \/ \E type \in CoverageTypes, rate \in {TypeRate[t] : t \in CoverageTypes} :
                 UpdateActuarialModel(a, type, rate)
    PROVE  InsuranceInv'
<1>1. CASE \E house \in Houses, scores \in ScoreArgs, span \in SpanArgs :
              UpdateRiskAssessment(a, house, scores, span)
  BY <1>1, InsuranceFacts, InsuranceFrames DEF UpdateRiskAssessment, now, InsuranceInv, RiskInv, policyVars,
     claimVars
<1>2. CASE \E type \in CoverageTypes, rate \in {TypeRate[t] : t \in CoverageTypes} :
              UpdateActuarialModel(a, type, rate)
  BY <1>2, InsuranceFacts, AppendProperties, InsuranceFrames DEF UpdateActuarialModel, InsuranceInv, RiskInv,
     policyVars, claimVars
<1> QED
  BY <1>1, <1>2

----
\* Lists and pools after a message

\* An entry is added to a list, or written anew.
LEMMA RewrittenByAppend ==
    ASSUME NEW S, NEW s \in Seq(S), NEW d \in S
    PROVE  /\ Append(s, d) \in Seq(S) /\ Rewritten(s, Append(s, d), Len(s) + 1)
           /\ Append(s, d)[Len(s) + 1] = d /\ Len(s) + 1 \notin DOMAIN s /\ Len(s) + 1 \in Nat \ {0}
           /\ Len(Append(s, d)) = Len(s) + 1 /\ DOMAIN s \subseteq DOMAIN Append(s, d)
           /\ \A m \in DOMAIN s : Append(s, d)[m] = s[m]
  BY SeqAppended DEF Rewritten

LEMMA RewrittenByWrite ==
    ASSUME NEW S, NEW s \in Seq(S), NEW n \in DOMAIN s, NEW d \in S
    PROVE  /\ Written(s, n, d) \in Seq(S) /\ Rewritten(s, Written(s, n, d), n)
           /\ Written(s, n, d)[n] = d /\ \A m \in DOMAIN s \ {n} : Written(s, n, d)[m] = s[m]
           /\ DOMAIN Written(s, n, d) = DOMAIN s /\ Len(Written(s, n, d)) = Len(s)
<1> DEFINE new == Written(s, n, d)
<1>1. /\ new \in Seq(S) /\ DOMAIN new = DOMAIN s /\ Len(new) = Len(s)
      /\ new[n] = d /\ \A m \in DOMAIN s \ {n} : new[m] = s[m]
  BY SeqWritten
<1> HIDE DEF new
<1>2. Rewritten(s, new, n)
  BY <1>1 DEF Rewritten
<1> QED
  BY <1>1, <1>2 DEF new

\* A pool takes a premium, counts one policy less, pays, or does both.
BookedIn(rps, p, x) ==
    [rps EXCEPT ![p].premiums = @ + x, ![p].available = @ + x, ![p].policies = @ + 1]
PolicyReleased(rps, p) == [rps EXCEPT ![p].policies = Above(@, 1)]
PaidOutOf(rps, p, x) ==
    [rps EXCEPT ![p].available = @ - x, ![p].paid = @ + x]
PaidAndReleased(rps, p, x) ==
    [rps EXCEPT ![p].available = @ - x, ![p].paid = @ + x, ![p].policies = Above(@, 1)]

\* A premium, less the platform's fee, goes to a pool with a policy (Underwritten).
LEMMA PoolUnderwrites ==
    ASSUME NEW rps, NEW p \in DOMAIN rps, rps[p] \in RiskPool,
           rps[p].available + rps[p].paid = rps[p].capital + rps[p].premiums, NEW x \in Nat
    PROVE  \E r \in RiskPool :
              /\ BookedIn(rps, p, x) = Written(rps, p, r)
              /\ PoolMoved(rps[p], r, 0) /\ r.policies = rps[p].policies + 1
<1> DEFINE o == rps[p]
           v == o.available + x
           m == o.premiums + x
           n == o.policies + 1
           r == Rebooked(o, o.capital, v, m, o.paid, n)
<1>1. /\ o \in RiskPool /\ o.capital \in Nat /\ o.available \in Nat /\ o.premiums \in Nat
      /\ o.paid \in Nat /\ o.policies \in Nat
  BY DEF RiskPool
<1>2. [rps EXCEPT ![p].premiums = @ + x, ![p].available = @ + x, ![p].policies = @ + 1] = Written(rps, p, r)
  BY <1>1 DEF Written, Rebooked, RiskPool
<1>3. v \in Nat /\ m \in Nat /\ n \in Nat /\ v + o.paid = o.capital + m
  BY <1>1
<1>4. /\ r \in RiskPool /\ r.capital = o.capital /\ r.available = v
      /\ r.premiums = m /\ r.paid = o.paid /\ r.policies = n
  <2> HIDE DEF o, v, m, n
  <2>1. r \in RiskPool
    BY <1>1, <1>3, RebookedType
  <2>2. /\ r.capital = o.capital /\ r.available = v /\ r.premiums = m /\ r.paid = o.paid
        /\ r.policies = n
    BY <1>1, RebookedFields
  <2> QED
    BY <2>1, <2>2
<1>5. o.paid = o.paid + 0
  BY <1>1
<1> HIDE DEF r, v, m
<1>6. /\ r.available + r.paid = r.capital + r.premiums /\ r.capital = o.capital
      /\ r.paid = o.paid + 0 /\ r.policies = o.policies + 1
  BY <1>3, <1>4, <1>5
<1> QED
  BY <1>2, <1>4, <1>6 DEF BookedIn, PoolMoved

\* A pool counts one policy less (cancel_policy, cancel_parametric_policy).
LEMMA PoolReleases ==
    ASSUME NEW rps, NEW p \in DOMAIN rps, rps[p] \in RiskPool,
           rps[p].available + rps[p].paid = rps[p].capital + rps[p].premiums, rps[p].policies >= 1
    PROVE  \E r \in RiskPool :
              /\ PolicyReleased(rps, p) = Written(rps, p, r)
              /\ PoolMoved(rps[p], r, 0) /\ r.policies = rps[p].policies - 1
<1> DEFINE o == rps[p]
           n == Above(o.policies, 1)
           r == Rebooked(o, o.capital, o.available, o.premiums, o.paid, n)
<1>1. /\ o \in RiskPool /\ o.capital \in Nat /\ o.available \in Nat /\ o.premiums \in Nat
      /\ o.paid \in Nat /\ o.policies \in Nat
  BY DEF RiskPool
<1>2. [rps EXCEPT ![p].policies = Above(@, 1)] = Written(rps, p, r)
  <2>1. [o EXCEPT !.policies = n] = r
    <3> HIDE DEF o, n
    <3> QED
      BY <1>1 DEF Rebooked, RiskPool
  <2>2. [rps EXCEPT ![p].policies = Above(@, 1)] = [rps EXCEPT ![p] = [o EXCEPT !.policies = n]]
    OBVIOUS
  <2> HIDE DEF r, o, n
  <2> QED
    BY <2>1, <2>2 DEF Written
<1>3. n \in Nat /\ n = o.policies - 1
  BY <1>1 DEF Above
<1>4. /\ r \in RiskPool /\ r.capital = o.capital /\ r.available = o.available
      /\ r.premiums = o.premiums /\ r.paid = o.paid /\ r.policies = n
  <2> HIDE DEF o, n
  <2>1. r \in RiskPool
    BY <1>1, <1>3, RebookedType
  <2>2. /\ r.capital = o.capital /\ r.available = o.available /\ r.premiums = o.premiums /\ r.paid = o.paid
        /\ r.policies = n
    BY <1>1, RebookedFields
  <2> QED
    BY <2>1, <2>2
<1>5. o.paid = o.paid + 0
  BY <1>1
<1> HIDE DEF r, n
<1>6. /\ r.available + r.paid = r.capital + r.premiums /\ r.capital = o.capital
      /\ r.paid = o.paid + 0 /\ r.policies = o.policies - 1
  BY <1>3, <1>4, <1>5
<1> QED
  BY <1>2, <1>4, <1>6 DEF PolicyReleased, PoolMoved

\* A pool pays (execute_payout).
LEMMA PoolPays ==
    ASSUME NEW rps, NEW p \in DOMAIN rps, rps[p] \in RiskPool,
           rps[p].available + rps[p].paid = rps[p].capital + rps[p].premiums,
           NEW x \in Nat, x <= rps[p].available
    PROVE  \E r \in RiskPool :
              /\ PaidOutOf(rps, p, x) = Written(rps, p, r)
              /\ PoolMoved(rps[p], r, x) /\ r.policies = rps[p].policies
<1> DEFINE o == rps[p]
           v == o.available - x
           d == o.paid + x
           r == Rebooked(o, o.capital, v, o.premiums, d, o.policies)
<1>1. /\ o \in RiskPool /\ o.capital \in Nat /\ o.available \in Nat /\ o.premiums \in Nat
      /\ o.paid \in Nat /\ o.policies \in Nat
  BY DEF RiskPool
<1>2. [rps EXCEPT ![p].available = @ - x, ![p].paid = @ + x] = Written(rps, p, r)
  BY <1>1 DEF Written, Rebooked, RiskPool
<1>3. v \in Nat /\ d \in Nat /\ v + d = o.capital + o.premiums
  BY <1>1
<1>4. /\ r \in RiskPool /\ r.capital = o.capital /\ r.available = v
      /\ r.premiums = o.premiums /\ r.paid = d /\ r.policies = o.policies
  <2> HIDE DEF o, v, d
  <2>1. r \in RiskPool
    BY <1>1, <1>3, RebookedType
  <2>2. /\ r.capital = o.capital /\ r.available = v /\ r.premiums = o.premiums /\ r.paid = d
        /\ r.policies = o.policies
    BY <1>1, RebookedFields
  <2> QED
    BY <2>1, <2>2
<1> HIDE DEF r, v
<1>6. /\ r.available + r.paid = r.capital + r.premiums /\ r.capital = o.capital
      /\ r.paid = o.paid + x /\ r.policies = o.policies
  BY <1>3, <1>4
<1> QED
  BY <1>2, <1>4, <1>6 DEF PaidOutOf, PoolMoved

\* A pool pays a parametric policy and counts it no longer (execute_parametric_payout).
LEMMA PoolPaysAndReleases ==
    ASSUME NEW rps, NEW p \in DOMAIN rps, rps[p] \in RiskPool,
           rps[p].available + rps[p].paid = rps[p].capital + rps[p].premiums, rps[p].policies >= 1,
           NEW x \in Nat, x <= rps[p].available
    PROVE  \E r \in RiskPool :
              /\ PaidAndReleased(rps, p, x) = Written(rps, p, r)
              /\ PoolMoved(rps[p], r, x) /\ r.policies = rps[p].policies - 1
<1> DEFINE o == rps[p]
           v == o.available - x
           d == o.paid + x
           n == Above(o.policies, 1)
           r == Rebooked(o, o.capital, v, o.premiums, d, n)
<1>1. /\ o \in RiskPool /\ o.capital \in Nat /\ o.available \in Nat /\ o.premiums \in Nat
      /\ o.paid \in Nat /\ o.policies \in Nat
  BY DEF RiskPool
<1>2. [rps EXCEPT ![p].available = @ - x, ![p].paid = @ + x, ![p].policies = Above(@, 1)] = Written(rps, p, r)
  <2>1. [o EXCEPT !.available = v, !.paid = d, !.policies = n] = r
    <3> HIDE DEF o, v, d, n
    <3> QED
      BY <1>1 DEF Rebooked, RiskPool
  <2>2. [rps EXCEPT ![p].available = @ - x, ![p].paid = @ + x, ![p].policies = Above(@, 1)]
            = [rps EXCEPT ![p] = [o EXCEPT !.available = v, !.paid = d, !.policies = n]]
    BY <1>1 DEF RiskPool
  <2> HIDE DEF r, o, v, d, n
  <2> QED
    BY <2>1, <2>2 DEF Written
<1>3. v \in Nat /\ d \in Nat /\ v + d = o.capital + o.premiums /\ n \in Nat /\ n = o.policies - 1
  BY <1>1 DEF Above
<1>4. /\ r \in RiskPool /\ r.capital = o.capital /\ r.available = v
      /\ r.premiums = o.premiums /\ r.paid = d /\ r.policies = n
  <2> HIDE DEF o, v, d, n
  <2>1. r \in RiskPool
    BY <1>1, <1>3, RebookedType
  <2>2. /\ r.capital = o.capital /\ r.available = v /\ r.premiums = o.premiums /\ r.paid = d
        /\ r.policies = n
    BY <1>1, RebookedFields
  <2> QED
    BY <2>1, <2>2
<1> HIDE DEF r, v, n
<1>6. /\ r.available + r.paid = r.capital + r.premiums /\ r.capital = o.capital
      /\ r.paid = o.paid + x /\ r.policies = o.policies - 1
  BY <1>3, <1>4
<1> QED
  BY <1>2, <1>4, <1>6 DEF PaidAndReleased, PoolMoved
\* The parts of the state have their types.
LEMMA InsuranceHas ==
    ASSUME InsuranceInv
    PROVE  /\ now \in Nat
           /\ riskPools \in Seq(RiskPool) /\ policies \in Seq(Policy) /\ claims \in Seq(Claim)
           /\ parametric \in Seq(Parametric)
           /\ Linked(riskPools, capital, policies, claims, parametric)
           /\ \A q \in DOMAIN riskPools : riskPools[q] \in RiskPool
           /\ \A q \in DOMAIN riskPools :
                 riskPools[q].available + riskPools[q].paid = riskPools[q].capital + riskPools[q].premiums
           /\ \A n \in DOMAIN policies : policies[n] \in Policy /\ policies[n].pool \in DOMAIN riskPools
           /\ \A c \in DOMAIN claims : claims[c] \in Claim /\ claims[c].policy \in DOMAIN policies
           /\ \A n \in DOMAIN parametric : parametric[n] \in Parametric /\ parametric[n].pool \in DOMAIN riskPools
           /\ settings.fee \in Nat /\ settings.cooldown \in Nat /\ settings.window \in Nat \ {0}
<1>1. now \in Nat
  BY InsuranceFacts DEF InsuranceInv, now
<1>2. Books(riskPools, capital, policies, claims, parametric)
  BY DEF InsuranceInv, BooksInv
<1>3. Linked(riskPools, capital, policies, claims, parametric)
  BY <1>2 DEF Books
<1>4. \A q \in DOMAIN riskPools :
         riskPools[q].available + riskPools[q].paid = riskPools[q].capital + riskPools[q].premiums
  BY <1>2 DEF Books, PoolGood
<1>5. settings.fee \in Nat /\ settings.cooldown \in Nat /\ settings.window \in Nat \ {0}
  BY InsuranceFacts DEF InsuranceInv, OfficeInv
<1>6. /\ riskPools \in Seq(RiskPool) /\ policies \in Seq(Policy) /\ claims \in Seq(Claim)
      /\ parametric \in Seq(Parametric)
      /\ \A n \in DOMAIN policies : policies[n].pool \in DOMAIN riskPools
      /\ \A c \in DOMAIN claims : claims[c].policy \in DOMAIN policies
      /\ \A n \in DOMAIN parametric : parametric[n].pool \in DOMAIN riskPools
  BY <1>3 DEF Linked
<1> QED
  BY <1>1, <1>3, <1>4, <1>5, <1>6, BooksFacts

\* A policy that was on no list is added to one.
LEMMA NamesAppended ==
    ASSUME NEW T, NEW list \in Seq(T), NEW S, Names(list, S), NEW n \in T, n \notin S
    PROVE  Names(Append(list, n), S \cup {n})
  BY SeqAppended DEF Names

\* create_policy
LEMMA CreatePolicyKeeps ==
    ASSUME InsuranceInv, NEW a \in Insured, NEW house \in Houses, NEW type, NEW coverage \in Nat, NEW p,
           NEW span \in Nat, NEW paid \in Nat, CreatePolicy(a, house, type, coverage, p, span, paid)
    PROVE  InsuranceInv'
<1>1. PICK d \in Policy :
          /\ d.holder = a /\ d.pool = p /\ d.status = "Active" /\ d.claimed = 0
          /\ policies' = Append(policies, d)
  <2>1. PICK s \in assessments[house] :
            policies' = Append(policies,
                [house |-> house, holder |-> a, coverage |-> coverage,
                 deductible |-> Deductible(coverage, s.scores), end |-> now + span, pool |-> p,
                 status |-> "Active", claimed |-> 0])
    BY DEF CreatePolicy
  <2> DEFINE d == [house |-> house, holder |-> a, coverage |-> coverage,
                   deductible |-> Deductible(coverage, s.scores), end |-> now + span, pool |-> p,
                   status |-> "Active", claimed |-> 0]
  <2>2. s.scores \in ScoreArgs
    BY DEF InsuranceInv, RiskInv
  <2>3. Deductible(coverage, s.scores) \in Nat
    BY <2>2, DeductibleIsNatural
  <2>4. now + span \in Nat /\ p \in Nat
    <3>1. now \in Nat
      BY InsuranceHas
    <3>2. p \in DOMAIN riskPools
      BY DEF CreatePolicy, Insurable
    <3>3. DOMAIN riskPools \subseteq riskPoolIds
      BY InsuranceHas, BooksFacts
    <3> QED
      BY <3>1, <3>2, <3>3 DEF riskPoolIds
  <2>5. d \in Policy
    BY <2>3, <2>4 DEF Policy
  <2>6. d.holder = a /\ d.pool = p /\ d.status = "Active" /\ d.claimed = 0
    OBVIOUS
  <2> QED
    BY <2>1, <2>5, <2>6
<1> DEFINE n == Len(policies) + 1
           x == Above(paid, Bps(paid, settings.fee))
           token == [owner |-> a, price |-> {}]
<1>2. /\ p \in DOMAIN riskPools
      /\ riskPools' = [riskPools EXCEPT ![p].premiums = @ + x, ![p].available = @ + x, ![p].policies = @ + 1]
      /\ portfolio' = [portfolio EXCEPT ![a] = Append(@, Len(policies'))]
      /\ tokens' = Append(tokens, token)
      /\ UNCHANGED <<block, officeVars, capital, underwritingVars, tokenListings, claimVars, triggers,
                     treatyVars, parametric>>
  BY DEF CreatePolicy, Insurable, Underwritten
<1>3. x \in Nat
  <2>1. settings.fee \in Nat
    BY InsuranceHas
  <2>2. Bps(paid, settings.fee) \in Nat
    BY <2>1, BpsNatural
  <2> QED
    BY <2>2, AmountFacts
<1> HIDE DEF x, token
<1>4. /\ policies' \in Seq(Policy) /\ Rewritten(policies, policies', n) /\ policies'[n] = d
      /\ n \notin DOMAIN policies /\ Len(policies') = n /\ DOMAIN policies \subseteq DOMAIN policies'
      /\ \A m \in DOMAIN policies : policies'[m] = policies[m]
  BY <1>1, InsuranceHas, RewrittenByAppend
<1>5. BooksInv'
  <2>0. /\ p \in DOMAIN riskPools /\ riskPools[p] \in RiskPool
        /\ riskPools[p].available + riskPools[p].paid = riskPools[p].capital + riskPools[p].premiums
    BY <1>2, InsuranceHas
  <2>1. PICK r \in RiskPool :
            /\ riskPools' = Written(riskPools, p, r)
            /\ PoolMoved(riskPools[p], r, 0) /\ r.policies = riskPools[p].policies + 1
    <3>1. \E r \in RiskPool :
             /\ BookedIn(riskPools, p, x) = Written(riskPools, p, r)
             /\ PoolMoved(riskPools[p], r, 0) /\ r.policies = riskPools[p].policies + 1
      BY <1>3, <2>0, PoolUnderwrites
    <3>2. riskPools' = BookedIn(riskPools, p, x)
      BY <1>2 DEF BookedIn
    <3> QED
      BY <3>1, <3>2
  <2>2. PolicyCounted(policies, policies', n, r.policies - riskPools[p].policies)
    <3>1. riskPools[p].policies \in Nat
      BY <2>0 DEF RiskPool
    <3>2. r.policies - riskPools[p].policies = 1
      BY <2>1, <3>1
    <3>3. PolicyCounted(policies, policies', n, 1)
      BY <1>1, <1>4 DEF PolicyCounted, One
    <3> QED
      BY <3>2, <3>3
  <2>3. PolicyCharged(policies, policies', n, p, 0)
    BY <1>1, <1>4 DEF PolicyCharged
  <2>4. ClaimsPaid(claims, claims, policies', n, 0)
    <3>1. \A S : PaidSum(claims, S) \in Int
      BY InsuranceHas, PaidType
    <3>2. \A c \in DOMAIN claims : claims[c].policy \in DOMAIN policies'
      BY <1>4, InsuranceHas
    <3> QED
      BY <3>1, <3>2, InsuranceHas DEF ClaimsPaid
  <2>5. Books(riskPools, capital, policies, claims, parametric)
    BY DEF InsuranceInv, BooksInv
  <2> HIDE DEF n
  <2>6. Books(Written(riskPools, p, r), capital, policies', claims, parametric)
    BY <2>0, <2>1, <2>2, <2>3, <2>4, <2>5, PolicyMoved
  <2> QED
    BY <1>2, <2>1, <2>6 DEF BooksInv, claimVars
<1>6. HeldInv'
  <2>1. /\ tokens \in Seq([owner : Insured, price : SUBSET Nat]) /\ Len(tokens) = Len(policies)
        /\ portfolio \in [Insured -> Seq(DOMAIN policies)]
        /\ \A b \in Insured : Names(portfolio[b], HeldBy(b, policies))
        /\ \A m \in DOMAIN policies : tokens[m].owner = policies[m].holder
        /\ tokenListings = {m \in DOMAIN tokens : tokens[m].price # {}}
    BY DEF InsuranceInv, HeldInv
  <2>2. token \in [owner : Insured, price : SUBSET Nat] /\ token.owner = a /\ token.price = {}
    BY DEF token
  <2>3. /\ tokens' \in Seq([owner : Insured, price : SUBSET Nat]) /\ Len(tokens') = n
        /\ DOMAIN tokens' = DOMAIN tokens \cup {n} /\ tokens'[n] = token
        /\ \A m \in DOMAIN tokens : tokens'[m] = tokens[m]
        /\ n \notin DOMAIN tokens
    <3>1. tokens' = Append(tokens, token)
      BY <1>2
    <3> QED
      BY <2>1, <2>2, <3>1, SeqAppended
  <2>4. DOMAIN policies' = DOMAIN policies \cup {n} /\ DOMAIN tokens = DOMAIN policies
    BY <2>1, InsuranceHas, LenProperties, <1>4 DEF Rewritten
  <2>5. portfolio' = [portfolio EXCEPT ![a] = Append(portfolio[a], n)]
    BY <1>2, <1>4
  <2> HIDE DEF n
  <2>6. \A b \in Insured : portfolio[b] \in Seq(DOMAIN policies')
    BY <1>4, <2>1, SeqWider
  <2>7. Append(portfolio[a], n) \in Seq(DOMAIN policies')
    BY <2>4, <2>6, AppendProperties
  <2>8. portfolio' \in [Insured -> Seq(DOMAIN policies')]
    BY <2>1, <2>5, <2>6, <2>7
  <2>9. ASSUME NEW b \in Insured
        PROVE  Names(portfolio'[b], HeldBy(b, policies'))
    <3>1. CASE b = a
      <4>1. HeldBy(a, policies') = HeldBy(a, policies) \cup {n} /\ n \notin HeldBy(a, policies)
        BY <1>1, <1>4, <2>4 DEF HeldBy
      <4>2. Names(Append(portfolio[a], n), HeldBy(a, policies) \cup {n})
        BY <2>1, <2>4, <2>6, <4>1, NamesAppended
      <4> QED
        BY <2>1, <2>5, <3>1, <4>1, <4>2
    <3>2. CASE b # a
      <4>1. HeldBy(b, policies') = HeldBy(b, policies)
        BY <1>1, <1>4, <2>4, <3>2 DEF HeldBy
      <4> QED
        BY <2>1, <2>5, <3>2, <4>1
    <3> QED
      BY <3>1, <3>2
  <2>10. \A m \in DOMAIN policies' : tokens'[m].owner = policies'[m].holder
    BY <1>1, <1>4, <2>1, <2>2, <2>3, <2>4
  <2>11. tokenListings' = {m \in DOMAIN tokens' : tokens'[m].price # {}}
    BY <1>2, <2>1, <2>2, <2>3
  <2>12. Len(tokens') = Len(policies')
    BY <1>4, <2>3
  <2> QED
    BY <2>3, <2>8, <2>9, <2>10, <2>11, <2>12 DEF HeldInv
<1>7. TriggerInv'
  BY <1>2, <1>4, TriggersKept DEF claimVars, InsuranceInv
<1>8. UNCHANGED <<claims, claimTimes, windows>>
  BY <1>2 DEF claimVars
<1> QED
  BY <1>2, <1>5, <1>6, <1>7, <1>8, InsuranceFrames DEF InsuranceInv

\* No claim is decided: what was paid stays.
LEMMA NoClaimsPaid ==
    ASSUME InsuranceInv, NEW rs, DOMAIN policies \subseteq DOMAIN rs, NEW n
    PROVE  ClaimsPaid(claims, claims, rs, n, 0)
  BY InsuranceHas, PaidType DEF ClaimsPaid

\* cancel_policy
LEMMA CancelPolicyKeeps ==
    ASSUME InsuranceInv, NEW a, NEW n, CancelPolicy(a, n)
    PROVE  InsuranceInv'
<1> DEFINE o == policies[n]
           p == o.pool
           d == [o EXCEPT !.status = "Cancelled"]
<1>1. /\ n \in DOMAIN policies /\ o.status = "Active"
      /\ policies' = [policies EXCEPT ![n].status = "Cancelled"]
      /\ riskPools' = [riskPools EXCEPT ![p].policies = Above(@, 1)]
      /\ UNCHANGED <<block, officeVars, capital, underwritingVars, portfolio, tokens, tokenListings,
                     claimVars, triggers, treatyVars, parametric>>
  BY DEF CancelPolicy
<1>2. o \in Policy /\ p \in DOMAIN riskPools
  BY <1>1, InsuranceHas
<1>3. /\ riskPools[p] \in RiskPool /\ riskPools[p].policies >= 1
      /\ riskPools[p].available + riskPools[p].paid = riskPools[p].capital + riskPools[p].premiums
  BY <1>1, InForceIsCounted, <1>2, InsuranceHas DEF InsuranceInv, BooksInv
<1>4. policies' = Written(policies, n, d)
  BY <1>1 DEF Written
<1>5. /\ d \in Policy /\ d.status = "Cancelled" /\ d.pool = p /\ d.claimed = o.claimed
      /\ d.coverage = o.coverage /\ d.holder = o.holder
  <2> HIDE DEF o
  <2> QED
    BY <1>2 DEF Policy
<1> HIDE DEF d
<1>6. /\ policies' \in Seq(Policy) /\ Rewritten(policies, policies', n) /\ policies'[n] = d
      /\ DOMAIN policies' = DOMAIN policies /\ Len(policies') = Len(policies)
      /\ \A m \in DOMAIN policies \ {n} : policies'[m] = policies[m]
  <2>1. policies \in Seq(Policy) /\ n \in DOMAIN policies /\ d \in Policy
    BY <1>1, <1>5, InsuranceHas
  <2> QED
    BY <1>4, <2>1, RewrittenByWrite
<1>7. BooksInv'
  <2>1. PICK r \in RiskPool :
            /\ riskPools' = Written(riskPools, p, r)
            /\ PoolMoved(riskPools[p], r, 0) /\ r.policies = riskPools[p].policies - 1
    <3>1. \E r \in RiskPool :
             /\ PolicyReleased(riskPools, p) = Written(riskPools, p, r)
             /\ PoolMoved(riskPools[p], r, 0) /\ r.policies = riskPools[p].policies - 1
      BY <1>2, <1>3, PoolReleases
    <3>2. riskPools' = PolicyReleased(riskPools, p)
      BY <1>1 DEF PolicyReleased
    <3> QED
      BY <3>1, <3>2
  <2>2. PolicyCounted(policies, policies', n, r.policies - riskPools[p].policies)
    <3>1. riskPools[p].policies \in Nat
      BY <1>3 DEF RiskPool
    <3>2. r.policies - riskPools[p].policies = -1
      BY <2>1, <3>1
    <3>3. PolicyCounted(policies, policies', n, -1)
      BY <1>1, <1>5, <1>6 DEF PolicyCounted, One
    <3> QED
      BY <3>2, <3>3
  <2>3. PolicyCharged(policies, policies', n, p, 0)
    <3>1. o.claimed = o.claimed + 0
      BY <1>2 DEF Policy
    <3> QED
      BY <1>1, <1>5, <1>6, <3>1 DEF PolicyCharged
  <2>4. ClaimsPaid(claims, claims, policies', n, 0)
    BY <1>6, NoClaimsPaid
  <2>5. Books(riskPools, capital, policies, claims, parametric)
    BY DEF InsuranceInv, BooksInv
  <2> HIDE DEF p
  <2>6. Books(Written(riskPools, p, r), capital, policies', claims, parametric)
    BY <1>2, <2>1, <2>2, <2>3, <2>4, <2>5, PolicyMoved
  <2> QED
    BY <1>1, <2>1, <2>6 DEF BooksInv, claimVars
<1>8. HeldInv'
  BY <1>5, <1>6, <1>1, HoldersKept DEF InsuranceInv
<1>9. TriggerInv'
  BY <1>5, <1>6, <1>1, TriggersKept DEF claimVars, InsuranceInv
<1>10. UNCHANGED <<claims, claimTimes, windows>>
  BY <1>1 DEF claimVars
<1> QED
  BY <1>1, <1>7, <1>8, <1>9, <1>10, InsuranceFrames DEF InsuranceInv

----
\* Claims and payouts

\* A claim is made or decided and not paid.
LEMMA ClaimsUnpaid ==
    ASSUME NEW cs \in Seq(Claim), NEW es \in Seq(Claim), NEW c, Rewritten(cs, es, c),
           c \in DOMAIN cs => cs[c].status # "Paid", es[c].status # "Paid", NEW S
    PROVE  PaidSum(es, S) = PaidSum(cs, S)
  BY ClaimDecided

\* A claim's policy, claimant and amount are those it was made with, and an approved claim stays so.
Decided(cs, es, c) ==
    /\ es \in Seq(Claim) /\ Rewritten(cs, es, c) /\ c \in DOMAIN es
    /\ c \in DOMAIN cs => cs[c].status = "Pending"
    /\ es[c].policy \in DOMAIN policies

\* The claims after a decision that pays nothing.
LEMMA UnpaidKeeps ==
    ASSUME InsuranceInv, NEW c, Decided(claims, claims', c), claims'[c].status # "Paid",
           UNCHANGED <<block, officeVars, riskPools, capital, underwritingVars, policyVars, claimTimes,
                       windows, treatyVars, parametric>>
    PROVE  BooksInv' /\ TreatyInv' /\ (UNCHANGED triggers => TriggerInv')
<1>1. /\ claims' \in Seq(Claim) /\ Rewritten(claims, claims', c) /\ claims'[c].policy \in DOMAIN policies
      /\ c \in DOMAIN claims => claims[c].status = "Pending"
  BY DEF Decided
<1>2. \A S : PaidSum(claims', S) = PaidSum(claims, S)
  BY <1>1, InsuranceHas, ClaimsUnpaid
<1>3. \A m \in DOMAIN claims' : claims'[m].policy \in DOMAIN policies
  BY <1>1, InsuranceHas DEF Rewritten
<1>4. UNCHANGED <<policies, riskPools, capital, parametric>>
  BY DEF policyVars
<1>5. BooksInv'
  BY <1>1, <1>2, <1>3, NothingPaid, <1>4 DEF InsuranceInv, BooksInv
<1>6. DOMAIN claims \subseteq DOMAIN claims'
  BY <1>1 DEF Rewritten
<1>7. TreatyInv'
  BY <1>6, RecordsKept DEF InsuranceInv
<1>8. ASSUME UNCHANGED triggers
      PROVE  TriggerInv'
  BY <1>1, <1>4, <1>6, <1>8, TriggersKept DEF Rewritten, InsuranceInv
<1> QED
  BY <1>5, <1>7, <1>8

\* submit_claim
LEMMA SubmitClaimKeeps ==
    ASSUME InsuranceInv, NEW a \in Insured, NEW n, NEW amount \in Nat, SubmitClaim(a, n, amount)
    PROVE  InsuranceInv'
<1> DEFINE d == [policy |-> n, claimant |-> a, amount |-> amount, payout |-> 0, status |-> "Pending"]
           c == Len(claims) + 1
<1>1. /\ n \in DOMAIN policies /\ claims' = Append(claims, d)
      /\ UNCHANGED <<block, officeVars, riskPools, capital, underwritingVars, policyVars, claimTimes,
                     windows, triggers, treatyVars, parametric>>
  BY DEF SubmitClaim
<1>2. d \in Claim /\ d.status = "Pending" /\ d.policy = n
  BY <1>1, InsuranceHas, LenProperties DEF Claim
<1> HIDE DEF d
<1>3. Decided(claims, claims', c) /\ claims'[c].status # "Paid"
  <2>1. /\ claims' \in Seq(Claim) /\ Rewritten(claims, claims', c) /\ claims'[c] = d /\ c \notin DOMAIN claims
    BY <1>1, <1>2, InsuranceHas, RewrittenByAppend
  <2> HIDE DEF c
  <2>2. c \in DOMAIN claims'
    BY <2>1 DEF Rewritten
  <2> QED
    BY <1>1, <1>2, <2>1, <2>2 DEF Decided
<1> HIDE DEF c
<1>4. BooksInv' /\ TreatyInv' /\ TriggerInv'
  BY <1>1, <1>3, UnpaidKeeps
<1> QED
  BY <1>1, <1>4, InsuranceFrames DEF InsuranceInv

\* What a treaty bears, and what it takes, are natural numbers.
LEMMA TreatyShares ==
    ASSUME NEW terms \in TreatyArgs, NEW loss \in Nat
    PROVE  Recovered(terms, loss) \in Nat /\ Ceded(terms, loss) \in Nat
<1>1. terms.limit \in Nat /\ terms.retention \in Nat /\ terms.rate \in Nat
  BY InsuranceFacts
<1>2. Bps(loss, terms.rate) \in Nat
  BY <1>1, BpsNatural
<1>3. Excess(terms, loss) \in Nat
  <2>1. Above(loss, terms.retention) \in Nat
    BY <1>1, AmountFacts
  <2> QED
    BY <1>1, <2>1, AmountFacts DEF Excess
<1> QED
  BY <1>2, <1>3 DEF Recovered, Ceded

\* A recovery is recorded: the treaty's sum grows by it.
LEMMA RecoverKeeps ==
    ASSUME InsuranceInv, NEW t \in DOMAIN treaties, NEW x \in Nat \ {0}, NEW c \in DOMAIN claims',
           DOMAIN claims \subseteq DOMAIN claims', Recover(t, c, x), UNCHANGED cessions
    PROVE  TreatyInv'
<1> DEFINE o == treaties[t]
           y == o.recovered + x
           z == o.recoveries + 1
           d == [o EXCEPT !.recovered = y, !.recoveries = z]
           e == [treaty |-> t, claim |-> c, amount |-> x]
           kind == Recoveries(treaties, claims')
<1>1. /\ treaties \in Seq(Treaty) /\ cessions \in Seq(Cessions(treaties))
      /\ recoveries \in Seq(Recoveries(treaties, claims))
      /\ \A u \in DOMAIN treaties :
            treaties[u].recovered = Amounts(recoveries, u) /\ treaties[u].ceded = Amounts(cessions, u)
  BY DEF InsuranceInv, TreatyInv
<1>2. recoveries' = Append(recoveries, e)
      /\ treaties' = [treaties EXCEPT ![t].recovered = @ + x, ![t].recoveries = @ + 1]
  BY DEF Recover
<1>3. o \in Treaty
  BY <1>1, ElementOfSeq, LenProperties
<1>4. treaties' = Written(treaties, t, d)
  BY <1>2, <1>3 DEF Written, Treaty
<1>5. d \in Treaty /\ d.recovered = y /\ d.ceded = o.ceded
  <2>1. y \in Nat /\ z \in Nat
    BY <1>3 DEF Treaty
  <2> HIDE DEF o, y, z
  <2> QED
    BY <1>3, <2>1 DEF Treaty
<1> HIDE DEF d
<1>6. /\ treaties' \in Seq(Treaty) /\ DOMAIN treaties' = DOMAIN treaties /\ treaties'[t] = d
      /\ \A u \in DOMAIN treaties \ {t} : treaties'[u] = treaties[u]
  BY <1>1, <1>4, <1>5, SeqWritten
<1>7. recoveries \in Seq(kind)
  <2>1. Recoveries(treaties, claims) \subseteq kind
    BY DEF Recoveries
  <2> QED
    BY <1>1, <2>1, SeqWider
<1>8. e \in kind /\ e.treaty = t /\ e.amount = x
  BY DEF Recoveries
<1>9. \A r \in kind : r.amount \in Int
  BY DEF Recoveries
<1> HIDE DEF e, kind
<1>10. recoveries' \in Seq(kind)
  BY <1>2, <1>7, <1>8, AppendProperties
<1>11. \A u : /\ Amounts(recoveries, u) \in Int
              /\ Amounts(recoveries', u) = Amounts(recoveries, u) + (IF u = t THEN x ELSE 0)
  BY <1>7, <1>8, <1>9, RecordAdded, <1>2
<1>12. ASSUME NEW u \in DOMAIN treaties
       PROVE  treaties'[u].recovered = Amounts(recoveries', u) /\ treaties'[u].ceded = Amounts(cessions, u)
  <2>1. CASE u = t
    BY <1>1, <1>5, <1>6, <1>11, <2>1
  <2>2. CASE u # t
    BY <1>1, <1>6, <1>11, <2>2
  <2> QED
    BY <2>1, <2>2
<1>13. Recoveries(treaties', claims') = kind /\ Cessions(treaties') = Cessions(treaties)
  BY <1>6 DEF kind, Recoveries, Cessions
<1>14. cessions' = cessions
  OBVIOUS
<1> QED
  BY <1>1, <1>6, <1>10, <1>12, <1>13, <1>14 DEF TreatyInv

\* The treaties after a payout.
LEMMA ReinsuranceKeeps ==
    ASSUME InsuranceInv, NEW p, NEW c \in DOMAIN claims', NEW amount \in Nat,
           DOMAIN claims \subseteq DOMAIN claims', TryReinsuranceRecovery(p, c, amount), UNCHANGED cessions
    PROVE  TreatyInv'
<1> DEFINE bearing == {t \in DOMAIN treaties :
                          /\ treaties[t].active /\ now <= treaties[t].end
                          /\ Recovered(treaties[t].terms, amount) > 0}
           first == Min(bearing)
<1>1. CASE UNCHANGED <<treaties, recoveries>>
  BY <1>1, RecordsKept DEF InsuranceInv, treatyVars
<1>2. CASE bearing # {} /\ Recover(first, c, Recovered(treaties[first].terms, amount))
  <2>1. treaties \in Seq(Treaty)
    BY DEF InsuranceInv, TreatyInv
  <2>2. bearing \in SUBSET Nat
    BY <2>1, LenProperties
  <2>3. first \in bearing
    <3> HIDE DEF bearing
    <3> QED
      BY <1>2, <2>2, LeastNumber DEF Min
  <2> HIDE DEF first
  <2>4. first \in DOMAIN treaties /\ Recovered(treaties[first].terms, amount) > 0
    BY <2>3
  <2>5. treaties[first].terms \in TreatyArgs
    <3>1. treaties[first] \in Treaty
      BY <2>1, <2>4, ElementOfSeq, LenProperties
    <3> QED
      BY <3>1 DEF Treaty
  <2>6. Recovered(treaties[first].terms, amount) \in Nat \ {0}
    BY <2>4, <2>5, TreatyShares
  <2> HIDE DEF bearing
  <2> QED
    BY <1>2, <2>4, <2>6, RecoverKeeps
<1> QED
  BY <1>1, <1>2 DEF TryReinsuranceRecovery

\* What a policy is once it has paid.
LEMMA ChargedFields ==
    ASSUME NEW o \in Policy, NEW x \in Nat
    PROVE  /\ Charged(o, x) \in Policy /\ Charged(o, x).claimed = o.claimed + x
           /\ Charged(o, x).coverage = o.coverage /\ Charged(o, x).holder = o.holder /\ Charged(o, x).pool = o.pool
           /\ Charged(o, x).status = (IF o.claimed + x >= o.coverage THEN "Claimed" ELSE o.status)
<1> DEFINE y == o.claimed + x
           z == IF y >= o.coverage THEN "Claimed" ELSE o.status
           d == [o EXCEPT !.claimed = y, !.status = z]
<1>1. y \in Nat /\ z \in {"Active", "Claimed", "Cancelled"}
  BY DEF Policy
<1>2. Charged(o, x) = d
  BY DEF Charged
<1>3. /\ d \in Policy /\ d.claimed = y /\ d.status = z /\ d.coverage = o.coverage
      /\ d.holder = o.holder /\ d.pool = o.pool
  <2> HIDE DEF y, z
  <2> QED
    BY <1>1 DEF Policy
<1> HIDE DEF d, y
<1> QED
  BY <1>2, <1>3 DEF y

\* The claim of a payout is paid, and is otherwise as it was decided.
MarkedPaid(decided, c) == [decided EXCEPT ![c].status = "Paid"]

LEMMA PaidClaim ==
    ASSUME NEW decided, NEW c, Decided(claims, decided, c)
    PROVE  /\ MarkedPaid(decided, c) \in Seq(Claim) /\ Rewritten(claims, MarkedPaid(decided, c), c)
           /\ DOMAIN MarkedPaid(decided, c) = DOMAIN decided
           /\ MarkedPaid(decided, c)[c].status = "Paid" /\ MarkedPaid(decided, c)[c].policy = decided[c].policy
           /\ MarkedPaid(decided, c)[c].payout = decided[c].payout
           /\ MarkedPaid(decided, c)[c].amount = decided[c].amount
<1> DEFINE es == MarkedPaid(decided, c)
           o == decided[c]
           e == [o EXCEPT !.status = "Paid"]
<1>1. decided \in Seq(Claim) /\ c \in DOMAIN decided /\ Rewritten(claims, decided, c)
  BY DEF Decided
<1>2. o \in Claim
  BY <1>1, ElementOfSeq, LenProperties
<1>3. es = Written(decided, c, e)
  BY DEF Written, MarkedPaid
<1>4. e \in Claim /\ e.status = "Paid" /\ e.policy = o.policy /\ e.payout = o.payout /\ e.amount = o.amount
  <2> HIDE DEF o
  <2> QED
    BY <1>2 DEF Claim
<1> HIDE DEF e, es
<1>5. /\ es \in Seq(Claim) /\ DOMAIN es = DOMAIN decided /\ es[c] = e
      /\ \A m \in DOMAIN decided \ {c} : es[m] = decided[m]
  BY <1>1, <1>4, <1>3, SeqWritten
<1>6. Rewritten(claims, es, c)
  BY <1>1, <1>5 DEF Rewritten
<1> QED
  BY <1>1, <1>4, <1>5, <1>6 DEF es

\* Triggers find their claims and policies as they were.
ClaimsStand ==
    /\ DOMAIN claims \subseteq DOMAIN claims'
    /\ \A c \in DOMAIN claims : claims[c].status \in {"Approved", "Paid"} => claims'[c] = claims[c]
    /\ DOMAIN policies' = DOMAIN policies
    /\ \A n \in DOMAIN policies : policies'[n].coverage = policies[n].coverage

\* The payout of a claim that was just decided.
LEMMA ExecutePayoutKeeps ==
    ASSUME InsuranceInv, NEW decided, NEW c, Decided(claims, decided, c), decided[c].status = "Approved",
           NEW amount \in Nat, decided[c].payout = amount, ExecutePayout(decided, c, amount),
           UNCHANGED <<block, officeVars, capital, underwritingVars, portfolio, tokens, tokenListings, parametric>>
    PROVE  /\ BooksInv' /\ TimesInv' /\ TreatyInv' /\ HeldInv' /\ ClaimsStand
           /\ DOMAIN claims' = DOMAIN decided /\ claims'[c].status \in {"Approved", "Paid"}
           /\ claims'[c].policy = decided[c].policy /\ claims'[c].amount = decided[c].amount
<1>1. CASE amount = 0 /\ claims' = decided
           /\ UNCHANGED <<riskPools, policies, claimTimes, windows, treatyVars>>
  BY <1>1, UnpaidKeeps, InsuranceFrames DEF policyVars, InsuranceInv, ClaimsStand, Decided, Rewritten
<1>2. CASE amount > 0
  <2> DEFINE n == decided[c].policy
             o == policies[n]
             p == o.pool
             d == Charged(o, amount)
  <2>1. /\ WithinBreaker(p, amount) /\ TryReinsuranceRecovery(p, c, amount)
        /\ amount <= riskPools[p].available
        /\ riskPools' = [riskPools EXCEPT ![p].available = @ - amount, ![p].paid = @ + amount]
        /\ policies' = [policies EXCEPT ![n] = Charged(@, amount)]
        /\ claimTimes' = [claimTimes EXCEPT ![o.house] = now]
        /\ claims' = [decided EXCEPT ![c].status = "Paid"]
        /\ UNCHANGED cessions
    <3>1. amount # 0
      BY <1>2
    <3> QED
      BY <3>1, Zenon DEF ExecutePayout
  <2>2. n \in DOMAIN policies /\ o \in Policy /\ p \in DOMAIN riskPools
    BY InsuranceHas DEF Decided
  <2>3. /\ riskPools[p] \in RiskPool
        /\ riskPools[p].available + riskPools[p].paid = riskPools[p].capital + riskPools[p].premiums
    BY <2>2, InsuranceHas
  <2>4. /\ d \in Policy /\ d.claimed = o.claimed + amount /\ d.coverage = o.coverage /\ d.holder = o.holder
        /\ d.pool = p /\ d.status = (IF o.claimed + amount >= o.coverage THEN "Claimed" ELSE o.status)
    BY <2>2, ChargedFields
  <2>5. policies' = Written(policies, n, d)
    BY <2>1 DEF Written
  <2> HIDE DEF d
  <2>6. /\ policies' \in Seq(Policy) /\ Rewritten(policies, policies', n) /\ policies'[n] = d
        /\ DOMAIN policies' = DOMAIN policies /\ Len(policies') = Len(policies)
        /\ \A m \in DOMAIN policies \ {n} : policies'[m] = policies[m]
    <3>1. policies \in Seq(Policy) /\ n \in DOMAIN policies /\ d \in Policy
      BY <2>2, <2>4, InsuranceHas
    <3> HIDE DEF n
    <3> QED
      BY <2>5, <3>1, RewrittenByWrite
  <2>7. /\ claims' \in Seq(Claim) /\ Rewritten(claims, claims', c) /\ c \in DOMAIN claims'
        /\ claims'[c].status = "Paid" /\ claims'[c].policy = n /\ claims'[c].payout = amount
        /\ claims'[c].amount = decided[c].amount /\ DOMAIN claims' = DOMAIN decided
    <3>1. claims' = MarkedPaid(decided, c)
      BY <2>1 DEF MarkedPaid
    <3>2. c \in DOMAIN decided
      BY DEF Decided
    <3> QED
      BY <3>1, <3>2, PaidClaim
  <2>8. /\ DOMAIN claims \subseteq DOMAIN claims' /\ DOMAIN claims' = DOMAIN decided
        /\ \A m \in DOMAIN claims' : claims'[m].policy \in DOMAIN policies'
    BY <2>7, <2>2, <2>6, InsuranceHas DEF Rewritten, Decided
  <2>9. ClaimsPaid(claims, claims', policies', n, amount)
    <3>1. claims \in Seq(Claim) /\ (c \in DOMAIN claims => claims[c].status # "Paid")
      BY InsuranceHas DEF Decided
    <3>2. ASSUME NEW S
          PROVE  /\ PaidSum(claims, S) \in Int
                 /\ PaidSum(claims', S) = PaidSum(claims, S) + (IF n \in S THEN amount ELSE 0)
      BY <2>7, <3>1, ClaimDecided
    <3> QED
      BY <2>7, <2>8, <3>2 DEF ClaimsPaid
  <2>10. PolicyGood(n, o, claims)
    BY <2>2 DEF InsuranceInv, BooksInv, Books
  <2>11. PolicyCharged(policies, policies', n, p, amount)
    <3>1. d.status = "Claimed" => d.claimed >= d.coverage
      BY <2>2, <2>10, <2>4 DEF Policy, PolicyGood
    <3> QED
      BY <2>2, <2>4, <2>6, <3>1 DEF PolicyCharged
  <2>12. PolicyCounted(policies, policies', n, 0)
    BY <2>4, <2>2, <2>6 DEF One, o, PolicyCounted
  <2>13. BooksInv'
    <3>1. PICK r \in RiskPool :
              /\ riskPools' = Written(riskPools, p, r)
              /\ PoolMoved(riskPools[p], r, amount) /\ r.policies = riskPools[p].policies
      <4>1. \E r \in RiskPool :
               /\ PaidOutOf(riskPools, p, amount) = Written(riskPools, p, r)
               /\ PoolMoved(riskPools[p], r, amount) /\ r.policies = riskPools[p].policies
        BY <2>1, <2>2, <2>3, PoolPays
      <4>2. riskPools' = PaidOutOf(riskPools, p, amount)
        BY <2>1 DEF PaidOutOf
      <4> QED
        BY <4>1, <4>2
    <3>2. r.policies - riskPools[p].policies = 0
      BY <3>1 DEF RiskPool
    <3>3. PolicyCounted(policies, policies', n, r.policies - riskPools[p].policies)
      BY <2>12, <3>2
    <3>4. Books(riskPools, capital, policies, claims, parametric)
      BY DEF InsuranceInv, BooksInv
    <3> HIDE DEF n, p
    <3>5. Books(Written(riskPools, p, r), capital, policies', claims', parametric)
      BY <2>2, <2>9, <2>11, <3>1, <3>3, <3>4, PolicyMoved
    <3> QED
      BY <3>1, <3>5 DEF BooksInv
  <2>14. TimesInv'
    <3>1. /\ claimTimes \in [Houses -> Nat] /\ windows \in [riskPoolIds -> [start : Nat, total : Nat]]
      BY DEF InsuranceInv, TimesInv
    <3>2. now \in Nat /\ p \in riskPoolIds /\ o.house \in Houses
      BY <2>2, InsuranceHas, BooksFacts DEF Policy
    <3>3. claimTimes' \in [Houses -> Nat]
      BY <2>1, <3>1, <3>2
    <3>4. windows' \in [riskPoolIds -> [start : Nat, total : Nat]]
      <4> DEFINE fresh == now - windows[p].start >= settings.window
                 total == amount + (IF fresh THEN 0 ELSE windows[p].total)
                 begin == IF fresh THEN now ELSE windows[p].start
      <4>1. \/ UNCHANGED windows
            \/ windows' = [windows EXCEPT ![p] = [start |-> begin, total |-> total]]
        BY <2>1 DEF WithinBreaker
      <4>2. windows[p].start \in Nat /\ windows[p].total \in Nat
        BY <3>1, <3>2
      <4>3. total \in Nat /\ begin \in Nat
        BY <3>2, <4>2
      <4> HIDE DEF total, begin, p
      <4> QED
        BY <3>1, <3>2, <4>1, <4>3
    <3> QED
      BY <3>3, <3>4 DEF TimesInv
  <2>15. TreatyInv'
    BY <2>1, <2>7, <2>8, ReinsuranceKeeps
  <2>16. HeldInv'
    BY <2>4, <2>6, HoldersKept DEF InsuranceInv
  <2>17. ClaimsStand
    BY <2>4, <2>6, <2>7, <2>8 DEF Rewritten, Decided, ClaimsStand
  <2> QED
    BY <2>7, <2>8, <2>13, <2>14, <2>15, <2>16, <2>17
<1>3. amount > 0 \/ (amount = 0 /\ claims' = decided /\ UNCHANGED <<riskPools, policies, claimTimes, windows, treatyVars>>)
  BY DEF ExecutePayout
<1> QED
  BY <1>1, <1>2, <1>3

\* A claim that waits is decided.
LEMMA DecidedByWrite ==
    ASSUME InsuranceInv, NEW c \in DOMAIN claims, claims[c].status = "Pending", NEW e \in Claim,
           e.policy = claims[c].policy
    PROVE  Decided(claims, Written(claims, c, e), c) /\ Written(claims, c, e)[c] = e
<1> DEFINE es == Written(claims, c, e)
<1>1. claims \in Seq(Claim) /\ claims[c].policy \in DOMAIN policies
  BY InsuranceHas
<1>2. es \in Seq(Claim) /\ Rewritten(claims, es, c) /\ es[c] = e /\ DOMAIN es = DOMAIN claims
  BY <1>1, RewrittenByWrite
<1> HIDE DEF es
<1>3. Decided(claims, es, c) /\ es[c] = e
  BY <1>1, <1>2 DEF Decided
<1> QED
  BY <1>3 DEF es

\* process_claim
LEMMA ProcessClaimKeeps ==
    ASSUME InsuranceInv, NEW a, NEW c, NEW approved, ProcessClaim(a, c, approved)
    PROVE  InsuranceInv'
<1> DEFINE o == claims[c]
           payout == Above(o.amount, policies[o.policy].deductible)
           e == [o EXCEPT !.status = "Approved", !.payout = payout]
           f == [o EXCEPT !.status = "Rejected"]
<1>1. c \in DOMAIN claims /\ o.status = "Pending"
  BY DEF ProcessClaim
<1>2. UNCHANGED <<block, officeVars, capital, underwritingVars, portfolio, tokens, tokenListings, triggers,
                  parametric>>
  BY DEF ProcessClaim
<1>3. o \in Claim /\ policies[o.policy] \in Policy
  BY <1>1, InsuranceHas
<1>4. payout \in Nat
  <2>1. o.amount \in Nat /\ policies[o.policy].deductible \in Nat
    BY <1>3 DEF Claim, Policy
  <2> QED
    BY <2>1, AmountFacts
<1>5. /\ e \in Claim /\ e.status = "Approved" /\ e.payout = payout /\ e.policy = o.policy
      /\ f \in Claim /\ f.status = "Rejected" /\ f.policy = o.policy
  <2> HIDE DEF o, payout
  <2> QED
    BY <1>3, <1>4 DEF Claim
<1>6. CASE ExecutePayout([claims EXCEPT ![c].status = "Approved", ![c].payout = payout], c, payout)
  <2>1. [claims EXCEPT ![c].status = "Approved", ![c].payout = payout] = Written(claims, c, e)
    BY DEF Written
  <2> DEFINE decided == Written(claims, c, e)
  <2>2. ExecutePayout(decided, c, payout)
    BY <1>6, <2>1
  <2> HIDE DEF e, payout
  <2>3. Decided(claims, decided, c) /\ decided[c] = e
    BY <1>1, <1>5, DecidedByWrite
  <2> HIDE DEF decided
  <2>4. /\ BooksInv' /\ TimesInv' /\ TreatyInv' /\ HeldInv' /\ ClaimsStand
    BY <1>2, <1>4, <1>5, <2>2, <2>3, ExecutePayoutKeeps
  <2>5. TriggerInv'
    BY <1>2, <2>4, TriggersKept DEF InsuranceInv, ClaimsStand
  <2> QED
    BY <1>2, <2>4, <2>5, InsuranceFrames DEF InsuranceInv
<1>7. CASE /\ claims' = [claims EXCEPT ![c].status = "Rejected"]
           /\ UNCHANGED <<riskPools, policies, claimTimes, windows, treatyVars>>
  <2>1. claims' = Written(claims, c, f)
    BY <1>7 DEF Written
  <2> HIDE DEF f
  <2>2. Decided(claims, claims', c) /\ claims'[c] = f
    BY <1>1, <1>5, <2>1, DecidedByWrite
  <2>3. UNCHANGED policyVars
    BY <1>2, <1>7 DEF policyVars
  <2>4. BooksInv' /\ TreatyInv' /\ TriggerInv'
    BY <1>2, <1>5, <1>7, <2>2, <2>3, UnpaidKeeps
  <2> QED
    BY <1>2, <1>7, <2>3, <2>4, InsuranceFrames DEF InsuranceInv
<1> QED
  BY <1>6, <1>7 DEF ProcessClaim

\* register_claim_trigger
LEMMA RegisterClaimTriggerKeeps ==
    ASSUME InsuranceInv, NEW a, NEW n, NEW atLeast \in BOOLEAN, NEW threshold \in Thresholds,
           NEW mode \in PayoutArgs, RegisterClaimTrigger(a, n, atLeast, threshold, mode)
    PROVE  InsuranceInv'
<1> DEFINE d == [policy |-> n, atLeast |-> atLeast, threshold |-> threshold, mode |-> mode, active |-> TRUE,
                 claim |-> 0]
<1>1. /\ n \in DOMAIN policies /\ (mode.mode = "Percent" => mode.value <= 10000)
      /\ triggers' = Append(triggers, d)
      /\ UNCHANGED <<block, officeVars, riskPools, capital, underwritingVars, policyVars, claimVars,
                     treatyVars, parametric>>
  BY DEF RegisterClaimTrigger
<1>2. d \in Trigger /\ d.policy = n /\ d.mode = mode /\ d.claim = 0
  BY <1>1, InsuranceHas, InsuranceFacts, LenProperties DEF Trigger
<1> HIDE DEF d
<1>3. UNCHANGED <<policies, claims, claimTimes, windows>>
  BY <1>1 DEF policyVars, claimVars
<1>4. TriggerInv'
  BY <1>1, <1>2, SeqAppended, <1>3 DEF InsuranceInv, TriggerInv, TriggerGood
<1> QED
  BY <1>1, <1>3, <1>4, InsuranceFrames DEF InsuranceInv

\* deactivate_claim_trigger
LEMMA DeactivateClaimTriggerKeeps ==
    ASSUME InsuranceInv, NEW a, NEW t, DeactivateClaimTrigger(a, t)
    PROVE  InsuranceInv'
<1> DEFINE o == triggers[t]
           d == [o EXCEPT !.active = FALSE]
<1>1. /\ t \in DOMAIN triggers /\ triggers' = [triggers EXCEPT ![t].active = FALSE]
      /\ UNCHANGED <<block, officeVars, riskPools, capital, underwritingVars, policyVars, claimVars,
                     treatyVars, parametric>>
  BY DEF DeactivateClaimTrigger
<1>2. /\ triggers \in Seq(Trigger) /\ \A u \in DOMAIN triggers : TriggerGood(triggers[u], policies, claims)
      /\ \A u \in DOMAIN triggers : triggers[u].claim # 0 =>
            \A w \in DOMAIN triggers \ {u} : triggers[w].claim # triggers[u].claim
  BY DEF InsuranceInv, TriggerInv
<1>3. o \in Trigger
  BY <1>1, <1>2, ElementOfSeq, LenProperties
<1>4. d \in Trigger /\ d.policy = o.policy /\ d.mode = o.mode /\ d.claim = o.claim
  <2> HIDE DEF o
  <2> QED
    BY <1>3 DEF Trigger
<1>5. triggers' = Written(triggers, t, d)
  BY <1>1 DEF Written
<1> HIDE DEF d
<1>6. /\ triggers' \in Seq(Trigger) /\ DOMAIN triggers' = DOMAIN triggers /\ triggers'[t] = d
      /\ \A u \in DOMAIN triggers \ {t} : triggers'[u] = triggers[u]
  <2>1. triggers \in Seq(Trigger) /\ t \in DOMAIN triggers /\ d \in Trigger
    BY <1>1, <1>2, <1>4
  <2> QED
    BY <1>5, <2>1, SeqWritten
<1>7. \A u \in DOMAIN triggers' : TriggerGood(triggers'[u], policies, claims)
  <2>1. TriggerGood(o, policies, claims)
    BY <1>1, <1>2
  <2>2. TriggerGood(d, policies, claims)
    BY <1>4, <2>1 DEF TriggerGood
  <2> QED
    BY <1>2, <1>6, <2>2
<1>8. \A u \in DOMAIN triggers' : triggers'[u].claim = triggers[u].claim
  BY <1>4, <1>6
<1>9. UNCHANGED <<policies, claims, claimTimes, windows>>
  BY <1>1 DEF policyVars, claimVars
<1>10. TriggerInv'
  BY <1>2, <1>6, <1>7, <1>8, <1>9 DEF TriggerInv
<1> QED
  BY <1>1, <1>9, <1>10, InsuranceFrames DEF InsuranceInv

\* What a trigger pays is a part of what remains.
LEMMA ClaimAmountBounded ==
    ASSUME NEW mode \in PayoutArgs, mode.mode = "Percent" => mode.value <= 10000, NEW left \in Nat
    PROVE  ClaimAmount(mode, left) \in Nat /\ ClaimAmount(mode, left) <= left
<1> DEFINE v == mode.value
<1>1. mode.mode \in {"Fixed", "Percent", "Full"} /\ v \in Nat
  BY InsuranceFacts
<1>2. CASE mode.mode = "Fixed"
  BY <1>2, <1>1, AmountFacts DEF ClaimAmount
<1>3. CASE mode.mode = "Percent"
  BY <1>3, <1>1, BpsIsNatural DEF ClaimAmount
<1>4. CASE mode.mode = "Full"
  BY <1>4 DEF ClaimAmount
<1> QED
  BY <1>1, <1>2, <1>3, <1>4

\* A list is as long as its domain says.
LEMMA LengthOfDomain ==
    ASSUME NEW S, NEW s \in Seq(S), NEW n \in Nat, DOMAIN s = 1..n
    PROVE  Len(s) = n
  BY LenProperties

\* report_oracle_event
LEMMA ReportOracleEventKeeps ==
    ASSUME InsuranceInv, NEW a, NEW t, NEW reading, ReportOracleEvent(a, t, reading)
    PROVE  InsuranceInv'
<1> DEFINE o == triggers[t]
           n == o.policy
           amount == ClaimAmount(o.mode, Remaining(n))
           payout == Above(amount, policies[n].deductible)
           e == [policy |-> n, claimant |-> policies[n].holder, amount |-> amount, payout |-> payout,
                 status |-> "Approved"]
           c == Len(claims) + 1
           decided == Append(claims, e)
           d == [o EXCEPT !.claim = c]
<1>1. /\ t \in DOMAIN triggers
      /\ ExecutePayout(decided, c, payout)
      /\ triggers' = [triggers EXCEPT ![t].claim = Len(claims')]
      /\ UNCHANGED <<block, officeVars, capital, underwritingVars, portfolio, tokens, tokenListings,
                     parametric>>
  BY DEF ReportOracleEvent
<1>2. /\ triggers \in Seq(Trigger) /\ \A u \in DOMAIN triggers : TriggerGood(triggers[u], policies, claims)
      /\ \A u \in DOMAIN triggers : triggers[u].claim # 0 =>
            \A w \in DOMAIN triggers \ {u} : triggers[w].claim # triggers[u].claim
  BY DEF InsuranceInv, TriggerInv
<1>3. o \in Trigger /\ TriggerGood(o, policies, claims)
  BY <1>1, <1>2, ElementOfSeq, LenProperties
<1>4. /\ n \in DOMAIN policies /\ policies[n] \in Policy /\ n \in Nat
      /\ policies[n].coverage \in Nat /\ policies[n].claimed \in Nat /\ policies[n].deductible \in Nat
      /\ policies[n].holder \in Insured
  <2>1. n \in DOMAIN policies
    BY <1>3 DEF TriggerGood
  <2>2. policies[n] \in Policy /\ n \in Nat
    BY <2>1, InsuranceHas, LenProperties
  <2> QED
    BY <2>1, <2>2 DEF Policy
<1>5. /\ amount \in Nat /\ amount <= policies[n].coverage /\ payout \in Nat
  <2>1. Remaining(n) \in Nat /\ Remaining(n) <= policies[n].coverage
    BY <1>4, AmountFacts DEF Remaining
  <2>2. o.mode \in PayoutArgs /\ (o.mode.mode = "Percent" => o.mode.value <= 10000)
    BY <1>3 DEF Trigger, TriggerGood
  <2>3. amount \in Nat /\ amount <= Remaining(n)
    BY <2>1, <2>2, ClaimAmountBounded
  <2>4. payout \in Nat
    <3> HIDE DEF amount
    <3> QED
      BY <1>4, <2>3, AmountFacts
  <2> QED
    BY <1>4, <2>1, <2>3, <2>4
<1> HIDE DEF amount, payout
<1>6. e \in Claim /\ e.status = "Approved" /\ e.payout = payout /\ e.policy = n /\ e.amount = amount
  BY <1>4, <1>5 DEF Claim
<1> HIDE DEF e
<1>7. /\ decided \in Seq(Claim) /\ Rewritten(claims, decided, c) /\ decided[c] = e
      /\ c \notin DOMAIN claims /\ c \in Nat \ {0} /\ Len(decided) = c
  BY <1>6, InsuranceHas, RewrittenByAppend
<1> HIDE DEF c, decided
<1>8. Decided(claims, decided, c)
  BY <1>7, <1>4, <1>6 DEF Rewritten, Decided
<1>9. /\ BooksInv' /\ TimesInv' /\ TreatyInv' /\ HeldInv' /\ ClaimsStand
      /\ DOMAIN claims' = DOMAIN decided /\ claims'[c].status \in {"Approved", "Paid"}
      /\ claims'[c].policy = n /\ claims'[c].amount = amount
  BY <1>6, <1>7, <1>1, <1>5, <1>8, ExecutePayoutKeeps
<1>10. Len(claims') = c
  BY <1>9, <1>7, LenProperties, LengthOfDomain DEF BooksInv, Books, Linked
<1>11. triggers' = Written(triggers, t, d)
  BY <1>1, <1>10 DEF Written
<1>12. d \in Trigger /\ d.policy = o.policy /\ d.mode = o.mode /\ d.claim = c
  <2> HIDE DEF o
  <2> QED
    BY <1>3, <1>7 DEF Trigger
<1> HIDE DEF d
<1>13. /\ triggers' \in Seq(Trigger) /\ DOMAIN triggers' = DOMAIN triggers /\ triggers'[t] = d
       /\ \A u \in DOMAIN triggers \ {t} : triggers'[u] = triggers[u]
  <2>1. triggers \in Seq(Trigger) /\ t \in DOMAIN triggers /\ d \in Trigger
    BY <1>1, <1>2, <1>12
  <2> QED
    BY <1>11, <2>1, SeqWritten
<1>14. ASSUME NEW u \in DOMAIN triggers
       PROVE  TriggerGood(triggers'[u], policies', claims')
  <2>1. CASE u = t
    <3>1. d.policy \in DOMAIN policies'
      BY <1>4, <1>9, <1>12 DEF ClaimsStand
    <3>2. d.mode.mode = "Percent" => d.mode.value <= 10000
      BY <1>3, <1>12 DEF TriggerGood
    <3>3. c \in DOMAIN claims' /\ claims'[c].amount <= policies'[n].coverage
      BY <1>4, <1>5, <1>8, <1>9 DEF ClaimsStand, Decided
    <3>4. TriggerGood(d, policies', claims')
      BY <1>9, <1>12, <3>1, <3>2, <3>3 DEF TriggerGood
    <3> QED
      BY <1>13, <2>1, <3>4
  <2>2. CASE u # t
    BY <1>2, <1>13, <2>2, <1>9 DEF TriggerGood, ClaimsStand
  <2> QED
    BY <2>1, <2>2
<1>15. \A u \in DOMAIN triggers : triggers[u].claim # c
  BY <1>2, <1>7 DEF TriggerGood
<1>16. \A u \in DOMAIN triggers' : triggers'[u].claim # 0 =>
           \A w \in DOMAIN triggers' \ {u} : triggers'[w].claim # triggers'[u].claim
  BY <1>2, <1>12, <1>13, <1>15
<1>17. TriggerInv'
  BY <1>13, <1>14, <1>16 DEF TriggerInv
<1> QED
  BY <1>1, <1>9, <1>17, InsuranceFrames DEF InsuranceInv

----
\* Reinsurance

\* register_reinsurance, register_reinsurance_with_type: a new treaty has no records.
LEMMA RegisterReinsuranceKeeps ==
    ASSUME InsuranceInv, NEW a, NEW terms \in TreatyArgs, NEW span \in Nat, RegisterReinsurance(a, terms, span)
    PROVE  InsuranceInv'
<1> DEFINE d == [terms |-> terms, end |-> now + span, active |-> TRUE, ceded |-> 0, cessions |-> 0,
                 recovered |-> 0, recoveries |-> 0]
           t == Len(treaties) + 1
<1>1. /\ treaties' = Append(treaties, d)
      /\ UNCHANGED <<block, officeVars, riskPools, capital, underwritingVars, policyVars, claimVars,
                     triggers, cessions, recoveries, parametric>>
  BY DEF RegisterReinsurance
<1>2. d \in Treaty /\ d.recovered = 0 /\ d.ceded = 0
  BY InsuranceHas DEF Treaty
<1> HIDE DEF d
<1>3. /\ treaties \in Seq(Treaty) /\ cessions \in Seq(Cessions(treaties))
      /\ recoveries \in Seq(Recoveries(treaties, claims))
      /\ \A u \in DOMAIN treaties :
            treaties[u].recovered = Amounts(recoveries, u) /\ treaties[u].ceded = Amounts(cessions, u)
  BY DEF InsuranceInv, TreatyInv
<1>4. /\ treaties' \in Seq(Treaty) /\ DOMAIN treaties' = DOMAIN treaties \cup {t} /\ t \notin DOMAIN treaties
      /\ treaties'[t] = d /\ \A u \in DOMAIN treaties : treaties'[u] = treaties[u]
  BY <1>1, <1>2, <1>3, SeqAppended
<1> HIDE DEF t
<1>5. UNCHANGED <<policies, claims, claimTimes, windows>>
  BY <1>1 DEF policyVars, claimVars
<1>6. cessions' \in Seq(Cessions(treaties')) /\ recoveries' \in Seq(Recoveries(treaties', claims'))
  <2>1. Cessions(treaties) \subseteq Cessions(treaties') /\ Recoveries(treaties, claims) \subseteq Recoveries(treaties', claims')
    BY <1>4, <1>5 DEF Cessions, Recoveries
  <2> QED
    BY <1>1, <1>3, <2>1, SeqWider
<1>7. Amounts(recoveries, t) = 0 /\ Amounts(cessions, t) = 0
  <2>1. ASSUME NEW i \in DOMAIN recoveries
        PROVE  recoveries[i].treaty # t
    <3>1. recoveries[i] \in Recoveries(treaties, claims)
      BY <1>3, ElementOfSeq, LenProperties
    <3> QED
      BY <1>4, <3>1 DEF Recoveries
  <2>2. ASSUME NEW i \in DOMAIN cessions
        PROVE  cessions[i].treaty # t
    <3>1. cessions[i] \in Cessions(treaties)
      BY <1>3, ElementOfSeq, LenProperties
    <3> QED
      BY <1>4, <3>1 DEF Cessions
  <2>3. {i \in DOMAIN recoveries : recoveries[i].treaty = t} = {} /\ {i \in DOMAIN cessions : cessions[i].treaty = t} = {}
    BY <2>1, <2>2
  <2> QED
    BY <2>3, SumEmpty DEF Amounts
<1>8. \A u \in DOMAIN treaties' :
         treaties'[u].recovered = Amounts(recoveries', u) /\ treaties'[u].ceded = Amounts(cessions', u)
  BY <1>1, <1>2, <1>3, <1>4, <1>7
<1>9. TreatyInv'
  BY <1>4, <1>6, <1>8 DEF TreatyInv
<1> QED
  BY <1>1, <1>5, <1>9, InsuranceFrames DEF InsuranceInv

\* deactivate_reinsurance
LEMMA DeactivateReinsuranceKeeps ==
    ASSUME InsuranceInv, NEW a, NEW t, DeactivateReinsurance(a, t)
    PROVE  InsuranceInv'
<1> DEFINE o == treaties[t]
           d == [o EXCEPT !.active = FALSE]
<1>1. /\ t \in DOMAIN treaties /\ treaties' = [treaties EXCEPT ![t].active = FALSE]
      /\ UNCHANGED <<block, officeVars, riskPools, capital, underwritingVars, policyVars, claimVars,
                     triggers, cessions, recoveries, parametric>>
  BY DEF DeactivateReinsurance
<1>2. /\ treaties \in Seq(Treaty) /\ cessions \in Seq(Cessions(treaties))
      /\ recoveries \in Seq(Recoveries(treaties, claims))
      /\ \A u \in DOMAIN treaties :
            treaties[u].recovered = Amounts(recoveries, u) /\ treaties[u].ceded = Amounts(cessions, u)
  BY DEF InsuranceInv, TreatyInv
<1>3. o \in Treaty
  BY <1>1, <1>2, ElementOfSeq, LenProperties
<1>4. d \in Treaty /\ d.recovered = o.recovered /\ d.ceded = o.ceded
  <2> HIDE DEF o
  <2> QED
    BY <1>3 DEF Treaty
<1>5. treaties' = Written(treaties, t, d)
  BY <1>1 DEF Written
<1> HIDE DEF d
<1>6. /\ treaties' \in Seq(Treaty) /\ DOMAIN treaties' = DOMAIN treaties /\ treaties'[t] = d
      /\ \A u \in DOMAIN treaties \ {t} : treaties'[u] = treaties[u]
  <2>1. treaties \in Seq(Treaty) /\ t \in DOMAIN treaties /\ d \in Treaty
    BY <1>1, <1>2, <1>4
  <2> QED
    BY <1>5, <2>1, SeqWritten
<1>7. UNCHANGED <<policies, claims, claimTimes, windows>>
  BY <1>1 DEF policyVars, claimVars
<1>8. \A u \in DOMAIN treaties' :
         treaties'[u].recovered = Amounts(recoveries', u) /\ treaties'[u].ceded = Amounts(cessions', u)
  BY <1>1, <1>2, <1>4, <1>6
<1>9. Cessions(treaties') = Cessions(treaties) /\ Recoveries(treaties', claims') = Recoveries(treaties, claims)
  BY <1>6, <1>7 DEF Cessions, Recoveries
<1>10. TreatyInv'
  BY <1>1, <1>2, <1>6, <1>8, <1>9 DEF TreatyInv
<1> QED
  BY <1>1, <1>7, <1>10, InsuranceFrames DEF InsuranceInv

\* cede_premium
LEMMA CedePremiumKeeps ==
    ASSUME InsuranceInv, NEW a, NEW t, NEW premium \in Nat, CedePremium(a, t, premium)
    PROVE  InsuranceInv'
<1> DEFINE o == treaties[t]
           x == Ceded(o.terms, premium)
           y == o.ceded + x
           z == o.cessions + 1
           d == [o EXCEPT !.ceded = y, !.cessions = z]
           e == [treaty |-> t, amount |-> x]
           kind == Cessions(treaties)
<1>1. /\ t \in DOMAIN treaties /\ x > 0 /\ cessions' = Append(cessions, e)
      /\ treaties' = [treaties EXCEPT ![t].ceded = @ + x, ![t].cessions = @ + 1]
      /\ UNCHANGED <<block, officeVars, riskPools, capital, underwritingVars, policyVars, claimVars,
                     triggers, recoveries, parametric>>
  BY DEF CedePremium
<1>2. /\ treaties \in Seq(Treaty) /\ cessions \in Seq(Cessions(treaties))
      /\ recoveries \in Seq(Recoveries(treaties, claims))
      /\ \A u \in DOMAIN treaties :
            treaties[u].recovered = Amounts(recoveries, u) /\ treaties[u].ceded = Amounts(cessions, u)
  BY DEF InsuranceInv, TreatyInv
<1>3. o \in Treaty
  BY <1>1, <1>2, ElementOfSeq, LenProperties
<1>4. x \in Nat \ {0}
  BY <1>3, TreatyShares, <1>1 DEF Treaty
<1>5. treaties' = Written(treaties, t, d)
  <2> HIDE DEF x
  <2> QED
    BY <1>1, <1>3 DEF Written, Treaty
<1> HIDE DEF x
<1>6. d \in Treaty /\ d.ceded = y /\ d.recovered = o.recovered
  <2>1. y \in Nat /\ z \in Nat
    BY <1>3, <1>4 DEF Treaty
  <2> HIDE DEF o, y, z
  <2> QED
    BY <1>3, <2>1 DEF Treaty
<1> HIDE DEF d
<1>7. /\ treaties' \in Seq(Treaty) /\ DOMAIN treaties' = DOMAIN treaties /\ treaties'[t] = d
      /\ \A u \in DOMAIN treaties \ {t} : treaties'[u] = treaties[u]
  <2>1. treaties \in Seq(Treaty) /\ t \in DOMAIN treaties /\ d \in Treaty
    BY <1>1, <1>2, <1>6
  <2> QED
    BY <1>5, <2>1, SeqWritten
<1>8. e \in kind /\ e.treaty = t /\ e.amount = x
  BY <1>1, <1>4 DEF Cessions
<1>9. \A u \in kind : u.amount \in Int
  BY DEF Cessions
<1> HIDE DEF e
<1>10. cessions' \in Seq(kind)
  BY <1>1, <1>2, <1>8, AppendProperties
<1>11. \A u : /\ Amounts(cessions, u) \in Int
              /\ Amounts(cessions', u) = Amounts(cessions, u) + (IF u = t THEN x ELSE 0)
  <2> SUFFICES ASSUME NEW u
               PROVE  /\ Amounts(cessions, u) \in Int
                      /\ Amounts(cessions', u) = Amounts(cessions, u) + (IF u = t THEN x ELSE 0)
    OBVIOUS
  <2>1. cessions \in Seq(kind)
    BY <1>2
  <2> HIDE DEF kind
  <2>2. /\ Amounts(cessions, u) \in Int
        /\ Amounts(Append(cessions, e), u) = Amounts(cessions, u) + (IF e.treaty = u THEN e.amount ELSE 0)
    BY <1>8, <1>9, <2>1, RecordAdded
  <2> QED
    BY <1>1, <1>8, <2>2
<1>12. UNCHANGED <<policies, claims, claimTimes, windows>>
  BY <1>1 DEF policyVars, claimVars
<1>13. ASSUME NEW u \in DOMAIN treaties
       PROVE  treaties'[u].recovered = Amounts(recoveries, u) /\ treaties'[u].ceded = Amounts(cessions', u)
  <2>1. CASE u = t
    BY <1>2, <1>6, <1>7, <1>11, <2>1
  <2>2. CASE u # t
    BY <1>2, <1>7, <1>11, <2>2
  <2> QED
    BY <2>1, <2>2
<1>14. Cessions(treaties') = kind /\ Recoveries(treaties', claims') = Recoveries(treaties, claims)
  BY <1>7, <1>12 DEF Cessions, Recoveries
<1>15. recoveries' = recoveries
  BY <1>1
<1>16. TreatyInv'
  BY <1>2, <1>7, <1>10, <1>13, <1>14, <1>15 DEF TreatyInv
<1> QED
  BY <1>1, <1>12, <1>16, InsuranceFrames DEF InsuranceInv

\* record_loss_recovery
LEMMA RecordLossRecoveryKeeps ==
    ASSUME InsuranceInv, NEW a, NEW t, NEW c, NEW loss \in Nat, RecordLossRecovery(a, t, c, loss)
    PROVE  InsuranceInv'
<1> DEFINE x == Recovered(treaties[t].terms, loss)
<1>1. /\ t \in DOMAIN treaties /\ c \in DOMAIN claims /\ x > 0 /\ Recover(t, c, x)
      /\ UNCHANGED <<block, officeVars, riskPools, capital, underwritingVars, policyVars, claimVars,
                     triggers, cessions, parametric>>
  BY DEF RecordLossRecovery
<1>2. x \in Nat \ {0}
  <2>1. treaties \in Seq(Treaty)
    BY DEF InsuranceInv, TreatyInv
  <2>2. treaties[t] \in Treaty
    BY <1>1, <2>1, ElementOfSeq, LenProperties
  <2>3. treaties[t].terms \in TreatyArgs
    BY <2>2 DEF Treaty
  <2>4. Recovered(treaties[t].terms, loss) \in Nat
    BY <2>3, TreatyShares
  <2> QED
    BY <1>1, <2>4
<1> HIDE DEF x
<1>3. UNCHANGED <<policies, claims, claimTimes, windows>>
  BY <1>1 DEF policyVars, claimVars
<1>4. TreatyInv'
  BY <1>1, <1>3, <1>2, RecoverKeeps
<1> QED
  BY <1>1, <1>3, <1>4, InsuranceFrames DEF InsuranceInv

----
\* The market of policies

\* The search through a list for what is not n.
Kept(list, n, k, f) ==
    f = [i \in 0..k |-> IF i = 0 THEN << >> ELSE IF list[i] = n THEN f[i - 1] ELSE Append(f[i - 1], list[i])]

LEMMA WithoutUnfold ==
    ASSUME NEW list, NEW n
    PROVE  Without(list, n) = (CHOOSE f : Kept(list, n, Len(list), f))[Len(list)]
  BY DEF Without, Kept

\* The search ends.
LEMMA KeptExist ==
    ASSUME NEW list, NEW n, NEW k \in Nat
    PROVE  \E f : Kept(list, n, k, f)
<1> DEFINE P == {m \in Nat : \E f : Kept(list, n, m, f)}
<1>1. 0 \in P
  <2> DEFINE e == [i \in 0..0 |-> << >>]
  <2>1. Kept(list, n, 0, e)
    BY DEF Kept
  <2> HIDE DEF e
  <2> QED
    BY <2>1
<1>2. ASSUME NEW m \in Nat, m \in P
      PROVE  m + 1 \in P
  <2>1. PICK f : Kept(list, n, m, f)
    BY <1>2
  <2> DEFINE next == IF list[m + 1] = n THEN f[m] ELSE Append(f[m], list[m + 1])
             g == [i \in 0..(m + 1) |-> IF i = m + 1 THEN next ELSE f[i]]
  <2>2. \A i \in 0..m : g[i] = f[i]
    OBVIOUS
  <2>3. g[m + 1] = next
    OBVIOUS
  <2>4. g = [i \in 0..(m + 1) |-> g[i]]
    OBVIOUS
  <2> HIDE DEF g
  <2>5. ASSUME NEW i \in 0..(m + 1)
        PROVE  g[i] = IF i = 0 THEN << >> ELSE IF list[i] = n THEN g[i - 1] ELSE Append(g[i - 1], list[i])
    <3>1. CASE i = m + 1
      BY <2>2, <2>3, <3>1
    <3>2. CASE i # m + 1
      <4>1. i \in 0..m
        BY <3>2
      <4>2. g[i] = f[i] /\ (i # 0 => g[i - 1] = f[i - 1])
        BY <2>2, <4>1
      <4>3. f[i] = IF i = 0 THEN << >> ELSE IF list[i] = n THEN f[i - 1] ELSE Append(f[i - 1], list[i])
        BY <2>1, <4>1 DEF Kept
      <4> QED
        BY <4>2, <4>3
    <3> QED
      BY <3>1, <3>2
  <2>6. Kept(list, n, m + 1, g)
    BY <2>4, <2>5 DEF Kept
  <2> QED
    BY <2>6
<1> HIDE DEF P
<1>3. k \in P
  BY <1>1, <1>2, NatInduct
<1> QED
  BY <1>3 DEF P

\* What is kept of a list is all it names but n, each once.
LEMMA WithoutNames ==
    ASSUME NEW T, NEW list \in Seq(T), NEW S, Names(list, S), NEW n
    PROVE  Without(list, n) \in Seq(T) /\ Names(Without(list, n), S \ {n})
<1> DEFINE k == Len(list)
           f == CHOOSE g : Kept(list, n, k, g)
           Upto(m) == {list[i] : i \in 1..m}
           P == {m \in Nat : m <= k => f[m] \in Seq(T) /\ Names(f[m], Upto(m) \ {n})}
<1>1. k \in Nat /\ DOMAIN list = 1..k
  BY LenProperties
<1>2. Kept(list, n, k, f)
  BY <1>1, KeptExist
<1>3. Without(list, n) = f[k]
  BY WithoutUnfold
<1>4. Upto(k) = S /\ \A i, j \in 1..k : list[i] = list[j] => i = j
  BY <1>1 DEF Names
<1> HIDE DEF f
<1>5. 0 \in P
  BY <1>1, <1>2 DEF Kept, Names
<1>6. ASSUME NEW m \in Nat, m \in P
      PROVE  m + 1 \in P
  <2> SUFFICES ASSUME m + 1 <= k
               PROVE  f[m + 1] \in Seq(T) /\ Names(f[m + 1], Upto(m + 1) \ {n})
    OBVIOUS
  <2>1. f[m] \in Seq(T) /\ Names(f[m], Upto(m) \ {n})
    BY <1>1, <1>6
  <2>2. m + 1 \in 0..k /\ m + 1 # 0 /\ (m + 1) - 1 = m /\ m + 1 \in 1..k
    BY <1>1
  <2>3. f[m + 1] = IF list[m + 1] = n THEN f[m] ELSE Append(f[m], list[m + 1])
    BY <1>2, <2>2 DEF Kept
  <2>4. Upto(m + 1) = Upto(m) \cup {list[m + 1]}
    OBVIOUS
  <2>5. list[m + 1] \notin Upto(m)
    BY <1>1, <1>4, <2>2
  <2>6. list[m + 1] \in T
    BY <1>1, <2>2, ElementOfSeq
  <2> HIDE DEF Upto, P
  <2>7. CASE list[m + 1] = n
    <3>1. Upto(m + 1) \ {n} = Upto(m) \ {n}
      BY <2>4, <2>7
    <3> QED
      BY <2>1, <2>3, <2>7, <3>1
  <2>8. CASE list[m + 1] # n
    <3> DEFINE x == list[m + 1]
               s == f[m]
               U == Upto(m) \ {n}
    <3>1. Upto(m + 1) \ {n} = U \cup {x} /\ x \notin U
      BY <2>4, <2>5, <2>8
    <3>2. f[m + 1] = Append(s, x)
      BY <2>3, <2>8
    <3>3. s \in Seq(T) /\ Names(s, U) /\ x \in T
      BY <2>1, <2>6
    <3> HIDE DEF x, s, U
    <3>4. Append(s, x) \in Seq(T) /\ Names(Append(s, x), U \cup {x})
      BY <3>1, <3>3, NamesAppended, AppendProperties
    <3> QED
      BY <3>1, <3>2, <3>4
  <2> QED
    BY <2>7, <2>8
<1>7. k \in P
  <2> HIDE DEF P, k
  <2> QED
    BY <1>1, <1>5, <1>6, NatInduct
<1>8. f[k] \in Seq(T) /\ Names(f[k], Upto(k) \ {n})
  BY <1>1, <1>7
<1> QED
  BY <1>3, <1>4, <1>8

\* list_token_for_sale
LEMMA ListTokenForSaleKeeps ==
    ASSUME InsuranceInv, NEW a, NEW n, NEW price \in Nat, ListTokenForSale(a, n, price)
    PROVE  InsuranceInv'
<1> DEFINE kind == [owner : Insured, price : SUBSET Nat]
           o == tokens[n]
           d == [o EXCEPT !.price = {price}]
<1>1. /\ n \in DOMAIN tokens /\ tokens' = [tokens EXCEPT ![n].price = {price}]
      /\ tokenListings' = tokenListings \cup {n}
      /\ UNCHANGED <<block, officeVars, riskPools, capital, underwritingVars, policies, portfolio,
                     claimVars, triggers, treatyVars, parametric>>
  BY DEF ListTokenForSale
<1>2. /\ tokens \in Seq(kind) /\ Len(tokens) = Len(policies)
      /\ portfolio \in [Insured -> Seq(DOMAIN policies)]
      /\ \A b \in Insured : Names(portfolio[b], HeldBy(b, policies))
      /\ \A m \in DOMAIN policies : tokens[m].owner = policies[m].holder
      /\ tokenListings = {m \in DOMAIN tokens : tokens[m].price # {}}
  BY DEF InsuranceInv, HeldInv
<1>3. o \in kind
  BY <1>1, <1>2, ElementOfSeq, LenProperties
<1>4. d \in kind /\ d.owner = o.owner /\ d.price = {price}
  <2> HIDE DEF o
  <2> QED
    BY <1>3
<1>5. tokens' = Written(tokens, n, d)
  BY <1>1 DEF Written
<1> HIDE DEF d, kind
<1>6. /\ tokens' \in Seq(kind) /\ DOMAIN tokens' = DOMAIN tokens /\ tokens'[n] = d
      /\ Len(tokens') = Len(tokens)
      /\ \A m \in DOMAIN tokens \ {n} : tokens'[m] = tokens[m]
  <2>1. tokens \in Seq(kind) /\ n \in DOMAIN tokens /\ d \in kind
    BY <1>1, <1>2, <1>4
  <2> QED
    BY <1>5, <2>1, SeqWritten
<1>7. DOMAIN tokens = DOMAIN policies
  BY <1>2, InsuranceHas, LenProperties
<1>8. \A m \in DOMAIN policies : tokens'[m].owner = policies[m].holder
  BY <1>2, <1>4, <1>6, <1>7
<1>9. tokenListings' = {m \in DOMAIN tokens' : tokens'[m].price # {}}
  BY <1>1, <1>2, <1>4, <1>6
<1>10. HeldInv'
  BY <1>1, <1>2, <1>6, <1>8, <1>9 DEF HeldInv, kind
<1>11. UNCHANGED <<claims, claimTimes, windows>>
  BY <1>1 DEF claimVars
<1> QED
  BY <1>1, <1>10, <1>11, InsuranceFrames DEF InsuranceInv

\* A policy goes from one list to another: every list names what is held.
LEMMA HandedNames ==
    ASSUME NEW ps, NEW rs, NEW lists \in [Insured -> Seq(DOMAIN ps)],
           \A b \in Insured : Names(lists[b], HeldBy(b, ps)),
           NEW n \in DOMAIN ps, NEW a \in Insured, NEW s \in Insured, ps[n].holder = s, rs[n].holder = a,
           DOMAIN rs = DOMAIN ps, \A m \in DOMAIN ps \ {n} : rs[m] = ps[m]
    PROVE  /\ Handed(lists, s, a, n) \in [Insured -> Seq(DOMAIN rs)]
           /\ \A b \in Insured : Names(Handed(lists, s, a, n)[b], HeldBy(b, rs))
<1> DEFINE T == DOMAIN ps
           less == [lists EXCEPT ![s] = Without(lists[s], n)]
           more == [less EXCEPT ![a] = Append(less[a], n)]
<1>1. Handed(lists, s, a, n) = more
  BY DEF Handed
<1>2. ASSUME NEW b \in Insured
      PROVE  less[b] \in Seq(T) /\ Names(less[b], HeldBy(b, ps) \ {n})
  <2>1. lists[b] \in Seq(T) /\ Names(lists[b], HeldBy(b, ps))
    OBVIOUS
  <2>2. CASE b = s
    BY <2>2, <2>1, WithoutNames
  <2>3. CASE b # s
    BY <2>3, <2>1 DEF HeldBy
  <2> QED
    BY <2>2, <2>3
<1>3. less \in [Insured -> Seq(T)]
  <2>1. DOMAIN less = Insured /\ less = [b \in Insured |-> less[b]]
    OBVIOUS
  <2> HIDE DEF less
  <2> QED
    BY <1>2, <2>1
<1> HIDE DEF less
<1>4. HeldBy(a, rs) = (HeldBy(a, ps) \ {n}) \cup {n}
  BY DEF HeldBy
<1>5. \A b \in Insured : b # a => HeldBy(b, rs) = HeldBy(b, ps) \ {n}
  BY DEF HeldBy
<1>6. Append(less[a], n) \in Seq(T) /\ Names(Append(less[a], n), (HeldBy(a, ps) \ {n}) \cup {n})
  <2> DEFINE l == less[a]
             U == HeldBy(a, ps) \ {n}
  <2>1. l \in Seq(T) /\ Names(l, U) /\ n \in T /\ n \notin U
    BY <1>2
  <2> HIDE DEF l, U, T
  <2>2. Append(l, n) \in Seq(T) /\ Names(Append(l, n), U \cup {n})
    BY <2>1, NamesAppended, AppendProperties
  <2> QED
    BY <2>2 DEF l, U
<1>7. ASSUME NEW b \in Insured
      PROVE  more[b] \in Seq(T) /\ Names(more[b], HeldBy(b, rs))
  <2>1. CASE b = a
    BY <1>3, <2>1, <1>4, <1>6
  <2>2. CASE b # a
    BY <1>3, <2>2, <1>2, <1>5
  <2> QED
    BY <2>1, <2>2
<1>8. more \in [Insured -> Seq(T)]
  BY <1>3, <1>7
<1> QED
  BY <1>1, <1>7, <1>8

\* purchase_token
LEMMA PurchaseTokenKeeps ==
    ASSUME InsuranceInv, NEW a \in Insured, NEW n, NEW paid \in Nat, PurchaseToken(a, n, paid)
    PROVE  InsuranceInv'
<1> DEFINE kind == [owner : Insured, price : SUBSET Nat]
           o == policies[n]
           p == o.pool
           d == [o EXCEPT !.holder = a]
           e == [owner |-> a, price |-> {}]
<1>1. /\ n \in DOMAIN tokens /\ policies[n].status = "Active"
      /\ policies' = [policies EXCEPT ![n].holder = a]
      /\ portfolio' = Handed(portfolio, tokens[n].owner, a, n)
      /\ tokens' = [tokens EXCEPT ![n] = e]
      /\ tokenListings' = tokenListings \ {n}
      /\ UNCHANGED <<block, officeVars, riskPools, capital, underwritingVars, claimVars, triggers,
                     treatyVars, parametric>>
  BY DEF PurchaseToken
<1>2. /\ tokens \in Seq(kind) /\ Len(tokens) = Len(policies)
      /\ portfolio \in [Insured -> Seq(DOMAIN policies)]
      /\ \A b \in Insured : Names(portfolio[b], HeldBy(b, policies))
      /\ \A m \in DOMAIN policies : tokens[m].owner = policies[m].holder
      /\ tokenListings = {m \in DOMAIN tokens : tokens[m].price # {}}
  BY DEF InsuranceInv, HeldInv
<1>3. DOMAIN tokens = DOMAIN policies
  BY <1>2, InsuranceHas, LenProperties
<1>4. n \in DOMAIN policies /\ o \in Policy /\ p \in DOMAIN riskPools /\ o.holder \in Insured
  BY <1>1, <1>3, InsuranceHas DEF Policy
<1>5. /\ d \in Policy /\ d.holder = a /\ d.status = o.status /\ d.pool = p /\ d.claimed = o.claimed
      /\ d.coverage = o.coverage
  <2> HIDE DEF o
  <2> QED
    BY <1>4 DEF Policy
<1>6. policies' = Written(policies, n, d) /\ tokens' = Written(tokens, n, e)
  BY <1>1 DEF Written
<1>7. e \in kind /\ e.owner = a /\ e.price = {}
  OBVIOUS
<1> HIDE DEF d, e, kind
<1>8. /\ policies' \in Seq(Policy) /\ Rewritten(policies, policies', n) /\ policies'[n] = d
      /\ DOMAIN policies' = DOMAIN policies /\ Len(policies') = Len(policies)
      /\ \A m \in DOMAIN policies \ {n} : policies'[m] = policies[m]
  BY <1>4, <1>5, InsuranceHas, <1>6, RewrittenByWrite
<1>9. /\ tokens' \in Seq(kind) /\ DOMAIN tokens' = DOMAIN tokens /\ tokens'[n] = e
      /\ Len(tokens') = Len(tokens)
      /\ \A m \in DOMAIN tokens \ {n} : tokens'[m] = tokens[m]
  <2>1. tokens \in Seq(kind) /\ n \in DOMAIN tokens
    BY <1>1, <1>2
  <2> QED
    BY <1>6, <1>7, <2>1, SeqWritten
<1>10. BooksInv'
  <2> DEFINE r == riskPools[p]
  <2>1. r \in RiskPool /\ r.available + r.paid = r.capital + r.premiums /\ p \in DOMAIN riskPools
    BY <1>4, InsuranceHas
  <2>2. Written(riskPools, p, r) = riskPools
    BY InsuranceHas, LenProperties DEF Written
  <2>3. PoolMoved(riskPools[p], r, 0) /\ r.policies - riskPools[p].policies = 0
    BY <2>1 DEF PoolMoved, RiskPool
  <2>4. PolicyCounted(policies, policies', n, r.policies - riskPools[p].policies)
    BY <1>4, <1>5, <1>8, <2>3 DEF PolicyCounted, One
  <2>5. PolicyCharged(policies, policies', n, p, 0)
    <3>1. o.claimed = o.claimed + 0
      BY <1>4 DEF Policy
    <3>2. d.status # "Claimed"
      BY <1>1, <1>5
    <3> QED
      BY <1>4, <1>5, <1>8, <3>1, <3>2 DEF PolicyCharged
  <2>6. ClaimsPaid(claims, claims, policies', n, 0)
    BY <1>8, NoClaimsPaid
  <2>7. Books(riskPools, capital, policies, claims, parametric)
    BY DEF InsuranceInv, BooksInv
  <2> HIDE DEF r, p
  <2>8. Books(Written(riskPools, p, r), capital, policies', claims, parametric)
    BY <2>1, <2>3, <2>4, <2>5, <2>6, <2>7, PolicyMoved
  <2> QED
    BY <1>1, <2>2, <2>8 DEF BooksInv, claimVars
<1>11. HeldInv'
  <2>1. tokens[n].owner = o.holder
    BY <1>2, <1>4
  <2>2. /\ portfolio' \in [Insured -> Seq(DOMAIN policies')]
        /\ \A b \in Insured : Names(portfolio'[b], HeldBy(b, policies'))
    <3> DEFINE s == o.holder
    <3>1. policies[n].holder = s /\ policies'[n].holder = a /\ s \in Insured
      BY <1>4, <1>5, <1>8
    <3>2. portfolio' = Handed(portfolio, s, a, n)
      BY <1>1, <2>1
    <3> HIDE DEF s, o
    <3> QED
      BY <1>2, <1>4, <1>8, <3>1, <3>2, HandedNames
  <2>3. \A m \in DOMAIN policies' : tokens'[m].owner = policies'[m].holder
    BY <1>2, <1>3, <1>5, <1>7, <1>8, <1>9
  <2>4. tokenListings' = {m \in DOMAIN tokens' : tokens'[m].price # {}}
    BY <1>1, <1>2, <1>7, <1>9
  <2>5. Len(tokens') = Len(policies')
    BY <1>2, <1>8, <1>9
  <2> QED
    BY <1>9, <2>2, <2>3, <2>4, <2>5 DEF HeldInv, kind
<1>12. TriggerInv'
  BY <1>5, <1>8, <1>1, TriggersKept DEF claimVars, InsuranceInv
<1>13. UNCHANGED <<claims, claimTimes, windows>>
  BY <1>1 DEF claimVars
<1> QED
  BY <1>1, <1>10, <1>11, <1>12, <1>13, InsuranceFrames DEF InsuranceInv

----
\* Parametric policies

\* create_parametric_policy
LEMMA CreateParametricPolicyKeeps ==
    ASSUME InsuranceInv, NEW a \in Insured, NEW house \in Houses, NEW metric \in Metrics, NEW threshold \in Thresholds,
           NEW atLeast \in BOOLEAN, NEW coverage \in Nat, NEW p, NEW span \in Nat, NEW paid \in Nat,
           CreateParametricPolicy(a, house, metric, threshold, atLeast, coverage, p, span, paid)
    PROVE  InsuranceInv'
<1> DEFINE d == [house |-> house, holder |-> a, metric |-> metric, atLeast |-> atLeast,
                 threshold |-> threshold, coverage |-> coverage, pool |-> p, end |-> now + span,
                 status |-> "Active"]
           n == Len(parametric) + 1
           x == Above(paid, Bps(paid, settings.fee))
<1>1. /\ p \in DOMAIN riskPools /\ parametric' = Append(parametric, d)
      /\ riskPools' = [riskPools EXCEPT ![p].premiums = @ + x, ![p].available = @ + x, ![p].policies = @ + 1]
      /\ UNCHANGED <<block, officeVars, capital, underwritingVars, policyVars, claimVars, triggers, treatyVars>>
  BY DEF CreateParametricPolicy, Insurable, Underwritten
<1>2. d \in Parametric /\ d.pool = p /\ d.status = "Active"
  <2>1. now + span \in Nat
    BY InsuranceHas
  <2>2. p \in Nat
    BY InsuranceHas, <1>1, LenProperties
  <2>3. threshold \in Int
    BY InsuranceFacts
  <2> QED
    BY <2>1, <2>2, <2>3 DEF Parametric
<1>3. x \in Nat
  <2>1. settings.fee \in Nat
    BY InsuranceHas
  <2>2. Bps(paid, settings.fee) \in Nat
    BY <2>1, BpsNatural
  <2> QED
    BY <2>2, AmountFacts
<1> HIDE DEF x, d
<1>4. /\ parametric' \in Seq(Parametric) /\ Rewritten(parametric, parametric', n) /\ parametric'[n] = d
      /\ n \notin DOMAIN parametric
  BY <1>1, <1>2, InsuranceHas, RewrittenByAppend
<1> HIDE DEF n
<1>5. BooksInv'
  <2>0. /\ p \in DOMAIN riskPools /\ riskPools[p] \in RiskPool
        /\ riskPools[p].available + riskPools[p].paid = riskPools[p].capital + riskPools[p].premiums
    BY <1>1, InsuranceHas
  <2>1. PICK r \in RiskPool :
            /\ riskPools' = Written(riskPools, p, r)
            /\ PoolMoved(riskPools[p], r, 0) /\ r.policies = riskPools[p].policies + 1
    <3>1. \E r \in RiskPool :
             /\ BookedIn(riskPools, p, x) = Written(riskPools, p, r)
             /\ PoolMoved(riskPools[p], r, 0) /\ r.policies = riskPools[p].policies + 1
      BY <1>3, <2>0, PoolUnderwrites
    <3>2. riskPools' = BookedIn(riskPools, p, x)
      BY <1>1 DEF BookedIn
    <3> QED
      BY <3>1, <3>2
  <2>2. r.policies - riskPools[p].policies = One(parametric'[n].status = "Active") - One(n \in DOMAIN parametric)
    <3>1. riskPools[p].policies \in Nat
      BY <2>0 DEF RiskPool
    <3>2. One(parametric'[n].status = "Active") = 1 /\ One(n \in DOMAIN parametric) = 0
      BY <1>2, <1>4 DEF One
    <3> QED
      BY <2>1, <3>1, <3>2
  <2>3. ParametricChanged(parametric, parametric', n, p, 0)
    BY <1>2, <1>4 DEF ParametricChanged
  <2>4. Books(riskPools, capital, policies, claims, parametric)
    BY DEF InsuranceInv, BooksInv
  <2>5. Books(Written(riskPools, p, r), capital, policies, claims, parametric')
    BY <2>0, <2>1, <2>2, <2>3, <2>4, ParametricMoved
  <2> QED
    BY <1>1, <2>1, <2>5 DEF BooksInv, claimVars, policyVars
<1>6. UNCHANGED <<policies, claims, claimTimes, windows>>
  BY <1>1 DEF policyVars, claimVars
<1> QED
  BY <1>1, <1>5, <1>6, InsuranceFrames DEF InsuranceInv

\* cancel_parametric_policy
LEMMA CancelParametricPolicyKeeps ==
    ASSUME InsuranceInv, NEW a, NEW n, CancelParametricPolicy(a, n)
    PROVE  InsuranceInv'
<1> DEFINE o == parametric[n]
           p == o.pool
           d == [o EXCEPT !.status = "Cancelled"]
<1>1. /\ n \in DOMAIN parametric /\ o.status = "Active"
      /\ parametric' = [parametric EXCEPT ![n].status = "Cancelled"]
      /\ riskPools' = [riskPools EXCEPT ![p].policies = Above(@, 1)]
      /\ UNCHANGED <<block, officeVars, capital, underwritingVars, policyVars, claimVars, triggers, treatyVars>>
  BY DEF CancelParametricPolicy
<1>2. o \in Parametric /\ p \in DOMAIN riskPools
  BY <1>1, InsuranceHas
<1>3. /\ riskPools[p] \in RiskPool /\ riskPools[p].policies >= 1
      /\ riskPools[p].available + riskPools[p].paid = riskPools[p].capital + riskPools[p].premiums
  BY <1>1, InForceIsCounted, <1>2, InsuranceHas DEF InsuranceInv, BooksInv
<1>4. parametric' = Written(parametric, n, d)
  BY <1>1 DEF Written
<1>5. d \in Parametric /\ d.status = "Cancelled" /\ d.pool = p
  <2> HIDE DEF o
  <2> QED
    BY <1>2 DEF Parametric
<1> HIDE DEF d
<1>6. parametric' \in Seq(Parametric) /\ Rewritten(parametric, parametric', n) /\ parametric'[n] = d
  <2>1. parametric \in Seq(Parametric) /\ n \in DOMAIN parametric /\ d \in Parametric
    BY <1>1, <1>5, InsuranceHas
  <2> QED
    BY <1>4, <2>1, RewrittenByWrite
<1>7. BooksInv'
  <2>1. PICK r \in RiskPool :
            /\ riskPools' = Written(riskPools, p, r)
            /\ PoolMoved(riskPools[p], r, 0) /\ r.policies = riskPools[p].policies - 1
    <3>1. \E r \in RiskPool :
             /\ PolicyReleased(riskPools, p) = Written(riskPools, p, r)
             /\ PoolMoved(riskPools[p], r, 0) /\ r.policies = riskPools[p].policies - 1
      BY <1>2, <1>3, PoolReleases
    <3>2. riskPools' = PolicyReleased(riskPools, p)
      BY <1>1 DEF PolicyReleased
    <3> QED
      BY <3>1, <3>2
  <2>2. r.policies - riskPools[p].policies = One(parametric'[n].status = "Active") - One(n \in DOMAIN parametric)
    <3>1. riskPools[p].policies \in Nat
      BY <1>3 DEF RiskPool
    <3>2. One(parametric'[n].status = "Active") = 0 /\ One(n \in DOMAIN parametric) = 1
      BY <1>1, <1>5, <1>6 DEF One
    <3> QED
      BY <2>1, <3>1, <3>2
  <2>3. ParametricChanged(parametric, parametric', n, p, 0)
    BY <1>1, <1>5, <1>6 DEF ParametricChanged
  <2>4. Books(riskPools, capital, policies, claims, parametric)
    BY DEF InsuranceInv, BooksInv
  <2> HIDE DEF p
  <2>5. Books(Written(riskPools, p, r), capital, policies, claims, parametric')
    BY <1>2, <2>1, <2>2, <2>3, <2>4, ParametricMoved
  <2> QED
    BY <1>1, <2>1, <2>5 DEF BooksInv, claimVars, policyVars
<1>8. UNCHANGED <<policies, claims, claimTimes, windows>>
  BY <1>1 DEF policyVars, claimVars
<1> QED
  BY <1>1, <1>7, <1>8, InsuranceFrames DEF InsuranceInv

\* One parametric policy in force is paid, or passed over.
LEMMA ParametricPayoutKeeps ==
    ASSUME NEW rps, NEW ds, Books(rps, capital, policies, claims, ds), NEW b, b.pools = rps, b.parametric = ds,
           NEW n \in DOMAIN ds, ds[n].status = "Active"
    PROVE  /\ Books(ParametricPayout(b, n).pools, capital, policies, claims, ParametricPayout(b, n).parametric)
           /\ DOMAIN ParametricPayout(b, n).parametric = DOMAIN ds
           /\ \A m \in DOMAIN ds \ {n} : ParametricPayout(b, n).parametric[m] = ds[m]
<1> DEFINE o == ds[n]
           p == o.pool
           d == [o EXCEPT !.status = "Triggered"]
           x == o.coverage
           es == [ds EXCEPT ![n].status = "Triggered"]
           new == [rps EXCEPT ![p].available = @ - x, ![p].paid = @ + x, ![p].policies = Above(@, 1)]
<1>0. Linked(rps, capital, policies, claims, ds) /\ ds \in Seq(Parametric)
  BY DEF Books, Linked
<1>1. o \in Parametric /\ p \in DOMAIN rps /\ rps[p] \in RiskPool
  BY <1>0, BooksFacts DEF Linked
<1>2. rps[p].available + rps[p].paid = rps[p].capital + rps[p].premiums /\ rps[p].policies >= 1
  BY <1>1, InForceIsCounted DEF Books, PoolGood
<1>3. x \in Nat /\ rps[p].available \in Nat
  BY <1>1 DEF Parametric, RiskPool
<1>4. CASE rps[p].available < x
  BY <1>4 DEF ParametricPayout
<1>5. CASE ~(rps[p].available < x)
  <2>1. ParametricPayout(b, n) = [parametric |-> es, pools |-> new]
    BY <1>5 DEF ParametricPayout
  <2>2. d \in Parametric /\ d.status = "Triggered" /\ d.pool = p /\ d.coverage = x
    BY <1>1 DEF Parametric
  <2>3. es = Written(ds, n, d)
    BY DEF Written
  <2> HIDE DEF d, es
  <2>4. /\ es \in Seq(Parametric) /\ Rewritten(ds, es, n) /\ es[n] = d /\ DOMAIN es = DOMAIN ds
        /\ \A m \in DOMAIN ds \ {n} : es[m] = ds[m]
    BY <1>0, <2>2, <2>3, RewrittenByWrite
  <2>5. PICK r \in RiskPool :
            /\ new = Written(rps, p, r)
            /\ PoolMoved(rps[p], r, x) /\ r.policies = rps[p].policies - 1
    <3>1. x <= rps[p].available
      BY <1>3, <1>5
    <3> HIDE DEF p, x
    <3>2. \E r \in RiskPool :
             /\ PaidAndReleased(rps, p, x) = Written(rps, p, r)
             /\ PoolMoved(rps[p], r, x) /\ r.policies = rps[p].policies - 1
      BY <1>1, <1>2, <1>3, <3>1, PoolPaysAndReleases
    <3>3. new = PaidAndReleased(rps, p, x)
      BY DEF PaidAndReleased
    <3> QED
      BY <3>2, <3>3
  <2> HIDE DEF new
  <2>6. r.policies - rps[p].policies = One(es[n].status = "Active") - One(n \in DOMAIN ds)
    <3>1. rps[p].policies \in Nat
      BY <1>1 DEF RiskPool
    <3>2. One(es[n].status = "Active") = 0 /\ One(n \in DOMAIN ds) = 1
      BY <2>2, <2>4 DEF One
    <3> QED
      BY <2>5, <3>1, <3>2
  <2>7. ParametricChanged(ds, es, n, p, x)
    BY <2>2, <2>4 DEF ParametricChanged
  <2> HIDE DEF p, x
  <2>8. Books(Written(rps, p, r), capital, policies, claims, es)
    BY <1>1, <1>3, <2>5, <2>6, <2>7, ParametricMoved
  <2>9. ParametricPayout(b, n).parametric = es /\ ParametricPayout(b, n).pools = Written(rps, p, r)
    BY <2>1, <2>5
  <2> QED
    BY <2>4, <2>8, <2>9
<1> QED
  BY <1>4, <1>5

\* The payouts of the first k parametric policies, one after the other.
Paying(due, start, k, f) ==
    f = [i \in 0..k |-> IF i = 0 THEN start ELSE IF i \in due THEN ParametricPayout(f[i - 1], i) ELSE f[i - 1]]

LEMMA AfterPayoutsUnfold ==
    ASSUME NEW due
    PROVE  AfterPayouts(due) =
               (CHOOSE f : Paying(due, [parametric |-> parametric, pools |-> riskPools], Len(parametric), f))
                   [Len(parametric)]
  BY DEF AfterPayouts, Paying

\* There is a way through them all.
LEMMA PayoutsExist ==
    ASSUME NEW due, NEW start, NEW k \in Nat
    PROVE  \E f : Paying(due, start, k, f)
<1> DEFINE P == {m \in Nat : \E f : Paying(due, start, m, f)}
<1>1. 0 \in P
  <2> DEFINE e == [i \in 0..0 |-> start]
  <2>1. Paying(due, start, 0, e)
    BY DEF Paying
  <2> HIDE DEF e
  <2> QED
    BY <2>1
<1>2. ASSUME NEW m \in Nat, m \in P
      PROVE  m + 1 \in P
  <2>1. PICK f : Paying(due, start, m, f)
    BY <1>2
  <2> DEFINE next == IF m + 1 \in due THEN ParametricPayout(f[m], m + 1) ELSE f[m]
             g == [i \in 0..(m + 1) |-> IF i = m + 1 THEN next ELSE f[i]]
  <2>2. \A i \in 0..m : g[i] = f[i]
    OBVIOUS
  <2>3. g[m + 1] = next
    OBVIOUS
  <2>4. g = [i \in 0..(m + 1) |-> g[i]]
    OBVIOUS
  <2> HIDE DEF g
  <2>5. ASSUME NEW i \in 0..(m + 1)
        PROVE  g[i] = IF i = 0 THEN start ELSE IF i \in due THEN ParametricPayout(g[i - 1], i) ELSE g[i - 1]
    <3>1. CASE i = m + 1
      BY <2>2, <2>3, <3>1
    <3>2. CASE i # m + 1
      BY <3>2, <2>2, <2>1 DEF Paying
    <3> QED
      BY <3>1, <3>2
  <2>6. Paying(due, start, m + 1, g)
    BY <2>4, <2>5 DEF Paying
  <2> QED
    BY <2>6
<1> HIDE DEF P
<1>3. k \in P
  BY <1>1, <1>2, NatInduct
<1> QED
  BY <1>3 DEF P

\* Whichever are paid, in that order, the books agree after each of them.
LEMMA PayoutsKeepBooks ==
    ASSUME Books(riskPools, capital, policies, claims, parametric),
           NEW due, \A n \in due : n \in DOMAIN parametric /\ parametric[n].status = "Active"
    PROVE  Books(AfterPayouts(due).pools, capital, policies, claims, AfterPayouts(due).parametric)
<1> DEFINE k == Len(parametric)
           start == [parametric |-> parametric, pools |-> riskPools]
           f == CHOOSE g : Paying(due, start, k, g)
           Good(b, m) == /\ Books(b.pools, capital, policies, claims, b.parametric)
                         /\ DOMAIN b.parametric = DOMAIN parametric
                         /\ \A i \in DOMAIN parametric : i > m => b.parametric[i] = parametric[i]
           P == {m \in Nat : m <= k => Good(f[m], m)}
<1>1. k \in Nat /\ DOMAIN parametric = 1..k
  BY LenProperties DEF Books, Linked
<1>2. Paying(due, start, k, f)
  BY <1>1, PayoutsExist
<1>3. AfterPayouts(due) = f[k]
  BY AfterPayoutsUnfold
<1> HIDE DEF f
<1>4. 0 \in P
  BY <1>1, <1>2 DEF Paying
<1>5. ASSUME NEW m \in Nat, m \in P
      PROVE  m + 1 \in P
  <2> SUFFICES ASSUME m + 1 <= k
               PROVE  Good(f[m + 1], m + 1)
    OBVIOUS
  <2>1. Good(f[m], m)
    BY <1>1, <1>5
  <2>2. m + 1 \in 0..k /\ m + 1 # 0 /\ (m + 1) - 1 = m /\ m + 1 \in DOMAIN parametric
    BY <1>1
  <2>3. f[m + 1] = IF m + 1 \in due THEN ParametricPayout(f[m], m + 1) ELSE f[m]
    BY <1>2, <2>2 DEF Paying
  <2> HIDE DEF P
  <2>4. CASE m + 1 \notin due
    <3>1. f[m + 1] = f[m]
      BY <2>3, <2>4
    <3>2. Good(f[m], m + 1)
      BY <1>1, <2>1
    <3> HIDE DEF Good
    <3> QED
      BY <3>1, <3>2
  <2>5. CASE m + 1 \in due
    <3> DEFINE b == f[m]
               j == m + 1
               c == ParametricPayout(b, j)
    <3>1. /\ Books(b.pools, capital, policies, claims, b.parametric)
          /\ j \in DOMAIN b.parametric /\ b.parametric[j].status = "Active"
      BY <2>1, <2>2, <2>5
    <3>2. f[j] = c
      BY <2>3, <2>5
    <3>3. /\ DOMAIN b.parametric = DOMAIN parametric
          /\ \A i \in DOMAIN parametric : i > m => b.parametric[i] = parametric[i]
      BY <2>1
    <3>4. \A i \in DOMAIN parametric : i > j => i > m /\ i # j
      BY <1>1
    <3> HIDE DEF b, j
    <3>5. /\ Books(c.pools, capital, policies, claims, c.parametric)
          /\ DOMAIN c.parametric = DOMAIN b.parametric
          /\ \A i \in DOMAIN b.parametric \ {j} : c.parametric[i] = b.parametric[i]
      BY <3>1, ParametricPayoutKeeps
    <3> HIDE DEF c
    <3>6. Good(c, j)
      BY <3>3, <3>4, <3>5
    <3> HIDE DEF Good
    <3> QED
      BY <3>2, <3>6 DEF j
  <2> QED
    BY <2>4, <2>5
<1> HIDE DEF P, Good
<1>6. k \in P
  BY <1>1, <1>4, <1>5, NatInduct
<1>7. Good(f[k], k)
  BY <1>1, <1>6 DEF P
<1> QED
  BY <1>3, <1>7 DEF Good

\* submit_oracle_data
LEMMA SubmitOracleDataKeeps ==
    ASSUME InsuranceInv, NEW a, NEW house, NEW metric, NEW reading, SubmitOracleData(a, house, metric, reading)
    PROVE  InsuranceInv'
<1> DEFINE due == Due(house, metric, reading)
<1>1. /\ parametric' = AfterPayouts(due).parametric /\ riskPools' = AfterPayouts(due).pools
      /\ UNCHANGED <<block, officeVars, capital, underwritingVars, policyVars, claimVars, triggers, treatyVars>>
  BY DEF SubmitOracleData
<1>2. \A n \in due : n \in DOMAIN parametric /\ parametric[n].status = "Active"
  BY DEF Due
<1> HIDE DEF due
<1>3. Books(riskPools, capital, policies, claims, parametric)
  BY DEF InsuranceInv, BooksInv
<1>4. Books(AfterPayouts(due).pools, capital, policies, claims, AfterPayouts(due).parametric)
  BY <1>2, <1>3, PayoutsKeepBooks
<1>5. UNCHANGED <<policies, claims, claimTimes, windows>>
  BY <1>1 DEF policyVars, claimVars
<1>6. BooksInv'
  BY <1>1, <1>4, <1>5 DEF BooksInv
<1> QED
  BY <1>1, <1>5, <1>6, InsuranceFrames DEF InsuranceInv

----
\* Roles and settings

\* The module of the rotation counts the requests as this one does.
LEMMA OfficeCardinality == \A S : OfficeKey!Cardinality(S) = Cardinality(S)
  BY Zenon DEF OfficeKey!Cardinality, Cardinality

LEMMA KeyTyped ==
    /\ OfficeKey!RotationTypeOK <=> KeyHeld(Insured, insuranceAdmin, insuranceRotation)
    /\ OfficeKey!RotationTypeOK' <=> KeyHeld(Insured, insuranceAdmin', insuranceRotation')
  BY OfficeCardinality DEF OfficeKey!RotationTypeOK, OfficeKey!Rotation, KeyHeld

\* request_admin_rotation, confirm_admin_rotation, cancel_admin_rotation
LEMMA OfficeKeyKeeps ==
    ASSUME OfficeKey!RotationTypeOK, block \in Nat, OfficeKey!RotationNext
    PROVE  OfficeKey!RotationTypeOK' /\ UNCHANGED block
  BY InsuranceFacts, KeyTyped, KeyTurns DEF OfficeKey!RotationNext, KeyTurned, OfficeKey!RequestAdminRotation,
     OfficeKey!ConfirmAdminRotation, OfficeKey!CancelAdminRotation

\* set_platform_fee_rate, set_claim_cooldown, set_circuit_breaker_params
SettingsKind == [fee : 0..MaxFee, cooldown : Nat, single : Nat, daily : Nat, window : Nat \ {0}]

Limited(s, limits, span) == [s EXCEPT !.single = limits[1], !.daily = limits[2], !.window = span]

LEMMA SettingsKept ==
    ASSUME NEW s \in SettingsKind
    PROVE  /\ \A fee \in MoneyArgs : fee <= MaxFee => [s EXCEPT !.fee = fee] \in SettingsKind
           /\ \A span \in SpanArgs : [s EXCEPT !.cooldown = span] \in SettingsKind
           /\ \A span \in SpanArgs, limits \in BreakerArgs :
                 span > 0 => Limited(s, limits, span) \in SettingsKind
<1>1. ASSUME NEW fee \in MoneyArgs, fee <= MaxFee
      PROVE  [s EXCEPT !.fee = fee] \in SettingsKind
  BY <1>1, InsuranceFacts DEF SettingsKind
<1>2. ASSUME NEW span \in SpanArgs
      PROVE  [s EXCEPT !.cooldown = span] \in SettingsKind
  BY InsuranceFacts DEF SettingsKind
<1>3. ASSUME NEW span \in SpanArgs, NEW limits \in BreakerArgs, span > 0
      PROVE  Limited(s, limits, span) \in SettingsKind
  <2> DEFINE x == limits[1]
             y == limits[2]
  <2>1. span \in Nat \ {0} /\ x \in Nat /\ y \in Nat
    BY <1>3, InsuranceFacts
  <2> HIDE DEF x, y
  <2>2. [s EXCEPT !.single = x, !.daily = y, !.window = span] \in SettingsKind
    BY <2>1 DEF SettingsKind
  <2> QED
    BY <2>2 DEF x, y, Limited
<1> QED
  BY <1>1, <1>2, <1>3

\* The rotation of the admin, the roles and the settings.
LEMMA OfficeKeeps ==
    ASSUME InsuranceInv, OfficeNext
    PROVE  InsuranceInv'
<1>1. OfficeInv /\ block \in Nat /\ settings \in SettingsKind
  BY DEF InsuranceInv, OfficeInv, SettingsKind
<1>2. OfficeInv' /\ UNCHANGED block
  <2>1. CASE OfficeKey!RotationNext /\ UNCHANGED <<dataOracles, assessors, settings>>
    BY <1>1, <2>1, OfficeKeyKeeps DEF OfficeInv
  <2>2. CASE UNCHANGED <<insuranceAdmin, insuranceRotation, block>>
    <3>1. OfficeKey!RotationTypeOK'
      BY <1>1, <2>2 DEF OfficeInv, OfficeKey!RotationTypeOK, OfficeKey!Rotation
    <3>2. CASE /\ dataOracles' \subseteq dataOracles \cup Insured /\ assessors' \subseteq assessors \cup Insured
               /\ UNCHANGED settings
      BY <1>1, <3>2, <2>2, <3>1 DEF OfficeInv, SettingsKind
    <3>3. CASE UNCHANGED <<dataOracles, assessors>> /\ settings' \in SettingsKind
      BY <1>1, <3>3, <2>2, <3>1 DEF OfficeInv, SettingsKind
    <3>4. CASE \E a, other \in Insured : AuthorizeOracle(a, other) \/ AuthorizeAssessor(a, other)
      BY <3>2, <3>4 DEF AuthorizeOracle, AuthorizeAssessor
    <3>5. CASE \/ \E a \in Insured, span \in SpanArgs :
                    SetClaimCooldown(a, span) \/ \E limits \in BreakerArgs : SetCircuitBreakerParams(a, limits, span)
               \/ \E a \in Insured, fee \in MoneyArgs : SetPlatformFeeRate(a, fee)
      <4>1. UNCHANGED <<dataOracles, assessors>>
        BY <3>5 DEF SetPlatformFeeRate, SetClaimCooldown, SetCircuitBreakerParams, SettingsChange
      <4>2. settings' \in SettingsKind
        <5>1. CASE \E a \in Insured, span \in SpanArgs : SetClaimCooldown(a, span)
          BY <1>1, <5>1, SettingsKept DEF SetClaimCooldown, SettingsChange
        <5>2. CASE \E a \in Insured, span \in SpanArgs, limits \in BreakerArgs : SetCircuitBreakerParams(a, limits, span)
          <6>1. PICK a \in Insured, span \in SpanArgs, limits \in BreakerArgs :
                   SetCircuitBreakerParams(a, limits, span)
            BY <5>2
          <6>2. span > 0 /\ settings' = Limited(settings, limits, span)
            BY <6>1 DEF SetCircuitBreakerParams, SettingsChange, Limited
          <6> QED
            BY <1>1, <6>2, SettingsKept
        <5>3. CASE \E a \in Insured, fee \in MoneyArgs : SetPlatformFeeRate(a, fee)
          BY <1>1, <5>3, SettingsKept DEF SetPlatformFeeRate, SettingsChange
        <5> QED
          BY <3>5, <5>1, <5>2, <5>3
      <4> QED
        BY <3>3, <4>1, <4>2
    <3>6. CASE OfficeKey!RotationNext /\ UNCHANGED <<dataOracles, assessors, settings>>
      BY <2>1, <3>6
    <3> QED
      BY <3>4, <3>5, <3>6 DEF OfficeNext
  <2> QED
    BY <2>1, <2>2 DEF OfficeNext, AuthorizeOracle, AuthorizeAssessor, SetPlatformFeeRate,
                      SetClaimCooldown, SetCircuitBreakerParams, SettingsChange
<1>3. UNCHANGED <<riskPools, capital, underwritingVars, policyVars, claimVars, triggers, treatyVars, parametric>>
  BY DEF OfficeNext, AuthorizeOracle, AuthorizeAssessor, SetPlatformFeeRate, SetClaimCooldown,
         SetCircuitBreakerParams, SettingsChange
<1>4. UNCHANGED <<policies, claims, claimTimes, windows>>
  BY <1>3 DEF policyVars, claimVars
<1> QED
  BY <1>1, <1>2, <1>3, <1>4, InsuranceFrames DEF InsuranceInv

----
\* The invariant is inductive

LEMMA InsuranceStarts == ChainInit /\ InsuranceInit => InsuranceInv
<1> SUFFICES ASSUME ChainInit, InsuranceInit
             PROVE  InsuranceInv
  OBVIOUS
<1> USE DEF InsuranceInit
<1>1. block \in Nat
  BY DEF ChainInit
<1>2. BooksInv
  BY InsuranceFacts DEF Linked, BooksInv, Books
<1>3. OfficeInv
  BY InsuranceFacts, NoneOrOne, KeyTyped DEF KeyHeld, OfficeInv
<1>4. RiskInv
  BY DEF RiskInv
<1>5. TimesInv
  BY DEF TimesInv
<1>6. TreatyInv
  BY DEF TreatyInv
<1>7. TriggerInv
  BY DEF TriggerInv
<1>8. HeldInv
  BY DEF Names, HeldBy, HeldInv
<1> QED
  BY <1>1, <1>2, <1>3, <1>4, <1>5, <1>6, <1>7, <1>8 DEF InsuranceInv

LEMMA InsuranceStays == InsuranceInv /\ [InsuranceNext]_<<block, insuranceState>> => InsuranceInv'
<1> SUFFICES ASSUME InsuranceInv, [InsuranceNext]_<<block, insuranceState>>
             PROVE  InsuranceInv'
  OBVIOUS
<1>0. /\ \A x \in MoneyArgs : x \in Nat
      /\ \A x \in SpanArgs : x \in Nat
  BY InsuranceFacts
<1>1. CASE PolicyNext
  <2>1. PICK a \in Insured :
            \/ \E type \in CoverageTypes, exposure \in ExposureArgs : CreateRiskPool(a, type, exposure)
            \/ \E p \in riskPoolIds, amount \in MoneyArgs : ProvidePoolLiquidity(a, p, amount)
            \/ \E house \in Houses, scores \in ScoreArgs, span \in SpanArgs :
                  UpdateRiskAssessment(a, house, scores, span)
            \/ \E type \in CoverageTypes, rate \in {TypeRate[t] : t \in CoverageTypes} :
                  UpdateActuarialModel(a, type, rate)
            \/ \E house \in Houses, type \in CoverageTypes, p \in riskPoolIds, span \in SpanArgs :
                  \E coverage, paid \in MoneyArgs : CreatePolicy(a, house, type, coverage, p, span, paid)
            \/ \E n \in DOMAIN policies : CancelPolicy(a, n)
    BY <1>1 DEF PolicyNext
  <2>2. CASE \E type \in CoverageTypes, exposure \in ExposureArgs : CreateRiskPool(a, type, exposure)
    BY <2>2, CreateRiskPoolKeeps
  <2>3. CASE \E p \in riskPoolIds, amount \in MoneyArgs : ProvidePoolLiquidity(a, p, amount)
    BY <1>0, <2>3, ProvidePoolLiquidityKeeps
  <2>4. CASE \/ \E house \in Houses, scores \in ScoreArgs, span \in SpanArgs :
                  UpdateRiskAssessment(a, house, scores, span)
             \/ \E type \in CoverageTypes, rate \in {TypeRate[t] : t \in CoverageTypes} :
                  UpdateActuarialModel(a, type, rate)
    BY <2>4, UnderwritingKeeps
  <2>5. CASE \E house \in Houses, type \in CoverageTypes, p \in riskPoolIds, span \in SpanArgs :
                \E coverage, paid \in MoneyArgs : CreatePolicy(a, house, type, coverage, p, span, paid)
    BY <2>5, <1>0, CreatePolicyKeeps
  <2>6. CASE \E n \in DOMAIN policies : CancelPolicy(a, n)
    BY <2>6, CancelPolicyKeeps
  <2> QED
    BY <2>1, <2>2, <2>3, <2>4, <2>5, <2>6
<1>2. CASE ClaimNext
  BY <1>2, <1>0, SubmitClaimKeeps, ProcessClaimKeeps DEF ClaimNext
<1>3. CASE TriggerNext
  BY <1>3, RegisterClaimTriggerKeeps, DeactivateClaimTriggerKeeps, ReportOracleEventKeeps DEF TriggerNext
<1>4. CASE TreatyNext
  BY <1>4, <1>0, RegisterReinsuranceKeeps, DeactivateReinsuranceKeeps, CedePremiumKeeps, RecordLossRecoveryKeeps
     DEF TreatyNext
<1>5. CASE TokenNext
  BY <1>5, <1>0, ListTokenForSaleKeeps, PurchaseTokenKeeps DEF TokenNext
<1>6. CASE ParametricNext
  <2>1. PICK a \in Insured :
            \/ \E house \in Houses, metric \in Metrics, p \in riskPoolIds, span \in SpanArgs :
                  \E threshold \in Thresholds, atLeast \in BOOLEAN, coverage \in MoneyArgs, paid \in MoneyArgs :
                      CreateParametricPolicy(a, house, metric, threshold, atLeast, coverage, p, span, paid)
            \/ \E n \in DOMAIN parametric : CancelParametricPolicy(a, n)
            \/ \E house \in Houses, metric \in Metrics, reading \in Readings :
                  SubmitOracleData(a, house, metric, reading)
    BY <1>6 DEF ParametricNext
  <2>2. CASE \E house \in Houses, metric \in Metrics, p \in riskPoolIds, span \in SpanArgs :
                \E threshold \in Thresholds, atLeast \in BOOLEAN, coverage \in MoneyArgs, paid \in MoneyArgs :
                    CreateParametricPolicy(a, house, metric, threshold, atLeast, coverage, p, span, paid)
    BY <2>2, <1>0, CreateParametricPolicyKeeps
  <2>3. CASE \E n \in DOMAIN parametric : CancelParametricPolicy(a, n)
    BY <2>3, CancelParametricPolicyKeeps
  <2>4. CASE \E house \in Houses, metric \in Metrics, reading \in Readings :
                SubmitOracleData(a, house, metric, reading)
    BY <2>4, SubmitOracleDataKeeps
  <2> QED
    BY <2>1, <2>2, <2>3, <2>4
<1>7. CASE OfficeNext
  BY <1>7, OfficeKeeps
<1>8. CASE UNCHANGED insuranceState /\ (NextBlock \/ UNCHANGED block)
  BY <1>8, InsuranceFrames DEF InsuranceInv, NextBlock, insuranceState, policyVars, claimVars
<1> QED
  BY <1>1, <1>2, <1>3, <1>4, <1>5, <1>6, <1>7, <1>8 DEF InsuranceNext

\* What a list names once it holds once.
LEMMA NamedOnce ==
    ASSUME NEW list, NEW S, Names(list, S), NEW n
    PROVE  Cardinality({i \in DOMAIN list : list[i] = n}) = IF n \in S THEN 1 ELSE 0
<1>1. CASE n \in S
  BY <1>1, FS_Singleton DEF Names
<1>2. CASE n \notin S
  BY <1>2, FS_EmptySet DEF Names
<1> QED
  BY <1>1, <1>2

\* The invariant says what the run checks.
LEMMA InsuranceImplied == InsuranceInv => PolicyBooksAgree
<1> SUFFICES ASSUME InsuranceInv
             PROVE  PolicyBooksAgree
  OBVIOUS
<1>1. Books(riskPools, capital, policies, claims, parametric)
  BY DEF InsuranceInv, BooksInv
<1>2. Linked(riskPools, capital, policies, claims, parametric)
  BY <1>1 DEF Books
<1>3. InsuranceTypeOK
  <2>1. tokenListings \subseteq DOMAIN tokens
    BY DEF InsuranceInv, HeldInv
  <2>2. /\ riskPools \in Seq(RiskPool) /\ capital \in [riskPoolIds -> [Insured -> Nat]]
        /\ policies \in Seq(Policy) /\ claims \in Seq(Claim) /\ parametric \in Seq(Parametric)
    BY <1>2 DEF Linked
  <2>3. OfficeInv /\ RiskInv /\ TimesInv
    BY DEF InsuranceInv
  <2>4. TreatyInv /\ triggers \in Seq(Trigger)
    BY DEF InsuranceInv, TriggerInv
  <2>5. portfolio \in [Insured -> Seq(DOMAIN policies)] /\ tokens \in Seq([owner : Insured, price : SUBSET Nat])
    BY DEF InsuranceInv, HeldInv
  <2> QED
    BY <2>1, <2>2, <2>3, <2>4, <2>5
       DEF InsuranceTypeOK, OfficeInv, RiskInv, TimesInv, TreatyInv, Cessions, Recoveries
<1>4. InsuranceBooksAgree
  <2>1. \A numbers : Payouts(numbers) = PaidSum(claims, numbers)
    BY DEF Payouts, PaidClaims, PaidSum, PaidOn
  <2>2. ASSUME NEW p \in DOMAIN riskPools
        PROVE  LET its == {n \in DOMAIN policies : policies[n].pool = p}
                   ofPool(status) == {n \in DOMAIN parametric : parametric[n].pool = p /\ parametric[n].status = status}
                   live(statuses) == Cardinality({n \in its : policies[n].status \in statuses})
                                         + Cardinality(ofPool("Active"))
               IN  /\ riskPools[p].available + riskPools[p].paid = riskPools[p].capital + riskPools[p].premiums
                   /\ riskPools[p].capital = SumFunctionOnSet(capital[p], Insured)
                   /\ riskPools[p].paid =
                          Payouts(its)
                              + SumFunctionOnSet([n \in ofPool("Triggered") |-> parametric[n].coverage], ofPool("Triggered"))
                   /\ live({"Active"}) <= riskPools[p].policies
                   /\ riskPools[p].policies <= live({"Active", "Claimed"})
    <3> DEFINE its == {n \in DOMAIN policies : policies[n].pool = p}
               ofPool(status) == {n \in DOMAIN parametric : parametric[n].pool = p /\ parametric[n].status = status}
    <3>1. PoolGood(riskPools[p], capital[p], p, policies, claims, parametric)
      BY <1>1 DEF Books
    <3>2. its = OfPool(policies, p)
      BY DEF OfPool
    <3>3. \A statuses : {n \in its : policies[n].status \in statuses} = Standing(policies, p, statuses)
      BY <3>2 DEF Standing
    <3>4. \A status : ofPool(status) = Standing(parametric, p, {status})
      BY DEF Standing, OfPool
    <3>5. Payouts(its) = PaidSum(claims, OfPool(policies, p))
      BY <2>1, <3>2
    <3>6. SumFunctionOnSet([n \in ofPool("Triggered") |-> parametric[n].coverage], ofPool("Triggered"))
              = Covered(parametric, p)
      BY <3>4 DEF Covered
    <3> HIDE DEF its, ofPool
    <3>7. /\ riskPools[p].available + riskPools[p].paid = riskPools[p].capital + riskPools[p].premiums
          /\ riskPools[p].capital = SumFunctionOnSet(capital[p], Insured)
          /\ riskPools[p].paid = Payouts(its)
                 + SumFunctionOnSet([n \in ofPool("Triggered") |-> parametric[n].coverage], ofPool("Triggered"))
      BY <3>1, <3>5, <3>6 DEF PoolGood
    <3>8. \A statuses : Cardinality({n \in its : policies[n].status \in statuses}) + Cardinality(ofPool("Active"))
                            = Live(policies, parametric, p, statuses)
      BY <3>3, <3>4 DEF Live
    <3>9. /\ Cardinality({n \in its : policies[n].status \in {"Active"}}) + Cardinality(ofPool("Active"))
                 <= riskPools[p].policies
          /\ riskPools[p].policies <=
                 Cardinality({n \in its : policies[n].status \in {"Active", "Claimed"}}) + Cardinality(ofPool("Active"))
      BY <3>1, <3>8 DEF PoolGood
    <3> QED
      BY <3>7, <3>9 DEF its, ofPool
  <2>3. ASSUME NEW n \in DOMAIN policies
        PROVE  /\ policies[n].claimed = Payouts({n})
               /\ policies[n].status = "Claimed" => policies[n].claimed >= policies[n].coverage
    BY <1>1, <2>1 DEF Books, PolicyGood
  <2>4. \A t \in DOMAIN treaties :
            treaties[t].recovered = Amounts(recoveries, t) /\ treaties[t].ceded = Amounts(cessions, t)
    BY DEF InsuranceInv, TreatyInv
  <2>5. ASSUME NEW t \in DOMAIN triggers, triggers[t].claim # 0
        PROVE  LET c == claims[triggers[t].claim]
               IN  /\ c.policy = triggers[t].policy /\ c.status \in {"Approved", "Paid"}
                   /\ c.amount <= policies[c.policy].coverage
                   /\ \A u \in DOMAIN triggers \ {t} : triggers[u].claim # triggers[t].claim
    BY <2>5 DEF InsuranceInv, TriggerInv, TriggerGood
  <2> QED
    BY <2>2, <2>3, <2>4, <2>5, Zenon DEF InsuranceBooksAgree
<1>5. PoliciesHeldOnce
  <2>1. ASSUME NEW n \in DOMAIN policies, NEW a \in Insured
        PROVE  Cardinality({i \in DOMAIN portfolio[a] : portfolio[a][i] = n}) = (IF a = policies[n].holder THEN 1 ELSE 0)
    <3>1. Names(portfolio[a], HeldBy(a, policies))
      BY DEF InsuranceInv, HeldInv
    <3>2. n \in HeldBy(a, policies) <=> a = policies[n].holder
      BY DEF HeldBy
    <3>3. Cardinality({i \in DOMAIN portfolio[a] : portfolio[a][i] = n}) = IF n \in HeldBy(a, policies) THEN 1 ELSE 0
      BY <3>1, NamedOnce
    <3> QED
      BY <3>2, <3>3
  <2>2. /\ \A n \in DOMAIN policies : tokens[n].owner = policies[n].holder
        /\ tokenListings = {n \in DOMAIN tokens : tokens[n].price # {}}
    BY DEF InsuranceInv, HeldInv
  <2> QED
    BY <2>1, <2>2 DEF PoliciesHeldOnce
<1> QED
  BY <1>3, <1>4, <1>5 DEF PolicyBooksAgree

\* The books of the insurance agree after every sequence of messages, for any accounts,
\* pools, policies, limits and terms: a pool paid exactly the Paid claims and the triggered
\* parametric policies, a policy was charged its claims, triggers have a claim of their own
\* within the coverage, treaties sum up their records, and a policy has one holder
\* (execute_payout, submit_oracle_data, purchase_token, cancel_policy).
THEOREM PoliciesAlwaysAgree == InsuranceSpec => []PolicyBooksAgree
<1>1. InsuranceSpec => []InsuranceInv
  BY InsuranceStarts, InsuranceStays, PTL DEF InsuranceSpec
<1> QED
  BY <1>1, InsuranceImplied, PTL
====
