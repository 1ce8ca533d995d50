---- MODULE Fractional ----
(***************************************************************************)
(* Shares of property tokens: listings, redemption, a constant-product     *)
(* pool of shares and value, and Dutch auctions                            *)
(* (contracts/fractional/src/lib.rs).                                      *)
(*                                                                         *)
(* Left out are the transfers of native value, whose results the code      *)
(* ignores, and the payment of a buyer or bidder, which must reach the     *)
(* price and is otherwise not looked at. Minimal outputs only refuse calls *)
(* and are left out too. consolidate_shares stores what it read.           *)
(***************************************************************************)
EXTENDS BlockClock, SequencesExt, FiniteSetsExt

CONSTANTS
    Holders,            \* accounts
    Creator,            \* who deploys the contract, its first admin
    Tokens,
    FractionalCooldown, FractionalExpiry,
    AmountArgs,         \* shares, values and prices an argument may name
    DurationArgs,
    MaxShares,          \* bound: shares of a token, shares and value of its pool
    MaxAuctions         \* bound: auctions of a behaviour

ASSUME FractionalConstants ==
    /\ IsFiniteSet(Holders) /\ Creator \in Holders
    /\ AmountArgs \cup DurationArgs \subseteq Nat
    /\ {FractionalCooldown, FractionalExpiry, MaxShares, MaxAuctions} \subseteq Nat

VARIABLES
    fractionalAdmin, fractionalRotation,
    lastPrice,          \* last_prices, 0 for a token without one
    shares,             \* balances
    totalShares,        \* total_shares
    shareOffers,        \* listings, a function on pairs of a seller and a token
    pool,               \* amm_pools, {} or a singleton
    lpShares,           \* lp_balances
    auctions            \* dutch_auctions, the removed ones Cancelled

fractionalAdminVars == <<fractionalAdmin, fractionalRotation>>
fractionalVars == <<block, fractionalAdminVars, lastPrice, shares, totalShares, shareOffers, pool,
                    lpShares, auctions>>

FractionalKey ==
    INSTANCE AdminRotation WITH Accounts <- Holders, admin <- fractionalAdmin,
        rotation <- fractionalRotation, RotationCooldown <- FractionalCooldown,
        RotationExpiry <- FractionalExpiry

Pool == [shares : Nat, value : Nat, lp : Nat]

Auction ==
    [seller : Holders, token : Tokens, shares : Nat \ {0}, start : Nat \ {0}, end : Nat \ {0},
     from : Nat, duration : Nat \ {0}, paid : Nat, status : {"Open", "Bid", "Cancelled"}]

FractionalTypeOK ==
    /\ FractionalKey!RotationTypeOK
    /\ lastPrice \in [Tokens -> Nat]
    /\ shares \in [Tokens -> [Holders -> Nat]]
    /\ totalShares \in [Tokens -> Nat]
    /\ DOMAIN shareOffers \subseteq Holders \X Tokens
    /\ \A k \in DOMAIN shareOffers : shareOffers[k] \in [shares : Nat \ {0}, price : Nat]
    /\ \A t \in Tokens : pool[t] \subseteq Pool /\ Cardinality(pool[t]) <= 1
    /\ lpShares \in [Tokens -> [Holders -> Nat]]
    /\ auctions \in Seq(Auction)

FractionalInit ==
    /\ fractionalAdmin = Creator /\ fractionalRotation = {}
    /\ lastPrice = [t \in Tokens |-> 0]
    /\ shares = [t \in Tokens |-> [a \in Holders |-> 0]] /\ totalShares = [t \in Tokens |-> 0]
    /\ shareOffers = [k \in {} |-> k]
    /\ pool = [t \in Tokens |-> {}] /\ lpShares = [t \in Tokens |-> [a \in Holders |-> 0]]
    /\ auctions = << >>

----
\* Pure functions

LessOf(a, b) == IF a < b THEN a ELSE b
Left(a, b) == IF a > b THEN a - b ELSE 0

\* isqrt, the iteration of the code.
Isqrt(n) ==
    LET root[x \in 1..n] == LET y == (x + n \div x) \div 2 IN IF y < x THEN root[y] ELSE x
    IN  IF n = 0 THEN 0 ELSE root[n]

\* a * b / c, 0 where c is 0 (checked_div).
Share(a, b, c) == IF c = 0 THEN 0 ELSE (a * b) \div c

\* The value a swap takes out, after a fee of 30 of 10000.
SwapOut(p, sharesIn) == Share(sharesIn * 9970, p.value, p.shares * 10000 + sharesIn * 9970)

\* calculate_dutch_price
DutchPrice(auction) ==
    LET elapsed == block - auction.from
    IN  IF elapsed >= auction.duration THEN auction.end
        ELSE auction.start - (Left(auction.start, auction.end) * elapsed) \div auction.duration

\* Mutant: the seller's new balance is stored last, from what was read first.
Transferred_SellerLast(held, seller, buyer, amount) ==
    [held EXCEPT ![buyer] = @ + amount, ![seller] = Left(held[seller], amount)]

\* The shares after a sale: a seller who has less is left with nothing, and the
\* buyer gets all the same.
Transferred(held, seller, buyer, amount) ==
    LET left == [held EXCEPT ![seller] = Left(@, amount)]
    IN  [left EXCEPT ![buyer] = @ + amount]

SetPool(t, p) ==
    /\ pool' = [pool EXCEPT ![t] = {p}]
    /\ lastPrice' = IF p.shares = 0 THEN lastPrice
                    ELSE [lastPrice EXCEPT ![t] = p.value \div p.shares]

----
\* Prices, shares and listings

\* Anybody names the price.
SetLastPrice(t, price) ==
    /\ lastPrice' = [lastPrice EXCEPT ![t] = price]
    /\ UNCHANGED <<block, fractionalAdminVars, shares, totalShares, shareOffers, pool, lpShares, auctions>>

\* Anybody mints.
MintShares(owner, t, amount) ==
    /\ totalShares[t] + amount <= MaxShares
    /\ shares' = [shares EXCEPT ![t][owner] = @ + amount]
    /\ totalShares' = [totalShares EXCEPT ![t] = @ + amount]
    /\ UNCHANGED <<block, fractionalAdminVars, lastPrice, shareOffers, pool, lpShares, auctions>>

\* A second listing of the seller takes the place of the first.
ListShares(caller, t, amount, price) ==
    /\ amount \in 1..shares[t][caller]
    /\ shareOffers' = [k \in DOMAIN shareOffers \cup {<<caller, t>>} |->
           IF k = <<caller, t>> THEN [shares |-> amount, price |-> price] ELSE shareOffers[k]]
    /\ lastPrice' = [lastPrice EXCEPT ![t] = price]
    /\ UNCHANGED <<block, fractionalAdminVars, shares, totalShares, pool, lpShares, auctions>>

WithoutOffer(k) == [j \in DOMAIN shareOffers \ {k} |-> shareOffers[j]]

CancelOffer(caller, t) ==
    /\ <<caller, t>> \in DOMAIN shareOffers
    /\ shareOffers' = WithoutOffer(<<caller, t>>)
    /\ UNCHANGED <<block, fractionalAdminVars, lastPrice, shares, totalShares, pool, lpShares, auctions>>

BuyShares(caller, seller, t, amount) ==
    LET k == <<seller, t>>
    IN  /\ k \in DOMAIN shareOffers
        /\ amount \in 1..shareOffers[k].shares
        /\ shares' = [shares EXCEPT ![t] = Transferred(@, seller, caller, amount)]
        /\ shareOffers' = IF amount = shareOffers[k].shares THEN WithoutOffer(k)
                          ELSE [shareOffers EXCEPT ![k].shares = @ - amount]
        /\ UNCHANGED <<block, fractionalAdminVars, lastPrice, totalShares, pool, lpShares, auctions>>

RedeemShares(caller, t, amount) ==
    /\ amount \in 1..shares[t][caller]
    /\ shares' = [shares EXCEPT ![t][caller] = @ - amount]
    /\ totalShares' = [totalShares EXCEPT ![t] = Left(@, amount)]
    /\ UNCHANGED <<block, fractionalAdminVars, lastPrice, shareOffers, pool, lpShares, auctions>>

----
\* The pool

\* Mutant: the larger of the two parts is minted.
LpMinted_Larger(p, amount, value) ==
    LET byShare == Share(amount, p.lp, p.shares)
        byValue == Share(value, p.lp, p.value)
    IN  IF byShare > byValue THEN byShare ELSE byValue

LpMinted(p, amount, value) == LessOf(Share(amount, p.lp, p.shares), Share(value, p.lp, p.value))

\* Once all liquidity is removed, the emptied pool stays, and what is added to it
\* earns nothing.
AddLiquidity(caller, t, amount, value) ==
    /\ amount \in 1..shares[t][caller]
    /\ value # 0
    /\ \A p \in pool[t] : p.value + value <= MaxShares /\ p.shares + amount <= MaxShares
    /\ LET minted == IF pool[t] = {} THEN Isqrt(amount * value)
                     ELSE LpMinted(CHOOSE p \in pool[t] : TRUE, amount, value)
           before == IF pool[t] = {} THEN [shares |-> 0, value |-> 0, lp |-> 0]
                     ELSE CHOOSE p \in pool[t] : TRUE
       IN  /\ SetPool(t, [shares |-> before.shares + amount, value |-> before.value + value,
                          lp |-> before.lp + minted])
           /\ lpShares' = [lpShares EXCEPT ![t][caller] = @ + minted]
    /\ shares' = [shares EXCEPT ![t][caller] = @ - amount]
    /\ UNCHANGED <<block, fractionalAdminVars, totalShares, shareOffers, auctions>>

RemoveLiquidity(caller, t, lp) ==
    /\ lp \in 1..lpShares[t][caller]
    /\ \E p \in pool[t] :
          LET sharesOut == Share(lp, p.shares, p.lp)
              valueOut == Share(lp, p.value, p.lp)
          IN  /\ SetPool(t, [shares |-> p.shares - sharesOut, value |-> p.value - valueOut,
                             lp |-> p.lp - lp])
              /\ shares' = [shares EXCEPT ![t][caller] = @ + sharesOut]
    /\ lpShares' = [lpShares EXCEPT ![t][caller] = @ - lp]
    /\ UNCHANGED <<block, fractionalAdminVars, totalShares, shareOffers, auctions>>

\* The shares go to the pool, and are taken off the total all the same.
SwapSharesForValue(caller, t, amount) ==
    /\ amount \in 1..shares[t][caller]
    /\ \E p \in pool[t] :
          /\ p.shares + amount <= MaxShares
          /\ 0 \notin {p.value, p.shares}
          /\ SwapOut(p, amount) < p.value
          /\ SetPool(t, [shares |-> p.shares + amount, value |-> p.value - SwapOut(p, amount), lp |-> p.lp])
    /\ shares' = [shares EXCEPT ![t][caller] = @ - amount]
    /\ totalShares' = [totalShares EXCEPT ![t] = Left(@, amount)]
    /\ UNCHANGED <<block, fractionalAdminVars, shareOffers, lpShares, auctions>>

----
\* Auctions

CreateDutchAuction(caller, t, amount, start, end, duration) ==
    /\ Len(auctions) < MaxAuctions
    /\ 0 \notin {start, end, duration}
    /\ amount \in 1..shares[t][caller]
    /\ auctions' = Append(auctions,
           [seller |-> caller, token |-> t, shares |-> amount, start |-> start, end |-> end,
            from |-> block, duration |-> duration, paid |-> 0,
            status |-> "Open"])
    /\ UNCHANGED <<block, fractionalAdminVars, lastPrice, shares, totalShares, shareOffers, pool, lpShares>>

\* What the seller holds by then is not looked at, and there is no last day to bid.
BidDutchAuction(caller, n) ==
    /\ n \in DOMAIN auctions
    /\ auctions[n].status = "Open"
    /\ LET t == auctions[n].token
       IN  shares' = [shares EXCEPT ![t] = Transferred(@, auctions[n].seller, caller, auctions[n].shares)]
    /\ auctions' = [auctions EXCEPT ![n].status = "Bid",
                                    ![n].paid = DutchPrice(auctions[n]) * auctions[n].shares]
    /\ UNCHANGED <<block, fractionalAdminVars, lastPrice, totalShares, shareOffers, pool, lpShares>>

CancelDutchAuction(caller, n) ==
    /\ n \in DOMAIN auctions
    /\ auctions[n].status = "Open"
    /\ auctions[n].seller = caller
    /\ auctions' = [auctions EXCEPT ![n].status = "Cancelled"]
    /\ UNCHANGED <<block, fractionalAdminVars, lastPrice, shares, totalShares, shareOffers, pool, lpShares>>

----
\* The next-state relation

ShareNext ==
    \E a \in Holders, t \in Tokens, amount \in AmountArgs :
        \/ SetLastPrice(t, amount)
        \/ MintShares(a, t, amount)
        \/ \E price \in AmountArgs : ListShares(a, t, amount, price)
        \/ CancelOffer(a, t)
        \/ \E b \in Holders : BuyShares(a, b, t, amount)
        \/ RedeemShares(a, t, amount)

PoolNext ==
    \E a \in Holders, t \in Tokens, amount \in AmountArgs :
        \/ \E value \in AmountArgs : AddLiquidity(a, t, amount, value)
        \/ SwapSharesForValue(a, t, amount)
        \/ \E lp \in 1..lpShares[t][a] : RemoveLiquidity(a, t, lp)

AuctionNext ==
    \E a \in Holders :
        \/ \E t \in Tokens, amount, start, end \in AmountArgs, duration \in DurationArgs :
              CreateDutchAuction(a, t, amount, start, end, duration)
        \/ \E n \in DOMAIN auctions : BidDutchAuction(a, n) \/ CancelDutchAuction(a, n)

FractionalRotationNext ==
    /\ FractionalKey!RotationNext
    /\ UNCHANGED <<lastPrice, shares, totalShares, shareOffers, pool, lpShares, auctions>>

FractionalNext ==
    \/ ShareNext
    \/ PoolNext
    \/ AuctionNext
    \/ FractionalRotationNext
    \/ NextBlock /\ UNCHANGED <<fractionalAdminVars, lastPrice, shares, totalShares, shareOffers, pool,
                                lpShares, auctions>>

FractionalSpec == ChainInit /\ FractionalInit /\ [][FractionalNext]_fractionalVars
====
