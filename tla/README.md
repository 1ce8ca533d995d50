# Specification of PropChain's contracts

TLA+ models of the ink! contracts under `src/contracts`, model-checked with TLC,
and theorems about them checked with TLAPS. `PROJECT.json` maps every definition
to the lines it stands for, and lists the runs, mutants, hazards, findings and
theorems.

## The system

PropChain is a workspace of ink! contract crates. A contract is a state and a
set of messages; a message runs to its end without interleaving with another one,
reads the block number and the block's timestamp, and either commits or reverts
everything it did when it returns `Err`. What interleaves are the *messages* of many
accounts over many blocks, and in that sense admins, guardians, signers, validators,
relayers, investors and traders are the concurrent processes of these models.

| component | state it keeps | operations | what makes it correct |
|---|---|---|---|
| bridge | requests with signature bitmaps, routes, transactions, per-leg trackers, batches and Merkle roots, pause flags and their log, freezes, emergency requests, rate limits, trades | initiate, sign, execute, recover, roll back, report, batch, pause, freeze, rotate | a quorum per hop, a history along the route, trackers that agree with requests, limits per day, pauses only the admin lifts |
| governance | signers, threshold, proposals, votes, commitments, counters | create, vote, commit and reveal, execute, cancel, override, add and remove signers | one account one vote, final decisions, timelock, counters that agree with a recount |
| proxy | implementation, staged implementation, delay | stage, confirm, set the delay | no upgrade before its announced delay |
| staking | stakes, reward pool, governance power, parameter proposals, validators, delegations | stake, claim, unstake, delegate, vote, slash, unbond | sums of stakes, power and delegations; one stake one vote |
| lending | collateral, pools, positions, loan applications, servicing, restructuring, liquidation | apply, underwrite, accept, pay, restructure, liquidate | loans in one life cycle, pool accounting |
| crowdfunding, fractional | campaigns, investments, milestones, shares, listings, pools, auctions | invest, release, refund, list, buy, bid, redeem | funds conserved, refunds once, auctions exclusive |
| insurance | pools, policies, claims, reinsurance | underwrite, claim, approve, pay | coverage backed by capital, a claim paid once |
| dex | pools, orders, trades, mining, competitions, fee proposals, timelock | add and remove liquidity, swap, order, match, trade across chains, vote, schedule | the worth of a share never falls, quotes that follow the book, votes within the supply, announced settings |
| prediction market | markets, stakes, reputations, one purse | stake, resolve, claim | every winner can be paid |
| property registry (`lib`) | titles, approvals, escrows, badges and appeals, the pause, linked services and their breakers, roles, the audit trail | register, transfer, batch, escrow, verify, pause, resume | lists that agree with owners, transfers by owners to vetted accounts, no transfer while paused, a resumption by two, a chain of hashes |
| compliance registry | verifications, checks, consents, tax, rules of jurisdictions and tokens, cached screenings, providers | verify, check, ask for, screen | an account is compliant only by checks it has passed since it was verified |
| identity | identities, reputation, guardians' recoveries, portings, deletions, KYC requests and tiers | create, verify, recover, port, revoke, delete | an identity leaves its account only by its owner, its guardians or a deletion that has cooled down |
| oracle | sources and weights, prices, trends and history, requests, fallbacks, proposals of signers and of voters, punishments | update, aggregate, request, approve, vote, slash | prices within those of the sources, sources that change by right, punishment for silence only |
| property management | leases and rent, maintenance, screenings, expenses, inspections, disputes, proposals | lease, pay, resolve, stake, vote | money of each purpose covered |
| fees | rates, collected fees, validators' rewards, auctions of premium listings | set, record, distribute, bid, settle | fees within their limits, escrowed bids covered, auctions settled in the end |
| sanctions, gdpr | lists, screenings; consents, retention, access requests | list, screen; grant, withdraw, fulfil | screenings that match the lists, one valid consent of a purpose |
| records | documents and pins (ipfs-metadata), versions of metadata (metadata), services and requests (third-party), deployments (version-registry), syncs and exports (database), counters and alerts (monitoring), metrics, portfolios and the staking dashboard (analytics) | register, update, finalize, pin, notarize, confirm, report | indexes that agree with records, what is final stays, rewards covered |
| factory, multicall, common, traits, mock-oracle, hello-world | see *Not modelled* | | |

How they interact: users call the proxy, which forwards to the implementation it
names; the governance contract is to decide upgrades and parameters, but makes no
cross-contract call, so that its decisions are carried out by accounts; lending and
insurance read valuations that their callers pass on; the registry asks the compliance
registry before a title moves, behind a circuit breaker, and reports transfers to the
identity registry; the bridge keeps its own records of what is locked. All of them read the
same block clock (`BlockClock`) and most share the two-step admin rotation.

What is hard here: one message after another in orders nobody tested (a vote after an
execution, a signer removed in the middle of a vote, a retry after a rollback), records
of one thing in two places, windows measured in blocks, milliseconds and days whose
boundaries race with messages, limits and bounded logs, rounding, and steps that may be
taken by several parties. There is no crash and no lost message inside a contract: a failed
message reverts. What a call to another contract answers, or that it answers nothing, is a
choice (the compliance registry of a title's new owner, the sources of the oracle).

## Modules

| module | stands for |
|---|---|
| `BlockClock` | the block number all contracts read |
| `U32` | the unsigned 32-bit numbers of the contracts, and the conversion to them |
| `AdminRotation` | the two-step rotation of the admin that several contracts repeat, instantiated by them |
| `BridgeControl` | enumerations of `traits/src/bridge.rs` and the pure functions of the bridge (the pause flag of an operation and of a reason, the legal transitions of a leg, the aggregate status); rights, guardians, admin rotation, pause flags and their log, heuristics' settings, freezes, the emergency multi-signature |
| `BridgeTracking` | per-leg trackers, the index by hash, batches and Merkle roots |
| `Bridge` | validators and bit positions, requests, signing, execution, recovery, rollback, limits, travel rule, trades; composes the two modules above, `Spec` |
| `Governance` | `contracts/governance`: signers, proposals, public and committed votes, timelock, overrides, rotation |
| `Proxy` | `contracts/proxy`: two-step upgrades |
| `Staking` | `contracts/staking`: stakes, vesting, the reward pool, parameter proposals, validators and delegations |
| `Lending` | `contracts/lending`: collateral, applications, underwriting, servicing, restructuring, liquidation, marketplace, pools and votes |
| `Crowdfunding` | `contracts/crowdfunding`: campaigns, investments, refunds, milestones, ballots, a market of shares |
| `Fractional` | `contracts/fractional`: shares and listings, redemption, the liquidity pool, Dutch auctions |
| `Insurance` | `contracts/insurance`: pools, premiums, policies, claims and triggers, payouts under the circuit breaker, reinsurance, parametric policies, a market of policies |
| `Dex` | `contracts/dex`: the arithmetic of swaps, deposits, withdrawals and reward indexes; pools, orders with the fills a swap sets off, cross-chain trades, mining, competitions, fee proposals, the admin's timelock |
| `PredictionMarket` | `contracts/prediction-market`: markets of the admin and of the oracle |
| `ComplianceRegistry` | `contracts/compliance_registry` |
| `IdentityRegistry` | `contracts/identity` |
| `TwoPersonResume` | what the registry's pause promises: the abstract specification `PropertyRegistry` implements |
| `PropertyRegistry` | `contracts/lib`: the roles of `traits/src/access_control.rs`, titles, escrows, badges, pause, linked services; composes the two registries above |
| `Oracle` | `contracts/oracle`: outliers, weighted aggregation, volatility, confidence, averages over a history; sources, answers, valuations, requests, the three ways to change sources, punishment |
| `PropertyManagement` | `contracts/property-management` |
| `Fees` | `contracts/fees`: strategies, rates, distribution, auctions |
| `Sanctions`, `Gdpr`, `DatabaseSync` | the crates of those names |
| `Monitoring` | `contracts/monitoring` and, in a section of its own, `contracts/version-registry` |
| `AuditTrail` | `contracts/lib/src/audit.rs`: a chain of hashes and two paged indexes |
| `Metadata` | `contracts/metadata` and, in a section of its own, `contracts/ipfs-metadata` |
| `ThirdParty` | `contracts/third-party` |
| `Analytics` | `contracts/analytics` with its staking dashboard |
| `MCBridge`, `MCGovernance`, `MCStaking`, `MCFinance`, `MCMarket`, `MCRegistry`, `MCServices`, `MCRecords` | TLC's instances: values of constants, aspects, ledgers, properties that need a ledger |
| `BridgeProofs`, `StakingProofs`, `RegistryProofs`, `RecordProofs`, `FinanceProofs` | theorems about the components of those names |
| `MarketProofs` | theorems about the exchange, the prediction market, the governance contract and the proxy |
| `ServiceProofs` | theorems about the oracle, property management and the fee manager |
| `Sums` | lemmas: induction over finite sets and over numbers, and what it gives for sums |

State variables keep the names of the storage fields where one variable is one field;
comments name the field otherwise. A `Mapping` is a function or a set of pairs, a
record indexed by a counter is a sequence (the counter is its length), an `Option` is
the empty set or a singleton. One action is one message: its conjuncts are the `ensure`s
and early returns that must pass, its primed variables everything the message and the
helpers it calls store. A message that returns `Err` is reverted by the environment, so
that only its `Ok` paths are actions; where the code writes before it returns `Err`
(the burst heuristic of the bridge, the breakers of insurance and oracle, the expired
rotation) the model says so and changes nothing. Text, hashes and metadata are model
values or left out; gas estimates, events and getters are left out, unless a property is
about a getter (`HealthCheck`, `VersionHistory`, `IsKycVerified`, `RebalancingSuggestions`).

The bridge corresponds to its code like this. `requests[n]` is `bridge_requests[n]`
with its signature and rejection bitmaps as sets of bit positions; `tracker[n]` is the
`cross_chain_tx_status` entry; `slots` and `bitPos` are `validator_by_bit` and
`validator_bit_positions`; `history` is the log of executed hops. `SignBridgeRequest`
includes the failed-signature heuristic and the pause it may apply, `ExecuteBridge` the
limits, the history, the tracker, the hash index and the batch. In `Governance`,
`Vote` and `RevealVote` share `Counted`, which stores the vote and decides the
proposal, as `vote` and the reveal do by repeated code. In `Staking`, `Accrued` is
`update_validator_rewards`, which every message about a validator calls first. In
`Lending`, `Snapshot` is `update_interest_snapshot` where its effect is kept; where the
code writes the loan it read earlier over the snapshot, the action leaves it out and
says so. A liquidation takes the prices from its caller, as the code does, and the
model lets the caller say anything about any subset of the collateral. In `Insurance`,
`ExecutePayout` is `execute_payout`, which deciding a claim and firing a trigger share; its
disjunct of nothing to pay leaves the claim Approved. A tripped circuit breaker is
reverted with the payout it refuses, so that there is no state in which it is active.
`ParametricPayout` is folded over the policies that are due, as the loop of
`submit_oracle_data` does, each on what the ones before it left.

In `Dex`, a *market* is a record of everything a swap changes, and `Swapped` maps a market
to the next one, as `swap` does: it ends with `LimitOrdersFilled`, whose fills
are swaps again. `Filled` puts back the order as it was read before the swap, which is what
`execute_order_core` does. An action computes the market and stores it (`SetMarket`). The
gas of a message (`MaxSwaps`) is part of the market; without any left the message is
reverted, and the action is not enabled. `orders[n].traded` is kept by the model only, and
no guard reads it. The parts of the admin's settings are one record for setting at once,
scheduling and executing, as `AdminActionPayload` is. In `PredictionMarket` both kinds of
markets are one sequence with a flag, for their messages repeat each other.

`PropertyRegistry` EXTENDS the compliance and the identity registry: a transfer reads
what `IsCompliant` says of the new owner in the same step, or no answer at all, which counts
against the breaker of the linked service; it adds the transaction to the identity
registry's reputation where that one is linked and still authorizes the registry. `pause` is
the record `PauseInfo`. `release_escrow` is no action: it transfers the title as the
contract itself, which owns none, and fails for every escrow. In `Oracle`, an update takes
the answer of each active source as an argument, or none, tries the fallback sources in the
order of their priority, and then does everything `update_valuation_from_sources` does:
the reputations, the missed answers, the automatic punishment, trend, history, the next
valuation. In `AuditTrail` a hash is the pair of contents and previous hash itself, which is
what collision resistance amounts to. In `Fees` the escrow of the contract is the sum of
what was paid in and out, so that a bid that is pushed back is in the same step as the
one that replaces it.

## Runs and bounds

`tlc -workers 2 -config <cfg> <module>` runs each of them, in some seconds up to three minutes.

The messages of a contract are many, and most pairs of them touch disjoint parts of the
state. The MC modules therefore choose a *focus* in the initial state: a behaviour takes
only the messages of one aspect, and the aspects group those whose interleavings matter
together. Every step of a focus is a step of the module's own `Next`, with its guards;
the invariants are those of the component.

| run | module | shows |
|---|---|---|
| `bridge` | `MCBridge` | eleven aspects: one multi-hop request with votes, retries and rollbacks; relayers' reports; batches; validators that come and go; surges of rejections; pauses; the emergency multi-signature; rotation and rights; limits; travel rule; trades |
| `bridge_rollback` | `MCBridge` | counterexample: a late vote revives a completed request, which is then rolled back |
| `governance` | `MCGovernance` | public votes with time, counters of two proposals, commitments and reveals, signers that change under a vote, rotation, staged upgrades |
| `staking` | `MCStaking` | stakes with compounding and delegated power, vesting, parameter proposals, the life of a validator, two validators with slashes and unbonding |
| `finance` | `MCFinance` | lending: a loan restructured and underwritten again, credit entries, pledges and liquidation, listings and offers, servicers and schedules, pools, votes, rotation; campaigns: funding with failures and refunds, milestones, ballots, shares; fractional shares: listings, the liquidity pool, auctions, rotation; insurance: underwriting, claims, triggers, treaties, sales of policies, parametric policies, payout limits, roles |
| `market` | `MCMarket` | exchange: liquidity with uneven rounding, rewards under campaigns that change, limit orders that swaps set off, a book that is matched and cancelled, triggers, cross-chain trades, a competition its admin changes, fee proposals voted on while balances grow, announced settings; prediction markets of both kinds with one purse |
| `dex_overfilled` | `MCMarket` | counterexample: a limit order is swapped for twice, by its fill and by the swap of that fill |
| `registry` | `MCRegistry` | titles with approvals, batches that name an id twice, escrows, badges and appeals, linked services with breakers, titles that move only to vetted accounts; verifications and checks in every order, taxes, tokens, batches; reputation, recovery, deletion, KYC |
| `resume` | `MCRegistry` | pauses with and without a deadline, roles and guardians granted and taken away meanwhile: the detailed pause implements `TwoPersonResume`, and a timed pause ends |
| `oracle` | `MCServices` | the arithmetic on every short sequence of prices and weights; updates with fallbacks, punishment, the three ways to change sources, settings, history, spaced requests |
| `services` | `MCServices` | leases and money of property management, upkeep, disputes, proposals; fee rates, distribution, auctions, each settled in the end |
| `records` | `MCRecords` | eighteen aspects of the contracts that keep records, from sanctions to the staking dashboard |

What the properties say:

| property | what could go wrong without it |
|---|---|
| `TrackerFollowsRequest`, `OverallStatusDerived`, `HistoryFollowsRoute`, `LockedHasQuorum`, `BitmapSound`, `BridgeBooksAgree` | two records of one request drift apart, a hop is executed twice or with signatures of another hop, a bit changes its owner, a window counts a request of another day |
| `AuditTailMatchesFlags`, `OnlyAdminLifts`, `AdminRotatesByConsent`, `FreezeTakesAQuorum` | the bounded log no longer explains the flags, a guardian lifts a pause, a rotation outside its window, a token frozen by too few |
| `GovernanceBooksAgree`, `ApprovalBacked`, `VotesAndDecisionsAreFinal`, `ChangesAreAnnounced` | tallies and counters that a recount refutes, an approval or an execution without its votes or a timelock that begins with it, a vote revealed other than it was committed, an upgrade sooner than announced |
| `StakingBooksAgree`, `DelegationsTracked`, `RewardsWereFunded` | sums and governance power that lose a stake, unbonding delegations slashed out of the wrong sum, rewards nobody funded |
| `LoansAreOriginatedAndChargedOnce`, `TermsByConsent`, `ShareBooksAgree`, `LiquidityNotDiluted`, `PolicyBooksAgree` | interest charged twice for one block, an offer accepted twice, terms one party never saw, shares out of nothing, a policy in two lists |
| `MarketBooksAgree`, `ShareValueNeverFalls`, `TimelockHonoured`, `PurseCoversClaims` | quotes that do not follow the book, rounding in favour of the caller, a setting before its time, the last winner unpaid |
| `RegistriesSound`, `StandingIsEarned`, `TitlesMoveByRight`, `IdentitiesMoveByRight` | a title in no list or in two, compliance that outlives the check it rests on, a title that moves to an account the registry refused or under a pause, an identity moved by old approvals |
| `ResumeTakesTwo`, `TimedPausesEnd` | work resumed by one person, or by approvals of an earlier pause; a deadline that is left behind |
| `OracleSound`, `SourcesChangeByRight`, `OracleActsWhenDue` | aggregates outside the prices they are made of, a valuation that is not the last of its history, sources changed by too few, a source punished without cause, requests numbered twice |
| `ServiceBooksAgree`, `BidsAreSettled` | rents, deposits, float and stakes paid out of each other's money, fees out of the limits of a sound configuration, a bid in escrow for ever |
| `RecordBooksAgree`, `RecordsAreFinal`, `DashboardSolvent` | indexes that disagree with the records, a chain that does not verify, final metadata rewritten, an answer given twice, more rewards earned than distributed |

Every property has a mutant in `PROJECT.json`: a plausible mistake in one definition
with which the property no longer holds.

Bounds, and why they are enough:

- *Accounts* are three (`R` in `MCRegistry` is the registry itself). They play admin,
  operator, guardian, validator, signer, staker and voter; two of a kind are needed for a
  quorum, a third one to remain outside. Where one message is about one account only
  (`MCRecords`), they are two. Symmetry is not used, since each account starts with other
  rights.
- *Blocks* (`MaxBlock`) are three or four: the windows of the code (cooldown, expiry,
  timelock, unbonding, timeouts) are one or two blocks, so that every deadline is met
  exactly, one block early and one block late. `BlockTime`, `DayMs` and `HourMs` make a
  day and an hour two blocks long, so that a limit is filled, kept and reset.
- *Requests, transactions, trades, emergency requests, proposals* (`MaxRequests`,
  `MaxTransactions`, `MaxTrades`, `MaxEmergency`, `MaxProposals`, `MaxParamProposals`)
  are one to three: the interactions are of a request with its tracker, its batch and a
  second request of the same window. The routes have up to three hops, one of them
  visits the source chain, one repeats a chain.
- *Limited structures* keep their limit and get a small one: the audit log holds two
  entries (`AuditLogLimit`), the bitmap two or three positions (`BitmapSlots`, 256 in
  the code), one proposal may be active (`MaxActive`, `MaxActiveProposals`), rings of
  snapshots and histories hold two (`RingSize`, `HistoryLimit`, `SnapshotLimit`). Each
  limit is reached.
- *Amounts, rates and scales* of staking are small numbers with which rounding, a
  penalty, a boost and a tier all occur; `MaxPool` and `MaxFunded` stop the funding.
  No sum comes near 2^128, so the saturating additions of the code are plain; the
  saturating subtractions are modelled (`Saturating`, `Down`, `LessOrNone`).
- *32-bit numbers* have their width where the code cuts a larger number down to it
  (`AsU32`): the percentage between two valuations, the fee rate
  under congestion, the number of installments of a loan. The weights of one aggregation are
  added up in that width and panic when they do not fit. `WordSize`, 2^32 in the code, is 1024
  for the oracle and the services and 4 for the loans: small enough that a price ten times the last
  one (`ValueArgs`), the greatest weight governance may store (`WeightArgs`), a multiplier without
  bound and a loan of many installments are too large, large enough that the code's own
  constants fit.
- *Loans, listings, offers, pools, servicers, schedules, proposals* (`MaxLoans`,
  `MaxOffers`, `MaxPools`) are two, credit entries of a kind (`MaxRecords`) two, deposits
  (`MaxDeposits`) twenty: one loan with its terms, one next to it, two offers of one
  listing. A year is so short (`InterestScale`, `ScheduleScale`) that one block earns less
  than a unit of interest and two earn more, so that rounding occurs. The credit
  constants are the code's, except for the bonus of a repayment (110 instead of 20),
  with which one repayment decides an approval.
- *Campaigns, milestones, ballots, share listings, auctions* (`MaxCampaigns`,
  `MaxMilestones`, `MaxAuctions`) are two, what a campaign raises (`MaxRaised`) three
  investments, shares and pools (`MaxShares`) eight: amounts that hit and pass a target, a
  pool that is emptied and filled again, swaps whose result rounds to nothing. Sales
  of shares no longer held make more of them, so that the step of the MC module bounds the
  shares held (`HeldAtMost`).
- *Insurance pools, policies, claims, triggers, treaties, cessions* (`MaxRiskPools`,
  `MaxPolicies`, `MaxClaims`, `MaxTriggers`, `MaxCessions`) are two each, a pool's capital
  (`MaxCapital`) two or three payouts: claims that wait together, a policy paid in parts, a
  pool that cannot pay a second parametric policy. Readings are four bits wide
  (`ReadingSpan`), so that one of them is negative when it is read as signed. Premiums
  use the code's multipliers with smaller base rates and divisor (`PremiumScale`).
- *Exchange*: one pair, two orders, up to five swaps within a message (`MaxSwaps`), reserves
  up to `MaxReserve` (uneven, so that shares, withdrawals and swaps round), two competitions,
  fee proposals and announced actions at most. `Bips` is 20 instead of 10000 and a fee is one
  of them, `RewardPrecision` 6, so that an index rounds; the prices of orders are below and
  above the pool's. Delays are up to two blocks, so that a delay is changed while an action
  waits. *Prediction markets* are two with stakes of one and two (`MaxPurse` five), a fee
  of ten percent, and either side may have no stake.
- *Registries*: two titles, escrows and reviews (`MaxProperties`, `MaxEscrows`,
  `MaxReviews`), three requests, two jurisdictions with different rules, two tokens. A
  verification lasts two blocks (`Validity`), a cached screening one, a breaker is open for
  one or two and a deletion cools down for two, so that each is met in time and late. The
  dollar limits of KYC tiers are ten times the tier.
- *Oracle*: three sources, two properties, answers that agree and differ by a tenth; a
  history and a ring of snapshots of two, batches of up to three ids with one failure
  allowed. The arithmetic is checked on all sequences of up to four prices between 1 and
  100 (`SampleLength`, `PriceArgs`).
- *Services*: two leases, requests, disputes and proposals (`MaxCases`), two auctions of
  one or two blocks with bids of one and two, fees between and at their limits; the
  first fees once in order and, where fees matter, once with a least fee above the greatest.
- *Records*: two or three of everything (`MaxRecords`, `MaxSyncs`, `MaxDocuments`,
  `MaxEdits`, `MaxPartyRequests`); documents whose sizes hit and pass the file limit and the
  quota, two valid content ids and one too short; signed changes of trends, so that the
  division rounds towards zero; rewards that the stakes do not divide (`DashboardPrecision`
  4), a lock of one block.
- The ledgers of the MC modules (`consents`, `warrants`, `owed`, `applied`, `paidOut`, the reward pool's, `passed`,
  `vouched`, `askedAt`, `cause`, `silence`) only record what messages did. No guard reads
  them.

Deadlock is not checked: at the last block, and once a bounded counter is full,
a behaviour ends.

### Fairness

Most progress depends on an account that chooses to call, and nothing in the code
forces or schedules a call; assuming fairness of such messages would be an invention. Two
progress properties are stated where the code justifies it:

- `TimedPausesEnd` (`resume`): weak fairness of block production and of
  `try_auto_resume`, a message that is open to every account without any right, so that it
  is enough that somebody wants the registry to run again. What the property shows is that
  no pause, stop or resumption request in between can leave a pause with a deadline that
  never comes to be acted upon.
- `BidsAreSettled` (`services`): weak fairness of block production and of settling each
  auction that can be settled. `settle_auction` too is open to everybody, and the seller
  is paid by it.

Blocks are produced by the chain independently of the contracts. So that `MaxBlock` does
not enter these properties, no deadline of a run is after its last block.

### Refinement

`TwoPersonResume` states what a pause promises without roles, guardians, records or
messages: work resumes when enough different people, each entitled when it consented, have
consented since the pause in force began, or when its announced time has come.
`ResumeTakesTwo` is the abstract specification under the mapping `Promise` at the end of
`PropertyRegistry`: *entitled* are the admin, the pause guardians and those with the
guardian's role at that moment, *consents* the approvals of the request to resume, *deadline* the
automatic resumption of the pause in force. TLC checks that every step of the registry is a
step or a stutter of it.

### What the code was found to do

Two statements of comments are contradicted by what the code does, each shown by a run: a
completed bridge request can be rolled back after a late vote (`CompletedNeverRolledBack`),
and more is swapped for an order than its "remaining size" (`OrdersFillWithinAmount`).

`PROJECT.json` lists the other disagreements met while modelling, each with its line and
the text it disagrees with. The recurring kinds are:

- *A record written before an error.* The message returns `Err`, and the record is reverted
  with it: the burst heuristic of the bridge, the breakers of insurance and of oracle
  valuations, rejected parameter proposals, failed verifications.
- *A status that is not asked for*: a liquidated loan is underwritten again, a released
  milestone released again, a cancelled order matched, legal documents verified after
  finalization, syncs confirmed by an indexer that was deactivated.
- *Two books of one thing*, of which a message updates one: interest snapshots that
  `update_servicing_status` and `liquidate_loan` lose, shares sold twice, unbonding stake
  slashed out of a sum it has left, maintenance requests counted down twice, what a removed
  document had pinned, the index of metadata by type, a sentiment counted twice.
- *What nothing can reach*: `release_escrow`, `slash_source_with_severity`, orders for
  immediate execution, liquidity added to an emptied pool, the stake of a dispute whose
  respondent never answers, the fees of third-party services.
- *Numbers out of range*: a price forty million times the last one that the cut to 32 bits may let pass, a
  fee rate that falls below its base for the same reason, weights of sources beyond the 100 that the admin is
  held to, first fees whose least is above the greatest (every fee panics then), a valuation
  of 0 that the registry takes from the oracle.
- *Units and factors* other than documented: windows in milliseconds documented in seconds or
  hours, a deductible's adjustment of 7% documented as 20%.

The properties of the passing runs are stated as weak as the code makes them:
`DelegationsTracked` has `<=` where the slash breaks `=`, `OverallStatusDerived` names the
one status a late rollback leaves behind, and `HistoryFollowsRoute` is about executions and
not about the final status, the books of campaigns and shares have inequalities where the
code counts twice, policies that are active are counted between those that can be paid and those
never cancelled, since a cancelled policy may still be claimed on, what is pinned is at most
what is charged once a document was removed, and of finalized metadata the verification of
documents may change.

## Proofs

The theorems hold for every value of the constants: any number of accounts, validators,
signers, stakers, chains, routes, hops, amounts, rates and blocks. What is assumed of
the constants are the named `ASSUME`s of the modules (constants have their types, a log has
room for an entry, a block takes some time), which TLC evaluates on every run. They are
about the specifications with every message of a component (`Spec`, `StakingSpec`,
`RegistrySpec`, ...) and not about the aspects the MC modules choose; where a property needs a
ledger, the MC module also has the specification with every message and its entry in
the ledger (`LedgerSpec`), without foci and bounds.

`Sums` is what the proofs about running totals rest on. The library's induction theorems take
an operator, which the provers cannot instantiate, so `SetInduct` and `NatInduct` state
induction for a *set* of subsets, or of numbers: what is to be shown of a subset is that it is
an element of a given set. From them follow the equation of `SumFunctionOnSet` and what the
proofs cite: how a sum changes when one summand does (`SumChange`), when one is added or
taken away, when summands are zero (`SumZero`), when two sums are exchanged (`SumSwap`), and that
sums are monotone and linear. The models write their totals as `SumFunctionOnSet([x \in S |-> ...], S)`
for that reason.

### Bridge

- `ControlTypeCorrect`, `AuditTailCorrect`: `ControlInv` is the types of the control part
  and `AuditTailMatchesFlags`. It is inductive because every change of the flags goes
  through `ApplyPause` and `ApplyUnpause`, which push the entry that shows them
  (lemmas `ApplyPauseLog`, `ApplyUnpauseLog`) and drop the oldest one when the log is
  full. One lemma per group of messages, and `ControlFrame` for the groups that leave
  the control part alone; signing is the exception, for it can pause.
- `OnlyAdminLiftsPauses`, `RotationNeedsConsent`, `FreezingTakesAQuorum`: action properties, from
  the same invariant: each step that clears a flag, changes the admin, or freezes a token, is one of
  few messages; the emergency request that freezes has its signatures and is executed once.
  Pauses by the emergency signers are not part of the last one.
- `BitmapsStaySound`, `TrackersFollowRequests`, `OverallStatusIsDerived`: `RequestInv`
  adds `SlotsGood` (bit positions and their inverse agree) and `PairsGood` (every request
  and its tracker agree on hop, route, legs and status, and its bits are below the
  number of slots) to `ControlInv`. None of the three is inductive alone: a retry
  is sound because the tracker's hop is the request's, which an execution preserves
  because the route has not been changed; a bit belongs to an account because slots
  are never taken away.
- `LockedRequestsAreSigned`: a Locked request has at least as many bits as it requires. It is
  inductive on top of `RequestInv`, since only a signature that completes the count makes a request
  Locked and only a status other than Locked clears bits.
- `HistoriesFollowRoutes`: `HistoryInv` says that what was recorded of a request are the legs of
  its route up to its hop; a retry and a late vote must be shown to start where the history ends.
- `BridgeBooks`: `BatchInv` (each window's batch holds what was executed in it, and the index of
  hashes names the batch) and `DailyInv` (counters are what was counted on their day, and the rules
  known cover the day). *Batches* are stated as weakly as the code makes them: a Completed
  request that is voted Locked again and executed again in one block, after the window was
  made shorter, puts one hash in two batches. *Daily limits* are stated for the largest limit the
  admin ever configured, because a limit may be lowered below what was already moved that day.

### Governance and the proxy (in `MarketProofs`)

- `GovernanceBooks`: `BooksInv` adds to the property that finitely many accounts have voted. The five
  counters equal a recount because each message moves one proposal from one status to another
  (`CountersFollow`), and a tally is the cardinality of the votes recorded, which a vote extends by one.
- `ApprovalsAreBacked` is about `LedgerSpec` of `MCGovernance`, every message with its entry in the ledger of
  *warrants*: the approvals as they are reached, each with its block, and the admin's overrides in place of
  those they take back. `WarrantsInv` is that what is Approved or Executed has a warrant with the
  supporters it asked for, and the timelock counted from the warrant's block. Each step leaves a proposal as it was, or brings
  it no nearer, approves it with the timelock that begins in that block, or executes it after the timelock
  (`Advanced`): the timelock is thus counted from the approval, and a proposal that was given one at its
  creation only would refute it. With an empty list of signers a proposal needs nobody; it is Active until some
  vote, even one against it, approves it, and the theorem is about that case as well.
- `DecisionsStand`: decided proposals stay decided, and a revealed vote is the one committed to.
- `NothingUnannounced` is about `Spec /\ ProxySpec`, the two contracts side by side: each change of
  the implementation, and of governance's admin, was announced and has waited.

### Staking

`StakingInv` has four parts, by what changes together, and the clock. `StakesInv`: the list of stakers
names each staker once, the total is the sum of the stakes, the power of an account the sum of the
stakes that name it. `ConfigInv`: rates and durations keep their ranges, so that rewards are
natural numbers (integer square roots of the boost curve included: `RootExists`). `BallotInv`: the
number of active proposals is a recount. `DelegationsInv`: what a validator counts as delegated is at most
what is delegated to it and not unbonding, and so the sum over validators.

- `StakingBooks` and `DelegatedStakeIsTracked` follow from `StakingInv`. Passing power on moves a
  stake from one account's sum to another's (`DelegateKeepsStakes`); a slash scales every delegation down
  and the tracked sum as well, and rounding goes in the direction that `<=` allows (`BondedSlashed`).
- `RewardsAreFunded` is about `LedgerSpec` in `MCStaking`. `LedgerInv` is that what was paid, what is
  left and what is promised to vesting stakes never exceeds what was put in. Claims of vested rewards lower
  the pool and the promise at once, which is why the inequality is not an equation.

### Market

- `PurseAlwaysCovers`: the three messages that move money keep `PurseInv`: the totals of each market
  are what is staked on its two sides, and the purse holds what all markets owe. A market
  owes both totals until it is resolved, and then what its winners who have not claimed will be
  paid (`Owing`). The step is the resolution: winners share the losing side in proportion
  to stakes that add up to the winning side, and each part is rounded down, so that no more is owed
  after it than before. A side that wins without stakes owes nothing; what was staked
  against it stays in the purse for good.
- `TimelockAlwaysHonoured`: every message but the admin's leaves routes, campaign, delay and announced
  actions alone (`TradingKeepsSettings`, `VotingKeepsSettings`), so that no invariant is needed.

- `MarketBooksAlwaysAgree` and `SharesNeverLoseValue` are about `DexSpec`: every message and argument, and swaps nested to any
  depth. A swap fills the orders it makes executable, each fill is a swap one level deeper, and in between the
  market is not as the books want it: the order being filled is still stored as it was. So the induction is about a
  relation between the market before and after: `Follows(m, after)` says that what was good (`MarketGood`) is good
  afterwards, with as many orders and pairs, shares as they were, votes no fewer, and no less in a pool for its shares. `SwappedFollows` is an
  induction over the depth of the recursive function `AfterSwap`, and within it `FillAllFollows` one over the orders
  of the pool; `NatInduct` serves both, since what is to be shown of a number is membership in a set. `DexInv` is
  the invariant over messages: the books, positions that sum up to the shares of their pool, nobody's reward debt above
  what the index has brought (`SharesAgree`), the votes cast on a proposal bounded by the sum of the *present*
  balances of those who voted (`BallotsGood`), which is inductive because balances only grow. The worth of a share is a fact about products and rounded quotients, one lemma for each of a swap
  (`CurveOut`), a deposit (`InProportion`) and a withdrawal (`TakenInProportion`).

### Oracle and services

Both are about specifications in `MCServices` with every message and every argument, without foci.

- `SourcesAlwaysChangeByRight` is about `SourceLedgerSpec`. `SourcesInv` says that the approvals of a proposal name each
  account once, which is what "as many different accounts as the threshold asks for" needs: the list is
  counted, and only the check before it (`MayApprove`) keeps an account from being on it twice.
- `ServiceBooksAlwaysAgree` is about `ServicesSpec`. `ManagementInv` and `FeesInv` state each figure as a number or a weight over
  a list of records (`Places`, `WeightIn`), so that two lemmas serve all of them: what changes when one record is written
  (`RecordWritten`) and when one is added (`RecordAppended`). Two strengthenings are needed: nothing of the other side is in
  escrow while a dispute awaits it (`CleanDispute`), or its stake would be counted twice; and the expenses of a property are
  all that were recorded, paid or not. What validators get together is at most the treasury, since both divisions
  round down (`PartsWithinTreasury`); fees grow with congestion because quotients grow with what is divided
  (`EffectiveRate`), and a rate is below its base only when the effective rate does not fit into 32 bits. The first
  fees are any numbers, also a least one above the greatest: no such configuration charges a fee, since
  `clamp` panics.

### Registry

- `ResumptionTakesTwo`: the registry implements `TwoPersonResume`, step by step. The invariant is that
  approvals without an open request exist only when the registry is not paused, so that a pause
  begins with none.
- The three others are about `RegistriesSpec` in `MCRegistry`: the property registry and the two it
  asks, every message of the three with its entry in the ledgers, without foci and bounds.
- `StandingIsAlwaysEarned`: `ComplianceInv` says of every account's data that, while it is Verified,
  each check it shows as passed has been passed since the verification (`Backed`); it is inductive because new
  data shows none, and because a check that fails takes the status away, also in a batch that goes through
  one account twice (`AmlBatchIs`, `SanctionsBatchIs`: what the loop over a list of two computes). `KycInv` is its
  counterpart in the identity registry: what a provider counts is at most the number of requests it approved.
- `TitlesAreMovedByRight`: of each message that writes a title, either owners stay (`OwnersStay`; the
  metadata batch writes valuations only, `MetadataKeepsOwners`), or it is a batch transfer, or the new owner was asked
  about (`OwnerVetted`), and being compliant is having earned it.
- `IdentitiesAreMovedByRight`: `PeopleInv` says that the approvals of an identity are of guardians who have
  vouched since its recovery began, also after it was moved, and `DeletionInv` that a deletion is
  due a cooldown after the last request. Writing an identity's score or level moves nobody, the report of a
  transfer to both sides included (`ReportKeeps`).

### Records

- `AuditChainIntact`, `AuditIndexesComplete`: `TrailInv` says that the records are a
  sequence, that each one carries the hash of its contents and of its predecessor, and
  that both indexes list exactly the positions of their key, in order (`IsIndex`). It is
  inductive because `log_event` appends to the chain and to one page of each index in one step:
  `ChainExtended` shows that appending keeps the chain, `IndexGrows` that appending the
  new position to the page of its key, and to no other, keeps an index.
- `HeadFixesTrail` is what `verify_integrity` is good for. Take any records, as many as were logged: if they
  verify from the first to the last, and the last one's hash is `latest_hash`, they are the records that were
  logged. The second condition is needed, and the code does not check it: somebody who replaces a record and
  computes its hash and those of all later ones anew has records that verify, and only their last hash tells.
  The proof goes from the last record to the first: equal hashes have equal contents and
  equal predecessors. That the logged records themselves satisfy the hypotheses is `AuditChainIntact`.
- `DashboardIsSolvent`: every stake's credit, the index at which it joined included, sums up to at most
  what was distributed (`DashboardInv`). The sums of earnings alone are not inductive: a new
  stake would share in what was distributed before it.
- `RecordsStayFinal`: about `MetadataSpec /\ ThirdPartySpec /\ IpfsSpec`, since the three contracts
  do not interact; each has its own small invariant (versions and their numbers, status of requests).

### Finance

`FractionalSpec`, `ShareLedgerSpec` and `LendingLedgerSpec` have every message of their contracts, the two
latter with its entry in the ledgers.

- `LiquidityIsNotDiluted`: worth is compared by products (`q.shares * q.value * p.lp * p.lp >= ...`), so that
  each of the three kinds of step is a fact about numbers: adding mints at most in proportion
  (`AddingDilutesNobody`), removing pays at most in proportion (`RemovingDilutesNobody`), and a swap rounds in
  favour of the pool (`SwappingDilutesNobody`), for every fee. The first liquidity is `isqrt` of a product:
  `IsqrtIsRoot` shows of the code's iteration, for every number, that it ends and that it ends with the integer
  root: each guess is smaller than the one before, and none falls below the root.
- `ShareBooksAlwaysAgree`: `FractionalInv` and `CampaignInv`. *Shares*: a sale of shares that the seller no
  longer has takes nothing from the seller and still gives them to the buyer, so that accounts and pool hold at least
  the total and not exactly it (`SaleKeeps`); an auction's price lies between its first and its last one in
  every block (`DutchPriceBounds`), so that who bids has paid for all shares. *Campaigns*: releases are at least a
  recount, and a refund is told once because it is recorded (`RefundsInv`). *Types*: `OffersInv` and `BackingInv`
  are those of the rest of the state; an offer that is bought in part keeps a share.
- `LoanTermsChangeByConsent`: the invariant (`TermsInv`) is that who is recorded to have approved a
  restructuring has agreed to the very terms it holds, since a new proposal replaces them and keeps
  no approval but the proposer's own.
- `LoansAlwaysOriginatedAndChargedOnce`: `DebtsInv` says of each loan that has a snapshot what it was
  charged, up to the rounding of each snapshot kept (`SnapshotCharges`), and that a loan in force, or one that somebody
  asks to restructure, has a snapshot: without this the first snapshot would be one that charges
  nothing. `MarketInv` and `LoansCounted` say of each listing which offers of it are accepted and count the
  loans they made. `BankInv` is the types of the rest, with what they depend on: a loan's servicer and schedule
  exist, a pool lends at most its deposits, and the total of the yield is the sum of the stakes.
- `PoliciesAlwaysAgree`: about `InsuranceSpec`. `InsuranceInv` has a part for each kind of record. *Books* (`BooksInv`)
  is stated of any lists, those before a message and those after it: one lemma says what becomes of the books when a
  policy is new, charged or left (`PolicyMoved`), one the same of a parametric policy (`ParametricMoved`), and
  every message is a case of one of them. A pool's count of policies lies between those that are Active and those that are
  Active or Claimed, since a payout may use a policy up without leaving the count. An oracle's reading pays several
  parametric policies one after the other; the books are kept after each of them, paid or refused
  (`PayoutsKeepBooks`, by induction over the recursive function). *Treaties*: amount and record are written together,
  and only of the first treaty that bears the loss. *Triggers*: the claim of a trigger is new when it is filed and is never
  undecided, so that it is no other trigger's. *Holders*: a list without a policy, and with it at its end, has
  it once, also when seller and buyer have one list (`HandedNames`).

### What is only model-checked

Out of the prover's reach are liveness (`TimedPausesEnd`, `BidsAreSettled`), `ENABLED`, and what the library's folds and
filters compute: those of the pages of a list, which `RegistriesSound` is about too, and of the oracle's
aggregation of its reports (`OracleSound`, `OracleActsWhenDue`). Where a recursion was essential, the model has a
recursive function and the proof an induction of its own (`AfterSwap`, `BestPrice`, `Isqrt`, `Dedup`). Within reach and not
done: `RegistriesSound` but for the pause and the lists, and `RecordBooksAgree` but for its conjuncts about the audit
trail.

## Not modelled

- *factory*: the builder is a stub that returns the zero address for every deployment,
  whatever the code hash and the salt. A counter, a list of equal addresses and an admin
  remain.
- *multicall*: forwards calls to other contracts. Its own state is a pause flag and an
  admin; the results are those of its targets.
- *common*, *traits*: shared types and interfaces, modelled where they are used.
- *mock-oracle* is a test double, *hello-world* a deprecated example.
- Source files that are part of no crate or called by no message:
  `crowdfunding/src/line.rs` and `sequence.rs`, `lending`'s files beside `lib.rs`, the
  oracle's `median_cache`, `reputation` and `staking`, property management's
  `collateral_events` and `permit`, monitoring's `quorum_guard`, the dex's concentrated
  liquidity, governance's delegation registry and treasury, the bridge's helpers.
- Of modelled contracts: getters, events and text; signature and proof verification, whose
  result is a choice; native transfers whose results the code ignores; in `PROJECT.json`
  each component's note names what else is left out.
- Widths of integers, where no value comes near them: amounts are `u128`, counters `u64`
  or `u32`, and the release build checks overflow. Where a width matters (the sign of a
  reading, the position of a bit) it is in the model.

## Plan

1. Theorems: the books of the records; the lists of owners in `RegistriesSound`.
2. Further abstract specifications: an *upgrade* that happens only after a delay,
   implemented by `Proxy`; a *ballot* in which an account's one vote is final, implemented
   by public and by committed votes.
