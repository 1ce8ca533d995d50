---- MODULE ComplianceRegistry ----
(***************************************************************************)
(* The compliance registry: verifications of accounts by verifiers under   *)
(* the rules of a jurisdiction, AML, sanctions, consent and tax status,    *)
(* requests with their metrics, cached screenings and the operations       *)
(* tokens allow. One block is one unit of the retention and expiry times.  *)
(* Hashes, names and the audit log, which no message reads, are left out.  *)
(***************************************************************************)
EXTENDS BlockClock, FiniteSetsExt

CONSTANTS
    Clients,            \* the accounts
    ComplianceOwner,
    Jurisdictions,
    DefaultRules,       \* the rules a new registry starts with; Other has none
    DefaultOperations,  \* per jurisdiction, the operations it allows
    Validity,           \* of a verification: one year
    FirstScreeningTtl,
    RulesArgs, ProofArgs, RiskScoreArgs, TtlArgs, TaxArgs, OperationArgs, ComplianceTokens,
    MaxRequests         \* bound on requests

VARIABLES
    verifiers,
    compliance,         \* compliance_data, by account
    rules,              \* jurisdiction_rules
    verificationRequests,
    accountRequest,     \* the request an account made last
    kyc,                \* metrics by jurisdiction, and the total
    taxModules, tax,
    screenings, screeningTtl,
    tokenRules, operations

complianceVars == <<verifiers, compliance, rules, verificationRequests, accountRequest, kyc, taxModules,
                    tax, screenings, screeningTtl, tokenRules, operations>>
requestVars == <<verificationRequests, accountRequest, kyc>>
tokenVars == <<tokenRules, operations>>
screeningVars == <<screenings, screeningTtl>>
taxVars == <<taxModules, tax>>

ComplianceStatuses == {"Verified", "Rejected", "Expired"}
Risks == {"Low", "Medium", "High", "Prohibited"}
Consents == {"NotGiven", "Given", "Withdrawn", "Expired"}
Rules == [level : 0..5, retention : Nat, allRequired : BOOLEAN]
ComplianceData ==
    [status : ComplianceStatuses, jurisdiction : Jurisdictions, risk : Risks, expiry : Nat,
     aml : BOOLEAN, sanctions : BOOLEAN, consent : Consents, retention : Nat]
Metrics == [created : Nat, pending : Nat, converted : Nat, attempts : Nat]
NoMetrics == [created |-> 0, pending |-> 0, converted |-> 0, attempts |-> 0]

ASSUME ComplianceConstants ==
    /\ ComplianceOwner \in Clients
    /\ DOMAIN DefaultRules \subseteq Jurisdictions /\ \A j \in DOMAIN DefaultRules : DefaultRules[j] \in Rules
    /\ DOMAIN DefaultOperations = Jurisdictions
    /\ RulesArgs \subseteq Rules /\ TtlArgs \subseteq Nat
    /\ Validity \in Nat /\ FirstScreeningTtl \in Nat /\ MaxRequests \in Nat

ComplianceTypeOK ==
    /\ ComplianceOwner \in verifiers /\ verifiers \subseteq Clients
    /\ DOMAIN compliance \subseteq Clients /\ \A a \in DOMAIN compliance : compliance[a] \in ComplianceData
    /\ DOMAIN rules \subseteq Jurisdictions /\ \A j \in DOMAIN rules : rules[j] \in Rules
    /\ accountRequest \in [Clients -> 0..Len(verificationRequests)]
    /\ kyc \in [Jurisdictions \cup {"total"} -> Metrics]
    /\ taxModules \subseteq Clients /\ DOMAIN tax \subseteq Clients
    /\ DOMAIN screenings \subseteq Clients /\ screeningTtl \in Nat
    /\ DOMAIN tokenRules \subseteq ComplianceTokens /\ DOMAIN operations = Jurisdictions

Put(f, k, v) == [x \in DOMAIN f \cup {k} |-> IF x = k THEN v ELSE f[x]]

ComplianceInit ==
    /\ verifiers = {ComplianceOwner}
    /\ compliance = << >>
    /\ rules = DefaultRules
    /\ verificationRequests = << >>
    /\ accountRequest = [a \in Clients |-> 0]
    /\ kyc = [j \in Jurisdictions \cup {"total"} |-> NoMetrics]
    /\ taxModules = {} /\ tax = << >>
    /\ screenings = << >> /\ screeningTtl = FirstScreeningTtl
    /\ tokenRules = << >> /\ operations = DefaultOperations

----
\* What the registry answers

\* Only an outstanding amount, a missing report or document, or a clearance that
\* has run out stands against an account; one without a status is clear.
TaxCompliant(a) ==
    a \in DOMAIN tax => tax[a].settled /\ (tax[a].clearance = 0 \/ tax[a].clearance >= block)

IsCompliant(a) ==
    /\ a \in DOMAIN compliance
    /\ LET d == compliance[a] IN
          /\ d.status = "Verified" /\ d.expiry > block
          /\ d.risk # "Prohibited"
          /\ d.aml /\ d.sanctions
          /\ d.consent = "Given" /\ block <= d.retention
    /\ TaxCompliant(a)

\* Operations that need every check, and those that look at the risk.
RecordOperations == {"RegisterProperty", "TransferProperty", "UpdateMetadata", "CreateEscrow", "ReleaseEscrow"}
MarketOperations == {"ListForSale", "Purchase", "BridgeTransfer"}

TransactionCompliant(a, operation) ==
    /\ IsCompliant(a)
    /\ compliance[a].jurisdiction \in DOMAIN rules
    /\ operation \in RecordOperations =>
          (~rules[compliance[a].jurisdiction].allRequired \/ (compliance[a].aml /\ compliance[a].sanctions))
    /\ operation \in MarketOperations =>
          compliance[a].risk # "Prohibited" /\ compliance[a].aml /\ compliance[a].sanctions

OperationAllowed(token, operation) ==
    token \in DOMAIN tokenRules /\ tokenRules[token].active /\ operation \in tokenRules[token].operations

RetentionOver(a) == a \in DOMAIN compliance /\ block > compliance[a].retention

ScreeningOf(d) ==
    IF ~d.sanctions \/ d.risk = "Prohibited" THEN "Blocked" ELSE IF d.risk = "High" THEN "Flagged" ELSE "Cleared"

\* From the document, the biometric method and the risk score, at most 5.
DocumentPoints(document) == IF document \in {"Passport", "CorporateDocument"} THEN 2 ELSE 1
BiometricPoints(method) ==
    CASE method = "None" -> 0 [] method = "IrisScan" -> 2 [] method = "MultiFactor" -> 3 [] OTHER -> 1
VerificationLevel(document, method, score) ==
    LET points == 1 + DocumentPoints(document) + BiometricPoints(method)
        scored == IF score < 20 THEN points + 1 ELSE IF score > 80 THEN points - 2 ELSE points
    IN  IF scored < 5 THEN scored ELSE 5

----
\* The owner's messages

AddVerifier(caller, verifier) ==
    /\ caller = ComplianceOwner
    /\ verifiers' = verifiers \cup {verifier}
    /\ UNCHANGED <<block, compliance, rules, requestVars, taxVars, screeningVars, tokenVars>>

\* Types 0 (KYC) and 3 (all) make the provider a verifier; the record of a provider
\* is read by no message.
RegisterServiceProvider(caller, provider, type) ==
    /\ caller = ComplianceOwner
    /\ verifiers' = IF type \in {0, 3} THEN verifiers \cup {provider} ELSE verifiers
    /\ UNCHANGED <<block, compliance, rules, requestVars, taxVars, screeningVars, tokenVars>>

UpdateJurisdictionRules(caller, jurisdiction, new) ==
    /\ caller = ComplianceOwner
    /\ rules' = Put(rules, jurisdiction, new)
    /\ UNCHANGED <<block, verifiers, compliance, requestVars, taxVars, screeningVars, tokenVars>>

SetTaxModule(caller, module, active) ==
    /\ caller = ComplianceOwner
    /\ taxModules' = IF active THEN taxModules \cup {module} ELSE taxModules \ {module}
    /\ UNCHANGED <<block, verifiers, compliance, rules, requestVars, tax, screeningVars, tokenVars>>

SetScreeningCacheTtl(caller, ttl) ==
    /\ caller = ComplianceOwner
    /\ screeningTtl' = ttl
    /\ UNCHANGED <<block, verifiers, compliance, rules, requestVars, taxVars, screenings, tokenVars>>

\* A token keeps a copy of the operations its jurisdiction allows at that moment.
SetTokenJurisdiction(caller, token, jurisdiction) ==
    /\ caller = ComplianceOwner
    /\ tokenRules' = Put(tokenRules, token,
           [jurisdiction |-> jurisdiction, operations |-> operations[jurisdiction], active |-> TRUE])
    /\ UNCHANGED <<block, verifiers, compliance, rules, requestVars, taxVars, screeningVars, operations>>

SetJurisdictionOperations(caller, jurisdiction, allowed) ==
    /\ caller = ComplianceOwner
    /\ operations' = [operations EXCEPT ![jurisdiction] = allowed]
    /\ UNCHANGED <<block, verifiers, compliance, rules, requestVars, taxVars, screeningVars, tokenRules>>

SetTokenActive(caller, token, active) ==
    /\ caller = ComplianceOwner
    /\ token \in DOMAIN tokenRules
    /\ tokenRules' = [tokenRules EXCEPT ![token].active = active]
    /\ UNCHANGED <<block, verifiers, compliance, rules, requestVars, taxVars, screeningVars, operations>>

DeactivateToken(caller, token) == SetTokenActive(caller, token, FALSE)
ReactivateToken(caller, token) == SetTokenActive(caller, token, TRUE)

----
\* Verification

Created(m) == [m EXCEPT !.created = @ + 1, !.pending = @ + 1]
Attempted(m, converted) ==
    IF converted
    THEN [m EXCEPT !.attempts = @ + 1, !.converted = @ + 1, !.pending = IF @ = 0 THEN 0 ELSE @ - 1]
    ELSE [m EXCEPT !.attempts = @ + 1]

\* The request of an account that a verification under this jurisdiction completes.
PendingRequest(a, jurisdiction) ==
    {r \in {accountRequest[a]} \ {0} :
        verificationRequests[r].status = "Pending" /\ verificationRequests[r].jurisdiction = jurisdiction}

CreateVerificationRequest(caller, jurisdiction) ==
    /\ Len(verificationRequests) < MaxRequests
    /\ accountRequest[caller] # 0 => verificationRequests[accountRequest[caller]].status # "Pending"
    /\ verificationRequests' =
           Append(verificationRequests, [account |-> caller, jurisdiction |-> jurisdiction, status |-> "Pending"])
    /\ accountRequest' = [accountRequest EXCEPT ![caller] = Len(verificationRequests) + 1]
    /\ kyc' = [kyc EXCEPT !["total"] = Created(@), ![jurisdiction] = Created(@)]
    /\ UNCHANGED <<block, verifiers, compliance, rules, taxVars, screeningVars, tokenVars>>

\* Mutant: a new verification keeps the checks of the one before.
NewData_KeepsChecks(jurisdiction, risk) ==
    [status |-> "Verified", jurisdiction |-> jurisdiction, risk |-> risk, expiry |-> block + Validity,
     aml |-> \E a \in DOMAIN compliance : compliance[a].aml, sanctions |-> FALSE, consent |-> "NotGiven",
     retention |-> block + rules[jurisdiction].retention]

NewData(jurisdiction, risk) ==
    [status |-> "Verified", jurisdiction |-> jurisdiction, risk |-> risk, expiry |-> block + Validity,
     aml |-> FALSE, sanctions |-> FALSE, consent |-> "NotGiven",
     retention |-> block + rules[jurisdiction].retention]

\* A failed attempt returns Err, which reverts the metric it records.
SubmitVerification(caller, a, jurisdiction, risk, proof, score) ==
    /\ caller \in verifiers
    /\ score <= 100
    /\ jurisdiction \in DOMAIN rules
    /\ VerificationLevel(proof[1], proof[2], score) >= rules[jurisdiction].level
    /\ compliance' = Put(compliance, a, NewData(jurisdiction, risk))
    /\ LET done == PendingRequest(a, jurisdiction) IN
          /\ verificationRequests' =
                 [r \in DOMAIN verificationRequests |->
                     IF r \in done THEN [verificationRequests[r] EXCEPT !.status = "Verified"]
                     ELSE verificationRequests[r]]
          /\ kyc' = [kyc EXCEPT !["total"] = Attempted(@, done # {}), ![jurisdiction] = Attempted(@, done # {})]
    /\ UNCHANGED <<block, verifiers, rules, accountRequest, taxVars, screeningVars, tokenVars>>

\* The verification completes the request, if it is the account's last one, and
\* the message marks it Verified whether or not it is.
ProcessVerificationRequest(caller, r, risk, proof, score) ==
    LET q == verificationRequests[r] IN
    /\ r \in DOMAIN verificationRequests /\ q.status = "Pending"
    /\ caller \in verifiers
    /\ score <= 100
    /\ q.jurisdiction \in DOMAIN rules
    /\ VerificationLevel(proof[1], proof[2], score) >= rules[q.jurisdiction].level
    /\ compliance' = Put(compliance, q.account, NewData(q.jurisdiction, risk))
    /\ LET done == PendingRequest(q.account, q.jurisdiction) IN
          /\ verificationRequests' =
                 [k \in DOMAIN verificationRequests |->
                     IF k \in done \cup {r} THEN [verificationRequests[k] EXCEPT !.status = "Verified"]
                     ELSE verificationRequests[k]]
          /\ kyc' = [kyc EXCEPT !["total"] = Attempted(@, done # {}), ![q.jurisdiction] = Attempted(@, done # {})]
    /\ UNCHANGED <<block, verifiers, rules, accountRequest, taxVars, screeningVars, tokenVars>>

----
\* Checks on verified accounts

SetData(a, d) ==
    /\ compliance' = [compliance EXCEPT ![a] = d]
    /\ UNCHANGED <<block, verifiers, rules, requestVars, taxVars, screeningVars, tokenVars>>

\* factors is the number of the four risk factors that hold.
AmlOutcome(d, passed, factors) ==
    LET checked == [d EXCEPT !.aml = passed] IN
    IF ~passed \/ factors >= 3 THEN [checked EXCEPT !.status = "Rejected", !.risk = "Prohibited"]
    ELSE IF factors = 2 THEN [checked EXCEPT !.risk = "High"]
    ELSE IF factors = 1 THEN [checked EXCEPT !.risk = "Medium"]
    ELSE checked

UpdateAmlStatus(caller, a, passed, factors) ==
    /\ caller \in verifiers
    /\ a \in DOMAIN compliance
    /\ SetData(a, AmlOutcome(compliance[a], passed, factors))

\* Accounts without data are passed over; the others pass with fewer than three
\* factors and verified funds. An account may be listed twice.
BatchAmlCheck(caller, list) ==
    /\ caller \in verifiers
    /\ compliance' = [a \in DOMAIN compliance |->
           LET outcome[i \in 0..Len(list)] ==
                   IF i = 0 THEN compliance[a]
                   ELSE IF list[i].account # a THEN outcome[i - 1]
                   ELSE AmlOutcome(outcome[i - 1], list[i].factors < 3 /\ list[i].funds, list[i].factors)
           IN  outcome[Len(list)]]
    /\ UNCHANGED <<block, verifiers, rules, requestVars, taxVars, screeningVars, tokenVars>>

SanctionsOutcome(d, passed) ==
    IF passed THEN [d EXCEPT !.sanctions = TRUE]
    ELSE [d EXCEPT !.sanctions = FALSE, !.status = "Rejected", !.risk = "Prohibited"]

UpdateSanctionsStatus(caller, a, passed) ==
    /\ caller \in verifiers
    /\ a \in DOMAIN compliance
    /\ SetData(a, SanctionsOutcome(compliance[a], passed))

\* One account without data fails the whole batch.
BatchSanctionsCheck(caller, list) ==
    /\ caller \in verifiers
    /\ \A i \in DOMAIN list : list[i].account \in DOMAIN compliance
    /\ compliance' = [a \in DOMAIN compliance |->
           LET outcome[i \in 0..Len(list)] ==
                   IF i = 0 THEN compliance[a]
                   ELSE IF list[i].account # a THEN outcome[i - 1]
                   ELSE SanctionsOutcome(outcome[i - 1], list[i].passed)
           IN  outcome[Len(list)]]
    /\ UNCHANGED <<block, verifiers, rules, requestVars, taxVars, screeningVars, tokenVars>>

RevokeVerification(caller, a) ==
    /\ caller \in verifiers
    /\ a \in DOMAIN compliance
    /\ SetData(a, [compliance[a] EXCEPT !.status = "Rejected"])

UpdateConsent(caller, a, consent) ==
    /\ caller = a \/ caller \in verifiers
    /\ a \in DOMAIN compliance
    /\ SetData(a, [compliance[a] EXCEPT !.consent = consent])

\* Deletion marks the record Expired.
ComplianceDeletion(caller) ==
    /\ RetentionOver(caller)
    /\ compliance[caller].consent = "Withdrawn"
    /\ SetData(caller, [compliance[caller] EXCEPT !.status = "Expired"])

UpdateTaxComplianceStatus(caller, a, status) ==
    /\ caller = ComplianceOwner \/ caller \in verifiers \/ caller \in taxModules
    /\ tax' = Put(tax, a, status)
    /\ UNCHANGED <<block, verifiers, compliance, rules, requestVars, taxModules, screeningVars, tokenVars>>

\* A cached result is returned until it expires, whatever has changed since.
ScreenAddress(a) ==
    /\ a \in DOMAIN screenings => block >= screenings[a].expires
    /\ a \in DOMAIN compliance
    /\ screenings' = Put(screenings, a,
           [status |-> ScreeningOf(compliance[a]), expires |-> block + screeningTtl])
    /\ UNCHANGED <<block, verifiers, compliance, rules, requestVars, taxVars, screeningTtl, tokenVars>>

ComplianceTimeNext == NextBlock /\ UNCHANGED complianceVars

----
\* The messages by what they are about

ComplianceOwnerNext ==
    \E caller \in Clients :
        \/ \E v \in Clients : AddVerifier(caller, v)
        \/ \E v \in Clients, type \in 0..3 : RegisterServiceProvider(caller, v, type)
        \/ \E j \in Jurisdictions, new \in RulesArgs : UpdateJurisdictionRules(caller, j, new)
        \/ \E m \in Clients, active \in BOOLEAN : SetTaxModule(caller, m, active)
        \/ \E ttl \in TtlArgs : SetScreeningCacheTtl(caller, ttl)

TokenRulesNext ==
    \E caller \in Clients :
        \/ \E t \in ComplianceTokens, j \in Jurisdictions : SetTokenJurisdiction(caller, t, j)
        \/ \E j \in Jurisdictions, allowed \in OperationArgs : SetJurisdictionOperations(caller, j, allowed)
        \/ \E t \in ComplianceTokens : DeactivateToken(caller, t) \/ ReactivateToken(caller, t)

VerificationNext ==
    \E caller \in Clients :
        \/ \E j \in Jurisdictions : CreateVerificationRequest(caller, j)
        \/ \E a \in Clients, j \in Jurisdictions, risk \in Risks, proof \in ProofArgs, score \in RiskScoreArgs :
              SubmitVerification(caller, a, j, risk, proof, score)
        \/ \E r \in DOMAIN verificationRequests, risk \in Risks, proof \in ProofArgs, score \in RiskScoreArgs :
              ProcessVerificationRequest(caller, r, risk, proof, score)

CheckNext ==
    \/ \E caller, a \in Clients :
          \/ \E passed \in BOOLEAN, factors \in 0..4 : UpdateAmlStatus(caller, a, passed, factors)
          \/ \E passed \in BOOLEAN : UpdateSanctionsStatus(caller, a, passed)
          \/ RevokeVerification(caller, a)
          \/ \E consent \in Consents : UpdateConsent(caller, a, consent)
          \/ \E status \in TaxArgs : UpdateTaxComplianceStatus(caller, a, status)
    \/ \E a \in Clients : ComplianceDeletion(a) \/ ScreenAddress(a)

BatchCheckNext ==
    \E caller, a, b \in Clients :
        \/ \E f, g \in 0..4, x, y \in BOOLEAN :
              BatchAmlCheck(caller, <<[account |-> a, factors |-> f, funds |-> x],
                                      [account |-> b, factors |-> g, funds |-> y]>>)
        \/ \E x, y \in BOOLEAN :
              BatchSanctionsCheck(caller, <<[account |-> a, passed |-> x], [account |-> b, passed |-> y]>>)

ComplianceNext ==
    ComplianceOwnerNext \/ TokenRulesNext \/ VerificationNext \/ CheckNext \/ BatchCheckNext \/ ComplianceTimeNext

----
\* Properties

\* The metrics of a jurisdiction recount its requests: created, pending and
\* converted ones, those converted by a verification made outside the request
\* included; an account has one pending request at most, its last one; and the
\* total is the sum (create_verification_request, process_verification_request,
\* complete_pending_request, record_kyc_verification_attempt).
RequestsRecounted ==
    LET of(j, s) == {r \in DOMAIN verificationRequests :
                        verificationRequests[r].jurisdiction = j /\ verificationRequests[r].status \in s}
        sum(F(_)) == MapThenSumSet(F, Jurisdictions)
    IN  /\ \A j \in Jurisdictions :
              /\ kyc[j].created = Cardinality(of(j, {"Pending", "Verified"}))
              /\ kyc[j].pending = Cardinality(of(j, {"Pending"}))
              /\ kyc[j].converted = Cardinality(of(j, {"Verified"}))
              /\ kyc[j].converted <= kyc[j].attempts
        /\ \A r \in DOMAIN verificationRequests :
              verificationRequests[r].status = "Pending" => accountRequest[verificationRequests[r].account] = r
        /\ kyc["total"] = [created |-> sum(LAMBDA j : kyc[j].created), pending |-> sum(LAMBDA j : kyc[j].pending),
                           converted |-> sum(LAMBDA j : kyc[j].converted), attempts |-> sum(LAMBDA j : kyc[j].attempts)]
====
