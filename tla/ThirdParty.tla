---- MODULE ThirdParty ----
(***************************************************************************)
(* The registry of services outside the chain, and the requests providers  *)
(* answer: checks of who a user is (KYC), which leave a record with a      *)
(* level and an expiry, and payments in fiat money. Time is the block      *)
(* number, a day is DayBlocks of it.                                       *)
(***************************************************************************)
EXTENDS BlockClock, SequencesExt, FiniteSetsExt

CONSTANTS
    PartyAdmin, Parties,        \* the deployer, and all callers
    FeeArgs,                    \* fees of a service, in basis points
    KycLevels, ValidDays, DayBlocks,
    PaymentTokens,              \* what a provider reports a payment to be worth
    MaxServices, MaxPartyRequests  \* bounds

VARIABLES thirdServices, providerServices, kycRecords, kycRequests, payments, requestCounter

thirdPartyVars == <<thirdServices, providerServices, kycRecords, kycRequests, payments, requestCounter>>

ASSUME ThirdPartyConstants ==
    /\ PartyAdmin \in Parties /\ FeeArgs \cup KycLevels \cup ValidDays \cup PaymentTokens \subseteq Nat
    /\ DayBlocks \in Nat /\ MaxServices \in Nat /\ MaxPartyRequests \in Nat

\* "Other" stands for all other types, "Inactive" for all statuses but Active.
ServiceTypes == {"KycProvider", "PaymentGateway", "Other"}
ServiceStatuses == {"Active", "Inactive"}
RequestStatuses == {"Pending", "Processing", "Approved", "Rejected", "Failed", "Expired"}
ServiceConfig == [type : ServiceTypes, provider : Parties, status : ServiceStatuses, fee : Nat]
KycRequest == [user : Parties, service : Nat, status : RequestStatuses, expiry : Nat]
KycRecord == [service : Nat, level : Nat, verified : Nat, expires : Nat]
PaymentRequest == [payer : Parties, service : Nat, status : RequestStatuses, tokens : Nat, completed : Nat]

ThirdPartyInit ==
    /\ thirdServices = << >> /\ providerServices = [p \in Parties |-> << >>]
    /\ kycRecords = << >> /\ kycRequests = << >> /\ payments = << >> /\ requestCounter = 0

\* A mapping with one more or one changed entry.
Filed(f, key, value) == [k \in DOMAIN f \cup {key} |-> IF k = key THEN value ELSE f[k]]

RegisterService(caller, type, provider, fee) ==
    /\ caller = PartyAdmin /\ fee <= 10000
    /\ thirdServices' = Append(thirdServices, [type |-> type, provider |-> provider, status |-> "Active", fee |-> fee])
    /\ providerServices' = [providerServices EXCEPT ![provider] = Append(@, Len(thirdServices) + 1)]
    /\ UNCHANGED <<kycRecords, kycRequests, payments, requestCounter>>

UpdateServiceStatus(caller, id, status) ==
    /\ id \in DOMAIN thirdServices /\ caller \in {PartyAdmin, thirdServices[id].provider}
    /\ thirdServices' = [thirdServices EXCEPT ![id].status = status]
    /\ UNCHANGED <<providerServices, kycRecords, kycRequests, payments, requestCounter>>

ServiceActive(id, type) ==
    id \in DOMAIN thirdServices /\ thirdServices[id].status = "Active" /\ thirdServices[id].type = type

InitiateKycRequest(caller, id, user) ==
    /\ caller \in {user, PartyAdmin} /\ ServiceActive(id, "KycProvider")
    /\ requestCounter' = requestCounter + 1
    /\ kycRequests' = Filed(kycRequests, requestCounter', [user |-> user, service |-> id, status |-> "Pending", expiry |-> 0])
    /\ UNCHANGED <<thirdServices, providerServices, kycRecords, payments>>

\* The provider answers, also when its service is no longer active. A request that failed
\* or expired may still be approved; the newest approval makes the record.
UpdateKycStatus(caller, n, status, level, days) ==
    /\ n \in DOMAIN kycRequests
    /\ LET r == kycRequests[n]
           expires == block + days * DayBlocks
       IN  /\ caller = thirdServices[r.service].provider
           /\ r.status \notin {"Approved", "Rejected"}
           /\ kycRequests' = [kycRequests EXCEPT ![n].status = status, ![n].expiry = IF status = "Approved" THEN expires ELSE @]
           /\ kycRecords' = IF status # "Approved" THEN kycRecords
                            ELSE Filed(kycRecords, r.user, [service |-> r.service, level |-> level, verified |-> block, expires |-> expires])
    /\ UNCHANGED <<thirdServices, providerServices, payments, requestCounter>>

IsKycVerified(user, level) ==
    user \in DOMAIN kycRecords /\ kycRecords[user].level >= level /\ kycRecords[user].expires > block

InitiateFiatPayment(caller, id) ==
    /\ ServiceActive(id, "PaymentGateway")
    /\ requestCounter' = requestCounter + 1
    /\ payments' = Filed(payments, requestCounter', [payer |-> caller, service |-> id, status |-> "Pending", tokens |-> 0, completed |-> 0])
    /\ UNCHANGED <<thirdServices, providerServices, kycRecords, kycRequests>>

CompletePayment(caller, n, success, tokens) ==
    /\ n \in DOMAIN payments
    /\ caller = thirdServices[payments[n].service].provider
    /\ payments[n].status \in {"Pending", "Processing"}
    /\ payments' = [payments EXCEPT ![n].status = IF success THEN "Approved" ELSE "Failed", ![n].tokens = tokens, ![n].completed = block]
    /\ UNCHANGED <<thirdServices, providerServices, kycRecords, kycRequests, requestCounter>>

ThirdPartyNext ==
    \E caller \in Parties :
        \/ \E t \in ServiceTypes, p \in Parties, f \in FeeArgs : Len(thirdServices) < MaxServices /\ RegisterService(caller, t, p, f)
        \/ \E id \in DOMAIN thirdServices :
              \/ \E s \in ServiceStatuses : UpdateServiceStatus(caller, id, s)
              \/ \E u \in Parties : requestCounter < MaxPartyRequests /\ InitiateKycRequest(caller, id, u)
              \/ requestCounter < MaxPartyRequests /\ InitiateFiatPayment(caller, id)
        \/ \E n \in DOMAIN kycRequests, s \in RequestStatuses, l \in KycLevels, d \in ValidDays : UpdateKycStatus(caller, n, s, l, d)
        \/ \E n \in DOMAIN payments, success \in BOOLEAN, t \in PaymentTokens : CompletePayment(caller, n, success, t)

ThirdPartyMoves ==
    \/ ThirdPartyNext /\ UNCHANGED block
    \/ NextBlock /\ UNCHANGED thirdPartyVars

ThirdPartySpec == ChainInit /\ ThirdPartyInit /\ [][ThirdPartyMoves]_<<block, thirdPartyVars>>

----
\* Properties

\* Nobody counts as verified without an approval of a request of his own by the provider of
\* the record, and none lasts longer than that approval said; checks and payments share one
\* counter and no number; what a payment is worth is known when it is completed
\* (update_kyc_status, is_kyc_verified, complete_payment).
ThirdPartyBooksAgree ==
    /\ thirdServices \in Seq(ServiceConfig)
    /\ \A p \in Parties : Range(providerServices[p]) = {id \in DOMAIN thirdServices : thirdServices[id].provider = p}
    /\ DOMAIN kycRequests \cap DOMAIN payments = {} /\ DOMAIN kycRequests \cup DOMAIN payments = 1..requestCounter
    /\ \A n \in DOMAIN kycRequests : kycRequests[n] \in KycRequest /\ thirdServices[kycRequests[n].service].type = "KycProvider"
    /\ \A n \in DOMAIN payments : payments[n] \in PaymentRequest /\ thirdServices[payments[n].service].type = "PaymentGateway"
    /\ \A u \in DOMAIN kycRecords : kycRecords[u] \in KycRecord
          /\ \E n \in DOMAIN kycRequests : LET r == kycRequests[n] IN
                r.user = u /\ r.status = "Approved" /\ r.service = kycRecords[u].service /\ r.expiry = kycRecords[u].expires
    /\ \A n \in DOMAIN payments : (payments[n].status = "Pending") = (payments[n].completed = 0)
    /\ \A u \in Parties, l \in KycLevels :
          IsKycVerified(u, l) => \E n \in DOMAIN kycRequests : kycRequests[n].user = u /\ kycRequests[n].expiry > block

\* Approved and rejected checks and completed payments are final, whatever becomes of the
\* service (update_kyc_status, complete_payment).
RequestsAreFinal ==
    /\ \A n \in DOMAIN kycRequests : kycRequests[n].status \in {"Approved", "Rejected"} => kycRequests'[n] = kycRequests[n]
    /\ \A n \in DOMAIN payments : payments[n].completed # 0 => payments'[n] = payments[n]
    /\ \A id \in DOMAIN thirdServices : [thirdServices'[id] EXCEPT !.status = "Active"] = [thirdServices[id] EXCEPT !.status = "Active"]
====
