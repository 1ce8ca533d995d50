---- MODULE MCRecords ----
(***************************************************************************)
(* Model checking of the contracts that only keep records, one aspect at a *)
(* time (focus): sanctions, consents, the audit trail, the registry of     *)
(* versions, database syncs, monitoring, documents, property metadata,     *)
(* services outside the chain, and analytics.                              *)
(***************************************************************************)
EXTENDS Sanctions, Gdpr, AuditTrail, DatabaseSync, Monitoring,
        Metadata, ThirdParty, Analytics

CONSTANTS A, B, Foci

\* Content ids: two valid ones of either kind, and one that is too short.
SomeCids == {[prefix |-> "Qm", length |-> 46, tag |-> 1], [prefix |-> "b", length |-> 10, tag |-> 2], [prefix |-> "b", length |-> 9, tag |-> 3]}
SomeDescriptions ==
    [location : {0, 1}, legal : {1}, size : {1, 3}, valuation : {0, 1}, cids : {{}, SomeCids}] \cup
    {[location |-> 1, legal |-> 1, size |-> 2, valuation |-> 1, cids |-> {[prefix |-> "b", length |-> 10, tag |-> 2]}]}
DefaultRules ==
    [locationLength |-> 2, legalLength |-> 1, minSize |-> 1, maxSize |-> 2, minValuation |-> 1,
     fileSize |-> 2, mimeTypes |-> {}, documents |-> 2, pinned |-> 3]
TightRules == {[DefaultRules EXCEPT !.documents = 1, !.pinned = 1, !.mimeTypes = {"pdf"}]}
DefaultLimits == [attributes |-> 1, media |-> 1, legal |-> 2]
OtherLimits == {[attributes |-> 2, media |-> 0, legal |-> 1]}
SomeMetrics == {[price |-> 1, volume |-> 1, listed |-> 1]}
SomeChanges == {-7, 3}
SomeTrends == {[price |-> -7, volume |-> 3]}
SomePositions == [type : PropertyTypes, value : {0, 1, 3}]

VARIABLE focus

recordVars == <<sanctionVars, gdprVars, auditVars, versionVars, databaseVars, monitoringVars>>
propertyVars == <<ipfsVars, metadataVars, thirdPartyVars, analyticsVars, dashboardVars>>
mcVars == <<block, recordVars, propertyVars, focus>>

MCInit ==
    /\ ChainInit
    /\ SanctionsInit /\ GdprInit /\ AuditInit /\ VersionsInit /\ DatabaseInit /\ MonitoringInit
    /\ IpfsInit /\ MetadataInit /\ ThirdPartyInit /\ AnalyticsInit /\ DashboardInit
    /\ focus \in Foci

\* The aspects in which time passes, in some of them up to the second block.
TimedFoci == {"consents", "syncs", "reporting", "analysts"}
BriefFoci == {"notary", "requests", "dashboard"}
MCTick == (focus \in TimedFoci \/ (focus \in BriefFoci /\ block = 1)) /\ NextBlock /\ UNCHANGED <<recordVars, propertyVars, focus>>

RecordStep ==
    \/ focus = "sanctions" /\ SanctionsNext /\ DOMAIN sanctionedProperties' \subseteq {1}
       /\ Len(sanctionedEntities') + Len(screeningResults') <= 3
       /\ UNCHANGED <<gdprVars, auditVars, versionVars, databaseVars, monitoringVars>>
    \/ focus = "consents" /\ GdprNext /\ Len(consents') + Len(dataRequests') <= 2
       /\ UNCHANGED <<sanctionVars, auditVars, versionVars, databaseVars, monitoringVars>>
    \/ focus = "audit" /\ AuditNext
       /\ UNCHANGED <<sanctionVars, gdprVars, versionVars, databaseVars, monitoringVars>>
    \/ focus = "versions" /\ VersionsNext
       /\ UNCHANGED <<sanctionVars, gdprVars, auditVars, databaseVars, monitoringVars>>
    \/ focus = "syncs" /\ DatabaseNext /\ publishers' \cup DOMAIN indexers' \subseteq {B} /\ (\A i \in DOMAIN syncs' : syncs'[i].checksum = "c1")
       /\ exports' = exports /\ snapshotCounter' = snapshotCounter
       /\ UNCHANGED <<sanctionVars, gdprVars, auditVars, versionVars, monitoringVars>>
    \/ focus = "exports" /\ DatabaseNext /\ syncs' = syncs /\ indexers' = indexers
       /\ UNCHANGED <<sanctionVars, gdprVars, auditVars, versionVars, monitoringVars>>
    \/ ((focus = "reporting" /\ ReportingNext /\ calls' + snapshotCount' <= 4) \/ (focus = "watchers" /\ WatchersNext))
       /\ UNCHANGED <<sanctionVars, gdprVars, auditVars, versionVars, databaseVars>>

\* In "documents" only B is given rights, to property 1; in "notary" it is about one
\* property.
DocumentStep ==
    /\ \/ focus = "documents" /\ (DocumentsNext \/ DocumentRightsNext)
          /\ accessLevel' \in {[[p \in Lots \X IpfsUsers |-> "None"] EXCEPT ![<<1, B>>] = l] : l \in {"None", "Read", "Write"}}
          /\ lotMetadata' = lotMetadata /\ notarizations' = notarizations /\ validationRules' \in {FirstRules} \cup RuleSets
          /\ \A d \in DOMAIN documents' : documents'[d].hash = "h1"
       \/ focus = "notary" /\ (DocumentsNext \/ DocumentRightsNext)
          /\ accessLevel' = accessLevel /\ lotMetadata' = lotMetadata /\ documentCount' <= 1 /\ pinnedSize' = pinnedSize
          /\ validationRules' = validationRules /\ notarizedHashes'[2] = << >>
          /\ \A d \in DOMAIN documents' : documents'[d].lot = 1 /\ documents'[d].size = 1
       \/ focus = "rights" /\ DocumentRightsNext /\ notarizations' = notarizations
    /\ UNCHANGED <<metadataVars, thirdPartyVars, analyticsVars, dashboardVars>>

MetadataStep ==
    /\ \/ focus = "metadata" /\ VersioningNext
       \/ focus = "attachments" /\ (VersioningNext \/ AttachmentsNext) /\ \A id \in DOMAIN metadata' :
             /\ metadata'[id].version = 1 /\ metadata'[id].hash = "m1" /\ metadata'[id].type = "Land" /\ estateOwner'[id] = B
             /\ metadata'[id].media[1] + metadata'[id].media[2] = 0 /\ verifiers' \subseteq {B}
             /\ id = 2 => metadata'[id].attributes = 0 /\ metadata'[id].media = NoMedia
    /\ UNCHANGED <<ipfsVars, thirdPartyVars, analyticsVars, dashboardVars>>

AnalyticsStep ==
    /\ \/ focus = "reports" /\ ReportsNext /\ (historicalTrends' = << >> \/ sentiments' = << >>)
       \/ focus = "analysts" /\ AnalystsNext
       \/ focus = "portfolios" /\ PortfolioNext /\ \A a \in Analysts : (a # FirstAnalyst => portfolio'[a] = << >>) /\ benchmarks'["Retail"] = 0
    /\ UNCHANGED <<ipfsVars, metadataVars, thirdPartyVars, dashboardVars>>

PropertyStep ==
    \/ DocumentStep \/ MetadataStep \/ AnalyticsStep
    \/ focus = "requests" /\ ThirdPartyNext /\ (\A id \in DOMAIN thirdServices' : thirdServices'[id].provider = IF id = 1 THEN B ELSE A)
       /\ UNCHANGED <<ipfsVars, metadataVars, analyticsVars, dashboardVars>>
    \/ focus = "dashboard" /\ DashboardNext /\ UNCHANGED <<ipfsVars, metadataVars, thirdPartyVars, analyticsVars>>

MCNext ==
    \/ MCTick
    \/ RecordStep /\ UNCHANGED <<block, propertyVars, focus>>
    \/ PropertyStep /\ UNCHANGED <<block, recordVars, focus>>

MCSpec == MCInit /\ [][MCNext]_mcVars

----
\* Properties

\* The books of every one of them agree with what it stores, and the audit trail can be
\* relied on.
RecordBooksAgree ==
    /\ SanctionBooksAgree /\ ConsentBooksAgree
    /\ AuditTrailSound /\ VersionBooksAgree /\ DatabaseBooksAgree /\ MonitoringBooksAgree
    /\ DocumentBooksAgree /\ MetadataBooksAgree /\ ThirdPartyBooksAgree /\ AnalyticsBooksAgree

\* What was final stays: finalized metadata and the history of versions, decided checks and
\* completed payments, notarizations of hashes (finalize_metadata, update_kyc_status,
\* complete_payment, notarize_document).
RecordsAreFinal ==
    [][FinalizedStays /\ RequestsAreFinal /\ NotarizationsStay]_mcVars
====
