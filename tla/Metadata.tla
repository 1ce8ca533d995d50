---- MODULE Metadata ----
(***************************************************************************)
(* The two registries of metadata (contracts/metadata, contracts/          *)
(* ipfs-metadata), which do not know of each other.                        *)
(*                                                                         *)
(* The first keeps extensible property metadata: a current version and a   *)
(* history of all versions, attributes, media and legal documents with     *)
(* verifiers, an index of properties by type, and finalization. Core data  *)
(* stand for the type of the property and for whether they are valid.      *)
(***************************************************************************)
EXTENDS BlockClock, SequencesExt, FiniteSetsExt

CONSTANTS
    MetadataAdmin, Editors,     \* the deployer, and all callers
    Estates,                    \* property ids
    EstateTypes,                \* MetadataPropertyType
    Digests,                    \* content hashes
    FirstLimits, LimitSets,     \* limits on attributes, media and legal documents
    MaxEdits                    \* bound: versions, and documents

VARIABLES
    metadata, versionHistory, estateOwner, verifiers, typeIndexed, totalProperties, documentCounter, limits

metadataVars == <<metadata, versionHistory, estateOwner, verifiers, typeIndexed, totalProperties, documentCounter, limits>>

Limits == [attributes : Nat, media : Nat, legal : Nat]

ASSUME MetadataConstants ==
    /\ MetadataAdmin \in Editors /\ FirstLimits \in Limits /\ LimitSets \subseteq Limits /\ MaxEdits \in Nat

MediaCategories == 0..3
LegalDocumentRef == [id : Nat, verifiedBy : Editors \cup {"nobody"}]
VersionEntry == [hash : Digests, by : Editors]
NoMedia == [c \in MediaCategories |-> 0]

MetadataInit ==
    /\ metadata = << >> /\ versionHistory = << >> /\ estateOwner = << >> /\ verifiers = {}
    /\ typeIndexed = [t \in EstateTypes |-> << >>]
    /\ totalProperties = 0 /\ documentCounter = 0 /\ limits = FirstLimits

\* A mapping with one more or one changed entry.
Entered(f, key, value) == [k \in DOMAIN f \cup {key} |-> IF k = key THEN value ELSE f[k]]

\* Who creates the metadata of a property becomes its owner, whoever it is.
CreateMetadata(caller, id, type, hash) ==
    /\ id \notin DOMAIN metadata
    /\ metadata' = Entered(metadata, id,
          [version |-> 1, type |-> type, hash |-> hash, attributes |-> 0, media |-> NoMedia, legal |-> << >>, finalized |-> FALSE, updated |-> block])
    /\ estateOwner' = Entered(estateOwner, id, caller)
    /\ versionHistory' = Entered(versionHistory, <<id, 1>>, [hash |-> hash, by |-> caller])
    /\ typeIndexed' = [typeIndexed EXCEPT ![type] = Append(@, id)]
    /\ totalProperties' = totalProperties + 1
    /\ UNCHANGED <<verifiers, documentCounter, limits>>

EnsureOwnerOrAdmin(caller, id) ==
    caller = MetadataAdmin \/ (id \in DOMAIN estateOwner /\ caller = estateOwner[id])
Editable(caller, id) ==
    EnsureOwnerOrAdmin(caller, id) /\ id \in DOMAIN metadata /\ ~metadata[id].finalized

\* Mutant: finalized metadata can be updated.
UpdateMetadata_Finalized(caller, id, type, hash) ==
    LET version == metadata[id].version + 1 IN
    /\ EnsureOwnerOrAdmin(caller, id) /\ id \in DOMAIN metadata
    /\ metadata' = [metadata EXCEPT ![id].version = version, ![id].type = type, ![id].hash = hash, ![id].updated = block]
    /\ versionHistory' = Entered(versionHistory, <<id, version>>, [hash |-> hash, by |-> caller])
    /\ UNCHANGED <<estateOwner, verifiers, typeIndexed, totalProperties, documentCounter, limits>>

\* The index keeps the property under the type it was created with.
UpdateMetadata(caller, id, type, hash) ==
    LET version == metadata[id].version + 1 IN
    /\ Editable(caller, id)
    /\ metadata' = [metadata EXCEPT ![id].version = version, ![id].type = type, ![id].hash = hash, ![id].updated = block]
    /\ versionHistory' = Entered(versionHistory, <<id, version>>, [hash |-> hash, by |-> caller])
    /\ UNCHANGED <<estateOwner, verifiers, typeIndexed, totalProperties, documentCounter, limits>>

AddCustomAttribute(caller, id) ==
    /\ Editable(caller, id) /\ metadata[id].attributes < limits.attributes
    /\ metadata' = [metadata EXCEPT ![id].attributes = @ + 1, ![id].updated = block]
    /\ UNCHANGED <<versionHistory, estateOwner, verifiers, typeIndexed, totalProperties, documentCounter, limits>>

FinalizeMetadata(caller, id) ==
    /\ Editable(caller, id)
    /\ metadata' = [metadata EXCEPT ![id].finalized = TRUE, ![id].updated = block]
    /\ UNCHANGED <<versionHistory, estateOwner, verifiers, typeIndexed, totalProperties, documentCounter, limits>>

AddMediaItem(caller, id, category) ==
    /\ Editable(caller, id) /\ metadata[id].media[category] < limits.media
    /\ metadata' = [metadata EXCEPT ![id].media[category] = @ + 1, ![id].updated = block]
    /\ UNCHANGED <<versionHistory, estateOwner, verifiers, typeIndexed, totalProperties, documentCounter, limits>>

AddLegalDocument(caller, id) ==
    /\ Editable(caller, id) /\ Len(metadata[id].legal) < limits.legal
    /\ documentCounter' = documentCounter + 1
    /\ metadata' = [metadata EXCEPT ![id].legal = Append(@, [id |-> documentCounter', verifiedBy |-> "nobody"]), ![id].updated = block]
    /\ UNCHANGED <<versionHistory, estateOwner, verifiers, typeIndexed, totalProperties, limits>>

\* Finalization does not keep documents from being verified, nor from being verified again
\* by somebody else.
VerifyLegalDocument(caller, id, document) ==
    /\ caller = MetadataAdmin \/ caller \in verifiers
    /\ id \in DOMAIN metadata
    /\ \E i \in DOMAIN metadata[id].legal :
          /\ metadata[id].legal[i].id = document
          /\ metadata' = [metadata EXCEPT ![id].legal[i].verifiedBy = caller]
    /\ UNCHANGED <<versionHistory, estateOwner, verifiers, typeIndexed, totalProperties, documentCounter, limits>>

VersionHistory(id) ==
    LET known == {v \in 1..metadata[id].version : <<id, v>> \in DOMAIN versionHistory} IN
    [i \in 1..Cardinality(known) |-> versionHistory[id, SetToSortSeq(known, <)[i]]]

SetVerifier(caller, account, isVerifier) ==
    /\ caller = MetadataAdmin
    /\ verifiers' = IF isVerifier THEN verifiers \cup {account} ELSE verifiers \ {account}
    /\ UNCHANGED <<metadata, versionHistory, estateOwner, typeIndexed, totalProperties, documentCounter, limits>>

UpdateLimits(caller, newLimits) ==
    /\ caller = MetadataAdmin /\ limits' = newLimits
    /\ UNCHANGED <<metadata, versionHistory, estateOwner, verifiers, typeIndexed, totalProperties, documentCounter>>

VersioningNext ==
    \E caller \in Editors, id \in Estates :
        \/ \E t \in EstateTypes, h \in Digests : CreateMetadata(caller, id, t, h)
        \/ id \in DOMAIN metadata /\ metadata[id].version < MaxEdits
           /\ \E t \in EstateTypes, h \in Digests : UpdateMetadata(caller, id, t, h)
        \/ FinalizeMetadata(caller, id)

AttachmentsNext ==
    \E caller \in Editors :
        \/ \E id \in Estates :
              \/ AddCustomAttribute(caller, id)
              \/ \E c \in MediaCategories : AddMediaItem(caller, id, c)
              \/ documentCounter < MaxEdits /\ AddLegalDocument(caller, id)
              \/ \E d \in 1..documentCounter : VerifyLegalDocument(caller, id, d)
        \/ \E account \in Editors, isVerifier \in BOOLEAN : SetVerifier(caller, account, isVerifier)
        \/ \E l \in LimitSets : UpdateLimits(caller, l)

MetadataMoves ==
    \/ (VersioningNext \/ AttachmentsNext) /\ UNCHANGED block
    \/ NextBlock /\ UNCHANGED metadataVars

MetadataSpec == ChainInit /\ MetadataInit /\ [][MetadataMoves]_<<block, metadataVars>>

----
\* Properties

\* Every version has its entry in the history, the newest with the current hash; each
\* property is in the index once, and counted; legal documents have ids of their own
\* (create_metadata, update_metadata, add_legal_document, get_version_history).
MetadataBooksAgree ==
    /\ limits \in Limits /\ documentCounter \in Nat
    /\ \A e \in DOMAIN versionHistory : versionHistory[e] \in VersionEntry /\ e[1] \in DOMAIN metadata
    /\ \A id \in DOMAIN metadata :
          /\ Len(VersionHistory(id)) = metadata[id].version
          /\ VersionHistory(id)[metadata[id].version].hash = metadata[id].hash
          /\ \A e \in DOMAIN versionHistory : e[1] = id => e[2] <= metadata[id].version
          /\ metadata[id].legal \in Seq(LegalDocumentRef) /\ metadata[id].updated \in 1..block
          /\ Cardinality({t \in EstateTypes : id \in Range(typeIndexed[t])}) = 1
    /\ \A t \in EstateTypes : IsInjective(typeIndexed[t]) /\ Range(typeIndexed[t]) \subseteq DOMAIN metadata
    /\ totalProperties = Cardinality(DOMAIN metadata)
    /\ LET held == {p \in Estates \X (1..documentCounter) : p[1] \in DOMAIN metadata /\ p[2] \in DOMAIN metadata[p[1]].legal}
           idOf(p) == metadata[p[1]].legal[p[2]].id
       IN  {idOf(p) : p \in held} = 1..documentCounter /\ Cardinality(held) = documentCounter

\* Final metadata stay as they are: the version, the hash, the attributes, the media and the
\* list of documents, whose verification alone may change (finalize_metadata and the
\* is_finalized checks); an entry of the history is never rewritten.
FinalizedStays ==
    /\ \A id \in DOMAIN metadata : metadata[id].finalized =>
          /\ id \in DOMAIN metadata'
          /\ [metadata'[id] EXCEPT !.legal = << >>] = [metadata[id] EXCEPT !.legal = << >>]
          /\ Len(metadata'[id].legal) = Len(metadata[id].legal)
    /\ \A e \in DOMAIN versionHistory : e \in DOMAIN versionHistory' /\ versionHistory'[e] = versionHistory[e]

----
(***************************************************************************)
(* The second keeps documents on IPFS: metadata and documents of a         *)
(* property under rights per account, an index of documents by content id  *)
(* and by property, a quota of what is pinned per property, and            *)
(* notarizations of hashes. A content id stands for its prefix and length  *)
(* and for whatever tells it from others (`tag`).                          *)
(***************************************************************************)

CONSTANTS
    IpfsAdmin, IpfsUsers,       \* the deployer, and all callers
    Lots,                       \* property ids
    Cids, ContentHashes, FileSizes, MimeTypes, Descriptions,
    FirstRules, RuleSets,       \* validation rules: of the constructor, and set later
    MaxDocuments                \* bound

VARIABLES
    lotMetadata, documents, lotDocuments, cidToDocument, documentCount,
    validationRules, pinnedSize, accessLevel, notarizations, notarizedHashes

documentVars == <<documents, lotDocuments, cidToDocument, documentCount>>
ipfsVars == <<documentVars, lotMetadata, validationRules, pinnedSize, accessLevel, notarizations, notarizedHashes>>

AccessLevels == {"None", "Read", "Write", "Admin"}
Rules == [locationLength : Nat, legalLength : Nat, minSize : Nat, maxSize : Nat, minValuation : Nat,
          fileSize : Nat, mimeTypes : SUBSET MimeTypes, documents : Nat, pinned : Nat]

ASSUME IpfsConstants ==
    /\ IpfsAdmin \in IpfsUsers /\ FileSizes \subseteq Nat /\ MaxDocuments \in Nat
    /\ FirstRules \in Rules /\ RuleSets \subseteq Rules

IpfsDocument ==
    [lot : Lots, cid : Cids, hash : ContentHashes, size : Nat, pinned : BOOLEAN, uploader : IpfsUsers, uploaded : Nat, verified : Nat]

IpfsInit ==
    /\ lotMetadata = << >>
    /\ documents = << >> /\ cidToDocument = << >> /\ documentCount = 0
    /\ lotDocuments = [l \in Lots |-> << >>]
    /\ validationRules = FirstRules
    /\ pinnedSize = [l \in Lots |-> 0]
    /\ accessLevel = [p \in Lots \X IpfsUsers |-> "None"]
    /\ notarizations = << >> /\ notarizedHashes = [l \in Lots |-> << >>]

ReadAccess(lot, account) == account = IpfsAdmin \/ accessLevel[lot, account] # "None"
WriteAccess(lot, account) == account = IpfsAdmin \/ accessLevel[lot, account] \in {"Write", "Admin"}
AdminAccess(lot, account) == accessLevel[lot, account] = "Admin"

ValidIpfsCid(cid) == (cid.prefix = "Qm" /\ cid.length = 46) \/ (cid.prefix = "b" /\ cid.length >= 10)

ValidMetadata(m) ==
    /\ m.location \in 1..validationRules.locationLength
    /\ m.legal \in 1..validationRules.legalLength
    /\ m.size \in validationRules.minSize..validationRules.maxSize
    /\ m.valuation >= validationRules.minValuation
    /\ \A cid \in m.cids : ValidIpfsCid(cid)

\* Registering metadata makes the contract's admin an admin of the property, nobody else.
ValidateAndRegisterMetadata(caller, lot, record) ==
    /\ WriteAccess(lot, caller) /\ ValidMetadata(record)
    /\ lotMetadata' = [l \in DOMAIN lotMetadata \cup {lot} |-> IF l = lot THEN record ELSE lotMetadata[l]]
    /\ accessLevel' = IF caller = IpfsAdmin THEN [accessLevel EXCEPT ![<<lot, caller>>] = "Admin"] ELSE accessLevel
    /\ UNCHANGED <<documentVars, validationRules, pinnedSize, notarizations, notarizedHashes>>

RegisterIpfsDocument(caller, lot, cid, hash, size, mimeType) ==
    /\ WriteAccess(lot, caller)
    /\ ValidIpfsCid(cid) /\ cid \notin DOMAIN cidToDocument
    /\ size <= validationRules.fileSize
    /\ Len(lotDocuments[lot]) < validationRules.documents
    /\ validationRules.mimeTypes = {} \/ mimeType \in validationRules.mimeTypes
    /\ documentCount' = documentCount + 1
    /\ documents' = [d \in DOMAIN documents \cup {documentCount'} |->
          IF d = documentCount'
          THEN [lot |-> lot, cid |-> cid, hash |-> hash, size |-> size, pinned |-> FALSE, uploader |-> caller, uploaded |-> block, verified |-> block]
          ELSE documents[d]]
    /\ cidToDocument' = [c \in DOMAIN cidToDocument \cup {cid} |-> IF c = cid THEN documentCount' ELSE cidToDocument[c]]
    /\ lotDocuments' = [lotDocuments EXCEPT ![lot] = Append(@, documentCount')]
    /\ UNCHANGED <<lotMetadata, validationRules, pinnedSize, accessLevel, notarizations, notarizedHashes>>

\* Pinning what is pinned, and unpinning what is not, is accepted and changes nothing.
PinDocument(caller, id) ==
    /\ id \in DOMAIN documents
    /\ LET d == documents[id] IN
          /\ WriteAccess(d.lot, caller) /\ ~d.pinned
          /\ pinnedSize[d.lot] + d.size <= validationRules.pinned
          /\ pinnedSize' = [pinnedSize EXCEPT ![d.lot] = @ + d.size]
    /\ documents' = [documents EXCEPT ![id].pinned = TRUE]
    /\ UNCHANGED <<lotMetadata, lotDocuments, cidToDocument, documentCount, validationRules, accessLevel, notarizations, notarizedHashes>>

UnpinDocument(caller, id) ==
    /\ id \in DOMAIN documents
    /\ LET d == documents[id] IN
          /\ WriteAccess(d.lot, caller) /\ d.pinned
          /\ pinnedSize' = [pinnedSize EXCEPT ![d.lot] = IF @ >= d.size THEN @ - d.size ELSE @]
    /\ documents' = [documents EXCEPT ![id].pinned = FALSE]
    /\ UNCHANGED <<lotMetadata, lotDocuments, cidToDocument, documentCount, validationRules, accessLevel, notarizations, notarizedHashes>>

VerifyContentHash(caller, id, hash) ==
    /\ id \in DOMAIN documents /\ ReadAccess(documents[id].lot, caller)
    /\ documents[id].hash = hash
    /\ documents' = [documents EXCEPT ![id].verified = block]
    /\ UNCHANGED <<lotMetadata, lotDocuments, cidToDocument, documentCount, validationRules, pinnedSize, accessLevel, notarizations, notarizedHashes>>

\* Anyone may notarize a hash for any property, once.
NotarizeDocument(caller, lot, hash) ==
    /\ <<lot, hash>> \notin DOMAIN notarizations
    /\ notarizations' = [p \in DOMAIN notarizations \cup {<<lot, hash>>} |->
                            IF p = <<lot, hash>> THEN [by |-> caller, at |-> block] ELSE notarizations[p]]
    /\ notarizedHashes' = [notarizedHashes EXCEPT ![lot] = Append(@, hash)]
    /\ UNCHANGED <<documentVars, lotMetadata, validationRules, pinnedSize, accessLevel>>

\* Revoking is granting None.
GrantAccess(caller, lot, account, level) ==
    /\ caller = IpfsAdmin \/ AdminAccess(lot, caller)
    /\ accessLevel' = [accessLevel EXCEPT ![<<lot, account>>] = level]
    /\ UNCHANGED <<documentVars, lotMetadata, validationRules, pinnedSize, notarizations, notarizedHashes>>

UpdateValidationRules(caller, rules) ==
    /\ caller = IpfsAdmin /\ validationRules' = rules
    /\ UNCHANGED <<documentVars, lotMetadata, pinnedSize, accessLevel, notarizations, notarizedHashes>>

AddAllowedMimeType(caller, mimeType) ==
    /\ caller = IpfsAdmin /\ validationRules' = [validationRules EXCEPT !.mimeTypes = @ \cup {mimeType}]
    /\ UNCHANGED <<documentVars, lotMetadata, pinnedSize, accessLevel, notarizations, notarizedHashes>>

\* What the removed document had pinned stays counted.
ReportMaliciousFile(caller, id) ==
    /\ caller = IpfsAdmin /\ id \in DOMAIN documents
    /\ documents' = [d \in DOMAIN documents \ {id} |-> documents[d]]
    /\ cidToDocument' = [c \in DOMAIN cidToDocument \ {documents[id].cid} |-> cidToDocument[c]]
    /\ lotDocuments' = [lotDocuments EXCEPT ![documents[id].lot] = SelectSeq(@, LAMBDA d : d # id)]
    /\ UNCHANGED <<lotMetadata, documentCount, validationRules, pinnedSize, accessLevel, notarizations, notarizedHashes>>

DocumentsNext ==
    \E caller \in IpfsUsers :
        \/ \E l \in Lots, c \in Cids, h \in ContentHashes, s \in FileSizes, m \in MimeTypes :
              documentCount < MaxDocuments /\ RegisterIpfsDocument(caller, l, c, h, s, m)
        \/ \E id \in DOMAIN documents :
              PinDocument(caller, id) \/ UnpinDocument(caller, id) \/ ReportMaliciousFile(caller, id)
        \/ \E id \in DOMAIN documents, h \in ContentHashes : VerifyContentHash(caller, id, h)
        \/ \E rules \in RuleSets : UpdateValidationRules(caller, rules)

DocumentRightsNext ==
    \E caller \in IpfsUsers :
        \/ \E l \in Lots, m \in Descriptions : ValidateAndRegisterMetadata(caller, l, m)
        \/ \E l \in Lots, a \in IpfsUsers, level \in AccessLevels : GrantAccess(caller, l, a, level)
        \/ \E l \in Lots, h \in ContentHashes : NotarizeDocument(caller, l, h)
        \/ \E m \in MimeTypes : AddAllowedMimeType(caller, m)

IpfsMoves ==
    \/ (DocumentsNext \/ DocumentRightsNext) /\ UNCHANGED block
    \/ NextBlock /\ UNCHANGED ipfsVars

IpfsSpec == ChainInit /\ IpfsInit /\ [][IpfsMoves]_<<block, ipfsVars>>

----
\* Properties

IpfsTypeOK ==
    /\ validationRules \in Rules /\ documentCount \in Nat
    /\ \A d \in DOMAIN documents : documents[d] \in IpfsDocument
    /\ accessLevel \in [Lots \X IpfsUsers -> AccessLevels] /\ pinnedSize \in [Lots -> Nat]

\* Content ids and documents name each other, every document is in the list of its property,
\* in the order of arrival, and each property is charged for what it has pinned, no less, and
\* no more unless a document was removed, for one that was pinned stays charged
\* (register_ipfs_document, pin_document, unpin_document, report_malicious_file). Each hash
\* notarized for a property is in its list once (notarize_document).
DocumentBooksAgree ==
    /\ IpfsTypeOK
    /\ DOMAIN cidToDocument = {documents[d].cid : d \in DOMAIN documents}
    /\ \A d \in DOMAIN documents : d \in 1..documentCount /\ cidToDocument[documents[d].cid] = d
    /\ \A l \in Lots : LET held == {d \in DOMAIN documents : documents[d].lot = l} IN
          /\ Range(lotDocuments[l]) = held
          /\ \A i \in 2..Len(lotDocuments[l]) : lotDocuments[l][i - 1] < lotDocuments[l][i]
          /\ LET charged == MapThenSumSet(LAMBDA d : documents[d].size, {d \in held : documents[d].pinned}) IN
             /\ pinnedSize[l] >= charged
             /\ documentCount = Cardinality(DOMAIN documents) => pinnedSize[l] = charged
    /\ \A l \in Lots :
          /\ Range(notarizedHashes[l]) = {h \in ContentHashes : <<l, h>> \in DOMAIN notarizations}
          /\ IsInjective(notarizedHashes[l])

\* A hash that is notarized for a property stays so, by the same account at the same block
\* (notarize_document).
NotarizationsStay ==
    \A p \in DOMAIN notarizations : p \in DOMAIN notarizations' /\ notarizations'[p] = notarizations[p]
====
