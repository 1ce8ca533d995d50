---- MODULE Sanctions ----
(***************************************************************************)
(* The sanctions list: entities and properties that are listed, and the    *)
(* screenings of properties against them. Everything is the admin's.       *)
(* Screenings are kept in the order of their numbers.                      *)
(***************************************************************************)
EXTENDS BlockClock, SequencesExt, FiniteSetsExt

CONSTANTS
    SanctionsAdmin, SanctionCallers, SanctionProperties, Jurisdictions,
    FirstEntityLimit, EntityLimits,  \* of entities that are active at once
    MaxEntities, MaxScreenings       \* bounds

VARIABLES sanctionedEntities, sanctionedProperties, screeningResults, propertyScreenings, entityLimit, activeEntities

sanctionVars == <<sanctionedEntities, sanctionedProperties, screeningResults, propertyScreenings, entityLimit, activeEntities>>

ASSUME SanctionConstants ==
    /\ SanctionsAdmin \in SanctionCallers /\ FirstEntityLimit \in Nat /\ EntityLimits \subseteq Nat
    /\ MaxEntities \in Nat /\ MaxScreenings \in Nat

SanctionLevels == {"None", "Monitored", "Restricted", "Prohibited"}
SanctionedEntity == [jurisdiction : Jurisdictions, level : SanctionLevels, active : BOOLEAN]
SanctionedProperty == [level : SanctionLevels, active : BOOLEAN]
NoEntity == 0
ScreeningResult == [property : SanctionProperties, entity : Nat, level : SanctionLevels, passed : BOOLEAN]

SanctionsInit ==
    /\ sanctionedEntities = << >> /\ sanctionedProperties = << >>
    /\ screeningResults = << >> /\ propertyScreenings = [p \in SanctionProperties |-> << >>]
    /\ entityLimit = FirstEntityLimit /\ activeEntities = 0

AddSanctionedEntity(caller, jurisdiction, level) ==
    /\ caller = SanctionsAdmin
    /\ activeEntities < entityLimit
    /\ sanctionedEntities' = Append(sanctionedEntities, [jurisdiction |-> jurisdiction, level |-> level, active |-> TRUE])
    /\ activeEntities' = activeEntities + 1
    /\ UNCHANGED <<sanctionedProperties, screeningResults, propertyScreenings, entityLimit>>

\* Removing what is no longer active is accepted and changes nothing.
RemoveSanctionedEntity(caller, id) ==
    /\ caller = SanctionsAdmin /\ id \in DOMAIN sanctionedEntities /\ sanctionedEntities[id].active
    /\ sanctionedEntities' = [sanctionedEntities EXCEPT ![id].active = FALSE]
    /\ activeEntities' = activeEntities - 1
    /\ UNCHANGED <<sanctionedProperties, screeningResults, propertyScreenings, entityLimit>>

ListProperty(property, entry) ==
    /\ sanctionedProperties' = [p \in DOMAIN sanctionedProperties \cup {property} |-> IF p = property THEN entry ELSE sanctionedProperties[p]]
    /\ UNCHANGED <<sanctionedEntities, screeningResults, propertyScreenings, entityLimit, activeEntities>>

AddSanctionedProperty(caller, property, level) ==
    /\ caller = SanctionsAdmin
    /\ ListProperty(property, [level |-> level, active |-> TRUE])

ClearSanctionedProperty(caller, property) ==
    /\ caller = SanctionsAdmin /\ property \in DOMAIN sanctionedProperties
    /\ ListProperty(property, [sanctionedProperties[property] EXCEPT !.active = FALSE])

SetMaxSanctionedEntities(caller, limit) ==
    /\ caller = SanctionsAdmin
    /\ entityLimit' = limit
    /\ UNCHANGED <<sanctionedEntities, sanctionedProperties, screeningResults, propertyScreenings, activeEntities>>

\* A listed property fails at every level; then the entity, if it is listed in the
\* jurisdiction asked for, fails at every level but None.
PropertyHit(property) == property \in DOMAIN sanctionedProperties /\ sanctionedProperties[property].active
EntityHit(id, jurisdiction) ==
    id \in DOMAIN sanctionedEntities /\ sanctionedEntities[id].active /\ sanctionedEntities[id].jurisdiction = jurisdiction

Screened(property, jurisdiction, id) ==
    IF PropertyHit(property)
    THEN [property |-> property, entity |-> id, level |-> sanctionedProperties[property].level, passed |-> FALSE]
    ELSE IF EntityHit(id, jurisdiction)
    THEN [property |-> property, entity |-> id, level |-> sanctionedEntities[id].level, passed |-> sanctionedEntities[id].level = "None"]
    ELSE [property |-> property, entity |-> id, level |-> "None", passed |-> TRUE]

ScreenProperty(caller, property, jurisdiction, id) ==
    /\ caller = SanctionsAdmin
    /\ screeningResults' = Append(screeningResults, Screened(property, jurisdiction, id))
    /\ propertyScreenings' = [propertyScreenings EXCEPT ![property] = Append(@, Len(screeningResults) + 1)]
    /\ UNCHANGED <<sanctionedEntities, sanctionedProperties, entityLimit, activeEntities>>

PropertyScreenings(property) == [i \in DOMAIN propertyScreenings[property] |-> screeningResults[propertyScreenings[property][i]]]

SanctionsNext ==
    \E caller \in SanctionCallers :
        \/ \E j \in Jurisdictions, level \in {"None", "Restricted"} :
              Len(sanctionedEntities) < MaxEntities /\ AddSanctionedEntity(caller, j, level)
        \/ \E id \in DOMAIN sanctionedEntities : RemoveSanctionedEntity(caller, id)
        \/ \E p \in SanctionProperties, level \in {"None", "Prohibited"} : AddSanctionedProperty(caller, p, level)
        \/ \E p \in SanctionProperties : ClearSanctionedProperty(caller, p)
        \/ \E limit \in EntityLimits : SetMaxSanctionedEntities(caller, limit)
        \/ \E p \in SanctionProperties, j \in Jurisdictions, id \in {NoEntity} \cup DOMAIN sanctionedEntities :
              Len(screeningResults) < MaxScreenings /\ ScreenProperty(caller, p, j, id)

----
\* Properties

SanctionsTypeOK ==
    /\ sanctionedEntities \in Seq(SanctionedEntity) /\ screeningResults \in Seq(ScreeningResult)
    /\ \A p \in DOMAIN sanctionedProperties : sanctionedProperties[p] \in SanctionedProperty

\* The list counts its active entities, so that places become free exactly as entities
\* are removed, and every screening is filed once, under its own property, in order
\* (add_sanctioned_entity, remove_sanctioned_entity, record_screening).
SanctionBooksAgree ==
    /\ SanctionsTypeOK
    /\ activeEntities = Cardinality({id \in DOMAIN sanctionedEntities : sanctionedEntities[id].active})
    /\ \A p \in SanctionProperties : \A i \in DOMAIN PropertyScreenings(p) : PropertyScreenings(p)[i].property = p
    /\ MapThenSumSet(LAMBDA p : Len(propertyScreenings[p]), SanctionProperties) = Len(screeningResults)
====
