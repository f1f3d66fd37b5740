---------------------------- MODULE PriceCatalog ----------------------------
(***************************************************************************)
(* What a request for one model costs and what model it is sent as:        *)
(* getModelPricing of lib/pricing/index.ts and resolveModel of             *)
(* lib/routing/mapping.ts, both cached, against the console's edits in     *)
(* lib/admin/catalog.ts.                                                   *)
(*                                                                         *)
(* A price is what two fields of a row show: the prompt ratio, which every *)
(* edit sets, and the cached ratio, which an edit may leave out.           *)
(***************************************************************************)
EXTENDS Integers

CONSTANTS
    Lookups,        \* calls of getModelPricing and globalMappings in flight
    MaxCatalogEdits,\* bound: edits of the console
    MaxMisreads     \* bound: reads of the database that fail

ASSUME CatalogAssumption == MaxCatalogEdits \in Nat /\ MaxMisreads \in Nat

VARIABLES
    priceRow,    \* model_pricing: the row under each spelling of the name
    price,       \* the cached price, under the normalised name
    mapping,     \* model_mappings, the rows for every channel and for one channel
    table,       \* the cached rows for every channel
    lookup,      \* per lookup: where it is and what it read
    undropped,   \* cached names an edit of a price has yet to drop
    catalogEdits, misreads

catalogVars == <<priceRow, price, mapping, table, lookup, undropped, catalogEdits, misreads>>

\* normalizeModelName: lower case, no vendor prefix.  The console stores what
\* was typed, the relay looks up the normalised name.
Spellings == {"normal", "prefixed"}
NormalizeModelName(spelling) == "normal"

Unset == "unset"
NoPrice == [ratio |-> Unset, cached |-> Unset]
DefaultPricing == [ratio |-> "default", cached |-> "default"]

\* Overrides are merged over the catalogue's defaults, field by field.
Resolve(row) == [field \in {"ratio", "cached"} |->
                    IF row[field] = Unset THEN DefaultPricing[field] ELSE row[field]]

----------------------------------------------------------------------------
(* resolveModel: each layer is applied at most once, the later on top *)

Models == {"a", "b", "c"}
NoMapping == [m \in Models |-> Unset]
NoTable == [m \in {} |-> Unset]   \* nothing cached

ApplyGlobal(rows, requested) == IF rows[requested] = Unset THEN requested ELSE rows[requested]
ApplyLayer(rows, mapped, requested) ==
    IF rows[mapped] # Unset THEN rows[mapped]
    ELSE IF rows[requested] # Unset THEN rows[requested] ELSE mapped

\* The channel's own rows, then the mapping inside its document.
ResolveModel(global, scoped, inline, requested) ==
    LET first  == ApplyGlobal(global, requested)
        second == ApplyLayer(scoped, first, requested)
    IN  ApplyLayer(inline, second, requested)

----------------------------------------------------------------------------
(* getModelPricing and globalMappings *)

NewLookup == [at |-> "idle", price |-> NoPrice, table |-> NoMapping]
catalog == <<priceRow, mapping, undropped, catalogEdits>>

Misread == misreads < MaxMisreads /\ misreads' = misreads + 1

MissPrice(l) ==
    /\ lookup[l].at = "idle" /\ price = NoPrice
    /\ lookup' = [lookup EXCEPT ![l].at = "price row"]
    /\ UNCHANGED <<catalog, price, table, misreads>>

\* A failed read takes the catalogue's price, and caches it all the same.
ReadPrice(l) ==
    /\ lookup[l].at = "price row"
    /\ \E failed \in BOOLEAN :
         /\ IF failed THEN Misread ELSE UNCHANGED misreads
         /\ lookup' = [lookup EXCEPT ![l].at = "price fill",
                ![l].price = IF failed THEN DefaultPricing
                             ELSE Resolve(priceRow[NormalizeModelName("normal")])]
    /\ UNCHANGED <<catalog, price, table>>

FillPrice(l) ==
    /\ lookup[l].at = "price fill"
    /\ price' = lookup[l].price
    /\ lookup' = [lookup EXCEPT ![l] = NewLookup]
    /\ UNCHANGED <<catalog, table, misreads>>

MissTable(l) ==
    /\ lookup[l].at = "idle" /\ table = NoTable
    /\ lookup' = [lookup EXCEPT ![l].at = "table rows"]
    /\ UNCHANGED <<catalog, price, table, misreads>>

\* A failed read maps nothing this once and is not cached.
ReadTable(l) ==
    /\ lookup[l].at = "table rows"
    /\ \/ /\ lookup' = [lookup EXCEPT ![l].at = "table fill", ![l].table = mapping.global]
          /\ UNCHANGED misreads
       \/ Misread /\ lookup' = [lookup EXCEPT ![l] = NewLookup]
    /\ UNCHANGED <<catalog, price, table>>

FillTable(l) ==
    /\ lookup[l].at = "table fill"
    /\ table' = lookup[l].table
    /\ lookup' = [lookup EXCEPT ![l] = NewLookup]
    /\ UNCHANGED <<catalog, price, misreads>>

----------------------------------------------------------------------------
(* The console *)

Edit == catalogEdits < MaxCatalogEdits /\ catalogEdits' = catalogEdits + 1

\* upsertPricing sets the fields it was given and leaves the others.
UpsertPricing ==
    /\ Edit
    /\ \E spelling \in Spellings, ratio \in {"low", "high"}, cached \in {Unset, "low"} :
         /\ priceRow' = [priceRow EXCEPT ![spelling] =
                [ratio |-> ratio, cached |-> IF cached = Unset THEN @.cached ELSE cached]]
         /\ undropped' = undropped \cup {spelling}
    /\ UNCHANGED <<price, mapping, table, lookup, misreads>>

DeletePricing ==
    /\ Edit
    /\ \E spelling \in Spellings :
         /\ priceRow' = [priceRow EXCEPT ![spelling] = NoPrice]
         /\ undropped' = undropped \cup {spelling}
    /\ UNCHANGED <<price, mapping, table, lookup, misreads>>

\* redisDel under the normalised name, whatever spelling was typed.
DropPrice ==
    \E spelling \in undropped :
        /\ undropped' = undropped \ {spelling}
        /\ price' = NoPrice
        /\ UNCHANGED <<priceRow, mapping, table, lookup, catalogEdits, misreads>>

\* upsertMapping and deleteMapping bump the abilities' generation: the cached
\* table stays.
EditMapping ==
    /\ Edit
    /\ \E scope \in {"global", "scoped"}, from \in Models, to \in Models \cup {Unset} :
         mapping' = [mapping EXCEPT ![scope][from] = to]
    /\ UNCHANGED <<priceRow, price, table, lookup, undropped, misreads>>

----------------------------------------------------------------------------
\* A slip: the default price, once cached, stays.
BadPriceExpires == /\ price \notin {NoPrice, DefaultPricing}
                   /\ price' = NoPrice
                   /\ UNCHANGED <<catalog, table, lookup, misreads>>

\* A cached entry's time to live ends.
PriceExpires == /\ price # NoPrice /\ price' = NoPrice
                /\ UNCHANGED <<catalog, table, lookup, misreads>>
TableExpires == /\ table # NoTable /\ table' = NoTable
                /\ UNCHANGED <<catalog, price, lookup, misreads>>

CatalogInit ==
    /\ priceRow = [s \in Spellings |-> NoPrice] /\ price = NoPrice
    /\ mapping = [global |-> NoMapping, scoped |-> NoMapping] /\ table = NoTable
    /\ lookup = [l \in Lookups |-> NewLookup] /\ undropped = {}
    /\ catalogEdits = 0 /\ misreads = 0

LookupStep(l) == ReadPrice(l) \/ FillPrice(l) \/ ReadTable(l) \/ FillTable(l)

CatalogNext ==
    \/ \E l \in Lookups : MissPrice(l) \/ MissTable(l) \/ LookupStep(l)
    \/ UpsertPricing \/ DeletePricing \/ DropPrice \/ EditMapping
    \/ PriceExpires \/ TableExpires

\* Calls run to their end and entries are dropped when their time is over,
\* however often they have been filled again.
CatalogFairness ==
    /\ \A l \in Lookups : WF_catalogVars(LookupStep(l))
    /\ WF_catalogVars(DropPrice)
    /\ SF_catalogVars(PriceExpires) /\ SF_catalogVars(TableExpires)

CatalogSpec == CatalogInit /\ [][CatalogNext]_catalogVars /\ CatalogFairness

----------------------------------------------------------------------------
(* Properties *)

\* What the next request is billed and sent as, and what the rows say.
PriceNow == IF price = NoPrice THEN Resolve(priceRow["normal"]) ELSE price
MappedNow(requested) ==
    ResolveModel(IF table = NoTable THEN mapping.global ELSE table, mapping.scoped, NoMapping, requested)

\* pricing/index.ts, routing/mapping.ts: once the console rests, requests come
\* to be billed at the stored price and sent as the stored mapping says, for
\* good: a price filled from a read before the edit that outlives the edit's
\* invalidation, a default cached by a failed read and a mapping table nobody
\* drops all give way.
CatalogConverges ==
    <>[](/\ PriceNow = Resolve(priceRow["normal"])
         /\ \A m \in Models : MappedNow(m) = ResolveModel(mapping.global, mapping.scoped, NoMapping, m))

\* admin/catalog.ts: "Drop the cached price so the next request bills at the
\* new rate": no edit leaves the price it stored without effect.
\* It does not hold: see the README, section 6.
StoredPricesApply ==
    (undropped = {} /\ price = NoPrice /\ \A l \in Lookups : lookup[l].at = "idle")
        => \A s \in Spellings : priceRow[s] # NoPrice => PriceNow = Resolve(priceRow[s])
=============================================================================
