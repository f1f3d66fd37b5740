---------------------------- MODULE AbilityTable ----------------------------
(***************************************************************************)
(* Which channels a request is offered: lib/routing/abilities.ts for one   *)
(* group and model.  The abilities collection is rebuilt from the channels *)
(* by every console edit (admin/store.ts) and by the health cron           *)
(* (cron/jobs.ts), each in several calls; readers cache what they find.    *)
(*                                                                         *)
(* The cache key holds a generation that every invalidation bumps: only    *)
(* the entry of the newest generation is kept here, and a reader that read *)
(* an older generation fills a key nobody looks up.                        *)
(***************************************************************************)
EXTENDS Integers

CONSTANTS
    Sources,          \* channels of the deployment
    Readers,          \* calls of candidatesFor in flight
    Editors,          \* callers of rebuildAbilities: console calls and the cron
    Cron,             \* the editor that is the health cron
    MaxServingEdits,  \* bound: changes of a channel
    MaxOutages        \* bound: failed reads and calls that die halfway

ASSUME AbilityAssumption == Cron \in Editors /\ MaxServingEdits \in Nat /\ MaxOutages \in Nat

VARIABLES
    serving,    \* channels whose document serves the group and model
    abilities,  \* channels with an ability row
    listing,    \* the cached list of the newest generation
    reader,     \* per reader: its progress through candidatesFor
    editor,     \* per editor: its progress through rebuildAbilities
    edits,      \* changes so far
    outages     \* faults so far

abilityVars == <<serving, abilities, listing, reader, editor, edits, outages>>

NoListing == {"unset"}
NewReader == [at |-> "idle", found |-> {}, stale |-> FALSE]
NewEditor == [at |-> "idle", rows |-> {}]

----------------------------------------------------------------------------
(* candidatesFor *)

\* A hit answers at once; a miss goes to the table.
Miss(r) ==
    /\ reader[r].at = "idle" /\ listing = NoListing
    /\ reader' = [reader EXCEPT ![r].at = "rows"]
    /\ UNCHANGED <<serving, abilities, listing, editor, edits, outages>>

\* What a read of the database returns: nothing at all when it throws.
Reads(rows, found) ==
    \/ found = rows /\ UNCHANGED outages
    \/ found = {} /\ outages < MaxOutages /\ outages' = outages + 1

ReadRows(r) ==
    /\ reader[r].at = "rows"
    /\ \E found \in {abilities, {}} :
         /\ Reads(abilities, found)
         /\ reader' = [reader EXCEPT ![r].found = found,
                                     ![r].at = IF found = {} THEN "derive" ELSE "fill"]
    /\ UNCHANGED <<serving, abilities, listing, editor, edits>>

\* An empty table is a deployment before its first rebuild: scan the channels.
DeriveCandidates(r) ==
    /\ reader[r].at = "derive"
    /\ \E found \in {serving, {}} :
         /\ Reads(serving, found)
         /\ reader' = [reader EXCEPT ![r].found = found, ![r].at = "fill"]
    /\ UNCHANGED <<serving, abilities, listing, editor, edits>>

\* Whatever was found is cached, an empty list too.
FillListing(r) ==
    /\ reader[r].at = "fill"
    /\ listing' = IF reader[r].stale THEN listing ELSE reader[r].found
    /\ reader' = [reader EXCEPT ![r] = NewReader]
    /\ UNCHANGED <<serving, abilities, editor, edits, outages>>

ListingExpires ==
    /\ listing # NoListing /\ listing' = NoListing
    /\ UNCHANGED <<serving, abilities, reader, editor, edits, outages>>

----------------------------------------------------------------------------
(* rebuildAbilities and its callers *)

EditorMoves(e, place) == editor' = [editor EXCEPT ![e].at = place]

\* createChannel, updateChannel and deleteChannel write, then rebuild.
EditServing(e) ==
    /\ editor[e].at = "idle" /\ e # Cron
    /\ edits < MaxServingEdits /\ edits' = edits + 1
    /\ \E c \in Sources : serving' = IF c \in serving THEN serving \ {c} ELSE serving \cup {c}
    /\ EditorMoves(e, "rebuild")
    /\ UNCHANGED <<abilities, listing, reader, outages>>

\* autoDisableChannel takes a channel out and rebuilds nothing.
BreakerDisables ==
    /\ edits < MaxServingEdits /\ edits' = edits + 1
    /\ \E c \in serving : serving' = serving \ {c}
    /\ UNCHANGED <<abilities, listing, reader, editor, outages>>

CronRebuilds ==
    /\ editor[Cron].at = "idle" /\ EditorMoves(Cron, "rebuild")
    /\ UNCHANGED <<serving, abilities, listing, reader, edits, outages>>

\* Reads the channels, deletes every row, inserts the new ones, bumps the
\* generation: four calls, between which other rebuilds may run.
ReadChannels(e) ==
    /\ editor[e].at = "rebuild"
    /\ editor' = [editor EXCEPT ![e].at = "delete", ![e].rows = serving]
    /\ UNCHANGED <<serving, abilities, listing, reader, edits, outages>>

DeleteRows(e) ==
    /\ editor[e].at = "delete"
    /\ abilities' = {} /\ EditorMoves(e, "insert")
    /\ UNCHANGED <<serving, listing, reader, edits, outages>>

\* A slip: the rebuild adds to the table but gives up once it holds rows.
BadInserted(e) == IF abilities = {} THEN {} ELSE abilities \cup editor[e].rows

\* Rows another rebuild has inserted stay.
Inserted(e) == abilities \cup editor[e].rows

InsertRows(e) ==
    /\ editor[e].at = "insert"
    /\ abilities' = Inserted(e)
    /\ editor' = [editor EXCEPT ![e] = [at |-> "invalidate", rows |-> {}]]
    /\ UNCHANGED <<serving, listing, reader, edits, outages>>

InvalidateAbilities(e) ==
    /\ editor[e].at = "invalidate"
    /\ listing' = NoListing
    /\ reader' = [r \in Readers |-> [reader[r] EXCEPT !.stale = reader[r].at # "idle"]]
    /\ editor' = [editor EXCEPT ![e] = NewEditor]
    /\ UNCHANGED <<serving, abilities, edits, outages>>

\* A call throws (a rejected row, a lost connection) or the function is killed.
RebuildStops(e) ==
    /\ editor[e].at # "idle"
    /\ outages < MaxOutages /\ outages' = outages + 1
    /\ editor' = [editor EXCEPT ![e] = NewEditor]
    /\ UNCHANGED <<serving, abilities, listing, reader, edits>>

----------------------------------------------------------------------------
AbilityInit ==
    /\ serving \in SUBSET Sources /\ abilities \in {{}, serving} /\ listing = NoListing
    /\ reader = [r \in Readers |-> NewReader] /\ editor = [e \in Editors |-> NewEditor]
    /\ edits = 0 /\ outages = 0

ReaderStep(r) == ReadRows(r) \/ DeriveCandidates(r) \/ FillListing(r)
RebuildStep(e) == ReadChannels(e) \/ DeleteRows(e) \/ InsertRows(e) \/ InvalidateAbilities(e)

AbilityNext ==
    \/ \E r \in Readers : Miss(r) \/ ReaderStep(r)
    \/ \E e \in Editors : EditServing(e) \/ RebuildStep(e) \/ RebuildStops(e)
    \/ BreakerDisables \/ CronRebuilds \/ ListingExpires

\* Invocations run to their end, the cron comes round, and an entry, filled
\* again or not, is dropped once its time is over.
AbilityFairness ==
    /\ \A r \in Readers : WF_abilityVars(ReaderStep(r))
    /\ \A e \in Editors : WF_abilityVars(RebuildStep(e))
    /\ WF_abilityVars(CronRebuilds) /\ SF_abilityVars(ListingExpires)

AbilitySpec == AbilityInit /\ [][AbilityNext]_abilityVars /\ AbilityFairness

----------------------------------------------------------------------------
(* Properties *)

AbilityTypeOK ==
    /\ serving \subseteq Sources /\ abilities \subseteq Sources
    /\ listing \in SUBSET Sources \cup {NoListing}
    /\ reader \in [Readers -> [at : {"idle", "rows", "derive", "fill"},
                               found : SUBSET Sources, stale : BOOLEAN]]
    /\ editor \in [Editors -> [at : {"idle", "rebuild", "delete", "insert", "invalidate"},
                               rows : SUBSET Sources]]
    /\ edits \in 0..MaxServingEdits /\ outages \in 0..MaxOutages

\* routing/abilities.ts: what candidatesFor would return now.
Offered == IF listing # NoListing THEN listing ELSE IF abilities # {} THEN abilities ELSE serving

\* Once the edits stop, what is offered comes to be what serves, and stays so,
\* also while the cron keeps deleting and inserting the table: rebuilds that
\* undo each other, a rebuild that dies between its writes, a row the breaker
\* left behind and an empty list cached by a failed read are all mended.
OfferedConverges == <>[](Offered = serving)
=============================================================================
