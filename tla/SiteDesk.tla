------------------------------ MODULE SiteDesk ------------------------------
(***************************************************************************)
(* The admin page that edits the public site (pages/admin/public-site.tsx) *)
(* and the settings it edits (siteconfig): each publication is kept as a   *)
(* version, which can be restored.  Of a design, its words and the slides  *)
(* of its carousel are told apart.  Two publications commit in the order   *)
(* of their stamps here; LiveUpdates looks at those that do not.           *)
(***************************************************************************)
EXTENDS Naturals, Sequences, FiniteSets

CONSTANTS
    Stories,        \* what slides are about
    SiteChanges,    \* edits of the admin and publications, together: a bound
    SiteRequests,   \* requests that may be under way when she begins another: a bound
    LedgerReads     \* reads of the ledger that may overlap: a bound

ASSUME SiteAssumption ==
    /\ (\E s, t \in Stories : s # t) /\ LedgerReads # {} /\ {SiteChanges, SiteRequests} \subseteq Nat

VARIABLES
    versions,       \* what is stored, the last one live
    siteDraft,      \* draft
    edited,         \* the draft was edited since it was taken from the service
    edits,          \* edits so far
    opening,        \* the reads of the page: which versions settings and history are from
    publishing,     \* save: where it stands, what it sent, the version it made
    restoring,      \* restoreVersion, likewise
    ledger,         \* the versions the page lists, the newest marked "Live"
    ledgerReads,    \* listSiteConfigVersions after a change
    imageUpload,    \* uploadAsset, with the slides as they were when the file was chosen
    foreign,        \* the live version was made elsewhere, or its answer was lost
    crossed,        \* the live version was made while save and restoreVersion overlapped
    unlisted        \* a read of the ledger was lost, or overlaps with another

pageVars == <<siteDraft, edited, edits, imageUpload>>
ledgerVars == <<ledger, ledgerReads, unlisted>>
writeVars == <<publishing, restoring, crossed>>
siteDeskVars == <<versions, pageVars, opening, ledgerVars, writeVars, foreign>>

Stock(s) == [about |-> s, image |-> "stock"]
NoOpening == [at |-> "idle", settings |-> 0, history |-> 0]
NoUpload == [at |-> "idle", slot |-> 0, slides |-> <<>>]
NoWrite == [at |-> "idle", sent |-> 0, made |-> 0]
Unasked == [at |-> "idle", got |-> 0]

Newest == Len(versions)
MayChange == edits + Newest < SiteChanges + 2
Live == versions[Newest]

AdminMayAsk ==
    LET under == {m \in {<<"open", opening.at>>, <<"save", publishing.at>>,
                         <<"restore", restoring.at>>, <<"upload", imageUpload.at>>} :
                     m[2] # "idle"}
        reads == {r \in LedgerReads : ledgerReads[r] # Unasked}
    IN  Cardinality(under) + Cardinality(reads) < SiteRequests

SiteDeskTypeOK ==
    /\ edited \in BOOLEAN /\ edits \in 0..SiteChanges /\ ledger \in 0..Newest
    /\ opening.at \in {"idle", "asked"} /\ imageUpload.at \in {"idle", "asked"}
    /\ {publishing.at, restoring.at} \subseteq {"idle", "asked", "done"}
    /\ \A r \in LedgerReads : ledgerReads[r].at \in {"idle", "asked", "read"}
    /\ foreign \in BOOLEAN /\ crossed \in BOOLEAN /\ unlisted \in BOOLEAN

\* Two versions are stored.  The page shows what the site's provider holds, live or not,
\* until its reads are answered.
SiteDeskInit ==
    LET first == CHOOSE s \in Stories : TRUE
        carousel == <<Stock(first), Stock(CHOOSE s \in Stories : s # first)>>
    IN  /\ versions = [v \in 1..2 |-> [words |-> v, slides |-> carousel]]
        /\ siteDraft = [words |-> 0, slides |-> carousel]
        /\ edited = FALSE /\ edits = 0 /\ opening = [NoOpening EXCEPT !.at = "asked"]
        /\ publishing = NoWrite /\ restoring = NoWrite /\ imageUpload = NoUpload
        /\ ledger = 0 /\ ledgerReads = [r \in LedgerReads |-> Unasked]
        /\ foreign = FALSE /\ crossed = FALSE /\ unlisted = FALSE

Stores(design) ==
    /\ MayChange /\ versions' = Append(versions, design)

\* a draft that comes from the service; edits made meanwhile are gone
TakesDesign(design) ==
    siteDraft' = design /\ edited' = FALSE /\ UNCHANGED <<edits, imageUpload>>

-----------------------------------------------------------------------------
(* The page is opened: three requests, answered together. *)

SettingsRead ==
    /\ opening.at = "asked" /\ opening.settings = 0
    /\ opening' = [opening EXCEPT !.settings = Newest]
    /\ UNCHANGED <<versions, pageVars, ledgerVars, writeVars, foreign>>

HistoryRead ==
    /\ opening.at = "asked" /\ opening.history = 0
    /\ opening' = [opening EXCEPT !.history = Newest]
    /\ UNCHANGED <<versions, pageVars, ledgerVars, writeVars, foreign>>

PageLoads ==
    /\ opening.settings # 0 /\ opening.history # 0 /\ opening' = NoOpening
    /\ TakesDesign(versions[opening.settings]) /\ ledger' = opening.history
    /\ UNCHANGED <<versions, ledgerReads, unlisted, writeVars, foreign>>

\* the draft stays what the provider held, and can be published
PageLoadFails ==
    /\ opening.at = "asked" /\ opening' = NoOpening
    /\ foreign' = TRUE /\ unlisted' = TRUE
    /\ UNCHANGED <<versions, pageVars, ledger, ledgerReads, writeVars>>

-----------------------------------------------------------------------------
(* The draft is edited, while reads and writes are under way, too. *)

Edits(slides) ==
    /\ MayChange /\ edits' = edits + 1 /\ edited' = TRUE
    /\ siteDraft' = [siteDraft EXCEPT !.slides = slides]

EditsOnly == UNCHANGED <<versions, opening, ledgerVars, writeVars, foreign>>

\* update
TypesWords ==
    /\ MayChange /\ edits' = edits + 1 /\ edited' = TRUE
    /\ siteDraft' = [siteDraft EXCEPT !.words = 3]
    /\ UNCHANGED imageUpload /\ EditsOnly

\* moveSlide
MovesSlide ==
    /\ Len(siteDraft.slides) = 2 /\ Edits(<<siteDraft.slides[2], siteDraft.slides[1]>>)
    /\ UNCHANGED imageUpload /\ EditsOnly

SlidesWithout(i) ==
    LET slides == siteDraft.slides
    IN  [k \in 1..(Len(slides) - 1) |-> IF k < i THEN slides[k] ELSE slides[k + 1]]

RemovesSlide(i) ==
    /\ Len(siteDraft.slides) > 1 /\ Edits(SlidesWithout(i))
    /\ UNCHANGED imageUpload /\ EditsOnly

AddsSlide(s) ==
    /\ \A i \in DOMAIN siteDraft.slides : siteDraft.slides[i].about # s
    /\ Edits(Append(siteDraft.slides, Stock(s)))
    /\ UNCHANGED imageUpload /\ EditsOnly

\* one upload at a time; the code allows one for each slide
ChoosesImage(i) ==
    /\ imageUpload.at = "idle" /\ MayChange /\ AdminMayAsk
    /\ imageUpload' = [at |-> "asked", slot |-> i, slides |-> siteDraft.slides]
    /\ UNCHANGED <<siteDraft, edited, edits>> /\ EditsOnly

\* Mutant: the image goes to the slide that has the place of the one it was chosen for.
UploadArrivesInPlace ==
    /\ imageUpload.at = "asked" /\ imageUpload' = NoUpload
    /\ imageUpload.slot \in DOMAIN siteDraft.slides
    /\ Edits([siteDraft.slides EXCEPT ![imageUpload.slot].image =
                  imageUpload.slides[imageUpload.slot].about])
    /\ EditsOnly

\* updateSlide, of the page as it was when the file was chosen: the image goes to its slide,
\* and the carousel is again what it was then
UploadArrives ==
    /\ imageUpload.at = "asked" /\ imageUpload' = NoUpload
    /\ Edits([imageUpload.slides EXCEPT ![imageUpload.slot].image =
                  imageUpload.slides[imageUpload.slot].about])
    /\ EditsOnly

UploadFails ==
    /\ imageUpload.at = "asked" /\ imageUpload' = NoUpload
    /\ UNCHANGED <<siteDraft, edited, edits>> /\ EditsOnly

-----------------------------------------------------------------------------
(* The draft is published, or a version restored. *)

\* "Publish changes"; an announcement without its event is not sent
SavesSite ==
    /\ publishing.at = "idle" /\ opening.at = "idle" /\ AdminMayAsk
    /\ publishing' = [NoWrite EXCEPT !.at = "asked", !.sent = siteDraft]
    /\ UNCHANGED <<versions, pageVars, opening, ledgerVars, restoring, crossed, foreign>>

\* a version the page lists, except the one marked "Live"
RestoresVersion(v) ==
    /\ restoring.at = "idle" /\ v < ledger /\ AdminMayAsk
    /\ restoring' = [NoWrite EXCEPT !.at = "asked", !.sent = versions[v]]
    /\ UNCHANGED <<versions, pageVars, opening, ledgerVars, publishing, crossed, foreign>>

\* Stored, and answered, or the answer is lost; or refused.  The other write may be under way.
Handled(write, written, other) ==
    \/ /\ write.at = "asked" /\ Stores(write.sent) /\ crossed' = (other.at # "idle")
       /\ \/ written = [write EXCEPT !.at = "done", !.made = Newest + 1] /\ foreign' = FALSE
          \/ written = NoWrite /\ foreign' = TRUE
    \/ write.at = "asked" /\ written = NoWrite /\ UNCHANGED <<versions, crossed, foreign>>

WriteHandled ==
    /\ \/ Handled(publishing, publishing', restoring) /\ UNCHANGED restoring
       \/ Handled(restoring, restoring', publishing) /\ UNCHANGED publishing
    /\ UNCHANGED <<pageVars, opening, ledgerVars>>

\* What was stored becomes the draft, and the ledger is read again, whoever waits for it.
TakesWritten(write) ==
    /\ write.at = "done" /\ TakesDesign(versions[write.made])
    /\ \E r \in LedgerReads :
          /\ ledgerReads[r] = Unasked
          /\ ledgerReads' = [ledgerReads EXCEPT ![r].at = "asked"]
    /\ unlisted' = \E r \in LedgerReads : ledgerReads[r] # Unasked
    /\ UNCHANGED <<versions, opening, ledger, crossed, foreign>>

SiteSaveArrives == TakesWritten(publishing) /\ publishing' = NoWrite /\ UNCHANGED restoring
RestoreArrives == TakesWritten(restoring) /\ restoring' = NoWrite /\ UNCHANGED publishing

LedgerHandled(r) ==
    /\ ledgerReads[r].at = "asked"
    /\ ledgerReads' = [ledgerReads EXCEPT ![r] = [at |-> "read", got |-> Newest]]
    /\ UNCHANGED <<versions, pageVars, opening, ledger, unlisted, writeVars, foreign>>

LedgerArrives(r) ==
    /\ ledgerReads[r].at = "read" /\ ledger' = ledgerReads[r].got
    /\ ledgerReads' = [ledgerReads EXCEPT ![r] = Unasked]
    /\ UNCHANGED <<versions, pageVars, opening, unlisted, writeVars, foreign>>

\* a failed read of the ledger is not mentioned
LedgerLost(r) ==
    /\ ledgerReads[r] # Unasked /\ unlisted' = TRUE
    /\ ledgerReads' = [ledgerReads EXCEPT ![r] = Unasked]
    /\ UNCHANGED <<versions, pageVars, opening, ledger, writeVars, foreign>>

\* another admin publishes; a read of this page that is not answered yet will tell
OtherAdminPublishes ==
    /\ Stores([words |-> 4, slides |-> Live.slides])
    /\ foreign' = (foreign \/ opening.at = "idle" \/ opening.settings # 0)
    /\ unlisted' = (unlisted \/ opening.at = "idle" \/ opening.history # 0)
    /\ UNCHANGED <<pageVars, opening, ledger, ledgerReads, writeVars>>

SiteDeskNext ==
    \/ SettingsRead \/ HistoryRead \/ PageLoads \/ PageLoadFails
    \/ TypesWords \/ MovesSlide \/ (\E s \in Stories : AddsSlide(s))
    \/ \E i \in DOMAIN siteDraft.slides : RemovesSlide(i) \/ ChoosesImage(i)
    \/ UploadArrives \/ UploadFails
    \/ SavesSite \/ (\E v \in 1..Newest : RestoresVersion(v)) \/ WriteHandled
    \/ SiteSaveArrives \/ RestoreArrives
    \/ \E r \in LedgerReads : LedgerHandled(r) \/ LedgerArrives(r) \/ LedgerLost(r)
    \/ OtherAdminPublishes

SiteDeskSpec == SiteDeskInit /\ [][SiteDeskNext]_siteDeskVars

-----------------------------------------------------------------------------
\* An image is on the slide it was chosen for, in the draft and in every version, although
\* slides are moved, removed and published while it is uploaded.
ImagesStay ==
    \A d \in {siteDraft} \union {versions[v] : v \in DOMAIN versions} :
        \A i \in DOMAIN d.slides : d.slides[i].image \in {"stock", d.slides[i].about}

\* Once nothing is under way, a draft that is not edited is the live design, and the ledger
\* marks it, unless it was made elsewhere or without an answer: edits, publications and
\* restorations may overlap with reads in any order.  Only a publication and a restoration
\* that overlap may leave the other's design in the editor, and reads of the ledger that
\* overlap or fail an older list.
DeskShowsLive ==
    LET settled == /\ {opening.at, publishing.at, restoring.at} = {"idle"}
                   /\ \A r \in LedgerReads : ledgerReads[r] = Unasked
    IN  settled /\ ~foreign =>
            /\ ~edited /\ ~crossed => siteDraft = Live
            /\ ~unlisted => ledger = Newest

SiteDeskIsTrue == ImagesStay /\ DeskShowsLive
=============================================================================
