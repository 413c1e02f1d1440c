----------------------------- MODULE RunnerCard -----------------------------
(***************************************************************************)
(* The runner's saved details, edited on the web's profile page            *)
(* (pages/profile.tsx) and in the application's EditProfileScreen.  The    *)
(* web loads them once and knows what it saved; the application keeps a    *)
(* cached query, which is read again in the background and overwrites the  *)
(* fields when its data changes.  Nothing takes back a save that is under  *)
(* way when the page is left: it may be stored after the page, opened      *)
(* again, has read the details.                                            *)
(***************************************************************************)
EXTENDS Naturals

CONSTANTS
    Drafts      \* contents the runner's details may have

VARIABLES
    surface,    \* "web" or "phone"
    storedCard, \* the profile the service holds
    fields,     \* form, values
    base,       \* savedForm; the data of the query ["me"]
    loadedMe,   \* the details have been loaded
    query,      \* getMe, or the fetch of the query
    staleMe,    \* the query is invalidated
    save,       \* saveProfile, the mutation save
    notice,     \* the page says that the details are saved
    typed,      \* a field was edited since
    unsure,     \* a save was refused on a lost answer: the page cannot know
    leftSaves,  \* saves that no page waits for any more, and that may still be stored
    outrun      \* one of them was stored, and the fields have not shown what is stored since

leftVars == <<leftSaves, outrun>>
cardVars ==
    <<surface, storedCard, fields, base, loadedMe, query, staleMe, save, notice, typed, unsure, leftVars>>

NoQuery == "none"
AtRest == [at |-> "idle", of |-> NoQuery]

CardTypeOK ==
    LET Maybe == Drafts \union {NoQuery}
    IN  /\ surface \in {"web", "phone"} /\ storedCard \in Drafts
        /\ fields \in Maybe /\ base \in Maybe
        /\ loadedMe \in BOOLEAN /\ staleMe \in BOOLEAN /\ notice \in BOOLEAN
        /\ typed \in BOOLEAN /\ unsure \in BOOLEAN
        /\ query \in [at : {"idle", "asked", "read"}, of : Maybe]
        /\ save \in [at : {"idle", "asked", "done", "failed"}, of : Maybe]
        /\ leftSaves \subseteq Drafts /\ outrun \in BOOLEAN

CardInit ==
    /\ surface \in {"web", "phone"} /\ storedCard \in Drafts
    /\ fields = NoQuery /\ base = NoQuery /\ loadedMe = FALSE
    /\ query = [at |-> "asked", of |-> NoQuery] /\ staleMe = FALSE
    /\ save = AtRest /\ notice = FALSE /\ typed = FALSE /\ unsure = FALSE
    /\ leftSaves = {} /\ outrun = FALSE

\* The page is left and opened again.  A save that was asked for goes on without it.
ReopensCard ==
    /\ fields' = NoQuery /\ base' = NoQuery /\ loadedMe' = FALSE
    /\ query' = [at |-> "asked", of |-> NoQuery] /\ staleMe' = FALSE
    /\ save' = AtRest /\ notice' = FALSE /\ typed' = FALSE /\ unsure' = FALSE
    /\ leftSaves' = IF save.at = "asked" THEN leftSaves \union {save.of} ELSE leftSaves
    /\ outrun' = FALSE /\ UNCHANGED <<surface, storedCard>>

\* The service gets to a save that no page waits for.  (That the application reads its query
\* again when the answer comes is one of its other reads, QueryAgain.)
LeftSaveStored(d) ==
    /\ d \in leftSaves /\ leftSaves' = leftSaves \ {d} /\ storedCard' = d /\ outrun' = TRUE
    /\ UNCHANGED <<surface, fields, base, loadedMe, query, staleMe, save, notice, typed, unsure>>

QueryHandled ==
    /\ query.at = "asked" /\ query' = [at |-> "read", of |-> storedCard]
    /\ UNCHANGED <<surface, storedCard, fields, base, loadedMe, staleMe, save, notice, typed, unsure, leftVars>>

\* The web fills its form.  The application's effect runs when the data has changed, and
\* then overwrites what was typed.
QueryArrives ==
    /\ query.at = "read" /\ query' = AtRest /\ loadedMe' = TRUE
    /\ base' = query.of /\ staleMe' = FALSE
    /\ IF query.of # base
       THEN fields' = query.of /\ typed' = FALSE
       ELSE UNCHANGED <<fields, typed>>
    /\ outrun' = (outrun /\ fields' # storedCard)
    /\ UNCHANGED <<surface, storedCard, save, notice, unsure, leftSaves>>

QueryFails ==
    /\ query.at # "idle" /\ query' = AtRest
    /\ UNCHANGED <<surface, storedCard, fields, base, loadedMe, staleMe, save, notice, typed, unsure, leftVars>>

\* the application reads again: in front again, back on line, past its staleTime
QueryAgain ==
    /\ surface = "phone" /\ query.at = "idle"
    /\ query' = [at |-> "asked", of |-> NoQuery]
    /\ UNCHANGED <<surface, storedCard, fields, base, loadedMe, staleMe, save, notice, typed, unsure, leftVars>>

\* the fields of the application are locked while it saves, those of the web are not
Types(d) ==
    /\ loadedMe /\ (surface = "phone" => save.at = "idle") /\ d # fields
    /\ fields' = d /\ typed' = TRUE
    /\ UNCHANGED <<surface, storedCard, base, loadedMe, query, staleMe, save, notice, unsure, leftVars>>

Dirty == fields # base

\* the button of the web is disabled without changes
SavesCard ==
    /\ loadedMe /\ save.at = "idle" /\ (surface = "web" => Dirty)
    /\ save' = [at |-> "asked", of |-> fields]
    /\ notice' = FALSE /\ typed' = FALSE
    /\ UNCHANGED <<surface, storedCard, fields, base, loadedMe, query, staleMe, unsure, leftVars>>

\* The service stores the details and answers with them, or the answer is lost; or the page
\* loses the connection first, and the service may yet get to it.
SaveHandled ==
    /\ save.at = "asked"
    /\ \/ /\ storedCard' = save.of /\ save' \in {[save EXCEPT !.at = r] : r \in {"done", "failed"}}
          /\ UNCHANGED leftSaves
       \/ /\ UNCHANGED storedCard /\ save' = [save EXCEPT !.at = "failed"]
          /\ leftSaves' \in {leftSaves, leftSaves \union {save.of}}
    /\ UNCHANGED <<surface, fields, base, loadedMe, query, staleMe, notice, typed, unsure, outrun>>

\* The web puts the answer into the form, over what was typed meanwhile; the application
\* invalidates its query, which is read again, discarding a read that is on its way.
SaveArrives ==
    /\ save.at \in {"done", "failed"} /\ save' = AtRest
    /\ IF save.at = "failed"
       THEN unsure' = TRUE /\ UNCHANGED <<fields, base, notice, typed, query, staleMe, outrun>>
       ELSE /\ notice' = TRUE /\ unsure' = FALSE
            /\ IF surface = "web"
               THEN /\ fields' = save.of /\ base' = save.of /\ typed' = FALSE /\ UNCHANGED <<query, staleMe>>
                    /\ outrun' = (outrun /\ save.of # storedCard)
               ELSE /\ query' = [at |-> "asked", of |-> NoQuery] /\ staleMe' = TRUE
                    /\ UNCHANGED <<fields, base, typed, outrun>>
    /\ UNCHANGED <<surface, storedCard, loadedMe, leftSaves>>

CardNext ==
    \/ ReopensCard \/ QueryHandled \/ QueryArrives \/ QueryFails \/ QueryAgain
    \/ (\E d \in Drafts : Types(d) \/ LeftSaveStored(d)) \/ SavesCard \/ SaveHandled \/ SaveArrives

CardSpec == CardInit /\ [][CardNext]_cardVars

-----------------------------------------------------------------------------
\* What the page says is saved is what the service holds: the web says that the card is up
\* to date while the form equals what it saved last, the application says that it is saved
\* (a claim about the fields once its query is settled and until one is edited).  The page
\* is wrong only when a save of its own went unanswered, and when a save that was left
\* behind, on an earlier opening or on a lost connection, is stored after the page heard
\* from the service.
CardIsStored ==
    loadedMe /\ save.at = "idle" /\ ~unsure /\ ~outrun =>
        /\ surface = "web" /\ ~Dirty => fields = storedCard
        /\ surface = "phone" /\ notice /\ query.at = "idle" /\ ~staleMe /\ ~typed => fields = storedCard
=============================================================================
