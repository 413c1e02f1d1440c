---------------------------- MODULE RunnerProofs ----------------------------
(***************************************************************************)
(* What the clients do for a runner, for any number of races, presses and  *)
(* attempts, of links, polls, activities, pages and reads, whatever     *)
(* order answers come in.                                                  *)
(*                                                                         *)
(* Her screens: everything a screen or the payment sheet holds was read of *)
(* an entry at some time, so it is enough that entries move in one         *)
(* direction: what was true when it was read (AsRead) stays true (Onward). *)
(* The list of the phone needs more: a read that was answered before an    *)
(* outcome must not be shown after it (MineAgrees).                        *)
(*                                                                         *)
(* A Telegram link connects a chat at most once: the invariant ties the    *)
(* stored link to the links that were handed out.  A link that was never   *)
(* made has connected nobody, so the one SaveLinkToken stores is unused,   *)
(* and a used one is not stored.                                           *)
(*                                                                         *)
(* An activity the runner was told she follows stays until she lets it go: *)
(* the invariant says what each clean-up relies on.  An answer nobody      *)
(* disturbed lists every activity that is followed, and what a start or a  *)
(* stop may end is not followed, or no longer.                             *)
(*                                                                         *)
(* Pages of races that are neither stale nor mixed are, one after the      *)
(* other, those of the list as it is, and so is what is being read.        *)
(***************************************************************************)
EXTENDS RunnerWeb, MCClients, SequenceTheorems, FiniteSetTheorems, TLAPS

-----------------------------------------------------------------------------
(* The payment sheet. *)

\* What is known of an entry that was once read, or answered for, in state st.
AsRead(c, st) ==
    /\ entry[c] # "none"
    /\ st = "confirmed" => c \in won
    /\ st = "ended" => entry[c] = "ended"
    /\ st = "review" => entry[c] # "unpaid"

ApiInv ==
    /\ ApiTypeOK
    /\ \A c \in Choices : entry[c] = "confirmed" => c \in won

SheetTypes ==
    /\ sheet \in Choices \union {NoChoice}
    /\ phase \in Phases /\ swapped \in BOOLEAN
    /\ poll \in [of : Choices \union {NoChoice},
                 at : {"idle", "asked", "confirmed", "pending", "over", "lost"}]
    /\ submit \in [Presses -> [of : Choices \union {NoChoice},
                               at : {"idle", "asked", "accepted", "refused"}]]

\* a check or a submission is about an entry the runner has: the one of the sheet, unless
\* another checkout was put into it
AboutSheet(c) == c \in Choices /\ entry[c] # "none" /\ (swapped \/ c = sheet)

PollOK ==
    poll.at # "idle" =>
        /\ AboutSheet(poll.of)
        /\ poll.at = "confirmed" => poll.of \in won
        /\ poll.at = "over" => entry[poll.of] = "ended"

SubmitOK(p) ==
    submit[p].at # "idle" =>
        /\ AboutSheet(submit[p].of)
        /\ submit[p].at = "accepted" => entry[submit[p].of] # "unpaid"

SheetInv ==
    /\ ApiInv /\ SheetTypes
    /\ sheet # NoChoice => entry[sheet] # "none"
    /\ PollOK /\ \A p \in Presses : SubmitOK(p)
    /\ SheetIsTrue

\* What no step undoes: an entry is not forgotten, nor made unpaid again, nor revived, and
\* what was confirmed is remembered.
Onward ==
    /\ ApiInv'
    /\ won \subseteq won'
    /\ \A c \in Choices :
         /\ entry[c] # "none" => entry'[c] # "none"
         /\ entry[c] \notin {"none", "unpaid"} => entry'[c] \notin {"none", "unpaid"}
         /\ entry[c] = "ended" => entry'[c] = "ended"

\* Every request and every act of others moves entries on.
LEMMA EntriesMoveOn ==
    ASSUME ApiInv, NEW c \in Choices,
           \/ Enrolled(c) \/ AcceptsReference(c) \/ Withdraws(c)
           \/ Approves(c) \/ Rejects(c) \/ Lapses(c)
           \/ UNCHANGED apiVars
    PROVE  Onward
<1> USE DEF ApiInv, ApiTypeOK, Onward, EntryStates
<1>1. CASE Enrolled(c)
  BY <1>1 DEF Enrolled
<1>2. CASE AcceptsReference(c)
  BY <1>2 DEF AcceptsReference
<1>3. CASE Withdraws(c)
  BY <1>3 DEF Withdraws, Pending
<1>4. CASE Approves(c)
  BY <1>4 DEF Approves
<1>5. CASE Rejects(c) \/ Lapses(c)
  BY <1>5 DEF Rejects, Lapses
<1>6. CASE UNCHANGED apiVars
  BY <1>6 DEF apiVars
<1> QED
  BY <1>1, <1>2, <1>3, <1>4, <1>5, <1>6

LEMMA UntouchedMovesOn == ApiInv /\ UNCHANGED apiVars => Onward
BY DEF ApiInv, ApiTypeOK, Onward, apiVars

LEMMA AsReadStays ==
    ASSUME ApiInv, Onward, NEW c \in Choices, NEW st, AsRead(c, st)
    PROVE  AsRead(c, st)'
BY DEF ApiInv, ApiTypeOK, Onward, AsRead, EntryStates

\* What the service says of an entry holds of it, and goes on to.
LEMMA AnswersHold ==
    ASSUME ApiInv, NEW c \in Choices, entry[c] # "none"
    PROVE  AsRead(c, entry[c])
BY DEF ApiInv, AsRead

\* A sheet that rests is not disturbed by what happens to entries.
LEMMA EntriesKeepSheet ==
    ASSUME SheetInv, Onward, UNCHANGED checkoutVars
    PROVE  SheetInv'
<1>1. SheetTypes' /\ ApiInv'
  BY DEF SheetInv, SheetTypes, Onward, checkoutVars
<1>2. (sheet # NoChoice => entry[sheet] # "none")' /\ SheetIsTrue'
  BY NoChoiceAssumption DEF SheetInv, SheetTypes, Onward, checkoutVars, SheetIsTrue, ApiInv, ApiTypeOK
<1>3. PollOK'
  BY DEF SheetInv, SheetTypes, Onward, checkoutVars, PollOK, AboutSheet
<1>4. \A p \in Presses : SubmitOK(p)'
  BY DEF SheetInv, SheetTypes, Onward, checkoutVars, SubmitOK, AboutSheet
<1> QED
  BY <1>1, <1>2, <1>3, <1>4 DEF SheetInv

\* A checkout is shown in the state it was read in, or one that follows it.
LEMMA ShowsKeepsSheet ==
    ASSUME SheetInv, UNCHANGED apiVars, NEW c \in Choices,
           NEW st \in EntryStates \ {"none"}, AsRead(c, st), Shows(c, st)
    PROVE  SheetInv'
<1>1. ApiInv' /\ entry[c] # "none" /\ sheet' = c
  BY DEF SheetInv, ApiInv, ApiTypeOK, apiVars, AsRead, Shows
<1>2. CASE sheet = NoChoice
  <2>1. /\ phase' \in InitialPhases(c, st)
        /\ poll' = Rest /\ submit' = NoPress /\ swapped' = FALSE
    BY <1>2 DEF Shows
  <2>2. phase' \in Phases /\ SheetIsTrue'
    BY <1>1, <2>1 DEF InitialPhases, Phases, SheetIsTrue, AsRead, EntryStates, apiVars
  <2>3. SheetTypes' /\ PollOK' /\ \A p \in Presses : SubmitOK(p)'
    BY <1>1, <2>1, <2>2 DEF SheetTypes, PollOK, SubmitOK, Rest, NoPress
  <2> QED
    BY <1>1, <2>2, <2>3 DEF SheetInv, apiVars
<1>3. CASE sheet # NoChoice
  <2>1. swapped' = (swapped \/ c # sheet) /\ UNCHANGED <<phase, poll, submit>>
    BY <1>3 DEF Shows
  <2>2. SheetTypes'
    BY <1>1, <2>1 DEF SheetInv, SheetTypes
  <2>3. SheetIsTrue'
    BY <1>1, <1>3, <2>1 DEF SheetInv, SheetIsTrue, SheetTypes, apiVars
  <2>4. PollOK' /\ \A p \in Presses : SubmitOK(p)'
    BY <1>1, <2>1 DEF SheetInv, SheetTypes, PollOK, SubmitOK, AboutSheet, apiVars
  <2> QED
    BY <1>1, <2>2, <2>3, <2>4 DEF SheetInv, apiVars
<1> QED
  BY <1>2, <1>3

LEMMA UnmountsKeepsSheet ==
    ASSUME SheetInv, UNCHANGED apiVars, NEW others, Unmounts(others)
    PROVE  SheetInv'
BY DEF SheetInv, ApiInv, ApiTypeOK, apiVars, Unmounts, SheetTypes, PollOK, SubmitOK, SheetIsTrue,
       Rest, NoPress, Phases

\* The steps of the sheet itself: its poll, its submissions, and what is under way of a
\* sheet that was closed.
LEMMA SheetStepsKeepSheet ==
    ASSUME SheetInv, SheetSteps
    PROVE  SheetInv' /\ Onward
<1>1. ASSUME Verify
      PROVE  SheetInv' /\ Onward
  <2>1. UNCHANGED apiVars /\ UNCHANGED <<sheet, phase, submit, swapped>> /\ sheet # NoChoice
        /\ poll' = [of |-> sheet, at |-> "asked"]
    BY <1>1 DEF Verify, Asks
  <2>2. Onward
    BY <2>1, UntouchedMovesOn DEF SheetInv
  <2> QED
    BY <2>1, <2>2 DEF SheetInv, Onward, SheetTypes, PollOK, SubmitOK, AboutSheet, SheetIsTrue, apiVars
<1>2. ASSUME VerifyHandled
      PROVE  SheetInv' /\ Onward
  <2>1. UNCHANGED apiVars /\ UNCHANGED <<sheet, phase, submit, swapped>> /\ poll.at = "asked"
        /\ poll' = [poll EXCEPT !.at = Verdict(poll.of)]
    BY <1>2 DEF VerifyHandled
  <2>2. Onward
    BY <2>1, UntouchedMovesOn DEF SheetInv
  <2>3. poll.of \in Choices /\ entry[poll.of] \in EntryStates \ {"none"} /\ AboutSheet(poll.of)
    BY <2>1 DEF SheetInv, PollOK, AboutSheet, ApiInv, ApiTypeOK
  <2>4. poll'.of = poll.of /\ poll'.at = Verdict(poll.of)
        /\ poll' \in [of : Choices \union {NoChoice}, at : {"confirmed", "pending", "over"}]
    BY <2>1, <2>3 DEF SheetInv, SheetTypes, Verdict
  <2>5. PollOK' /\ SheetTypes'
    BY <2>1, <2>3, <2>4 DEF SheetInv, SheetTypes, PollOK, AboutSheet, Verdict, Pending, EntryStates, apiVars,
                            ApiInv
  <2> QED
    BY <2>1, <2>2, <2>5 DEF SheetInv, Onward, SubmitOK, AboutSheet, SheetIsTrue, apiVars
<1>3. ASSUME VerifyArrives
      PROVE  SheetInv' /\ Onward
  <2>1. /\ UNCHANGED apiVars /\ UNCHANGED <<sheet, submit, swapped>> /\ poll.at # "idle"
        /\ poll' = Rest
        /\ phase' = CASE poll.at = "confirmed" -> "confirmed"
                      [] poll.at = "over" -> "failed"
                      [] OTHER -> phase
    BY <1>3 DEF VerifyArrives
  <2>2. Onward
    BY <2>1, UntouchedMovesOn DEF SheetInv
  <2>3. SheetIsTrue' /\ phase' \in Phases
    BY <2>1 DEF SheetInv, SheetTypes, PollOK, AboutSheet, SheetIsTrue, Phases, apiVars
  <2> QED
    BY <2>1, <2>2, <2>3 DEF SheetInv, Onward, SheetTypes, PollOK, SubmitOK, AboutSheet, Rest, apiVars
<1>4. ASSUME NEW p \in Presses, SubmitPayment(p)
      PROVE  SheetInv' /\ Onward
  <2>1. UNCHANGED apiVars /\ UNCHANGED <<sheet, phase, poll, swapped>> /\ sheet # NoChoice
        /\ submit' = [submit EXCEPT ![p] = [of |-> sheet, at |-> "asked"]]
    BY <1>4 DEF SubmitPayment, Asks
  <2>2. Onward
    BY <2>1, UntouchedMovesOn DEF SheetInv
  <2> QED
    BY <2>1, <2>2 DEF SheetInv, Onward, SheetTypes, PollOK, SubmitOK, AboutSheet, SheetIsTrue, apiVars
<1>5. ASSUME NEW p \in Presses, SubmitHandled(p)
      PROVE  SheetInv' /\ Onward
  <2>1. /\ UNCHANGED <<sheet, phase, poll, swapped>> /\ submit[p].at = "asked"
        /\ \/ AcceptsReference(submit[p].of) /\ submit' = [submit EXCEPT ![p].at = "accepted"]
           \/ /\ AcceptsReference(submit[p].of) \/ UNCHANGED apiVars
              /\ submit' = [submit EXCEPT ![p].at = "refused"]
    BY <1>5 DEF SubmitHandled, RefusesReference
  <2>2. submit[p].of \in Choices /\ entry[submit[p].of] # "none" /\ AboutSheet(submit[p].of)
    BY <2>1 DEF SheetInv, SubmitOK, AboutSheet
  <2>3. Onward
    BY <2>1, <2>2, EntriesMoveOn DEF SheetInv
  <2>4. SheetTypes'
    BY <2>1 DEF SheetInv, SheetTypes
  <2>5. (sheet # NoChoice => entry[sheet] # "none")' /\ SheetIsTrue' /\ PollOK'
    BY <2>1, <2>3 DEF SheetInv, SheetTypes, Onward, SheetIsTrue, PollOK, AboutSheet, ApiInv, ApiTypeOK
  <2>6. SubmitOK(p)'
    BY <2>1, <2>2, <2>3
      DEF SheetInv, SheetTypes, Onward, SubmitOK, AboutSheet, AcceptsReference, ApiInv, ApiTypeOK
  <2>7. \A q \in Presses \ {p} : SubmitOK(q)'
    BY <2>1, <2>3 DEF SheetInv, SheetTypes, Onward, SubmitOK, AboutSheet
  <2> QED
    BY <2>3, <2>4, <2>5, <2>6, <2>7 DEF SheetInv, Onward
<1>6. ASSUME NEW p \in Presses, SubmitArrives(p)
      PROVE  SheetInv' /\ Onward
  <2>1. /\ UNCHANGED apiVars /\ UNCHANGED <<sheet, poll, swapped>> /\ submit[p].at # "idle"
        /\ submit' = [submit EXCEPT ![p] = Rest]
        /\ phase' = IF submit[p].at = "accepted" THEN "processing" ELSE phase
    BY <1>6 DEF SubmitArrives
  <2>2. Onward
    BY <2>1, UntouchedMovesOn DEF SheetInv
  <2>3. SheetIsTrue' /\ phase' \in Phases
    BY <2>1 DEF SheetInv, SheetTypes, SubmitOK, AboutSheet, SheetIsTrue, Phases, apiVars
  <2> QED
    BY <2>1, <2>2, <2>3 DEF SheetInv, Onward, SheetTypes, PollOK, SubmitOK, AboutSheet, Rest, apiVars
<1>7. ASSUME Straggles
      PROVE  SheetInv' /\ Onward
  <2>1. PICK c \in Choices : AcceptsReference(c) \/ Enrolled(c) \/ Withdraws(c) \/ UNCHANGED apiVars
    BY <1>7 DEF Straggles
  <2>2. Onward
    BY <2>1, EntriesMoveOn DEF SheetInv
  <2>3. UNCHANGED <<sheet, phase, poll, submit, swapped>>
    BY <1>7 DEF Straggles
  <2> QED
    BY <2>2, <2>3 DEF SheetInv, Onward, SheetTypes, PollOK, SubmitOK, AboutSheet, SheetIsTrue
<1> QED
  BY <1>1, <1>2, <1>3, <1>4, <1>5, <1>6, <1>7 DEF SheetSteps

-----------------------------------------------------------------------------
(* The sheet on the pages of the web: what they put into it was read of an entry the *)
(* runner has, however long ago.                                                     *)

ListInv ==
    /\ list \in Lists
    /\ reads \in [Readers -> [at : {"idle", "asked", "read"}, got : Lists]]
    /\ \A c \in Choices : list[c] # "none" => entry[c] # "none"
    /\ \A r \in Readers, c \in Choices : reads[r].got[c] # "none" => entry[c] # "none"

FormInv ==
    /\ enter \in {"idle", "asked", "unpaid", "confirmed", "refused"}
    /\ enter # "idle" => page \in Choices
    /\ enter = "unpaid" => entry[page] # "none"

ResumeInv ==
    /\ resume \in [Choices -> EntryStates \union {"idle", "asked"}]
    /\ \A c \in Choices :
         /\ resume[c] # "idle" => entry[c] # "none"
         /\ resume[c] \in EntryStates => resume[c] # "none" /\ AsRead(c, resume[c])

WebInv == SheetInv /\ ListInv /\ FormInv /\ ResumeInv

\* Reading the list of entries.
LEMMA SnapshotHolds ==
    ASSUME ApiInv
    PROVE  /\ Snapshot \in Lists /\ Empty \in Lists
           /\ \A c \in Choices : Empty[c] = "none" /\ (Snapshot[c] # "none" => entry[c] # "none")
BY DEF ApiInv, ApiTypeOK, Snapshot, Empty, Lists, Listing, Pending, EntryStates

\* What the pages hold outlives what happens to the entries.
LEMMA EntriesKeepPages ==
    ASSUME WebInv, Onward, UNCHANGED webClientVars
    PROVE  ListInv' /\ FormInv' /\ ResumeInv'
<1> USE DEF WebInv, webClientVars, webPageVars, formVars, walletVars
<1>1. ListInv'
  BY DEF ListInv, Onward, Lists
<1>2. FormInv'
  BY DEF FormInv, Onward
<1>3. ResumeInv'
  <2>1. ASSUME NEW c \in Choices, resume[c] \in EntryStates
        PROVE  resume[c] # "none" /\ AsRead(c, resume[c])'
    <3>1. resume[c] # "none" /\ AsRead(c, resume[c])
      BY <2>1 DEF ResumeInv
    <3>2. DEFINE st == resume[c]
    <3>3. AsRead(c, st)
      BY <3>1
    <3> HIDE DEF st
    <3>4. entry'[c] # "none" /\ (st = "confirmed" => c \in won') /\ (st = "ended" => entry'[c] = "ended")
          /\ (st = "review" => entry'[c] # "unpaid")
      BY <3>3 DEF Onward, AsRead
    <3> QED
      BY <3>1, <3>4 DEF AsRead, st
  <2> QED
    BY <2>1 DEF ResumeInv, Onward
<1> QED
  BY <1>1, <1>2, <1>3

\* A page that is opened forgets everything.
LEMMA OpensKeepsWeb ==
    ASSUME WebInv, UNCHANGED apiVars, NEW p, Opens(p)
    PROVE  WebInv'
<1>1. \E others : Unmounts(others)
  BY DEF Opens
<1>2. SheetInv'
  BY <1>1, UnmountsKeepsSheet DEF WebInv
<1>3. ListInv'
  <2>1. list' = Empty /\ reads' = [Nothing EXCEPT !["load"] = AsksList]
    BY DEF Opens
  <2> QED
    BY <2>1, SnapshotHolds DEF WebInv, SheetInv, ListInv, Nothing, NotReading, AsksList, apiVars
<1>4. FormInv' /\ ResumeInv'
  BY DEF Opens, FormInv, ResumeInv, EntryStates
<1> QED
  BY <1>2, <1>3, <1>4 DEF WebInv

\* Steps that leave sheet and entries alone.
LEMMA QuietWebSteps ==
    ASSUME WebInv, UNCHANGED <<apiVars, checkoutVars>>, ListInv', FormInv', ResumeInv'
    PROVE  WebInv'
<1>1. Onward
  BY UntouchedMovesOn DEF WebInv, SheetInv
<1> QED
  BY <1>1, EntriesKeepSheet DEF WebInv

LEMMA ListStepsKeepWeb ==
    ASSUME WebInv,
           \/ \E r \in Readers : ListRead(r) \/ Reread(r)
           \/ Loaded \/ Counted \/ SelectsCategory \/ Registers
    PROVE  WebInv'
<1>1. ASSUME NEW r \in Readers, ListRead(r)
      PROVE  WebInv'
  <2>1. ListInv'
    BY <1>1, SnapshotHolds DEF ListRead, WebInv, SheetInv, ListInv, apiVars
  <2> QED
    BY <1>1, <2>1, QuietWebSteps
      DEF ListRead, WebInv, FormInv, ResumeInv, AsRead, apiVars, formVars, walletVars
<1>2. ASSUME NEW r \in Readers, Reread(r)
      PROVE  WebInv'
  <2>1. ListInv'
    BY <1>2, SnapshotHolds DEF Reread, WebInv, SheetInv, ListInv, NotReading, apiVars
  <2> QED
    BY <1>2, <2>1, QuietWebSteps DEF Reread, WebInv, FormInv, ResumeInv, AsRead, apiVars, formVars
<1>3. ASSUME Loaded
      PROVE  WebInv'
  <2>1. ListInv'
    BY <1>3, SnapshotHolds DEF Loaded, WebInv, SheetInv, ListInv, NotReading, apiVars, Readers
  <2> QED
    BY <1>3, <2>1, QuietWebSteps DEF Loaded, WebInv, FormInv, ResumeInv, AsRead, apiVars, formVars, walletVars
<1>4. ASSUME Counted \/ SelectsCategory \/ Registers
      PROVE  WebInv'
  BY <1>4, QuietWebSteps
  DEF Counted, SelectsCategory, Registers, FormShown, WebInv, ListInv, FormInv, ResumeInv, AsRead,
      apiVars, webPageVars, walletVars
<1> QED
  BY <1>1, <1>2, <1>3, <1>4

LEMMA RegisterStepsKeepWeb ==
    ASSUME WebInv, RegisterHandled \/ RegisterArrives
    PROVE  WebInv'
<1>1. ASSUME RegisterHandled
      PROVE  WebInv'
  <2>1. /\ page \in Choices /\ UNCHANGED <<checkoutVars, webPageVars, walletVars>>
        /\ \/ Enrolled(page) /\ enter' \in {entry'[page], "refused"}
           \/ UNCHANGED apiVars /\ enter' = "refused"
    BY <1>1 DEF RegisterHandled, WebInv, FormInv
  <2>2. Onward
    BY <2>1, EntriesMoveOn DEF WebInv, SheetInv
  <2>3. SheetInv'
    BY <2>1, <2>2, EntriesKeepSheet DEF WebInv
  <2>4. FormInv'
    BY <2>1 DEF FormInv, Enrolled, WebInv, SheetInv, ApiInv, ApiTypeOK, webPageVars
  <2>5. ListInv'
    BY <2>1, <2>2 DEF WebInv, ListInv, Onward, Lists, webPageVars
  <2>6. \A c \in Choices : resume[c] \in EntryStates => AsRead(c, resume[c])'
    BY <2>1, <2>2, AsReadStays DEF WebInv, SheetInv, ResumeInv, walletVars
  <2>7. ResumeInv'
    BY <2>1, <2>2, <2>6 DEF WebInv, ResumeInv, Onward, walletVars
  <2> QED
    BY <2>3, <2>4, <2>5, <2>7 DEF WebInv
<1>2. ASSUME RegisterArrives
      PROVE  WebInv'
  <2>1. UNCHANGED apiVars
    BY <1>2 DEF RegisterArrives
  <2>2. CASE enter = "unpaid"
    <3>1. /\ Shows(page, "unpaid") /\ enter' = "idle" /\ page \in Choices /\ entry[page] # "none"
          /\ UNCHANGED <<webPageVars, selected, known, walletVars>>
      BY <1>2, <2>2 DEF RegisterArrives, WebInv, FormInv
    <3>2. AsRead(page, "unpaid") /\ "unpaid" \in EntryStates \ {"none"}
      BY <3>1 DEF AsRead, EntryStates
    <3>3. SheetInv'
      BY <2>1, <3>1, <3>2, ShowsKeepsSheet DEF WebInv
    <3> QED
      BY <2>1, <3>1, <3>3 DEF WebInv, ListInv, FormInv, ResumeInv, AsRead, apiVars, webPageVars, walletVars
  <2>3. CASE enter = "confirmed"
    BY <1>2, <2>1, <2>3, OpensKeepsWeb DEF RegisterArrives
  <2>4. CASE enter = "refused"
    BY <1>2, <2>1, <2>4, QuietWebSteps
    DEF RegisterArrives, WebInv, ListInv, FormInv, ResumeInv, AsRead, apiVars, webPageVars, walletVars
  <2> QED
    BY <1>2, <2>2, <2>3, <2>4 DEF RegisterArrives
<1> QED
  BY <1>1, <1>2

LEMMA ResumeStepsKeepWeb ==
    ASSUME WebInv, NEW c \in Choices, ResumePayment(c) \/ ResumeHandled(c) \/ ResumeArrives(c)
    PROVE  WebInv'
<1>1. ASSUME ResumePayment(c)
      PROVE  WebInv'
  <2>1. ResumeInv'
    BY <1>1 DEF ResumePayment, WebInv, ListInv, ResumeInv, AsRead, apiVars, EntryStates
  <2> QED
    BY <1>1, <2>1, QuietWebSteps DEF ResumePayment, WebInv, ListInv, FormInv, apiVars, webPageVars, formVars
<1>2. ASSUME ResumeHandled(c)
      PROVE  WebInv'
  <2>1. /\ UNCHANGED <<apiVars, checkoutVars, webPageVars, formVars, cancel>>
        /\ resume' = [resume EXCEPT ![c] = entry[c]] /\ entry[c] # "none" /\ entry[c] \in EntryStates
    BY <1>2 DEF ResumeHandled, WebInv, ResumeInv, SheetInv, ApiInv, ApiTypeOK
  <2>2. AsRead(c, entry[c])
    BY <2>1, AnswersHold DEF WebInv, SheetInv
  <2>3. ResumeInv'
    <3>1. AsRead(c, entry[c])' /\ \A d \in Choices : resume[d] \in EntryStates => AsRead(d, resume[d])'
      BY <2>1, <2>2 DEF WebInv, ResumeInv, AsRead, apiVars
    <3> QED
      BY <2>1, <3>1 DEF WebInv, ResumeInv, AsRead, apiVars
  <2> QED
    BY <2>1, <2>3, QuietWebSteps DEF WebInv, ListInv, FormInv, apiVars, webPageVars, formVars
<1>3. ASSUME ResumeArrives(c)
      PROVE  WebInv'
  <2>1. /\ UNCHANGED <<apiVars, webPageVars, formVars, cancel>> /\ resume' = [resume EXCEPT ![c] = "idle"]
        /\ resume[c] # "idle"
        /\ IF resume[c] = "asked" THEN UNCHANGED checkoutVars ELSE Shows(c, resume[c])
    BY <1>3 DEF ResumeArrives
  <2>2. ListInv' /\ FormInv' /\ ResumeInv'
    BY <2>1 DEF WebInv, ListInv, FormInv, ResumeInv, AsRead, apiVars, webPageVars, formVars, EntryStates
  <2>3. CASE resume[c] = "asked"
    BY <2>1, <2>2, <2>3, QuietWebSteps
  <2>4. CASE resume[c] # "asked"
    <3>1. resume[c] \in EntryStates \ {"none"} /\ AsRead(c, resume[c])
      BY <2>1, <2>4 DEF WebInv, ResumeInv
    <3>2. SheetInv'
      BY <2>1, <2>4, <3>1, ShowsKeepsSheet DEF WebInv
    <3> QED
      BY <2>2, <3>2 DEF WebInv
  <2> QED
    BY <2>3, <2>4
<1> QED
  BY <1>1, <1>2, <1>3

LEMMA CancelStepsKeepWeb ==
    ASSUME WebInv, NEW c \in Choices, CancelEntry(c) \/ CancelHandled(c) \/ CancelArrives(c)
    PROVE  WebInv'
<1>1. ASSUME CancelEntry(c)
      PROVE  WebInv'
  BY <1>1, QuietWebSteps
  DEF CancelEntry, WebInv, ListInv, FormInv, ResumeInv, AsRead, apiVars, webPageVars, formVars
<1>2. ASSUME CancelHandled(c)
      PROVE  WebInv'
  <2>1. UNCHANGED <<checkoutVars, webPageVars, formVars, resume>> /\ (Withdraws(c) \/ UNCHANGED apiVars)
    BY <1>2 DEF CancelHandled
  <2>2. Onward
    BY <2>1, EntriesMoveOn DEF WebInv, SheetInv
  <2>3. SheetInv'
    BY <2>1, <2>2, EntriesKeepSheet DEF WebInv
  <2>4. \A d \in Choices : resume[d] \in EntryStates => AsRead(d, resume[d])'
    BY <2>1, <2>2, AsReadStays DEF WebInv, SheetInv, ResumeInv
  <2>5. ListInv' /\ FormInv'
    BY <2>1, <2>2 DEF WebInv, ListInv, FormInv, Onward, Lists, webPageVars, formVars
  <2> QED
    BY <2>1, <2>2, <2>3, <2>4, <2>5 DEF WebInv, ResumeInv, Onward
<1>3. ASSUME CancelArrives(c)
      PROVE  WebInv'
  <2>1. ListInv'
    BY <1>3, SnapshotHolds DEF CancelArrives, WebInv, SheetInv, ListInv, AsksList, apiVars
  <2> QED
    BY <1>3, <2>1, QuietWebSteps DEF CancelArrives, WebInv, FormInv, ResumeInv, AsRead, apiVars, formVars
<1> QED
  BY <1>1, <1>2, <1>3

LEMMA SheetPagesKeepWeb ==
    ASSUME WebInv, CloseSheet \/ FinishPayment \/ RestartsEntry
    PROVE  WebInv'
<1>1. ASSUME CloseSheet
      PROVE  WebInv'
  <2>1. SheetInv'
    BY <1>1, UnmountsKeepsSheet DEF CloseSheet, WebInv, apiVars
  <2> QED
    BY <1>1, <2>1 DEF CloseSheet, WebInv, ListInv, FormInv, ResumeInv, AsRead, apiVars,
                      webClientVars, webPageVars, formVars, walletVars
<1>2. ASSUME FinishPayment
      PROVE  WebInv'
  <2>1. CASE page \in Choices
    BY <1>2, <2>1, OpensKeepsWeb DEF FinishPayment
  <2>2. CASE page \notin Choices
    <3>1. /\ Unmounts({}) /\ reads' = [reads EXCEPT !["paid"] = AsksList]
          /\ UNCHANGED <<apiVars, page, list, formVars, walletVars>>
      BY <1>2, <2>2 DEF FinishPayment
    <3>2. SheetInv'
      BY <3>1, UnmountsKeepsSheet DEF WebInv
    <3>3. ListInv'
      BY <3>1, SnapshotHolds DEF WebInv, SheetInv, ListInv, AsksList, apiVars
    <3> QED
      BY <3>1, <3>2, <3>3 DEF WebInv, FormInv, ResumeInv, AsRead, apiVars, formVars, walletVars
  <2> QED
    BY <2>1, <2>2
<1>3. ASSUME RestartsEntry
      PROVE  WebInv'
  BY <1>3, OpensKeepsWeb DEF RestartsEntry
<1> QED
  BY <1>1, <1>2, <1>3

LEMMA WebStepKeepsInv ==
    ASSUME WebInv, [RunnerWebNext]_runnerWebVars
    PROVE  WebInv'
<1>1. CASE \/ \E p \in Choices \union {"dashboard"} : Visits(p)
           \/ Leaves
  BY <1>1, OpensKeepsWeb DEF Visits, Leaves
<1>2. CASE \/ \E r \in Readers : ListRead(r) \/ Reread(r)
           \/ Loaded \/ Counted \/ SelectsCategory \/ Registers
  BY <1>2, ListStepsKeepWeb
<1>3. CASE RegisterHandled \/ RegisterArrives
  BY <1>3, RegisterStepsKeepWeb
<1>4. CASE \E c \in Choices : ResumePayment(c) \/ ResumeHandled(c) \/ ResumeArrives(c)
  BY <1>4, ResumeStepsKeepWeb
<1>5. CASE \E c \in Choices : CancelEntry(c) \/ CancelHandled(c) \/ CancelArrives(c)
  BY <1>5, CancelStepsKeepWeb
<1>6. CASE CloseSheet \/ FinishPayment \/ RestartsEntry
  BY <1>6, SheetPagesKeepWeb
<1>7. CASE SheetSteps /\ UNCHANGED webClientVars
  BY <1>7, SheetStepsKeepSheet, EntriesKeepPages DEF WebInv
<1>8. CASE OthersAct /\ UNCHANGED <<checkoutVars, webClientVars>>
  <2>1. Onward
    BY <1>8, EntriesMoveOn DEF OthersAct, WebInv, SheetInv
  <2> QED
    BY <1>8, <2>1, EntriesKeepSheet, EntriesKeepPages DEF WebInv
<1>9. CASE UNCHANGED runnerWebVars
  BY <1>9, UntouchedMovesOn, EntriesKeepSheet, EntriesKeepPages DEF WebInv, SheetInv, runnerWebVars
<1> QED
  BY <1>1, <1>2, <1>3, <1>4, <1>5, <1>6, <1>7, <1>8, <1>9 DEF RunnerWebNext

\* What the web's payment sheet says is true of the entry it is about, for any number of
\* races, submissions and requests under way: "confirmed", "failed" and "processing" are
\* shown (components/BakongPayment.tsx, handleVerify and submitPayment) only for an entry of
\* which they hold, whatever order answers come in.
THEOREM WebSheetsTellTruth == RunnerWebSpec => []SheetIsTrue
<1>1. RunnerWebInit => WebInv
  <2> SUFFICES ASSUME RunnerWebInit
               PROVE  WebInv
    OBVIOUS
  <2>1. ApiInv
    BY DEF RunnerWebInit, ApiInit, ApiInv, ApiTypeOK, EntryStates
  <2>2. SheetInv
    BY <2>1 DEF RunnerWebInit, CheckoutInit, SheetInv, SheetTypes, PollOK, SubmitOK, SheetIsTrue,
                Rest, NoPress, Phases
  <2> QED
    BY <2>1, <2>2, SnapshotHolds
    DEF RunnerWebInit, WebInv, ListInv, FormInv, ResumeInv, Nothing, NotReading, EntryStates
<1>2. WebInv /\ [RunnerWebNext]_runnerWebVars => WebInv'
  BY WebStepKeepsInv
<1>3. WebInv => SheetIsTrue
  BY DEF WebInv, SheetInv
<1> QED
  BY <1>1, <1>2, <1>3, PTL DEF RunnerWebSpec

-----------------------------------------------------------------------------
(* The phone: its sheet, and the list of entries that follows what the runner was told. *)

Agrees(st) ==
    /\ told = "withdrawn" => st \notin Active
    /\ told = "entered" => st # "none"

CacheTypes ==
    cache \in [Queries -> [data : Known \union {"unread"}, stale : BOOLEAN,
                           failed : BOOLEAN, fetch : Known \union {"idle", "asked"}]]

\* what was answered, and what is shown unless it is known to be old
MineAgrees ==
    LET mine == cache["mine"]
    IN  /\ mine.data # "unread" /\ ~mine.stale => Agrees(mine.data)
        /\ mine.fetch \in Known => Agrees(mine.fetch)

\* the outcomes that are under way or were told, and the entry itself
OutcomesHold ==
    /\ signup \in {"unpaid", "confirmed"} => entry[MyRace] # "none"
    /\ withdrawal = "done" => entry[MyRace] = "ended"
    /\ told = "withdrawn" => entry[MyRace] = "ended"
    /\ told = "entered" => entry[MyRace] # "none"

CheckoutsHold ==
    /\ checkout \in EntryStates /\ reopen \in EntryStates \union {"idle", "asked"}
    /\ checkout # "none" => AsRead(MyRace, checkout)
    /\ reopen \in EntryStates \ {"none"} => AsRead(MyRace, reopen)

PhoneInv ==
    /\ SheetInv /\ CacheTypes
    /\ signup \in {"idle", "asked", "busy", "unpaid", "confirmed", "refused"}
    /\ MineAgrees /\ OutcomesHold /\ CheckoutsHold

LEMMA EntriesKeepPhone ==
    ASSUME PhoneInv, Onward, UNCHANGED phoneVars
    PROVE  CacheTypes' /\ MineAgrees' /\ OutcomesHold' /\ CheckoutsHold' /\ UNCHANGED signup
<1> USE MyRaceAssumption DEF phoneVars, mutationVars
<1>1. CacheTypes' /\ MineAgrees' /\ UNCHANGED signup
  BY DEF PhoneInv, CacheTypes, MineAgrees, Agrees
<1>2. OutcomesHold'
  BY DEF PhoneInv, OutcomesHold, Onward
<1>3. (checkout # "none" => AsRead(MyRace, checkout)') /\ (reopen \in EntryStates \ {"none"} => AsRead(MyRace, reopen)')
  BY AsReadStays DEF PhoneInv, CheckoutsHold, SheetInv
<1> QED
  BY <1>1, <1>2, <1>3 DEF PhoneInv, CheckoutsHold, AsRead

\* A step that leaves entries and sheet alone, or shows or hides the sheet.
LEMMA SheetFollowsKeeps ==
    ASSUME PhoneInv, UNCHANGED apiVars, NEW c, NEW held \in EntryStates,
           held # "none" => AsRead(MyRace, held), SheetFollows(c, held)
    PROVE  SheetInv'
<1>1. ASSUME UNCHANGED checkoutVars
      PROVE  SheetInv'
  BY <1>1, UntouchedMovesOn, EntriesKeepSheet DEF PhoneInv, SheetInv
<1>2. CASE held = "none"
  BY <1>1, <1>2 DEF SheetFollows
<1>3. CASE held # "none"
  <2>1. UNCHANGED checkoutVars \/ Unmounts({}) \/ Shows(MyRace, held)
    BY <1>3 DEF SheetFollows
  <2> QED
    BY <1>1, <1>3, <2>1, UnmountsKeepsSheet, ShowsKeepsSheet, MyRaceAssumption DEF PhoneInv
<1> QED
  BY <1>2, <1>3

LEMMA SheetAwayKeeps ==
    ASSUME PhoneInv, UNCHANGED apiVars,
           IF sheet = NoChoice THEN UNCHANGED checkoutVars ELSE Unmounts({})
    PROVE  SheetInv'
BY UntouchedMovesOn, EntriesKeepSheet, UnmountsKeepsSheet DEF PhoneInv, SheetInv

\* The cache.
LEMMA QueryStepsKeepPhone ==
    ASSUME PhoneInv,
           \/ \E q \in Queries : Refetches(q) \/ FetchHandled(q) \/ FetchArrives(q) \/ FetchFails(q)
           \/ Signalled
    PROVE  PhoneInv'
<1> USE MyRaceAssumption
<1>1. ASSUME UNCHANGED <<apiVars, checkout, mutationVars>>, SheetInv', CacheTypes', MineAgrees'
      PROVE  PhoneInv'
  BY <1>1 DEF PhoneInv, OutcomesHold, CheckoutsHold, AsRead, apiVars, mutationVars
<1>2. ASSUME UNCHANGED <<apiVars, checkoutVars>>
      PROVE  SheetInv'
  BY <1>2, UntouchedMovesOn, EntriesKeepSheet DEF PhoneInv, SheetInv
<1>3. ASSUME NEW q \in Queries, Refetches(q)
      PROVE  PhoneInv'
  <2>1. CacheTypes' /\ MineAgrees'
    BY <1>3 DEF Refetches, PhoneInv, CacheTypes, MineAgrees, Agrees, mutationVars, Queries, Known
  <2> QED
    BY <1>1, <1>2, <1>3, <2>1 DEF Refetches
<1>4. ASSUME NEW q \in Queries, FetchHandled(q)
      PROVE  PhoneInv'
  <2>1. /\ cache' = [cache EXCEPT ![q].fetch = InList(entry[MyRace])] /\ cache[q].fetch = "asked"
        /\ InList(entry[MyRace]) \in Known /\ UNCHANGED told
        /\ entry[MyRace] # "none" => InList(entry[MyRace]) # "none"
        /\ entry[MyRace] = "ended" => InList(entry[MyRace]) = "ended"
    BY <1>4 DEF FetchHandled, PhoneInv, SheetInv, ApiInv, ApiTypeOK, EntryStates, InList, Known, Pending,
                mutationVars
  <2>2. Agrees(InList(entry[MyRace]))
    BY <2>1 DEF PhoneInv, OutcomesHold, Agrees, Active
  <2>3. CacheTypes'
    BY <2>1 DEF PhoneInv, CacheTypes
  <2>4. MineAgrees'
    BY <2>1, <2>2 DEF PhoneInv, CacheTypes, MineAgrees, Agrees, Queries
  <2> QED
    BY <1>1, <1>2, <1>4, <2>3, <2>4 DEF FetchHandled
<1>5. ASSUME NEW q \in Queries, FetchArrives(q)
      PROVE  PhoneInv'
  <2>1. /\ cache' = [cache EXCEPT ![q] = [Unread EXCEPT !.data = cache[q].fetch]]
        /\ cache[q].fetch \in Known /\ UNCHANGED told
    BY <1>5 DEF FetchArrives, mutationVars
  <2>2. CacheTypes' /\ MineAgrees'
    BY <2>1 DEF PhoneInv, CacheTypes, MineAgrees, Agrees, Queries, Unread, Known
  <2>3. SheetInv'
    BY <1>5, SheetFollowsKeeps DEF FetchArrives, PhoneInv, CheckoutsHold
  <2> QED
    BY <1>1, <1>5, <2>2, <2>3 DEF FetchArrives
<1>6. ASSUME NEW q \in Queries, FetchFails(q)
      PROVE  PhoneInv'
  <2>1. /\ cache' = [cache EXCEPT ![q].fetch = "idle", ![q].failed = (q = "detail")]
        /\ UNCHANGED told
    BY <1>6 DEF FetchFails, mutationVars
  <2>2. CacheTypes' /\ MineAgrees'
    BY <2>1 DEF PhoneInv, CacheTypes, MineAgrees, Agrees, Queries, Known
  <2>3. SheetInv'
    BY <1>6, SheetFollowsKeeps DEF FetchFails, PhoneInv, CheckoutsHold
  <2> QED
    BY <1>1, <1>6, <2>2, <2>3 DEF FetchFails
<1>7. ASSUME Signalled
      PROVE  PhoneInv'
  <2>1. cache' = [q \in Queries |-> Invalidated(q)] /\ UNCHANGED told
    BY <1>7 DEF Signalled, mutationVars
  <2>2. CacheTypes' /\ MineAgrees'
    BY <2>1 DEF PhoneInv, CacheTypes, MineAgrees, Agrees, Queries, Known, Invalidated, Observed, FirstRead
  <2> QED
    BY <1>1, <1>2, <1>7, <2>2 DEF Signalled
<1> QED
  BY <1>3, <1>4, <1>5, <1>6, <1>7

\* What the runner is told of, and the list that is invalidated with it.
LEMMA ToldAgrees ==
    ASSUME PhoneInv, NEW outcome, Tells(outcome),
           outcome = "withdrawn" => entry[MyRace] = "ended",
           outcome = "entered" => entry[MyRace] # "none",
           cache'["mine"] = Invalidated("mine"), UNCHANGED apiVars
    PROVE  /\ MineAgrees'
           /\ told' = "withdrawn" => entry'[MyRace] = "ended"
           /\ told' = "entered" => entry'[MyRace] # "none"
<1>1. told' \in {"nothing", outcome}
  BY DEF Tells
<1>2. CASE FirstRead("mine")
  <2>1. cache'["mine"] = cache["mine"] /\ cache["mine"].data = "unread"
    BY <1>2 DEF Invalidated, FirstRead
  <2>2. cache["mine"].fetch \in Known => told' = "nothing"
    BY <1>2 DEF Tells
  <2> QED
    BY <1>1, <2>1, <2>2 DEF MineAgrees, Agrees, apiVars
<1>3. CASE ~FirstRead("mine")
  <2>1. cache'["mine"].stale /\ cache'["mine"].fetch = "asked"
    BY <1>3 DEF Invalidated, Observed, PhoneInv, CacheTypes, Queries
  <2> QED
    BY <1>1, <2>1 DEF MineAgrees, Agrees, Known, apiVars
<1> QED
  BY <1>2, <1>3

LEMMA InvalidatedTypes ==
    ASSUME PhoneInv, NEW q \in Queries
    PROVE  Invalidated(q) \in [data : Known \union {"unread"}, stale : BOOLEAN,
                               failed : BOOLEAN, fetch : Known \union {"idle", "asked"}]
BY DEF PhoneInv, CacheTypes, Invalidated

\* The screens.
LEMMA GoesKeepsPhone ==
    ASSUME PhoneInv, UNCHANGED <<apiVars, signup, withdrawal, told>>, NEW s, Goes(s)
    PROVE  PhoneInv'
<1>1. SheetInv'
  BY SheetAwayKeeps DEF Goes
<1>2. PICK detail \in Mounted(s) : cache' = [cache EXCEPT !["detail"] = detail]
  BY DEF Goes
<1>3. detail \in [data : Known \union {"unread"}, stale : BOOLEAN,
                  failed : BOOLEAN, fetch : Known \union {"idle", "asked"}]
  <2>1. CASE detail = Unread
    BY <2>1 DEF Unread
  <2>2. CASE detail = [Unread EXCEPT !.fetch = "asked"]
    BY <2>2 DEF Unread
  <2>3. ASSUME NEW d \in Active \union {"ended"}, detail = [Unread EXCEPT !.data = d]
        PROVE  detail \in [data : Known \union {"unread"}, stale : BOOLEAN,
                           failed : BOOLEAN, fetch : Known \union {"idle", "asked"}]
    BY <2>3 DEF Unread, Active, Known
  <2> QED
    BY <1>2, <2>1, <2>2, <2>3 DEF Mounted
<1>4. CacheTypes' /\ MineAgrees'
  BY <1>2, <1>3 DEF PhoneInv, CacheTypes, MineAgrees, Agrees, Queries
<1> QED
  BY <1>1, <1>4 DEF Goes, PhoneInv, OutcomesHold, CheckoutsHold, EntryStates, apiVars

LEMMA RegisterStepsKeepPhone ==
    ASSUME PhoneInv,
           \/ PhoneRegisters \/ PhoneRegisterHandled \/ PhoneRetries
           \/ PhoneRegisterArrives \/ PhoneRegisterRefused
    PROVE  PhoneInv'
<1> USE MyRaceAssumption
<1>1. ASSUME PhoneRegisters \/ PhoneRetries \/ PhoneRegisterRefused
      PROVE  PhoneInv'
  <2>1. UNCHANGED <<apiVars, checkoutVars, cache, checkout, reopen, withdrawal, told>>
        /\ signup' \in {"idle", "asked"}
    BY <1>1 DEF PhoneRegisters, PhoneRetries, PhoneRegisterRefused
  <2>2. SheetInv'
    BY <2>1, UntouchedMovesOn, EntriesKeepSheet DEF PhoneInv, SheetInv
  <2> QED
    BY <2>1, <2>2 DEF PhoneInv, CacheTypes, MineAgrees, Agrees, OutcomesHold, CheckoutsHold, AsRead, apiVars
<1>2. ASSUME PhoneRegisterHandled
      PROVE  PhoneInv'
  <2>1. /\ UNCHANGED <<checkoutVars, screen, cache, checkout, attempt, here, reopen, withdrawal, told>>
        /\ \/ Enrolled(MyRace) /\ signup' \in {entry'[MyRace], "refused"}
           \/ UNCHANGED apiVars /\ signup' \in {"busy", "refused"}
    BY <1>2 DEF PhoneRegisterHandled
  <2>2. Onward
    BY <2>1, EntriesMoveOn DEF PhoneInv, SheetInv
  <2>3. SheetInv'
    BY <2>1, <2>2, EntriesKeepSheet DEF PhoneInv
  <2>4. /\ signup' \in {"unpaid", "confirmed", "busy", "refused"}
        /\ signup' \in {"unpaid", "confirmed"} => entry'[MyRace] # "none"
    BY <2>1 DEF Enrolled, PhoneInv, SheetInv, ApiInv, ApiTypeOK
  <2>5. CacheTypes' /\ MineAgrees'
    BY <2>1 DEF PhoneInv, CacheTypes, MineAgrees, Agrees
  <2>6. OutcomesHold'
    BY <2>1, <2>2, <2>4 DEF PhoneInv, OutcomesHold, Onward
  <2>7. (checkout # "none" => AsRead(MyRace, checkout)')
        /\ (reopen \in EntryStates \ {"none"} => AsRead(MyRace, reopen)')
    BY <2>1, <2>2, AsReadStays DEF PhoneInv, CheckoutsHold, SheetInv
  <2> QED
    BY <2>1, <2>3, <2>4, <2>5, <2>6, <2>7 DEF PhoneInv, CheckoutsHold, AsRead
<1>3. ASSUME PhoneRegisterArrives
      PROVE  PhoneInv'
  <2>1. /\ UNCHANGED <<apiVars, withdrawal>> /\ Tells("entered") /\ signup' = "idle"
        /\ signup \in {"unpaid", "confirmed"} /\ entry[MyRace] # "none"
    BY <1>3 DEF PhoneRegisterArrives, PhoneInv, OutcomesHold
  <2>2. cache'["mine"] = Invalidated("mine") /\ CacheTypes'
    <3>1. "mine" \in Queries /\ "detail" \in Queries
      BY DEF Queries
    <3>2. Unread \in [data : Known \union {"unread"}, stale : BOOLEAN,
                      failed : BOOLEAN, fetch : Known \union {"idle", "asked"}]
      BY DEF Unread
    <3>3. \/ cache' = [cache EXCEPT !["mine"] = Invalidated("mine")]
          \/ cache' = [cache EXCEPT !["mine"] = Invalidated("mine"), !["detail"] = Unread]
      BY <1>3 DEF PhoneRegisterArrives
    <3> QED
      BY <3>1, <3>2, <3>3, InvalidatedTypes DEF PhoneInv, CacheTypes
  <2>3. MineAgrees' /\ OutcomesHold'
    <3>1. /\ MineAgrees'
          /\ told' = "withdrawn" => entry'[MyRace] = "ended"
          /\ told' = "entered" => entry'[MyRace] # "none"
      BY <2>1, <2>2, ToldAgrees
    <3> QED
      BY <2>1, <3>1 DEF PhoneInv, OutcomesHold, apiVars
  <2>4. SheetInv' /\ CheckoutsHold'
    <3>1. CASE signup = "unpaid"
      <4>1. /\ checkout' = IF here THEN "unpaid" ELSE checkout
            /\ SheetFollows(cache', checkout') /\ UNCHANGED reopen
        BY <1>3, <3>1 DEF PhoneRegisterArrives
      <4>2. checkout' \in EntryStates /\ (checkout' # "none" => AsRead(MyRace, checkout'))
        BY <2>1, <4>1 DEF PhoneInv, CheckoutsHold, AsRead, EntryStates
      <4>3. SheetInv'
        BY <2>1, <4>1, <4>2, SheetFollowsKeeps
      <4> QED
        BY <2>1, <4>1, <4>2, <4>3 DEF PhoneInv, CheckoutsHold, AsRead, apiVars
    <3>2. CASE signup # "unpaid"
      <4>1. /\ checkout' = "none" /\ reopen' = "idle"
            /\ IF sheet = NoChoice THEN UNCHANGED checkoutVars ELSE Unmounts({})
        BY <1>3, <3>2 DEF PhoneRegisterArrives
      <4> QED
        BY <2>1, <4>1, SheetAwayKeeps DEF CheckoutsHold, EntryStates
    <3> QED
      BY <3>1, <3>2
  <2> QED
    BY <2>1, <2>2, <2>3, <2>4 DEF PhoneInv
<1> QED
  BY <1>1, <1>2, <1>3

LEMMA DetailStepsKeepPhone ==
    ASSUME PhoneInv, Reopens \/ ReopenHandled \/ ReopenArrives
    PROVE  PhoneInv'
<1> USE MyRaceAssumption
<1>1. UNCHANGED <<apiVars, screen, cache, attempt, signup, here, withdrawal, told>>
  BY DEF Reopens, ReopenHandled, ReopenArrives
<1>2. CacheTypes' /\ MineAgrees' /\ OutcomesHold' /\ UNCHANGED signup
  BY <1>1 DEF PhoneInv, CacheTypes, MineAgrees, Agrees, OutcomesHold, apiVars
<1>3. CASE Reopens \/ ReopenHandled
  <2>1. UNCHANGED <<checkoutVars, checkout>> /\ reopen' \in {"asked", entry[MyRace]}
    BY <1>3 DEF Reopens, ReopenHandled
  <2>2. SheetInv'
    BY <1>1, <2>1, UntouchedMovesOn, EntriesKeepSheet DEF PhoneInv, SheetInv
  <2>3. entry[MyRace] \in EntryStates /\ (entry[MyRace] # "none" => AsRead(MyRace, entry[MyRace]))
    BY AnswersHold DEF PhoneInv, SheetInv, ApiInv, ApiTypeOK
  <2>4. CheckoutsHold'
    BY <1>1, <2>1, <2>3 DEF PhoneInv, CheckoutsHold, AsRead, EntryStates, apiVars
  <2> QED
    BY <1>2, <2>2, <2>4 DEF PhoneInv
<1>4. CASE ReopenArrives
  <2>1. /\ reopen' = "idle" /\ SheetFollows(cache, checkout')
        /\ checkout' = IF reopen \in {"asked", "none"} THEN checkout ELSE reopen
        /\ reopen # "idle"
    BY <1>4 DEF ReopenArrives
  <2>2. checkout' \in EntryStates /\ (checkout' # "none" => AsRead(MyRace, checkout'))
    BY <2>1 DEF PhoneInv, CheckoutsHold
  <2>3. SheetInv'
    BY <1>1, <2>1, <2>2, SheetFollowsKeeps
  <2>4. CheckoutsHold'
    BY <1>1, <2>1, <2>2 DEF CheckoutsHold, AsRead, EntryStates, apiVars
  <2> QED
    BY <1>2, <2>3, <2>4 DEF PhoneInv
<1> QED
  BY <1>3, <1>4

LEMMA CancelStepsKeepPhone ==
    ASSUME PhoneInv, PhoneCancels \/ PhoneCancelHandled \/ PhoneCancelArrives
    PROVE  PhoneInv'
<1> USE MyRaceAssumption
<1>1. UNCHANGED <<checkoutVars, screen, checkout, attempt, signup, here, reopen>>
  BY DEF PhoneCancels, PhoneCancelHandled, PhoneCancelArrives
<1>2. Onward
  BY EntriesMoveOn DEF PhoneCancels, PhoneCancelHandled, PhoneCancelArrives, PhoneInv, SheetInv
<1>3. SheetInv'
  BY <1>1, <1>2, EntriesKeepSheet DEF PhoneInv
<1>4. CheckoutsHold'
  <2>1. (checkout # "none" => AsRead(MyRace, checkout)')
        /\ (reopen \in EntryStates \ {"none"} => AsRead(MyRace, reopen)')
    BY <1>1, <1>2, AsReadStays DEF PhoneInv, CheckoutsHold, SheetInv
  <2> QED
    BY <1>1, <2>1 DEF PhoneInv, CheckoutsHold, AsRead
<1>5. CASE PhoneCancels \/ PhoneCancelHandled
  <2>1. UNCHANGED <<cache, told>> /\ (withdrawal' = "done" => entry'[MyRace] = "ended")
    BY <1>5 DEF PhoneCancels, PhoneCancelHandled, Withdraws, PhoneInv, SheetInv, ApiInv, ApiTypeOK
  <2>2. CacheTypes' /\ MineAgrees' /\ OutcomesHold'
    BY <1>1, <1>2, <2>1 DEF PhoneInv, CacheTypes, MineAgrees, Agrees, OutcomesHold, Onward
  <2> QED
    BY <1>1, <1>3, <1>4, <2>2 DEF PhoneInv
<1>6. CASE PhoneCancelArrives
  <2>1. withdrawal' = "idle" /\ UNCHANGED apiVars
    BY <1>6 DEF PhoneCancelArrives
  <2>2. CASE withdrawal = "done"
    <3>1. Tells("withdrawn") /\ cache' = [cache EXCEPT !["mine"] = Invalidated("mine")]
          /\ entry[MyRace] = "ended"
      BY <1>6, <2>2 DEF PhoneCancelArrives, PhoneInv, OutcomesHold
    <3>2. CacheTypes' /\ cache'["mine"] = Invalidated("mine")
      BY <3>1, InvalidatedTypes DEF PhoneInv, CacheTypes, Queries
    <3>3. /\ MineAgrees'
          /\ told' = "withdrawn" => entry'[MyRace] = "ended"
          /\ told' = "entered" => entry'[MyRace] # "none"
      BY <2>1, <3>1, <3>2, ToldAgrees
    <3> QED
      BY <1>1, <1>3, <1>4, <2>1, <3>2, <3>3 DEF PhoneInv, OutcomesHold, apiVars
  <2>3. CASE withdrawal # "done"
    <3>1. UNCHANGED <<told, cache>>
      BY <1>6, <2>3 DEF PhoneCancelArrives
    <3> QED
      BY <1>1, <1>3, <1>4, <2>1, <3>1 DEF PhoneInv, CacheTypes, MineAgrees, Agrees, OutcomesHold, apiVars
  <2> QED
    BY <2>2, <2>3
<1> QED
  BY <1>5, <1>6

LEMMA PutsSheetAwayKeepsPhone ==
    ASSUME PhoneInv, PutsSheetAway
    PROVE  PhoneInv'
<1>1. UNCHANGED <<apiVars, attempt, signup, withdrawal, told>>
  BY DEF PutsSheetAway
<1>2. CASE Goes("wallet")
  BY <1>1, <1>2, GoesKeepsPhone
<1>3. CASE ~Goes("wallet")
  <2>1. /\ Unmounts({}) /\ checkout' = "none" /\ UNCHANGED reopen
        /\ cache' \in {[cache EXCEPT !["detail"].fetch = "asked"], cache}
    BY <1>3 DEF PutsSheetAway
  <2>2. SheetInv'
    BY <1>1, <2>1, UnmountsKeepsSheet DEF PhoneInv
  <2>3. CacheTypes' /\ MineAgrees'
    BY <1>1, <2>1 DEF PhoneInv, CacheTypes, MineAgrees, Agrees, Queries
  <2> QED
    BY <1>1, <2>1, <2>2, <2>3 DEF PhoneInv, OutcomesHold, CheckoutsHold, AsRead, EntryStates, apiVars
<1> QED
  BY <1>2, <1>3

LEMMA PhoneStepKeepsInv ==
    ASSUME PhoneInv, [RunnerPhoneNext]_runnerPhoneVars
    PROVE  PhoneInv'
<1>1. CASE \/ \E q \in Queries : Refetches(q) \/ FetchHandled(q) \/ FetchArrives(q) \/ FetchFails(q)
           \/ Signalled
  BY <1>1, QueryStepsKeepPhone
<1>2. CASE Navigates
  BY <1>2, GoesKeepsPhone DEF Navigates
<1>3. CASE \/ PhoneRegisters \/ PhoneRegisterHandled \/ PhoneRetries
           \/ PhoneRegisterArrives \/ PhoneRegisterRefused
  BY <1>3, RegisterStepsKeepPhone
<1>4. CASE Reopens \/ ReopenHandled \/ ReopenArrives
  BY <1>4, DetailStepsKeepPhone
<1>5. CASE PhoneCancels \/ PhoneCancelHandled \/ PhoneCancelArrives
  BY <1>5, CancelStepsKeepPhone
<1>6. CASE PutsSheetAway
  BY <1>6, PutsSheetAwayKeepsPhone
<1>7. CASE SheetSteps /\ UNCHANGED phoneVars
  BY <1>7, SheetStepsKeepSheet, EntriesKeepPhone DEF PhoneInv
<1>8. CASE OthersAct /\ UNCHANGED <<checkoutVars, phoneVars>>
  <2>1. Onward
    BY <1>8, EntriesMoveOn DEF OthersAct, PhoneInv, SheetInv
  <2> QED
    BY <1>8, <2>1, EntriesKeepSheet, EntriesKeepPhone DEF PhoneInv
<1>9. CASE UNCHANGED runnerPhoneVars
  BY <1>9, UntouchedMovesOn, EntriesKeepSheet, EntriesKeepPhone DEF PhoneInv, SheetInv, runnerPhoneVars
<1> QED
  BY <1>1, <1>2, <1>3, <1>4, <1>5, <1>6, <1>7, <1>8, <1>9 DEF RunnerPhoneNext

LEMMA PhoneInvHolds == PhoneInv => SheetIsTrue /\ ListFollowsOutcomes
BY DEF PhoneInv, SheetInv, ListFollowsOutcomes, MineAgrees, Agrees

LEMMA PhoneStart == RunnerPhoneInit => PhoneInv
<1> SUFFICES ASSUME RunnerPhoneInit
             PROVE  PhoneInv
  OBVIOUS
<1>1. ApiInv
  BY DEF RunnerPhoneInit, ApiInit, ApiInv, ApiTypeOK, EntryStates
<1>2. SheetInv
  BY <1>1 DEF RunnerPhoneInit, CheckoutInit, SheetInv, SheetTypes, PollOK, SubmitOK, SheetIsTrue,
              Rest, NoPress, Phases
<1> QED
  BY <1>1, <1>2
  DEF RunnerPhoneInit, PhoneInv, CacheTypes, MineAgrees, Agrees, OutcomesHold, CheckoutsHold, Unread, Known,
      Queries, EntryStates

\* The phone's payment sheet says what is true of its entry, and the list of entries, once
\* it is settled, agrees with the last outcome the runner was told of (queries.ts: every
\* mutation invalidates the list, and a read on its way is discarded).
THEOREM PhoneTellsOutcomes == RunnerPhoneSpec => [](SheetIsTrue /\ ListFollowsOutcomes)
<1>1. PhoneInv /\ [RunnerPhoneNext]_runnerPhoneVars => PhoneInv'
  BY PhoneStepKeepsInv
<1> QED
  BY <1>1, PhoneStart, PhoneInvHolds, PTL DEF RunnerPhoneSpec

-----------------------------------------------------------------------------
(* The form on which a place is claimed. *)

ClaimOK ==
    claim # NoClaim =>
        /\ claim \in [at : {"asked", "busy", "refused", "entered"}, try : Nat,
                      confirmed : Order, sent : Order]
        /\ claim.sent = claim.confirmed

\* edits are lost only to details that the service holds by now, and that differ from those
\* the fields were filled with before
DetailsOK ==
    /\ kept \in Contents /\ values \in Contents \union {Blank}
    /\ {meData, meAnswer} \subseteq Contents \union {Blank}
    /\ {keptAnew, retyped, editsLost} \subseteq BOOLEAN
    /\ ~keptAnew => meData \in {Blank, kept} /\ meAnswer \in {Blank, kept}
    /\ editsLost => keptAnew

\* what is shown as full was full at some time
PlacesOK ==
    /\ places \in [Distances -> {"open", "full"}] /\ everFull \subseteq Distances
    /\ \A c \in Distances : places[c] = "full" => c \in everFull
    /\ seenPlaces \in [Distances -> {"open", "full", "unread"}]
    /\ \A c \in Distances : seenPlaces[c] = "full" => c \in everFull
    /\ watch # NoWatch => watch.of \in Distances /\ watch.as \in {"open", "full"}
                            /\ (watch.as = "full" => watch.of \in everFull)
    /\ picked \in Distances \union {NoDistance}
    /\ warm => raceRead
    /\ takenBack # NoDistance => (takenBack \in everFull \/ ~warm)

EntryFormInv == ClaimOK /\ DetailsOK /\ PlacesOK

\* A choice is taken back when it is full, or before the race was read.
LEMMA TakenBackWasFull ==
    ASSUME PlacesOK, NEW read \in BOOLEAN, NEW saw, KeepsIfOffered(read, saw), UNCHANGED <<warm, everFull>>,
           warm => read, \A c \in Distances : saw[c] = "full" => c \in everFull
    PROVE  /\ picked' \in Distances \union {NoDistance}
           /\ takenBack' # NoDistance => (takenBack' \in everFull' \/ ~warm')
BY DEF PlacesOK, KeepsIfOffered, Offered

LEMMA FormStepKeepsInv ==
    ASSUME EntryFormInv, [EntryFormNext]_entryFormVars
    PROVE  EntryFormInv'
<1> USE EntryFormAssumption DEF raceVars, detailVars
<1>1. ASSUME NEW c \in Distances, PlacesChange(c) \/ WatchHandled(c) \/ PicksDistance(c)
      PROVE  EntryFormInv'
  <2>1. UNCHANGED <<detailVars, claim>>
    BY <1>1 DEF PlacesChange, WatchHandled, PicksDistance
  <2>2. ClaimOK' /\ DetailsOK'
    BY <2>1 DEF EntryFormInv, ClaimOK, DetailsOK
  <2>3. CASE PlacesChange(c)
    BY <2>2, <2>3 DEF EntryFormInv, PlacesOK, PlacesChange
  <2>4. CASE WatchHandled(c)
    BY <2>2, <2>4 DEF EntryFormInv, PlacesOK, WatchHandled
  <2>5. CASE PicksDistance(c)
    BY <2>2, <2>5 DEF EntryFormInv, PlacesOK, PicksDistance
  <2> QED
    BY <1>1, <2>3, <2>4, <2>5
<1>2. ASSUME RaceArrives \/ WatchArrives \/ WatchLost
      PROVE  EntryFormInv'
  <2>1. UNCHANGED <<detailVars, claim, warm, places, everFull>>
    BY <1>2 DEF RaceArrives, WatchArrives, WatchLost
  <2>2. ClaimOK' /\ DetailsOK'
    BY <2>1 DEF EntryFormInv, ClaimOK, DetailsOK
  <2>3. CASE RaceArrives
    <3>1. /\ picked' \in Distances \union {NoDistance}
          /\ takenBack' # NoDistance => (takenBack' \in everFull' \/ ~warm')
      BY <2>1, <2>3, TakenBackWasFull DEF RaceArrives, EntryFormInv, PlacesOK
    <3> QED
      BY <2>1, <2>2, <2>3, <3>1 DEF RaceArrives, EntryFormInv, PlacesOK
  <2>4. CASE WatchArrives
    <3>1. /\ watch # NoWatch /\ watch' = NoWatch /\ UNCHANGED raceRead
          /\ seenPlaces' = [seenPlaces EXCEPT ![watch.of] = watch.as]
          /\ KeepsIfOffered(raceRead, seenPlaces')
      BY <2>4 DEF WatchArrives
    <3>2. /\ seenPlaces' \in [Distances -> {"open", "full", "unread"}]
          /\ \A c \in Distances : seenPlaces'[c] = "full" => c \in everFull
      BY <3>1 DEF EntryFormInv, PlacesOK
    <3>3. /\ picked' \in Distances \union {NoDistance}
          /\ takenBack' # NoDistance => (takenBack' \in everFull' \/ ~warm')
      <4>1. CASE raceRead \in BOOLEAN
        BY <2>1, <3>1, <3>2, <4>1, TakenBackWasFull DEF EntryFormInv, PlacesOK
      <4>2. CASE raceRead \notin BOOLEAN
        BY <2>1, <3>1, <3>2, <4>2 DEF EntryFormInv, PlacesOK, KeepsIfOffered, Offered
      <4> QED
        BY <4>1, <4>2
    <3> QED
      BY <2>1, <2>2, <3>1, <3>2, <3>3 DEF EntryFormInv, PlacesOK
  <2>5. CASE WatchLost
    BY <2>1, <2>2, <2>5 DEF WatchLost, EntryFormInv, PlacesOK
  <2> QED
    BY <1>2, <2>3, <2>4, <2>5
<1>3. ASSUME DetailsChange \/ MeHandled \/ MeArrives \/ MeLost \/ \E d \in Contents : TypesDetails(d)
      PROVE  EntryFormInv'
  <2>1. UNCHANGED <<raceVars, claim>>
    BY <1>3 DEF DetailsChange, MeHandled, MeArrives, MeLost, TypesDetails
  <2>2. ClaimOK' /\ PlacesOK'
    BY <2>1 DEF EntryFormInv, ClaimOK, PlacesOK
  <2>3. CASE MeArrives
    <3>1. CASE Refills(meAnswer)
      <4>1. /\ meAnswer # Blank /\ meAnswer' = Blank /\ meData' = meAnswer /\ values' = meAnswer
            /\ retyped' = FALSE /\ editsLost' = (editsLost \/ (retyped /\ meData # Blank))
            /\ UNCHANGED <<kept, keptAnew>> /\ meAnswer # meData
        BY <2>3, <3>1 DEF MeArrives, Refills
      <4>2. CASE keptAnew
        BY <2>2, <4>1, <4>2 DEF EntryFormInv, DetailsOK
      <4>3. CASE ~keptAnew
        <5>1. meData = Blank /\ ~editsLost
          BY <4>1, <4>3 DEF EntryFormInv, DetailsOK
        <5> QED
          BY <2>2, <4>1, <4>3, <5>1 DEF EntryFormInv, DetailsOK
      <4> QED
        BY <4>2, <4>3
    <3>2. CASE ~Refills(meAnswer)
      BY <2>2, <2>3, <3>2 DEF EntryFormInv, DetailsOK, MeArrives
    <3> QED
      BY <3>1, <3>2
  <2>4. CASE DetailsChange
    BY <2>2, <2>4 DEF EntryFormInv, DetailsOK, DetailsChange
  <2>5. CASE MeHandled \/ MeLost
    BY <2>2, <2>5 DEF EntryFormInv, DetailsOK, MeHandled, MeLost
  <2>6. CASE \E d \in Contents : TypesDetails(d)
    BY <2>2, <2>6 DEF EntryFormInv, DetailsOK, TypesDetails
  <2> QED
    BY <1>3, <2>3, <2>4, <2>5, <2>6
<1>4. ASSUME Claims \/ ClaimHandled \/ TriesAgain \/ ClaimRefused
      PROVE  EntryFormInv'
  <2>1. /\ UNCHANGED <<warm, raceRead, places, everFull, seenPlaces, watch, picked, detailVars>>
        /\ takenBack' \in {takenBack, NoDistance}
    BY <1>4 DEF Claims, ClaimHandled, TriesAgain, ClaimRefused
  <2>2. DetailsOK' /\ PlacesOK'
    BY <2>1 DEF EntryFormInv, DetailsOK, PlacesOK
  <2>3. CASE Claims
    BY <2>2, <2>3 DEF EntryFormInv, ClaimOK, DetailsOK, PlacesOK, Claims, Order
  <2>4. CASE ClaimHandled
    BY <2>2, <2>4 DEF EntryFormInv, ClaimOK, ClaimHandled, NoClaim
  <2>5. CASE TriesAgain
    <3>1. claim # NoClaim /\ claim.at = "busy"
      BY <2>5 DEF TriesAgain, NoClaim
    <3>2. claim' = [claim EXCEPT !.at = "asked", !.try = @ + 1, !.sent = claim.sent]
      BY <2>5 DEF TriesAgain, SentAgain
    <3>3. /\ claim \in [at : {"asked", "busy", "refused", "entered"}, try : Nat,
                        confirmed : Order, sent : Order]
          /\ claim.sent = claim.confirmed
      BY <3>1 DEF EntryFormInv, ClaimOK
    <3>4. claim.try + 1 \in Nat
      BY <3>3
    <3>5. ClaimOK'
      BY <3>2, <3>3, <3>4 DEF ClaimOK
    <3> QED
      BY <2>2, <3>5 DEF EntryFormInv
  <2>6. CASE ClaimRefused
    BY <2>2, <2>6 DEF EntryFormInv, ClaimOK, ClaimRefused
  <2> QED
    BY <1>4, <2>3, <2>4, <2>5, <2>6
<1>5. CASE UNCHANGED entryFormVars
  BY <1>5 DEF entryFormVars, EntryFormInv, ClaimOK, DetailsOK, PlacesOK
<1> QED
  BY <1>1, <1>2, <1>3, <1>4, <1>5 DEF EntryFormNext

LEMMA FormInvHolds == EntryFormInv => EntryFormIsTrue
BY DEF EntryFormInv, ClaimOK, DetailsOK, PlacesOK, EntryFormIsTrue

LEMMA FormStart == EntryFormInit => EntryFormInv
<1> SUFFICES ASSUME EntryFormInit
             PROVE  EntryFormInv
  OBVIOUS
<1>1. ClaimOK /\ DetailsOK
  BY DEF EntryFormInit, ClaimOK, DetailsOK
<1>2. PlacesOK
  BY EntryFormAssumption DEF EntryFormInit, PlacesOK
<1> QED
  BY <1>1, <1>2 DEF EntryFormInv

\* Every attempt at a busy category sends what the runner confirmed, her edits are
\* overwritten only by details changed elsewhere, and "just filled up" is said of a category
\* that was full (RegisterScreen.tsx, submit and the two effects).
THEOREM FormsSendWhatWasConfirmed == EntryFormSpec => []EntryFormIsTrue
<1>1. EntryFormInv /\ [EntryFormNext]_entryFormVars => EntryFormInv'
  BY FormStepKeepsInv
<1> QED
  BY <1>1, FormStart, FormInvHolds, PTL DEF EntryFormSpec

-----------------------------------------------------------------------------
(* TELEGRAM LINKS                                                           *)

LinkInv ==
    /\ linkToken \in Links \union {NoLink}
    /\ made \subseteq Links
    /\ connects \in [Links -> Nat]
    /\ \A l \in Links : linkToken = l => l \in made /\ connects[l] = 0
    /\ \A l \in Links : l \notin made => connects[l] = 0
    /\ \A l \in Links : connects[l] <= 1

\* The strengthened invariant implies the property of the run.
LEMMA LinkInvImplies == LinkInv => LinkConnectsOnce
BY DEF LinkInv, LinkConnectsOnce

\* What the page does, and what leaves links and connections alone, keeps it.
LEMMA LinkInvKept ==
    ASSUME LinkInv, UNCHANGED <<linkToken, made, connects>>
    PROVE  LinkInv'
BY DEF LinkInv

\* Nothing is linked and nothing was made at first.
LEMMA LinkInvInit == TgInit => LinkInv
BY LinkAssumption DEF TgInit, LinkInv

\* The webhook consumes the link it connects with.
LEMMA WebhookKeepsLinkInv ==
    ASSUME LinkInv, NEW l \in Links, Webhook(l)
    PROVE  LinkInv'
<1>1. CASE linkToken = l /\ linkToken' = NoLink /\ connects' = [connects EXCEPT ![l] = @ + 1]
  <2>1. made' = made
    BY DEF Webhook
  <2>2. l \in made /\ connects[l] = 0
    BY <1>1 DEF LinkInv
  <2>3. connects' \in [Links -> Nat] /\ \A k \in Links : connects'[k] = IF k = l THEN 1 ELSE connects[k]
    BY <1>1, <2>2 DEF LinkInv
  <2>4. \A k \in Links : linkToken' # k
    BY <1>1, LinkAssumption
  <2> QED
    BY <1>1, <2>1, <2>2, <2>3, <2>4 DEF LinkInv
<1>2. CASE UNCHANGED <<linkToken, connects>>
  BY <1>2, LinkInvKept DEF Webhook
<1> QED
  BY <1>1, <1>2 DEF Webhook

\* A link is stored only when it is made, and nobody has connected with it.
LEMMA LinkHandledKeepsLinkInv ==
    ASSUME LinkInv, LinkHandled
    PROVE  LinkInv'
<1>1. PICK l \in Links \ made : linkToken' = l /\ made' = made \union {l}
  BY DEF LinkHandled
<1>2. connects' = connects
  BY DEF LinkHandled
<1> QED
  BY <1>1, <1>2 DEF LinkInv

\* A link that expires is gone.
LEMMA ExpiresKeepsLinkInv ==
    ASSUME LinkInv, Expires
    PROVE  LinkInv'
BY LinkAssumption DEF LinkInv, Expires

\* Every step of the page, of Telegram and of the service keeps the invariant.
LEMMA LinkInvNext == LinkInv /\ [TgNext]_telegramVars => LinkInv'
<1> SUFFICES ASSUME LinkInv, [TgNext]_telegramVars
             PROVE  LinkInv'
  OBVIOUS
<1>1. CASE UNCHANGED telegramVars
  BY <1>1, LinkInvKept DEF telegramVars, serviceVars
<1>2. CASE \E l \in Links : Starts(l)
  BY <1>2, LinkInvKept DEF Starts
<1>3. CASE \E l \in Links : Webhook(l)
  BY <1>3, WebhookKeepsLinkInv
<1>4. CASE Expires
  BY <1>4, ExpiresKeepsLinkInv
<1>5. CASE LinkHandled
  BY <1>5, LinkHandledKeepsLinkInv
<1>6. CASE ConnectTelegram \/ LinkArrives \/ StopsPolling \/ DisconnectTelegram \/ DisconnectArrives
  BY <1>6, LinkInvKept
     DEF ConnectTelegram, LinkArrives, StopsPolling, DisconnectTelegram, DisconnectArrives, serviceVars
<1>7. CASE DisconnectHandled \/ UpdatePreference \/ PreferenceHandled \/ PreferenceArrives
  <2>1. UNCHANGED <<linkToken, made, connects>>
    BY <1>7 DEF DisconnectHandled, UpdatePreference, PreferenceHandled, PreferenceArrives, serviceVars
  <2> QED
    BY <2>1, LinkInvKept
<1>8. CASE (\E p \in Polls : Polling(p))
           \/ \E p \in Readings : PollHandled(p) \/ PollArrives(p) \/ PollFails(p)
  <2>1. UNCHANGED <<linkToken, made, connects>>
    BY <1>8 DEF Polling, PollHandled, PollArrives, PollFails, serviceVars
  <2> QED
    BY <2>1, LinkInvKept
<1> QED
  BY <1>1, <1>2, <1>3, <1>4, <1>5, <1>6, <1>7, <1>8 DEF TgNext

\* A Start that Telegram delivers again, or one of a link that was replaced, does not
\* connect a chat a second time: Connect consumes the link in the transaction that stores
\* the chat (internal/telegram/repository.go).
THEOREM LinksConnectOnce == TgSpec => []LinkConnectsOnce
<1>1. TgInit => LinkInv
  BY LinkInvInit
<1>2. LinkInv /\ [TgNext]_telegramVars => LinkInv'
  BY LinkInvNext
<1>3. LinkInv => LinkConnectsOnce
  BY LinkInvImplies
<1> QED
  BY <1>1, <1>2, <1>3, PTL DEF TgSpec

-----------------------------------------------------------------------------
(* LIVE ACTIVITIES                                                          *)

StillFollowed == followed \ letGo

\* what is under way is about an activity that nobody follows
StopInv == stop.at # "idle" => stop.id \in letGo

StartInv ==
    LET a == start.id
    IN  start.at # "idle" =>
            /\ a \in Ids /\ a \notin followed
            /\ a \notin letGo =>
                 /\ start.at = "saving" => a \in running
                 /\ start.at \in {"posting", "accepted"} => a \in running /\ a \in saved
                 /\ start.at = "accepted" => records[a] = "active"
            /\ start.at = "accepted" => records[a] # "none"

\* a read that no start disturbed knows what is followed
ReadInv ==
    \A g \in WalletReads :
        active[g].at = "read" /\ ~active[g].disturbed => StillFollowed \subseteq active[g].got

FollowInv ==
    /\ FollowTypeOK
    /\ FollowedStays
    /\ StopInv /\ StartInv /\ ReadInv
    /\ \A a \in followed : records[a] # "none"

-----------------------------------------------------------------------------
\* Nothing runs and nothing is followed at first.
LEMMA FollowInvInit == FollowInit => FollowInv
<1> SUFFICES ASSUME FollowInit
             PROVE  FollowInv
  OBVIOUS
<1> USE DEF FollowInit, NoStart, NoActive
<1>1. FollowTypeOK
  BY DEF FollowTypeOK
<1>2. FollowedStays /\ StopInv /\ StartInv /\ \A a \in followed : records[a] # "none"
  BY DEF FollowedStays, StopInv, StartInv
<1>3. ReadInv
  BY DEF ReadInv
<1> QED
  BY <1>1, <1>2, <1>3, Zenon DEF FollowInv

\* Moving startGeneration keeps the reads in type and marks each that is under way.
LEMMA DisturbsMarks ==
    ASSUME FollowTypeOK, Disturbs
    PROVE  /\ active' \in [WalletReads -> [at : {"idle", "asked", "read"}, ids : SUBSET Ids,
                                           got : SUBSET Ids, disturbed : BOOLEAN]]
           /\ \A g \in WalletReads : active'[g].at = "read" => active'[g].disturbed
<1> DEFINE Reads == [at : {"idle", "asked", "read"}, ids : SUBSET Ids, got : SUBSET Ids,
                     disturbed : BOOLEAN]
<1>1. ASSUME NEW r \in Reads, NEW b \in BOOLEAN
      PROVE  LET r2 == [r EXCEPT !.disturbed = b]
             IN  r2 \in Reads /\ r2.at = r.at /\ r2.disturbed = b
  OBVIOUS
<1>2. ASSUME NEW g \in WalletReads
      PROVE  active'[g] \in Reads /\ (active'[g].at = "read" => active'[g].disturbed)
  <2>1. active[g] \in Reads /\ (active[g] # NoActive) \in BOOLEAN
    BY DEF FollowTypeOK
  <2>2. active'[g] = [active[g] EXCEPT !.disturbed = active[g] # NoActive]
    BY DEF Disturbs
  <2>3. active'[g] \in Reads /\ active'[g].at = active[g].at
        /\ active'[g].disturbed = (active[g] # NoActive)
    BY <1>1, <2>1, <2>2
  <2>4. active[g].at = "read" => active[g] # NoActive
    BY DEF NoActive
  <2> QED
    BY <2>3, <2>4
<1> QED
  BY <1>2 DEF Disturbs

\* A start that begins: the activity is new, so nobody follows it and it has no record.
LEMMA FollowsKeeps ==
    ASSUME FollowInv, Follows
    PROVE  FollowInv'
<1> USE DEF FollowInv
<1>1. PICK a \in Fresh : /\ running' = running \union {a}
                         /\ start' = [at |-> "saving", id |-> a]
  BY DEF Follows
<1>2. a \in Ids /\ records[a] = "none"
  BY <1>1 DEF Fresh
<1>3. UNCHANGED <<saved, records, stop, listed, followed, letGo>>
  BY DEF Follows
<1>4. Disturbs
  BY DEF Follows
<1>5. FollowTypeOK'
  BY <1>1, <1>2, <1>3, <1>4, DisturbsMarks DEF FollowTypeOK
<1>6. FollowedStays'
  BY <1>1, <1>3 DEF FollowedStays
<1>7. StartInv'
  BY <1>1, <1>2, <1>3 DEF StartInv
<1>8. ReadInv'
  BY <1>4, DisturbsMarks DEF ReadInv
<1> QED
  BY <1>3, <1>5, <1>6, <1>7, <1>8 DEF StopInv

\* The content is saved, or the new activity is ended; nobody follows it yet.
LEMMA SavesContentKeeps ==
    ASSUME FollowInv, SavesContent
    PROVE  FollowInv'
<1> USE DEF FollowInv
<1>1. start.at = "saving" /\ UNCHANGED <<records, stop, listed, followed, letGo>>
  BY DEF SavesContent
<1>2. start.id \in Ids /\ start.id \notin followed
  BY <1>1 DEF StartInv
<1>3. CASE /\ saved' = saved \union {start.id}
           /\ start' = [start EXCEPT !.at = "posting"]
           /\ UNCHANGED <<running, active>>
  <2>1. start'.at = "posting" /\ start'.id = start.id
    BY <1>3 DEF FollowTypeOK
  <2>2. FollowTypeOK'
    BY <1>1, <1>2, <1>3 DEF FollowTypeOK
  <2>3. FollowedStays'
    BY <1>1, <1>3 DEF FollowedStays
  <2>4. StartInv'
    BY <1>1, <1>2, <1>3, <2>1 DEF StartInv
  <2>5. ReadInv'
    BY <1>1, <1>3 DEF ReadInv, StillFollowed
  <2> QED
    BY <1>1, <2>2, <2>3, <2>4, <2>5 DEF StopInv
<1>4. CASE /\ running' \in {running \ {start.id}, running}
           /\ start' = NoStart /\ Disturbs /\ UNCHANGED saved
  <2>1. FollowTypeOK'
    BY <1>1, <1>4, DisturbsMarks DEF FollowTypeOK, NoStart
  <2>2. FollowedStays'
    BY <1>1, <1>2, <1>4 DEF FollowedStays
  <2>3. StartInv'
    BY <1>4 DEF StartInv, NoStart
  <2>4. ReadInv'
    BY <1>4, DisturbsMarks DEF ReadInv
  <2> QED
    BY <1>1, <2>1, <2>2, <2>3, <2>4 DEF StopInv
<1> QED
  BY <1>3, <1>4 DEF SavesContent

\* The service stores a record for the activity that is starting, or refuses.
LEMMA PostsRecordKeeps ==
    ASSUME FollowInv, PostsRecord
    PROVE  FollowInv'
<1> USE DEF FollowInv
<1>1. start.at = "posting" /\ UNCHANGED <<running, saved, stop, active, listed, followed, letGo>>
  BY DEF PostsRecord
<1>2. start.id \in Ids /\ start.id \notin followed
  BY <1>1 DEF StartInv
<1>3. start'.id = start.id /\ start'.at \in {"accepted", "rejected"}
  BY DEF PostsRecord, FollowTypeOK
<1>4. \/ records' = [records EXCEPT ![start.id] = "active"]
      \/ start'.at = "rejected" /\ UNCHANGED records
  BY DEF PostsRecord, FollowTypeOK
<1>5. FollowTypeOK'
  BY <1>1, <1>2 DEF PostsRecord, FollowTypeOK
<1>6. \A a \in followed : records'[a] = records[a]
  BY <1>2, <1>4 DEF FollowTypeOK
<1>7. FollowedStays'
  BY <1>1, <1>6 DEF FollowedStays
<1>8. StartInv'
  BY <1>1, <1>2, <1>3, <1>4 DEF StartInv, FollowTypeOK
<1>9. ReadInv' /\ StopInv'
  BY <1>1 DEF ReadInv, StillFollowed, StopInv
<1> QED
  BY <1>1, <1>5, <1>6, <1>7, <1>8, <1>9

\* An accepted start is followed and has all that FollowedStays asks for; a rejected one
\* takes only its own activity away.
LEMMA StartReturnsKeeps ==
    ASSUME FollowInv, StartReturns
    PROVE  FollowInv'
<1> USE DEF FollowInv
<1>1. /\ start.at \in {"accepted", "rejected"} /\ start' = NoStart /\ Disturbs
      /\ UNCHANGED <<records, stop, listed, letGo>>
  BY DEF StartReturns
<1>2. start.id \in Ids /\ start.id \notin followed
  BY <1>1 DEF StartInv
<1>3. StartInv' /\ StopInv' /\ ReadInv'
  BY <1>1, DisturbsMarks DEF StartInv, StopInv, ReadInv, NoStart
<1>4. CASE start.at = "accepted"
  <2>1. followed' = followed \union {start.id} /\ UNCHANGED <<running, saved>>
    BY <1>4 DEF StartReturns
  <2>2. records[start.id] # "none"
    BY <1>4 DEF StartInv
  <2>3. start.id \notin letGo => start.id \in running /\ start.id \in saved /\ records[start.id] = "active"
    BY <1>4 DEF StartInv
  <2>4. FollowTypeOK'
    BY <1>1, <1>2, <2>1, DisturbsMarks DEF FollowTypeOK, NoStart
  <2>5. FollowedStays'
    BY <1>1, <2>1, <2>3 DEF FollowedStays
  <2> QED
    BY <1>1, <1>3, <2>1, <2>2, <2>4, <2>5
<1>5. CASE start.at = "rejected"
  <2>1. EndsNative({start.id}) /\ UNCHANGED followed
    BY <1>5 DEF StartReturns
  <2>2. FollowTypeOK'
    BY <1>1, <2>1, DisturbsMarks DEF FollowTypeOK, NoStart, EndsNative
  <2>3. FollowedStays'
    BY <1>1, <1>2, <2>1 DEF FollowedStays, EndsNative
  <2> QED
    BY <1>1, <1>3, <2>1, <2>2, <2>3
<1> QED
  BY <1>1, <1>4, <1>5

\* What she stops or dismisses is let go before anything of it is taken away.
LEMMA LettingGoKeeps ==
    ASSUME FollowInv, Unfollows \/ StopsNative \/ StopReturns \/ Dismisses
    PROVE  FollowInv'
<1> USE DEF FollowInv
<1>1. CASE Unfollows
  <2>1. listed \in Ids /\ letGo' = letGo \union {listed} /\ stop' = [at |-> "native", id |-> listed]
    BY <1>1 DEF Unfollows, FollowTypeOK
  <2>2. UNCHANGED <<running, saved, records, start, active, listed, followed>>
    BY <1>1 DEF Unfollows
  <2> QED
    BY <2>1, <2>2 DEF FollowTypeOK, FollowedStays, StopInv, StartInv, ReadInv, StillFollowed
<1>2. CASE StopsNative
  <2>1. stop.at = "native" /\ EndsNative({stop.id}) /\ stop' = [stop EXCEPT !.at = "deleting"]
    BY <1>2 DEF StopsNative
  <2>2. UNCHANGED <<records, start, active, listed, followed, letGo>>
    BY <1>2 DEF StopsNative
  <2>3. stop.id \in letGo /\ stop'.id = stop.id
    BY <2>1 DEF StopInv, FollowTypeOK
  <2>4. running' \subseteq running /\ saved' \subseteq saved
        /\ \A a \in Ids \ letGo : (a \in running => a \in running') /\ (a \in saved => a \in saved')
    BY <2>1, <2>3 DEF EndsNative
  <2>5. FollowTypeOK'
    BY <2>1, <2>2, <2>4 DEF FollowTypeOK
  <2>6. FollowedStays'
    BY <2>2, <2>4 DEF FollowedStays, FollowTypeOK
  <2>7. StartInv'
    BY <2>2, <2>4 DEF StartInv
  <2>8. StopInv' /\ ReadInv'
    BY <2>2, <2>3 DEF StopInv, ReadInv, StillFollowed
  <2> QED
    BY <2>2, <2>5, <2>6, <2>7, <2>8
<1>3. CASE StopReturns
  <2>1. /\ stop.at = "deleting" /\ stop' = NoStart
        /\ UNCHANGED <<running, saved, start, active, listed, followed, letGo>>
    BY <1>3 DEF StopReturns
  <2>2. stop.id \in letGo /\ stop.id \in Ids
    BY <2>1 DEF StopInv, FollowTypeOK
  <2>3. records' = [records EXCEPT ![stop.id] = "ended"] \/ UNCHANGED records
    BY <1>3 DEF StopReturns
  <2>4. CASE UNCHANGED records
    BY <2>1, <2>4 DEF FollowTypeOK, FollowedStays, StopInv, StartInv, ReadInv, StillFollowed, NoStart
  <2>5. CASE records' = [records EXCEPT ![stop.id] = "ended"]
    <3>1. FollowTypeOK'
      BY <2>1, <2>2, <2>5 DEF FollowTypeOK, NoStart
    <3>2. FollowedStays'
      BY <2>1, <2>2, <2>5 DEF FollowedStays, FollowTypeOK
    <3>3. StartInv'
      BY <2>1, <2>2, <2>5 DEF StartInv, FollowTypeOK
    <3>4. StopInv' /\ ReadInv'
      BY <2>1 DEF StopInv, ReadInv, StillFollowed, NoStart
    <3>5. \A a \in followed' : records'[a] # "none"
      BY <2>1, <2>2, <2>5 DEF FollowTypeOK
    <3> QED
      BY <3>1, <3>2, <3>3, <3>4, <3>5
  <2> QED
    BY <2>3, <2>4, <2>5
<1>4. CASE Dismisses
  <2>1. PICK a \in running : running' = running \ {a} /\ letGo' = letGo \union {a}
    BY <1>4 DEF Dismisses
  <2>2. UNCHANGED <<saved, records, start, stop, active, listed, followed>>
    BY <1>4 DEF Dismisses
  <2>3. a \in Ids
    BY DEF FollowTypeOK
  <2>4. FollowTypeOK'
    BY <2>1, <2>2, <2>3 DEF FollowTypeOK
  <2>5. FollowedStays'
    BY <2>1, <2>2 DEF FollowedStays
  <2>6. StartInv'
    BY <2>1, <2>2 DEF StartInv
  <2>7. StopInv' /\ ReadInv'
    BY <2>1, <2>2 DEF StopInv, ReadInv, StillFollowed
  <2> QED
    BY <2>2, <2>4, <2>5, <2>6, <2>7
<1> QED
  BY <1>1, <1>2, <1>3, <1>4

\* The application is killed: what was followed is still there, and no read is under way.
LEMMA AppDiesKeeps ==
    ASSUME FollowInv, AppDies
    PROVE  FollowInv'
<1> USE DEF FollowInv
<1>1. /\ start' = NoStart /\ stop' = NoStart /\ listed' = NoId
      /\ active' = [g \in WalletReads |-> NoActive]
      /\ UNCHANGED <<running, saved, followed, letGo>>
  BY DEF AppDies
<1>2. /\ records' \in [Ids -> {"none", "active", "ended"}]
      /\ \A a \in followed : records'[a] # "none" /\ (a \notin letGo => records'[a] = records[a])
  <2>1. CASE UNCHANGED records
    BY <2>1 DEF FollowTypeOK
  <2>2. CASE start.at = "posting" /\ records' = [records EXCEPT ![start.id] = "active"]
    <3>1. start.id \in Ids /\ start.id \notin followed
      BY <2>2 DEF StartInv
    <3> QED
      BY <2>2, <3>1 DEF FollowTypeOK
  <2>3. CASE stop.at = "deleting" /\ records' = [records EXCEPT ![stop.id] = "ended"]
    <3>1. stop.id \in Ids /\ stop.id \in letGo
      BY <2>3 DEF StopInv, FollowTypeOK
    <3> QED
      BY <2>3, <3>1 DEF FollowTypeOK
  <2> QED
    BY <2>1, <2>2, <2>3 DEF AppDies
<1>3. FollowTypeOK'
  BY <1>1, <1>2 DEF FollowTypeOK, NoStart, NoActive
<1>4. FollowedStays'
  BY <1>1, <1>2 DEF FollowedStays
<1>5. StopInv' /\ StartInv'
  BY <1>1 DEF StopInv, StartInv, NoStart
<1>6. ReadInv'
  BY <1>1 DEF ReadInv, NoActive
<1> QED
  BY <1>1, <1>2, <1>3, <1>4, <1>5, <1>6

\* A read that is handled lists every active record, hence all that is followed.
LEMMA ActiveHandledKeeps ==
    ASSUME FollowInv, NEW g \in WalletReads, ActiveHandled(g)
    PROVE  FollowInv'
<1> USE DEF FollowInv
<1>1. /\ active' = [active EXCEPT ![g].at = "read", ![g].got = ActiveRecords]
      /\ UNCHANGED <<running, saved, records, start, stop, listed, followed, letGo>>
  BY DEF ActiveHandled
<1>2. ActiveRecords \subseteq Ids /\ StillFollowed \subseteq ActiveRecords
  BY DEF ActiveRecords, StillFollowed, FollowedStays, FollowTypeOK
<1>3. FollowTypeOK'
  <2>1. active[g] \in [at : {"idle", "asked", "read"}, ids : SUBSET Ids, got : SUBSET Ids,
                       disturbed : BOOLEAN]
    BY DEF FollowTypeOK
  <2>2. [active[g] EXCEPT !.at = "read", !.got = ActiveRecords]
          \in [at : {"idle", "asked", "read"}, ids : SUBSET Ids, got : SUBSET Ids,
              disturbed : BOOLEAN]
    BY <1>2, <2>1
  <2>3. active' = [active EXCEPT ![g] = [active[g] EXCEPT !.at = "read", !.got = ActiveRecords]]
    BY <1>1 DEF FollowTypeOK
  <2> QED
    BY <1>1, <2>2, <2>3 DEF FollowTypeOK
<1>4. active'[g].got = ActiveRecords /\ \A h \in WalletReads \ {g} : active'[h] = active[h]
  BY <1>1 DEF FollowTypeOK
<1>5. ReadInv'
  BY <1>1, <1>2, <1>4 DEF ReadInv, StillFollowed
<1>6. FollowedStays' /\ StopInv' /\ StartInv'
  BY <1>1 DEF FollowedStays, StopInv, StartInv
<1> QED
  BY <1>1, <1>3, <1>5, <1>6

\* A read that begins or is lost knows nothing.
LEMMA ReadBeginsOrEnds ==
    ASSUME FollowInv, NEW g \in WalletReads, ReadsActive(g) \/ ActiveLost(g)
    PROVE  FollowInv'
<1> USE DEF FollowInv
<1>1. UNCHANGED <<running, saved, records, start, stop, listed, followed, letGo>>
  BY DEF ReadsActive, ActiveLost
<1>2. \E r \in [at : {"idle", "asked"}, ids : SUBSET Ids, got : SUBSET Ids, disturbed : BOOLEAN] :
          active' = [active EXCEPT ![g] = r]
  BY DEF ReadsActive, ActiveLost, NoActive, FollowTypeOK
<1>3. FollowTypeOK'
  BY <1>1, <1>2 DEF FollowTypeOK
<1>4. ReadInv'
  BY <1>1, <1>2 DEF ReadInv, StillFollowed, FollowTypeOK
<1>5. FollowedStays' /\ StopInv' /\ StartInv'
  BY <1>1 DEF FollowedStays, StopInv, StartInv
<1> QED
  BY <1>1, <1>3, <1>4, <1>5

\* The orphans of an answer are not followed: it is undisturbed, or there are none.
LEMMA ActiveArrivesKeeps ==
    ASSUME FollowInv, NEW g \in WalletReads, ActiveArrives(g)
    PROVE  FollowInv'
<1> USE DEF FollowInv
<1>1. /\ active[g].at = "read" /\ EndsNative(Orphans(g))
      /\ active' = [active EXCEPT ![g] = NoActive]
      /\ UNCHANGED <<records, start, stop, followed, letGo>>
  BY DEF ActiveArrives
<1>2. active[g].got \subseteq Ids /\ listed' \in Ids \union {NoId}
  BY DEF ActiveArrives, FollowTypeOK
<1>3. Orphans(g) \intersect StillFollowed = {}
  BY <1>1 DEF Orphans, Undisturbed, ReadInv
<1>4. start.at # "idle" => Orphans(g) = {}
  BY DEF Orphans, Undisturbed, NoStart
<1>5. /\ running' \subseteq running /\ saved' \subseteq saved
      /\ \A a \in Ids \ Orphans(g) : (a \in running => a \in running') /\ (a \in saved => a \in saved')
  BY <1>1 DEF EndsNative
<1>6. FollowTypeOK'
  BY <1>1, <1>2, <1>5 DEF FollowTypeOK, NoActive
<1>7. FollowedStays'
  BY <1>1, <1>3, <1>5 DEF FollowedStays, StillFollowed, FollowTypeOK
<1>8. StartInv'
  BY <1>1, <1>4, <1>5 DEF StartInv
<1>9. ReadInv' /\ StopInv'
  BY <1>1 DEF ReadInv, StillFollowed, StopInv, NoActive, FollowTypeOK
<1> QED
  BY <1>1, <1>6, <1>7, <1>8, <1>9

\* Every step keeps the invariant.
LEMMA FollowInvNext == FollowInv /\ [FollowNext]_followVars => FollowInv'
<1> SUFFICES ASSUME FollowInv, [FollowNext]_followVars
             PROVE  FollowInv'
  OBVIOUS
<1>1. CASE UNCHANGED followVars
  BY <1>1 DEF FollowInv, FollowTypeOK, FollowedStays, StopInv, StartInv, ReadInv, StillFollowed, followVars
<1>2. CASE Follows \/ SavesContent \/ PostsRecord \/ StartReturns
  BY <1>2, FollowsKeeps, SavesContentKeeps, PostsRecordKeeps, StartReturnsKeeps
<1>3. CASE Unfollows \/ StopsNative \/ StopReturns \/ Dismisses
  BY <1>3, LettingGoKeeps
<1>4. CASE AppDies
  BY <1>4, AppDiesKeeps
<1>5. CASE \E g \in WalletReads : ReadsActive(g) \/ ActiveHandled(g) \/ ActiveArrives(g) \/ ActiveLost(g)
  BY <1>5, ReadBeginsOrEnds, ActiveHandledKeeps, ActiveArrivesKeeps
<1> QED
  BY <1>1, <1>2, <1>3, <1>4, <1>5 DEF FollowNext

\* An activity the runner was told she follows keeps running, with its content and its
\* record, until she lets it go: reconcileOrphans never takes it for an orphan
\* (raceLiveActivity.service.ts), however many reads overlap its start and however often the
\* application is killed.
THEOREM FollowedActivitiesStay == FollowSpec => []FollowedStays
<1>1. FollowInit => FollowInv
  BY FollowInvInit
<1>2. FollowInv /\ [FollowNext]_followVars => FollowInv'
  BY FollowInvNext
<1>3. FollowInv => FollowedStays
  BY DEF FollowInv
<1> QED
  BY <1>1, <1>2, <1>3, PTL DEF FollowSpec

-----------------------------------------------------------------------------
(* LIVE UPDATES: whatever is newest has reached a connected client, or something  *)
(* that is on its way will bring it.                                              *)

OnItsWay == unpublished # {} \/ wire # <<>>

\* The browser is sent versions: one at least as new is shown, published, or being read.
WebKnows ==
    \/ shown >= newest
    \/ \E v \in unpublished : v >= newest
    \/ \E i \in 1..Len(wire) : wire[i] >= newest
    \/ \E s \in Slots : \/ reading[s] = Asked
                        \/ reading[s].at = "read" /\ reading[s].got >= newest

\* The phone is told that something changed: what it shows is newest, known to be stale, or
\* about to become so; what it reads is newest, or will be read again.
PhoneKnows ==
    /\ shown \in {0, newest} \/ stale \/ OnItsWay
    /\ watched /\ (stale \/ shown = 0) => reading[1].at # "idle"
    /\ reading[1].at = "read" => reading[1].got = newest \/ OnItsWay

\* The phone makes one read at a time, and none that no screen observes.
PhoneReads ==
    /\ \A s \in Slots \ {1} : reading[s] = NoRead
    /\ ~watched => reading = NothingRead
    /\ reading[1].at = "read" => reading[1].got # 0

LiveInv ==
    /\ LiveTypeOK
    /\ \A s \in Slots : reading[s].at = "idle" => reading[s] = NoRead
    /\ \A s \in Slots : reading[s].at = "asked" => reading[s] = Asked
    /\ client = "web" /\ socketUp /\ ~failed => WebKnows
    /\ client = "phone" => PhoneReads /\ (socketUp /\ ~failed => PhoneKnows)

Stored == 1..(Versions + 1)
Read == [at : {"idle", "asked", "read"}, got : Stored \union {0}]

LEMMA LiveShape ==
    ASSUME LiveTypeOK
    PROVE  /\ newest \in Stored /\ unpublished \subseteq Stored /\ begun \subseteq Stored /\ clock \in Stored
           /\ wire \in Seq(Stored) /\ shown \in Stored \union {0} /\ reading \in [Slots -> Read]
           /\ client \in {"web", "phone"} /\ stale \in BOOLEAN /\ watched \in BOOLEAN
           /\ failed \in BOOLEAN /\ socketUp \in BOOLEAN /\ relay \in {"down", "deaf", "listening"}
           /\ Stored \subseteq Nat \ {0} /\ 1 \in Slots
  BY VersionsAssumption DEF LiveTypeOK, Stored, Read, Slots

LEMMA ReadValues ==
    /\ NoRead \in Read /\ Asked \in Read
    /\ \A n \in Stored : [at |-> "read", got |-> n] \in Read
    /\ NothingRead \in [Slots -> Read] /\ [NothingRead EXCEPT ![1] = Asked] \in [Slots -> Read]
    /\ [NothingRead EXCEPT ![1] = NoRead] \in [Slots -> Read]
  BY DEF NoRead, Asked, Read, NothingRead

\* The answers that are awaited: what an action does to the reads.
LEMMA ReadsMove ==
    ASSUME LiveTypeOK, LiveNext
    PROVE  \/ reading' = reading
           \/ reading' \in {NothingRead, [NothingRead EXCEPT ![1] = Asked], [NothingRead EXCEPT ![1] = NoRead]}
           \/ \E s \in Slots : \/ reading' = [reading EXCEPT ![s] = NoRead]
                               \/ reading' = [reading EXCEPT ![s] = Asked]
                               \/ reading' = [reading EXCEPT ![s] = [at |-> "read", got |-> newest]]
  BY DEF LiveNext, SaveBegins, SaveCommits, Publishes, RelayStarts, RelayStops, RelayTurns, Connects,
         Disconnects, Delivers, Watches, ReadHandled, ReadArrives, ReadLost, Invalidates

LEMMA WireMoves ==
    ASSUME LiveTypeOK, LiveNext
    PROVE  wire' \in Seq(Stored)
  <1>1. \/ wire' = wire \/ wire' = <<>> \/ (wire # <<>> /\ wire' = Tail(wire))
        \/ \E v \in unpublished : wire' = Append(wire, v)
    BY DEF LiveNext, SaveBegins, SaveCommits, Publishes, RelayStarts, RelayStops, RelayTurns, Connects,
           Disconnects, Delivers, Watches, ReadHandled, ReadArrives, ReadLost, siteVars
  <1>2. wire \in Seq(Stored) /\ unpublished \subseteq Stored
    BY LiveShape
  <1>3. wire # <<>> => Tail(wire) \in Seq(Stored)
    BY <1>2
  <1>4. \A v \in unpublished : Append(wire, v) \in Seq(Stored)
    BY <1>2
  <1>5. <<>> \in Seq(Stored)
    OBVIOUS
  <1> QED  BY <1>1, <1>2, <1>3, <1>4, <1>5

LEMMA LiveTypesStay ==
    ASSUME LiveInv, LiveNext
    PROVE  /\ LiveTypeOK'
           /\ \A s \in Slots : reading'[s].at = "idle" => reading'[s] = NoRead
           /\ \A s \in Slots : reading'[s].at = "asked" => reading'[s] = Asked
  <1>t. LiveTypeOK
    BY DEF LiveInv
  <1>1. /\ reading' \in [Slots -> Read]
        /\ \A s \in Slots : reading'[s].at = "idle" => reading'[s] = NoRead
        /\ \A s \in Slots : reading'[s].at = "asked" => reading'[s] = Asked
    <2>1. CASE reading' = reading
      BY <1>t, <2>1, LiveShape DEF LiveInv
    <2>2. CASE reading' \in {NothingRead, [NothingRead EXCEPT ![1] = Asked], [NothingRead EXCEPT ![1] = NoRead]}
      BY <2>2, ReadValues DEF NothingRead, NoRead, Asked
    <2>3. ASSUME NEW s \in Slots, NEW r \in {NoRead, Asked, [at |-> "read", got |-> newest]},
                 reading' = [reading EXCEPT ![s] = r]
          PROVE  /\ reading' \in [Slots -> Read]
                 /\ \A k \in Slots : reading'[k].at = "idle" => reading'[k] = NoRead
                 /\ \A k \in Slots : reading'[k].at = "asked" => reading'[k] = Asked
      <3>1. r \in Read /\ (r.at = "idle" => r = NoRead) /\ (r.at = "asked" => r = Asked)
        BY <1>t, LiveShape, ReadValues DEF NoRead, Asked
      <3>2. reading'[s] = r /\ \A k \in Slots \ {s} : reading'[k] = reading[k]
        BY <1>t, <2>3, LiveShape
      <3> QED  BY <1>t, <2>3, <3>1, <3>2, LiveShape DEF LiveInv
    <2> QED  BY <1>t, <2>1, <2>2, <2>3, ReadsMove
  <1>2. /\ newest' \in Stored /\ unpublished' \subseteq Stored /\ begun' \subseteq Stored /\ clock' \in Stored
        /\ client' = client /\ relay' \in {"down", "deaf", "listening"}
    BY <1>t, LiveShape, VersionsAssumption
       DEF LiveNext, SaveBegins, SaveCommits, Publishes, RelayStarts, RelayStops, RelayTurns, Connects,
           Disconnects, Delivers, Watches, ReadHandled, ReadArrives, ReadLost, siteVars, Stored
  <1>3. shown' \in Stored \union {0}
    <2>1. CASE Delivers
      <3>1. Head(wire) \in Stored
        BY <1>t, <2>1, LiveShape DEF Delivers
      <3> QED  BY <1>t, <2>1, <3>1, LiveShape DEF Delivers, ApplyConfig
    <2>2. ASSUME NEW s \in Slots, ReadArrives(s) PROVE shown' \in Stored \union {0}
      <3>1. reading[s].got \in Stored \union {0}
        BY <1>t, LiveShape DEF Read
      <3> QED  BY <1>t, <2>2, <3>1, LiveShape DEF ReadArrives, ApplyConfig
    <2> QED  BY <1>t, <2>1, <2>2, LiveShape
          DEF LiveNext, SaveBegins, SaveCommits, Publishes, RelayStarts, RelayStops, RelayTurns, Connects,
              Disconnects, Watches, ReadHandled, ReadLost
  <1>4. failed' \in BOOLEAN /\ stale' \in BOOLEAN /\ watched' \in BOOLEAN /\ socketUp' \in BOOLEAN
    BY <1>t, LiveShape
       DEF LiveNext, SaveBegins, SaveCommits, Publishes, RelayStarts, RelayStops, RelayTurns, Connects,
           Disconnects, Delivers, Watches, ReadHandled, ReadArrives, ReadLost, Invalidates, FirstReadMisses
  <1>5. wire' \in Seq(Stored)
    BY <1>t, WireMoves
  <1> QED  BY <1>t, <1>1, <1>2, <1>3, <1>4, <1>5, LiveShape DEF LiveTypeOK, Stored, Read

LEMMA WebStays ==
    ASSUME LiveInv, LiveNext, client = "web", socketUp', ~failed'
    PROVE  WebKnows'
  <1>t. /\ LiveTypeOK /\ newest \in Nat /\ shown \in Nat /\ unpublished \subseteq Nat
        /\ wire \in Seq(Nat) /\ Len(wire) \in Nat /\ reading \in [Slots -> Read]
        /\ \A i \in 1..Len(wire) : wire[i] \in Nat
    BY LiveShape DEF LiveInv
  <1>n. Stored \union {0} \subseteq Nat /\ \A k \in Slots : reading[k].got \in Nat
    BY <1>t, LiveShape DEF Read
  <1>k. socketUp /\ ~failed => WebKnows
    BY DEF LiveInv
  <1>1. ASSUME NEW v \in begun, SaveCommits(v) PROVE WebKnows'
    <2>1. v \in unpublished' /\ v >= newest'
      BY <1>1, <1>t, LiveShape DEF SaveCommits
    <2> QED  BY <2>1 DEF WebKnows
  <1>2. ASSUME NEW v \in unpublished, Publishes(v) PROVE WebKnows'
    <2>1. /\ socketUp /\ ~failed /\ wire' = Append(wire, v) /\ unpublished' = unpublished \ {v}
          /\ UNCHANGED <<newest, shown, reading>>
      BY <1>2 DEF Publishes, siteVars
    <2>2. /\ Len(wire') = Len(wire) + 1 /\ wire'[Len(wire) + 1] = v
          /\ \A i \in 1..Len(wire) : wire'[i] = wire[i]
      BY <1>t, <2>1
    <2>3. Len(wire) + 1 \in 1..Len(wire') /\ \A i \in 1..Len(wire) : i \in 1..Len(wire')
      BY <1>t, <2>2
    <2>4. CASE \E u \in unpublished : u >= newest
      BY <2>1, <2>2, <2>3, <2>4 DEF WebKnows
    <2>5. CASE \E i \in 1..Len(wire) : wire[i] >= newest
      BY <2>1, <2>2, <2>3, <2>5 DEF WebKnows
    <2> QED  BY <1>k, <2>1, <2>4, <2>5 DEF WebKnows
  <1>3. CASE Connects
    <2>1. PICK k \in Slots : reading' = [reading EXCEPT ![k] = Asked]
      BY <1>3 DEF Connects
    <2>2. reading'[k] = Asked
      BY <1>t, <2>1
    <2> QED  BY <2>2 DEF WebKnows
  <1>4. CASE Delivers
    <2>1. /\ socketUp /\ ~failed /\ wire # <<>> /\ wire' = Tail(wire)
          /\ shown' = ApplyConfig(Head(wire)) /\ UNCHANGED <<unpublished, newest, reading>>
      BY <1>4, LiveShape, <1>t DEF Delivers, siteVars
    <2>2. Head(wire) = wire[1] /\ wire[1] \in Nat
      BY <1>t, <2>1
    <2>3. shown' >= shown /\ shown' >= wire[1] /\ shown' \in Nat
      BY <1>t, <2>1, <2>2 DEF ApplyConfig
    <2>4. CASE \E i \in 1..Len(wire) : wire[i] >= newest
      <3>1. PICK i \in 1..Len(wire) : wire[i] >= newest
        BY <2>4
      <3>2. CASE i = 1
        BY <1>t, <2>1, <2>2, <2>3, <3>1, <3>2 DEF WebKnows
      <3>3. CASE i # 1
        <4>1. i - 1 \in 1..Len(wire') /\ wire'[i - 1] = wire[i]
          BY <1>t, <2>1, <3>3
        <4> QED  BY <2>1, <3>1, <4>1 DEF WebKnows
      <3> QED  BY <3>2, <3>3
    <2>5. CASE shown >= newest
      BY <1>t, <2>1, <2>3, <2>5 DEF WebKnows
    <2> QED  BY <1>k, <2>1, <2>4, <2>5 DEF WebKnows
  <1>5. ASSUME NEW k \in Slots, ReadHandled(k) PROVE WebKnows'
    <2>1. reading'[k] = [at |-> "read", got |-> newest] /\ newest' = newest
      BY <1>t, <1>5 DEF ReadHandled, siteVars
    <2>2. reading'[k].at = "read" /\ reading'[k].got >= newest'
      BY <1>t, <2>1
    <2> QED  BY <2>2 DEF WebKnows
  <1>6. ASSUME NEW k \in Slots, ReadArrives(k) PROVE WebKnows'
    <2>1. /\ socketUp /\ ~failed /\ reading[k].at = "read" /\ shown' = ApplyConfig(reading[k].got)
          /\ reading' = [reading EXCEPT ![k] = NoRead] /\ UNCHANGED <<unpublished, newest, wire>>
      BY <1>6 DEF ReadArrives, siteVars
    <2>2. shown' >= shown /\ shown' >= reading[k].got /\ shown' \in Nat
      BY <1>t, <1>n, <2>1 DEF ApplyConfig
    <2>3. CASE shown >= newest
      BY <1>t, <2>1, <2>2, <2>3 DEF WebKnows
    <2>4. CASE \E j \in Slots : reading[j] = Asked \/ (reading[j].at = "read" /\ reading[j].got >= newest)
      <3>1. PICK j \in Slots : reading[j] = Asked \/ (reading[j].at = "read" /\ reading[j].got >= newest)
        BY <2>4
      <3>2. CASE j = k
        BY <1>t, <1>n, <2>1, <2>2, <3>1, <3>2 DEF WebKnows, Asked
      <3>3. CASE j # k
        BY <1>t, <2>1, <3>1, <3>3 DEF WebKnows
      <3> QED  BY <3>2, <3>3
    <2> QED  BY <1>k, <2>1, <2>3, <2>4 DEF WebKnows
  <1>7. CASE SaveBegins \/ RelayStarts \/ RelayTurns
    <2>1. socketUp /\ ~failed /\ UNCHANGED <<newest, unpublished, wire, reading, shown>>
      <3>1. CASE SaveBegins
        BY <3>1 DEF SaveBegins
      <3>2. CASE RelayStarts
        BY <3>2 DEF RelayStarts, siteVars
      <3>3. CASE RelayTurns
        BY <3>3 DEF RelayTurns, siteVars
      <3> QED  BY <1>7, <3>1, <3>2, <3>3
    <2> QED  BY <2>1, <1>k DEF WebKnows
  <1> QED  BY <1>1, <1>2, <1>3, <1>4, <1>5, <1>6, <1>7
        DEF LiveNext, RelayStops, Disconnects, Watches, ReadLost

\* One signal more is on its way.
LEMMA SignalSent ==
    ASSUME LiveTypeOK, NEW v, wire' = Append(wire, v)
    PROVE  wire' # <<>>
  BY LiveShape

LEMMA PhoneReadsStay ==
    ASSUME LiveInv, LiveNext, client = "phone"
    PROVE  PhoneReads'
  <1>t. LiveTypeOK /\ reading \in [Slots -> Read] /\ newest # 0 /\ PhoneReads /\ 1 \in Slots
    BY LiveShape DEF LiveInv
  <1>a. /\ NothingRead[1].at # "read" /\ Asked.at # "read" /\ NoRead.at # "read"
        /\ \A k \in Slots : NothingRead[k] = NoRead
        /\ \A x \in {NoRead, Asked} : \A k \in Slots \ {1} : [NothingRead EXCEPT ![1] = x][k] = NoRead
        /\ \A x \in {NoRead, Asked} : [NothingRead EXCEPT ![1] = x][1] = x
    BY <1>t DEF NothingRead, NoRead, Asked
  <1>1. CASE reading' = reading /\ watched' = watched
    BY <1>t, <1>1 DEF PhoneReads
  <1>2. CASE Watches
    BY <1>t, <1>a, <1>2 DEF Watches, PhoneReads
  <1>3. CASE Connects \/ Delivers
    <2>1. Invalidates /\ watched' = watched
      BY <1>3 DEF Connects, Delivers
    <2> QED  BY <1>t, <1>a, <2>1 DEF Invalidates, PhoneReads
  <1>4. ASSUME NEW k \in Slots, ReadHandled(k) \/ ReadArrives(k) \/ ReadLost(k) PROVE PhoneReads'
    <2>1. reading[k] # NoRead
      BY <1>4 DEF ReadHandled, ReadArrives, ReadLost, NoRead, Asked
    <2>2. k = 1 /\ watched /\ watched' = watched
      BY <1>t, <1>a, <1>4, <2>1 DEF PhoneReads, ReadHandled, ReadArrives, ReadLost
    <2>3. \E x \in {NoRead, [at |-> "read", got |-> newest]} : reading' = [reading EXCEPT ![1] = x]
      BY <1>4, <2>2 DEF ReadHandled, ReadArrives, ReadLost
    <2>4. \A j \in Slots \ {1} : reading'[j] = NoRead
      BY <1>t, <2>3 DEF PhoneReads
    <2>5. reading'[1].at = "read" => reading'[1].got # 0
      BY <1>t, <2>3 DEF NoRead
    <2> QED  BY <2>2, <2>4, <2>5 DEF PhoneReads
  <1> QED  BY <1>1, <1>2, <1>3, <1>4
        DEF LiveNext, SaveBegins, SaveCommits, Publishes, RelayStarts, RelayStops, RelayTurns, Disconnects

LEMMA PhoneStays ==
    ASSUME LiveInv, LiveNext, client = "phone", socketUp', ~failed'
    PROVE  PhoneKnows'
  <1>t. /\ LiveTypeOK /\ reading \in [Slots -> Read] /\ newest # 0 /\ PhoneReads /\ 1 \in Slots
        /\ stale \in BOOLEAN
    BY LiveShape DEF LiveInv
  <1>k. socketUp /\ ~failed => PhoneKnows
    BY DEF LiveInv
  <1>a. /\ NoRead.at = "idle" /\ Asked.at = "asked" /\ NothingRead[1] = NoRead
        /\ \A x \in {NoRead, Asked} : [NothingRead EXCEPT ![1] = x][1] = x
    BY <1>t DEF NothingRead, NoRead, Asked
  <1>b. reading[1].at = "idle" => reading = NothingRead
    <2>1. reading[1].at = "idle" => \A k \in Slots : reading[k] = NoRead
      BY <1>t DEF LiveInv, PhoneReads
    <2> QED  BY <1>t, <2>1 DEF NothingRead
  <1>1. ASSUME NEW v \in begun, SaveCommits(v) PROVE PhoneKnows'
    <2>1. OnItsWay' /\ socketUp /\ ~failed /\ UNCHANGED <<reading, watched, stale, shown>>
      BY <1>1 DEF SaveCommits, OnItsWay
    <2> QED  BY <2>1, <1>k DEF PhoneKnows
  <1>2. ASSUME NEW v \in unpublished, Publishes(v) PROVE PhoneKnows'
    <2>1. OnItsWay' /\ socketUp /\ ~failed /\ UNCHANGED <<reading, watched, stale, shown>>
      BY <1>2, <1>t, SignalSent DEF Publishes, OnItsWay
    <2> QED  BY <2>1, <1>k DEF PhoneKnows
  <1>3. CASE Connects \/ Delivers
    <2>1. /\ Invalidates /\ watched' = watched /\ shown' = shown /\ stale' /\ ~FirstReadMisses
      <3>1. Invalidates /\ watched' = watched /\ shown' = shown
        BY <1>3 DEF Connects, Delivers
      <3>2. failed' = FirstReadMisses \/ failed' = (failed \/ FirstReadMisses)
        BY <1>3 DEF Connects, Delivers
      <3>3. ~FirstReadMisses
        BY <3>2
      <3> QED  BY <3>1, <3>3 DEF Invalidates
    <2>2. CASE ~watched
      BY <1>t, <1>a, <2>1, <2>2 DEF Invalidates, PhoneReads, PhoneKnows
    <2>3. CASE watched /\ shown = 0 /\ reading # NothingRead
      <3>1. reading' = reading /\ reading[1].at # "read" /\ reading[1].at # "idle"
        BY <1>b, <2>1, <2>3 DEF Invalidates, FirstReadMisses
      <3> QED  BY <2>1, <3>1 DEF PhoneKnows
    <2>4. CASE watched /\ ~(shown = 0 /\ reading # NothingRead)
      <3>1. reading' = [NothingRead EXCEPT ![1] = Asked]
        BY <2>1, <2>4 DEF Invalidates
      <3>2. reading'[1].at = "asked"
        BY <1>a, <3>1
      <3> QED  BY <2>1, <3>2 DEF PhoneKnows
    <2> QED  BY <2>2, <2>3, <2>4
  <1>4. ASSUME NEW j \in Slots, ReadHandled(j) PROVE PhoneKnows'
    <2>1. j = 1
      BY <1>t, <1>4 DEF ReadHandled, PhoneReads, NoRead, Asked
    <2>2. /\ reading'[1].at = "read" /\ reading'[1].got = newest'
          /\ socketUp /\ ~failed /\ UNCHANGED <<unpublished, wire, newest, shown, stale, watched>>
      BY <1>t, <1>4, <2>1 DEF ReadHandled, siteVars
    <2> QED  BY <1>k, <2>2 DEF PhoneKnows, OnItsWay
  <1>5. ASSUME NEW j \in Slots, ReadArrives(j) PROVE PhoneKnows'
    <2>1. j = 1
      BY <1>t, <1>a, <1>5 DEF ReadArrives, PhoneReads
    <2>2. /\ reading[1].at = "read" /\ reading'[1] = NoRead /\ stale' = FALSE /\ shown' = reading[1].got
          /\ socketUp /\ ~failed /\ UNCHANGED <<unpublished, wire, newest, watched>>
      BY <1>t, <1>5, <2>1 DEF ReadArrives, siteVars
    <2>3. shown' # 0
      BY <1>t, <2>2 DEF PhoneReads
    <2> QED  BY <1>k, <1>a, <2>2, <2>3 DEF PhoneKnows, OnItsWay
  <1>6. CASE Watches
    <2>1. /\ watched' = ~watched /\ socketUp /\ ~failed
          /\ UNCHANGED <<unpublished, wire, newest, shown, stale>>
          /\ \E x \in {NoRead, Asked} : reading' = [NothingRead EXCEPT ![1] = x]
      BY <1>6 DEF Watches, siteVars
    <2>2. reading'[1] \in {NoRead, Asked}
      BY <1>a, <2>1
    <2>3. ~watched /\ (stale \/ shown = 0) => reading'[1].at = "asked"
      <3>1. [NothingRead EXCEPT ![1] = NoRead] = NothingRead
        BY <1>t DEF NothingRead
      <3> QED  BY <1>a, <1>6, <2>1, <3>1 DEF Watches
    <2> QED  BY <1>k, <1>a, <2>1, <2>2, <2>3 DEF PhoneKnows, OnItsWay
  <1>7. CASE SaveBegins \/ RelayStarts \/ RelayTurns
    <2>1. /\ socketUp /\ ~failed
          /\ UNCHANGED <<newest, unpublished, wire, reading, shown, stale, watched>>
      <3>1. CASE SaveBegins
        BY <3>1 DEF SaveBegins
      <3>2. CASE RelayStarts
        BY <3>2 DEF RelayStarts, siteVars
      <3>3. CASE RelayTurns
        BY <3>3 DEF RelayTurns, siteVars
      <3> QED  BY <1>7, <3>1, <3>2, <3>3
    <2> QED  BY <2>1, <1>k DEF PhoneKnows, OnItsWay
  <1> QED  BY <1>1, <1>2, <1>3, <1>4, <1>5, <1>6, <1>7
        DEF LiveNext, RelayStops, Disconnects, ReadLost

LEMMA LiveStarts ==
    ASSUME LiveInit
    PROVE  LiveInv
  <1> USE DEF LiveInit
  <1>1. LiveTypeOK
    <2>1. 1 \in 1..(Versions + 1)
      BY VersionsAssumption
    <2>2. wire \in Seq(1..(Versions + 1))
      OBVIOUS
    <2>3. reading \in [Slots -> [at : {"idle", "asked", "read"}, got : 1..(Versions + 1) \union {0}]]
      BY ReadValues DEF Read, Stored
    <2> QED  BY <2>1, <2>2, <2>3 DEF LiveTypeOK
  <1>2. \A s \in Slots : reading[s] \in {NoRead, Asked} /\ (s # 1 => reading[s] = NoRead)
    BY DEF NothingRead
  <1>3. NoRead.at = "idle" /\ Asked.at = "asked"
    BY DEF NoRead, Asked
  <1>4. 1 \in Slots
    BY VersionsAssumption DEF Slots
  <1> QED  BY <1>1, <1>2, <1>3, <1>4 DEF LiveInv, PhoneReads

LEMMA LiveStepKeeps ==
    ASSUME LiveInv, [LiveNext]_liveVars
    PROVE  LiveInv'
  <1>1. CASE LiveNext
    <2>1. client' = client
      BY <1>1 DEF LiveNext, SaveBegins, SaveCommits, Publishes, RelayStarts, RelayStops, RelayTurns,
             Connects, Disconnects, Delivers, Watches, ReadHandled, ReadArrives, ReadLost
    <2> QED  BY <1>1, <2>1, LiveTypesStay, WebStays, PhoneReadsStay, PhoneStays DEF LiveInv
  <1>2. CASE UNCHANGED liveVars
    BY <1>2 DEF liveVars, siteVars, LiveInv, LiveTypeOK, WebKnows, PhoneKnows, PhoneReads, OnItsWay
  <1> QED  BY <1>1, <1>2

\* Nothing is carried or shown that was not stored.
CommittedOnly ==
    /\ begun \subseteq 1..clock
    /\ newest \in Committed /\ unpublished \subseteq Committed /\ shown \in Committed \union {0}
    /\ \A i \in 1..Len(wire) : wire[i] \in Committed
    /\ \A s \in Slots : reading[s].got \in Committed \union {0}

LEMMA CommittedGrows ==
    ASSUME LiveTypeOK, LiveNext, CommittedOnly
    PROVE  /\ begun' \subseteq 1..clock' /\ Committed \subseteq Committed'
           /\ newest' \in Committed' /\ unpublished' \subseteq Committed'
  <1>1. clock \in Nat
    BY LiveShape
  <1>2. CASE SaveBegins
    <2>1. clock' = clock + 1 /\ begun' = begun \union {clock + 1} /\ UNCHANGED <<newest, unpublished>>
      BY <1>2 DEF SaveBegins
    <2>2. 1..clock \subseteq 1..(clock + 1) /\ clock + 1 \notin 1..clock /\ clock + 1 \in 1..(clock + 1)
      BY <1>1
    <2> QED  BY <2>1, <2>2 DEF CommittedOnly, Committed
  <1>3. ASSUME NEW v \in begun, SaveCommits(v)
        PROVE  /\ begun' \subseteq 1..clock' /\ Committed \subseteq Committed'
               /\ newest' \in Committed' /\ unpublished' \subseteq Committed'
    <2>1. clock' = clock /\ begun' = begun \ {v} /\ newest' = v /\ unpublished' = unpublished \union {v}
      BY <1>3 DEF SaveCommits
    <2> QED  BY <2>1 DEF CommittedOnly, Committed
  <1>4. CASE UNCHANGED <<begun, clock, newest>> /\ unpublished' \subseteq unpublished
    BY <1>4 DEF CommittedOnly, Committed
  <1> QED  BY <1>2, <1>3, <1>4
        DEF LiveNext, Publishes, RelayStarts, RelayStops, RelayTurns, Connects, Disconnects, Delivers,
            Watches, ReadHandled, ReadArrives, ReadLost, siteVars

LEMMA CommittedStays ==
    ASSUME LiveTypeOK, LiveNext, CommittedOnly
    PROVE  CommittedOnly'
  <1>0. /\ wire \in Seq(Stored) /\ reading \in [Slots -> Read] /\ Committed \subseteq Committed'
        /\ newest \in Committed' /\ unpublished \subseteq Committed'
        /\ \A i \in 1..Len(wire) : wire[i] \in Committed'
        /\ \A s \in Slots : reading[s].got \in Committed' \union {0}
        /\ shown \in Committed' \union {0}
    BY LiveShape, CommittedGrows DEF CommittedOnly
  <1>1. \A i \in 1..Len(wire') : wire'[i] \in Committed'
    <2>1. CASE wire' = wire \/ wire' = <<>>
      BY <1>0, <2>1
    <2>2. CASE wire # <<>> /\ wire' = Tail(wire)
      BY <1>0, <2>2
    <2>3. ASSUME NEW v \in unpublished, wire' = Append(wire, v)
          PROVE  \A i \in 1..Len(wire') : wire'[i] \in Committed'
      <3>1. Len(wire') = Len(wire) + 1 /\ Len(wire) \in Nat
            /\ \A i \in 1..Len(wire') : wire'[i] = IF i \in 1..Len(wire) THEN wire[i] ELSE v
        BY <1>0, <2>3
      <3>2. v \in Committed'
        BY <1>0
      <3> QED  BY <1>0, <3>1, <3>2
    <2> QED  BY <2>1, <2>2, <2>3
          DEF LiveNext, SaveBegins, SaveCommits, Publishes, RelayStarts, RelayStops, RelayTurns, Connects,
              Disconnects, Delivers, Watches, ReadHandled, ReadArrives, ReadLost, siteVars
  <1>2. \A s \in Slots : reading'[s].got \in Committed' \union {0}
    <2>1. NoRead.got = 0 /\ Asked.got = 0 /\ NothingRead \in [Slots -> Read]
          /\ \A s \in Slots : NothingRead[s] = NoRead
      BY ReadValues DEF NoRead, Asked, NothingRead
    <2>2. CASE reading' \in {reading, NothingRead, [NothingRead EXCEPT ![1] = Asked], [NothingRead EXCEPT ![1] = NoRead]}
      BY <1>0, <2>1, <2>2
    <2>3. ASSUME NEW s \in Slots, NEW r, r.got \in Committed' \union {0}, reading' = [reading EXCEPT ![s] = r]
          PROVE  \A k \in Slots : reading'[k].got \in Committed' \union {0}
      BY <1>0, <2>3
    <2>4. [at |-> "read", got |-> newest].got \in Committed'
      BY <1>0
    <2> QED  BY <2>1, <2>2, <2>3, <2>4, ReadsMove
  <1>3. shown' \in Committed' \union {0}
    <2>1. CASE Delivers
      <3>1. Head(wire) = wire[1] /\ 1 \in 1..Len(wire)
        BY <1>0, <2>1 DEF Delivers
      <3> QED  BY <1>0, <2>1, <3>1 DEF Delivers, ApplyConfig
    <2>2. ASSUME NEW s \in Slots, ReadArrives(s) PROVE shown' \in Committed' \union {0}
      BY <1>0, <2>2 DEF ReadArrives, ApplyConfig
    <2> QED  BY <1>0, <2>1, <2>2
          DEF LiveNext, SaveBegins, SaveCommits, Publishes, RelayStarts, RelayStops, RelayTurns, Connects,
              Disconnects, Watches, ReadHandled, ReadLost
  <1> QED  BY <1>1, <1>2, <1>3, CommittedGrows DEF CommittedOnly

LEMMA CommittedStarts ==
    ASSUME LiveInit
    PROVE  CommittedOnly
  <1>1. Committed = {1}
    BY DEF LiveInit, Committed
  <1>2. \A s \in Slots : reading[s].got = 0
    BY ReadValues DEF LiveInit, NothingRead, NoRead, Asked
  <1>3. Len(wire) = 0
    BY DEF LiveInit
  <1> QED  BY <1>1, <1>2, <1>3 DEF LiveInit, CommittedOnly

LEMMA CommittedStepKeeps ==
    ASSUME LiveInv, CommittedOnly, [LiveNext]_liveVars
    PROVE  CommittedOnly'
  <1>1. CASE UNCHANGED liveVars
    BY <1>1 DEF liveVars, siteVars, CommittedOnly, Committed
  <1> QED  BY <1>1, CommittedStays DEF LiveInv

\* A client on which nothing is on its way shows what is stored, or a browser a version that was
\* stored and overwritten against the stamps (ConnectedIsCurrent).
THEOREM ConnectedClientsAreCurrent == LiveSpec => []ConnectedIsCurrent
  <1>1. ASSUME LiveInv, CommittedOnly PROVE ConnectedIsCurrent
    <2> SUFFICES ASSUME socketUp, watched, Quiet, ~failed
                 PROVE  \/ shown = newest
                        \/ client = "web" /\ shown > newest /\ shown \in Committed
      BY DEF ConnectedIsCurrent
    <2>1. /\ wire = <<>> /\ unpublished = {} /\ \A s \in Slots : reading[s].at = "idle"
      BY DEF Quiet, NothingRead, NoRead
    <2>2. CASE client = "web"
      <3>1. shown >= newest
        BY <1>1, <2>1, <2>2 DEF LiveInv, WebKnows, Asked
      <3>2. newest \in Nat \ {0} /\ shown \in Nat
        BY <1>1, LiveShape DEF LiveInv
      <3>3. shown # 0 /\ shown \in Committed \union {0}
        BY <1>1, <3>1, <3>2 DEF CommittedOnly
      <3> QED  BY <2>2, <3>1, <3>2, <3>3
    <2>3. CASE client = "phone"
      BY <1>1, <2>1, <2>3, LiveShape DEF LiveInv, PhoneKnows, OnItsWay
    <2> QED  BY <1>1, <2>2, <2>3, LiveShape DEF LiveInv
  <1>2. LiveInit => LiveInv /\ CommittedOnly
    BY LiveStarts, CommittedStarts
  <1>3. LiveInv /\ CommittedOnly /\ [LiveNext]_liveVars => LiveInv' /\ CommittedOnly'
    BY LiveStepKeeps, CommittedStepKeeps
  <1> QED  BY <1>1, <1>2, <1>3, PTL DEF LiveSpec

-----------------------------------------------------------------------------
(* THE LIST OF RACES *)

\* Places are counted without a gap: the first n races of a list are n.
LEMMA PlacesCount ==
    ASSUME NEW listing \in SUBSET Season, NEW r \in listing
    PROVE  /\ IsFiniteSet(listing) /\ Cardinality(listing) \in Nat /\ Place(listing, r) \in Nat
           /\ Place(listing, r) < Cardinality(listing)
           /\ \A q \in listing : q < r => Place(listing, q) < Place(listing, r)
<1>1. IsFiniteSet(Season)
  BY TimelineAssumption, FS_Interval DEF Season
<1>2. \A T \in SUBSET Season : IsFiniteSet(T) /\ Cardinality(T) \in Nat
  BY <1>1, FS_Subset, FS_CardinalityType
<1>3. ASSUME NEW T \in SUBSET Season, NEW S \in SUBSET T, NEW x \in T, x \notin S
      PROVE  Cardinality(S) < Cardinality(T)
  BY <1>2, <1>3, FS_Subset
<1>4. \A q \in listing : q \in Nat
  BY DEF Season
<1>5. {q \in listing : q < r} \in SUBSET listing /\ r \notin {q \in listing : q < r}
  BY <1>4
<1>6. ASSUME NEW q \in listing, q < r
      PROVE  Place(listing, q) < Place(listing, r)
  <2>1. /\ {p \in listing : p < q} \in SUBSET {p \in listing : p < r}
        /\ q \in {p \in listing : p < r} /\ q \notin {p \in listing : p < q}
    BY <1>4, <1>6
  <2>2. {p \in listing : p < r} \in SUBSET Season
    OBVIOUS
  <2> QED
    BY <1>3, <2>1, <2>2 DEF Place
<1> QED
  BY <1>2, <1>3, <1>5, <1>6 DEF Place

LEMMA FirstCounted ==
    ASSUME NEW listing \in SUBSET Season, NEW n \in Nat
    PROVE  /\ IsFiniteSet(listing) /\ Cardinality(listing) \in Nat
           /\ IsFiniteSet(FirstRaces(listing, n))
           /\ n <= Cardinality(listing) => Cardinality(FirstRaces(listing, n)) = n
           /\ Cardinality(listing) <= n => FirstRaces(listing, n) = listing
<1> DEFINE N == Cardinality(listing)
           f == [r \in listing |-> Place(listing, r) + 1]
           First == FirstRaces(listing, n)
           g == [r \in First |-> f[r]]
<1>1. IsFiniteSet(listing) /\ N \in Nat
  <2>1. IsFiniteSet(Season)
    BY TimelineAssumption, FS_Interval DEF Season
  <2> QED
    BY <2>1, FS_Subset, FS_CardinalityType
<1>2. IsFiniteSet(First)
  BY <1>1, FS_Subset DEF FirstRaces
<1>3. N <= n => First = listing
  <2> SUFFICES ASSUME N <= n, NEW r \in listing
               PROVE  Place(listing, r) < n
    BY DEF FirstRaces
  <2>1. Place(listing, r) \in Nat /\ Place(listing, r) < N
    BY PlacesCount
  <2> QED
    BY <1>1, <2>1
<1>4. ASSUME n <= N
      PROVE  Cardinality(First) = n
  <2>1. \A r \in listing : f[r] = Place(listing, r) + 1 /\ f[r] \in 1..N
    BY <1>1, PlacesCount
  <2>2. \A q, r \in listing : q # r => f[q] # f[r]
    <3> SUFFICES ASSUME NEW q \in listing, NEW r \in listing, q # r
                 PROVE  Place(listing, q) # Place(listing, r)
      BY <2>1, PlacesCount
    <3>1. q < r \/ r < q
      BY DEF Season
    <3>2. Place(listing, q) \in Nat /\ Place(listing, r) \in Nat
      BY PlacesCount
    <3>3. q < r => Place(listing, q) < Place(listing, r)
      BY PlacesCount
    <3>4. r < q => Place(listing, r) < Place(listing, q)
      BY PlacesCount
    <3> QED
      BY <3>1, <3>2, <3>3, <3>4
  <2>3. f \in Injection(listing, 1..N)
    BY <2>1, <2>2 DEF Injection, IsInjective
  <2>4. Cardinality(1..N) = N /\ IsFiniteSet(1..N) /\ Cardinality(1..n) = n
    BY <1>1, FS_Interval
  <2>5. f \in Surjection(listing, 1..N)
    BY <2>3, <2>4, FS_Injection
  <2>6. \A y \in 1..N : \E r \in listing : f[r] = y
    BY <2>5 DEF Surjection
  <2>7. \A r \in First : r \in listing /\ g[r] = f[r] /\ g[r] \in 1..n
    BY <2>1, PlacesCount DEF FirstRaces
  <2>8. g \in Injection(First, 1..n)
    BY <2>2, <2>7 DEF Injection, IsInjective
  <2>9. \A y \in 1..n : \E r \in First : g[r] = y
    <3> SUFFICES ASSUME NEW y \in 1..n
                 PROVE  \E r \in First : g[r] = y
      OBVIOUS
    <3>1. PICK r \in listing : f[r] = y
      BY <1>1, <1>4, <2>6
    <3>2. Place(listing, r) < n
      BY <2>1, <3>1, PlacesCount
    <3> QED
      BY <3>1, <3>2 DEF FirstRaces
  <2>10. g \in Bijection(First, 1..n)
    BY <2>8, <2>9 DEF Bijection, Surjection, Injection
  <2> QED
    BY <1>2, <2>4, <2>10, FS_Bijection DEF ExistsBijection
<1> QED
  BY <1>1, <1>2, <1>3, <1>4

\* A page goes on where the one before it ended, and is empty only behind the last race.
LEMMA PageGoesOn ==
    ASSUME NEW listing \in SUBSET Season, NEW off \in Nat, off <= Cardinality(listing)
    PROVE  LET brings == RowsFrom(listing, off)
           IN  /\ Cardinality(brings) \in Nat /\ off + Cardinality(brings) <= Cardinality(listing)
               /\ off < Cardinality(listing) => brings # {}
               /\ FirstRaces(listing, off) \union brings = FirstRaces(listing, off + Cardinality(brings))
<1> DEFINE N == Cardinality(listing)
           end == off + PageRows
           brings == RowsFrom(listing, off)
<1>0. PageRows \in Nat /\ PageRows > 0 /\ N \in Nat
  BY TimelineAssumption, FirstCounted
<1>1. /\ IsFiniteSet(FirstRaces(listing, end)) /\ Cardinality(FirstRaces(listing, off)) = off
      /\ end <= N => Cardinality(FirstRaces(listing, end)) = end
      /\ N <= end => FirstRaces(listing, end) = listing
      /\ FirstRaces(listing, N) = listing
  BY <1>0, FirstCounted
<1>2. FirstRaces(listing, off) \subseteq FirstRaces(listing, end)
  <2> SUFFICES ASSUME NEW r \in listing, Place(listing, r) < off
               PROVE  Place(listing, r) < end
    BY DEF FirstRaces
  <2> QED
    BY <1>0, PlacesCount
<1>3. Cardinality(brings) = Cardinality(FirstRaces(listing, end)) - off /\ Cardinality(brings) \in Nat
  <2>1. FirstRaces(listing, end) \intersect FirstRaces(listing, off) = FirstRaces(listing, off)
    BY <1>2
  <2>2. /\ IsFiniteSet(brings)
        /\ Cardinality(brings) = Cardinality(FirstRaces(listing, end))
                               - Cardinality(FirstRaces(listing, end) \intersect FirstRaces(listing, off))
    BY <1>1, FS_Difference DEF RowsFrom
  <2> QED
    BY <1>1, <2>1, <2>2, FS_CardinalityType
<1>4. FirstRaces(listing, off) \union brings = FirstRaces(listing, end)
  BY <1>2 DEF RowsFrom
<1>5. CASE end <= N
  <2>1. Cardinality(brings) = PageRows
    BY <1>0, <1>1, <1>3, <1>5
  <2> QED
    BY <1>0, <1>4, <1>5, <2>1, FS_EmptySet
<1>6. CASE ~(end <= N)
  <2>1. Cardinality(brings) = N - off
    BY <1>0, <1>1, <1>3, <1>6
  <2>2. brings = {} => Cardinality(brings) = 0
    BY FS_EmptySet
  <2>3. off + Cardinality(brings) = N /\ (off < N => brings # {})
    BY <1>0, <2>1, <2>2
  <2>4. FirstRaces(listing, off) \union brings = FirstRaces(listing, off + Cardinality(brings))
    <3>1. FirstRaces(listing, end) = FirstRaces(listing, N)
      BY <1>0, <1>1, <1>6
    <3> QED
      BY <1>4, <2>3, <3>1
  <2>5. Cardinality(brings) \in Nat /\ off + Cardinality(brings) <= N
    BY <1>0, <1>3, <2>3
  <2> QED
    BY <2>3, <2>4, <2>5
<1> QED
  BY <1>5, <1>6

ReadPages == [off : Nat, rows : SUBSET Season, total : Nat]

\* The pages are one after the other those of the list.
InOrder(read, listing) ==
    read # <<>> =>
        LET leaf == LastPage(read)
        IN  /\ leaf.total = Cardinality(listing) /\ leaf.off <= Cardinality(listing)
            /\ leaf.rows = RowsFrom(listing, leaf.off)
            /\ Timeline(read) = FirstRaces(listing, leaf.off + Cardinality(leaf.rows))

LEMMA LastRead ==
    ASSUME NEW read \in Seq(ReadPages), NEW leaf \in ReadPages
    PROVE  /\ Append(read, leaf) # <<>> /\ Append(read, leaf) \in Seq(ReadPages)
           /\ Len(Append(read, leaf)) = Len(read) + 1
           /\ LastPage(Append(read, leaf)) = leaf
           /\ Timeline(Append(read, leaf)) = Timeline(read) \union leaf.rows
           /\ Timeline(<<>>) = {}
           /\ read # <<>> => LastPage(read) \in ReadPages
<1>1. /\ Append(read, leaf) \in Seq(ReadPages) /\ Len(Append(read, leaf)) = Len(read) + 1
      /\ \A i \in 1..Len(read) : Append(read, leaf)[i] = read[i]
      /\ Append(read, leaf)[Len(read) + 1] = leaf
      /\ Len(read) \in Nat /\ DOMAIN read = 1..Len(read)
      /\ DOMAIN Append(read, leaf) = 1..(Len(read) + 1)
  OBVIOUS
<1>2. Append(read, leaf) # <<>>
  BY <1>1
<1>3. Timeline(Append(read, leaf)) = Timeline(read) \union leaf.rows
  <2>1. 1..(Len(read) + 1) = (1..Len(read)) \union {Len(read) + 1}
    BY <1>1
  <2> QED
    BY <1>1, <2>1 DEF Timeline
<1>4. read # <<>> => Len(read) \in 1..Len(read)
  BY <1>1
<1>5. read # <<>> => LastPage(read) \in ReadPages
  BY <1>4 DEF LastPage
<1>6. Timeline(<<>>) = {}
  BY DEF Timeline
<1> QED
  BY <1>1, <1>2, <1>3, <1>5, <1>6 DEF LastPage

LEMMA ReadsOn ==
    ASSUME NEW listing \in SUBSET Season, NEW read \in Seq(ReadPages), NEW leaf \in ReadPages,
           InOrder(read, listing),
           read = <<>> => leaf.off = 0,
           read # <<>> => leaf.off # 0 /\ leaf.off = NextOffset(LastPage(read)),
           leaf.total = Cardinality(listing), leaf.rows = RowsFrom(listing, leaf.off)
    PROVE  InOrder(Append(read, leaf), listing)
<1>0. Cardinality(listing) \in Nat /\ leaf.off \in Nat
  BY FirstCounted DEF ReadPages
<1>1. FirstRaces(listing, 0) = {}
  BY FirstCounted, <1>0, FS_EmptySet
<1>2. Timeline(read) = FirstRaces(listing, leaf.off) /\ leaf.off <= Cardinality(listing)
  <2>1. CASE read = <<>>
    <3>1. Timeline(<<>>) = {}
      BY LastRead
    <3>2. Timeline(read) = {} /\ leaf.off = 0
      BY <2>1, <3>1
    <3> QED
      BY <1>0, <1>1, <3>2
  <2>2. CASE read # <<>>
    <3>1. /\ leaf.off = LastPage(read).off + Cardinality(LastPage(read).rows)
          /\ leaf.off < LastPage(read).total
      BY <2>2 DEF NextOffset
    <3> QED
      BY <1>0, <2>2, <3>1 DEF InOrder
  <2> QED
    BY <2>1, <2>2
<1>3. Timeline(Append(read, leaf)) = FirstRaces(listing, leaf.off + Cardinality(leaf.rows))
  BY <1>0, <1>2, LastRead, PageGoesOn
<1> QED
  BY <1>2, <1>3, LastRead DEF InOrder

-----------------------------------------------------------------------------
(* The invariant.  Pages that are neither stale nor mixed are those of the list as it is,    *)
(* and so is what is being read, unless it is a first read that a change overtook.           *)

PageReads == [at : {"idle", "asked", "counted", "answered"}, kind : {"all", "next"},
            got : Seq(ReadPages), total : Nat, rows : SUBSET Season]

TimelineTypes ==
    /\ unheard \in Nat /\ view \in Views
    /\ pages \in [Views -> Seq(ReadPages)]
    /\ stalePages \in [Views -> BOOLEAN] /\ mixed \in [Views -> BOOLEAN]
    /\ fetch \in PageReads

FetchGoesOn ==
    fetch.at # "idle" =>
        /\ pages[view] = <<>> => fetch.kind = "all" /\ fetch.got = <<>>
        /\ fetch.kind = "all" /\ fetch.got # <<>> => NextOffset(LastPage(fetch.got)) # 0
        /\ fetch.kind = "next" => HasMore(view) /\ (stalePages[view] => mixed[view])

PagesFollow ==
    unheard = 0 =>
        \A v \in Views : ~stalePages[v] /\ ~mixed[v] => InOrder(pages[v], ListedRaces(v))

FetchFollows ==
    LET listing == ListedRaces(view)
    IN  /\ unheard = 0 /\ fetch.at # "idle"
        /\ mixed[view] => fetch.kind = "all" /\ pages[view] # <<>>
        => /\ fetch.kind = "all" => InOrder(fetch.got, listing)
           /\ fetch.at # "asked" => fetch.total = Cardinality(listing)
           /\ fetch.at = "answered" => fetch.rows = RowsFrom(listing, Offset)

TimelineInv == TimelineTypes /\ FetchGoesOn /\ PagesFollow /\ FetchFollows

LEMMA NothingFetched ==
    /\ NoFetch.at = "idle" /\ NoFetch \in PageReads /\ <<>> \in Seq(ReadPages)
    /\ \A got \in Seq(ReadPages), kind \in {"all", "next"} :
          /\ Reading(kind, got).at = "asked" /\ Reading(kind, got).kind = kind
          /\ Reading(kind, got).got = got /\ Reading(kind, got) \in PageReads
<1>1. <<>> \in Seq(ReadPages) /\ {} \in SUBSET Season /\ 0 \in Nat
  OBVIOUS
<1>2. NoFetch \in PageReads /\ NoFetch.at = "idle"
  BY <1>1 DEF NoFetch, PageReads
<1>3. ASSUME NEW got \in Seq(ReadPages), NEW kind \in {"all", "next"}
      PROVE  /\ Reading(kind, got).at = "asked" /\ Reading(kind, got).kind = kind
             /\ Reading(kind, got).got = got /\ Reading(kind, got) \in PageReads
  BY <1>2 DEF Reading, PageReads
<1> QED
  BY <1>1, <1>2, <1>3

\* The page that is asked for comes after those that were read.
LEMMA OffsetFits ==
    ASSUME TimelineTypes, FetchGoesOn, fetch.at # "idle"
    PROVE  /\ Offset \in Nat
           /\ fetch.kind = "all" /\ fetch.got = <<>> => Offset = 0
           /\ fetch.kind = "all" /\ fetch.got # <<>> =>
                 Offset # 0 /\ Offset = NextOffset(LastPage(fetch.got))
           /\ fetch.kind = "next" =>
                 pages[view] # <<>> /\ Offset # 0 /\ Offset = NextOffset(LastPage(pages[view]))
<1>1. ASSUME NEW leaf \in ReadPages
      PROVE  NextOffset(leaf) \in Nat
  <2>1. IsFiniteSet(Season)
    BY TimelineAssumption, FS_Interval DEF Season
  <2>2. Cardinality(leaf.rows) \in Nat /\ leaf.off \in Nat
    BY <2>1, FS_Subset, FS_CardinalityType DEF ReadPages
  <2> QED
    BY <2>2 DEF NextOffset
<1>2. \A read \in Seq(ReadPages) : read # <<>> => LastPage(read) \in ReadPages
  <2> SUFFICES ASSUME NEW read \in Seq(ReadPages), read # <<>>
               PROVE  read[Len(read)] \in ReadPages
    BY DEF LastPage
  <2>1. Len(read) \in 1..Len(read)
    OBVIOUS
  <2> QED
    BY <2>1
<1>3. fetch.got \in Seq(ReadPages) /\ pages[view] \in Seq(ReadPages) /\ fetch.kind \in {"all", "next"}
  BY DEF TimelineTypes, PageReads
<1>4. CASE fetch.kind = "next"
  <2>1. pages[view] # <<>> /\ NextOffset(LastPage(pages[view])) # 0
    BY <1>4 DEF FetchGoesOn, HasMore
  <2> QED
    BY <1>1, <1>2, <1>3, <1>4, <2>1 DEF Offset
<1>5. CASE fetch.kind = "all"
  BY <1>1, <1>2, <1>3, <1>5 DEF Offset, FetchGoesOn
<1> QED
  BY <1>3, <1>4, <1>5

\* What a finished read brings is the list, where the invariant says it is.
LEMMA PageFollows ==
    ASSUME TimelineInv, fetch.at = "answered", unheard = 0,
           mixed[view] => fetch.kind = "all" /\ pages[view] # <<>>
    PROVE  LET leaf == [off |-> Offset, rows |-> fetch.rows, total |-> fetch.total]
           IN  /\ fetch.kind = "all" => InOrder(Append(fetch.got, leaf), ListedRaces(view))
               /\ fetch.kind = "next" => InOrder(Append(pages[view], leaf), ListedRaces(view))
<1> DEFINE leaf == [off |-> Offset, rows |-> fetch.rows, total |-> fetch.total]
           listing == ListedRaces(view)
<1>1. /\ TimelineTypes /\ fetch.got \in Seq(ReadPages) /\ pages[view] \in Seq(ReadPages)
      /\ view \in Views /\ Offset \in Nat /\ fetch.rows \in SUBSET Season /\ fetch.total \in Nat
  BY OffsetFits DEF TimelineInv, TimelineTypes, PageReads
<1>2. listing \in SUBSET Season
  BY DEF ListedRaces
<1>3. leaf \in ReadPages
  BY <1>1 DEF ReadPages
<1>4. fetch.total = Cardinality(listing) /\ fetch.rows = RowsFrom(listing, Offset)
  BY DEF TimelineInv, FetchFollows
<1>5. leaf.total = Cardinality(listing) /\ leaf.off = Offset /\ leaf.rows = RowsFrom(listing, leaf.off)
  BY <1>4
<1>6. ASSUME fetch.kind = "all"
      PROVE  InOrder(Append(fetch.got, leaf), listing)
  <2>1. InOrder(fetch.got, listing)
    BY <1>6 DEF TimelineInv, FetchFollows
  <2>2. /\ fetch.got = <<>> => leaf.off = 0
        /\ fetch.got # <<>> => leaf.off # 0 /\ leaf.off = NextOffset(LastPage(fetch.got))
    BY <1>5, <1>6, OffsetFits DEF TimelineInv
  <2> HIDE DEF leaf, listing
  <2> QED
    BY <1>1, <1>2, <1>3, <1>5, <2>1, <2>2, ReadsOn
<1>7. ASSUME fetch.kind = "next"
      PROVE  InOrder(Append(pages[view], leaf), listing)
  <2>1. InOrder(pages[view], listing)
    BY <1>1, <1>7 DEF TimelineInv, FetchGoesOn, PagesFollow
  <2>2. pages[view] # <<>> /\ leaf.off # 0 /\ leaf.off = NextOffset(LastPage(pages[view]))
    BY <1>5, <1>7, OffsetFits DEF TimelineInv
  <2> HIDE DEF leaf, listing
  <2> QED
    BY <1>1, <1>2, <1>3, <1>5, <2>1, <2>2, ReadsOn
<1> QED
  BY <1>6, <1>7

LEMMA PageArrivesFollows ==
    ASSUME TimelineInv, PageArrives
    PROVE  TimelineInv'
<1> DEFINE leaf == [off |-> Offset, rows |-> fetch.rows, total |-> fetch.total]
           got == Append(fetch.got, leaf)
           whole == IF fetch.kind = "next" THEN Append(pages[view], leaf) ELSE got
<1>0. /\ TimelineTypes /\ fetch.got \in Seq(ReadPages) /\ pages[view] \in Seq(ReadPages)
      /\ view \in Views /\ Offset \in Nat /\ fetch.rows \in SUBSET Season /\ fetch.total \in Nat
      /\ fetch.at = "answered" /\ fetch.kind \in {"all", "next"}
  BY OffsetFits DEF TimelineInv, TimelineTypes, PageReads, PageArrives
<1>1. leaf \in ReadPages
  BY <1>0 DEF ReadPages
<1>2. /\ got \in Seq(ReadPages) /\ Append(pages[view], leaf) \in Seq(ReadPages)
      /\ Len(got) \in Nat /\ got # <<>> /\ LastPage(got) = leaf /\ whole \in Seq(ReadPages)
  <2> HIDE DEF leaf
  <2>1. got \in Seq(ReadPages) /\ Append(pages[view], leaf) \in Seq(ReadPages)
    BY <1>0, <1>1
  <2>2. Len(got) \in Nat /\ got # <<>> /\ LastPage(got) = leaf
    BY <1>0, <1>1, LastRead
  <2> QED
    BY <2>1, <2>2
<1>3. /\ unheard' = unheard /\ view' = view /\ raceStatus' = raceStatus
      /\ \A v \in Views : ListedRaces(v)' = ListedRaces(v)
  BY DEF PageArrives, ListedRaces
<1>4. CASE fetch.kind = "all" /\ Len(got) < Len(pages[view]) /\ NextOffset(leaf) # 0
  <2>1. fetch' = Reading("all", got) /\ UNCHANGED <<pages, stalePages, mixed>>
    BY <1>4 DEF PageArrives
  <2>2. fetch' \in PageReads /\ fetch'.kind = "all" /\ fetch'.got = got /\ fetch'.at = "asked"
    BY <1>2, <2>1, NothingFetched
  <2>3. pages[view] # <<>>
    BY <1>0, <1>2, <1>4
  <2>4. TimelineTypes'
    BY <1>0, <1>3, <2>1, <2>2 DEF TimelineTypes
  <2>5. FetchGoesOn'
    BY <1>2, <1>3, <1>4, <2>1, <2>2, <2>3 DEF FetchGoesOn
  <2>6. PagesFollow'
    BY <1>3, <2>1 DEF TimelineInv, PagesFollow
  <2>7. FetchFollows'
    <3>1. unheard = 0 => InOrder(got, ListedRaces(view))
      BY <1>0, <1>4, <2>3, PageFollows
    <3> QED
      BY <1>0, <1>3, <2>1, <2>2, <3>1 DEF FetchFollows
  <2> QED
    BY <2>4, <2>5, <2>6, <2>7 DEF TimelineInv
<1>5. CASE ~(fetch.kind = "all" /\ Len(got) < Len(pages[view]) /\ NextOffset(leaf) # 0)
  <2>1. /\ fetch' = NoFetch /\ pages' = [pages EXCEPT ![view] = whole]
        /\ stalePages' = [stalePages EXCEPT ![view] = FALSE]
        /\ mixed' = [mixed EXCEPT ![view] =
                        mixed[view] /\ (fetch.kind = "next" \/ pages[view] = <<>>)]
    BY <1>5 DEF PageArrives
  <2>2. fetch' \in PageReads /\ fetch'.at = "idle"
    BY <2>1, NothingFetched
  <2>3. TimelineTypes'
    <3> HIDE DEF whole
    <3> QED
      BY <1>0, <1>2, <1>3, <2>1, <2>2 DEF TimelineTypes
  <2>4. FetchGoesOn' /\ FetchFollows'
    BY <2>2 DEF FetchGoesOn, FetchFollows
  <2>5. PagesFollow'
    <3> SUFFICES ASSUME unheard = 0, NEW v \in Views, ~stalePages'[v], ~mixed'[v]
                 PROVE  InOrder(pages'[v], ListedRaces(v))
      BY <1>3 DEF PagesFollow
    <3>1. CASE v = view
      <4>1. mixed[view] => fetch.kind = "all" /\ pages[view] # <<>>
        BY <1>0, <2>1, <3>1 DEF TimelineTypes
      <4>2. InOrder(whole, ListedRaces(view))
        BY <1>0, <4>1, PageFollows
      <4> HIDE DEF whole
      <4> QED
        BY <1>0, <2>1, <3>1, <4>2 DEF TimelineTypes
    <3>2. CASE v # view
      BY <1>0, <2>1, <3>2 DEF TimelineInv, TimelineTypes, PagesFollow
    <3> QED
      BY <3>1, <3>2
  <2> QED
    BY <2>3, <2>4, <2>5 DEF TimelineInv
<1> QED
  BY <1>4, <1>5

\* Any other step of the screen leaves the pages alone.
LEMMA ReadStepFollows ==
    ASSUME TimelineInv, PageCounted \/ PageAnswered
    PROVE  TimelineInv'
<1>0. /\ TimelineTypes /\ fetch \in PageReads /\ view \in Views /\ fetch.at # "idle" /\ Offset \in Nat
      /\ UNCHANGED <<raceStatus, unheard, view, pages, stalePages, mixed>>
      /\ \A v \in Views : ListedRaces(v)' = ListedRaces(v)
  BY OffsetFits DEF TimelineInv, TimelineTypes, PageCounted, PageAnswered, ListedRaces
<1>1. /\ Cardinality(ListedRaces(view)) \in Nat /\ RowsFrom(ListedRaces(view), Offset) \in SUBSET Season
  BY FirstCounted DEF ListedRaces, RowsFrom, FirstRaces
<1>2. /\ fetch' \in PageReads /\ fetch'.kind = fetch.kind /\ fetch'.got = fetch.got
      /\ fetch'.at # "idle" /\ fetch'.at # "asked"
      /\ fetch'.at = "counted" => fetch'.total = Cardinality(ListedRaces(view))
      /\ fetch'.at = "answered" => /\ fetch.at = "counted" /\ fetch'.total = fetch.total
                                   /\ fetch'.rows = RowsFrom(ListedRaces(view), Offset)
  BY <1>0, <1>1 DEF PageCounted, PageAnswered, PageReads
<1>3. Offset' = Offset
  BY <1>0, <1>2 DEF Offset
<1>4. TimelineTypes' /\ FetchGoesOn' /\ PagesFollow'
  BY <1>0, <1>2 DEF TimelineInv, TimelineTypes, FetchGoesOn, PagesFollow, HasMore
<1>5. FetchFollows'
  BY <1>0, <1>2, <1>3 DEF TimelineInv, FetchFollows, PageReads
<1> QED
  BY <1>4, <1>5 DEF TimelineInv

LEMMA TimelineStepKeepsInv ==
    ASSUME TimelineInv, TimelineNext \/ UNCHANGED timelineVars
    PROVE  TimelineInv'
<1>0. /\ unheard \in Nat /\ view \in Views /\ fetch \in PageReads
      /\ pages \in [Views -> Seq(ReadPages)]
      /\ stalePages \in [Views -> BOOLEAN] /\ mixed \in [Views -> BOOLEAN]
      /\ FetchGoesOn /\ PagesFollow /\ FetchFollows
  BY DEF TimelineInv, TimelineTypes
<1>1. ASSUME NEW r \in Season, NEW s \in RaceStatuses, ChangesRace(r, s)
      PROVE  TimelineInv'
  <2>1. unheard' \in Nat /\ unheard' # 0 /\ UNCHANGED <<view, pages, stalePages, mixed, fetch>>
    BY <1>0, <1>1 DEF ChangesRace
  <2> QED
    BY <1>0, <2>1 DEF TimelineInv, TimelineTypes, FetchGoesOn, PagesFollow, FetchFollows, HasMore
<1>2. CASE PageCounted \/ PageAnswered
  BY <1>2, ReadStepFollows
<1>3. CASE PageArrives
  BY <1>3, PageArrivesFollows
<1>4. CASE UNCHANGED timelineVars
  BY <1>0, <1>4 DEF TimelineInv, TimelineTypes, FetchGoesOn, PagesFollow, FetchFollows, HasMore,
                    ListedRaces, Offset, timelineVars
\* from here on a read is begun, or ended without an answer
<1>5. ASSUME UNCHANGED raceStatus
      PROVE  \A v \in Views : ListedRaces(v)' = ListedRaces(v)
  BY <1>5 DEF ListedRaces
<1>6. /\ \A listing : InOrder(<<>>, listing)
      /\ \A kind \in {"all", "next"} :
            LET new == Reading(kind, <<>>)
            IN  new \in PageReads /\ new.at = "asked" /\ new.kind = kind /\ new.got = <<>>
      /\ NoFetch \in PageReads /\ NoFetch.at = "idle"
  BY NothingFetched DEF InOrder
<1>7. CASE HearsChange
  <2>1. /\ unheard' \in Nat /\ stalePages' = [v \in Views |-> TRUE]
        /\ UNCHANGED <<raceStatus, view, pages>>
        /\ mixed' \in [Views -> BOOLEAN]
        /\ mixed'[view] = (mixed[view] \/ (FirstPageRead /\ fetch.at # "asked"))
        /\ fetch' = IF FirstPageRead THEN fetch ELSE Reading("all", <<>>)
    BY <1>0, <1>7 DEF HearsChange, GoesOn
  <2>2. PagesFollow'
    BY <2>1 DEF PagesFollow
  <2>3. CASE FirstPageRead
    <3>1. /\ fetch' = fetch /\ pages[view] = <<>> /\ fetch.kind = "all" /\ fetch.got = <<>>
          /\ fetch.at # "asked" => mixed'[view]
      BY <1>0, <2>1, <2>3 DEF FirstPageRead, FetchGoesOn
    <3>2. TimelineTypes' /\ FetchGoesOn'
      BY <1>0, <2>1, <3>1 DEF TimelineTypes, FetchGoesOn
    <3>3. FetchFollows'
      BY <1>6, <2>1, <3>1 DEF FetchFollows
    <3> QED
      BY <2>2, <3>2, <3>3 DEF TimelineInv
  <2>4. CASE ~FirstPageRead
    <3>1. fetch' \in PageReads /\ fetch'.at = "asked" /\ fetch'.kind = "all" /\ fetch'.got = <<>>
      BY <2>1, <2>4, NothingFetched
    <3>2. TimelineTypes' /\ FetchGoesOn'
      BY <1>0, <2>1, <3>1 DEF TimelineTypes, FetchGoesOn
    <3>3. FetchFollows'
      BY <1>6, <3>1 DEF FetchFollows
    <3> QED
      BY <2>2, <3>2, <3>3 DEF TimelineInv
  <2> QED
    BY <2>3, <2>4
<1>8. CASE RefetchesPages
  <2>1. /\ UNCHANGED <<raceStatus, unheard, view, pages, stalePages, mixed>>
        /\ fetch' \in PageReads /\ fetch'.at = "asked" /\ fetch'.kind = "all" /\ fetch'.got = <<>>
    BY <1>8, NothingFetched DEF RefetchesPages
  <2>2. TimelineTypes' /\ FetchGoesOn' /\ PagesFollow'
    BY <1>0, <1>5, <2>1 DEF TimelineTypes, FetchGoesOn, PagesFollow
  <2>3. FetchFollows'
    BY <1>6, <2>1 DEF FetchFollows
  <2> QED
    BY <2>2, <2>3 DEF TimelineInv
<1>9. ASSUME NEW w \in Views, ShowsView(w) \/ PageFails
      PROVE  TimelineInv'
  <2>1. /\ UNCHANGED <<raceStatus, unheard, pages, stalePages>> /\ view' \in Views
        /\ fetch' = NoFetch \/ fetch' = Reading("all", <<>>)
        /\ mixed' \in [Views -> BOOLEAN]
        /\ \A v \in Views : mixed'[v] = mixed[v] \/ (v = view /\ pages[view] = <<>>)
    BY <1>0, <1>9 DEF ShowsView, PageFails, GivesUpFirstRead
  <2>2. fetch' \in PageReads /\ (fetch'.at # "idle" =>
            fetch'.at = "asked" /\ fetch'.kind = "all" /\ fetch'.got = <<>>)
    BY <1>6, <2>1
  <2>3. TimelineTypes' /\ FetchGoesOn'
    BY <1>0, <2>1, <2>2 DEF TimelineTypes, FetchGoesOn
  <2>4. PagesFollow'
    BY <1>0, <1>5, <1>6, <2>1 DEF PagesFollow
  <2>5. FetchFollows'
    BY <1>6, <2>2 DEF FetchFollows
  <2> QED
    BY <2>3, <2>4, <2>5 DEF TimelineInv
<1>10. CASE LoadsMoreRaces
  <2>1. /\ UNCHANGED <<raceStatus, unheard, view, pages, stalePages>> /\ HasMore(view)
        /\ pages[view] # <<>>
        /\ fetch' \in PageReads /\ fetch'.at = "asked" /\ fetch'.kind = "next" /\ fetch'.got = <<>>
        /\ mixed' \in [Views -> BOOLEAN]
        /\ \A v \in Views : mixed[v] => mixed'[v]
        /\ stalePages[view] => mixed'[view]
    BY <1>0, <1>6, <1>10 DEF LoadsMoreRaces, HasMore
  <2>2. TimelineTypes' /\ FetchGoesOn'
    BY <1>0, <2>1 DEF TimelineTypes, FetchGoesOn, HasMore
  <2>3. PagesFollow' /\ FetchFollows'
    BY <1>0, <1>5, <2>1 DEF PagesFollow, FetchFollows
  <2> QED
    BY <2>2, <2>3 DEF TimelineInv
<1> QED
  BY <1>1, <1>2, <1>3, <1>4, <1>7, <1>8, <1>9, <1>10 DEF TimelineNext, TimelineInv, TimelineTypes

LEMMA TimelineStart == TimelineInit => TimelineInv
<1> SUFFICES ASSUME TimelineInit
             PROVE  TimelineInv
  OBVIOUS
<1>1. "ahead" \in Views
  BY TimelineAssumption
<1>2. \A v \in Views : pages[v] = <<>> /\ ~mixed[v]
  BY DEF TimelineInit
<1>3. fetch \in PageReads /\ fetch.at = "asked" /\ fetch.kind = "all" /\ fetch.got = <<>>
  BY NothingFetched DEF TimelineInit
<1>4. TimelineTypes
  BY <1>1, <1>3, NothingFetched DEF TimelineInit, TimelineTypes
<1> QED
  BY <1>1, <1>2, <1>3, <1>4 DEF TimelineInv, FetchGoesOn, PagesFollow, FetchFollows, InOrder, TimelineInit

LEMMA TimelineInvHolds == TimelineInv => TimelineIsTrue
<1> DEFINE listing == ListedRaces(view)
           leaf == LastPage(pages[view])
           shownNow == Timeline(pages[view])
<1> SUFFICES ASSUME TimelineInv, unheard = 0, pages[view] # <<>>, ~stalePages[view], ~mixed[view]
             PROVE  /\ shownNow = FirstRaces(listing, Cardinality(shownNow))
                    /\ HasMore(view) <=> shownNow # listing
  BY DEF TimelineIsTrue
<1>1. listing \in SUBSET Season /\ pages[view] \in Seq(ReadPages) /\ InOrder(pages[view], listing)
  BY DEF TimelineInv, TimelineTypes, PagesFollow, ListedRaces
<1>2. /\ leaf \in ReadPages /\ leaf.total = Cardinality(listing) /\ leaf.off <= Cardinality(listing)
      /\ leaf.rows = RowsFrom(listing, leaf.off)
      /\ shownNow = FirstRaces(listing, leaf.off + Cardinality(leaf.rows))
  <2>1. Len(pages[view]) \in 1..Len(pages[view])
    BY <1>1
  <2> QED
    BY <1>1, <2>1 DEF InOrder, LastPage
<1>3. leaf.off \in Nat /\ Cardinality(listing) \in Nat
  BY <1>1, <1>2, FirstCounted DEF ReadPages
<1>4. /\ Cardinality(leaf.rows) \in Nat /\ leaf.off + Cardinality(leaf.rows) <= Cardinality(listing)
      /\ leaf.off < Cardinality(listing) => leaf.rows # {}
  BY <1>1, <1>2, <1>3, PageGoesOn
<1>5. Cardinality(shownNow) = leaf.off + Cardinality(leaf.rows)
  BY <1>1, <1>2, <1>3, <1>4, FirstCounted
<1>6. shownNow # listing <=> Cardinality(shownNow) < Cardinality(listing)
  BY <1>1, <1>2, <1>3, <1>4, <1>5, FirstCounted
<1>7. HasMore(view) <=> leaf.off + Cardinality(leaf.rows) < Cardinality(listing)
  <2>1. leaf.rows # {} => Cardinality(leaf.rows) # 0
    <3>1. IsFiniteSet(leaf.rows)
      BY <1>1, <1>2, FirstCounted, FS_Subset DEF RowsFrom, FirstRaces
    <3> QED
      BY <3>1, FS_EmptySet
  <2>2. leaf.off + Cardinality(leaf.rows) < Cardinality(listing) => leaf.rows # {}
    BY <1>3, <1>4
  <2> HIDE DEF leaf, listing
  <2>3. HasMore(view) <=> NextOffset(leaf) # 0
    BY DEF HasMore, leaf
  <2> QED
    BY <1>2, <1>3, <1>4, <2>1, <2>2, <2>3 DEF NextOffset
<1> QED
  BY <1>2, <1>5, <1>6, <1>7

\* At rest the list of races is the beginning of the service's list, no race missing between
\* two pages, and offers more exactly when there is more, for any number of races, pages,
\* views and changes, however the pages shift while they are read (EventListScreen, useEvents).
THEOREM TimelinesTellTruth == TimelineSpec => []TimelineIsTrue
<1>1. TimelineInv /\ [TimelineNext]_timelineVars => TimelineInv'
  BY TimelineStepKeepsInv
<1> QED
  BY <1>1, TimelineStart, TimelineInvHolds, PTL DEF TimelineSpec

-----------------------------------------------------------------------------
(* THE PHONE AS A WHOLE *)

LEMMA PhoneParts ==
    ASSUME ClientsNext \/ UNCHANGED clientsVars
    PROVE  /\ [RunnerPhoneNext]_runnerPhoneVars
           /\ [EntryFormNext]_entryFormVars
           /\ TimelineNext \/ UNCHANGED timelineVars
<1>1. CASE UNCHANGED clientsVars
  BY <1>1 DEF clientsVars
<1>2. CASE ClientsNext
  BY <1>2 DEF ClientsNext, Rests
<1> QED
  BY <1>1, <1>2

\* The phone tells the truth, whichever part of the clients is followed: its payment sheet, its
\* list of entries, the form that enters her, and the list of races.
THEOREM PhoneTellsTruth == ClientsSpec => []PhoneIsTrue
<1> DEFINE Inv == PhoneInv /\ EntryFormInv /\ TimelineInv
<1>1. ClientsInit => Inv
  BY PhoneStart, FormStart, TimelineStart DEF ClientsInit
<1>2. Inv /\ [ClientsNext]_clientsVars => Inv'
  <2> SUFFICES ASSUME Inv, ClientsNext \/ UNCHANGED clientsVars
               PROVE  Inv'
    OBVIOUS
  <2>1. PhoneInv' /\ EntryFormInv'
    BY PhoneParts, PhoneStepKeepsInv, FormStepKeepsInv
  <2>2. TimelineInv'
    BY PhoneParts, TimelineStepKeepsInv
  <2> QED
    BY <2>1, <2>2
<1>3. Inv => PhoneIsTrue
  BY PhoneInvHolds, FormInvHolds, TimelineInvHolds DEF PhoneIsTrue
<1> QED
  BY <1>1, <1>2, <1>3, PTL DEF ClientsSpec
=============================================================================
