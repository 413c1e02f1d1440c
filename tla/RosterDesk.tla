----------------------------- MODULE RosterDesk -----------------------------
(***************************************************************************)
(* The runner roster of the staff pages (pages/admin/registrations): the   *)
(* filtered list and its next page, the drawer with one runner's payment,  *)
(* and the review of a bank transfer, over the entries of the service.     *)
(* Answers arrive in any order.  An admin is at the desk: for other staff  *)
(* the review buttons are not shown.                                       *)
(***************************************************************************)
EXTENDS Naturals, FiniteSets, TLC

CONSTANTS
    Entrants,    \* runners, numbered in the order the service lists them
    PageSize,    \* the limit of one read (200 in the code)
    RosterOverlap\* bound: reads in flight, of the list and of payments together

ASSUME RosterAssumption ==
    Entrants \subseteq Nat \ {0} /\ PageSize \in Nat \ {0} /\ RosterOverlap \in Nat \ {0}

VARIABLES
    entrants,  \* the service: the transfer of an entry awaits review ("sent"), is approved, or
               \* the entry was given up or its transfer rejected ("failed")
    filter,    \* selectedStatus
    roster,    \* registrations and total, and the filter they were read under
    rosterRead,\* the reads of the list effect in flight, [under, live]; only the live one is used
    listTimer, \* the timer of the list effect is set, and has not asked yet
    rosterLoading, \* loading
    more,      \* loadMore
    drawer,    \* selectedReg, a copy of the entry
    payment,   \* selectedPayment, and the runner it was read for
    payRead,   \* the drawer's reads in flight, [of, live]
    review,    \* reviewPayment
    excused    \* a list read failed, or a page of another filter was appended

rosterListVars == <<rosterRead, listTimer, rosterLoading>>
rosterVars == <<entrants, filter, roster, rosterListVars, more, drawer, payment, payRead, review, excused>>

NoEntrant == 0
AwaitsReview(state) == state = "sent"
Closed == [of |-> NoEntrant, state |-> "failed"]
NoMore == [asked |-> FALSE, under |-> "ALL", offset |-> 0]
Dead(reads) == {[r EXCEPT !.live = FALSE] : r \in reads}
Room == Cardinality(Dead(rosterRead)) + Cardinality(Dead(payRead)) < RosterOverlap
NoReview == [at |-> "idle", of |-> NoEntrant, state |-> "failed"]

\* the service: the entries a filter selects, and the page that starts at an offset
Matching(f) == {e \in Entrants : f = "ALL" \/ AwaitsReview(entrants[e])}
Page(f, offset) ==
    [e \in {e \in Matching(f) :
              Cardinality({d \in Matching(f) : d < e}) \in offset..(offset + PageSize - 1)} |-> entrants[e]]

RosterInit ==
    /\ entrants = [e \in Entrants |-> "sent"]
    /\ filter = "ALL" /\ roster = [rows |-> << >>, total |-> 0, under |-> "ALL"]
    /\ rosterRead = {} /\ listTimer = TRUE /\ rosterLoading = TRUE
    /\ more = NoMore /\ drawer = Closed /\ payment = Closed
    /\ payRead = {} /\ review = NoReview /\ excused = FALSE

\* a runner cancels
EntrantActs ==
    /\ \E e \in Entrants :
         /\ entrants[e] = "sent"
         /\ entrants' = [entrants EXCEPT ![e] = "failed"]
    /\ UNCHANGED <<filter, roster, rosterListVars, more, drawer, payment, payRead, review, excused>>

-----------------------------------------------------------------------------
(* The list.  The drawer covers it while it is open. *)

\* The cleanup of the effect makes the read before this one dead and takes its timer back; the
\* list is read when the new timer fires (at once, or a quarter of a second after the last key
\* of a search), and until then the page shows the old list and says what it said.
PicksFilter ==
    /\ drawer = Closed
    /\ \E f \in {"ALL", "PENDING"} \ {filter} : filter' = f
    /\ rosterRead' = Dead(rosterRead) /\ listTimer' = TRUE
    /\ UNCHANGED <<entrants, roster, rosterLoading, more, drawer, payment, payRead, review, excused>>

ListTimerFires ==
    /\ listTimer /\ Room
    /\ listTimer' = FALSE /\ rosterLoading' = TRUE
    /\ rosterRead' = rosterRead \union {[under |-> filter, live |-> TRUE]}
    /\ UNCHANGED <<entrants, filter, roster, more, drawer, payment, payRead, review, excused>>

\* Mutant: the answer of an overtaken read is used, too.
UsedAnyway(read) == TRUE

\* the cancelled flag of the effect
Used(read) == read.live

\* The answer of the live read replaces the list; a failure leaves the list as it was.  (A
\* read shows the service as it is when its answer arrives; what is shown is old as soon as
\* a runner or another admin acts.)
ListRosterArrives(read) ==
    /\ \/ /\ Used(read)
          /\ roster' = [rows |-> Page(read.under, 0), total |-> Cardinality(Matching(read.under)),
                        under |-> read.under]
          /\ excused' = FALSE
       \/ ~Used(read) /\ UNCHANGED <<roster, excused>>
       \/ read.live /\ excused' = TRUE /\ UNCHANGED roster
    /\ rosterRead' = rosterRead \ {read}
    /\ rosterLoading' = (rosterLoading /\ ~read.live)
    /\ UNCHANGED <<entrants, filter, listTimer, more, drawer, payment, payRead, review>>

\* "Load more" is shown under a list that is shorter than the total
LoadsMore ==
    /\ ~rosterLoading /\ ~more.asked /\ drawer = Closed
    /\ DOMAIN roster.rows # {} /\ Cardinality(DOMAIN roster.rows) < roster.total
    /\ more' = [asked |-> TRUE, under |-> filter, offset |-> Cardinality(DOMAIN roster.rows)]
    /\ UNCHANGED <<entrants, filter, roster, rosterListVars, drawer, payment, payRead, review, excused>>

\* the page is appended to whatever list is shown by now
MoreArrives ==
    /\ more.asked
    /\ \/ /\ roster' = [roster EXCEPT !.rows = @ @@ Page(more.under, more.offset),
                                        !.total = Cardinality(Matching(more.under))]
          /\ excused' = (excused \/ more.under # roster.under)
       \/ UNCHANGED <<roster, excused>>
    /\ more' = NoMore
    /\ UNCHANGED <<entrants, filter, rosterListVars, drawer, payment, payRead, review>>

-----------------------------------------------------------------------------
(* The drawer. *)

\* the effect on selectedReg: the payment shown is dropped, reads under way die, and the
\* payment of a pending entry is read
SelectReg(e, state) ==
    /\ drawer' = [of |-> e, state |-> state]
    /\ payment' = Closed
    /\ IF e = NoEntrant \/ ~AwaitsReview(state) THEN payRead' = Dead(payRead)
       ELSE Room /\ payRead' = Dead(payRead) \union {[of |-> e, live |-> TRUE]}

OpensDrawer ==
    /\ drawer = Closed /\ ~rosterLoading
    /\ \E e \in DOMAIN roster.rows : SelectReg(e, roster.rows[e])
    /\ UNCHANGED <<entrants, filter, roster, rosterListVars, more, review, excused>>

ClosesDrawer ==
    /\ drawer # Closed
    /\ SelectReg(NoEntrant, "failed")
    /\ UNCHANGED <<entrants, filter, roster, rosterListVars, more, review, excused>>

\* an answer or a failure of a read that is not live is dropped
PaymentArrives(read) ==
    /\ \/ Used(read) /\ payment' = [of |-> read.of, state |-> entrants[read.of]]
       \/ read.live /\ payment' = Closed
       \/ ~Used(read) /\ UNCHANGED payment
    /\ payRead' = payRead \ {read}
    /\ UNCHANGED <<entrants, filter, roster, rosterListVars, more, drawer, review, excused>>

\* the buttons stand under the reference of a transfer that awaits review
ReviewPayment ==
    /\ drawer # Closed /\ AwaitsReview(drawer.state) /\ review = NoReview
    /\ payment # Closed /\ payment.state = "sent" /\ \A read \in payRead : ~read.live
    /\ \E d \in {"approved", "failed"} : review' = [at |-> "asked", of |-> drawer.of, state |-> d]
    /\ UNCHANGED <<entrants, filter, roster, rosterListVars, more, drawer, payment, payRead, excused>>

\* only a transfer that still awaits review is decided
ReviewHandled ==
    /\ review.at = "asked"
    /\ IF entrants[review.of] = "sent"
       THEN /\ entrants' = [entrants EXCEPT ![review.of] = review.state]
            /\ review' = [review EXCEPT !.at = "decided"]
       ELSE review' = [review EXCEPT !.at = "refused"] /\ UNCHANGED entrants
    /\ UNCHANGED <<filter, roster, rosterListVars, more, drawer, payment, payRead, excused>>

\* a decision opens the drawer on its runner, whichever is open by now, and updates her row;
\* an answer that is lost says the review was not saved
ReviewArrives ==
    /\ review.at # "idle"
    /\ review' = NoReview
    /\ \/ /\ review.at = "decided"
          /\ SelectReg(review.of, review.state)
          /\ roster' = [roster EXCEPT !.rows =
                           [e \in DOMAIN @ |-> IF e = review.of THEN review.state ELSE @[e]]]
       \/ UNCHANGED <<drawer, payment, payRead, roster>>
    /\ UNCHANGED <<entrants, filter, rosterListVars, more, excused>>

RosterNext ==
    \/ EntrantActs \/ PicksFilter \/ ListTimerFires \/ LoadsMore \/ MoreArrives
    \/ \E read \in rosterRead : ListRosterArrives(read)
    \/ OpensDrawer \/ ClosesDrawer \/ ReviewPayment \/ ReviewHandled \/ ReviewArrives
    \/ \E read \in payRead : PaymentArrives(read)

RosterSpec == RosterInit /\ [][RosterNext]_rosterVars

-----------------------------------------------------------------------------
\* The reference an admin decides on is the one of the runner in the drawer, and the list is
\* the one the filters select, however many reads overlap: unless a read failed, a late page
\* was appended, or the filters have just been set and nothing was asked yet, a list that is
\* not loading was read under the filter that is set.
RosterIsTrue ==
    /\ payment # Closed => payment.of = drawer.of
    /\ rosterLoading \/ listTimer \/ excused \/ roster.under = filter
=============================================================================
