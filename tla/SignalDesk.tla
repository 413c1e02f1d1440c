---------------------------- MODULE SignalDesk ------------------------------
(***************************************************************************)
(* The admins' board of Telegram messages (pages/admin/automations.tsx):   *)
(* how many were sent, wait or failed in the last thirty days, and the     *)
(* latest of them, of which the failed ones can be sent again.  The board  *)
(* is read again every twenty seconds, and patched when a retry is taken.  *)
(***************************************************************************)
EXTENDS Naturals, FiniteSets

CONSTANTS
    Signals,  \* messages on the board
    NoSignal,
    Loads     \* reads of the board that may be under way at once

ASSUME SignalAssumption == IsFiniteSet(Signals) /\ NoSignal \notin Signals

VARIABLES
    lane,     \* the status of each delivery that the service has
    aged,     \* deliveries older than the thirty days that are counted
    board,    \* snapshot
    loads,    \* load: what each read under way has found so far
    retrying, \* retryingId, and the answer
    deskError,\* error
    strayed   \* the board cannot tell that it differs from the service

signalVars == <<lane, aged, board, loads, retrying, deskError, strayed>>

Lane == {"PENDING", "SENT", "FAILED"}
NoSnapshot == [rows |-> "none"]
NoLoad == [at |-> "idle"]
NoRetry == [of |-> NoSignal]

\* the counts are of the last thirty days, the rows are the latest whenever they were made
Counts(rows) == [st \in Lane |-> Cardinality({d \in Signals \ aged : rows[d] = st})]

SignalTypeOK ==
    LET Numbers == [Lane -> 0..Cardinality(Signals) + 1]
        Snapshot == [counts : Numbers, rows : [Signals -> Lane]]
    IN  /\ lane \in [Signals -> Lane] /\ aged \subseteq Signals
        /\ board \in {NoSnapshot} \union Snapshot
        /\ \A l \in Loads : loads[l] \in {NoLoad} \union [at : {"asked"}, clean : BOOLEAN]
              \union [at : {"counted"}, clean : BOOLEAN, counts : Numbers]
              \union [at : {"read"}, clean : BOOLEAN, counts : Numbers, rows : [Signals -> Lane]]
        /\ retrying \in {NoRetry} \union [of : Signals, at : {"asked", "queued", "refused"}]
        /\ deskError \in BOOLEAN /\ strayed \in BOOLEAN

BoardLoading == \E l \in Loads : loads[l] # NoLoad

\* a read during which something changed may have counted before and listed after it
Disturbed == [l \in Loads |-> IF loads[l] = NoLoad THEN NoLoad ELSE [loads[l] EXCEPT !.clean = FALSE]]

SignalDeskInit ==
    /\ lane \in [Signals -> Lane] /\ aged \in SUBSET Signals
    /\ board = NoSnapshot
    /\ loads \in {f \in [Loads -> {NoLoad, [at |-> "asked", clean |-> TRUE]}] :
                     Cardinality({l \in Loads : f[l] # NoLoad}) = 1}
    /\ retrying = NoRetry /\ deskError = FALSE /\ strayed = FALSE

-----------------------------------------------------------------------------
\* the worker sends a message, or gives it up
WorkerMoves(d) ==
    /\ lane[d] = "PENDING"
    /\ \E st \in {"SENT", "FAILED"} : lane' = [lane EXCEPT ![d] = st]
    /\ loads' = Disturbed /\ strayed' = TRUE
    /\ UNCHANGED <<aged, board, retrying, deskError>>

\* load: the timer, or Refresh; the timer does not wait for a read that is under way
LoadsBoard(l) ==
    /\ loads[l] = NoLoad
    /\ loads' = [loads EXCEPT ![l] = [at |-> "asked", clean |-> retrying = NoRetry]]
    /\ deskError' = FALSE
    /\ UNCHANGED <<lane, aged, board, retrying, strayed>>

\* AutomationSnapshot counts in one statement and lists in another
BoardCounted(l) ==
    /\ loads[l].at = "asked"
    /\ loads' = [loads EXCEPT ![l] = [at |-> "counted", clean |-> @.clean, counts |-> Counts(lane)]]
    /\ UNCHANGED <<lane, aged, board, retrying, deskError, strayed>>

BoardListed(l) ==
    /\ loads[l].at = "counted"
    /\ loads' = [loads EXCEPT ![l] =
           [at |-> "read", clean |-> @.clean, counts |-> @.counts, rows |-> lane]]
    /\ UNCHANGED <<lane, aged, board, retrying, deskError, strayed>>

BoardArrives(l) ==
    /\ loads[l].at = "read"
    /\ board' = [counts |-> loads[l].counts, rows |-> loads[l].rows]
    /\ strayed' = ~loads[l].clean
    /\ loads' = [loads EXCEPT ![l] = NoLoad]
    /\ UNCHANGED <<lane, aged, retrying, deskError>>

BoardLost(l) ==
    /\ loads[l] # NoLoad /\ loads' = [loads EXCEPT ![l] = NoLoad]
    /\ deskError' = TRUE
    /\ UNCHANGED <<lane, aged, board, retrying, strayed>>

-----------------------------------------------------------------------------
\* Patches of a board that is never read again add up; MayRetry bounds them.
MayRetry == board.counts["PENDING"] <= Cardinality(Signals)

\* retry: one at a time, of a message that the board shows as failed
PressesRetry(d) ==
    /\ board # NoSnapshot /\ board.rows[d] = "FAILED" /\ MayRetry
    /\ retrying = NoRetry
    /\ retrying' = [of |-> d, at |-> "asked"]
    /\ loads' = Disturbed /\ deskError' = FALSE
    /\ UNCHANGED <<lane, aged, board, strayed>>

\* RetryTelegramDelivery takes failed deliveries only; the answer may be lost
RetryHandled ==
    /\ retrying # NoRetry /\ retrying.at = "asked"
    /\ LET d == retrying.of
       IN  \/ /\ lane[d] = "FAILED" /\ lane' = [lane EXCEPT ![d] = "PENDING"]
              /\ \/ retrying' = [retrying EXCEPT !.at = "queued"] /\ UNCHANGED strayed
                 \/ retrying' = [retrying EXCEPT !.at = "refused"] /\ strayed' = TRUE
           \/ /\ retrying' = [retrying EXCEPT !.at = "refused"]
              /\ UNCHANGED <<lane, strayed>>
    /\ UNCHANGED <<aged, board, loads, deskError>>

\* Mutant: the message is taken out of the failed ones and not put among those that wait.
RequeuedOnly(counts) == [counts EXCEPT !["FAILED"] = IF @ = 0 THEN 0 ELSE @ - 1]

Requeued(counts) == [counts EXCEPT !["FAILED"] = IF @ = 0 THEN 0 ELSE @ - 1, !["PENDING"] = @ + 1]

\* The patch supposes that the board still shows the message as failed and counts it: a read
\* may have brought the retry already, and an old message was never counted.
RetryArrives ==
    /\ retrying # NoRetry /\ retrying.at \in {"queued", "refused"}
    /\ retrying' = NoRetry
    /\ IF retrying.at = "refused"
       THEN deskError' = TRUE /\ UNCHANGED <<board, strayed>>
       ELSE /\ board' = [counts |-> Requeued(board.counts),
                         rows |-> [board.rows EXCEPT ![retrying.of] = "PENDING"]]
            /\ strayed' = (strayed \/ retrying.of \in aged)
            /\ UNCHANGED deskError
    /\ UNCHANGED <<lane, aged, loads>>

SignalDeskNext ==
    \/ \E d \in Signals : WorkerMoves(d) \/ PressesRetry(d)
    \/ \E l \in Loads : LoadsBoard(l) \/ BoardCounted(l) \/ BoardListed(l) \/ BoardArrives(l) \/ BoardLost(l)
    \/ RetryHandled \/ RetryArrives

SignalDeskSpec == SignalDeskInit /\ [][SignalDeskNext]_signalVars

-----------------------------------------------------------------------------
\* A board at rest shows the messages as the service has them, and its figures are of those
\* messages, also after a retry that it was not read again for; unless the worker has moved
\* one since, a read and a retry overlapped, the answer to a retry was lost, or the message
\* was too old to be counted.
SignalDeskIsTrue ==
    ~BoardLoading /\ retrying = NoRetry /\ board # NoSnapshot /\ ~strayed =>
        board.rows = lane /\ board.counts = Counts(lane)
=============================================================================
