---------------------------- MODULE AuditTrail ------------------------------
(***************************************************************************)
(* The admins' page of the audit log (pages/admin/audit-logs).  Every      *)
(* choice of a filter reads the log again, and nothing stops the answer to *)
(* an earlier choice from coming later; what has come is filtered once     *)
(* more by the filter that is chosen.  None of the entity types that the   *)
(* page offers as filters ("events", "registrations", "check_ins",         *)
(* "users") is one that the handlers record ("registration", "user" and    *)
(* others), so that as the program is, every filter but "ALL" finds        *)
(* nothing.  The two vocabularies are parameters: what is proved holds of  *)
(* any two, those among them in which the filters find something.          *)
(***************************************************************************)
EXTENDS Naturals, Sequences, FiniteSets

CONSTANTS
    OfferedTypes,  \* the page's choices but ALL
    RecordedTypes, \* what the handlers record
    LogPage,  \* the newest entries that a read returns (200)
    LogBound, \* bounds the entries that are followed
    AuditAsks \* bounds the reads under way

ASSUME AuditAssumption == {LogPage, AuditAsks} \subseteq Nat \ {0} /\ LogBound \in Nat

VARIABLES
    trail,       \* the log, oldest first: the entity type of each entry
    logFilter,   \* entityFilter
    audits,      \* loadLogs: the reads under way, in the order in which they were asked
    logs,        \* logs: which entries
    logRead,     \* how long the log was when they were read
    auditFailed, \* error
    auditCrossed \* what has come is the answer to an earlier choice

auditVars == <<trail, logFilter, audits, logs, logRead, auditFailed, auditCrossed>>

Everything == "ALL"

AskedLog(f) == [of |-> f, at |-> "asked", late |-> FALSE]

AuditTypeOK ==
    LET FilterChoices == OfferedTypes \union {Everything}
        Entries == SUBSET (1..LogBound)
    IN  /\ trail \in Seq(RecordedTypes) /\ Len(trail) <= LogBound /\ logFilter \in FilterChoices
        /\ Len(audits) <= AuditAsks
        /\ \A i \in DOMAIN audits : audits[i] \in
              [of : FilterChoices, at : {"asked"}, late : BOOLEAN]
              \union [of : FilterChoices, at : {"read"}, late : BOOLEAN, found : Entries, log : 0..LogBound]
        /\ logs \in Entries /\ logRead \in 0..LogBound
        /\ {auditFailed, auditCrossed} \subseteq BOOLEAN

\* the page reads the whole log when it is opened
AuditInit ==
    /\ trail = <<>> /\ logFilter = Everything
    /\ audits = <<AskedLog(Everything)>> /\ logs = {} /\ logRead = 0
    /\ auditFailed = FALSE /\ auditCrossed = FALSE

About(f, i) == f = Everything \/ trail[i] = f

\* Repository.List: the newest entries of the first n of the log
NewestEntries(f, n) ==
    LET matching == {i \in 1..n : About(f, i)}
    IN  {i \in matching : Cardinality({j \in matching : j > i}) < LogPage}

-----------------------------------------------------------------------------
\* Service.Record
Records(type) ==
    /\ Len(trail) < LogBound /\ trail' = Append(trail, type)
    /\ UNCHANGED <<logFilter, audits, logs, logRead, auditFailed, auditCrossed>>

\* the effect of a choice
ChoosesFilter(f) ==
    /\ f # logFilter /\ logFilter' = f
    /\ Len(audits) < AuditAsks /\ audits' = Append(audits, AskedLog(f))
    /\ auditFailed' = FALSE
    /\ UNCHANGED <<trail, logs, logRead, auditCrossed>>

AuditHandled(i) ==
    /\ audits[i].at = "asked"
    /\ audits' = [audits EXCEPT ![i] = [of |-> @.of, at |-> "read", late |-> @.late,
                                        found |-> NewestEntries(@.of, Len(trail)), log |-> Len(trail)]]
    /\ UNCHANGED <<trail, logFilter, logs, logRead, auditFailed, auditCrossed>>

\* what was asked before the i-th comes late when the i-th has come
WithoutAudit(i) ==
    [j \in 1..(Len(audits) - 1) |-> IF j < i THEN [audits[j] EXCEPT !.late = TRUE] ELSE audits[j + 1]]

AuditArrives(i) ==
    /\ audits[i].at = "read"
    /\ logs' = audits[i].found /\ logRead' = audits[i].log
    /\ auditCrossed' = audits[i].late
    /\ audits' = WithoutAudit(i)
    /\ UNCHANGED <<trail, logFilter, auditFailed>>

\* also a late failure empties the page and leaves its error
AuditLost(i) ==
    /\ logs' = {} /\ logRead' = 0 /\ auditFailed' = TRUE
    /\ audits' = WithoutAudit(i)
    /\ UNCHANGED <<trail, logFilter, auditCrossed>>

AuditNext ==
    \/ \E type \in RecordedTypes : Records(type)
    \/ \E f \in OfferedTypes \union {Everything} : ChoosesFilter(f)
    \/ \E i \in DOMAIN audits : AuditHandled(i) \/ AuditArrives(i) \/ AuditLost(i)

AuditSpec == AuditInit /\ [][AuditNext]_auditVars

-----------------------------------------------------------------------------
\* filteredLogs
ShownLogs == {i \in logs : About(logFilter, i)}

\* A page at rest that reports no error shows the newest entries of the filter that is
\* chosen, unless the answer to an earlier choice came last.  What a filter finds depends on
\* the two vocabularies: with those of the program only ALL finds anything.
AuditTrailIsTrue ==
    audits = <<>> /\ ~auditFailed /\ ~auditCrossed => ShownLogs = NewestEntries(logFilter, logRead)
=============================================================================
