---------------------------- MODULE ReviewCases ----------------------------
(***************************************************************************)
(* Screening and monitoring of one user's quotes and trades, the review    *)
(* cases they open and the compliance officers who dispose of them.  A     *)
(* quote request counts the recent quotes and inserts its own at the end,  *)
(* so that concurrent requests do not see each other.  A case and its      *)
(* entry in aml_case_events are written by separate statements, and errors *)
(* of the latter are ignored.                                              *)
(***************************************************************************)
EXTENDS Integers, Sequences, FiniteSets

CONSTANTS
  Clients,            \* concurrent POST /quotes and /trades of the user
  Officers,           \* concurrent dispositions
  VelocityThreshold,  \* AML_VELOCITY_QUOTE_COUNT_15M
  Dispositions,       \* bound: of the statuses an officer may set, those that are set
  MaxCases,           \* bound: cases opened
  MaxEntries,         \* bound: entries of a case's timeline
  MaxLosses           \* bound: failed statements

\* valid, in DispositionAMLCase; a case is opened as "OPEN"
ValidStatuses == {"IN_REVIEW", "ESCALATED", "DISMISSED", "CONFIRMED", "REFERRED_STR", "CLOSED"}
ASSUME ReviewAssumption ==
  /\ IsFiniteSet(Clients) /\ Clients # {}
  /\ Dispositions \subseteq ValidStatuses
  /\ VelocityThreshold \in Nat /\ MaxCases \in Nat /\ MaxEntries \in Nat /\ MaxLosses \in Nat

VARIABLES
  recent,     \* quotes of the last fifteen minutes
  client,     \* what each request is doing, and the case it has opened
  cases,      \* the status of each case, in order
  timeline,   \* aml_case_events of each case
  officer,    \* the case and the status an officer has still to enter in the timeline
  unchecked,  \* the query of the velocity check has failed
  blurred,    \* cases with an entry lost, or updated before the last entry was made
  losses

reviewVars == <<recent, client, cases, timeline, officer, unchecked, blurred, losses>>

CaseIds == 1..MaxCases
NoEntry == [case |-> 0, status |-> "OPEN"]

ReviewInit ==
  /\ recent = 0 /\ cases = <<>> /\ unchecked = FALSE /\ blurred = {} /\ losses = 0
  /\ client = [c \in Clients |-> [pc |-> "idle", case |-> 0]]
  /\ timeline = [i \in CaseIds |-> <<>>]
  /\ officer = [o \in Officers |-> NoEntry]

Doing(c, pc) == client[c].pc = pc
Turns(c, pc) == client' = [client EXCEPT ![c].pc = pc]
Loss == losses < MaxLosses /\ losses' = losses + 1
EntryPending(i) == (\E c \in Clients : client[c].case = i) \/ (\E o \in Officers : officer[o].case = i)
-----------------------------------------------------------------------------
\* evaluateScreeningChecks and the refusal of a rejected user.
evaluateScreeningChecks(c) ==
  /\ Doing(c, "idle") /\ (Turns(c, "monitor") \/ Turns(c, "refuse"))
  /\ UNCHANGED <<recent, cases, timeline, officer, unchecked, blurred, losses>>

\* Of a trade's checks nothing is counted: a blocked wallet, a payout account
\* that was changed.
evaluateTradeMonitoring(c) ==
  /\ Doing(c, "idle") /\ Turns(c, "refuse")
  /\ UNCHANGED <<recent, cases, timeline, officer, unchecked, blurred, losses>>

\* Mutant: the threshold itself passes.
CountPastThreshold(c) ==
  /\ Doing(c, "monitor")
  /\ Turns(c, IF recent > VelocityThreshold THEN "refuse" ELSE "patterns")
  /\ UNCHANGED <<recent, cases, timeline, officer, unchecked, blurred, losses>>

\* A query that fails passes the check.
CountRecentQuotes(c) ==
  /\ Doing(c, "monitor")
  /\ \/ Turns(c, IF recent >= VelocityThreshold THEN "refuse" ELSE "patterns")
        /\ UNCHANGED <<unchecked, losses>>
     \/ Turns(c, "patterns") /\ unchecked' = TRUE /\ Loss
  /\ UNCHANGED <<recent, cases, timeline, officer, blurred>>

\* Quotes near the daily limit, and an amount far above the average.
FindPatterns(c) ==
  /\ Doing(c, "patterns") /\ (Turns(c, "insert") \/ Turns(c, "refuse"))
  /\ UNCHANGED <<recent, cases, timeline, officer, unchecked, blurred, losses>>

InsertQuote(c) ==
  /\ Doing(c, "insert") /\ Turns(c, "idle")
  /\ recent' = recent + 1
  /\ UNCHANGED <<cases, timeline, officer, unchecked, blurred, losses>>

QuoteAges ==
  /\ recent > 0 /\ recent' = recent - 1
  /\ UNCHANGED <<client, cases, timeline, officer, unchecked, blurred, losses>>

\* The request is refused whether the case could be inserted or not.
createAMLReviewCase(c) ==
  /\ Doing(c, "refuse")
  /\ \/ /\ Len(cases) < MaxCases
        /\ cases' = Append(cases, "OPEN")
        /\ client' = [client EXCEPT ![c] = [pc |-> "entry", case |-> Len(cases) + 1]]
        /\ UNCHANGED losses
     \/ Turns(c, "idle") /\ Loss /\ UNCHANGED cases
  /\ UNCHANGED <<recent, timeline, officer, unchecked, blurred>>

\* INSERT INTO aml_case_events: made, or lost.
Entered(i, status) ==
  \/ timeline' = [timeline EXCEPT ![i] = Append(@, status)] /\ UNCHANGED <<blurred, losses>>
  \/ blurred' = blurred \cup {i} /\ Loss /\ UNCHANGED timeline

EnterOpened(c) ==
  /\ Doing(c, "entry") /\ Entered(client[c].case, "OPEN")
  /\ client' = [client EXCEPT ![c] = [pc |-> "idle", case |-> 0]]
  /\ UNCHANGED <<recent, cases, officer, unchecked>>

\* The status the case has is not looked at.
DispositionAMLCase(o, i, status) ==
  /\ officer[o] = NoEntry /\ i \in DOMAIN cases /\ Len(timeline[i]) < MaxEntries
  /\ cases' = [cases EXCEPT ![i] = status]
  /\ officer' = [officer EXCEPT ![o] = [case |-> i, status |-> status]]
  /\ blurred' = IF EntryPending(i) THEN blurred \cup {i} ELSE blurred
  /\ UNCHANGED <<recent, client, timeline, unchecked, losses>>

\* Mutant: the entry does not tell the new status.
EnterDispositionAsOpened(o) ==
  /\ officer[o] # NoEntry /\ Entered(officer[o].case, "OPEN")
  /\ officer' = [officer EXCEPT ![o] = NoEntry]
  /\ UNCHANGED <<recent, client, cases, unchecked>>

EnterDisposition(o) ==
  /\ officer[o] # NoEntry /\ Entered(officer[o].case, officer[o].status)
  /\ officer' = [officer EXCEPT ![o] = NoEntry]
  /\ UNCHANGED <<recent, client, cases, unchecked>>

ReviewNext ==
  \/ QuoteAges
  \/ \E c \in Clients :
       \/ evaluateScreeningChecks(c) \/ evaluateTradeMonitoring(c) \/ CountRecentQuotes(c)
       \/ FindPatterns(c) \/ InsertQuote(c) \/ createAMLReviewCase(c) \/ EnterOpened(c)
  \/ \E o \in Officers :
       \/ EnterDisposition(o)
       \/ \E i \in CaseIds, status \in Dispositions : DispositionAMLCase(o, i, status)

ReviewSpec == ReviewInit /\ [][ReviewNext]_reviewVars
-----------------------------------------------------------------------------
\* Cases, timelines and requests are well-formed.
ReviewTypeOK ==
  /\ recent \in Nat /\ losses \in Nat /\ unchecked \in BOOLEAN /\ blurred \subseteq CaseIds
  /\ client \in [Clients -> [pc : {"idle", "monitor", "patterns", "insert", "refuse", "entry"},
                             case : CaseIds \cup {0}]]
  /\ cases \in Seq(ValidStatuses \cup {"OPEN"}) /\ Len(cases) <= MaxCases
  /\ timeline \in [CaseIds -> Seq(ValidStatuses \cup {"OPEN"})]
  /\ officer \in [Officers -> [case : CaseIds \cup {0}, status : ValidStatuses \cup {"OPEN"}]]

\* The velocity check counts before it inserts and takes no lock: concurrent
\* requests of a user overshoot its threshold by at most their number less
\* one, however they interleave, as long as no check's query failed.
VelocityOvershoot ==
  unchecked \/ recent < VelocityThreshold + Cardinality(Clients)

\* The timeline of a case ends with the status the case has, once every entry
\* has been made, unless an entry was lost or the case was updated between
\* another update and its entry.
TimelineTells ==
  \A i \in DOMAIN cases :
    i \in blurred \/ EntryPending(i) \/
    (timeline[i] # <<>> /\ timeline[i][Len(timeline[i])] = cases[i])
=============================================================================
