-------------------------- MODULE UserVerification --------------------------
(***************************************************************************)
(* The verification of one user: submissions to the KYC provider, the      *)
(* provider's callbacks and the columns status and kyc_tier both write.    *)
(* A submission decides on a copy of the user and writes at its end; a     *)
(* callback is recorded as a webhook event, resolves its tier, reads the   *)
(* user, writes the outcome, announces it and marks the event.  Between    *)
(* any two steps other requests run, and the engine may stop.              *)
(* Documents are left out: what their statements add is that they may fail.*)
(***************************************************************************)
EXTENDS Integers, Sequences, FiniteSets

CONSTANTS
  Submitters,   \* concurrent POST /kyc/submit
  Callers,      \* concurrent deliveries of callbacks
  Targets,      \* bound: tiers a user applies for, of 1..4
  CallKinds,    \* bound: the kinds of callbacks the providers send
  AutoApproveKYC, \* AUTO_APPROVE_KYC, which main forces off in production
  MaxCalls,     \* bound: how many of them
  MaxFailures   \* bound: failed statements and restarts

VARIABLES
  account,    \* the row of the user
  checks,     \* the tiers a provider has been asked to check
  calls,      \* the callbacks sent, in order
  inbox,      \* webhook_events: "open", "done" or "error", by identity of the event
  submitter,  \* what each submission is doing
  caller,     \* what each delivery is doing
  announced,  \* the tiers of which a notification kyc.verified is queued
  approvals,  \* the tiers some provider has approved
  mocked,     \* a tier 1 check was approved as "mock-local", by no provider
  unannounced, \* an announcement has failed
  failures

verificationVars == <<account, checks, calls, inbox, submitter, caller, announced,
                      approvals, mocked, unannounced, failures>>

UserStates == {"UNREGISTERED", "KYC_IN_PROGRESS", "KYC_PENDING", "KYC_APPROVED", "KYC_REJECTED"}
Tiers == 0..4
Verdicts == {"APPROVED", "REJECTED", "PENDING"}
Accounts == [status : UserStates, tier : Tiers, consent : BOOLEAN, password : BOOLEAN]
Standing == [status : UserStates, tier : Tiers]

\* named: the callback names the level of its check, another level, or none.
\* own: it carries an id of its own, not only that of its job.  SmileID checks
\* tier 1, and Sumsub's events always have an identity.
Calls == {call \in [tier : 1..4, provider : {"smile_id", "sumsub"}, verdict : Verdicts,
                    named : {"level", "other", "none"}, own : BOOLEAN] :
            IF call.provider = "smile_id" THEN call.tier = 1 ELSE call.own}

ASSUME VerificationAssumption ==
  /\ Targets \subseteq 1..4 /\ CallKinds \subseteq Calls
  /\ AutoApproveKYC \in BOOLEAN /\ MaxCalls \in Nat /\ MaxFailures \in Nat

\* A callback of SmileID without an event id is identified by its job.
EventKey(i) == IF calls[i].own THEN <<"call", i>> ELSE <<"job", calls[i].tier>>
EventKeys == {"call"} \X (1..MaxCalls) \cup {"job"} \X Targets

Blank == [status |-> "UNREGISTERED", tier |-> 0]
SubmitIdle == [pc |-> "idle", tier |-> 0, to |-> Blank]
CallIdle == [pc |-> "idle", call |-> 0, tier |-> 0, read |-> Blank]

VerificationInit ==
  /\ account = [status |-> "UNREGISTERED", tier |-> 0, consent |-> FALSE, password |-> FALSE]
  /\ checks = {} /\ calls = <<>> /\ announced = {} /\ approvals = {}
  /\ inbox = [k \in EventKeys |-> "none"]
  /\ submitter = [s \in Submitters |-> SubmitIdle]
  /\ caller = [c \in Callers |-> CallIdle]
  /\ mocked = FALSE /\ unannounced = FALSE
  /\ failures = 0

Row == [status |-> account.status, tier |-> account.tier]
Stands(row) == account' = [account EXCEPT !.status = row.status, !.tier = row.tier]
Failure == failures < MaxFailures /\ failures' = failures + 1
-----------------------------------------------------------------------------
(***************************************************************************)
(* The user's state machine.                                               *)
(***************************************************************************)
UserTransitions ==
  { <<"UNREGISTERED", "CONSENT_GIVEN", "KYC_IN_PROGRESS">>,
    <<"KYC_IN_PROGRESS", "KYC_SUBMITTED", "KYC_PENDING">>,
    <<"KYC_PENDING", "KYC_APPROVED", "KYC_APPROVED">>,
    <<"KYC_PENDING", "KYC_REJECTED", "KYC_REJECTED">>,
    <<"KYC_REJECTED", "KYC_RETRY", "KYC_IN_PROGRESS">> }
After(status, event) ==
  {to \in UserStates : <<status, event, to>> \in UserTransitions}

\* The steps a first submission makes from the status it finds.  The guard
\* of a retry is void: LastRejectedAt is emptied before.
Tier1Pending ==
  CASE account.status = "UNREGISTERED" /\ account.consent ->
         UNION {After(s, "KYC_SUBMITTED") : s \in After("UNREGISTERED", "CONSENT_GIVEN")}
    [] account.status = "KYC_IN_PROGRESS" -> After("KYC_IN_PROGRESS", "KYC_SUBMITTED")
    [] account.status = "KYC_REJECTED" ->
         UNION {After(s, "KYC_SUBMITTED") : s \in After("KYC_REJECTED", "KYC_RETRY")}
    [] OTHER -> {}

\* RecordConsent and SetupTransactionPassword.
ConsentGiven ==
  /\ ~ account.consent
  /\ account' = [account EXCEPT !.consent = TRUE]
  /\ UNCHANGED <<checks, calls, inbox, submitter, caller, announced, approvals, mocked,
                 unannounced, failures>>
PasswordSet ==
  /\ ~ account.password
  /\ account' = [account EXCEPT !.password = TRUE]
  /\ UNCHANGED <<checks, calls, inbox, submitter, caller, announced, approvals, mocked,
                 unannounced, failures>>
-----------------------------------------------------------------------------
(***************************************************************************)
(* Submissions.                                                            *)
(***************************************************************************)
\* submitTier1KYC up to the call of the provider; a user already pending or
\* approved is told so.
submitTier1KYC(s) ==
  /\ 1 \in Targets /\ submitter[s].pc = "idle"
  /\ \E to \in Tier1Pending :
       submitter' = [submitter EXCEPT ![s] =
                       [pc |-> "provider", tier |-> 1, to |-> [status |-> to, tier |-> 0]]]
  /\ UNCHANGED <<account, checks, calls, inbox, caller, announced, approvals, mocked,
                 unannounced, failures>>

\* Mutant: an unverified user may apply for a higher tier.
submitHigherTierAnyhow(s, t) ==
  /\ t > 1 /\ submitter[s].pc = "idle"
  /\ submitter' = [submitter EXCEPT ![s] = [pc |-> "provider", tier |-> t, to |-> Blank]]
  /\ UNCHANGED <<account, checks, calls, inbox, caller, announced, approvals, mocked,
                 unannounced, failures>>

\* submitTier2PlusKYC up to the call of the provider.
submitTier2PlusKYC(s, t) ==
  /\ t > 1 /\ submitter[s].pc = "idle" /\ account.status = "KYC_APPROVED"
  /\ submitter' = [submitter EXCEPT ![s] = [pc |-> "provider", tier |-> t, to |-> Blank]]
  /\ UNCHANGED <<account, checks, calls, inbox, caller, announced, approvals, mocked,
                 unannounced, failures>>

\* Only a first submission acts on the provider's answer; the answer to an
\* application for a higher tier is passed on to the client.
ProviderAnswers(s, v) ==
  LET to == submitter[s].to
  IN /\ submitter[s].pc = "provider"
     /\ checks' = checks \cup {submitter[s].tier}
     /\ IF submitter[s].tier = 1
          THEN /\ \E status \in IF v = "PENDING" THEN {to.status}
                                ELSE After(to.status, IF v = "APPROVED" THEN "KYC_APPROVED"
                                                                        ELSE "KYC_REJECTED") :
                    submitter' = [submitter EXCEPT ![s].pc = "persist",
                                    ![s].to = [status |-> status,
                                               tier |-> IF v = "APPROVED" THEN 1 ELSE 0]]
               /\ approvals' = IF v = "APPROVED" THEN approvals \cup {1} ELSE approvals
          ELSE submitter' = [submitter EXCEPT ![s] = SubmitIdle] /\ UNCHANGED approvals
     /\ UNCHANGED <<account, calls, inbox, caller, announced, mocked, unannounced, failures>>

\* With AutoApproveKYC a first submission is approved as "mock-local" when the
\* provider fails, when SmileID rejects, and when no provider is configured.
\* The provider may have opened a check all the same, and report on it later.
MockApproves(s) ==
  /\ AutoApproveKYC /\ submitter[s].pc = "provider" /\ submitter[s].tier = 1
  /\ \E status \in After(submitter[s].to.status, "KYC_APPROVED") :
       submitter' = [submitter EXCEPT ![s].pc = "persist",
                       ![s].to = [status |-> status, tier |-> 1]]
  /\ checks' \in {checks, checks \cup {1}}
  /\ mocked' = TRUE
  /\ UNCHANGED <<account, calls, inbox, caller, announced, approvals, unannounced, failures>>

persistTier1KYCOutcome(s) ==
  /\ submitter[s].pc = "persist"
  /\ Stands(submitter[s].to)
  /\ submitter' = [submitter EXCEPT ![s] = SubmitIdle]
  /\ UNCHANGED <<checks, calls, inbox, caller, announced, approvals, mocked, unannounced, failures>>

SubmissionFails(s) ==
  /\ submitter[s].pc # "idle" /\ Failure
  /\ submitter' = [submitter EXCEPT ![s] = SubmitIdle]
  /\ UNCHANGED <<account, checks, calls, inbox, caller, announced, approvals, mocked, unannounced>>
-----------------------------------------------------------------------------
(***************************************************************************)
(* Callbacks.  A provider reports on a check it was asked for, any number  *)
(* of times, with any verdict; it repeats a delivery until it is answered. *)
(***************************************************************************)
ProviderCalls(call) ==
  /\ Len(calls) < MaxCalls /\ call.tier \in checks
  /\ calls' = Append(calls, call)
  /\ UNCHANGED <<account, checks, inbox, submitter, caller, announced, approvals, mocked,
                 unannounced, failures>>

\* Mutant: an event is marked processed when it is received.
MarkedWhenReceived(c, i) ==
  /\ caller[c].pc = "idle" /\ inbox[EventKey(i)] \in {"none", "open"}
  /\ inbox' = [inbox EXCEPT ![EventKey(i)] = "done"]
  /\ caller' = [caller EXCEPT ![c] = [CallIdle EXCEPT !.pc = "tier", !.call = i]]
  /\ approvals' = IF calls[i].verdict = "APPROVED" THEN approvals \cup {calls[i].tier}
                                                   ELSE approvals
  /\ UNCHANGED <<account, checks, calls, submitter, announced, mocked, unannounced, failures>>

\* ensureWebhookEvent: an event marked processed before is answered at once.
ensureWebhookEvent(c, i) ==
  /\ caller[c].pc = "idle" /\ inbox[EventKey(i)] \in {"none", "open"}
  /\ inbox' = [inbox EXCEPT ![EventKey(i)] = "open"]
  /\ caller' = [caller EXCEPT ![c] = [CallIdle EXCEPT !.pc = "tier", !.call = i]]
  /\ approvals' = IF calls[i].verdict = "APPROVED" THEN approvals \cup {calls[i].tier}
                                                   ELSE approvals
  /\ UNCHANGED <<account, checks, calls, submitter, announced, mocked, unannounced, failures>>

\* A level that is not in the table counts as tier 1, and Sumsub's default
\* is the tier after the one the user has now.
nextKYCTier(t) == IF t < 4 THEN t + 1 ELSE 4
WebhookTier(call) ==
  CASE call.named = "level" -> call.tier
    [] call.named = "other" \/ call.provider = "smile_id" -> 1
    [] OTHER -> nextKYCTier(account.tier)

\* A pending report of Sumsub writes nothing.
ResolveTier(c) ==
  LET call == calls[caller[c].call]
  IN /\ caller[c].pc = "tier"
     /\ caller' = [caller EXCEPT ![c].tier = WebhookTier(call),
                     ![c].pc = IF call.verdict = "PENDING" /\ call.provider = "sumsub"
                                 THEN "mark" ELSE "read"]
     /\ UNCHANGED <<account, checks, calls, inbox, submitter, announced, approvals, mocked,
                    unannounced, failures>>

CallReadsUser(c) ==
  /\ caller[c].pc = "read"
  /\ caller' = [caller EXCEPT ![c].read = Row, ![c].pc = "save"]
  /\ UNCHANGED <<account, checks, calls, inbox, submitter, announced, approvals, mocked,
                 unannounced, failures>>

\* Mutant: every higher tier than the user's is an upgrade.
OutcomeAlwaysUpgrade(row, t, verdict) ==
  IF verdict = "APPROVED"
    THEN [status |-> "KYC_APPROVED", tier |-> IF t = 1 \/ t > row.tier THEN t ELSE row.tier]
  ELSE IF t > row.tier THEN [row EXCEPT !.status = "KYC_APPROVED"]
  ELSE IF verdict = "REJECTED"
    THEN [status |-> "KYC_REJECTED", tier |-> IF t = 1 THEN 0 ELSE t]
  ELSE [row EXCEPT !.status = "KYC_PENDING"]

\* Mutant: a rejection takes one tier away.
OutcomeStepsDown(row, t, verdict) ==
  IF verdict = "APPROVED"
    THEN [status |-> "KYC_APPROVED", tier |-> IF t = 1 \/ t > row.tier THEN t ELSE row.tier]
    ELSE [status |-> "KYC_REJECTED", tier |-> row.tier - 1]

\* What SaveKYCResult makes of the row it read.
Outcome(row, t, verdict) ==
  LET upgrade == t > row.tier /\ row.tier # 0
  IN IF verdict = "APPROVED"
       THEN [status |-> "KYC_APPROVED", tier |-> IF t = 1 \/ t > row.tier THEN t ELSE row.tier]
     ELSE IF upgrade THEN [row EXCEPT !.status = "KYC_APPROVED"]
     ELSE IF verdict = "REJECTED"
       THEN [status |-> "KYC_REJECTED", tier |-> IF t = 1 THEN 0 ELSE t]
     ELSE [row EXCEPT !.status = "KYC_PENDING"]

SaveKYCResult(c) ==
  LET verdict == calls[caller[c].call].verdict
  IN /\ caller[c].pc = "save"
     /\ Stands(Outcome(caller[c].read, caller[c].tier, verdict))
     /\ caller' = [caller EXCEPT ![c].pc = IF verdict = "APPROVED" THEN "announce" ELSE "mark"]
     /\ UNCHANGED <<checks, calls, inbox, submitter, announced, approvals, mocked, unannounced,
                    failures>>

\* The notification is about the next step of the user's setup: none when a
\* password is set.  That it could not be queued is only logged.
enqueueKYCVerifiedNotification(c) ==
  /\ caller[c].pc = "announce"
  /\ \/ /\ announced' = IF account.password THEN announced ELSE announced \cup {caller[c].tier}
        /\ UNCHANGED <<unannounced, failures>>
     \/ Failure /\ unannounced' = TRUE /\ UNCHANGED announced
  /\ caller' = [caller EXCEPT ![c].pc = "mark"]
  /\ UNCHANGED <<account, checks, calls, inbox, submitter, approvals, mocked>>

Marked(c, as) == inbox' = [inbox EXCEPT ![EventKey(caller[c].call)] = as]
CallEnds(c) == caller' = [caller EXCEPT ![c] = CallIdle]

markWebhookEventProcessed(c) ==
  /\ caller[c].pc = "mark"
  /\ Marked(c, "done") /\ CallEnds(c)
  /\ UNCHANGED <<account, checks, calls, submitter, announced, approvals, mocked, unannounced, failures>>

\* A statement fails: the event is marked processed with the error.
CallFails(c) ==
  /\ caller[c].pc \in {"tier", "read", "save", "announce"} /\ Failure
  /\ Marked(c, "error") /\ CallEnds(c)
  /\ UNCHANGED <<account, checks, calls, submitter, announced, approvals, mocked, unannounced>>

\* The engine stops, or the event cannot be marked.
CallIsCut(c) ==
  /\ caller[c].pc # "idle" /\ Failure /\ CallEnds(c)
  /\ UNCHANGED <<account, checks, calls, inbox, submitter, announced, approvals, mocked, unannounced>>

CallStep(c) ==
  \/ \E i \in DOMAIN calls : ensureWebhookEvent(c, i)
  \/ ResolveTier(c) \/ CallReadsUser(c) \/ SaveKYCResult(c)
  \/ enqueueKYCVerifiedNotification(c) \/ markWebhookEventProcessed(c)

VerificationNext ==
  \/ ConsentGiven \/ PasswordSet
  \/ \E s \in Submitters :
       \/ submitTier1KYC(s) \/ MockApproves(s) \/ persistTier1KYCOutcome(s)
       \/ SubmissionFails(s)
       \/ \E t \in Targets : submitTier2PlusKYC(s, t)
       \/ \E v \in Verdicts : ProviderAnswers(s, v)
  \/ \E call \in CallKinds : ProviderCalls(call)
  \/ \E c \in Callers : CallStep(c) \/ CallFails(c) \/ CallIsCut(c)

VerificationSpec == VerificationInit /\ [][VerificationNext]_verificationVars
-----------------------------------------------------------------------------
\* The row, the events and the requests are well-formed.
VerificationTypeOK ==
  /\ account \in Accounts
  /\ checks \subseteq Targets /\ announced \subseteq Tiers /\ approvals \subseteq Tiers
  /\ calls \in Seq(CallKinds) /\ Len(calls) <= MaxCalls
  /\ inbox \in [EventKeys -> {"none", "open", "done", "error"}]
  /\ submitter \in [Submitters -> [pc : {"idle", "provider", "persist"}, tier : Tiers,
                                   to : Standing]]
  /\ caller \in [Callers -> [pc : {"idle", "tier", "read", "save", "announce", "mark"},
                             call : 0..MaxCalls, tier : Tiers, read : Standing]]
  /\ mocked \in BOOLEAN /\ unannounced \in BOOLEAN /\ failures \in Nat

\* A user is verified only if a provider has approved some check of his, or,
\* where AutoApproveKYC is on, a first submission was approved in a provider's
\* place.  A refused upgrade also writes KYC_APPROVED, from the tier the user
\* has; that such a tier is never there before the first approval, in whatever
\* order reports arrive and whatever they overwrite, is what this says.  It
\* says nothing of users with an approval: a tier 2 check refused for a user who
\* is back at TIER_0 leaves TIER_2, and the next refusal verifies him.
ApprovalBacked ==
  account.status = "KYC_APPROVED" => approvals # {} \/ (AutoApproveKYC /\ mocked)

\* A verified user has a tier: status and tier are written together, and no
\* interleaving of submissions and callbacks leaves KYC_APPROVED with TIER_0,
\* which the tier limits do not allow to trade.
ApprovedHasTier == account.status = "KYC_APPROVED" => account.tier > 0

\* A callback with an id of its own that is marked processed without error
\* has been handled to its end, also when the engine stopped half-way and it
\* was delivered again: an approved user without a password is told so, unless
\* queueing the notification failed.
VerifiedIsAnnounced ==
  \A i \in DOMAIN calls :
    calls[i].own /\ calls[i].verdict = "APPROVED" /\ inbox[EventKey(i)] = "done"
      => announced # {} \/ account.password \/ unannounced
=============================================================================
