----------------------- MODULE UserVerification_proofs -----------------------
(***************************************************************************)
(* What holds of UserVerification for any number of submissions and        *)
(* deliveries, any callbacks and any failures.                             *)
(***************************************************************************)
EXTENDS UserVerification, TLAPS

Submissions == [pc : {"idle", "provider", "persist"}, tier : Tiers, to : Standing]
Deliveries == [pc : {"idle", "tier", "read", "save", "announce", "mark"},
               call : 0..MaxCalls, tier : Tiers, read : Standing]

\* A submission on its way has a tier to apply for; a first one starts from
\* KYC_PENDING, and only an approval gives it a tier.
SubmissionSound(r) ==
  /\ r.pc = "provider" => r.tier \in Targets /\ (r.tier = 1 => r.to.status = "KYC_PENDING")
  /\ r.pc = "persist" => (r.to.status = "KYC_APPROVED" <=> r.to.tier = 1) /\ r.to.tier \in {0, 1}

\* A delivery on its way is of a call, and has resolved a tier before it reads.
DeliverySound(r) ==
  /\ r.pc # "idle" => r.call \in DOMAIN calls
  /\ r.pc \in {"read", "save", "announce"} => r.tier >= 1

Sound == /\ \A s \in Submitters : SubmissionSound(submitter[s])
         /\ \A c \in Callers : DeliverySound(caller[c])
         /\ ApprovedHasTier
TInv == VerificationTypeOK /\ Sound

LEMMA IdleTyped ==
  /\ SubmitIdle \in Submissions /\ SubmissionSound(SubmitIdle)
  /\ CallIdle \in Deliveries /\ CallIdle.pc = "idle" /\ SubmitIdle.pc = "idle"
  BY VerificationAssumption
  DEF SubmitIdle, CallIdle, Blank, Submissions, Deliveries, Standing, UserStates, Tiers,
      SubmissionSound

LEMMA VerificationInitTyped == VerificationInit => TInv
<1> SUFFICES ASSUME VerificationInit PROVE TInv
  OBVIOUS
<1>1. calls \in Seq(CallKinds) /\ Len(calls) <= MaxCalls
  BY VerificationAssumption DEF VerificationInit
<1>2. /\ submitter \in [Submitters -> Submissions] /\ caller \in [Callers -> Deliveries]
  BY IdleTyped DEF VerificationInit
<1>3. VerificationTypeOK
  <2>1. account \in Accounts
    BY DEF VerificationInit, Accounts, UserStates, Tiers
  <2>2. inbox \in [EventKeys -> {"none", "open", "done", "error"}]
    BY DEF VerificationInit
  <2>3. /\ checks \subseteq Targets /\ announced \subseteq Tiers /\ approvals \subseteq Tiers
        /\ mocked \in BOOLEAN /\ unannounced \in BOOLEAN /\ failures \in Nat
    BY DEF VerificationInit
  <2>. QED BY <1>1, <1>2, <2>1, <2>2, <2>3 DEF VerificationTypeOK, Submissions, Deliveries
<1>4. ASSUME NEW c \in Callers PROVE DeliverySound(caller[c])
  BY IdleTyped DEF VerificationInit, DeliverySound
<1>5. Sound
  BY <1>4, IdleTyped DEF VerificationInit, Sound, ApprovedHasTier
<1>. QED BY <1>3, <1>5 DEF TInv

\* A step of one submission.
LEMMA SubmissionStep ==
  ASSUME TInv, NEW s \in Submitters, NEW r \in Submissions, SubmissionSound(r),
         submitter' = [submitter EXCEPT ![s] = r]
  PROVE  /\ submitter' \in [Submitters -> Submissions]
         /\ \A t \in Submitters : SubmissionSound(submitter'[t])
  BY DEF TInv, VerificationTypeOK, Submissions, Sound

\* A step of one delivery.
LEMMA DeliveryStep ==
  ASSUME TInv, NEW c \in Callers, NEW r \in Deliveries, DeliverySound(r),
         caller' = [caller EXCEPT ![c] = r], UNCHANGED calls
  PROVE  /\ caller' \in [Callers -> Deliveries]
         /\ \A d \in Callers : DeliverySound(caller[d])'
<1>1. caller' \in [Callers -> Deliveries]
  BY DEF TInv, VerificationTypeOK, Deliveries
<1>2. ASSUME NEW d \in Callers PROVE DeliverySound(caller[d])'
  <2>1. caller'[d] = IF d = c THEN r ELSE caller[d]
    BY DEF TInv, VerificationTypeOK
  <2>. QED BY <2>1 DEF TInv, Sound, DeliverySound
<1>. QED BY <1>1, <1>2

LEMMA AfterPending ==
  /\ Tier1Pending \subseteq {"KYC_PENDING"}
  /\ After("KYC_PENDING", "KYC_APPROVED") = {"KYC_APPROVED"}
  /\ After("KYC_PENDING", "KYC_REJECTED") = {"KYC_REJECTED"}
  BY DEF Tier1Pending, After, UserTransitions, UserStates

\* What is left to show of a step that neither sends nor changes callbacks.
LEMMA Assembled ==
  ASSUME TInv, UNCHANGED calls,
         account' \in Accounts, checks' \subseteq Targets, announced' \subseteq Tiers,
         approvals' \subseteq Tiers, inbox' \in [EventKeys -> {"none", "open", "done", "error"}],
         submitter' \in [Submitters -> Submissions], caller' \in [Callers -> Deliveries],
         mocked' \in BOOLEAN, unannounced' \in BOOLEAN, failures' \in Nat,
         \A s \in Submitters : SubmissionSound(submitter'[s]),
         \A c \in Callers : DeliverySound(caller[c])', ApprovedHasTier'
  PROVE  TInv'
  BY DEF TInv, Sound, VerificationTypeOK, Submissions, Deliveries

LEMMA PartsTyped ==
  ASSUME TInv
  PROVE  /\ account \in Accounts /\ checks \subseteq Targets /\ announced \subseteq Tiers
         /\ approvals \subseteq Tiers /\ inbox \in [EventKeys -> {"none", "open", "done", "error"}]
         /\ submitter \in [Submitters -> Submissions] /\ caller \in [Callers -> Deliveries]
         /\ calls \in Seq(CallKinds) /\ Len(calls) <= MaxCalls /\ DOMAIN calls = 1..Len(calls)
         /\ Len(calls) \in Nat
         /\ mocked \in BOOLEAN /\ unannounced \in BOOLEAN /\ failures \in Nat
         /\ \A s \in Submitters : submitter[s] \in Submissions /\ SubmissionSound(submitter[s])
         /\ \A c \in Callers : caller[c] \in Deliveries /\ DeliverySound(caller[c])
         /\ ApprovedHasTier
         /\ \A i \in DOMAIN calls : calls[i] \in CallKinds /\ calls[i] \in Calls
  BY VerificationAssumption DEF TInv, VerificationTypeOK, Submissions, Deliveries, Sound

\* Submissions.
LEMMA SubmitTyped ==
  ASSUME TInv, NEW s \in Submitters,
         submitTier1KYC(s) \/ \E t \in Targets : submitTier2PlusKYC(s, t)
  PROVE  TInv'
<1>1. PICK r \in Submissions : SubmissionSound(r) /\ submitter' = [submitter EXCEPT ![s] = r]
  <2>1. CASE submitTier1KYC(s)
    <3>1. PICK to \in Tier1Pending :
            submitter' = [submitter EXCEPT ![s] =
                            [pc |-> "provider", tier |-> 1, to |-> [status |-> to, tier |-> 0]]]
      BY <2>1 DEF submitTier1KYC
    <3>2. to = "KYC_PENDING" /\ 1 \in Targets
      BY <2>1, AfterPending DEF submitTier1KYC
    <3>3. [pc |-> "provider", tier |-> 1, to |-> [status |-> to, tier |-> 0]] \in Submissions
      BY <3>2 DEF Submissions, Standing, UserStates, Tiers
    <3>. QED BY <3>1, <3>2, <3>3 DEF SubmissionSound
  <2>2. ASSUME NEW t \in Targets, submitTier2PlusKYC(s, t)
        PROVE  \E r \in Submissions : SubmissionSound(r) /\ submitter' = [submitter EXCEPT ![s] = r]
    <3>1. t \in Tiers /\ t # 1 /\ Blank \in Standing
      BY <2>2, VerificationAssumption
      DEF submitTier2PlusKYC, Tiers, Blank, Standing, UserStates
    <3>2. [pc |-> "provider", tier |-> t, to |-> Blank] \in Submissions
      BY <3>1 DEF Submissions
    <3>. QED BY <2>2, <3>1, <3>2 DEF submitTier2PlusKYC, SubmissionSound
  <2>. QED BY <2>1, <2>2
<1>2. UNCHANGED <<account, checks, calls, inbox, caller, announced, approvals, mocked, unannounced, failures>>
  BY DEF submitTier1KYC, submitTier2PlusKYC
<1>3. /\ \A c \in Callers : DeliverySound(caller[c])'
      /\ ApprovedHasTier'
  BY <1>2, PartsTyped DEF DeliverySound, ApprovedHasTier
<1>. QED BY <1>1, <1>2, <1>3, SubmissionStep, PartsTyped, Assembled

LEMMA AnswerTyped ==
  ASSUME TInv, NEW s \in Submitters, NEW v \in Verdicts, ProviderAnswers(s, v)
  PROVE  TInv'
<1> DEFINE was == submitter[s]
<1>1. was \in Submissions /\ SubmissionSound(was) /\ was.pc = "provider" /\ was.tier \in Targets
  BY PartsTyped DEF ProviderAnswers, SubmissionSound
<1>2. PICK r \in Submissions : SubmissionSound(r) /\ submitter' = [submitter EXCEPT ![s] = r]
  <2>1. CASE was.tier = 1
    <3>1. PICK status \in IF v = "PENDING" THEN {was.to.status}
                          ELSE After(was.to.status, IF v = "APPROVED" THEN "KYC_APPROVED"
                                                                      ELSE "KYC_REJECTED") :
            submitter' = [submitter EXCEPT ![s].pc = "persist",
                            ![s].to = [status |-> status, tier |-> IF v = "APPROVED" THEN 1 ELSE 0]]
      BY <2>1 DEF ProviderAnswers
    <3>2. was.to.status = "KYC_PENDING"
      BY <1>1, <2>1 DEF SubmissionSound
    <3>3. status = IF v = "PENDING" THEN "KYC_PENDING"
                   ELSE IF v = "APPROVED" THEN "KYC_APPROVED" ELSE "KYC_REJECTED"
      BY <3>1, <3>2, AfterPending
    <3> DEFINE to == [status |-> status, tier |-> IF v = "APPROVED" THEN 1 ELSE 0]
               r == [was EXCEPT !.pc = "persist", !.to = to]
    <3>4. to \in Standing /\ to.status = status /\ to.tier = IF v = "APPROVED" THEN 1 ELSE 0
      BY <3>3 DEF Standing, UserStates, Tiers
    <3>5. submitter' = [submitter EXCEPT ![s] = r]
      BY <3>1, PartsTyped
    <3> HIDE DEF to
    <3>6. r \in Submissions /\ r.pc = "persist" /\ r.to = to
      BY <1>1, <3>4 DEF Submissions
    <3>7. SubmissionSound(r)
      BY <3>3, <3>4, <3>6 DEF SubmissionSound, Verdicts
    <3>. QED BY <3>5, <3>6, <3>7
  <2>2. CASE was.tier # 1
    BY <2>2, IdleTyped DEF ProviderAnswers
  <2>. QED BY <2>1, <2>2
<1>3. checks' \subseteq Targets /\ approvals' \subseteq Tiers
  BY <1>1, PartsTyped DEF ProviderAnswers, Tiers
<1>4. UNCHANGED <<account, calls, inbox, caller, announced, mocked, unannounced, failures>>
  BY DEF ProviderAnswers
<1>5. /\ \A c \in Callers : DeliverySound(caller[c])'
      /\ ApprovedHasTier'
  BY <1>4, PartsTyped DEF DeliverySound, ApprovedHasTier
<1>. QED BY <1>2, <1>3, <1>4, <1>5, SubmissionStep, PartsTyped, Assembled

LEMMA MockTyped ==
  ASSUME TInv, NEW s \in Submitters, MockApproves(s)
  PROVE  TInv'
<1> DEFINE was == submitter[s]
<1>1. was \in Submissions /\ SubmissionSound(was) /\ was.pc = "provider" /\ was.tier = 1
  BY PartsTyped DEF MockApproves
<1>2. was.to.status = "KYC_PENDING" /\ 1 \in Targets
  BY <1>1 DEF SubmissionSound
<1>3. PICK status \in After(was.to.status, "KYC_APPROVED") :
        submitter' = [submitter EXCEPT ![s].pc = "persist",
                        ![s].to = [status |-> status, tier |-> 1]]
  BY DEF MockApproves
<1> DEFINE to == [status |-> "KYC_APPROVED", tier |-> 1]
           r == [was EXCEPT !.pc = "persist", !.to = to]
<1>4. status = "KYC_APPROVED"
  BY <1>2, <1>3, AfterPending
<1>5. to \in Standing /\ to.status = "KYC_APPROVED" /\ to.tier = 1
  BY DEF Standing, UserStates, Tiers
<1>6. submitter' = [submitter EXCEPT ![s] = r]
  BY <1>3, <1>4, PartsTyped
<1> HIDE DEF to
<1>7. r \in Submissions /\ r.pc = "persist" /\ r.to = to
  BY <1>1, <1>5 DEF Submissions
<1>8. SubmissionSound(r)
  BY <1>5, <1>7 DEF SubmissionSound
<1>9. checks' \subseteq Targets /\ mocked' \in BOOLEAN
      /\ UNCHANGED <<account, calls, inbox, caller, announced, approvals, unannounced, failures>>
  BY <1>2, PartsTyped DEF MockApproves
<1>10. /\ \A c \in Callers : DeliverySound(caller[c])'
       /\ ApprovedHasTier'
  BY <1>9, PartsTyped DEF DeliverySound, ApprovedHasTier
<1> HIDE DEF r
<1>. QED BY <1>6, <1>7, <1>8, <1>9, <1>10, SubmissionStep, PartsTyped, Assembled

LEMMA StandsTyped ==
  ASSUME TInv, NEW row \in Standing, Stands(row), row.status = "KYC_APPROVED" => row.tier > 0
  PROVE  /\ account' \in Accounts /\ ApprovedHasTier'
         /\ account'.status = row.status /\ account'.tier = row.tier
         /\ account'.password = account.password
<1>1. account \in Accounts
  BY PartsTyped
<1>. QED BY <1>1 DEF Stands, Accounts, Standing, ApprovedHasTier

LEMMA PersistTyped ==
  ASSUME TInv, NEW s \in Submitters, persistTier1KYCOutcome(s)
  PROVE  TInv'
<1> DEFINE to == submitter[s].to
<1>1. to \in Standing /\ (to.status = "KYC_APPROVED" => to.tier > 0)
  BY PartsTyped DEF persistTier1KYCOutcome, SubmissionSound, Submissions
<1>2. account' \in Accounts /\ ApprovedHasTier'
  BY <1>1, StandsTyped DEF persistTier1KYCOutcome
<1>3. submitter' = [submitter EXCEPT ![s] = SubmitIdle]
      /\ UNCHANGED <<checks, calls, inbox, caller, announced, approvals, mocked, unannounced, failures>>
  BY DEF persistTier1KYCOutcome
<1>4. \A c \in Callers : DeliverySound(caller[c])'
  BY <1>3, PartsTyped DEF DeliverySound
<1>. QED BY <1>2, <1>3, <1>4, IdleTyped, SubmissionStep, PartsTyped, Assembled

LEMMA FailTyped ==
  ASSUME TInv, NEW s \in Submitters, SubmissionFails(s)
  PROVE  TInv'
<1>1. /\ submitter' = [submitter EXCEPT ![s] = SubmitIdle] /\ failures' \in Nat
      /\ UNCHANGED <<account, checks, calls, inbox, caller, announced, approvals, mocked, unannounced>>
  BY PartsTyped DEF SubmissionFails, Failure
<1>2. /\ \A c \in Callers : DeliverySound(caller[c])'
      /\ ApprovedHasTier'
  BY <1>1, PartsTyped DEF DeliverySound, ApprovedHasTier
<1>. QED BY <1>1, <1>2, IdleTyped, SubmissionStep, PartsTyped, Assembled

LEMMA UserTyped ==
  ASSUME TInv, ConsentGiven \/ PasswordSet
  PROVE  TInv'
<1>1. /\ account' \in Accounts /\ account'.status = account.status /\ account'.tier = account.tier
      /\ UNCHANGED <<checks, calls, inbox, submitter, caller, announced, approvals, mocked, unannounced,
                     failures>>
  BY PartsTyped DEF ConsentGiven, PasswordSet, Accounts
<1>2. /\ \A c \in Callers : DeliverySound(caller[c])'
      /\ ApprovedHasTier'
  BY <1>1, PartsTyped DEF DeliverySound, ApprovedHasTier
<1>. QED BY <1>1, <1>2, PartsTyped, Assembled

LEMMA CallTyped ==
  ASSUME TInv, NEW call \in CallKinds, ProviderCalls(call)
  PROVE  /\ TInv' /\ Len(calls') = Len(calls) + 1 /\ calls'[Len(calls) + 1] = call
         /\ \A i \in DOMAIN calls : i \in DOMAIN calls' /\ calls'[i] = calls[i]
         /\ DOMAIN calls' = 1..(Len(calls) + 1)
<1>1. /\ calls' = Append(calls, call) /\ Len(calls) < MaxCalls
      /\ UNCHANGED <<account, checks, inbox, submitter, caller, announced, approvals, mocked, unannounced,
                     failures>>
  BY DEF ProviderCalls
<1>2. /\ calls' \in Seq(CallKinds) /\ Len(calls') = Len(calls) + 1
      /\ calls'[Len(calls) + 1] = call
      /\ \A i \in 1..Len(calls) : calls'[i] = calls[i]
      /\ DOMAIN calls = 1..Len(calls) /\ DOMAIN calls' = 1..(Len(calls) + 1)
  BY <1>1, PartsTyped
<1>3. Len(calls') <= MaxCalls
  BY <1>1, <1>2, PartsTyped, VerificationAssumption
<1>4. VerificationTypeOK'
  BY <1>1, <1>2, <1>3 DEF TInv, VerificationTypeOK
<1>5. \A i \in DOMAIN calls : i \in DOMAIN calls'
  BY <1>2, PartsTyped
<1>6. Sound'
  BY <1>1, <1>5 DEF TInv, Sound, DeliverySound, SubmissionSound, ApprovedHasTier
<1>. QED BY <1>2, <1>4, <1>5, <1>6 DEF TInv

\* Deliveries.
LEMMA OutcomeTyped ==
  ASSUME NEW row \in Standing, NEW t \in Tiers, t >= 1, NEW v \in Verdicts
  PROVE  /\ Outcome(row, t, v) \in Standing
         /\ Outcome(row, t, v).status = "KYC_APPROVED" => Outcome(row, t, v).tier > 0
<1>1. row.tier \in 0..4 /\ t \in 0..4 /\ row.status \in UserStates
  BY DEF Standing, Tiers
<1>2. CASE v = "APPROVED"
  BY <1>1, <1>2 DEF Outcome, Standing, Tiers, UserStates
<1>3. CASE v # "APPROVED" /\ t > row.tier /\ row.tier # 0
  BY <1>1, <1>3 DEF Outcome, Standing, Tiers, UserStates
<1>4. CASE v # "APPROVED" /\ ~ (t > row.tier /\ row.tier # 0)
  BY <1>1, <1>4 DEF Outcome, Standing, Tiers, UserStates
<1>. QED BY <1>2, <1>3, <1>4

\* What a delivery becomes in each of its steps.
LEMMA DeliveryMoves ==
  ASSUME TInv, NEW c \in Callers,
         \/ \E i \in DOMAIN calls : ensureWebhookEvent(c, i)
         \/ ResolveTier(c) \/ CallReadsUser(c) \/ SaveKYCResult(c)
         \/ enqueueKYCVerifiedNotification(c) \/ markWebhookEventProcessed(c)
         \/ CallFails(c) \/ CallIsCut(c)
  PROVE  \E r \in Deliveries : DeliverySound(r) /\ caller' = [caller EXCEPT ![c] = r]
<1> DEFINE was == caller[c]
<1>1. was \in Deliveries /\ DeliverySound(was)
  BY PartsTyped
<1>2. ASSUME NEW pc \in {"announce", "mark", "save"}, was.pc # "idle",
             pc = "announce" => was.tier >= 1, pc = "save" => was.tier >= 1,
             NEW read \in Standing
      PROVE  LET r == [was EXCEPT !.pc = pc, !.read = read]
             IN r \in Deliveries /\ DeliverySound(r)
  BY <1>1, <1>2 DEF Deliveries, DeliverySound
<1>3. ASSUME NEW i \in DOMAIN calls, ensureWebhookEvent(c, i)
      PROVE  \E r \in Deliveries : DeliverySound(r) /\ caller' = [caller EXCEPT ![c] = r]
  <2> DEFINE r == [CallIdle EXCEPT !.pc = "tier", !.call = i]
  <2>1. i \in 0..MaxCalls
    BY PartsTyped, VerificationAssumption
  <2>2. CallIdle \in Deliveries
    BY IdleTyped
  <2>3. r \in Deliveries /\ r.pc = "tier" /\ r.call = i
    BY <2>1, <2>2 DEF Deliveries
  <2> HIDE DEF r
  <2>4. DeliverySound(r)
    BY <2>3 DEF DeliverySound
  <2>5. caller' = [caller EXCEPT ![c] = r]
    BY <1>3 DEF ensureWebhookEvent, r
  <2>. QED BY <2>3, <2>4, <2>5
<1>4. CASE ResolveTier(c)
  <2> DEFINE call == calls[was.call]
             pc == IF call.verdict = "PENDING" /\ call.provider = "sumsub" THEN "mark" ELSE "read"
             r == [was EXCEPT !.tier = WebhookTier(call), !.pc = pc]
  <2>1. call \in Calls /\ account.tier \in 0..4
    BY <1>1, <1>4, PartsTyped DEF ResolveTier, DeliverySound, Accounts, Tiers
  <2>2. WebhookTier(call) \in Tiers /\ WebhookTier(call) >= 1
    BY <2>1 DEF WebhookTier, nextKYCTier, Tiers, Calls
  <2>3. caller' = [caller EXCEPT ![c] = r]
    BY <1>4 DEF ResolveTier
  <2> HIDE DEF call
  <2>4. r \in Deliveries /\ DeliverySound(r)
    BY <1>1, <1>4, <2>2 DEF ResolveTier, Deliveries, DeliverySound
  <2>. QED BY <2>3, <2>4
<1>5. CASE CallReadsUser(c)
  <2>1. Row \in Standing
    BY PartsTyped DEF Row, Accounts, Standing
  <2>2. caller' = [caller EXCEPT ![c] = [was EXCEPT !.pc = "save", !.read = Row]]
    BY <1>5 DEF CallReadsUser
  <2>. QED BY <1>1, <1>2, <1>5, <2>1, <2>2 DEF CallReadsUser, DeliverySound
<1>6. CASE SaveKYCResult(c)
  <2> DEFINE pc == IF calls[was.call].verdict = "APPROVED" THEN "announce" ELSE "mark"
             r == [was EXCEPT !.pc = pc]
  <2>1. r \in Deliveries /\ DeliverySound(r)
    BY <1>1, <1>6 DEF SaveKYCResult, Deliveries, DeliverySound
  <2>. QED BY <1>6, <2>1 DEF SaveKYCResult
<1>7. CASE enqueueKYCVerifiedNotification(c)
  <2> DEFINE r == [was EXCEPT !.pc = "mark"]
  <2>1. r \in Deliveries /\ DeliverySound(r)
    BY <1>1, <1>7 DEF enqueueKYCVerifiedNotification, Deliveries, DeliverySound
  <2>. QED BY <1>7, <2>1 DEF enqueueKYCVerifiedNotification
<1>8. CASE markWebhookEventProcessed(c) \/ CallFails(c) \/ CallIsCut(c)
  BY <1>8, IdleTyped DEF markWebhookEventProcessed, CallFails, CallIsCut, CallEnds, DeliverySound
<1>. QED BY <1>3, <1>4, <1>5, <1>6, <1>7, <1>8

LEMMA DeliveryTyped ==
  ASSUME TInv, NEW c \in Callers, CallStep(c) \/ CallFails(c) \/ CallIsCut(c)
  PROVE  TInv'
<1>1. UNCHANGED <<calls, submitter, checks, mocked>>
  BY DEF CallStep, ensureWebhookEvent, ResolveTier, CallReadsUser, SaveKYCResult,
         enqueueKYCVerifiedNotification, markWebhookEventProcessed, CallFails, CallIsCut
<1>2. PICK r \in Deliveries : DeliverySound(r) /\ caller' = [caller EXCEPT ![c] = r]
  BY DeliveryMoves DEF CallStep
<1>3. caller' \in [Callers -> Deliveries] /\ \A d \in Callers : DeliverySound(caller[d])'
  BY <1>1, <1>2, DeliveryStep
<1>4. \A s \in Submitters : SubmissionSound(submitter'[s])
  BY <1>1, PartsTyped
<1>5. account' \in Accounts /\ ApprovedHasTier'
  <2>1. CASE SaveKYCResult(c)
    <3> DEFINE v == calls[caller[c].call].verdict
               row == Outcome(caller[c].read, caller[c].tier, v)
    <3>1. /\ caller[c].read \in Standing /\ caller[c].tier \in Tiers /\ caller[c].tier >= 1
          /\ caller[c].call \in DOMAIN calls
      BY <2>1, PartsTyped DEF SaveKYCResult, DeliverySound, Deliveries
    <3>2. v \in Verdicts
      BY <3>1, PartsTyped DEF Calls
    <3>3. row \in Standing /\ (row.status = "KYC_APPROVED" => row.tier > 0)
      BY <3>1, <3>2, OutcomeTyped
    <3>4. Stands(row)
      BY <2>1 DEF SaveKYCResult
    <3> HIDE DEF row
    <3>. QED BY <3>3, <3>4, StandsTyped
  <2>2. CASE ~ SaveKYCResult(c)
    <3>1. UNCHANGED account
      BY <2>2 DEF CallStep, ensureWebhookEvent, ResolveTier, CallReadsUser,
         enqueueKYCVerifiedNotification, markWebhookEventProcessed, CallFails, CallIsCut
    <3>. QED BY <3>1, PartsTyped DEF ApprovedHasTier
  <2>. QED BY <2>1, <2>2
<1>6. /\ announced' \subseteq Tiers /\ unannounced' \in BOOLEAN /\ failures' \in Nat
      /\ approvals' \subseteq Tiers
  <2>1. caller[c].tier \in Tiers
    BY PartsTyped DEF Deliveries
  <2>2. \A i \in DOMAIN calls : calls[i].tier \in Tiers
    BY PartsTyped DEF Calls, Tiers
  <2>3. CASE enqueueKYCVerifiedNotification(c)
    <3>1. announced' \subseteq announced \cup {caller[c].tier} /\ UNCHANGED approvals
      BY <2>3 DEF enqueueKYCVerifiedNotification
    <3>2. unannounced' = unannounced \/ unannounced' = TRUE
      BY <2>3 DEF enqueueKYCVerifiedNotification
    <3>3. failures' = failures \/ failures' = failures + 1
      BY <2>3 DEF enqueueKYCVerifiedNotification, Failure
    <3>4. unannounced' \in BOOLEAN
      BY <3>2, PartsTyped, Zenon
    <3>5. failures' \in Nat
      BY <3>3, PartsTyped
    <3>. QED BY <2>1, <3>1, <3>4, <3>5, PartsTyped
  <2>4. ASSUME NEW i \in DOMAIN calls, ensureWebhookEvent(c, i)
        PROVE  /\ approvals' \subseteq approvals \cup {calls[i].tier}
               /\ UNCHANGED <<announced, unannounced, failures>>
    BY <2>4 DEF ensureWebhookEvent
  <2>5. CASE \/ ResolveTier(c) \/ CallReadsUser(c) \/ SaveKYCResult(c)
             \/ markWebhookEventProcessed(c) \/ CallFails(c) \/ CallIsCut(c)
    BY <2>5, PartsTyped
    DEF ResolveTier, CallReadsUser, SaveKYCResult, markWebhookEventProcessed, CallFails,
        CallIsCut, Failure
  <2>6. CASE \E i \in DOMAIN calls : ensureWebhookEvent(c, i)
    BY <2>6, <2>4, <2>2, PartsTyped
  <2>. QED BY <2>3, <2>5, <2>6 DEF CallStep
<1>7. inbox' \in [EventKeys -> {"none", "open", "done", "error"}]
  BY PartsTyped
  DEF CallStep, ensureWebhookEvent, ResolveTier, CallReadsUser, SaveKYCResult, Marked,
      enqueueKYCVerifiedNotification, markWebhookEventProcessed, CallFails, CallIsCut
<1>. QED BY <1>1, <1>3, <1>4, <1>5, <1>6, <1>7, PartsTyped, Assembled

LEMMA VerificationStepTyped == TInv /\ [VerificationNext]_verificationVars => TInv'
<1> SUFFICES ASSUME TInv, [VerificationNext]_verificationVars PROVE TInv'
  OBVIOUS
<1>1. CASE UNCHANGED verificationVars
  BY <1>1 DEF verificationVars, TInv, VerificationTypeOK, Sound, DeliverySound, SubmissionSound,
              ApprovedHasTier
<1>2. CASE VerificationNext
  BY <1>2, SubmitTyped, AnswerTyped, MockTyped, PersistTyped, FailTyped, UserTyped, CallTyped, DeliveryTyped
  DEF VerificationNext
<1>. QED BY <1>1, <1>2

\* The user's row, the webhook events and the requests have their types.
THEOREM VerificationTyped == VerificationSpec => []VerificationTypeOK
<1>1. TInv => VerificationTypeOK
  BY DEF TInv
<1>. QED BY <1>1, VerificationInitTyped, VerificationStepTyped, PTL DEF VerificationSpec

\* A verified user has a tier, whatever overwrites whatever.
THEOREM VerifiedHaveTier == VerificationSpec => []ApprovedHasTier
<1>1. TInv => ApprovedHasTier
  BY DEF TInv, Sound
<1>. QED BY <1>1, VerificationInitTyped, VerificationStepTyped, PTL DEF VerificationSpec
-----------------------------------------------------------------------------
(***************************************************************************)
(* Verified only on approval.  As long as no provider has approved any     *)
(* check and none was approved in a provider's place, the user has no      *)
(* tier, only tier 1 has been checked, and nothing on its way carries an   *)
(* approval or a tier above 1.                                             *)
(***************************************************************************)
CallUnapproved(r) ==
  /\ r.pc # "idle" => calls[r.call].verdict # "APPROVED"
  /\ r.pc \in {"read", "save"} => r.tier = 1
  /\ r.pc = "save" => r.read.tier = 0
SubmissionUnapproved(r) ==
  /\ r.pc = "provider" => r.tier = 1
  /\ r.pc = "persist" => r.to.status # "KYC_APPROVED" /\ r.to.tier = 0

Unapproved == /\ account.tier = 0 /\ account.status # "KYC_APPROVED"
              /\ checks \subseteq {1}
              /\ \A i \in DOMAIN calls : calls[i].tier = 1
              /\ \A s \in Submitters : SubmissionUnapproved(submitter[s])
              /\ \A c \in Callers : CallUnapproved(caller[c])
UInv == /\ TInv
        /\ mocked => AutoApproveKYC
        /\ approvals = {} /\ ~ mocked => Unapproved

LEMMA UnapprovedInit == VerificationInit => UInv
<1> SUFFICES ASSUME VerificationInit PROVE UInv
  OBVIOUS
<1>1. \A s \in Submitters : submitter[s].pc = "idle"
  BY DEF VerificationInit, SubmitIdle
<1>2. \A c \in Callers : caller[c].pc = "idle"
  BY DEF VerificationInit, CallIdle
<1>3. account.tier = 0 /\ account.status # "KYC_APPROVED" /\ checks = {} /\ calls = <<>>
  BY DEF VerificationInit
<1>4. mocked = FALSE
  BY DEF VerificationInit
<1>. QED BY <1>1, <1>2, <1>3, <1>4, VerificationInitTyped
         DEF UInv, Unapproved, SubmissionUnapproved, CallUnapproved

LEMMA UnapprovedSubmit ==
  ASSUME TInv, TInv', Unapproved, approvals' = {}, NEW s \in Submitters,
         \/ submitTier1KYC(s) \/ persistTier1KYCOutcome(s) \/ SubmissionFails(s)
         \/ \E t \in Targets : submitTier2PlusKYC(s, t)
         \/ \E v \in Verdicts : ProviderAnswers(s, v)
  PROVE  Unapproved'
<1>1. UNCHANGED <<calls, caller>>
  BY DEF submitTier1KYC, persistTier1KYCOutcome, SubmissionFails, submitTier2PlusKYC,
         ProviderAnswers
<1>2. submitter \in [Submitters -> Submissions]
  BY PartsTyped
<1>3. ~ \E t \in Targets : submitTier2PlusKYC(s, t)
  BY DEF Unapproved, submitTier2PlusKYC
<1>4. account'.tier = 0 /\ account'.status # "KYC_APPROVED"
  <2>1. CASE persistTier1KYCOutcome(s)
    BY <2>1, PartsTyped DEF Unapproved, SubmissionUnapproved, persistTier1KYCOutcome, Stands, Accounts
  <2>2. CASE ~ persistTier1KYCOutcome(s)
    BY <2>2 DEF Unapproved, submitTier1KYC, SubmissionFails, submitTier2PlusKYC, ProviderAnswers
  <2>. QED BY <2>1, <2>2
<1>5. checks' \subseteq {1}
  BY DEF Unapproved, SubmissionUnapproved, submitTier1KYC, persistTier1KYCOutcome,
         SubmissionFails, submitTier2PlusKYC, ProviderAnswers
<1>6. /\ SubmissionUnapproved(submitter'[s])
      /\ \A t \in Submitters \ {s} : submitter'[t] = submitter[t]
  <2>1. CASE submitTier1KYC(s)
    BY <2>1, <1>2 DEF submitTier1KYC, SubmissionUnapproved
  <2>2. CASE persistTier1KYCOutcome(s) \/ SubmissionFails(s)
    BY <2>2, <1>2 DEF persistTier1KYCOutcome, SubmissionFails, SubmissionUnapproved, SubmitIdle
  <2>3. ASSUME NEW v \in Verdicts, ProviderAnswers(s, v)
        PROVE  /\ SubmissionUnapproved(submitter'[s])
               /\ \A t \in Submitters \ {s} : submitter'[t] = submitter[t]
    <3> DEFINE was == submitter[s]
    <3>1. was.pc = "provider" /\ was.tier = 1 /\ was.to.status = "KYC_PENDING" /\ was \in Submissions
      BY <2>3, PartsTyped DEF ProviderAnswers, Unapproved, SubmissionUnapproved, SubmissionSound
    <3>2. v # "APPROVED"
      BY <2>3, <3>1 DEF ProviderAnswers
    <3>3. PICK status \in IF v = "PENDING" THEN {was.to.status}
                          ELSE After(was.to.status, IF v = "APPROVED" THEN "KYC_APPROVED"
                                                                      ELSE "KYC_REJECTED") :
            submitter' = [submitter EXCEPT ![s].pc = "persist",
                            ![s].to = [status |-> status, tier |-> IF v = "APPROVED" THEN 1 ELSE 0]]
      BY <2>3, <3>1 DEF ProviderAnswers
    <3>4. status # "KYC_APPROVED"
      BY <3>1, <3>2, <3>3, AfterPending
    <3> HIDE DEF was
    <3>. QED BY <3>2, <3>3, <3>4, <1>2 DEF SubmissionUnapproved, Submissions
  <2>. QED BY <2>1, <2>2, <2>3, <1>3
<1>7. \A t \in Submitters : SubmissionUnapproved(submitter[t])'
  <2>1. ASSUME NEW t \in Submitters \ {s} PROVE SubmissionUnapproved(submitter'[t])
    BY <1>6 DEF Unapproved
  <2>. QED BY <1>6, <2>1 DEF SubmissionUnapproved
<1>. QED BY <1>1, <1>4, <1>5, <1>7 DEF Unapproved, CallUnapproved

\* A delivery that moves without an approval: what its record becomes.
LEMMA UnapprovedDelivery ==
  ASSUME TInv, TInv', Unapproved, approvals' = {}, NEW c \in Callers,
         CallStep(c) \/ CallFails(c) \/ CallIsCut(c)
  PROVE  Unapproved'
<1> DEFINE was == caller[c]
<1>1. UNCHANGED <<calls, submitter, checks, mocked>>
  BY DEF CallStep, ensureWebhookEvent, ResolveTier, CallReadsUser, SaveKYCResult,
         enqueueKYCVerifiedNotification, markWebhookEventProcessed, CallFails, CallIsCut
<1>2. /\ caller \in [Callers -> Deliveries] /\ was \in Deliveries /\ DeliverySound(was)
      /\ CallUnapproved(was) /\ account.tier = 0
  BY PartsTyped DEF Unapproved
<1>3. account'.tier = 0 /\ account'.status # "KYC_APPROVED"
  <2>1. CASE SaveKYCResult(c)
    <3> DEFINE v == calls[was.call].verdict
               row == Outcome(was.read, was.tier, v)
    <3>1. v # "APPROVED" /\ was.tier = 1 /\ was.read.tier = 0 /\ was.read \in Standing
      BY <2>1, <1>2 DEF SaveKYCResult, CallUnapproved, Deliveries
    <3>2. row.tier = 0 /\ row.status # "KYC_APPROVED"
      BY <3>1 DEF Outcome, Standing
    <3>3. Stands(row)
      BY <2>1 DEF SaveKYCResult
    <3> HIDE DEF row
    <3>. QED BY <3>2, <3>3, PartsTyped DEF Stands, Accounts
  <2>2. CASE ~ SaveKYCResult(c)
    <3>1. UNCHANGED account
      BY <2>2 DEF CallStep, ensureWebhookEvent, ResolveTier, CallReadsUser,
         enqueueKYCVerifiedNotification, markWebhookEventProcessed, CallFails, CallIsCut
    <3>. QED BY <3>1 DEF Unapproved
  <2>. QED BY <2>1, <2>2
<1>4. PICK r \in Deliveries : caller' = [caller EXCEPT ![c] = r] /\ CallUnapproved(r)
  <2>1. ASSUME NEW i \in DOMAIN calls, ensureWebhookEvent(c, i)
        PROVE  \E r \in Deliveries : caller' = [caller EXCEPT ![c] = r] /\ CallUnapproved(r)
    <3> DEFINE r == [CallIdle EXCEPT !.pc = "tier", !.call = i]
    <3>1. i \in 0..MaxCalls /\ CallIdle \in Deliveries
      BY PartsTyped, VerificationAssumption, IdleTyped
    <3>2. r \in Deliveries /\ r.pc = "tier" /\ r.call = i
      BY <3>1 DEF Deliveries
    <3>3. caller' = [caller EXCEPT ![c] = r] /\ calls[i].verdict # "APPROVED"
      BY <2>1 DEF ensureWebhookEvent
    <3> HIDE DEF r
    <3>. QED BY <3>2, <3>3 DEF CallUnapproved
  <2>2. CASE ResolveTier(c)
    <3> DEFINE call == calls[was.call]
               pc == IF call.verdict = "PENDING" /\ call.provider = "sumsub" THEN "mark" ELSE "read"
               r == [was EXCEPT !.tier = 1, !.pc = pc]
    <3>1. call.verdict # "APPROVED" /\ call.tier = 1
      BY <2>2, <1>2 DEF ResolveTier, DeliverySound, CallUnapproved, Unapproved
    <3>2. WebhookTier(call) = 1
      BY <3>1, <1>2 DEF WebhookTier, nextKYCTier
    <3>3. caller' = [caller EXCEPT ![c] = r] /\ pc \in {"mark", "read"}
      BY <2>2, <3>2 DEF ResolveTier
    <3>4. calls[was.call].verdict # "APPROVED" /\ 1 \in Tiers /\ was \in Deliveries
      BY <1>2, <3>1 DEF Tiers
    <3>5. ASSUME NEW q \in {"mark", "read"}
          PROVE  LET moved == [was EXCEPT !.tier = 1, !.pc = q]
                 IN moved \in Deliveries /\ CallUnapproved(moved)
      BY <3>4 DEF Deliveries, CallUnapproved
    <3> HIDE DEF call, pc
    <3>6. r \in Deliveries /\ CallUnapproved(r)
      BY <3>3, <3>5
    <3>. QED BY <3>3, <3>6
  <2>3. CASE CallReadsUser(c)
    <3> DEFINE r == [was EXCEPT !.read = Row, !.pc = "save"]
    <3>1. Row \in Standing /\ Row.tier = 0
      BY PartsTyped, <1>2 DEF Row, Accounts, Standing
    <3>2. /\ r \in Deliveries /\ r.pc = "save" /\ r.read.tier = 0 /\ r.tier = was.tier
          /\ r.call = was.call
      BY <1>2, <3>1 DEF Deliveries
    <3>3. caller' = [caller EXCEPT ![c] = r] /\ was.pc = "read"
      BY <2>3 DEF CallReadsUser
    <3>4. CallUnapproved(r)
      BY <3>2, <3>3, <1>2 DEF CallUnapproved
    <3>. QED BY <3>2, <3>3, <3>4
  <2>4. CASE SaveKYCResult(c) \/ enqueueKYCVerifiedNotification(c)
    <3> DEFINE r == [was EXCEPT !.pc = "mark"]
    <3>1. was.pc # "idle" /\ calls[was.call].verdict # "APPROVED"
      BY <2>4, <1>2 DEF SaveKYCResult, enqueueKYCVerifiedNotification, CallUnapproved
    <3>2. caller' = [caller EXCEPT ![c] = r]
      BY <2>4, <3>1 DEF SaveKYCResult, enqueueKYCVerifiedNotification
    <3>3. r \in Deliveries /\ r.pc = "mark" /\ r.call = was.call
      BY <1>2 DEF Deliveries
    <3>4. CallUnapproved(r)
      BY <3>1, <3>3 DEF CallUnapproved
    <3>. QED BY <3>2, <3>3, <3>4
  <2>5. CASE markWebhookEventProcessed(c) \/ CallFails(c) \/ CallIsCut(c)
    BY <2>5, IdleTyped DEF markWebhookEventProcessed, CallFails, CallIsCut, CallEnds, CallUnapproved
  <2>. QED BY <2>1, <2>2, <2>3, <2>4, <2>5 DEF CallStep
<1>5. \A d \in Callers : caller'[d] = IF d = c THEN r ELSE caller[d]
  BY <1>2, <1>4
<1>6. ASSUME NEW d \in Callers PROVE CallUnapproved(caller[d])'
  BY <1>1, <1>4, <1>5 DEF Unapproved, CallUnapproved
<1>7. \A s \in Submitters : SubmissionUnapproved(submitter[s])'
  BY <1>1 DEF Unapproved, SubmissionUnapproved
<1>. QED BY <1>1, <1>3, <1>6, <1>7 DEF Unapproved

LEMMA ApprovalsGrow ==
  TInv /\ [VerificationNext]_verificationVars => approvals \subseteq approvals'
  BY DEF VerificationNext, verificationVars, ConsentGiven, PasswordSet, submitTier1KYC, MockApproves,
         persistTier1KYCOutcome, SubmissionFails, submitTier2PlusKYC, ProviderAnswers,
         ProviderCalls, CallStep, ensureWebhookEvent, ResolveTier, CallReadsUser, SaveKYCResult,
         enqueueKYCVerifiedNotification, markWebhookEventProcessed, CallFails, CallIsCut

\* Only MockApproves changes mocked.
LEMMA MockedStays ==
  [VerificationNext]_verificationVars => (mocked' = mocked) \/ (AutoApproveKYC /\ mocked')
  BY Zenon DEF VerificationNext, verificationVars, ConsentGiven, PasswordSet, submitTier1KYC, MockApproves,
         persistTier1KYCOutcome, SubmissionFails, submitTier2PlusKYC, ProviderAnswers,
         ProviderCalls, CallStep, ensureWebhookEvent, ResolveTier, CallReadsUser, SaveKYCResult,
         enqueueKYCVerifiedNotification, markWebhookEventProcessed, CallFails, CallIsCut

LEMMA UnapprovedStep == UInv /\ [VerificationNext]_verificationVars => UInv'
<1> SUFFICES ASSUME UInv, [VerificationNext]_verificationVars PROVE UInv'
  OBVIOUS
<1>1. TInv /\ TInv'
  BY VerificationStepTyped DEF UInv
<1>01. approvals \subseteq approvals'
  BY <1>1, ApprovalsGrow, Zenon
<1>02. (mocked' = mocked) \/ (AutoApproveKYC /\ mocked')
  BY MockedStays, Zenon
<1>0. mocked' => AutoApproveKYC
  BY <1>02, Zenon DEF UInv
<1>2. SUFFICES ASSUME approvals' = {}, ~ mocked' PROVE Unapproved'
  BY <1>0, <1>1, Zenon DEF UInv
<1>21. approvals = {}
  BY <1>01, <1>2
<1>3. Unapproved
  BY <1>02, <1>21, <1>2, Zenon DEF UInv
<1>4. CASE UNCHANGED verificationVars
  BY <1>3, <1>4 DEF verificationVars, Unapproved, CallUnapproved, SubmissionUnapproved
<1>5. CASE ConsentGiven \/ PasswordSet
  BY <1>1, <1>3, <1>5, PartsTyped
  DEF ConsentGiven, PasswordSet, Unapproved, CallUnapproved, SubmissionUnapproved, Accounts
<1>6. ASSUME NEW call \in CallKinds, ProviderCalls(call) PROVE Unapproved'
  <2>1. call.tier = 1 /\ UNCHANGED <<account, checks, submitter, caller>>
    BY <1>3, <1>6 DEF ProviderCalls, Unapproved
  <2>2. /\ calls'[Len(calls) + 1] = call /\ DOMAIN calls' = 1..(Len(calls) + 1)
        /\ \A i \in DOMAIN calls : i \in DOMAIN calls' /\ calls'[i] = calls[i]
    BY <1>1, <1>6, CallTyped
  <2>3. \A i \in DOMAIN calls' : i \in DOMAIN calls \/ i = Len(calls) + 1
    BY <1>1, <2>2, PartsTyped
  <2>4. \A i \in DOMAIN calls' : calls'[i].tier = 1
    BY <1>3, <2>1, <2>2, <2>3 DEF Unapproved
  <2>5. \A c \in Callers : caller[c].pc # "idle" => caller[c].call \in DOMAIN calls
    BY <1>1, PartsTyped DEF DeliverySound
  <2>. QED BY <1>3, <2>1, <2>2, <2>4, <2>5 DEF Unapproved, CallUnapproved, SubmissionUnapproved
<1>7. ASSUME NEW c \in Callers, CallStep(c) \/ CallFails(c) \/ CallIsCut(c) PROVE Unapproved'
  BY <1>1, <1>2, <1>3, <1>7, UnapprovedDelivery
<1>8. ASSUME NEW s \in Submitters,
             \/ submitTier1KYC(s) \/ persistTier1KYCOutcome(s) \/ SubmissionFails(s)
             \/ \E t \in Targets : submitTier2PlusKYC(s, t)
             \/ \E v \in Verdicts : ProviderAnswers(s, v)
      PROVE  Unapproved'
  BY <1>1, <1>2, <1>3, <1>8, UnapprovedSubmit
<1>9. ASSUME NEW s \in Submitters, MockApproves(s) PROVE FALSE
  BY <1>2, <1>9 DEF MockApproves
<1>. QED BY <1>4, <1>5, <1>6, <1>7, <1>8, <1>9 DEF VerificationNext

\* Nobody is verified whom no provider has approved, nor, with AutoApproveKYC,
\* a first submission in its place; without it only a provider's approval counts.
THEOREM VerifiedOnApproval == VerificationSpec => []ApprovalBacked
<1>1. UInv => ApprovalBacked
  BY Zenon DEF UInv, Unapproved, ApprovalBacked
<1>. QED BY <1>1, UnapprovedInit, UnapprovedStep, PTL DEF VerificationSpec
-----------------------------------------------------------------------------
(***************************************************************************)
(* Announced before processed.  A delivery of an approval that is about to *)
(* be marked has announced it, and an event of a call that was not sent    *)
(* yet has not been received.                                              *)
(***************************************************************************)
Announced == announced # {} \/ account.password \/ unannounced
AInv == /\ TInv /\ VerifiedIsAnnounced
        /\ \A c \in Callers :
             caller[c].pc = "mark" /\ calls[caller[c].call].verdict = "APPROVED" => Announced
        /\ \A i \in 1..MaxCalls : i > Len(calls) => inbox[<<"call", i>>] = "none"

LEMMA AnnouncedInit == VerificationInit => AInv
<1> SUFFICES ASSUME VerificationInit PROVE AInv
  OBVIOUS
<1>1. TInv /\ calls = <<>> /\ \A c \in Callers : caller[c].pc = "idle"
  BY VerificationInitTyped DEF VerificationInit, CallIdle
<1>2. \A i \in 1..MaxCalls : <<"call", i>> \in EventKeys
  BY DEF EventKeys
<1>3. \A i \in 1..MaxCalls : inbox[<<"call", i>>] = "none"
  BY <1>2 DEF VerificationInit
<1>. QED BY <1>1, <1>3 DEF AInv, VerifiedIsAnnounced

\* Nothing is taken back of what makes an approval announced.
LEMMA AnnouncedStays == TInv /\ [VerificationNext]_verificationVars /\ Announced => Announced'
<1> SUFFICES ASSUME TInv, VerificationNext, Announced PROVE Announced'
  BY DEF verificationVars, Announced
<1>0. (unannounced => unannounced')
  BY Zenon DEF VerificationNext, ConsentGiven, PasswordSet, submitTier1KYC, MockApproves,
         persistTier1KYCOutcome, SubmissionFails, submitTier2PlusKYC, ProviderAnswers,
         ProviderCalls, CallStep, ensureWebhookEvent, ResolveTier, CallReadsUser, SaveKYCResult,
         enqueueKYCVerifiedNotification, markWebhookEventProcessed, CallFails, CallIsCut
<1>1. announced \subseteq announced'
  BY DEF VerificationNext, ConsentGiven, PasswordSet, submitTier1KYC, MockApproves,
         persistTier1KYCOutcome, SubmissionFails, submitTier2PlusKYC, ProviderAnswers,
         ProviderCalls, CallStep, ensureWebhookEvent, ResolveTier, CallReadsUser, SaveKYCResult,
         enqueueKYCVerifiedNotification, markWebhookEventProcessed, CallFails, CallIsCut
<1>2. account.password => account'.password
  BY PartsTyped DEF VerificationNext, ConsentGiven, PasswordSet, submitTier1KYC, MockApproves, Stands, Accounts,
         persistTier1KYCOutcome, SubmissionFails, submitTier2PlusKYC, ProviderAnswers,
         ProviderCalls, CallStep, ensureWebhookEvent, ResolveTier, CallReadsUser, SaveKYCResult,
         enqueueKYCVerifiedNotification, markWebhookEventProcessed, CallFails, CallIsCut
<1>. QED BY <1>0, <1>1, <1>2 DEF Announced

\* Every step but a delivery's leaves the events and the deliveries alone.
LEMMA AnnouncedElsewhere ==
  ASSUME AInv, TInv', Announced => Announced', UNCHANGED <<calls, inbox, caller>>
  PROVE  AInv'
<1>1. \A i \in DOMAIN calls' : i \in DOMAIN calls /\ EventKey(i)' = EventKey(i)
  BY DEF EventKey
<1>2. VerifiedIsAnnounced'
  BY <1>1 DEF AInv, VerifiedIsAnnounced, Announced
<1>. QED BY <1>2 DEF AInv

LEMMA AnnouncedCall ==
  ASSUME AInv, TInv', Announced => Announced', NEW call \in CallKinds, ProviderCalls(call)
  PROVE  AInv'
<1>1. UNCHANGED <<inbox, caller>> /\ Len(calls) \in Nat /\ Len(calls) < MaxCalls
  BY PartsTyped DEF ProviderCalls, AInv
<1>2. /\ Len(calls') = Len(calls) + 1 /\ DOMAIN calls' = 1..(Len(calls) + 1)
      /\ DOMAIN calls = 1..Len(calls)
      /\ \A i \in DOMAIN calls : calls'[i] = calls[i]
  BY CallTyped, PartsTyped DEF AInv
<1>3. inbox[<<"call", Len(calls) + 1>>] = "none"
  BY <1>1, VerificationAssumption DEF AInv
<1>4. ASSUME NEW i \in DOMAIN calls', calls'[i].own, calls'[i].verdict = "APPROVED",
             inbox[<<"call", i>>] = "done"
      PROVE  Announced
  <2>1. i \in DOMAIN calls
    BY <1>1, <1>2, <1>3, <1>4
  <2>2. calls'[i] = calls[i]
    BY <1>2, <2>1
  <2>3. EventKey(i) = <<"call", i>>
    BY <1>4, <2>2 DEF EventKey
  <2>. QED BY <1>4, <2>1, <2>2, <2>3 DEF AInv, VerifiedIsAnnounced, Announced
<1>5. VerifiedIsAnnounced'
  BY <1>1, <1>4 DEF VerifiedIsAnnounced, EventKey, Announced
<1>6. \A c \in Callers : caller[c].pc = "mark" => caller[c].call \in DOMAIN calls
  BY PartsTyped DEF AInv, DeliverySound
<1>7. \A i \in 1..MaxCalls : i > Len(calls') => inbox'[<<"call", i>>] = "none"
  BY <1>1, <1>2, VerificationAssumption DEF AInv
<1>8. \A c \in Callers :
        caller'[c].pc = "mark" /\ calls'[caller'[c].call].verdict = "APPROVED" => Announced'
  BY <1>1, <1>2, <1>6 DEF AInv
<1>. QED BY <1>5, <1>7, <1>8 DEF AInv

\* Marking the event of call i touches no event with the identity of another call.
LEMMA MarkedOne ==
  ASSUME TInv, NEW i \in DOMAIN calls, NEW as, inbox' = [inbox EXCEPT ![EventKey(i)] = as],
         NEW j \in 1..MaxCalls, j # i
  PROVE  inbox'[<<"call", j>>] = inbox[<<"call", j>>]
<1>1. EventKey(i) # <<"call", j>>
  BY DEF EventKey
<1>2. <<"call", j>> \in EventKeys
  BY DEF EventKeys
<1>. QED BY <1>1, <1>2, PartsTyped

LEMMA AnnouncedDelivery ==
  ASSUME AInv, TInv', Announced => Announced', NEW c \in Callers,
         CallStep(c) \/ CallFails(c) \/ CallIsCut(c)
  PROVE  AInv'
<1> DEFINE n == caller[c].call
<1>1. TInv /\ UNCHANGED calls
  BY DEF AInv, CallStep, ensureWebhookEvent, ResolveTier, CallReadsUser, SaveKYCResult,
         enqueueKYCVerifiedNotification, markWebhookEventProcessed, CallFails, CallIsCut
<1>2. /\ caller \in [Callers -> Deliveries] /\ (caller[c].pc # "idle" => n \in DOMAIN calls)
      /\ DOMAIN calls = 1..Len(calls) /\ Len(calls) \in Nat /\ Len(calls) <= MaxCalls
      /\ calls \in Seq(CallKinds)
  BY <1>1, PartsTyped DEF DeliverySound
<1>3. \/ UNCHANGED inbox
      \/ \E i \in DOMAIN calls : \E as \in {"open", "done", "error"} :
           /\ inbox' = [inbox EXCEPT ![EventKey(i)] = as]
           /\ as = "done" => i = n /\ caller[c].pc = "mark"
  <2>1. CASE \E i \in DOMAIN calls : ensureWebhookEvent(c, i)
    BY <2>1, Zenon DEF ensureWebhookEvent
  <2>2. CASE markWebhookEventProcessed(c)
    BY <2>2, <1>2, Zenon DEF markWebhookEventProcessed, Marked
  <2>3. CASE CallFails(c)
    <3>1. n \in DOMAIN calls /\ inbox' = [inbox EXCEPT ![EventKey(n)] = "error"]
      BY <2>3, <1>2 DEF CallFails, Marked
    <3>. QED BY <3>1
  <2>4. CASE ResolveTier(c) \/ CallReadsUser(c) \/ SaveKYCResult(c)
             \/ enqueueKYCVerifiedNotification(c) \/ CallIsCut(c)
    BY <2>4 DEF ResolveTier, CallReadsUser, SaveKYCResult, enqueueKYCVerifiedNotification,
                CallIsCut
  <2>. QED BY <2>1, <2>2, <2>3, <2>4 DEF CallStep
<1>4. ASSUME NEW j \in 1..MaxCalls PROVE
        \/ inbox'[<<"call", j>>] = inbox[<<"call", j>>]
        \/ j \in DOMAIN calls /\ (inbox'[<<"call", j>>] = "done" => j = n /\ caller[c].pc = "mark")
  <2>1. CASE UNCHANGED inbox
    BY <2>1
  <2>2. ASSUME NEW i \in DOMAIN calls, NEW as \in {"open", "done", "error"},
               inbox' = [inbox EXCEPT ![EventKey(i)] = as],
               as = "done" => i = n /\ caller[c].pc = "mark"
        PROVE  \/ inbox'[<<"call", j>>] = inbox[<<"call", j>>]
               \/ j \in DOMAIN calls
                  /\ (inbox'[<<"call", j>>] = "done" => j = n /\ caller[c].pc = "mark")
    <3>1. CASE j # i
      BY <3>1, <2>2, <1>1, MarkedOne
    <3>2. CASE j = i
      <4>1. <<"call", j>> \in EventKeys
        BY DEF EventKeys
      <4>2. inbox'[<<"call", j>>] \in {as, inbox[<<"call", j>>]}
        BY <4>1, <2>2, <1>1, PartsTyped
      <4>. QED BY <3>2, <4>2, <2>2
    <3>. QED BY <3>1, <3>2
  <2>. QED BY <2>1, <2>2, <1>3
<1>5. \A i \in 1..MaxCalls : i > Len(calls') => inbox'[<<"call", i>>] = "none"
  BY <1>1, <1>2, <1>4, VerificationAssumption DEF AInv
<1>6. ASSUME NEW j \in DOMAIN calls, calls[j].own, calls[j].verdict = "APPROVED",
             inbox'[<<"call", j>>] = "done"
      PROVE  Announced'
  <2>1. j \in 1..MaxCalls /\ EventKey(j) = <<"call", j>>
    BY <1>2, <1>6, VerificationAssumption DEF EventKey
  <2>2. CASE inbox[<<"call", j>>] = "done"
    BY <2>1, <2>2, <1>6 DEF AInv, VerifiedIsAnnounced, Announced
  <2>3. CASE j = n /\ caller[c].pc = "mark"
    BY <2>3, <1>6 DEF AInv
  <2>. QED BY <2>1, <2>2, <2>3, <1>4, <1>6
<1>7. VerifiedIsAnnounced'
  <2>1. ASSUME NEW i \in DOMAIN calls', calls'[i].own, calls'[i].verdict = "APPROVED",
               inbox'[EventKey(i)'] = "done"
        PROVE  Announced'
    <3>1. i \in DOMAIN calls /\ calls[i].own /\ calls[i].verdict = "APPROVED"
      BY <1>1, <2>1
    <3>2. EventKey(i)' = <<"call", i>>
      BY <2>1 DEF EventKey
    <3>. QED BY <1>6, <2>1, <3>1, <3>2
  <2>. QED BY <2>1 DEF VerifiedIsAnnounced, Announced
<1>8. ASSUME NEW d \in Callers, caller'[d].pc = "mark",
             calls'[caller'[d].call].verdict = "APPROVED"
      PROVE  Announced'
  <2>1. CASE caller'[d] = caller[d]
    BY <1>1, <1>8, <2>1 DEF AInv
  <2>2. CASE caller'[d] # caller[d]
    <3>1. d = c
      BY <1>2, <2>2 DEF CallStep, ensureWebhookEvent, ResolveTier, CallReadsUser, SaveKYCResult,
           enqueueKYCVerifiedNotification, markWebhookEventProcessed, CallFails, CallIsCut, CallEnds
    <3>2. ~ \E i \in DOMAIN calls : ensureWebhookEvent(c, i)
      BY <1>2, <1>8, <3>1 DEF ensureWebhookEvent, CallIdle
    <3>3. ~ CallReadsUser(c) /\ ~ markWebhookEventProcessed(c) /\ ~ CallFails(c) /\ ~ CallIsCut(c)
      BY <1>2, <1>8, <3>1
      DEF CallReadsUser, markWebhookEventProcessed, CallFails, CallIsCut, CallEnds, CallIdle,
          Deliveries
    <3>4. ~ ResolveTier(c) /\ ~ SaveKYCResult(c)
      BY <1>1, <1>2, <1>8, <3>1 DEF ResolveTier, SaveKYCResult, Deliveries
    <3>5. enqueueKYCVerifiedNotification(c)
      BY <3>2, <3>3, <3>4 DEF CallStep
    <3>. QED BY <1>1, <3>5, PartsTyped DEF enqueueKYCVerifiedNotification, Announced
  <2>. QED BY <2>1, <2>2
<1>. QED BY <1>5, <1>7, <1>8 DEF AInv

LEMMA AnnouncedStep == AInv /\ [VerificationNext]_verificationVars => AInv'
<1> SUFFICES ASSUME AInv, [VerificationNext]_verificationVars PROVE AInv'
  OBVIOUS
<1>1. TInv' /\ (Announced => Announced')
  BY VerificationStepTyped, AnnouncedStays DEF AInv
<1>2. CASE UNCHANGED verificationVars
  BY <1>1, <1>2, AnnouncedElsewhere DEF verificationVars
<1>3. CASE VerificationNext
  <2>1. CASE ConsentGiven \/ PasswordSet
    BY <1>1, <2>1, AnnouncedElsewhere DEF ConsentGiven, PasswordSet
  <2>2. ASSUME NEW s \in Submitters,
               \/ submitTier1KYC(s) \/ persistTier1KYCOutcome(s) \/ SubmissionFails(s)
               \/ MockApproves(s) \/ \E t \in Targets : submitTier2PlusKYC(s, t)
               \/ \E v \in Verdicts : ProviderAnswers(s, v)
        PROVE  AInv'
    <3>1. UNCHANGED <<calls, inbox, caller>>
      BY <2>2 DEF submitTier1KYC, persistTier1KYCOutcome, SubmissionFails, submitTier2PlusKYC,
                  ProviderAnswers, MockApproves
    <3>. QED BY <1>1, <3>1, AnnouncedElsewhere
  <2>3. ASSUME NEW call \in CallKinds, ProviderCalls(call) PROVE AInv'
    BY <1>1, <2>3, AnnouncedCall
  <2>4. ASSUME NEW c \in Callers, CallStep(c) \/ CallFails(c) \/ CallIsCut(c) PROVE AInv'
    BY <1>1, <2>4, AnnouncedDelivery
  <2>. QED BY <1>3, <2>1, <2>2, <2>3, <2>4 DEF VerificationNext
<1>. QED BY <1>2, <1>3

\* An approval that was marked processed has been announced.
THEOREM ApprovalsAnnounced == VerificationSpec => []VerifiedIsAnnounced
<1>1. AInv => VerifiedIsAnnounced
  BY DEF AInv
<1>. QED BY <1>1, AnnouncedInit, AnnouncedStep, PTL DEF VerificationSpec
=============================================================================
