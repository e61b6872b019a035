------------------------ MODULE BotConversation_proofs ------------------------
(***************************************************************************)
(* What holds of BotConversation for any number of concurrent handlers,    *)
(* any messages, quotes, accounts and failures.                            *)
(***************************************************************************)
EXTENDS BotConversation, TLAPS

QuoteRows == [account : AccountIds \cup {0}, trade : {"none", "open", "ended"}]
Questions == [trade : SUBSET QuoteIds, delete : SUBSET AccountIds]

\* What the engine's answers say of an account fits together: an approval is
\* final, and only an approved user gets a password or is erased.
SoundAccount(u) ==
  /\ u.kyc = "approved" <=> u.approved
  /\ u.password => u.secured
  /\ u.secured => u.approved
  /\ u.kyc # "none" => u.made
  /\ u.erased => u.secured

EngineSound ==
  /\ accounts \in [AccountIds -> BotUsers]
  /\ quotes \in [QuoteIds -> QuoteRows]
  /\ notices \subseteq AccountIds
  /\ asked \in Questions
  /\ \A a \in AccountIds : SoundAccount(accounts[a])
  /\ \A a \in notices : accounts[a].approved
  /\ EffectsConfirmed

\* The steps before the verification.
Filling == {"GREETING", "CONSENT", "PHONE", "NAME", "DOB", "NIN", "BVN"}

\* What a session says is true of the engine, in Redis and in every copy.
Truthful(s) ==
  /\ s.account = 0 => s = NewSession
  /\ s.account # 0 => accounts[s.account].made
  /\ Ready(s) => accounts[s.account].approved /\ accounts[s.account].secured
  /\ s.at \in Filling => ~ s.onboarded
  /\ s.at \in {"SET_PASSWORD", "CONFIRM_PASSWORD"} => accounts[s.account].approved
  /\ s.at \in {"CONFIRMATION", "TX_PASSWORD"} => s.quote # 0
  /\ s.at = "TX_PASSWORD" => s.quote \in asked.trade
  /\ s.at = "DELETE_PASSWORD" => s.account \in asked.delete

SoundRequest(r) ==
  /\ Truthful(r.copy)
  /\ r.pc \in {"idle", "load"} => r.copy = NewSession
  /\ r.pc \in {"delete", "retry"} => r.copy.account # 0
  /\ r.pc = "retry" => r.copy.at = "BVN"
  /\ r.then = "retry" => r.pc = "save" /\ r.copy.account # 0 /\ r.copy.at = "BVN"

TalkSound ==
  /\ session \in Sessions /\ Truthful(session)
  /\ handler \in [Handlers -> Requests]
  /\ \A h \in Handlers : SoundRequest(handler[h])

\* A message that was taken up is claimed, or its claim has run out.
IntakeSound ==
  /\ chat \in Seq(Messages) /\ claimed \subseteq DOMAIN chat /\ lapsed \subseteq DOMAIN chat
  /\ handled \in [DOMAIN chat -> Nat]
  /\ \A m \in DOMAIN chat : chat[m].named /\ handled[m] > 0 => m \in claimed \cup lapsed
  /\ HandledOnce

\* A delivery under way is of an approval, and its copy of the session is true.
CourierSound ==
  /\ courier \in Couriers /\ Truthful(courier.copy)
  /\ courier.pc # "idle" => courier.account # 0 /\ accounts[courier.account].approved

BotInv == IntakeSound /\ EngineSound /\ TalkSound /\ CourierSound /\ faults \in Nat
-----------------------------------------------------------------------------
\* Steps, sessions and requests.

LEMMA FormSteps ==
  /\ Len(Form) = 6
  /\ \A i \in 1..6 : Form[i] \in {"CONSENT", "PHONE", "NAME", "DOB", "NIN", "BVN"}
  BY DEF Form

LEMMA FormRange == Range(Form) = {"CONSENT", "PHONE", "NAME", "DOB", "NIN", "BVN"}
<1>1. DOMAIN Form = 1..6
  BY DEF Form
<1>2. /\ Form[1] = "CONSENT" /\ Form[2] = "PHONE" /\ Form[3] = "NAME"
      /\ Form[4] = "DOB" /\ Form[5] = "NIN" /\ Form[6] = "BVN"
  BY DEF Form
<1> HIDE DEF Form
<1>3. \A f : f \in Range(Form) <=> \E i \in 1..6 : f = Form[i]
  BY <1>1, Zenon DEF Range
<1> QED
  BY <1>2, <1>3

LEMMA FillingSteps == Filling \subseteq OnboardingSteps
  BY FormRange DEF Filling, OnboardingSteps

LEMMA AllSteps ==
  Steps = {"GREETING", "SELFIE", "SUBMITTED", "SET_PASSWORD", "CONFIRM_PASSWORD",
           "CONSENT", "PHONE", "NAME", "DOB", "NIN", "BVN",
           "BANK_CODE", "ACCOUNT_NUMBER", "CONFIRM_BANK", "CONFIRMATION", "TX_PASSWORD", "DEPOSIT",
           "none", "CONFIRM_DELETE", "DELETE_PASSWORD"}
  BY FormRange DEF Steps, OnboardingSteps, BankSteps, TradeSteps

LEMMA AccountNames == 1 \in AccountIds /\ 0 \notin AccountIds /\ 0 \notin QuoteIds
  BY ConversationAssumption DEF AccountIds, QuoteIds

LEMMA NewSessionTyped ==
  /\ NewSession \in Sessions /\ Truthful(NewSession) /\ Truthful(NewSession)'
  /\ NewSession.account = 0 /\ NewSession.at = "none"
  /\ Free \in Requests /\ Free.copy = NewSession /\ Free.pc = "idle" /\ Free.then = "idle"
  BY AllSteps DEF NewSession, Sessions, Truthful, Ready, Free, Requests, Filling

\* What a session becomes when some of its fields are written.
LEMMA SessionWritten ==
  ASSUME NEW s \in Sessions, NEW at \in Steps
  PROVE  /\ [s EXCEPT !.at = at] \in Sessions
         /\ [s EXCEPT !.at = at].at = at
         /\ [s EXCEPT !.at = at].account = s.account
         /\ [s EXCEPT !.at = at].onboarded = s.onboarded
         /\ [s EXCEPT !.at = at].password = s.password
         /\ [s EXCEPT !.at = at].quote = s.quote
  BY DEF Sessions

LEMMA SessionCleared ==
  ASSUME NEW s \in Sessions
  PROVE  /\ Cleared(s) \in Sessions /\ Cleared(s).at = "none"
         /\ Cleared(s).account = s.account
         /\ Cleared(s).onboarded = s.onboarded /\ Cleared(s).password = s.password
  BY AllSteps DEF Sessions, Cleared

LEMMA SessionVerified ==
  ASSUME NEW s \in Sessions, NEW secured
  PROVE  LET v == AfterVerification(s, secured)
         IN /\ v \in Sessions /\ v.account = s.account
            /\ \/ secured /\ v.at = "none" /\ v.onboarded /\ v.password
               \/ ~ secured /\ v.at = "SET_PASSWORD" /\ ~ v.onboarded
<1>1. CASE secured
  BY <1>1, AllSteps DEF Sessions, AfterVerification
<1>2. CASE ~ secured
  BY <1>2, AllSteps DEF Sessions, AfterVerification
<1> QED
  BY <1>1, <1>2

\* The engine's facts that sessions rely on only grow.
Later == /\ \A a \in AccountIds : /\ accounts[a].made => accounts'[a].made
                                  /\ accounts[a].approved => accounts'[a].approved
                                  /\ accounts[a].secured => accounts'[a].secured
         /\ asked.trade \subseteq asked'.trade /\ asked.delete \subseteq asked'.delete

LEMMA TruthKept ==
  ASSUME NEW s \in Sessions, Truthful(s), Later
  PROVE  Truthful(s)'
<1>1. CASE s.account = 0
  BY <1>1, NewSessionTyped DEF Truthful
<1>2. CASE s.account # 0
  <2>1. s.account \in AccountIds
    BY <1>2 DEF Sessions
  <2> QED
    BY <1>2, <2>1 DEF Truthful, Later, Ready
<1> QED
  BY <1>1, <1>2

\* A session that stays with its account.
LEMMA TruthMoved ==
  ASSUME NEW s \in Sessions, Truthful(s), Later, s.account # 0,
         NEW v \in Sessions, v.account = s.account,
         v.onboarded = s.onboarded, v.password = s.password,
         v.at \in Filling => s.at \in Filling,
         v.at \in {"SET_PASSWORD", "CONFIRM_PASSWORD"} =>
           s.at \in {"SET_PASSWORD", "CONFIRM_PASSWORD"},
         v.at \in {"CONFIRMATION", "TX_PASSWORD"} => v.quote # 0,
         v.at = "TX_PASSWORD" => v.quote \in asked'.trade,
         v.at = "DELETE_PASSWORD" => v.account \in asked'.delete
  PROVE  Truthful(v)'
<1>1. s.account \in AccountIds
  BY DEF Sessions
<1>2. Truthful(s)'
  BY TruthKept
<1> QED
  BY <1>1, <1>2 DEF Truthful, Ready
-----------------------------------------------------------------------------
\* One turn of a handler.

\* A turn of a handler: what it takes along and what it writes is true.
TurnMade(h) ==
  /\ EngineSound' /\ Later
  /\ \E r \in Requests : handler' = [handler EXCEPT ![h] = r] /\ SoundRequest(r)'
  /\ session' \in Sessions /\ Truthful(session)'
  /\ UNCHANGED <<chat, claimed, handled, lapsed, notices, courier>> /\ faults' \in Nat

LEMMA CourierKept ==
  ASSUME BotInv, Later, UNCHANGED courier
  PROVE  CourierSound'
<1>1. PICK c \in Sessions : c = courier.copy
  BY DEF BotInv, CourierSound, Couriers
<1>2. Truthful(c)'
  BY <1>1, TruthKept DEF BotInv, CourierSound
<1>3. courier.account \in AccountIds \cup {0}
  BY DEF BotInv, CourierSound, Couriers
<1> QED
  BY <1>1, <1>2, <1>3 DEF BotInv, CourierSound, Later, Truthful

LEMMA TalkKept ==
  ASSUME BotInv, NEW h \in Handlers, NEW r \in Requests, handler' = [handler EXCEPT ![h] = r],
         SoundRequest(r)', Later, session' \in Sessions, Truthful(session)'
  PROVE  TalkSound'
<1>1. handler \in [Handlers -> Requests]
  BY DEF BotInv, TalkSound
<1>2. ASSUME NEW g \in Handlers
      PROVE  SoundRequest(handler[g])'
  <2>1. CASE g = h
    <3>1. handler'[g] = r
      BY <1>1, <2>1
    <3> QED
      BY <3>1 DEF SoundRequest, Truthful
  <2>2. CASE g # h
    <3>1. handler'[g] = handler[g]
      BY <1>1, <2>2
    <3>2. SoundRequest(handler[g]) /\ handler[g].copy \in Sessions
      BY <1>1 DEF BotInv, TalkSound, Requests
    <3> DEFINE q == handler[g]
    <3>3. Truthful(q.copy) /\ q.copy \in Sessions
      BY <3>2 DEF SoundRequest
    <3>4. PICK c \in Sessions : c = q.copy
      BY <3>3
    <3>5. Truthful(c)'
      BY <3>3, <3>4, TruthKept
    <3>6. handler'[g].copy = c
      BY <3>1, <3>4
    <3>7. /\ handler'[g].pc \in {"idle", "load"} => c = NewSession
          /\ handler'[g].pc \in {"delete", "retry"} => c.account # 0
          /\ handler'[g].pc = "retry" => c.at = "BVN"
          /\ handler'[g].then = "retry" =>
               handler'[g].pc = "save" /\ c.account # 0 /\ c.at = "BVN"
      BY <3>1, <3>2, <3>4 DEF SoundRequest
    <3> QED
      BY <3>5, <3>6, <3>7 DEF SoundRequest, Truthful
  <2> QED
    BY <2>1, <2>2
<1>3. handler' \in [Handlers -> Requests]
  BY <1>1
<1>4. \A g \in Handlers : SoundRequest(handler[g])'
  BY <1>2
<1> QED
  BY <1>3, <1>4 DEF TalkSound

LEMMA TurnKeeps == ASSUME BotInv, NEW h \in Handlers, TurnMade(h) PROVE BotInv'
<1>1. TalkSound'
  BY TalkKept DEF TurnMade
<1>2. IntakeSound'
  BY DEF BotInv, IntakeSound, HandledOnce, TurnMade
<1>3. CourierSound'
  BY CourierKept DEF TurnMade
<1> QED
  BY <1>1, <1>2, <1>3 DEF BotInv, TurnMade

\* The answers a handler gives: none, a new session, or the end of the session.
Answered(h) ==
  \/ Replies(h)
  \/ Deletes(h) /\ Copy(h).account # 0
  \/ \E s \in Sessions :
       /\ Truthful(s)'
       /\ \/ Saves(h, s) \/ SavesThen(h, s, "act")
          \/ SavesThen(h, s, "retry") /\ s.account # 0 /\ s.at = "BVN"

Turning(h) == handler[h].pc \in {"act", "retry"}

EngineMoves ==
  /\ EngineSound' /\ Later
  /\ UNCHANGED <<chat, claimed, session, handled, lapsed, notices, courier>> /\ faults' \in Nat

LEMMA AnswersMade ==
  ASSUME BotInv, NEW h \in Handlers, Turning(h), EngineMoves, Answered(h)
  PROVE  BotInv'
<1>1. /\ handler \in [Handlers -> Requests] /\ handler[h] \in Requests /\ Copy(h) \in Sessions
      /\ Truthful(Copy(h)) /\ session \in Sessions /\ Truthful(session)
      /\ handler[h].pc \in {"act", "retry"} /\ handler[h].then # "retry"
  BY DEF BotInv, TalkSound, Requests, Copy, Turning, SoundRequest
<1>2. Truthful(session)'
  <2>1. PICK c \in Sessions : c = session
    BY <1>1
  <2>2. Truthful(c)' /\ session' = c
    BY <1>1, <2>1, TruthKept DEF EngineMoves
  <2> QED
    BY <2>2 DEF Truthful
<1>3. ASSUME NEW r \in Requests, handler' = [handler EXCEPT ![h] = r], SoundRequest(r)'
      PROVE  TurnMade(h)
  BY <1>1, <1>2, <1>3 DEF TurnMade, EngineMoves, BotInv
<1>4. CASE Replies(h)
  <2>1. SoundRequest(Free)'
    BY NewSessionTyped DEF SoundRequest
  <2> QED
    BY <1>3, <1>4, <2>1, NewSessionTyped, TurnKeeps DEF Replies
<1>5. CASE Deletes(h) /\ Copy(h).account # 0
  <2>1. PICK r \in Requests : r = [handler[h] EXCEPT !.pc = "delete"]
    BY <1>1 DEF Requests
  <2>2. handler' = [handler EXCEPT ![h] = r] /\ r.pc = "delete" /\ r.copy = Copy(h)
        /\ r.then # "retry"
    BY <1>1, <1>5, <2>1 DEF Deletes, Goes, Requests, Copy
  <2>3. PICK c \in Sessions : c = Copy(h)
    BY <1>1
  <2>4. Truthful(c)'
    BY <1>1, <2>3, TruthKept DEF EngineMoves
  <2>5. SoundRequest(r)'
    BY <1>5, <2>2, <2>3, <2>4 DEF SoundRequest
  <2> QED
    BY <1>3, <2>2, <2>5, TurnKeeps
<1>6. ASSUME NEW s \in Sessions, Truthful(s)',
             \/ Saves(h, s) \/ SavesThen(h, s, "act")
             \/ SavesThen(h, s, "retry") /\ s.account # 0 /\ s.at = "BVN"
      PROVE  BotInv'
  <2>1. PICK then \in {"idle", "act", "retry"} :
          /\ handler' = [handler EXCEPT ![h] = [@ EXCEPT !.pc = "save", !.copy = s, !.then = then]]
          /\ then = "retry" => s.account # 0 /\ s.at = "BVN"
    <3>1. handler[h].then \in {"idle", "act"}
      BY <1>1 DEF Requests
    <3>2. CASE Saves(h, s)
      <4>1. handler' = [handler EXCEPT ![h] =
                          [@ EXCEPT !.pc = "save", !.copy = s, !.then = handler[h].then]]
        BY <1>1, <3>2 DEF Saves, Requests
      <4> QED
        BY <3>1, <4>1
    <3>3. ASSUME NEW next \in {"act", "retry"}, SavesThen(h, s, next)
          PROVE  handler' = [handler EXCEPT ![h] =
                               [@ EXCEPT !.pc = "save", !.copy = s, !.then = next]]
      BY <1>1, <3>3 DEF SavesThen, Requests
    <3> QED
      BY <1>6, <3>2, <3>3
  <2>2. PICK r \in Requests : r = [handler[h] EXCEPT !.pc = "save", !.copy = s, !.then = then]
    BY <1>1 DEF Requests
  <2>3. handler' = [handler EXCEPT ![h] = r] /\ r.pc = "save" /\ r.copy = s /\ r.then = then
    BY <1>1, <2>1, <2>2 DEF Requests
  <2>4. SoundRequest(r)'
    BY <1>6, <2>1, <2>3 DEF SoundRequest
  <2> QED
    BY <1>3, <2>3, <2>4, TurnKeeps
<1> QED
  BY <1>4, <1>5, <1>6 DEF Answered
-----------------------------------------------------------------------------
\* What the engine's answers become.

EngineGrows == EngineSound' /\ Later

LEMMA EngineStays ==
  ASSUME BotInv, UNCHANGED <<accounts, quotes, asked>>, notices' \subseteq notices
  PROVE  EngineGrows
  BY DEF BotInv, EngineSound, EngineGrows, Later, EffectsConfirmed

LEMMA AccountWritten ==
  ASSUME BotInv, NEW a \in AccountIds, NEW u \in BotUsers, accounts' = [accounts EXCEPT ![a] = u],
         SoundAccount(u), accounts[a].made => u.made, accounts[a].approved => u.approved,
         accounts[a].secured => u.secured, u.erased => accounts[a].erased \/ a \in asked.delete,
         notices' \subseteq notices \cup {a}, a \in notices' => u.approved, UNCHANGED <<quotes, asked>>
  PROVE  EngineGrows
<1>1. /\ accounts \in [AccountIds -> BotUsers] /\ \A b \in AccountIds : SoundAccount(accounts[b])
      /\ notices \subseteq AccountIds /\ \A b \in notices : accounts[b].approved
  BY DEF BotInv, EngineSound
<1>2. \A b \in AccountIds : accounts'[b] = IF b = a THEN u ELSE accounts[b]
  BY <1>1
<1>3. accounts' \in [AccountIds -> BotUsers] /\ \A b \in AccountIds : SoundAccount(accounts'[b])
  BY <1>1, <1>2
<1>4. notices' \subseteq AccountIds /\ \A b \in notices' : accounts'[b].approved
  BY <1>1, <1>2
<1>5. Later
  BY <1>2 DEF Later
<1>6. EffectsConfirmed'
  BY <1>2 DEF BotInv, EngineSound, EffectsConfirmed
<1> QED
  BY <1>1, <1>3, <1>4, <1>5, <1>6 DEF BotInv, EngineSound, EngineGrows

LEMMA QuoteWritten ==
  ASSUME BotInv, NEW q \in QuoteIds, NEW row \in QuoteRows, quotes' = [quotes EXCEPT ![q] = row],
         row.trade # "none" => q \in asked.trade, UNCHANGED <<accounts, notices, asked>>
  PROVE  EngineGrows
<1>1. quotes \in [QuoteIds -> QuoteRows]
  BY DEF BotInv, EngineSound
<1>2. \A r \in QuoteIds : quotes'[r] = IF r = q THEN row ELSE quotes[r]
  BY <1>1
<1>3. quotes' \in [QuoteIds -> QuoteRows]
  BY <1>1
<1>4. EffectsConfirmed'
  BY <1>2 DEF BotInv, EngineSound, EffectsConfirmed
<1> QED
  BY <1>3, <1>4 DEF BotInv, EngineSound, EngineGrows, Later

LEMMA MoreAsked ==
  ASSUME BotInv, asked' \in Questions, asked.trade \subseteq asked'.trade,
         asked.delete \subseteq asked'.delete, UNCHANGED <<accounts, quotes, notices>>
  PROVE  EngineGrows
<1>1. EffectsConfirmed'
  BY DEF BotInv, EngineSound, EffectsConfirmed
<1> QED
  BY <1>1 DEF BotInv, EngineSound, EngineGrows, Later

LEMMA UserFound ==
  ASSUME BotInv, NEW a \in AccountIds, createUser(a), UNCHANGED <<quotes, notices, asked>>
  PROVE  /\ EngineGrows /\ accounts'[a].made
         /\ accounts'[a].kyc = accounts[a].kyc /\ accounts'[a].password = accounts[a].password
<1>1. accounts \in [AccountIds -> BotUsers] /\ accounts[a] \in BotUsers /\ SoundAccount(accounts[a])
  BY DEF BotInv, EngineSound
<1>2. CASE a \in Mine /\ accounts' = accounts
  BY <1>2, EngineStays DEF Mine
<1>3. CASE a \in Unused /\ accounts' = [accounts EXCEPT ![a].made = TRUE]
  <2> DEFINE u == [accounts[a] EXCEPT !.made = TRUE]
  <2>1. /\ u \in BotUsers /\ u.made /\ u.kyc = accounts[a].kyc /\ u.password = accounts[a].password
        /\ u.secured = accounts[a].secured /\ u.approved = accounts[a].approved
        /\ u.erased = accounts[a].erased
    BY <1>1 DEF BotUsers
  <2>2. accounts' = [accounts EXCEPT ![a] = u] /\ accounts'[a] = u
    BY <1>1, <1>3
  <2> HIDE DEF u
  <2>4. SoundAccount(u)
    BY <1>1, <2>1 DEF SoundAccount
  <2> QED
    BY <1>1, <2>1, <2>2, <2>4, AccountWritten DEF SoundAccount, BotInv, EngineSound
<1> QED
  BY <1>2, <1>3 DEF createUser
-----------------------------------------------------------------------------
\* The ways a turn ends.

LEMMA CopySound ==
  ASSUME BotInv, NEW h \in Handlers
  PROVE  /\ handler[h] \in Requests /\ Copy(h) \in Sessions /\ Truthful(Copy(h))
         /\ Copy(h).account = 0 => Copy(h).at = "none" /\ ~ Ready(Copy(h))
         /\ Copy(h).account # 0 => Copy(h).account \in AccountIds
<1>1. /\ handler[h] \in Requests /\ Copy(h) \in Sessions /\ Truthful(Copy(h))
  BY DEF BotInv, TalkSound, Requests, Copy, SoundRequest
<1>2. Copy(h).account \in AccountIds \cup {0}
  BY <1>1 DEF Sessions
<1> QED
  BY <1>1, <1>2 DEF Truthful, NewSession, Ready

LEMMA MovesAnswered ==
  ASSUME BotInv, NEW h \in Handlers, Later, NEW at \in Steps, MovesTo(h, at), Copy(h).account # 0,
         at \in Filling => Copy(h).at \in Filling,
         at \in {"SET_PASSWORD", "CONFIRM_PASSWORD"} =>
           Copy(h).at \in {"SET_PASSWORD", "CONFIRM_PASSWORD"},
         at \in {"CONFIRMATION", "TX_PASSWORD"} => Copy(h).quote # 0,
         at = "TX_PASSWORD" => Copy(h).quote \in asked'.trade,
         at = "DELETE_PASSWORD" => Copy(h).account \in asked'.delete
  PROVE  Answered(h)
<1>1. PICK c \in Sessions : c = Copy(h)
  BY CopySound
<1>2. PICK v \in Sessions : v = [c EXCEPT !.at = at]
  BY SessionWritten
<1>3. /\ v.at = at /\ v.account = c.account /\ v.onboarded = c.onboarded
      /\ v.password = c.password /\ v.quote = c.quote
  BY <1>2, SessionWritten
<1>4. Truthful(c)
  BY <1>1, CopySound
<1>5. Truthful(v)'
  BY <1>1, <1>3, <1>4, TruthMoved
<1>6. Saves(h, v)
  BY <1>1, <1>2, <1>3, CopySound DEF MovesTo
<1> QED
  BY <1>5, <1>6 DEF Answered

LEMMA ClearedAnswered ==
  ASSUME BotInv, NEW h \in Handlers, Later, Saves(h, Cleared(Copy(h))), Copy(h).account # 0
  PROVE  Answered(h)
<1>1. PICK c \in Sessions : c = Copy(h)
  BY CopySound
<1>2. PICK v \in Sessions : v = Cleared(c)
  BY SessionCleared
<1>3. v.at = "none" /\ v.account = c.account /\ v.onboarded = c.onboarded /\ v.password = c.password
  BY <1>2, SessionCleared
<1>4. Truthful(c)
  BY <1>1, CopySound
<1>5. Truthful(v)'
  BY <1>1, <1>3, <1>4, TruthMoved DEF Filling
<1>6. Saves(h, v)
  BY <1>1, <1>2, <1>3, CopySound
<1> QED
  BY <1>5, <1>6 DEF Answered

LEMMA SameAnswered ==
  ASSUME BotInv, NEW h \in Handlers, Later, Saves(h, Copy(h)) \/ SavesThen(h, Copy(h), "act")
  PROVE  Answered(h)
<1>1. PICK c \in Sessions : c = Copy(h)
  BY CopySound
<1>2. Truthful(c)
  BY <1>1, CopySound
<1>3. Truthful(c)'
  BY <1>2, TruthKept
<1> QED
  BY <1>1, <1>3, CopySound DEF Answered

LEMMA VerifiedTrue ==
  ASSUME EngineSound', NEW s \in Sessions, s.account \in AccountIds,
         accounts'[s.account].approved, NEW secured, secured => accounts'[s.account].secured,
         NEW v \in Sessions, v = AfterVerification(s, secured)
  PROVE  Truthful(v)' /\ v.account = s.account
<1>1. /\ v.account = s.account
      /\ \/ secured /\ v.at = "none" /\ v.onboarded /\ v.password
         \/ ~ secured /\ v.at = "SET_PASSWORD" /\ ~ v.onboarded
  BY SessionVerified
<1>2. SoundAccount(accounts'[s.account])
  BY DEF EngineSound
<1>3. accounts'[s.account].made
  BY <1>2 DEF SoundAccount
<1> QED
  BY <1>1, <1>3, AccountNames DEF Truthful, Ready, Filling

LEMMA VerifiedAnswered ==
  ASSUME NEW h \in Handlers, EngineSound', NEW s \in Sessions, s.account \in AccountIds,
         accounts'[s.account].approved,
         NEW secured, secured => accounts'[s.account].secured,
         Saves(h, AfterVerification(s, secured))
  PROVE  Answered(h)
<1>1. PICK v \in Sessions : v = AfterVerification(s, secured)
  BY SessionVerified
<1>2. Truthful(v)' /\ v.account = s.account
  BY <1>1, VerifiedTrue
<1> QED
  BY <1>1, <1>2 DEF Answered
-----------------------------------------------------------------------------
\* The steps of a handler, one after the other.

LEMMA LoadKeeps == ASSUME BotInv, NEW h \in Handlers, LoadSession(h) PROVE BotInv'
<1>1. /\ handler \in [Handlers -> Requests] /\ handler[h] \in Requests /\ handler[h].pc = "load"
      /\ session \in Sessions /\ Truthful(session)
  BY DEF BotInv, TalkSound, LoadSession
<1>2. UNCHANGED <<chat, claimed, session, accounts, quotes, notices, courier, handled, lapsed, asked>>
  BY DEF LoadSession, engineVars, noticeVars, historyVars
<1>3. faults' \in Nat
  BY DEF LoadSession, Fault, BotInv
<1>4. EngineGrows
  BY <1>2, EngineStays
<1>5. PICK c \in {session, NewSession} :
        handler' = [handler EXCEPT ![h].pc = "rehydrate", ![h].copy = c]
  BY DEF LoadSession
<1>6. c \in Sessions /\ Truthful(c)
  BY <1>1, NewSessionTyped
<1>7. Truthful(c)' /\ Truthful(session)'
  <2>1. PICK d \in Sessions : d = c
    BY <1>6
  <2>2. PICK e \in Sessions : e = session
    BY <1>1
  <2>3. Truthful(d)' /\ Truthful(e)'
    BY <1>1, <1>4, <1>6, <2>1, <2>2, TruthKept DEF EngineGrows
  <2> QED
    BY <1>2, <2>1, <2>2, <2>3 DEF Truthful
<1>8. PICK r \in Requests : r = [handler[h] EXCEPT !.pc = "rehydrate", !.copy = c]
  BY <1>1, <1>6 DEF Requests
<1>9. handler' = [handler EXCEPT ![h] = r] /\ r.pc = "rehydrate" /\ r.copy = c /\ r.then # "retry"
  BY <1>1, <1>5, <1>8 DEF Requests, BotInv, TalkSound, SoundRequest
<1>10. SoundRequest(r)'
  BY <1>6, <1>7, <1>9 DEF SoundRequest
<1>11. TurnMade(h)
  BY <1>1, <1>2, <1>3, <1>4, <1>7, <1>9, <1>10 DEF TurnMade, EngineGrows, BotInv
<1> QED
  BY <1>11, TurnKeeps

\* An account that was found again, or made, and what the session then says of it.
LEMMA RehydratedKeeps ==
  ASSUME BotInv, NEW h \in Handlers, handler[h].pc = "rehydrate", NEW v \in Sessions, Rehydrated(h, v),
         EngineGrows, Truthful(v)',
         UNCHANGED <<chat, claimed, notices, courier, handled, lapsed>>, faults' \in Nat
  PROVE  BotInv'
<1>1. /\ handler \in [Handlers -> Requests] /\ handler[h] \in Requests
      /\ session \in Sessions /\ Truthful(session)
  BY DEF BotInv, TalkSound
<1>2. session' \in Sessions /\ Truthful(session)'
  <2>1. CASE session' = v
    BY <2>1 DEF Truthful
  <2>2. CASE session' = session
    <3>1. PICK e \in Sessions : e = session
      BY <1>1
    <3>2. Truthful(e)'
      BY <1>1, <3>1, TruthKept DEF EngineGrows
    <3> QED
      BY <1>1, <2>2, <3>1, <3>2 DEF Truthful
  <2> QED
    BY <2>1, <2>2 DEF Rehydrated
<1>3. PICK r \in Requests : r = [handler[h] EXCEPT !.pc = "act", !.copy = v]
  BY <1>1 DEF Requests
<1>4. handler' = [handler EXCEPT ![h] = r] /\ r.pc = "act" /\ r.copy = v /\ r.then # "retry"
  BY <1>1, <1>3 DEF Requests, Rehydrated, BotInv, TalkSound, SoundRequest
<1>5. SoundRequest(r)'
  BY <1>4 DEF SoundRequest
<1>6. TurnMade(h)
  BY <1>2, <1>4, <1>5 DEF TurnMade, EngineGrows, BotInv
<1> QED
  BY <1>6, TurnKeeps

LEMMA RehydrateKeeps == ASSUME BotInv, NEW h \in Handlers, RehydrateSession(h) PROVE BotInv'
<1>1. handler[h].pc = "rehydrate" /\ UNCHANGED <<chat, claimed, quotes, notices, courier, handled, lapsed, asked>>
  BY DEF RehydrateSession, noticeVars, historyVars
<1>2. faults' \in Nat
  BY DEF RehydrateSession, Fault, BotInv
<1>3. PICK c \in Sessions : c = Copy(h)
  BY CopySound
<1>4. Truthful(c) /\ (c.account # 0 => c.account \in AccountIds)
  BY <1>3, CopySound
<1>5. CASE Goes(h, "act") /\ UNCHANGED <<session, accounts>>
  <2>1. EngineGrows
    BY <1>1, <1>5, EngineStays
  <2>2. Truthful(c)'
    BY <1>4, <2>1, TruthKept DEF EngineGrows
  <2>3. Rehydrated(h, c)
    <3>1. handler \in [Handlers -> Requests]
      BY DEF BotInv, TalkSound
    <3>2. handler' = [handler EXCEPT ![h].pc = "act", ![h].copy = c]
      BY <1>3, <1>5, <3>1 DEF Goes, Copy, Requests
    <3> QED
      BY <1>3, <1>5, <3>2 DEF Rehydrated
  <2> QED
    BY <1>1, <1>2, <1>4, <2>1, <2>2, <2>3, RehydratedKeeps
<1>6. ASSUME NEW a \in AccountIds,
             IF Copy(h).account = 0 THEN createUser(a) ELSE a = Copy(h).account /\ UNCHANGED accounts,
             Copy(h).at \notin Filling,
             \/ Rehydrated(h, Refreshed(Copy(h), a))
             \/ Copy(h).account = 0 /\ Rehydrated(h, Named(Copy(h), a))
      PROVE  BotInv'
  <2>1. /\ EngineGrows /\ accounts'[a].made
        /\ accounts'[a].kyc = accounts[a].kyc /\ accounts'[a].password = accounts[a].password
    <3>1. CASE c.account = 0
      BY <1>1, <1>3, <1>6, <3>1, UserFound
    <3>2. CASE c.account # 0
      <4>1. a = c.account /\ accounts' = accounts
        BY <1>3, <1>6, <3>2
      <4>2. EngineGrows
        BY <1>1, <4>1, EngineStays
      <4>3. accounts'[a].made
        BY <1>4, <3>2, <4>1 DEF Truthful
      <4> QED
        BY <1>4, <4>1, <4>2, <4>3
    <3> QED
      BY <3>1, <3>2
  <2>2. SoundAccount(accounts'[a]) /\ accounts'[a] \in BotUsers
    BY <2>1 DEF EngineGrows, EngineSound
  <2>3. c.account # 0 => c.account = a
    BY <1>3, <1>6
  <2>4. Truthful(c)'
    BY <1>4, <2>1, TruthKept DEF EngineGrows
  <2>5. CASE Rehydrated(h, Refreshed(c, a))
    <3>1. PICK v \in Sessions : v = Refreshed(c, a)
      <4>1. accounts[a] \in BotUsers
        BY DEF BotInv, EngineSound
      <4> QED
        BY <4>1 DEF Sessions, Refreshed, Named, BotUsers
    <3>2. /\ v.account = a /\ v.password = accounts[a].password /\ v.at = c.at /\ v.quote = c.quote
          /\ v.onboarded <=> accounts[a].kyc = "approved" /\ accounts[a].password
      BY <3>1 DEF Sessions, Refreshed, Named
    <3>3. Ready(v) => accounts'[a].approved /\ accounts'[a].secured
      BY <2>1, <2>2, <3>2 DEF Ready, SoundAccount
    <3>4. Truthful(v)'
      <4>1. CASE c.account = 0
        BY <1>3, <1>4, <1>6, <2>1, <3>2, <3>3, <4>1, AccountNames, NewSessionTyped DEF Truthful, Ready
      <4>2. CASE c.account # 0
        BY <1>3, <1>6, <2>1, <2>3, <2>4, <3>2, <3>3, <4>2, AccountNames DEF Truthful, Ready
      <4> QED
        BY <4>1, <4>2
    <3> QED
      BY <1>1, <1>2, <2>1, <2>5, <3>1, <3>2, <3>4, RehydratedKeeps
  <2>6. CASE c.account = 0 /\ Rehydrated(h, Named(c, a))
    <3>1. PICK v \in Sessions : v = Named(c, a)
      <4>1. accounts[a] \in BotUsers
        BY DEF BotInv, EngineSound
      <4> QED
        BY <4>1 DEF Sessions, Named, BotUsers
    <3>2. c = NewSession
      BY <1>4, <2>6 DEF Truthful
    <3>3. v.account = a /\ v.at = "none" /\ v.onboarded = FALSE
      BY <3>1, <3>2 DEF Named, NewSession
    <3>4. Truthful(v)'
      BY <2>1, <3>3, AccountNames DEF Truthful, Ready, Filling
    <3> QED
      BY <1>1, <1>2, <2>1, <2>6, <3>1, <3>3, <3>4, RehydratedKeeps
  <2> QED
    BY <1>3, <1>6, <2>5, <2>6
<1> QED
  BY <1>5, <1>6, FillingSteps DEF RehydrateSession

LEMMA SaveKeeps == ASSUME BotInv, NEW h \in Handlers, SaveSession(h) PROVE BotInv'
<1>1. handler \in [Handlers -> Requests] /\ handler[h] \in Requests /\ handler[h].pc = "save"
  BY DEF BotInv, TalkSound, SaveSession
<1>2. /\ session' = Copy(h)
      /\ UNCHANGED <<chat, claimed, accounts, quotes, notices, courier, handled, lapsed, asked, faults>>
  BY DEF SaveSession, engineVars, noticeVars, historyVars
<1>3. EngineGrows
  BY <1>2, EngineStays
<1>4. PICK c \in Sessions : c = Copy(h)
  BY CopySound
<1>5. Truthful(c)'
  BY <1>3, <1>4, CopySound, TruthKept DEF EngineGrows
<1>6. session' \in Sessions /\ Truthful(session)'
  BY <1>2, <1>4, <1>5 DEF Truthful
<1>7. ASSUME NEW next \in {"act", "retry"}, handler[h].then = next
      PROVE  BotInv'
  <2>1. PICK r \in Requests : r = [handler[h] EXCEPT !.pc = next, !.then = "idle"]
    BY <1>1 DEF Requests
  <2>2. handler' = [handler EXCEPT ![h] = r] /\ r.pc = next /\ r.copy = c /\ r.then = "idle"
    BY <1>1, <1>4, <1>7, <2>1 DEF Requests, SaveSession, Copy
  <2>3. SoundRequest(r)'
    <3>1. next = "retry" => c.account # 0 /\ c.at = "BVN"
      BY <1>4, <1>7 DEF BotInv, TalkSound, SoundRequest, Copy
    <3> QED
      BY <1>5, <2>2, <3>1 DEF SoundRequest
  <2>4. TurnMade(h)
    BY <1>1, <1>2, <1>3, <1>6, <2>2, <2>3 DEF TurnMade, EngineGrows, BotInv
  <2> QED
    BY <2>4, TurnKeeps
<1>8. CASE handler[h].then = "idle"
  <2>1. handler' = [handler EXCEPT ![h] = Free]
    BY <1>8 DEF SaveSession
  <2>2. SoundRequest(Free)' /\ Free \in Requests
    BY NewSessionTyped DEF SoundRequest
  <2>3. TurnMade(h)
    BY <1>1, <1>2, <1>3, <1>6, <2>1, <2>2 DEF TurnMade, EngineGrows, BotInv
  <2> QED
    BY <2>3, TurnKeeps
<1> QED
  BY <1>1, <1>7, <1>8 DEF Requests
-----------------------------------------------------------------------------
\* The handlers' answers to a message.

LEMMA NothingMoves ==
  ASSUME BotInv, UNCHANGED <<chat, claimed, session, engineVars, historyVars>>, faults' \in Nat
  PROVE  EngineMoves
<1>1. EngineGrows
  BY EngineStays DEF engineVars, noticeVars, historyVars
<1> QED
  BY <1>1 DEF EngineMoves, EngineGrows, engineVars, noticeVars, historyVars

\* A handler in the middle of a conversation knows its account.
LEMMA ActingSound ==
  ASSUME BotInv, NEW h \in Handlers, Copy(h).at # "none"
  PROVE  /\ Copy(h).account # 0 /\ Copy(h).account \in AccountIds /\ Me(h).made
         /\ Me(h) \in BotUsers /\ SoundAccount(Me(h)) /\ Me(h) = accounts[Copy(h).account]
<1>1. Copy(h).account # 0 /\ Copy(h).account \in AccountIds
  BY CopySound
<1>2. Me(h).made
  BY <1>1, CopySound DEF Truthful, Me
<1> QED
  BY <1>1, <1>2 DEF BotInv, EngineSound, Me

LEMMA ActingTurns == ASSUME NEW h \in Handlers, Acting(h) PROVE Turning(h)
  BY DEF Acting, Turning

LEMMA StaysAnswered ==
  ASSUME BotInv, NEW h \in Handlers, Later, MovesTo(h, Copy(h).at), Copy(h).account # 0
  PROVE  Answered(h)
<1>1. Copy(h).at \in Steps
  BY CopySound DEF Sessions
<1>2. /\ Copy(h).at \in {"CONFIRMATION", "TX_PASSWORD"} => Copy(h).quote # 0
      /\ Copy(h).at = "TX_PASSWORD" => Copy(h).quote \in asked'.trade
      /\ Copy(h).at = "DELETE_PASSWORD" => Copy(h).account \in asked'.delete
  BY CopySound DEF Truthful, Later
<1> QED
  BY <1>1, <1>2, MovesAnswered

LEMMA StartKeeps ==
  ASSUME BotInv, NEW h \in Handlers, Acting(h), StartOnboarding(h),
         UNCHANGED <<chat, claimed, session, quotes, noticeVars, historyVars, faults>>
  PROVE  BotInv'
<1>1. PICK a \in AccountIds :
        /\ createUser(a)
        /\ Saves(h, LET s == [NewSession EXCEPT !.account = a]
                    IN IF accounts[a].kyc = "approved" THEN AfterVerification(s, accounts[a].password)
                                                       ELSE [s EXCEPT !.at = "GREETING"])
  BY DEF StartOnboarding
<1>2. /\ EngineGrows /\ accounts'[a].made
      /\ accounts'[a].kyc = accounts[a].kyc /\ accounts'[a].password = accounts[a].password
  BY <1>1, UserFound DEF noticeVars, historyVars
<1>3. EngineMoves
  BY <1>2 DEF EngineMoves, EngineGrows, noticeVars, historyVars, BotInv
<1>4. PICK s \in Sessions : s = [NewSession EXCEPT !.account = a]
  BY NewSessionTyped DEF Sessions
<1>5. s.account = a /\ s.onboarded = FALSE /\ s.at = "none"
  BY <1>4 DEF NewSession
<1>6. SoundAccount(accounts'[a])
  BY <1>2 DEF EngineGrows, EngineSound
<1>7. Answered(h)
  <2>1. CASE accounts[a].kyc = "approved"
    <3>1. PICK secured : secured = accounts[a].password
      OBVIOUS
    <3>2. Saves(h, AfterVerification(s, secured))
      BY <1>1, <1>4, <2>1, <3>1
    <3>3. accounts'[a].approved /\ (secured => accounts'[a].secured)
      BY <1>2, <1>6, <2>1, <3>1 DEF SoundAccount
    <3> QED
      BY <1>2, <1>5, <3>2, <3>3, VerifiedAnswered DEF EngineGrows
  <2>2. CASE accounts[a].kyc # "approved"
    <3>1. PICK v \in Sessions : v = [s EXCEPT !.at = "GREETING"]
      BY AllSteps, SessionWritten
    <3>2. v.account = a /\ v.onboarded = FALSE /\ v.at = "GREETING"
      BY <1>5, <3>1 DEF Sessions
    <3>3. Truthful(v)'
      BY <1>2, <3>2, AccountNames DEF Truthful, Ready
    <3>4. Saves(h, v)
      BY <1>1, <1>2, <1>4, <2>2, <3>1, <3>2
    <3> QED
      BY <3>3, <3>4 DEF Answered
  <2> QED
    BY <2>1, <2>2
<1> QED
  BY <1>3, <1>7, ActingTurns, AnswersMade

LEMMA CommandKeeps == ASSUME BotInv, NEW h \in Handlers, RouteCommand(h) PROVE BotInv'
<1>1. Acting(h) /\ UNCHANGED <<chat, claimed, session, quotes, noticeVars, historyVars, faults>>
  BY DEF RouteCommand
<1>2. ASSUME UNCHANGED accounts
      PROVE  EngineMoves /\ Later
  BY <1>1, <1>2, NothingMoves DEF EngineMoves, engineVars, BotInv
<1>3. ASSUME UNCHANGED accounts, ClearOrReply(h)
      PROVE  BotInv'
  <2>1. CASE Copy(h).at = "none"
    BY <1>1, <1>2, <1>3, <2>1, ActingTurns, AnswersMade DEF ClearOrReply, Answered
  <2>2. CASE Copy(h).at # "none"
    BY <1>1, <1>2, <1>3, <2>2, CopySound, ClearedAnswered, ActingTurns, AnswersMade DEF ClearOrReply
  <2> QED
    BY <2>1, <2>2
<1>4. CASE Word(h) = "hi" /\ IF Ready(Copy(h)) THEN ClearOrReply(h) /\ UNCHANGED accounts
                                               ELSE StartOnboarding(h)
  BY <1>1, <1>3, <1>4, StartKeeps
<1>5. CASE /\ Word(h) = "cancel" /\ Copy(h).at # "none" /\ UNCHANGED accounts
           /\ IF Copy(h).onboarded THEN Saves(h, Cleared(Copy(h))) ELSE Deletes(h)
  <2>1. Copy(h).account # 0
    BY <1>5, CopySound
  <2>2. CASE Saves(h, Cleared(Copy(h)))
    BY <1>1, <1>2, <1>5, <2>1, <2>2, ClearedAnswered, ActingTurns, AnswersMade
  <2>3. CASE Deletes(h)
    BY <1>1, <1>2, <1>5, <2>1, <2>3, ActingTurns, AnswersMade DEF Answered
  <2> QED
    BY <1>5, <2>2, <2>3
<1>6. ASSUME Ready(Copy(h)), UNCHANGED accounts,
             \/ ClearOrReply(h) \/ Replies(h) \/ Saves(h, Copy(h))
             \/ MovesTo(h, IF Copy(h).at \in BankSteps THEN "none" ELSE Copy(h).at)
             \/ MovesTo(h, "BANK_CODE") \/ MovesTo(h, "CONFIRM_DELETE")
      PROVE  BotInv'
  <2>1. Copy(h).account # 0
    BY <1>6, CopySound
  <2>2. CASE Replies(h)
    BY <1>1, <1>2, <1>6, <2>2, ActingTurns, AnswersMade DEF Answered
  <2>3. CASE Saves(h, Copy(h))
    BY <1>1, <1>2, <1>6, <2>3, SameAnswered, ActingTurns, AnswersMade
  <2>4. CASE MovesTo(h, "none") \/ MovesTo(h, "BANK_CODE") \/ MovesTo(h, "CONFIRM_DELETE")
    <3>1. PICK at \in {"none", "BANK_CODE", "CONFIRM_DELETE"} : MovesTo(h, at)
      BY <2>4
    <3> QED
      BY <1>1, <1>2, <1>6, <2>1, <3>1, AllSteps, MovesAnswered, ActingTurns, AnswersMade DEF Filling
  <2>5. CASE MovesTo(h, Copy(h).at)
    BY <1>1, <1>2, <1>6, <2>1, <2>5, StaysAnswered, ActingTurns, AnswersMade
  <2> QED
    BY <1>3, <1>6, <2>2, <2>3, <2>4, <2>5
<1>7. CASE /\ Ready(Copy(h)) /\ UNCHANGED accounts
           /\ \/ Word(h) = "help" /\ ClearOrReply(h)
              \/ Word(h) = "banks" /\ (Replies(h) \/ Saves(h, Copy(h)))
              \/ Word(h) = "use bank" /\ Me(h).bank
                   /\ MovesTo(h, IF Copy(h).at \in BankSteps THEN "none" ELSE Copy(h).at)
              \/ Word(h) = "add bank" /\ MovesTo(h, "BANK_CODE")
              \/ Word(h) = "delete account" /\ (MovesTo(h, "CONFIRM_DELETE") \/ Replies(h))
  BY <1>6, <1>7
<1> QED
  BY <1>4, <1>5, <1>7 DEF RouteCommand

LEMMA UnknownKeeps == ASSUME BotInv, NEW h \in Handlers, NotUnderstood(h) PROVE BotInv'
<1>1. EngineMoves
  BY NothingMoves DEF NotUnderstood, BotInv
<1> QED
  BY <1>1, ActingTurns, AnswersMade DEF NotUnderstood, Answered

LEMMA FormKeeps == ASSUME BotInv, NEW h \in Handlers, FillForm(h) PROVE BotInv'
<1>1. EngineMoves /\ Later
  BY NothingMoves DEF FillForm, BotInv, EngineMoves
<1> DEFINE Moved ==
      /\ Acting(h) /\ Copy(h).at # "none"
      /\ \E at \in {"CONSENT", "PHONE", "NAME", "DOB", "NIN", "BVN", "SUBMITTED",
                    "CONFIRM_PASSWORD", "SET_PASSWORD"} :
           /\ MovesTo(h, at)
           /\ at \in Filling => Copy(h).at \in Filling
           /\ at \in {"SET_PASSWORD", "CONFIRM_PASSWORD"} =>
                Copy(h).at \in {"SET_PASSWORD", "CONFIRM_PASSWORD"}
<1>2. Moved
  <2>1. ASSUME NEW i \in 1..(Len(Form) - 1), InStep(h, Form[i]), MovesTo(h, Form[i + 1])
        PROVE  Moved
    <3>1. i \in 1..6 /\ i + 1 \in 1..6
      BY FormSteps
    <3>2. Form[i] \in Filling /\ Form[i] # "none" /\ Form[i + 1] \in {"CONSENT", "PHONE", "NAME", "DOB", "NIN", "BVN"}
      BY <3>1, FormSteps DEF Filling
    <3> QED
      BY <2>1, <3>2 DEF InStep
  <2>2. CASE InStep(h, "GREETING") /\ MovesTo(h, "CONSENT")
    BY <2>2 DEF InStep, Filling
  <2>3. CASE InStep(h, "SELFIE") /\ MovesTo(h, "SUBMITTED")
    BY <2>3 DEF InStep, Filling
  <2>4. CASE InStep(h, "SET_PASSWORD") /\ MovesTo(h, "CONFIRM_PASSWORD")
    BY <2>4 DEF InStep, Filling
  <2>5. CASE (InStep(h, "SET_PASSWORD") \/ InStep(h, "CONFIRM_PASSWORD")) /\ MovesTo(h, "SET_PASSWORD")
    BY <2>5 DEF InStep, Filling
  <2> HIDE DEF Moved
  <2> QED
    BY <2>1, <2>2, <2>3, <2>4, <2>5 DEF FillForm, Prompted
<1>3. PICK at \in {"CONSENT", "PHONE", "NAME", "DOB", "NIN", "BVN", "SUBMITTED",
                  "CONFIRM_PASSWORD", "SET_PASSWORD"} :
        /\ MovesTo(h, at)
        /\ at \in Filling => Copy(h).at \in Filling
        /\ at \in {"SET_PASSWORD", "CONFIRM_PASSWORD"} =>
             Copy(h).at \in {"SET_PASSWORD", "CONFIRM_PASSWORD"}
  BY <1>2
<1>4. Answered(h)
  BY <1>1, <1>2, <1>3, AllSteps, CopySound, MovesAnswered
<1> QED
  BY <1>1, <1>2, <1>4, ActingTurns, AnswersMade

\* A turn in which the engine writes the account of the conversation.
LEMMA AccountMoves ==
  ASSUME BotInv, NEW h \in Handlers, Copy(h).at # "none", NEW u \in BotUsers,
         accounts' = [accounts EXCEPT ![Copy(h).account] = u], SoundAccount(u), u.made,
         Me(h).approved => u.approved, Me(h).secured => u.secured,
         u.erased => Me(h).erased \/ Copy(h).account \in asked.delete,
         UNCHANGED <<chat, claimed, session, quotes, noticeVars, historyVars, faults>>
  PROVE  EngineMoves /\ accounts'[Copy(h).account] = u
<1>1. Copy(h).account \in AccountIds /\ Me(h) = accounts[Copy(h).account]
  BY ActingSound
<1>2. EngineGrows
  BY <1>1, AccountWritten DEF noticeVars, historyVars, BotInv, EngineSound
<1>3. accounts \in [AccountIds -> BotUsers]
  BY DEF BotInv, EngineSound
<1> QED
  BY <1>1, <1>2, <1>3 DEF EngineMoves, EngineGrows, noticeVars, historyVars, BotInv

LEMMA PollKeeps == ASSUME BotInv, NEW h \in Handlers, PollKYC(h) PROVE BotInv'
<1>1. /\ Acting(h) /\ Copy(h).at = "SUBMITTED"
      /\ UNCHANGED <<chat, claimed, session, engineVars, historyVars, faults>>
  BY DEF PollKYC, InStep
<1>2. EngineMoves /\ Later /\ EngineSound'
  BY <1>1, NothingMoves DEF BotInv, EngineMoves
<1>3. PICK c \in Sessions : c = Copy(h)
  BY CopySound
<1>4. /\ c.account # 0 /\ c.account \in AccountIds /\ SoundAccount(Me(h)) /\ Me(h) = accounts[c.account]
     
  BY <1>1, <1>3, ActingSound, CopySound
<1>5. CASE Me(h).kyc = "approved" /\ Saves(h, AfterVerification(Copy(h), Me(h).password))
  <2>1. PICK secured : secured = Me(h).password
    OBVIOUS
  <2>2. accounts'[c.account].approved /\ (secured => accounts'[c.account].secured)
    BY <1>1, <1>4, <1>5, <2>1 DEF engineVars, SoundAccount
  <2>3. Saves(h, AfterVerification(c, secured))
    BY <1>3, <1>5, <2>1
  <2> QED
    BY <1>1, <1>2, <1>4, <2>2, <2>3, VerifiedAnswered, ActingTurns, AnswersMade
<1>6. CASE Deletes(h)
  BY <1>1, <1>2, <1>3, <1>4, <1>6, ActingTurns, AnswersMade DEF Answered
<1>7. CASE Replies(h)
  BY <1>1, <1>2, <1>7, ActingTurns, AnswersMade DEF Answered
<1>8. CASE Saves(h, Copy(h))
  BY <1>1, <1>2, <1>8, SameAnswered, ActingTurns, AnswersMade
<1> QED
  BY <1>5, <1>6, <1>7, <1>8 DEF PollKYC

LEMMA AnsweredKeeps ==
  ASSUME BotInv, NEW h \in Handlers, Turning(h), Copy(h).at = "BVN", KYCAnswered(h),
         UNCHANGED <<chat, claimed, session, quotes, noticeVars, historyVars, faults>>
  PROVE  BotInv'
<1>1. /\ Turning(h) /\ Copy(h).at = "BVN"
      /\ UNCHANGED <<chat, claimed, session, quotes, noticeVars, historyVars, faults>>
  OBVIOUS
<1>2. PICK c \in Sessions : c = Copy(h)
  BY CopySound
<1>3. /\ c.account # 0 /\ c.account \in AccountIds /\ SoundAccount(Me(h)) /\ Me(h) = accounts[c.account]
      /\ Me(h) \in BotUsers /\ Me(h).made
  BY <1>1, <1>2, ActingSound, CopySound
<1>4. ASSUME Me(h).kyc \in {"none", "rejected"}, NEW verdict \in {"pending", "approved", "rejected"},
             accounts' = [accounts EXCEPT ![Copy(h).account].kyc = verdict,
                                          ![Copy(h).account].approved = @ \/ verdict = "approved"],
             CASE verdict = "approved" -> Saves(h, AfterVerification(Copy(h), FALSE))
               [] verdict = "rejected" -> Deletes(h)
               [] OTHER -> MovesTo(h, "SUBMITTED") \/ MovesTo(h, "SELFIE")
      PROVE  BotInv'
  <2>1. ~ Me(h).approved /\ ~ Me(h).secured /\ ~ Me(h).erased /\ ~ Me(h).password
    BY <1>3, <1>4 DEF SoundAccount
  <2>2. PICK u \in BotUsers : u = [Me(h) EXCEPT !.kyc = verdict, !.approved = verdict = "approved"]
    BY <1>3 DEF BotUsers
  <2>3. /\ u.kyc = verdict /\ u.approved = (verdict = "approved") /\ u.made = Me(h).made
        /\ u.secured = Me(h).secured /\ u.password = Me(h).password /\ u.erased = Me(h).erased
    BY <1>3, <2>2 DEF BotUsers
  <2>4. accounts' = [accounts EXCEPT ![Copy(h).account] = u]
    <3>1. accounts \in [AccountIds -> BotUsers]
      BY DEF BotInv, EngineSound
    <3>2. u = [Me(h) EXCEPT !.kyc = verdict, !.approved = Me(h).approved \/ verdict = "approved"]
      BY <2>1, <2>2, <1>3 DEF BotUsers
    <3> QED
      BY <1>2, <1>3, <1>4, <3>1, <3>2 DEF BotUsers
  <2>5. SoundAccount(u)
    BY <1>3, <2>1, <2>3 DEF SoundAccount
  <2>6. EngineMoves /\ accounts'[c.account] = u
    BY <1>1, <1>2, <1>3, <2>1, <2>3, <2>4, <2>5, AccountMoves
  <2>7. Later /\ EngineSound'
    BY <2>6 DEF EngineMoves
  <2>8. CASE verdict = "approved"
    <3>1. Saves(h, AfterVerification(c, FALSE))
      BY <1>2, <1>4, <2>8
    <3> QED
      BY <1>1, <1>3, <2>3, <2>6, <2>7, <2>8, <3>1, VerifiedAnswered, AnswersMade
  <2>9. CASE verdict = "rejected"
    BY <1>1, <1>2, <1>3, <1>4, <2>6, <2>9, AnswersMade DEF Answered
  <2>10. CASE MovesTo(h, "SUBMITTED") \/ MovesTo(h, "SELFIE")
    <3>1. PICK at \in {"SUBMITTED", "SELFIE"} : MovesTo(h, at)
      BY <2>10
    <3> QED
      BY <1>1, <1>2, <1>3, <2>6, <2>7, <3>1, AllSteps, MovesAnswered, AnswersMade DEF Filling
  <2> QED
    BY <1>4, <2>8, <2>9, <2>10
<1>5. CASE UNCHANGED accounts /\ (MovesTo(h, "SUBMITTED") \/ MovesTo(h, "SELFIE"))
  <2>1. EngineMoves /\ Later
    BY <1>1, <1>5, NothingMoves DEF BotInv, EngineMoves, engineVars
  <2>2. PICK at \in {"SUBMITTED", "SELFIE"} : MovesTo(h, at)
    BY <1>5
  <2> QED
    BY <1>1, <1>2, <1>3, <2>1, <2>2, AllSteps, MovesAnswered, AnswersMade DEF Filling
<1> QED
  BY <1>4, <1>5 DEF KYCAnswered

LEMMA SubmitKeeps == ASSUME BotInv, NEW h \in Handlers, submitKYC(h) PROVE BotInv'
<1>1. /\ Acting(h) /\ Turning(h) /\ Copy(h).at = "BVN"
      /\ UNCHANGED <<chat, claimed, session, quotes, noticeVars, historyVars>>
  BY ActingTurns DEF submitKYC, InStep
<1>2. PICK c \in Sessions : c = Copy(h)
  BY CopySound
<1>3. /\ c.account # 0 /\ c.account \in AccountIds /\ SoundAccount(Me(h)) /\ Me(h) = accounts[c.account]
      /\ Truthful(c)
  BY <1>1, <1>2, ActingSound, CopySound
<1>4. CASE KYCAnswered(h) /\ UNCHANGED faults
  BY <1>1, <1>4, AnsweredKeeps
<1>5. CASE Me(h).kyc = "approved" /\ UNCHANGED <<accounts, faults>>
           /\ Saves(h, AfterVerification(Copy(h), Me(h).password))
  <2>1. EngineMoves /\ Later /\ EngineSound'
    BY <1>1, <1>5, NothingMoves DEF BotInv, EngineMoves, engineVars
  <2>2. PICK secured : secured = Me(h).password
    OBVIOUS
  <2>3. accounts'[c.account].approved /\ (secured => accounts'[c.account].secured)
    BY <1>3, <1>5, <2>2 DEF SoundAccount
  <2>4. Saves(h, AfterVerification(c, secured))
    BY <1>2, <1>5, <2>2
  <2> QED
    BY <1>1, <1>3, <2>1, <2>3, <2>4, VerifiedAnswered, AnswersMade
<1>6. ASSUME Fault, NEW a \in AccountIds, createUser(a),
             SavesThen(h, [Copy(h) EXCEPT !.account = a], "retry")
      PROVE  BotInv'
  <2>1. EngineGrows /\ accounts'[a].made
    BY <1>1, <1>6, UserFound DEF noticeVars, historyVars
  <2>2. EngineMoves
    BY <1>1, <1>6, <2>1 DEF EngineMoves, EngineGrows, noticeVars, historyVars, Fault, BotInv
  <2>3. PICK v \in Sessions : v = [c EXCEPT !.account = a]
    BY DEF Sessions
  <2>4. v.account = a /\ v.at = "BVN" /\ v.onboarded = c.onboarded
    BY <1>1, <1>2, <2>3 DEF Sessions
  <2>5. ~ v.onboarded
    BY <1>1, <1>2, <1>3, <2>4 DEF Truthful, Filling
  <2>6. Truthful(v)'
    BY <2>1, <2>4, <2>5, AccountNames DEF Truthful, Ready
  <2>7. Answered(h)
    BY <1>2, <1>6, <2>3, <2>4, <2>6, AccountNames DEF Answered
  <2> QED
    BY <1>1, <2>2, <2>7, AnswersMade
<1> QED
  BY <1>1, <1>4, <1>5, <1>6 DEF submitKYC

LEMMA ResubmitKeeps == ASSUME BotInv, NEW h \in Handlers, resubmitKYC(h) PROVE BotInv'
<1>1. /\ handler[h].pc = "retry" /\ Turning(h)
      /\ UNCHANGED <<chat, claimed, session, quotes, noticeVars, historyVars, faults>>
  BY DEF resubmitKYC, Turning
<1>2. Copy(h).at = "BVN"
  BY <1>1 DEF BotInv, TalkSound, SoundRequest, Copy
<1>3. CASE Replies(h) /\ UNCHANGED accounts
  <2>1. EngineMoves
    BY <1>1, <1>3, NothingMoves DEF BotInv, engineVars
  <2> QED
    BY <1>1, <1>3, <2>1, AnswersMade DEF Answered
<1> QED
  BY <1>1, <1>2, <1>3, AnsweredKeeps DEF resubmitKYC

LEMMA SetupKeeps == ASSUME BotInv, NEW h \in Handlers, SetupPassword(h) PROVE BotInv'
<1>1. /\ Acting(h) /\ Copy(h).at = "CONFIRM_PASSWORD"
      /\ UNCHANGED <<chat, claimed, session, quotes, noticeVars, historyVars, faults>>
  BY DEF SetupPassword, InStep
<1>2. PICK c \in Sessions : c = Copy(h)
  BY CopySound
<1>3. /\ c.account # 0 /\ c.account \in AccountIds /\ SoundAccount(Me(h)) /\ Me(h) = accounts[c.account]
      /\ Me(h) \in BotUsers /\ Me(h).made
  BY <1>1, <1>2, ActingSound, CopySound
<1>4. Me(h).approved
  BY <1>1, <1>2, <1>3, CopySound DEF Truthful
<1>5. CASE Replies(h) /\ UNCHANGED accounts
  <2>1. EngineMoves
    BY <1>1, <1>5, NothingMoves DEF BotInv, engineVars
  <2> QED
    BY <1>1, <1>5, <2>1, ActingTurns, AnswersMade DEF Answered
<1>6. CASE /\ ~ Me(h).erased
           /\ accounts' = [accounts EXCEPT ![Copy(h).account].password = TRUE,
                                           ![Copy(h).account].secured = TRUE]
           /\ Saves(h, AfterVerification(Copy(h), TRUE))
  <2>1. PICK u \in BotUsers : u = [Me(h) EXCEPT !.password = TRUE, !.secured = TRUE]
    BY <1>3 DEF BotUsers
  <2>2. /\ u.kyc = Me(h).kyc /\ u.approved = Me(h).approved /\ u.made = Me(h).made
        /\ u.secured /\ u.password /\ u.erased = Me(h).erased
    BY <1>3, <2>1 DEF BotUsers
  <2>3. accounts' = [accounts EXCEPT ![Copy(h).account] = u]
    <3>1. accounts \in [AccountIds -> BotUsers]
      BY DEF BotInv, EngineSound
    <3> QED
      BY <1>2, <1>3, <1>6, <2>1, <3>1 DEF BotUsers
  <2>4. SoundAccount(u)
    BY <1>3, <1>4, <2>2 DEF SoundAccount
  <2>5. EngineMoves /\ accounts'[c.account] = u
    BY <1>1, <1>2, <1>3, <2>2, <2>3, <2>4, AccountMoves
  <2>6. EngineSound'
    BY <2>5 DEF EngineMoves
  <2>7. Saves(h, AfterVerification(c, TRUE))
    BY <1>2, <1>6
  <2> QED
    BY <1>1, <1>3, <1>4, <2>2, <2>5, <2>6, <2>7, VerifiedAnswered, ActingTurns, AnswersMade
<1> QED
  BY <1>5, <1>6 DEF SetupPassword

LEMMA BankKeeps == ASSUME BotInv, NEW h \in Handlers, AddBank(h) PROVE BotInv'
<1>1. /\ Acting(h) /\ Copy(h).at # "none" /\ Copy(h).account # 0
      /\ UNCHANGED <<chat, claimed, session, quotes, noticeVars, historyVars, faults>>
  <2>1. Acting(h) /\ Copy(h).at # "none"
    BY DEF AddBank, InStep
  <2> QED
    BY <2>1, ActingSound DEF AddBank
<1>2. EngineMoves /\ Later
  <2>1. CASE UNCHANGED accounts
    BY <1>1, <2>1, NothingMoves DEF BotInv, EngineMoves, engineVars
  <2>2. CASE accounts' = [accounts EXCEPT ![Copy(h).account].bank = TRUE]
    <3>1. /\ Copy(h).account \in AccountIds /\ Me(h).made
          /\ Me(h) \in BotUsers /\ SoundAccount(Me(h)) /\ Me(h) = accounts[Copy(h).account]
      BY <1>1, ActingSound
    <3>2. PICK u \in BotUsers : u = [Me(h) EXCEPT !.bank = TRUE]
      BY <3>1 DEF BotUsers
    <3>3. /\ u.kyc = Me(h).kyc /\ u.approved = Me(h).approved /\ u.made = Me(h).made
          /\ u.secured = Me(h).secured /\ u.password = Me(h).password /\ u.erased = Me(h).erased
      BY <3>1, <3>2 DEF BotUsers
    <3>4. accounts' = [accounts EXCEPT ![Copy(h).account] = u]
      <4>1. accounts \in [AccountIds -> BotUsers]
        BY DEF BotInv, EngineSound
      <4> QED
        BY <2>2, <3>1, <3>2, <4>1 DEF BotUsers
    <3>5. SoundAccount(u)
      BY <3>1, <3>3 DEF SoundAccount
    <3> QED
      BY <1>1, <3>1, <3>3, <3>4, <3>5, AccountMoves DEF EngineMoves
  <2> QED
    BY <2>1, <2>2 DEF AddBank
<1>3. CASE Saves(h, Copy(h))
  BY <1>1, <1>2, <1>3, SameAnswered, ActingTurns, AnswersMade
<1>4. CASE \E at \in {"ACCOUNT_NUMBER", "CONFIRM_BANK", "none"} : MovesTo(h, at)
  <2>1. PICK at \in {"ACCOUNT_NUMBER", "CONFIRM_BANK", "none"} : MovesTo(h, at)
    BY <1>4
  <2> QED
    BY <1>1, <1>2, <2>1, AllSteps, MovesAnswered, ActingTurns, AnswersMade DEF Filling
<1> QED
  BY <1>3, <1>4 DEF AddBank

LEMMA SellKeeps == ASSUME BotInv, NEW h \in Handlers, Sell(h) PROVE BotInv'
<1>1. /\ Acting(h) /\ Ready(Copy(h)) /\ Copy(h).at = "none"
      /\ UNCHANGED <<chat, claimed, session, accounts, noticeVars, historyVars, faults>>
  BY DEF Sell, InStep
<1>2. PICK c \in Sessions : c = Copy(h)
  BY CopySound
<1>3. /\ c.account # 0 /\ c.account \in AccountIds /\ Truthful(c)
  BY <1>1, <1>2, CopySound
<1>4. ASSUME UNCHANGED quotes
      PROVE  EngineMoves /\ Later
  BY <1>1, <1>4, NothingMoves DEF BotInv, EngineMoves, engineVars
<1>5. CASE Replies(h) /\ UNCHANGED quotes
  BY <1>1, <1>4, <1>5, ActingTurns, AnswersMade DEF Answered
<1>6. CASE SavesThen(h, Copy(h), "act") /\ UNCHANGED quotes
  BY <1>1, <1>4, <1>6, SameAnswered, ActingTurns, AnswersMade
<1>7. ASSUME NEW q \in QuoteIds,
             quotes' = [quotes EXCEPT ![q] = [account |-> Copy(h).account, trade |-> "none"]],
             Saves(h, [Copy(h) EXCEPT !.at = "CONFIRMATION", !.quote = q, !.trade = 0])
      PROVE  BotInv'
  <2>1. PICK row \in QuoteRows : row = [account |-> Copy(h).account, trade |-> "none"]
    BY <1>2, <1>3 DEF QuoteRows
  <2>2. EngineGrows
    BY <1>1, <1>7, <2>1, QuoteWritten DEF noticeVars, historyVars
  <2>3. EngineMoves /\ Later
    BY <1>1, <2>2 DEF EngineMoves, EngineGrows, noticeVars, historyVars, BotInv
  <2>4. PICK v \in Sessions : v = [c EXCEPT !.at = "CONFIRMATION", !.quote = q, !.trade = 0]
    BY AllSteps DEF Sessions
  <2>5. /\ v.at = "CONFIRMATION" /\ v.quote = q /\ v.account = c.account
        /\ v.onboarded = c.onboarded /\ v.password = c.password
    BY <2>4 DEF Sessions
  <2>6. Truthful(v)'
    BY <1>3, <2>3, <2>5, AccountNames, TruthMoved DEF Filling
  <2>7. Answered(h)
    BY <1>2, <1>3, <1>7, <2>4, <2>5, <2>6 DEF Answered
  <2> QED
    BY <1>1, <2>3, <2>7, ActingTurns, AnswersMade
<1> QED
  BY <1>5, <1>6, <1>7 DEF Sell

LEMMA ConfirmKeeps == ASSUME BotInv, NEW h \in Handlers, Confirm(h) PROVE BotInv'
<1>1. /\ Acting(h) /\ Copy(h).at = "CONFIRMATION" /\ MovesTo(h, "TX_PASSWORD")
      /\ asked' = [asked EXCEPT !.trade = @ \cup {Copy(h).quote}]
      /\ UNCHANGED <<chat, claimed, session, accounts, quotes, notices, courier, handled, lapsed, faults>>
  BY DEF Confirm, InStep, engineVars, noticeVars
<1>2. Copy(h).quote \in QuoteIds /\ Copy(h).quote # 0 /\ Copy(h).account # 0
  BY <1>1, CopySound DEF Truthful, Sessions
<1>3. /\ asked' \in Questions /\ asked.trade \subseteq asked'.trade
      /\ asked'.delete = asked.delete /\ Copy(h).quote \in asked'.trade
  <2>1. asked \in Questions
    BY DEF BotInv, EngineSound
  <2>2. asked' = [trade |-> asked.trade \cup {Copy(h).quote}, delete |-> asked.delete]
    BY <1>1, <2>1 DEF Questions
  <2> QED
    BY <1>2, <2>1, <2>2 DEF Questions
<1>4. EngineGrows
  BY <1>1, <1>3, MoreAsked
<1>5. EngineMoves /\ Later
  BY <1>1, <1>4 DEF EngineMoves, EngineGrows, BotInv
<1>6. Answered(h)
  BY <1>1, <1>2, <1>3, <1>5, AllSteps, MovesAnswered DEF Filling
<1> QED
  BY <1>1, <1>5, <1>6, ActingTurns, AnswersMade

LEMMA ConfirmDeleteKeeps == ASSUME BotInv, NEW h \in Handlers, ConfirmDelete(h) PROVE BotInv'
<1>1. /\ Acting(h) /\ Copy(h).at = "CONFIRM_DELETE" /\ MovesTo(h, "DELETE_PASSWORD")
      /\ asked' = [asked EXCEPT !.delete = @ \cup {Copy(h).account}]
      /\ UNCHANGED <<chat, claimed, session, accounts, quotes, notices, courier, handled, lapsed, faults>>
  BY DEF ConfirmDelete, InStep, engineVars, noticeVars
<1>2. Copy(h).account \in AccountIds /\ Copy(h).account # 0
  BY <1>1, CopySound
<1>3. /\ asked' \in Questions /\ asked.delete \subseteq asked'.delete
      /\ asked'.trade = asked.trade /\ Copy(h).account \in asked'.delete
  <2>1. asked \in Questions
    BY DEF BotInv, EngineSound
  <2>2. asked' = [trade |-> asked.trade, delete |-> asked.delete \cup {Copy(h).account}]
    BY <1>1, <2>1 DEF Questions
  <2> QED
    BY <1>2, <2>1, <2>2 DEF Questions
<1>4. EngineGrows
  BY <1>1, <1>3, MoreAsked
<1>5. EngineMoves /\ Later
  BY <1>1, <1>4 DEF EngineMoves, EngineGrows, BotInv
<1>6. Answered(h)
  BY <1>1, <1>2, <1>3, <1>5, AllSteps, MovesAnswered DEF Filling
<1> QED
  BY <1>1, <1>5, <1>6, ActingTurns, AnswersMade

LEMMA PasswordKeeps == ASSUME BotInv, NEW h \in Handlers, TradePassword(h) PROVE BotInv'
<1>1. /\ Acting(h) /\ Copy(h).at = "TX_PASSWORD"
      /\ UNCHANGED <<chat, claimed, session, accounts, noticeVars, historyVars>>
  BY DEF TradePassword, InStep
<1>2. faults' \in Nat
  BY DEF TradePassword, Fault, BotInv
<1>3. PICK c \in Sessions : c = Copy(h)
  BY CopySound
<1>4. /\ c.account # 0 /\ Truthful(c)
      /\ c.quote \in QuoteIds /\ c.quote # 0 /\ c.quote \in asked.trade
  BY <1>1, <1>3, CopySound DEF Truthful, Sessions
<1>5. ASSUME UNCHANGED quotes
      PROVE  EngineMoves /\ Later
  BY <1>1, <1>2, <1>5, NothingMoves DEF EngineMoves, engineVars
<1>6. ASSUME quotes' = [quotes EXCEPT ![Copy(h).quote].trade = "open"]
      PROVE  EngineMoves /\ Later
  <2>1. quotes \in [QuoteIds -> QuoteRows]
    BY DEF BotInv, EngineSound
  <2>2. PICK row \in QuoteRows : row = [quotes[c.quote] EXCEPT !.trade = "open"]
    BY <1>4, <2>1 DEF QuoteRows
  <2>3. quotes' = [quotes EXCEPT ![c.quote] = row]
    BY <1>3, <1>4, <1>6, <2>1, <2>2
  <2>4. EngineGrows
    BY <1>1, <1>4, <2>3, QuoteWritten DEF noticeVars, historyVars
  <2> QED
    BY <1>1, <1>2, <2>4 DEF EngineMoves, EngineGrows, noticeVars, historyVars
<1>7. CASE MovesTo(h, "CONFIRMATION") /\ UNCHANGED quotes
  <2>1. Answered(h)
    BY <1>3, <1>4, <1>5, <1>7, AllSteps, MovesAnswered DEF Filling
  <2> QED
    BY <1>1, <1>5, <1>7, <2>1, ActingTurns, AnswersMade
<1>8. CASE MovesTo(h, "none") /\ UNCHANGED quotes
  <2>1. Answered(h)
    BY <1>3, <1>4, <1>5, <1>8, AllSteps, MovesAnswered DEF Filling
  <2> QED
    BY <1>1, <1>5, <1>8, <2>1, ActingTurns, AnswersMade
<1>9. CASE Saves(h, Cleared(Copy(h))) /\ UNCHANGED quotes
  BY <1>1, <1>3, <1>4, <1>5, <1>9, ClearedAnswered, ActingTurns, AnswersMade
<1>10. CASE Saves(h, Cleared(Copy(h))) /\ quotes' = [quotes EXCEPT ![Copy(h).quote].trade = "open"]
  BY <1>1, <1>3, <1>4, <1>6, <1>10, ClearedAnswered, ActingTurns, AnswersMade
<1>11. CASE /\ Saves(h, [Copy(h) EXCEPT !.at = "DEPOSIT", !.trade = Copy(h).quote])
            /\ quotes' = [quotes EXCEPT ![Copy(h).quote].trade = "open"]
  <2>1. PICK v \in Sessions : v = [c EXCEPT !.at = "DEPOSIT", !.trade = c.quote]
    BY <1>4, AllSteps DEF Sessions
  <2>2. /\ v.at = "DEPOSIT" /\ v.quote = c.quote /\ v.account = c.account
        /\ v.onboarded = c.onboarded /\ v.password = c.password
    BY <2>1 DEF Sessions
  <2>3. EngineMoves /\ Later
    BY <1>6, <1>11
  <2>4. Truthful(v)'
    BY <1>4, <2>2, <2>3, TruthMoved DEF Filling
  <2>5. Answered(h)
    BY <1>3, <1>4, <1>11, <2>1, <2>2, <2>4 DEF Answered
  <2> QED
    BY <1>1, <2>3, <2>5, ActingTurns, AnswersMade
<1> QED
  BY <1>7, <1>8, <1>9, <1>10, <1>11 DEF TradePassword

LEMMA StatusKeeps == ASSUME BotInv, NEW h \in Handlers, Status(h) PROVE BotInv'
<1>1. /\ Acting(h) /\ UNCHANGED <<chat, claimed, session, engineVars, historyVars, faults>>
  BY DEF Status
<1>2. Copy(h).at # "none" \/ Ready(Copy(h))
  BY DEF Status, TradeSteps
<1>3. PICK c \in Sessions : c = Copy(h)
  BY CopySound
<1>4. c.account # 0 /\ Truthful(c)
  BY <1>2, <1>3, CopySound
<1>5. EngineMoves /\ Later
  BY <1>1, NothingMoves DEF BotInv, EngineMoves
<1>6. CASE Saves(h, Cleared(Copy(h)))
  BY <1>1, <1>3, <1>4, <1>5, <1>6, ClearedAnswered, ActingTurns, AnswersMade
<1>7. CASE Replies(h)
  BY <1>1, <1>5, <1>7, ActingTurns, AnswersMade DEF Answered
<1>8. ASSUME NEW t \in QuoteIds, SavesThen(h, [Copy(h) EXCEPT !.trade = t], "act")
      PROVE  BotInv'
  <2>1. PICK v \in Sessions : v = [c EXCEPT !.trade = t]
    BY DEF Sessions
  <2>2. /\ v.at = c.at /\ v.quote = c.quote /\ v.account = c.account
        /\ v.onboarded = c.onboarded /\ v.password = c.password
    BY <2>1 DEF Sessions
  <2>3. Truthful(c)'
    BY <1>4, <1>5, TruthKept
  <2>4. Truthful(v)'
    BY <1>4, <2>2, <2>3 DEF Truthful, Ready
  <2>5. Answered(h)
    BY <1>3, <1>4, <1>8, <2>1, <2>2, <2>4 DEF Answered
  <2> QED
    BY <1>1, <1>5, <2>5, ActingTurns, AnswersMade
<1>9. \A t \in Trades(Copy(h).account, "open") : t \in QuoteIds
  BY DEF Trades
<1> QED
  BY <1>6, <1>7, <1>8, <1>9 DEF Status

\* The account is erased: the handler is about to delete the session.
LEMMA EraseKeeps ==
  ASSUME BotInv, NEW h \in Handlers, Acting(h), Copy(h).at = "DELETE_PASSWORD", DeleteAccount(h),
         UNCHANGED <<chat, claimed, session, quotes, notices, courier, handled, lapsed, asked, faults>>
  PROVE  BotInv'
<1>1. PICK c \in Sessions : c = Copy(h)
  BY CopySound
<1>2. /\ c.account # 0 /\ c.account \in AccountIds /\ SoundAccount(Me(h)) /\ Me(h) = accounts[c.account]
      /\ Me(h) \in BotUsers /\ Me(h).made /\ Truthful(c)
      /\ c.account \in asked.delete
  BY <1>1, ActingSound, CopySound DEF Truthful
<1>3. PICK u \in BotUsers : u = [Me(h) EXCEPT !.erased = TRUE, !.password = FALSE]
  BY <1>2 DEF BotUsers
<1>4. /\ u.kyc = Me(h).kyc /\ u.approved = Me(h).approved /\ u.made = Me(h).made
      /\ u.secured = Me(h).secured /\ ~ u.password /\ u.erased
  BY <1>2, <1>3 DEF BotUsers
<1>5. Me(h).secured /\ SoundAccount(u)
  BY <1>2, <1>4 DEF DeleteAccount, SoundAccount
<1>6. accounts \in [AccountIds -> BotUsers]
  BY DEF BotInv, EngineSound
<1>7. accounts' = [accounts EXCEPT ![Copy(h).account] = u]
  BY <1>1, <1>2, <1>3, <1>6 DEF DeleteAccount, BotUsers
<1>8. EngineMoves
  BY <1>1, <1>2, <1>4, <1>5, <1>7, AccountMoves DEF noticeVars, historyVars
<1> QED
  BY <1>1, <1>2, <1>8, ActingTurns, AnswersMade DEF Answered, DeleteAccount

LEMMA DeleteKeeps == ASSUME BotInv, NEW h \in Handlers, DeletePassword(h) PROVE BotInv'
<1>1. /\ Acting(h) /\ Copy(h).at = "DELETE_PASSWORD"
      /\ UNCHANGED <<chat, claimed, session, quotes, notices, courier, handled, lapsed, asked, faults>>
  BY DEF DeletePassword, InStep, noticeVars, historyVars
<1>2. Copy(h).account # 0
  BY <1>1, CopySound
<1>3. ASSUME UNCHANGED accounts
      PROVE  EngineMoves /\ Later
  BY <1>1, <1>3, NothingMoves DEF EngineMoves, engineVars, noticeVars, historyVars, BotInv
<1>4. CASE DeleteAccount(h)
  BY <1>1, <1>4, EraseKeeps
<1>5. CASE (MovesTo(h, "CONFIRM_DELETE") \/ MovesTo(h, "none")) /\ UNCHANGED accounts
  <2>1. PICK at \in {"CONFIRM_DELETE", "none"} : MovesTo(h, at)
    BY <1>5
  <2>2. Answered(h)
    BY <1>2, <1>3, <1>5, <2>1, AllSteps, MovesAnswered DEF Filling
  <2> QED
    BY <1>1, <1>3, <1>5, <2>2, ActingTurns, AnswersMade
<1>6. CASE Deletes(h) /\ UNCHANGED accounts
  BY <1>1, <1>2, <1>3, <1>6, ActingTurns, AnswersMade DEF Answered
<1> QED
  BY <1>4, <1>5, <1>6 DEF DeletePassword
-----------------------------------------------------------------------------
\* The end of a handler, the provider's deliveries and the engine's own steps.

LEMMA EndKeeps ==
  ASSUME BotInv, NEW h \in Handlers, DeleteSession(h) \/ HandlerFails(h)
  PROVE  BotInv'
<1>1. UNCHANGED <<chat, claimed, accounts, quotes, notices, courier, handled, lapsed, asked>> /\ Replies(h)
  BY DEF DeleteSession, HandlerFails, engineVars, noticeVars, historyVars
<1>2. faults' \in Nat
  BY DEF DeleteSession, HandlerFails, Fault, BotInv
<1>3. session' \in {session, NewSession}
  BY DEF DeleteSession, HandlerFails
<1>4. EngineGrows
  BY <1>1, EngineStays
<1>5. PICK s \in Sessions : s = session /\ Truthful(s)
  BY DEF BotInv, TalkSound
<1>6. Truthful(s)'
  BY <1>4, <1>5, TruthKept DEF EngineGrows
<1>7. session' \in Sessions /\ Truthful(session)'
  BY <1>3, <1>5, <1>6, NewSessionTyped DEF Truthful
<1>8. SoundRequest(Free)' /\ Free \in Requests
  BY NewSessionTyped DEF SoundRequest
<1>9. TurnMade(h)
  BY <1>1, <1>2, <1>4, <1>7, <1>8 DEF TurnMade, EngineGrows, Replies
<1> QED
  BY <1>9, TurnKeeps

LEMMA ClaimKeeps == ASSUME BotInv, NEW h \in Handlers, NEW m \in DOMAIN chat, claim(h, m) PROVE BotInv'
<1>1. /\ handler \in [Handlers -> Requests] /\ handler[h] \in Requests /\ handler[h].pc = "idle"
      /\ session \in Sessions /\ Truthful(session) /\ SoundRequest(handler[h])
  BY DEF BotInv, TalkSound, claim, Takes
<1>2. UNCHANGED <<chat, session, accounts, quotes, notices, courier, lapsed, asked, faults>>
  BY DEF claim, Takes, engineVars, noticeVars
<1>3. EngineGrows
  BY <1>2, EngineStays
<1>4. m \in Nat
  BY DEF BotInv, IntakeSound
<1>5. PICK r \in Requests : r = [handler[h] EXCEPT !.pc = "load", !.message = m]
  BY <1>1, <1>4 DEF Requests
<1>6. handler' = [handler EXCEPT ![h] = r] /\ r.pc = "load" /\ r.copy = NewSession /\ r.then # "retry"
  BY <1>1, <1>5 DEF claim, Takes, Requests, SoundRequest
<1>7. SoundRequest(r)'
  BY <1>6, NewSessionTyped DEF SoundRequest
<1>8. session' \in Sessions /\ Truthful(session)'
  BY <1>1, <1>2 DEF Truthful
<1>9. TalkSound'
  BY <1>3, <1>6, <1>7, <1>8, TalkKept DEF EngineGrows
<1>10. IntakeSound'
  <2>1. /\ handled \in [DOMAIN chat -> Nat] /\ handled' = [handled EXCEPT ![m] = @ + 1]
        /\ claimed' \subseteq DOMAIN chat /\ claimed \subseteq claimed'
        /\ chat[m].named => m \in claimed' /\ m \notin claimed
    BY DEF claim, Takes, Unclaimed, Unnamed, BotInv, IntakeSound
  <2>2. handled' \in [DOMAIN chat -> Nat]
    BY <2>1
  <2>3. \A n \in DOMAIN chat : handled'[n] = IF n = m THEN handled[n] + 1 ELSE handled[n]
    BY <2>1
  <2>4. \A n \in DOMAIN chat : chat[n].named /\ handled'[n] > 0 => n \in claimed' \cup lapsed
    BY <2>1, <2>3 DEF BotInv, IntakeSound
  <2>5. ASSUME NEW n \in DOMAIN chat, chat[n].named, handled'[n] > 1
        PROVE  n \in lapsed
    <3>1. CASE n = m
      <4>1. handled[m] > 0
        BY <2>1, <2>3, <2>5, <3>1
      <4> QED
        BY <2>1, <2>5, <3>1, <4>1 DEF BotInv, IntakeSound
    <3>2. CASE n # m
      BY <2>3, <2>5, <3>2 DEF BotInv, IntakeSound, HandledOnce
    <3> QED
      BY <3>1, <3>2
  <2> QED
    BY <1>2, <2>1, <2>2, <2>4, <2>5 DEF BotInv, IntakeSound, HandledOnce
<1>11. CourierSound'
  BY <1>2, <1>3, CourierKept DEF EngineGrows
<1> QED
  BY <1>2, <1>3, <1>9, <1>10, <1>11 DEF BotInv, EngineGrows

\* A step that leaves the handlers alone.
LEMMA ElsewhereKeeps ==
  ASSUME BotInv, EngineGrows, UNCHANGED <<chat, handler, handled>>,
         IntakeSound', faults' \in Nat, session' \in Sessions, Truthful(session)',
         CourierSound'
  PROVE  BotInv'
<1>1. ASSUME NEW g \in Handlers
      PROVE  SoundRequest(handler[g])'
  <2>1. PICK c \in Sessions : c = handler[g].copy
    BY CopySound DEF Copy
  <2>2. Truthful(c)
    BY <2>1, CopySound DEF Copy
  <2>3. Truthful(c)'
    BY <2>2, TruthKept DEF EngineGrows
  <2>4. handler'[g].copy = c /\ SoundRequest(handler[g])
    BY <2>1 DEF BotInv, TalkSound
  <2> QED
    BY <2>3, <2>4 DEF SoundRequest, Truthful
<1>2. TalkSound'
  BY <1>1 DEF BotInv, TalkSound
<1> QED
  BY <1>2 DEF BotInv, EngineGrows

LEMMA LapseKeeps == ASSUME BotInv, NEW m \in DOMAIN chat, ClaimRunsOut(m) PROVE BotInv'
<1>1. /\ UNCHANGED <<chat, handler, session, accounts, quotes, notices, courier, handled, asked>>
      /\ claimed' = claimed \ {m} /\ lapsed' = lapsed \cup {m} /\ faults' \in Nat
  BY DEF ClaimRunsOut, engineVars, noticeVars, Fault, BotInv
<1>2. EngineGrows
  BY <1>1, EngineStays
<1>3. IntakeSound'
  BY <1>1 DEF BotInv, IntakeSound, HandledOnce
<1>4. session' \in Sessions /\ Truthful(session)'
  BY <1>1 DEF BotInv, TalkSound, Truthful
<1> QED
  BY <1>1, <1>2, <1>3, <1>4, CourierKept, ElsewhereKeeps DEF EngineGrows

LEMMA ExpiryKeeps == ASSUME BotInv, SessionExpires PROVE BotInv'
<1>1. /\ UNCHANGED <<chat, claimed, handler, accounts, quotes, notices, courier, handled, lapsed, asked, faults>>
      /\ session' = NewSession
  BY DEF SessionExpires, engineVars, noticeVars, historyVars
<1>2. EngineGrows
  BY <1>1, EngineStays
<1>3. IntakeSound' /\ faults' \in Nat
  BY <1>1 DEF BotInv, IntakeSound, HandledOnce
<1>4. session' \in Sessions /\ Truthful(session)'
  BY <1>1, NewSessionTyped DEF Truthful
<1> QED
  BY <1>1, <1>2, <1>3, <1>4, CourierKept, ElsewhereKeeps DEF EngineGrows

LEMMA DecisionKeeps == ASSUME BotInv, NEW a \in AccountIds, KYCDecided(a) PROVE BotInv'
<1>1. PICK verdict \in {"approved", "rejected"} :
        /\ accounts' = [accounts EXCEPT ![a].kyc = verdict, ![a].approved = @ \/ verdict = "approved"]
        /\ notices' = IF verdict = "approved" /\ ~ accounts[a].password
                        THEN notices \cup {a} ELSE notices
  BY DEF KYCDecided
<1>2. UNCHANGED <<chat, claimed, handler, session, quotes, courier, handled, lapsed, asked, faults>>
  BY DEF KYCDecided, historyVars
<1>3. /\ accounts \in [AccountIds -> BotUsers] /\ accounts[a] \in BotUsers
      /\ SoundAccount(accounts[a]) /\ accounts[a].kyc = "pending"
      /\ \A b \in notices : accounts[b].approved
  BY DEF BotInv, EngineSound, KYCDecided
<1>4. ~ accounts[a].approved /\ ~ accounts[a].secured /\ ~ accounts[a].password /\ ~ accounts[a].erased
  BY <1>3 DEF SoundAccount
<1>5. PICK u \in BotUsers : u = [accounts[a] EXCEPT !.kyc = verdict, !.approved = verdict = "approved"]
  BY <1>3 DEF BotUsers
<1>6. /\ u.kyc = verdict /\ u.approved = (verdict = "approved") /\ u.made = accounts[a].made
      /\ u.secured = accounts[a].secured /\ u.password = accounts[a].password
      /\ u.erased = accounts[a].erased
  BY <1>3, <1>5 DEF BotUsers
<1>7. accounts' = [accounts EXCEPT ![a] = u]
  <2>1. u = [accounts[a] EXCEPT !.kyc = verdict, !.approved = accounts[a].approved \/ verdict = "approved"]
    BY <1>3, <1>4, <1>5 DEF BotUsers
  <2> QED
    BY <1>1, <1>3, <2>1 DEF BotUsers
<1>8. SoundAccount(u)
  BY <1>3, <1>4, <1>6 DEF SoundAccount
<1>9. notices' \subseteq notices \cup {a} /\ (a \in notices' => u.approved)
  BY <1>1, <1>3, <1>4, <1>6
<1>10. EngineGrows
  BY <1>2, <1>4, <1>6, <1>7, <1>8, <1>9, AccountWritten
<1>11. IntakeSound' /\ faults' \in Nat
  BY <1>2 DEF BotInv, IntakeSound, HandledOnce
<1>12. session' \in Sessions /\ Truthful(session)'
  <2>1. PICK e \in Sessions : e = session
    BY DEF BotInv, TalkSound
  <2>2. Truthful(e)
    BY <2>1 DEF BotInv, TalkSound
  <2> QED
    BY <1>2, <1>10, <2>1, <2>2, TruthKept DEF EngineGrows, Truthful
<1> QED
  BY <1>2, <1>10, <1>11, <1>12, CourierKept, ElsewhereKeeps DEF EngineGrows

\* The bot begins to deliver a kyc.verified: its copy is of the session, or new.
LEMMA ActivationReadsKeeps == ASSUME BotInv, NEW a \in AccountIds, ActivationReads(a) PROVE BotInv'
<1>1. /\ UNCHANGED <<chat, claimed, handler, session, accounts, quotes, notices, handled, lapsed, asked>>
      /\ a \in notices /\ faults' \in Nat
  BY DEF ActivationReads, historyVars, Fault, BotInv
<1>2. PICK s \in {session, NewSession} :
        courier' = [pc |-> IF s.password THEN "send" ELSE "write", account |-> a, copy |-> s]
  BY DEF ActivationReads
<1>3. EngineGrows
  BY <1>1, EngineStays
<1>4. s \in Sessions /\ Truthful(s)
  BY <1>2, NewSessionTyped DEF BotInv, TalkSound
<1>5. PICK c \in Sessions : c = s
  BY <1>4
<1>6. Truthful(c)'
  BY <1>3, <1>4, <1>5, TruthKept DEF EngineGrows
<1>7. CourierSound'
  <2>1. courier' \in Couriers /\ courier'.copy = c /\ courier'.account = a
    BY <1>2, <1>5 DEF Couriers
  <2>2. accounts'[a].approved
    BY <1>1 DEF BotInv, EngineSound
  <2> QED
    BY <1>6, <2>1, <2>2, AccountNames DEF CourierSound, Truthful
<1>8. IntakeSound'
  BY <1>1 DEF BotInv, IntakeSound, HandledOnce
<1>9. session' \in Sessions /\ Truthful(session)'
  BY <1>1 DEF BotInv, TalkSound, Truthful
<1> QED
  BY <1>1, <1>3, <1>7, <1>8, <1>9, ElsewhereKeeps

\* Whatever it has read, the session it writes is at the password's prompt.
LEMMA ActivationWritesKeeps == ASSUME BotInv, ActivationWrites PROVE BotInv'
<1>1. /\ UNCHANGED <<chat, claimed, handler, accounts, quotes, notices, handled, lapsed, asked, faults>>
      /\ courier.pc = "write" /\ courier' = [courier EXCEPT !.pc = "send"]
      /\ session' = [AfterVerification(courier.copy, FALSE) EXCEPT !.account = courier.account]
  BY DEF ActivationWrites, historyVars
<1>2. EngineGrows
  BY <1>1, EngineStays
<1>3. IntakeSound' /\ faults' \in Nat
  BY <1>1 DEF BotInv, IntakeSound, HandledOnce
<1>4. PICK a \in AccountIds : a = courier.account /\ accounts[a].approved
  BY <1>1 DEF BotInv, CourierSound, Couriers
<1>5. PICK c \in Sessions : c = courier.copy /\ Truthful(c)
  BY DEF BotInv, CourierSound, Couriers
<1>6. PICK w \in Sessions : w = AfterVerification(c, FALSE)
  BY SessionVerified
<1>7. w.at = "SET_PASSWORD" /\ ~ w.onboarded
  BY <1>6, AllSteps DEF Sessions, AfterVerification
<1>8. PICK v \in Sessions : v = [w EXCEPT !.account = a]
  BY DEF Sessions
<1>9. v.account = a /\ v.at = "SET_PASSWORD" /\ ~ v.onboarded
  BY <1>7, <1>8 DEF Sessions
<1>10. accounts[a].made
  BY <1>4 DEF BotInv, EngineSound, SoundAccount
<1>11. Truthful(v)'
  BY <1>1, <1>4, <1>9, <1>10, AccountNames DEF Truthful, Ready, Filling
<1>12. session' = v
  BY <1>1, <1>4, <1>5, <1>6, <1>8
<1>13. session' \in Sessions /\ Truthful(session)'
  BY <1>11, <1>12 DEF Truthful
<1>14. CourierSound'
  <2>1. courier \in Couriers
    BY DEF BotInv, CourierSound
  <2>2. courier' \in Couriers /\ courier'.copy = c /\ courier'.account = a
    BY <1>1, <1>4, <1>5, <2>1 DEF Couriers
  <2>3. Truthful(c)'
    BY <1>2, <1>5, TruthKept DEF EngineGrows
  <2> QED
    BY <1>1, <1>4, <2>2, <2>3, AccountNames DEF CourierSound, Truthful
<1> QED
  BY <1>1, <1>2, <1>3, <1>13, <1>14, ElsewhereKeeps

LEMMA DeliveryKeeps == ASSUME BotInv, NoticeSent \/ DeliveryFails PROVE BotInv'
<1>1. /\ UNCHANGED <<chat, claimed, handler, session, accounts, quotes, handled, lapsed, asked>>
      /\ notices' \subseteq notices /\ courier' = NoDelivery /\ faults' \in Nat
  BY DEF NoticeSent, DeliveryFails, historyVars, Fault, BotInv
<1>2. EngineGrows
  BY <1>1, EngineStays
<1>3. CourierSound'
  BY <1>1, NewSessionTyped DEF NoDelivery, Couriers, CourierSound, Truthful
<1>4. IntakeSound'
  BY <1>1 DEF BotInv, IntakeSound, HandledOnce
<1>5. session' \in Sessions /\ Truthful(session)'
  BY <1>1 DEF BotInv, TalkSound, Truthful
<1> QED
  BY <1>1, <1>2, <1>3, <1>4, <1>5, ElsewhereKeeps

LEMMA TradeEndKeeps == ASSUME BotInv, NEW q \in QuoteIds, TradeEnds(q) PROVE BotInv'
<1>1. /\ UNCHANGED <<chat, claimed, handler, session, accounts, notices, courier, handled, lapsed, asked, faults>>
      /\ quotes' = [quotes EXCEPT ![q].trade = "ended"] /\ quotes[q].trade = "open"
  BY DEF TradeEnds, noticeVars, historyVars
<1>2. quotes \in [QuoteIds -> QuoteRows] /\ q \in asked.trade
  BY <1>1 DEF BotInv, EngineSound, EffectsConfirmed
<1>3. PICK row \in QuoteRows : row = [quotes[q] EXCEPT !.trade = "ended"]
  BY <1>2 DEF QuoteRows
<1>4. EngineGrows
  BY <1>1, <1>2, <1>3, QuoteWritten
<1>5. IntakeSound' /\ faults' \in Nat
  BY <1>1 DEF BotInv, IntakeSound, HandledOnce
<1>6. session' \in Sessions /\ Truthful(session)'
  <2>1. PICK e \in Sessions : e = session
    BY DEF BotInv, TalkSound
  <2>2. Truthful(e)
    BY <2>1 DEF BotInv, TalkSound
  <2> QED
    BY <1>1, <1>4, <2>1, <2>2, TruthKept DEF EngineGrows, Truthful
<1> QED
  BY <1>1, <1>4, <1>5, <1>6, CourierKept, ElsewhereKeeps DEF EngineGrows
-----------------------------------------------------------------------------
\* The beginning, every step, and what follows.

LEMMA BotStartsSound == BotInit => BotInv
<1> SUFFICES ASSUME BotInit
             PROVE  BotInv
  OBVIOUS
<1>1. PICK b \in Scripts : BotStarts(b)
  BY DEF BotInit
<1>2. /\ claimed = {} /\ lapsed = {} /\ notices = {} /\ courier = NoDelivery /\ faults = 0
      /\ handler = [h \in Handlers |-> Free] /\ chat = b.messages
      /\ session = Beginnings[b.from].session
      /\ accounts = [a \in AccountIds |-> IF a = 1 THEN Beginnings[b.from].account ELSE NoAccount]
      /\ quotes = [q \in QuoteIds |-> NoQuote]
      /\ handled = [m \in DOMAIN chat |-> 0] /\ asked = [trade |-> {}, delete |-> {}]
  BY <1>1 DEF BotStarts
<1>3. b.from \in DOMAIN Beginnings /\ chat \in Seq(Messages)
  BY <1>2, ConversationAssumption
<1> DEFINE Set == [Verified EXCEPT !.password = TRUE, !.secured = TRUE, !.bank = TRUE]
           Form1 == [NoAccount EXCEPT !.made = TRUE]
           Fit(u) == u \in BotUsers /\ SoundAccount(u) /\ u.erased = FALSE
<1>a. Fit(NoAccount)
  BY DEF NoAccount, BotUsers, SoundAccount
<1>b. Fit(Form1) /\ Form1.made
  <2>1. NoAccount \in BotUsers /\ ~ NoAccount.erased /\ ~ NoAccount.password /\ ~ NoAccount.approved
        /\ ~ NoAccount.secured /\ NoAccount.kyc = "none"
    BY DEF NoAccount, BotUsers
  <2>2. Form1 \in BotUsers /\ Form1.made /\ Form1.kyc = NoAccount.kyc
        /\ Form1.erased = NoAccount.erased /\ Form1.password = NoAccount.password
        /\ Form1.approved = NoAccount.approved /\ Form1.secured = NoAccount.secured
    BY <2>1 DEF BotUsers
  <2> QED
    BY <2>1, <2>2 DEF SoundAccount
<1>c. Fit(Verified) /\ Verified.made /\ Verified.approved /\ Verified.kyc = "approved"
  <2>1. NoAccount \in BotUsers /\ ~ NoAccount.erased /\ ~ NoAccount.password /\ ~ NoAccount.secured
    BY DEF NoAccount, BotUsers
  <2>2. Verified \in BotUsers /\ Verified.made /\ Verified.kyc = "approved" /\ Verified.approved
        /\ Verified.erased = NoAccount.erased /\ Verified.password = NoAccount.password
        /\ Verified.secured = NoAccount.secured
    BY <2>1 DEF BotUsers, Verified
  <2> QED
    BY <2>1, <2>2 DEF SoundAccount
<1>d. Fit(Set)
  <2>1. Set \in BotUsers /\ Set.made = Verified.made /\ Set.kyc = Verified.kyc
        /\ Set.approved = Verified.approved /\ Set.erased = Verified.erased /\ Set.secured
    BY <1>c DEF BotUsers
  <2> QED
    BY <1>c, <2>1 DEF SoundAccount
<1>e. \/ b.from = "new" /\ Beginnings[b.from].account = NoAccount
      \/ b.from = "form" /\ Beginnings[b.from].account = Form1
      \/ b.from = "verified" /\ Beginnings[b.from].account = Verified
      \/ b.from = "ready" /\ Beginnings[b.from].account = Set
  <2> HIDE DEF Set, Form1
  <2>1. b.from \in {"new", "form", "verified", "ready"}
    BY <1>3 DEF Beginnings
  <2>2. CASE b.from = "new"
    BY <2>2 DEF Beginnings
  <2>3. CASE b.from = "form"
    <3>1. Beginnings["form"] = [account |-> Form1, session |-> [NewSession EXCEPT !.at = "BVN", !.account = 1]]
      BY DEF Beginnings, Form1
    <3>2. Beginnings["form"].account = Form1
      BY <3>1
    <3> QED
      BY <2>3, <3>2
  <2>4. CASE b.from = "verified"
    BY <2>4 DEF Beginnings
  <2>5. CASE b.from = "ready"
    BY <2>5 DEF Beginnings, Set
  <2> QED
    BY <2>1, <2>2, <2>3, <2>4, <2>5
<1> HIDE DEF Set, Form1
<1>4. PICK first \in BotUsers : first = Beginnings[b.from].account
  BY <1>a, <1>b, <1>c, <1>d, <1>e
<1>5. /\ SoundAccount(first) /\ ~ first.erased
      /\ b.from = "form" => first.made
      /\ b.from = "verified" => first.made /\ first.approved
  BY <1>4, <1>a, <1>b, <1>c, <1>d, <1>e
<1>6. NoAccount \in BotUsers /\ SoundAccount(NoAccount) /\ ~ NoAccount.erased
  BY DEF NoAccount, BotUsers, SoundAccount
<1>7. EngineSound
  <2>1. \A a \in AccountIds : accounts[a] = IF a = 1 THEN first ELSE NoAccount
    BY <1>2, <1>4
  <2>2. accounts \in [AccountIds -> BotUsers] /\ \A a \in AccountIds : SoundAccount(accounts[a])
    BY <1>2, <1>4, <1>5, <1>6, <2>1
  <2>3. NoQuote \in QuoteRows /\ NoQuote.trade = "none"
    BY DEF NoQuote, QuoteRows
  <2>4. EffectsConfirmed
    BY <1>2, <1>5, <1>6, <2>1, <2>3 DEF EffectsConfirmed
  <2>5. quotes \in [QuoteIds -> QuoteRows] /\ asked \in Questions
    BY <1>2, <2>3 DEF Questions
  <2> QED
    BY <1>2, <2>2, <2>4, <2>5 DEF EngineSound
<1>8. session \in Sessions /\ Truthful(session)
  <2>1. accounts[1] = first
    BY <1>2, <1>4, AccountNames
  <2>2. CASE session = NewSession
    BY <2>2, NewSessionTyped
  <2>3. CASE b.from = "form"
    <3>1. session = [NewSession EXCEPT !.at = "BVN", !.account = 1]
      BY <1>2, <2>3 DEF Beginnings
    <3>2. session.account = 1 /\ session.at = "BVN" /\ ~ session.onboarded /\ session \in Sessions
      BY <3>1, AllSteps, AccountNames DEF NewSession, Sessions, Ready
    <3> QED
      BY <1>5, <2>1, <2>3, <3>2 DEF Truthful, Ready
  <2>4. CASE b.from = "verified"
    <3>1. session = [NewSession EXCEPT !.at = "SET_PASSWORD", !.account = 1]
      BY <1>2, <2>4 DEF Beginnings
    <3>2. /\ session.account = 1 /\ session.at = "SET_PASSWORD" /\ ~ Ready(session)
          /\ session \in Sessions
      BY <3>1, AllSteps, AccountNames DEF NewSession, Sessions, Ready
    <3> QED
      BY <1>5, <2>1, <2>4, <3>2 DEF Truthful, Filling
  <2>5. session = NewSession \/ b.from = "form" \/ b.from = "verified"
    BY <1>2, <1>3 DEF Beginnings
  <2> QED
    BY <2>2, <2>3, <2>4, <2>5
<1>9. TalkSound
  BY <1>2, <1>8, NewSessionTyped DEF TalkSound, SoundRequest
<1>10. IntakeSound
  BY <1>2, <1>3 DEF IntakeSound, HandledOnce
<1>11. CourierSound
  BY <1>2, NewSessionTyped DEF CourierSound, NoDelivery, Couriers
<1> QED
  BY <1>2, <1>7, <1>9, <1>10, <1>11 DEF BotInv

LEMMA StutterKeeps == ASSUME BotInv, UNCHANGED botVars PROVE BotInv'
<1>1. UNCHANGED <<chat, claimed, handler, session, accounts, quotes, notices, courier, handled, lapsed, asked, faults>>
  BY DEF botVars
<1>2. EngineGrows
  BY <1>1, EngineStays
<1>3. IntakeSound' /\ faults' \in Nat
  BY <1>1 DEF BotInv, IntakeSound, HandledOnce
<1>4. session' \in Sessions /\ Truthful(session)'
  BY <1>1 DEF BotInv, TalkSound, Truthful
<1> QED
  BY <1>1, <1>2, <1>3, <1>4, CourierKept, ElsewhereKeeps DEF EngineGrows

LEMMA BotStep == BotInv /\ [BotNext]_botVars => BotInv'
<1> SUFFICES ASSUME BotInv, [BotNext]_botVars
             PROVE  BotInv'
  OBVIOUS
<1>1. ASSUME NEW h \in Handlers, HandlerStep(h)
      PROVE  BotInv'
  BY <1>1, LoadKeeps, RehydrateKeeps, SaveKeeps, EndKeeps, CommandKeeps, UnknownKeeps, FormKeeps,
     SubmitKeeps, ResubmitKeeps, PollKeeps, SetupKeeps, BankKeeps, SellKeeps, ConfirmKeeps, PasswordKeeps,
     StatusKeeps, ConfirmDeleteKeeps, DeleteKeeps DEF HandlerStep
<1> QED
  BY <1>1, EndKeeps, ClaimKeeps, LapseKeeps, ExpiryKeeps, DecisionKeeps, ActivationReadsKeeps,
     ActivationWritesKeeps, DeliveryKeeps, TradeEndKeeps, StutterKeeps DEF BotNext

LEMMA BotInvariant == BotSpec => []BotInv
  BY BotStartsSound, BotStep, PTL DEF BotSpec

\* The session, its copies and the engine's answers are well-formed.
THEOREM ConversationTyped == BotSpec => []BotTypeOK
<1>1. BotInv => BotTypeOK
  BY DEF BotInv, IntakeSound, EngineSound, TalkSound, CourierSound, BotTypeOK, QuoteRows, Questions
<1> QED
  BY <1>1, BotInvariant, PTL

\* ReplayGuard.claim: however often a message that has an id is delivered, and to
\* however many handlers at once, it is handled once, unless its claim has run out.
THEOREM MessagesHandledOnce == BotSpec => []HandledOnce
<1>1. BotInv => HandledOnce
  BY DEF BotInv, IntakeSound
<1> QED
  BY <1>1, BotInvariant, PTL

\* FlowRouter.route: no interleaving of handlers, commands and notifications
\* makes a trade of a quote the user did not confirm, or erases an account the
\* user did not ask to delete.
THEOREM OnlyConfirmedEffects == BotSpec => []EffectsConfirmed
<1>1. BotInv => EffectsConfirmed
  BY DEF BotInv, EngineSound
<1> QED
  BY <1>1, BotInvariant, PTL

\* rehydrate_session, _activate_kyc_verified_session and the onboarding flow: a
\* session in Redis treats the user as set up only when its account has been
\* approved and has had a password, whichever copy was written last.
THEOREM SetUpIsEarned == BotSpec => []ReadyIsEarned
<1>1. BotInv => ReadyIsEarned
  BY DEF BotInv, TalkSound, Truthful, ReadyIsEarned
<1> QED
  BY <1>1, BotInvariant, PTL
=============================================================================
