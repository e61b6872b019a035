-------------------------- MODULE BotConversation --------------------------
(***************************************************************************)
(* The chat bot and one of its users.  Each message is claimed in Redis,   *)
(* then a handler of its own copies the user's session, refreshes it from  *)
(* the engine, acts on the step it finds in its copy and writes the whole  *)
(* copy back.  Handlers of several messages run concurrently, and each     *)
(* delivery of a KYC notification reads and writes the session too.  The   *)
(* engine is what its answers tell: accounts, quotes, trades.              *)
(***************************************************************************)
EXTENDS Integers, Sequences, FiniteSets, Functions

CONSTANTS
  Handlers,    \* requests the bot works on at a time
  Scripts,     \* bound: what the user writes, and in which situation of Beginnings
  MaxQuotes,   \* bound: quotes the engine makes
  MaxAccounts, \* bound: accounts of the user, one after the other
  MaxRepeats,  \* bound: deliveries of a message without an id
  MaxFaults    \* bound: failures and claims that run out

\* "text" is the input the step asks for, and "bad" one it does not accept.
Words == {"hi", "cancel", "help", "banks", "use bank", "add bank", "delete account",
          "sell", "status", "yes", "text", "bad"}
\* named: the provider's event has a message id
Messages == [word : Words, named : BOOLEAN]
Form == <<"CONSENT", "PHONE", "NAME", "DOB", "NIN", "BVN">>
OnboardingSteps == {"GREETING", "SELFIE", "SUBMITTED", "SET_PASSWORD", "CONFIRM_PASSWORD"} \cup
                   Range(Form)
BankSteps == {"BANK_CODE", "ACCOUNT_NUMBER", "CONFIRM_BANK"}
TradeSteps == {"CONFIRMATION", "TX_PASSWORD", "DEPOSIT"}
Steps == OnboardingSteps \cup BankSteps \cup TradeSteps \cup
         {"none", "CONFIRM_DELETE", "DELETE_PASSWORD"}

AccountIds == 1..MaxAccounts
QuoteIds == 1..MaxQuotes
\* quote and trade: trade_data's quote_id and trade_id; 0 is none
Sessions == [at : Steps, account : AccountIds \cup {0}, onboarded : BOOLEAN,
             password : BOOLEAN, quote : QuoteIds \cup {0}, trade : QuoteIds \cup {0}]
NewSession == [at |-> "none", account |-> 0, onboarded |-> FALSE, password |-> FALSE,
          quote |-> 0, trade |-> 0]

\* approved, secured: it has been approved, had a password, at some time
BotUsers == [made : BOOLEAN, erased : BOOLEAN, password : BOOLEAN, bank : BOOLEAN,
             kyc : {"none", "pending", "approved", "rejected"},
             approved : BOOLEAN, secured : BOOLEAN]
NoAccount == [made |-> FALSE, erased |-> FALSE, password |-> FALSE, bank |-> FALSE,
              kyc |-> "none", approved |-> FALSE, secured |-> FALSE]
Verified == [NoAccount EXCEPT !.made = TRUE, !.kyc = "approved", !.approved = TRUE]

\* The user's account and session: unknown; at the end of the form; verified
\* and about to set a password; set up, and the last session expired.
Beginnings ==
  [new    |-> [account |-> NoAccount, session |-> NewSession],
   form   |-> [account |-> [NoAccount EXCEPT !.made = TRUE],
               session |-> [NewSession EXCEPT !.at = "BVN", !.account = 1]],
   verified |-> [account |-> Verified,
                 session |-> [NewSession EXCEPT !.at = "SET_PASSWORD", !.account = 1]],
   ready  |-> [account |-> [Verified EXCEPT !.password = TRUE, !.secured = TRUE, !.bank = TRUE],
               session |-> NewSession]]

ASSUME ConversationAssumption ==
  /\ \A s \in Scripts : s.from \in DOMAIN Beginnings /\ s.messages \in Seq(Messages)
  /\ {MaxQuotes, MaxRepeats, MaxFaults} \subseteq Nat /\ MaxAccounts \in Nat \ {0}

VARIABLES
  chat,      \* the messages the user writes
  claimed,   \* the replay guard's keys
  handler,   \* what each request is doing
  session,   \* the session in Redis
  accounts,  \* users
  quotes,    \* the account a quote was made for, and its trade
  notices,   \* the accounts of the kyc.verified notifications not yet delivered
  courier,   \* the delivery under way
  handled,   \* how often a message has been taken up
  lapsed,    \* messages whose claim has run out
  asked,     \* the quotes confirmed, and the accounts to be deleted, by a handled message
  faults

botVars == <<chat, claimed, handler, session, accounts, quotes, notices, courier, handled, lapsed,
             asked, faults>>
noticeVars == <<notices, courier>>
engineVars == <<accounts, quotes, noticeVars>>
historyVars == <<handled, lapsed, asked>>

Requests == [pc : {"idle", "load", "rehydrate", "act", "retry", "save", "delete"}, message : Nat,
             copy : Sessions, then : {"idle", "act", "retry"}]
Couriers == [pc : {"idle", "write", "send"}, account : AccountIds \cup {0}, copy : Sessions]
NoDelivery == [pc |-> "idle", account |-> 0, copy |-> NewSession]
Free == [pc |-> "idle", message |-> 0, copy |-> NewSession, then |-> "idle"]
NoQuote == [account |-> 0, trade |-> "none"]

BotStarts(s) ==
  /\ claimed = {} /\ lapsed = {} /\ notices = {} /\ courier = NoDelivery /\ faults = 0
  /\ handler = [h \in Handlers |-> Free]
  /\ chat = s.messages
  /\ session = Beginnings[s.from].session
  /\ accounts = [a \in AccountIds |-> IF a = 1 THEN Beginnings[s.from].account ELSE NoAccount]
  /\ quotes = [q \in QuoteIds |-> NoQuote]
  /\ handled = [m \in DOMAIN chat |-> 0]
  /\ asked = [trade |-> {}, delete |-> {}]
BotInit == \E s \in Scripts : BotStarts(s)

Fault == faults < MaxFaults /\ faults' = faults + 1
Copy(h) == handler[h].copy
Word(h) == chat[handler[h].message].word
Me(h) == accounts[Copy(h).account]
Acting(h) == handler[h].pc = "act"
Goes(h, pc) == handler' = [handler EXCEPT ![h].pc = pc]

\* How a handler's turn ends.
Replies(h) == handler' = [handler EXCEPT ![h] = Free]
Saves(h, s) == handler' = [handler EXCEPT ![h].pc = "save", ![h].copy = s]
SavesThen(h, s, next) == handler' = [handler EXCEPT ![h].pc = "save", ![h].copy = s, ![h].then = next]
Deletes(h) == Goes(h, "delete")
MovesTo(h, step) == Saves(h, [Copy(h) EXCEPT !.at = step])
-----------------------------------------------------------------------------
(***************************************************************************)
(* A provider delivers a message until it is answered, and messages in any *)
(* order.                                                                  *)
(***************************************************************************)
Unclaimed(m) == chat[m].named /\ m \notin claimed
Unnamed(m) == ~ chat[m].named /\ handled[m] < MaxRepeats
Takes(h, m) ==
  /\ handler[h].pc = "idle"
  /\ handled' = [handled EXCEPT ![m] = @ + 1]
  /\ handler' = [handler EXCEPT ![h].pc = "load", ![h].message = m]
  /\ UNCHANGED <<chat, session, engineVars, lapsed, asked, faults>>

\* Mutant: the claim is not kept.
claimUnrecorded(h, m) ==
  Takes(h, m) /\ (Unclaimed(m) \/ Unnamed(m)) /\ UNCHANGED claimed

\* ReplayGuard.claim, before the message is handled: a duplicate is skipped, but
\* not one without an id.
claim(h, m) ==
  /\ Takes(h, m)
  /\ \/ Unclaimed(m) /\ claimed' = claimed \cup {m}
     \/ Unnamed(m) /\ UNCHANGED claimed

ClaimRunsOut(m) ==
  /\ m \in claimed /\ Fault
  /\ claimed' = claimed \ {m} /\ lapsed' = lapsed \cup {m}
  /\ UNCHANGED <<chat, handler, session, engineVars, handled, asked>>

\* A read that fails gives an empty session.
LoadSession(h) ==
  /\ handler[h].pc = "load"
  /\ \/ handler' = [handler EXCEPT ![h].pc = "rehydrate", ![h].copy = session] /\ UNCHANGED faults
     \/ handler' = [handler EXCEPT ![h].pc = "rehydrate", ![h].copy = NewSession] /\ Fault
  /\ UNCHANGED <<chat, claimed, session, engineVars, historyVars>>

\* create_user: the user's account that is not erased, or a new one.
Mine == {a \in AccountIds : accounts[a].made /\ ~ accounts[a].erased}
Unused == {a \in AccountIds : ~ accounts[a].made}
createUser(a) ==
  IF Mine # {} THEN a \in Mine /\ UNCHANGED accounts
               ELSE a \in Unused /\ accounts' = [accounts EXCEPT ![a].made = TRUE]

\* Mutant: the step to be reached is taken for the password.
RefreshedIfApproved(s, a) ==
  [s EXCEPT !.account = a, !.password = accounts[a].kyc = "approved",
            !.onboarded = accounts[a].kyc = "approved"]

Named(s, a) == [s EXCEPT !.account = a, !.password = accounts[a].password]
Refreshed(s, a) ==
  [Named(s, a) EXCEPT !.onboarded = accounts[a].kyc = "approved" /\ accounts[a].password]

Rehydrated(h, s) ==
  /\ handler' = [handler EXCEPT ![h].pc = "act", ![h].copy = s]
  /\ session' = IF s = Copy(h) THEN session ELSE s

\* The status of the account may fail to be read after the account was found.
RehydrateSession(h) ==
  /\ handler[h].pc = "rehydrate"
  /\ \/ Goes(h, "act") /\ UNCHANGED <<session, accounts>>
        /\ IF Copy(h).at \in OnboardingSteps THEN UNCHANGED faults ELSE Fault
     \/ /\ Copy(h).at \notin OnboardingSteps
        /\ \E a \in AccountIds :
             /\ IF Copy(h).account = 0 THEN createUser(a)
                                       ELSE a = Copy(h).account /\ UNCHANGED accounts
             /\ \/ Rehydrated(h, Refreshed(Copy(h), a)) /\ UNCHANGED faults
                \/ /\ Copy(h).account = 0 /\ Fault
                   /\ Rehydrated(h, Named(Copy(h), a))
  /\ UNCHANGED <<chat, claimed, quotes, noticeVars, historyVars>>

SaveSession(h) ==
  /\ handler[h].pc = "save"
  /\ session' = Copy(h)
  /\ handler' = IF handler[h].then = "idle"
                  THEN [handler EXCEPT ![h] = Free]
                  ELSE [handler EXCEPT ![h].pc = handler[h].then, ![h].then = "idle"]
  /\ UNCHANGED <<chat, claimed, engineVars, historyVars, faults>>

\* An error of Redis is logged and nothing more.
DeleteSession(h) ==
  /\ handler[h].pc = "delete" /\ Replies(h)
  /\ (session' = NewSession /\ UNCHANGED faults) \/ (Fault /\ UNCHANGED session)
  /\ UNCHANGED <<chat, claimed, engineVars, historyVars>>

\* The bot stops, a write to Redis fails, or the engine cannot be reached:
\* the message is not handled again.
HandlerFails(h) ==
  /\ handler[h].pc # "idle" /\ Fault /\ Replies(h)
  /\ UNCHANGED <<chat, claimed, session, engineVars, historyVars>>

SessionExpires ==
  /\ session # NewSession /\ \A h \in Handlers : handler[h].pc = "idle"
  /\ session' = NewSession
  /\ UNCHANGED <<chat, claimed, handler, engineVars, historyVars, faults>>
-----------------------------------------------------------------------------
(***************************************************************************)
(* FlowRouter.route: commands come before the step of the conversation,    *)
(* and most of them only once the user is verified and has a password.     *)
(***************************************************************************)
Ready(s) == s.onboarded /\ s.password
Cleared(s) == [s EXCEPT !.at = "none", !.quote = 0, !.trade = 0]

Commands == {"help", "banks", "use bank", "add bank", "delete account"}
IsCommand(h) ==
  \/ Word(h) = "hi"
  \/ Word(h) = "cancel" /\ Copy(h).at # "none"
  \/ Word(h) \in Commands /\ Ready(Copy(h))
InStep(h, step) == Acting(h) /\ ~ IsCommand(h) /\ Copy(h).at = step

ClearOrReply(h) == IF Copy(h).at = "none" THEN Replies(h) ELSE Saves(h, Cleared(Copy(h)))

AfterVerification(s, secured) ==
  IF secured THEN [s EXCEPT !.at = "none", !.onboarded = TRUE, !.password = TRUE]
             ELSE [s EXCEPT !.at = "SET_PASSWORD", !.onboarded = FALSE]

\* OnboardingFlow.start begins a new session.
StartOnboarding(h) ==
  \E a \in AccountIds :
    /\ createUser(a)
    /\ Saves(h, LET s == [NewSession EXCEPT !.account = a]
                IN IF accounts[a].kyc = "approved" THEN AfterVerification(s, accounts[a].password)
                                                   ELSE [s EXCEPT !.at = "GREETING"])

RouteCommand(h) ==
  /\ Acting(h)
  /\ \/ Word(h) = "hi" /\ IF Ready(Copy(h)) THEN ClearOrReply(h) /\ UNCHANGED accounts
                                            ELSE StartOnboarding(h)
     \/ /\ Word(h) = "cancel" /\ Copy(h).at # "none" /\ UNCHANGED accounts
        /\ IF Copy(h).onboarded THEN Saves(h, Cleared(Copy(h))) ELSE Deletes(h)
     \/ /\ Ready(Copy(h)) /\ UNCHANGED accounts
        /\ \/ Word(h) = "help" /\ ClearOrReply(h)
           \/ Word(h) = "banks" /\ (Replies(h) \/ Saves(h, Copy(h)))
           \/ Word(h) = "use bank" /\ Me(h).bank
                /\ MovesTo(h, IF Copy(h).at \in BankSteps THEN "none" ELSE Copy(h).at)
           \/ Word(h) = "add bank" /\ MovesTo(h, "BANK_CODE")
           \/ Word(h) = "delete account" /\ (MovesTo(h, "CONFIRM_DELETE") \/ Replies(h))
  /\ UNCHANGED <<chat, claimed, session, quotes, noticeVars, historyVars, faults>>

\* What a message is that nothing below acts on: another step's input, or none.
NotUnderstood(h) ==
  /\ Acting(h) /\ ~ IsCommand(h)
  /\ Copy(h).at \notin {"GREETING", "SUBMITTED", "DEPOSIT"}
  /\ Copy(h).at = "none" => Word(h) # "status" /\ ~ (Word(h) = "sell" /\ Ready(Copy(h)))
  /\ Replies(h)
  /\ UNCHANGED <<chat, claimed, session, engineVars, historyVars, faults>>
-----------------------------------------------------------------------------
(***************************************************************************)
(* OnboardingFlow.                                                         *)
(***************************************************************************)
Prompted(h) == InStep(h, "SET_PASSWORD") \/ InStep(h, "CONFIRM_PASSWORD")

FillForm(h) ==
  /\ \/ InStep(h, "GREETING") /\ MovesTo(h, "CONSENT")
     \/ \E i \in 1..(Len(Form) - 1) :
          /\ InStep(h, Form[i]) /\ Word(h) = (IF i = 1 THEN "yes" ELSE "text")
          /\ MovesTo(h, Form[i + 1])
     \/ InStep(h, "SELFIE") /\ Word(h) = "text" /\ MovesTo(h, "SUBMITTED")
     \/ InStep(h, "SET_PASSWORD") /\ Word(h) = "text" /\ MovesTo(h, "CONFIRM_PASSWORD")
     \/ InStep(h, "CONFIRM_PASSWORD") /\ Word(h) # "text" /\ MovesTo(h, "SET_PASSWORD")
     \/ Prompted(h) /\ MovesTo(h, "SET_PASSWORD")   \* the prompt has expired
  /\ UNCHANGED <<chat, claimed, session, engineVars, historyVars, faults>>

\* The engine's answer to a submission; to a pending user it repeats the status.
KYCAnswered(h) ==
  \/ /\ Me(h).kyc \in {"none", "rejected"}
     /\ \E verdict \in {"pending", "approved", "rejected"} :
          /\ accounts' = [accounts EXCEPT ![Copy(h).account].kyc = verdict,
                                          ![Copy(h).account].approved = @ \/ verdict = "approved"]
          /\ CASE verdict = "approved" -> Saves(h, AfterVerification(Copy(h), FALSE))
               [] verdict = "rejected" -> Deletes(h)
               [] OTHER -> MovesTo(h, "SUBMITTED") \/ MovesTo(h, "SELFIE")
  \/ /\ Me(h).kyc = "pending" /\ UNCHANGED accounts
     /\ MovesTo(h, "SUBMITTED") \/ MovesTo(h, "SELFIE")

\* _handle_collect_bvn: a duplicate submission of an approved user goes on; a user
\* the engine does not find is looked up or made again, and submitted once more.
submitKYC(h) ==
  /\ InStep(h, "BVN") /\ Word(h) = "text"
  /\ \/ KYCAnswered(h) /\ UNCHANGED faults
     \/ /\ Me(h).kyc = "approved" /\ UNCHANGED <<accounts, faults>>
        /\ Saves(h, AfterVerification(Copy(h), Me(h).password))
     \/ /\ Fault
        /\ \E a \in AccountIds :
             createUser(a) /\ SavesThen(h, [Copy(h) EXCEPT !.account = a], "retry")
  /\ UNCHANGED <<chat, claimed, session, quotes, noticeVars, historyVars>>

\* Any error now ends the turn, a duplicate submission too.
resubmitKYC(h) ==
  /\ handler[h].pc = "retry"
  /\ KYCAnswered(h) \/ (Replies(h) /\ UNCHANGED accounts)
  /\ UNCHANGED <<chat, claimed, session, quotes, noticeVars, historyVars, faults>>

PollKYC(h) ==
  /\ InStep(h, "SUBMITTED")
  /\ CASE Me(h).kyc = "approved" -> Saves(h, AfterVerification(Copy(h), Me(h).password))
       [] Me(h).kyc = "rejected" -> Deletes(h)
       [] OTHER -> Replies(h) \/ Saves(h, Copy(h))
  /\ UNCHANGED <<chat, claimed, session, engineVars, historyVars, faults>>

\* SetupTransactionPassword refuses an account that is not active.
SetupPassword(h) ==
  /\ InStep(h, "CONFIRM_PASSWORD") /\ Word(h) = "text"
  /\ IF Me(h).erased
       THEN Replies(h) /\ UNCHANGED accounts
       ELSE /\ accounts' = [accounts EXCEPT ![Copy(h).account].password = TRUE,
                                            ![Copy(h).account].secured = TRUE]
            /\ Saves(h, AfterVerification(Copy(h), TRUE))
  /\ UNCHANGED <<chat, claimed, session, quotes, noticeVars, historyVars, faults>>

\* The engine decides; an approved user without a password is to be told.
KYCDecided(a) ==
  /\ accounts[a].kyc = "pending"
  /\ \E verdict \in {"approved", "rejected"} :
       /\ accounts' = [accounts EXCEPT ![a].kyc = verdict,
                                       ![a].approved = @ \/ verdict = "approved"]
       /\ notices' = IF verdict = "approved" /\ ~ accounts[a].password
                      THEN notices \cup {a} ELSE notices
  /\ UNCHANGED <<chat, claimed, handler, session, quotes, courier, historyVars, faults>>

\* _activate_kyc_verified_session, in any conversation and before each attempt to
\* send a kyc.verified: it reads the session and then writes its copy back.
ActivationReads(a) ==
  /\ courier.pc = "idle" /\ a \in notices
  /\ \E s \in {session, NewSession} :
       /\ courier' = [pc |-> IF s.password THEN "send" ELSE "write", account |-> a, copy |-> s]
       /\ IF s = session THEN UNCHANGED faults ELSE Fault
  /\ UNCHANGED <<chat, claimed, handler, session, accounts, quotes, notices, historyVars>>

ActivationWrites ==
  /\ courier.pc = "write"
  /\ session' = [AfterVerification(courier.copy, FALSE) EXCEPT !.account = courier.account]
  /\ courier' = [courier EXCEPT !.pc = "send"]
  /\ UNCHANGED <<chat, claimed, handler, accounts, quotes, notices, historyVars, faults>>

\* The message was sent and acknowledged, or given up; or it is sent again later.
NoticeSent ==
  /\ courier.pc = "send" /\ courier' = NoDelivery
  /\ notices' = notices \ {courier.account} \/ UNCHANGED notices
  /\ UNCHANGED <<chat, claimed, handler, session, accounts, quotes, historyVars, faults>>

\* The bot stops, or a write to Redis fails: the message will be sent again.
DeliveryFails ==
  /\ courier.pc # "idle" /\ courier' = NoDelivery /\ Fault
  /\ UNCHANGED <<chat, claimed, handler, session, accounts, quotes, notices, historyVars>>
-----------------------------------------------------------------------------
(***************************************************************************)
(* BankFlow and TradeFlow.                                                 *)
(***************************************************************************)
AddBank(h) ==
  /\ \/ InStep(h, "BANK_CODE") /\ Word(h) = "text"
          /\ (MovesTo(h, "ACCOUNT_NUMBER") \/ Saves(h, Copy(h))) /\ UNCHANGED accounts
     \/ InStep(h, "ACCOUNT_NUMBER") /\ Word(h) = "text"
          /\ MovesTo(h, "CONFIRM_BANK") /\ UNCHANGED accounts
     \/ InStep(h, "CONFIRM_BANK") /\ Word(h) = "bad"
          /\ MovesTo(h, "ACCOUNT_NUMBER") /\ UNCHANGED accounts
     \/ InStep(h, "CONFIRM_BANK") /\ Word(h) = "yes"
          /\ accounts' = [accounts EXCEPT ![Copy(h).account].bank = TRUE] /\ MovesTo(h, "none")
  /\ UNCHANGED <<chat, claimed, session, quotes, noticeVars, historyVars, faults>>

\* Mutant: the password is asked for without the confirmation.
SellUnconfirmed(h) ==
  /\ InStep(h, "none") /\ Word(h) = "sell" /\ Ready(Copy(h)) /\ Me(h).bank
  /\ \E q \in QuoteIds :
       /\ quotes[q] = NoQuote /\ \A r \in 1..(q - 1) : quotes[r] # NoQuote
       /\ quotes' = [quotes EXCEPT ![q] = [account |-> Copy(h).account, trade |-> "none"]]
       /\ Saves(h, [Copy(h) EXCEPT !.at = "TX_PASSWORD", !.quote = q, !.trade = 0])
  /\ UNCHANGED <<chat, claimed, session, accounts, noticeVars, historyVars, faults>>

\* handle_sell_intent; the choice of a bank account is saved first.
Sell(h) ==
  /\ InStep(h, "none") /\ Word(h) = "sell" /\ Ready(Copy(h))
  /\ \/ (Replies(h) \/ (Me(h).bank /\ SavesThen(h, Copy(h), "act"))) /\ UNCHANGED quotes
     \/ /\ Me(h).bank
        /\ \E q \in QuoteIds :
             /\ quotes[q] = NoQuote /\ \A r \in 1..(q - 1) : quotes[r] # NoQuote
             /\ quotes' = [quotes EXCEPT ![q] = [account |-> Copy(h).account, trade |-> "none"]]
             /\ Saves(h, [Copy(h) EXCEPT !.at = "CONFIRMATION", !.quote = q, !.trade = 0])
  /\ UNCHANGED <<chat, claimed, session, accounts, noticeVars, historyVars, faults>>

Confirm(h) ==
  /\ InStep(h, "CONFIRMATION") /\ Word(h) = "yes"
  /\ asked' = [asked EXCEPT !.trade = @ \cup {Copy(h).quote}]
  /\ MovesTo(h, "TX_PASSWORD")
  /\ UNCHANGED <<chat, claimed, session, engineVars, handled, lapsed, faults>>

\* _handle_transaction_password, with a prompt that has expired or not.  The
\* answer that a trade was made may be lost; the repeated request is then
\* answered with a conflict, and the session forgets the trade.
TradePassword(h) ==
  /\ InStep(h, "TX_PASSWORD") /\ Word(h) # "status"
  /\ LET q == Copy(h).quote
         made == quotes' = [quotes EXCEPT ![q].trade = "open"]
     IN \/ MovesTo(h, "CONFIRMATION") /\ UNCHANGED <<quotes, faults>>
        \/ Word(h) = "text" /\ Me(h).password /\ quotes[q].trade = "none" /\ made
             /\ \/ Saves(h, [Copy(h) EXCEPT !.at = "DEPOSIT", !.trade = q]) /\ UNCHANGED faults
                \/ Saves(h, Cleared(Copy(h))) /\ Fault
        \/ Saves(h, Cleared(Copy(h))) /\ UNCHANGED <<quotes, faults>>   \* expired, preflight
        \/ MovesTo(h, "none") /\ UNCHANGED <<quotes, faults>>           \* locked, no password
  /\ UNCHANGED <<chat, claimed, session, accounts, noticeVars, historyVars>>

Trades(a, state) == {q \in QuoteIds : quotes[q].account = a /\ quotes[q].trade = state}

\* handle_status: without a trade in the session the engine is asked for one.
Status(h) ==
  /\ Acting(h) /\ ~ IsCommand(h)
  /\ \/ Copy(h).at = "none" /\ Word(h) = "status" /\ Ready(Copy(h))
     \/ Copy(h).at \in TradeSteps /\ Word(h) = "status"
     \/ Copy(h).at = "DEPOSIT"
  /\ LET q == Copy(h).trade
         active == Trades(Copy(h).account, "open")
         ended == Trades(Copy(h).account, "ended")
     IN IF q # 0
          THEN IF quotes[q].trade = "ended" THEN Saves(h, Cleared(Copy(h))) ELSE Replies(h)
        ELSE IF active # {}
          THEN \E t \in active : SavesThen(h, [Copy(h) EXCEPT !.trade = t], "act")
        ELSE IF ended # {} THEN Saves(h, Cleared(Copy(h))) ELSE Replies(h)
  /\ UNCHANGED <<chat, claimed, session, engineVars, historyVars, faults>>

TradeEnds(q) ==
  /\ quotes[q].trade = "open"
  /\ quotes' = [quotes EXCEPT ![q].trade = "ended"]
  /\ UNCHANGED <<chat, claimed, handler, session, accounts, noticeVars, historyVars, faults>>
-----------------------------------------------------------------------------
(***************************************************************************)
(* AccountControlFlow.                                                     *)
(***************************************************************************)
ConfirmDelete(h) ==
  /\ InStep(h, "CONFIRM_DELETE") /\ Word(h) = "yes"
  /\ asked' = [asked EXCEPT !.delete = @ \cup {Copy(h).account}]
  /\ MovesTo(h, "DELETE_PASSWORD")
  /\ UNCHANGED <<chat, claimed, session, engineVars, handled, lapsed, faults>>

DeleteAccount(h) ==
  /\ Word(h) = "text" /\ Me(h).password /\ ~ Me(h).erased /\ Trades(Copy(h).account, "open") = {}
  /\ accounts' = [accounts EXCEPT ![Copy(h).account].erased = TRUE,
                                  ![Copy(h).account].password = FALSE]
  /\ Deletes(h)

DeletePassword(h) ==
  /\ InStep(h, "DELETE_PASSWORD")
  /\ \/ DeleteAccount(h)
     \/ /\ \/ MovesTo(h, "CONFIRM_DELETE")   \* the prompt has expired
           \/ MovesTo(h, "none")             \* blocked by a trade, no deletion left
           \/ Deletes(h)                     \* locked
        /\ UNCHANGED accounts
  /\ UNCHANGED <<chat, claimed, session, quotes, noticeVars, historyVars, faults>>

HandlerStep(h) ==
  \/ LoadSession(h) \/ RehydrateSession(h) \/ SaveSession(h) \/ DeleteSession(h)
  \/ RouteCommand(h) \/ NotUnderstood(h)
  \/ FillForm(h) \/ submitKYC(h) \/ resubmitKYC(h) \/ PollKYC(h) \/ SetupPassword(h)
  \/ AddBank(h) \/ Sell(h) \/ Confirm(h) \/ TradePassword(h) \/ Status(h)
  \/ ConfirmDelete(h) \/ DeletePassword(h)

BotNext ==
  \/ \E h \in Handlers :
       HandlerStep(h) \/ HandlerFails(h) \/ \E m \in DOMAIN chat : claim(h, m)
  \/ \E m \in DOMAIN chat : ClaimRunsOut(m)
  \/ SessionExpires \/ ActivationWrites \/ NoticeSent \/ DeliveryFails
  \/ \E a \in AccountIds : KYCDecided(a) \/ ActivationReads(a)
  \/ \E q \in QuoteIds : TradeEnds(q)

BotSpec == BotInit /\ [][BotNext]_botVars
-----------------------------------------------------------------------------
\* The session, its copies and the engine's answers are well-formed.
BotTypeOK ==
  /\ chat \in Seq(Messages)
  /\ claimed \subseteq DOMAIN chat /\ lapsed \subseteq DOMAIN chat
  /\ handler \in [Handlers -> Requests]
  /\ session \in Sessions
  /\ accounts \in [AccountIds -> BotUsers]
  /\ quotes \in [QuoteIds -> [account : AccountIds \cup {0}, trade : {"none", "open", "ended"}]]
  /\ notices \subseteq AccountIds /\ courier \in Couriers
  /\ handled \in [DOMAIN chat -> Nat]
  /\ asked \in [trade : SUBSET QuoteIds, delete : SUBSET AccountIds]
  /\ faults \in Nat

\* A message that comes with an id is handled once, however often it is delivered
\* and whatever becomes of its handler, unless the claim on it has run out.  (One
\* without an id is handled at every delivery.)
HandledOnce ==
  \A m \in DOMAIN chat : chat[m].named /\ handled[m] > 1 => m \in lapsed

\* The engine makes a trade only of a quote the user has confirmed, and erases
\* only an account the user has asked to delete: concurrent handlers, commands
\* in the middle of a conversation and notifications never carry the answer to
\* one prompt over to another.
EffectsConfirmed ==
  /\ \A q \in QuoteIds : quotes[q].trade # "none" => q \in asked.trade
  /\ \A a \in AccountIds : accounts[a].erased => a \in asked.delete

\* The session treats the user as set up only if the account it refers to has
\* been approved and has had a password.
ReadyIsEarned ==
  Ready(session) => accounts[session.account].approved /\ accounts[session.account].secured
=============================================================================
