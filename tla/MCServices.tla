---------------------------- MODULE MCServices ----------------------------
(***************************************************************************)
(* The parts of the system that share no state with a trade's processing:  *)
(* each has tables or keys of its own.  "active" is the part whose steps a *)
(* behaviour takes; the others stay in their initial states.               *)
(***************************************************************************)
EXTENDS NotificationOutbox, UserVerification, LedgerBalance, ReviewCases, RateLimiter,
        Pricing, BotConversation

VARIABLE active

Parts == {"outbox", "verification", "ledger", "review", "limiter", "pricing", "bot"}

AnyScript == CHOOSE s \in Scripts : TRUE
ServicesInit ==
  /\ active \in Parts
  /\ OutboxInit /\ VerificationInit /\ LedgerInit /\ ReviewInit /\ LimiterInit
  /\ PricingInit
  /\ \E s \in Scripts : BotStarts(s) /\ (active = "bot" \/ s = AnyScript)

ServicesNext ==
  \/ active = "outbox" /\ OutboxNext
       /\ UNCHANGED <<active, verificationVars, ledgerVars, reviewVars, limiterVars, pricingVars, botVars>>
  \/ active = "verification" /\ VerificationNext
       /\ UNCHANGED <<active, outboxVars, ledgerVars, reviewVars, limiterVars, pricingVars, botVars>>
  \/ active = "ledger" /\ LedgerNext
       /\ UNCHANGED <<active, outboxVars, verificationVars, reviewVars, limiterVars, pricingVars, botVars>>
  \/ active = "review" /\ ReviewNext
       /\ UNCHANGED <<active, outboxVars, verificationVars, ledgerVars, limiterVars, pricingVars, botVars>>
  \/ active = "limiter" /\ LimiterNext
       /\ UNCHANGED <<active, outboxVars, verificationVars, ledgerVars, reviewVars, pricingVars, botVars>>
  \/ active = "pricing" /\ PricingNext
       /\ UNCHANGED <<active, outboxVars, verificationVars, ledgerVars, reviewVars, limiterVars, botVars>>
  \/ active = "bot" /\ BotNext
       /\ UNCHANGED <<active, outboxVars, verificationVars, ledgerVars, reviewVars, limiterVars,
                     pricingVars>>

servicesVars == <<active, outboxVars, verificationVars, ledgerVars, reviewVars, limiterVars,
                  pricingVars, botVars>>
ServicesSpec == ServicesInit /\ [][ServicesNext]_servicesVars /\ OutboxFairness

\* The rows, keys, sessions and requests of all parts are well-formed.
ServicesTypeOK ==
  /\ OutboxTypeOK /\ VerificationTypeOK /\ LedgerTypeOK /\ ReviewTypeOK /\ LimiterTypeOK /\ PricingTypeOK
  /\ BotTypeOK
-----------------------------------------------------------------------------
Event(name, ref) == [subject |-> "trade", event |-> name, ref |-> ref]
MCOccurrences == {Event("DEPOSIT_CONFIRMED", "first"), Event("DEPOSIT_CONFIRMED", "second"),
                  Event("DEPOSIT_RECEIVED", "deposit")}

Report(provider, tier, verdict, named, own) ==
  [provider |-> provider, tier |-> tier, verdict |-> verdict, named |-> named, own |-> own]
MCCallKinds ==
  { Report("smile_id", 1, "APPROVED", "level", TRUE), Report("smile_id", 1, "PENDING", "level", FALSE),
    Report("sumsub", 1, "REJECTED", "none", TRUE), Report("sumsub", 2, "APPROVED", "none", TRUE),
    Report("sumsub", 2, "REJECTED", "level", TRUE), Report("sumsub", 2, "PENDING", "other", TRUE) }

MCPostings == [conversion |-> ConversionPostings(5, 0), second |-> ConversionPostings(7, 2),
               payout |-> PayoutPostings(4, "wallet")]

Said(words, named) == [i \in DOMAIN words |-> [word |-> words[i], named |-> named]]
Script(from, words) == [from |-> from, messages |-> Said(words, TRUE)]
ScriptWithoutIds(from, words) == [from |-> from, messages |-> Said(words, FALSE)]
MCScripts ==
  { Script("new", <<"hi", "text", "yes">>),
    Script("form", <<"text", "text">>), Script("form", <<"text", "bad">>),
    Script("verified", <<"text", "text">>), Script("verified", <<"text", "bad">>),
    Script("ready", <<"sell", "yes", "text">>), Script("ready", <<"sell", "status">>),
    Script("ready", <<"sell", "yes", "delete account">>),
    Script("ready", <<"delete account", "yes", "text">>),
    Script("ready", <<"add bank", "text", "bad">>), Script("ready", <<"add bank", "text", "yes">>),
    Script("ready", <<"banks", "hi">>), Script("ready", <<"add bank", "cancel">>),
    Script("ready", <<"use bank", "help">>),
    ScriptWithoutIds("verified", <<"text">>), ScriptWithoutIds("ready", <<"sell", "yes">>) }
=============================================================================
