--------------------------- MODULE BillingSession ---------------------------
(***************************************************************************)
(* Billing of relay requests (service/billing_session.go,                  *)
(* funding_source.go, billing.go; controller/relay.go calls them): quota   *)
(* is taken from the token and from the wallet or a subscription before    *)
(* the request is sent upstream, corrected to the actual price when it     *)
(* succeeds, and given back by a goroutine of its own when it fails.       *)
(*                                                                         *)
(* A request is one goroutine.  Each database transaction is a step; in    *)
(* between, other requests of the same user and token run.  Any of the     *)
(* transactions may fail without effect, MaxFaults times in all.           *)
(***************************************************************************)
EXTENDS WalletBalance, Subscription

CONSTANTS Owner,       \* relayInfo.UserId of a request
          Tokens,      \* tokens.id
          TokenOf,     \* relayInfo.TokenId of a request
          Unlimited,   \* tokens with unlimited_quota
          InitToken,   \* tokens.remain_quota
          TrustQuota,  \* common.GetTrustQuota()
          Kinds,       \* what kinds of requests there are
          Estimates,   \* prices before the request
          Prices,      \* prices after the request
          MaxFaults,   \* bound on failing transactions
          SplitRefund  \* whether a refund may be committed by half

Preferences == {"wallet_only", "wallet_first", "subscription_only", "subscription_first",
                "qiniu"}

ASSUME BillingConstants ==
    /\ Owner \in [Requests -> Users]
    /\ TokenOf \in [Requests -> Tokens]
    /\ Unlimited \subseteq Tokens
    /\ InitToken \in [Tokens -> Nat]
    /\ TrustQuota \in Nat
    /\ Kinds \subseteq [pref : Preferences, playground : BOOLEAN, forced : BOOLEAN]
    /\ Estimates \subseteq Nat /\ Prices \subseteq Nat
    /\ MaxFaults \in Nat /\ SplitRefund \in BOOLEAN

VARIABLES sess,      \* the BillingSession of a request and where it is
          token,     \* tokens.remain_quota
          net,       \* history: what a request took from its funding source
          tokenNet,  \* history: what it took from its token
          faults,    \* transactions that failed
          hurt       \* history: requests that met one

vars == <<balanceVars, subVars, sess, token, net, tokenNet, faults, hurt>>

(* kind, estimate, seenToken are of the RelayInfo; the fields after them   *)
(* of the session.  consumed is funding.consumed, for a subscription       *)
(* preConsumed; want is the amount a step in progress is about.  answered  *)
(* (Settle was called) and actual (its argument) are history.              *)
NewSession ==
    [pc |-> "new",
     pref |-> "wallet_only", playground |-> FALSE, forced |-> FALSE,
     estimate |-> 0, seenToken |-> 0,
     funding |-> "wallet", want |-> 0, insufficient |-> FALSE,
     preConsumedQuota |-> 0, tokenConsumed |-> 0, consumed |-> 0,
     fundingSettled |-> FALSE, settled |-> FALSE, refunded |-> FALSE,
     attempts |-> 0, answered |-> FALSE, actual |-> 0]

Init ==
    /\ BalanceInit
    /\ SubscriptionInit
    /\ sess = [r \in Requests |-> NewSession]
    /\ token = InitToken
    /\ net = [r \in Requests |-> 0]
    /\ tokenNet = [r \in Requests |-> 0]
    /\ faults = 0
    /\ hurt = {}

-----------------------------------------------------------------------------
(* Steps.                                                                  *)

At(r, pc) == sess[r].pc = pc

(* The session of r goes on as s.                                          *)
Goto(r, s) == sess' = [sess EXCEPT ![r] = s]

(* The transaction of this step fails.                                     *)
Fault(r) ==
    /\ faults < MaxFaults
    /\ faults' = faults + 1
    /\ hurt' = hurt \cup {r}

NoFault == UNCHANGED <<faults, hurt>>

NoFunding == UNCHANGED <<balanceVars, subVars, net>>

NoToken == UNCHANGED <<token, tokenNet>>

(* DecreaseTokenQuota, and IncreaseTokenQuota when q is negative: one      *)
(* UPDATE without a check.                                                 *)
DecreaseTokenQuota(r, q) ==
    /\ token' = [token EXCEPT ![TokenOf[r]] = @ - q]
    /\ tokenNet' = [tokenNet EXCEPT ![r] = @ + q]

-----------------------------------------------------------------------------
(* Funding sources.                                                        *)

ByWallet(r) == sess[r].funding = "wallet"
ByQiniu(r) == sess[r].funding = "qiniu"
BySubscription(r) == sess[r].funding = "subscription"

WalletCovers(u, q) == BookedBalance(u, LegacyBackfill(u)) + Epsilon >= quotaToWalletAmount(q)

QiniuCovers(u, q) ==
    /\ quota[u] >= q
    /\ BookedBalance(u, SilentBackfill(u)) + Epsilon >= quotaToWalletAmount(q)

(* PreConsume of the funding sources; a wallet ignores an amount of 0.     *)
WalletPreConsume(r, q) ==
    /\ ByWallet(r)
    /\ IF q > 0 THEN debitBalanceByQuotaTx(Owner[r], q) ELSE UNCHANGED balanceVars
    /\ UNCHANGED subVars

QiniuPreConsume(r, q) ==
    /\ ByQiniu(r)
    /\ IF q > 0 THEN debitBalanceByQuotaSilentlyTx(Owner[r], q) ELSE UNCHANGED balanceVars
    /\ UNCHANGED subVars

SubscriptionPreConsume(r, q) ==
    /\ BySubscription(r)
    /\ PreConsumeUserSubscription(r, Owner[r], q)
    /\ UNCHANGED balanceVars

FundingPreConsume(r, q) ==
    /\ WalletPreConsume(r, q) \/ QiniuPreConsume(r, q) \/ SubscriptionPreConsume(r, q)
    /\ net' = [net EXCEPT ![r] = @ + q]

PreConsumeRefuses(r, q) ==
    \/ ByWallet(r) /\ q > 0 /\ ~WalletCovers(Owner[r], q)
    \/ ByQiniu(r) /\ q > 0 /\ ~QiniuCovers(Owner[r], q)
    \/ BySubscription(r) /\ ~CanPreConsume(Owner[r], q)

(* Settle of the funding sources, d not zero.  Only the Qiniu wallet may   *)
(* go into debt.                                                           *)
WalletSettle(r, d) ==
    /\ ByWallet(r)
    /\ IF d > 0 THEN debitBalanceByQuotaTx(Owner[r], d)
                ELSE creditBalanceByQuotaTx(Owner[r], -d)
    /\ UNCHANGED subVars

QiniuSettle(r, d) ==
    /\ ByQiniu(r)
    /\ IF d > 0 THEN debitBalanceByQuotaSilentlyAllowDebtTx(Owner[r], d)
                ELSE creditBalanceByQuotaSilentlyTx(Owner[r], -d)
    /\ UNCHANGED subVars

SubscriptionSettle(r, d) ==
    /\ BySubscription(r)
    /\ PostConsumeUserSubscriptionDelta(r, record[r].sub, d)
    /\ UNCHANGED <<record, balanceVars>>

FundingSettle(r, d) ==
    /\ WalletSettle(r, d) \/ QiniuSettle(r, d) \/ SubscriptionSettle(r, d)
    /\ net' = [net EXCEPT ![r] = @ + d]

SettleRefuses(r, d) ==
    \/ ByWallet(r) /\ d > 0 /\ ~WalletCovers(Owner[r], d)
    \/ BySubscription(r) /\ ~CanPostConsume(record[r].sub, d)

(* WalletFunding.consumed after Settle(d), which counts before it knows    *)
(* whether the debit succeeds, and the same of QiniuWalletFunding, which   *)
(* counts only then.                                                       *)
ConsumedAfterSettle(r, d, ok) ==
    CASE ByWallet(r) -> sess[r].consumed + d
      [] ByQiniu(r) /\ ok -> Positive(sess[r].consumed + d)
      [] OTHER -> sess[r].consumed

(* Refund() of the wallets.                                                *)
WalletRefund(r) ==
    LET q == sess[r].consumed
    IN  /\ \/ /\ q <= 0
              /\ UNCHANGED balanceVars
           \/ /\ ByWallet(r) /\ q > 0
              /\ creditBalanceByQuotaTx(Owner[r], q)
           \/ /\ ByQiniu(r) /\ q > 0
              /\ creditBalanceByQuotaSilentlyTx(Owner[r], q)
        /\ net' = [net EXCEPT ![r] = @ - Positive(q)]
        /\ UNCHANGED subVars

(* Refund() of a subscription, one attempt.                                *)
SubscriptionRefund(r) ==
    /\ RefundSubscriptionPreConsume(r)
    /\ net' = [net EXCEPT ![r] = @ - (IF record[r].status = "consumed"
                                      THEN record[r].amount ELSE 0)]
    /\ UNCHANGED balanceVars

-----------------------------------------------------------------------------
(* NewBillingSession.                                                      *)

(* A session on the wallet, and one on a subscription, which takes at      *)
(* least 1.  Both are fresh objects.                                       *)
tryWallet(s) ==
    [s EXCEPT !.pc = "wallet", !.funding = IF s.pref = "qiniu" THEN "qiniu" ELSE "wallet",
              !.want = 0, !.tokenConsumed = 0, !.insufficient = FALSE]

trySubscription(s) ==
    [s EXCEPT !.pc = "token", !.funding = "subscription",
              !.want = IF s.estimate > 0 THEN s.estimate ELSE 1, !.tokenConsumed = 0]

(* seenToken is the token quota that authentication put into the context.  *)
NewBillingSession(r) ==
    /\ At(r, "new")
    /\ \E k \in Kinds, e \in Estimates :
         LET s == [sess[r] EXCEPT !.pref = k.pref, !.playground = k.playground,
                                  !.forced = k.forced, !.estimate = e,
                                  !.seenToken = token[TokenOf[r]]]
         IN  Goto(r, IF \/ k.pref = "subscription_only"
                        \/ k.pref = "subscription_first" /\ HasActiveUserSubscription(Owner[r])
                     THEN trySubscription(s)
                     ELSE tryWallet(s))
    /\ NoFunding /\ NoToken /\ NoFault

shouldTrust(r) ==
    /\ ~sess[r].forced
    /\ ByWallet(r)
    /\ TrustQuota > 0
    /\ TokenOf[r] \in Unlimited \/ sess[r].seenToken > TrustQuota
    /\ quota[Owner[r]] > TrustQuota

(* The wallet must show enough quota; it is only read here.                *)
buildWalletSession(r) ==
    LET q == quota[Owner[r]]
        e == sess[r].estimate
        want == IF shouldTrust(r) THEN 0 ELSE e
    IN  /\ At(r, "wallet")
        /\ Goto(r, IF q > 0 /\ q >= e
                   THEN [sess[r] EXCEPT !.pc = IF want > 0 THEN "token" ELSE "funding",
                                        !.want = want]
                   ELSE IF sess[r].pref = "wallet_first"
                        THEN trySubscription(sess[r])
                        ELSE [sess[r] EXCEPT !.pc = "rejected"])
        /\ NoFunding /\ NoToken /\ NoFault

(* Only a check; another request may take the quota before the UPDATE.  A  *)
(* playground request has no token, and counts as if it had.               *)
PreConsumeTokenQuota(r) ==
    /\ At(r, "token")
    /\ Goto(r, IF sess[r].playground
               THEN [sess[r] EXCEPT !.pc = "funding", !.tokenConsumed = sess[r].want]
               ELSE [sess[r] EXCEPT !.pc =
                       IF TokenOf[r] \in Unlimited \/ token[TokenOf[r]] >= sess[r].want
                       THEN "tokenDebit" ELSE "rejected"])
    /\ NoFunding /\ NoToken /\ NoFault

preConsumeToken(r) ==
    /\ At(r, "tokenDebit")
    /\ \/ /\ DecreaseTokenQuota(r, sess[r].want)
          /\ Goto(r, [sess[r] EXCEPT !.pc = "funding", !.tokenConsumed = sess[r].want])
          /\ NoFault
       \/ /\ Goto(r, [sess[r] EXCEPT !.pc = "rejected"])
          /\ Fault(r)
          /\ NoToken
    /\ NoFunding

(* The user or token cannot be read.                                       *)
ReadFails(r) ==
    /\ At(r, "wallet") \/ (At(r, "token") /\ ~sess[r].playground)
    /\ Goto(r, [sess[r] EXCEPT !.pc = "rejected"])
    /\ Fault(r)
    /\ NoFunding /\ NoToken

(* When the list of subscriptions cannot be read the error is the same as  *)
(* when there is none.                                                     *)
preConsume(r) ==
    /\ At(r, "funding")
    /\ \/ /\ FundingPreConsume(r, sess[r].want)
          /\ Goto(r, [sess[r] EXCEPT !.pc = "relay", !.consumed = sess[r].want,
                                     !.preConsumedQuota = sess[r].want])
          /\ NoFault
       \/ /\ PreConsumeRefuses(r, sess[r].want)
          /\ Goto(r, [sess[r] EXCEPT !.pc = "rollback", !.insufficient = BySubscription(r)])
          /\ NoFunding /\ NoFault
       \/ /\ BySubscription(r) \/ sess[r].want > 0
          /\ \E b \in IF BySubscription(r) THEN BOOLEAN ELSE {FALSE} :
               Goto(r, [sess[r] EXCEPT !.pc = "rollback", !.insufficient = b])
          /\ Fault(r)
          /\ NoFunding
    /\ NoToken

(* The token quota goes back; subscription_first falls back to the wallet  *)
(* when the subscription has no room.                                      *)
rollbackToken(r) ==
    LET s == sess[r]
        takes == s.tokenConsumed > 0 /\ ~s.playground
    IN  /\ At(r, "rollback")
        /\ Goto(r, IF s.insufficient /\ s.pref = "subscription_first"
                   THEN tryWallet(s) ELSE [s EXCEPT !.pc = "rejected"])
        /\ \/ /\ takes
              /\ DecreaseTokenQuota(r, -s.tokenConsumed)
              /\ NoFault
           \/ /\ takes /\ Fault(r) /\ NoToken
           \/ /\ ~takes /\ NoToken /\ NoFault
        /\ NoFunding

-----------------------------------------------------------------------------
(* The outcome.                                                            *)

(* Settle, called when upstream has answered: the price is p.  When the    *)
(* funding source refuses, the request has been answered all the same and  *)
(* is charged what was pre-consumed.  (The Midjourney handler would ask    *)
(* for a refund then, but it settles exactly what it has pre-consumed.)    *)
Settle(r) ==
    /\ At(r, "relay")
    /\ \E p \in Prices :
         LET d == p - sess[r].preConsumedQuota
         IN  \/ /\ d = 0
                /\ Goto(r, [sess[r] EXCEPT !.pc = "done", !.settled = TRUE,
                                           !.answered = TRUE, !.actual = p])
                /\ NoFunding /\ NoFault
             \/ /\ d # 0
                /\ FundingSettle(r, d)
                /\ Goto(r, [sess[r] EXCEPT !.pc = "settleToken", !.fundingSettled = TRUE,
                                           !.want = d, !.answered = TRUE, !.actual = p,
                                           !.consumed = ConsumedAfterSettle(r, d, TRUE)])
                /\ NoFault
             \/ /\ d # 0
                /\ \/ SettleRefuses(r, d) /\ NoFault
                   \/ Fault(r)
                /\ Goto(r, [sess[r] EXCEPT !.pc = "done", !.answered = TRUE,
                                           !.consumed = ConsumedAfterSettle(r, d, FALSE)])
                /\ NoFunding
    /\ NoToken

(* The second half of Settle; an error is only logged.                     *)
settleToken(r) ==
    /\ At(r, "settleToken")
    /\ Goto(r, [sess[r] EXCEPT !.pc = "done", !.settled = TRUE])
    /\ \/ /\ ~sess[r].playground
          /\ DecreaseTokenQuota(r, sess[r].want)
          /\ NoFault
       \/ /\ ~sess[r].playground /\ Fault(r) /\ NoToken
       \/ /\ sess[r].playground /\ NoToken /\ NoFault
    /\ NoFunding

(* All attempts failed: the deferred function of Relay calls Refund.       *)
UpstreamFails(r) ==
    /\ At(r, "relay")
    /\ Goto(r, [sess[r] EXCEPT !.pc = "failed"])
    /\ NoFunding /\ NoToken /\ NoFault

(* Mutant: playground requests are skipped, as they have no token.         *)
needsRefundLocked_Token(r) ==
    /\ ~(sess[r].settled \/ sess[r].refunded \/ sess[r].fundingSettled)
    /\ sess[r].tokenConsumed > 0 /\ ~sess[r].playground

needsRefundLocked(r) ==
    /\ ~(sess[r].settled \/ sess[r].refunded \/ sess[r].fundingSettled)
    /\ sess[r].tokenConsumed > 0 \/ (BySubscription(r) /\ sess[r].consumed > 0)

Refund(r) ==
    /\ At(r, "failed")
    /\ Goto(r, IF needsRefundLocked(r)
               THEN [sess[r] EXCEPT !.pc = "refundFunding", !.refunded = TRUE]
               ELSE [sess[r] EXCEPT !.pc = "done"])
    /\ NoFunding /\ NoToken /\ NoFault

(* The goroutine that Refund starts.  An error of the first half is only   *)
(* logged.  Mutant: the token is forgotten.                                *)
refundWallet_NoToken(r) ==
    /\ At(r, "refundFunding")
    /\ ~BySubscription(r)
    /\ Goto(r, [sess[r] EXCEPT !.pc = "done"])
    /\ WalletRefund(r) /\ NoFault /\ NoToken

refundWallet(r) ==
    /\ At(r, "refundFunding")
    /\ ~BySubscription(r)
    /\ Goto(r, [sess[r] EXCEPT !.pc = "refundToken"])
    /\ \/ WalletRefund(r) /\ NoFault
       \/ sess[r].consumed > 0 /\ Fault(r) /\ NoFunding
    /\ NoToken

(* refundWithRetry: up to three attempts.                                  *)
maxAttempts == 3

RefundFailed(r) ==
    LET n == sess[r].attempts + 1
    IN  Goto(r, [sess[r] EXCEPT !.attempts = n,
                                !.pc = IF n < maxAttempts THEN @ ELSE "refundToken"])

refundWithRetry(r) ==
    /\ At(r, "refundFunding")
    /\ BySubscription(r)
    /\ \/ /\ SubscriptionRefund(r)
          /\ Goto(r, [sess[r] EXCEPT !.pc = "refundToken"])
          /\ NoFault
       \/ /\ RefundFailed(r) /\ Fault(r) /\ NoFunding
       \/ /\ SplitRefund
          /\ RefundHalfCommitted(r)
          /\ net' = [net EXCEPT ![r] = @ - record[r].amount]
          /\ RefundFailed(r) /\ Fault(r)
          /\ UNCHANGED balanceVars
    /\ NoToken

(* Mutant: a playground request, which has no token, gets it refunded too. *)
refundToken_Playground(r) ==
    /\ At(r, "refundToken")
    /\ Goto(r, [sess[r] EXCEPT !.pc = "done"])
    /\ DecreaseTokenQuota(r, -sess[r].tokenConsumed)
    /\ NoFault /\ NoFunding

refundToken(r) ==
    LET s == sess[r]
        takes == s.tokenConsumed > 0 /\ ~s.playground
    IN  /\ At(r, "refundToken")
        /\ Goto(r, [s EXCEPT !.pc = "done"])
        /\ \/ /\ takes
              /\ DecreaseTokenQuota(r, -s.tokenConsumed)
              /\ NoFault
           \/ /\ takes /\ Fault(r) /\ NoToken
           \/ /\ ~takes /\ NoToken /\ NoFault
        /\ NoFunding

-----------------------------------------------------------------------------
(* The gateway works on r; upstream answers or not.                        *)
Step(r) ==
    \/ buildWalletSession(r) \/ PreConsumeTokenQuota(r) \/ preConsumeToken(r)
    \/ ReadFails(r) \/ preConsume(r) \/ rollbackToken(r)
    \/ Settle(r) \/ settleToken(r) \/ UpstreamFails(r)
    \/ Refund(r) \/ refundWallet(r) \/ refundWithRetry(r) \/ refundToken(r)

SubscriptionStep ==
    /\ \E s \in Subs : PeriodEnds(s) \/ Expire(s) \/ ResetDueSubscriptions(s)
    /\ UNCHANGED <<balanceVars, sess, token, net, tokenNet, faults, hurt>>

Next ==
    \/ \E r \in Requests : NewBillingSession(r) \/ Step(r)
    \/ SubscriptionStep

Spec == Init /\ [][Next]_vars

(* Goroutines run, and every call they make ends.                          *)
LiveSpec == Spec /\ \A r \in Requests : WF_vars(Step(r))

-----------------------------------------------------------------------------
PCs == {"new", "wallet", "token", "tokenDebit", "funding", "rollback", "rejected", "relay",
        "settleToken", "failed", "refundFunding", "refundToken", "done"}

BillingTypeOK ==
    /\ BalanceTypeOK
    /\ SubscriptionTypeOK
    /\ token \in [Tokens -> Int]
    /\ net \in [Requests -> Int]
    /\ tokenNet \in [Requests -> Int]
    /\ faults \in 0 .. MaxFaults
    /\ hurt \subseteq Requests
    /\ \A r \in Requests : sess[r].pc \in PCs /\ sess[r].funding \in {"wallet", "qiniu", "subscription"}

(* Every column and session keeps its range, and the subscriptions show as *)
(* used what requests took from them in this period.                       *)
BillingBooks == BillingTypeOK /\ SubscriptionBooks

Ended(r) == sess[r].pc \in {"rejected", "done"}

(* What a request that has ended ought to have cost: its price when it was *)
(* settled, what was pre-consumed when the settlement was refused, nothing *)
(* when it failed or was never sent.                                       *)
Due(r) ==
    CASE sess[r].settled -> sess[r].actual
      [] sess[r].answered /\ ~sess[r].settled -> sess[r].preConsumedQuota
      [] OTHER -> 0

Failed(r) == sess[r].refunded \/ At(r, "failed") \/ At(r, "rejected")

(* A request none of whose transactions failed costs exactly what it       *)
(* ought to, on its funding source and on its token alike, whatever        *)
(* fallbacks, trusted bypasses and refusals it went through and whatever   *)
(* other requests did to the same accounts meanwhile.                      *)
ChargedExactly ==
    \A r \in Requests \ hurt :
        Ended(r) => /\ net[r] = Due(r)
                    /\ tokenNet[r] = IF sess[r].playground THEN 0 ELSE Due(r)

(* No request gets back more than was taken for it, failing transactions   *)
(* included: an error in one half of a settlement or refund, a price below *)
(* what was pre-consumed, a fallback to another funding source.            *)
NeverOverRefunded == \A r \in Requests : net[r] >= 0 /\ tokenNet[r] >= 0

(* Requests that run at the same time cannot overdraw a wallet, although   *)
(* each of them reads the quota before it takes any, and trusted ones take *)
(* nothing until they settle.  Only a settlement on the Qiniu wallet may   *)
(* leave a debt.                                                           *)
NoOverdraft ==
    \A u \in Users :
        \/ quota[u] >= 0
        \/ \E r \in Requests : Owner[r] = u /\ ByQiniu(r) /\ sess[r].fundingSettled

(* What a request in flight has pre-consumed from a subscription.          *)
HeldFrom(s, r) ==
    IF BySubscription(r) /\ At(r, "relay") /\ record[r].sub = s THEN record[r].amount ELSE 0

(* The refund of a subscription can be repeated: it gives back once what   *)
(* its own request pre-consumed, and never what other requests hold.       *)
RefundIdempotent ==
    periods = 0 => \A s \in Subs : used[s] >= SumFunction([r \in Requests |-> HeldFrom(s, r)])

(* A request that fails ends up costing nothing: the refund is carried     *)
(* out in the background, unless the database fails.                       *)
FailureCostsNothing ==
    \A r \in Requests :
        Failed(r) ~> (r \in hurt \/ (net[r] = 0 /\ tokenNet[r] = 0))
=============================================================================
