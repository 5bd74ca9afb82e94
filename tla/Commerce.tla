------------------------------ MODULE Commerce ------------------------------
(***************************************************************************)
(* What a campaign is sold at, and who is told when its money runs low:    *)
(* the advertiser's rate cards (rateCards.service.ts), the pricing of a    *)
(* campaign and of its corrections (createForAdvertiser, updateForAdver-   *)
(* tiser), the budget warning every read of a campaign may send            *)
(* (maybeWarnBudgets) and the inboxes it lands in (notifications.          *)
(* service.ts).                                                            *)
(*                                                                         *)
(* Prices are whole rupees, kilometres whole kilometres; Network sells no  *)
(* kilometres. The wording of a campaign, its dates, zones, vehicles and   *)
(* artwork are left out.                                                   *)
(***************************************************************************)
EXTENDS Integers, Sequences

CONSTANTS
    Cards,          \* the rate cards operations may set: [prime, secondary : Nat]
    DefaultCard,    \* ADVERTISER_RATE
    Requested,      \* the kilometres asked for: [prime, secondary : Nat]
    Buyers,         \* requests of the advertiser that can be under way at once
    Openings,       \* reads of the campaign that can
    Inboxes,        \* the advertiser's logins
    MaxCards, MaxEdits, MaxSpend    \* how often things happen

Zones == {"prime", "secondary"}

ASSUME CommerceAssumption ==
    /\ Cards \cup Requested \cup {DefaultCard} \subseteq [Zones -> Nat]
    /\ {MaxCards, MaxEdits, MaxSpend} \subseteq Nat

VARIABLES
    rateCards,  \* advertiser_rate_cards, oldest first
    setter,     \* the request of operations that sets one
    order,      \* the row of campaigns
    buyers,     \* [Buyers -> a request of the advertiser]
    edits,      \* how many corrections there were
    spend,      \* the charges of the campaign's billable segments
    active,     \* the logins that are ACTIVE
    openings,   \* [Openings -> a read of the campaign]
    inbox       \* [Inboxes -> the warnings in it, TRUE when read]

commerceVars == <<rateCards, setter, order, buyers, edits, spend, active, openings, inbox>>

Rates == [Zones -> Nat]

NoOrder == [status |-> "NONE"]

(* The status is the one the campaign's life (Campaigns) gives it; LAPSED  *)
(* stands for every later one, and for a flight whose last day has passed. *)
OrderStatus == {"PENDING_APPROVAL", "ACTIVE", "LAPSED"}

Order == [status : OrderStatus, rates : Rates, km : Rates, zones : Rates, budget : Nat]

AtCounter == [at |-> "counter"]

CommerceTypeOK ==
    /\ rateCards \in Seq(Cards) /\ Len(rateCards) <= MaxCards
    /\ setter \in {AtCounter} \cup [at : {"create"}, card : Cards]
    /\ order \in {NoOrder} \cup Order
    /\ \A b \in Buyers : buyers[b] \in {AtCounter} \cup
          [at : {"create"}, km : Requested, rates : Rates] \cup
          [at : {"update"}, km : Requested, rates : Rates, saw : Order]
    /\ edits \in 0 .. MaxEdits
    /\ spend \in 0 .. MaxSpend
    /\ active \subseteq Inboxes
    /\ \A o \in Openings : openings[o] \in {AtCounter} \cup
          [at : {"status", "find", "users"}] \cup [at : {"insert"}, to : SUBSET Inboxes]
    /\ \A i \in Inboxes : inbox[i] \in Seq(BOOLEAN)

CommerceInit ==
    /\ rateCards = << >> /\ setter = AtCounter
    /\ order = NoOrder
    /\ buyers = [b \in Buyers |-> AtCounter] /\ edits = 0
    /\ spend = 0
    /\ active = Inboxes
    /\ openings = [o \in Openings |-> AtCounter]
    /\ inbox = [i \in Inboxes |-> << >>]

-----------------------------------------------------------------------------
(* Rate cards.                                                             *)

(* currentRates: the newest card, ADVERTISER_RATE before the first.        *)
CurrentRates == IF rateCards = << >> THEN DefaultCard ELSE rateCards[Len(rateCards)]

(* setFor: a card equal to the newest is not written again.                *)
BeginCard(card) ==
    /\ setter = AtCounter
    /\ Len(rateCards) < MaxCards
    /\ rateCards = << >> \/ card # CurrentRates
    /\ setter' = [at |-> "create", card |-> card]
    /\ UNCHANGED <<rateCards, order, buyers, edits, spend, active, openings, inbox>>

CreateCard ==
    /\ setter # AtCounter
    /\ rateCards' = Append(rateCards, setter.card)
    /\ setter' = AtCounter
    /\ UNCHANGED <<order, buyers, edits, spend, active, openings, inbox>>

-----------------------------------------------------------------------------
(* The campaign.                                                           *)

(* zoneBudgets.                                                            *)
ZoneBudgets(km, rates) == [z \in Zones |-> km[z] * rates[z]]

Total(zones) == zones["prime"] + zones["secondary"]

BeginCreate(b, km) ==
    /\ buyers[b] = AtCounter
    /\ order = NoOrder
    /\ buyers' = [buyers EXCEPT ![b] = [at |-> "create", km |-> km, rates |-> CurrentRates]]
    /\ UNCHANGED <<rateCards, setter, order, edits, spend, active, openings, inbox>>

(* One campaign is followed: a second would be a row of its own.           *)
CreateOrder(b) ==
    LET me == buyers[b]
        zones == ZoneBudgets(me.km, me.rates)
    IN  /\ me.at = "create"
        /\ order' = IF order # NoOrder THEN order
                    ELSE [status |-> "PENDING_APPROVAL", rates |-> me.rates, km |-> me.km,
                          zones |-> zones, budget |-> Total(zones)]
        /\ buyers' = [buyers EXCEPT ![b] = AtCounter]
        /\ UNCHANGED <<rateCards, setter, edits, spend, active, openings, inbox>>

(* Faulty: a correction is priced at the card of the day.                  *)
RatesOfToday(row) == CurrentRates

(* ratesFromCampaign.                                                      *)
RatesOf(row) == row.rates

BeginEdit(b, km) ==
    /\ buyers[b] = AtCounter
    /\ order.status = "PENDING_APPROVAL"
    /\ edits < MaxEdits
    /\ edits' = edits + 1
    /\ buyers' = [buyers EXCEPT ![b] =
          [at |-> "update", km |-> km, rates |-> RatesOf(order), saw |-> order]]
    /\ UNCHANGED <<rateCards, setter, order, spend, active, openings, inbox>>

(* A column the copy already has at its new value is not written.          *)
Written(row, saw, new) == [z \in Zones |-> IF new[z] = saw[z] THEN row[z] ELSE new[z]]

UpdateOrder(b) ==
    LET me == buyers[b]
        zones == ZoneBudgets(me.km, me.rates)
    IN  /\ me.at = "update"
        /\ order' = [order EXCEPT
              !.km = Written(order.km, me.saw.km, me.km),
              !.zones = Written(order.zones, me.saw.zones, zones),
              !.budget = IF Total(zones) = me.saw.budget THEN @ ELSE Total(zones)]
        /\ buyers' = [buyers EXCEPT ![b] = AtCounter]
        /\ UNCHANGED <<rateCards, setter, edits, spend, active, openings, inbox>>

(* What the campaign's life does to its status.                            *)
OrderMoves ==
    /\ order # NoOrder /\ order.status # "LAPSED"
    /\ order' = [order EXCEPT !.status = IF @ = "ACTIVE" THEN "LAPSED" ELSE "ACTIVE"]
    /\ UNCHANGED <<rateCards, setter, buyers, edits, spend, active, openings, inbox>>

(* A segment is billed, at the rates the row carries.                      *)
Drive(z) ==
    /\ order # NoOrder /\ order.status = "ACTIVE"
    /\ spend + order.rates[z] <= MaxSpend
    /\ spend' = spend + order.rates[z]
    /\ UNCHANGED <<rateCards, setter, order, buyers, edits, active, openings, inbox>>

-----------------------------------------------------------------------------
(* The warning.                                                            *)
AccountMoves(i) ==
    /\ active' = IF i \in active THEN active \ {i} ELSE active \cup {i}
    /\ UNCHANGED <<rateCards, setter, order, buyers, edits, spend, openings, inbox>>

(* withTotals: the campaign's row and its charges, 80% of the budget gone; *)
(* a card or an order of no rupees is one nobody is warned of.             *)
OpenCampaign(o) ==
    /\ openings[o] = AtCounter
    /\ order # NoOrder /\ order.status # "LAPSED"
    /\ order.budget > 0 /\ spend * 5 >= order.budget * 4
    /\ openings' = [openings EXCEPT ![o] = [at |-> "status"]]
    /\ UNCHANGED <<rateCards, setter, order, buyers, edits, spend, active, inbox>>

CheckStatus(o) ==
    /\ openings[o].at = "status"
    /\ openings' = [openings EXCEPT ![o] =
          IF order.status = "ACTIVE" THEN [at |-> "find"] ELSE AtCounter]
    /\ UNCHANGED <<rateCards, setter, order, buyers, edits, spend, active, inbox>>

(* Faulty: only an unread warning counts as sent.                          *)
UnreadOnly == \E i \in Inboxes : \E n \in DOMAIN inbox[i] : ~inbox[i][n]

(* notifyAdvertiserOnce: one row with this title and link, anybody's.      *)
AlreadyWarned == \E i \in Inboxes : inbox[i] # << >>

FindWarning(o) ==
    /\ openings[o].at = "find"
    /\ openings' = [openings EXCEPT ![o] = IF AlreadyWarned THEN AtCounter
                                           ELSE [at |-> "users"]]
    /\ UNCHANGED <<rateCards, setter, order, buyers, edits, spend, active, inbox>>

ListUsers(o) ==
    /\ openings[o].at = "users"
    /\ openings' = [openings EXCEPT ![o] = IF active = {} THEN AtCounter
                                           ELSE [at |-> "insert", to |-> active]]
    /\ UNCHANGED <<rateCards, setter, order, buyers, edits, spend, active, inbox>>

(* bulkCreate; an inbox that cannot be written must not fail the read.     *)
Warn(o) ==
    /\ openings[o].at = "insert"
    /\ inbox' = [i \in Inboxes |-> IF i \in openings[o].to THEN Append(inbox[i], FALSE)
                                   ELSE inbox[i]]
    /\ openings' = [openings EXCEPT ![o] = AtCounter]
    /\ UNCHANGED <<rateCards, setter, order, buyers, edits, spend, active>>

WarnFails(o) ==
    /\ openings[o].at = "insert"
    /\ openings' = [openings EXCEPT ![o] = AtCounter]
    /\ UNCHANGED <<rateCards, setter, order, buyers, edits, spend, active, inbox>>

MarkRead(i, n) ==
    /\ ~inbox[i][n]
    /\ inbox' = [inbox EXCEPT ![i][n] = TRUE]
    /\ UNCHANGED <<rateCards, setter, order, buyers, edits, spend, active, openings>>

MarkAllRead(i) ==
    /\ \E n \in DOMAIN inbox[i] : ~inbox[i][n]
    /\ inbox' = [inbox EXCEPT ![i] = [n \in DOMAIN @ |-> TRUE]]
    /\ UNCHANGED <<rateCards, setter, order, buyers, edits, spend, active, openings>>

-----------------------------------------------------------------------------
CommerceNext ==
    \/ \E card \in Cards : BeginCard(card)
    \/ CreateCard
    \/ \E b \in Buyers :
          \/ \E km \in Requested : BeginCreate(b, km) \/ BeginEdit(b, km)
          \/ CreateOrder(b) \/ UpdateOrder(b)
    \/ OrderMoves \/ \E z \in Zones : Drive(z)
    \/ \E i \in Inboxes :
          AccountMoves(i) \/ MarkAllRead(i) \/ \E n \in DOMAIN inbox[i] : MarkRead(i, n)
    \/ \E o \in Openings :
          OpenCampaign(o) \/ CheckStatus(o) \/ FindWarning(o) \/ ListUsers(o)
             \/ Warn(o) \/ WarnFails(o)

CommerceSpec == CommerceInit /\ [][CommerceNext]_commerceVars

-----------------------------------------------------------------------------
(* The budget of a campaign is always what its kilometres cost at the      *)
(* rates the campaign itself carries and its segments are billed at,       *)
(* however often operations change the advertiser's card around its        *)
(* creation and its corrections. Two corrections at once break it: each    *)
(* writes only the columns that differ from its own copy.                  *)
BudgetAtItsRates ==
    order # NoOrder =>
        /\ order.zones = ZoneBudgets(order.km, order.rates)
        /\ order.budget = Total(order.zones)

(* "The warning is written at most once per campaign so opening the list   *)
(* cannot flood the inbox" (the comment of maybeWarnBudgets): no login has *)
(* it twice, read or unread, and whoever came or went meanwhile. Two       *)
(* openings at once break it.                                              *)
WarnedOnce == \A i \in Inboxes : Len(inbox[i]) <= 1
=============================================================================
