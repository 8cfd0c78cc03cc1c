------------------------------- MODULE Pricing -------------------------------
(***************************************************************************)
(* The quote engine, delivery pricing and the checkout's and the ride's    *)
(* use of a quote: an admin edits rules, the hour passes, a customer asks  *)
(* for a quote and later orders with it or without.  Parts are whole     *)
(* shillings.  Geometry is a distance; vehicles, weights and matching of   *)
(* coordinates, coupons (always zero) and display fields are left out.     *)
(***************************************************************************)
EXTENDS Integers, FiniteSets

CONSTANTS
  RuleIds,     \* delivery pricing rules the admin may keep
  Offers,      \* contents an admin gives a rule
  Hours,       \* hours of the day that occur
  Distances, Subtotals, Credits, Surcharges,
  ServiceFee,  \* the flat fee of a checkout
  MaxDistance, \* of the active delivery constraint
  None         \* no rule, quote or order

VARIABLES
  rules,   \* [RuleIds -> an offer or None]
  hour,
  quote,   \* the customer's latest quote, or None
  order    \* what the latest order or ride was charged, or None

vars == <<rules, hour, quote, order>>

Init ==
  /\ rules \in [RuleIds -> Offers \cup {None}]
  /\ hour \in Hours
  /\ quote = None /\ order = None

\* Mutation: credit above the price is not cut off.
SecondAlways(a, b) == b

Larger(a, b) == IF a > b THEN a ELSE b

-----------------------------------------------------------------------------
\* Selection of a rule: cheapest priority number, then the tightest band.

Fits(rule, service, distance) ==
  /\ rule # None /\ rule.enabled /\ rule.service = service
  /\ rule.min <= distance /\ distance <= rule.max

Ranks(a, b) ==
  \/ a.priority < b.priority
  \/ a.priority = b.priority /\ a.max - a.min <= b.max - b.min

Eligible(service, distance) == {rules[r] : r \in {q \in RuleIds : Fits(rules[q], service, distance)}}

\* Rules that tie come in the database's order: any may be first.
Best(service, distance) ==
  {a \in Eligible(service, distance) : \A b \in Eligible(service, distance) : Ranks(a, b)}

\* Rides without a rule of their own are priced like deliveries.
RideRules(distance) ==
  IF Best("RIDE", distance) # {} THEN Best("RIDE", distance) ELSE Best("DELIVERY", distance)

-----------------------------------------------------------------------------
\* Surge of a quarter, and a peak fee of a twentieth, rounded half up.

Surged(amount) ==
  IF hour \in (7..8) \cup (17..19) THEN (5 * amount + 2) \div 4 ELSE amount

Peak(amount) == IF hour \in (11..14) \cup (17..21) THEN (amount + 10) \div 20 ELSE 0

Earnings(rule, fee) ==
  [rider |-> rule.rider, platform |-> rule.commission + fee + Peak(Surged(rule.charge))]

CheckoutQuote(rule, subtotal, credit) ==
  LET fee  == Surged(rule.charge)
      earn == Earnings(rule, ServiceFee)
  IN [kind |-> "checkout", subtotal |-> subtotal, credit |-> credit,
      delivery |-> fee, service |-> ServiceFee, peak |-> Peak(fee),
      commission |-> rule.commission,
      merchant |-> Larger(0, subtotal - rule.commission),
      rider |-> earn.rider, platform |-> earn.platform,
      total |-> Larger(0, subtotal + fee + ServiceFee - credit) + Peak(fee),
      fresh |-> TRUE, used |-> FALSE]

RideQuote(rule, surcharge) ==
  LET heavy == [rule EXCEPT !.charge = @ + surcharge, !.rider = @ + surcharge]
      fare  == Surged(heavy.charge)
      earn  == Earnings(heavy, 0)
  IN [kind |-> "ride", subtotal |-> 0, credit |-> 0,
      delivery |-> fare, service |-> 0, peak |-> Peak(fare),
      commission |-> rule.commission, merchant |-> 0,
      rider |-> earn.rider, platform |-> earn.platform,
      total |-> fare + Peak(fare), fresh |-> TRUE, used |-> FALSE]

-----------------------------------------------------------------------------
AdminSetsRule(r, offer) ==
  /\ rules' = [rules EXCEPT ![r] = offer]
  /\ UNCHANGED <<hour, quote, order>>

\* An hour passes: a quote lives fifteen minutes.
HourPasses(h) ==
  /\ hour' = h
  /\ quote' = IF quote = None THEN None ELSE [quote EXCEPT !.fresh = FALSE]
  /\ UNCHANGED <<rules, order>>

\* Minutes pass, across the turn of an hour: the quote is still good.
HourTurns(h) == hour' = h /\ UNCHANGED <<rules, quote, order>>

QuoteCheckout(distance, subtotal, credit) ==
  /\ distance <= MaxDistance
  /\ \E rule \in Best("DELIVERY", distance) : quote' = CheckoutQuote(rule, subtotal, credit)
  /\ order' = None
  /\ UNCHANGED <<rules, hour>>

QuoteTransport(distance, surcharge) ==
  /\ \E rule \in RideRules(distance) : quote' = RideQuote(rule, surcharge)
  /\ order' = None
  /\ UNCHANGED <<rules, hour>>

Usable(kind) == quote # None /\ quote.kind = kind /\ quote.fresh /\ ~quote.used

\* The order's total from a quote and the cart: not the quote's own total.
QuotedTotal(q, subtotal) ==
  Larger(0, subtotal + q.delivery + q.service + q.peak - q.credit)

CheckoutWithQuote(subtotal) ==
  /\ Usable("checkout")
  /\ order' = [quoted |-> TRUE, subtotal |-> subtotal, total |-> QuotedTotal(quote, subtotal),
               rider |-> quote.rider, platform |-> quote.platform]
  /\ quote' = [quote EXCEPT !.used = TRUE]
  /\ UNCHANGED <<rules, hour>>

\* Without a quote one is made and used at once, and its commission alone is kept.
CheckoutFresh(distance, subtotal) ==
  /\ distance <= MaxDistance
  /\ \E rule \in Best("DELIVERY", distance) :
       LET q == CheckoutQuote(rule, subtotal, 0) IN
       /\ quote' = [q EXCEPT !.used = TRUE]
       /\ order' = [quoted |-> FALSE, subtotal |-> subtotal, total |-> q.total,
                    rider |-> q.rider, platform |-> q.commission]
  /\ UNCHANGED <<rules, hour>>

\* The ride is charged the quote's total, but priced anew first: no rule, no ride.
RideWithQuote(distance) ==
  /\ Usable("ride") /\ RideRules(distance) # {}
  /\ order' = [quoted |-> TRUE, subtotal |-> 0, total |-> quote.total,
               rider |-> quote.rider, platform |-> quote.platform]
  /\ quote' = [quote EXCEPT !.used = TRUE]
  /\ UNCHANGED <<rules, hour>>

\* Without a quote there is no peak fee.
RideFresh(distance, surcharge) ==
  /\ \E rule \in RideRules(distance) :
       order' = [quoted |-> FALSE, subtotal |-> 0, total |-> Surged(rule.charge + surcharge),
                 rider |-> rule.rider + surcharge, platform |-> rule.commission]
  /\ quote' = None
  /\ UNCHANGED <<rules, hour>>

Next ==
  \/ \E r \in RuleIds, offer \in Offers : AdminSetsRule(r, offer)
  \/ \E h \in Hours : HourPasses(h) \/ HourTurns(h)
  \/ \E d \in Distances :
       \/ \E s \in Subtotals :
            CheckoutFresh(d, s) \/ \E c \in Credits : QuoteCheckout(d, s, c)
       \/ \E x \in Surcharges : QuoteTransport(d, x) \/ RideFresh(d, x)
       \/ RideWithQuote(d)
  \/ \E s \in Subtotals : CheckoutWithQuote(s)

Spec == Init /\ [][Next]_vars

-----------------------------------------------------------------------------
Parts == {"total", "rider", "platform"}

\* Every amount kept is a natural number.
TypeOK ==
  /\ rules \in [RuleIds -> Offers \cup {None}] /\ hour \in Hours
  /\ quote # None => \A a \in Parts : quote[a] \in Nat
  /\ order # None => \A a \in Parts : order[a] \in Nat

\* A customer pays what they were quoted: whatever happens to the rules and the hour
\* in between, ordering the quoted cart with the quote costs the quoted total, which
\* checkout computes by a formula of its own.  They part ways only when wallet credit
\* exceeds what the quote let it cover.
PriceHonoured ==
  order # None /\ order.quoted /\ order.subtotal = quote.subtotal
  /\ quote.credit <= quote.subtotal + quote.delivery + quote.service
  => order.total = quote.total

\* Each rule's charge covers its rider pay and commission: nothing makes an admin see to that.
ChargesCover == \A offer \in Offers : offer.rider + offer.commission <= offer.charge

\* No quote promises the merchant, the rider and the platform more than the customer
\* pays and the wallet credits, as long as the rules' charges cover what they promise,
\* surge, peak fees, surcharges and credits included.
SplitCovered ==
  ChargesCover =>
    /\ quote # None => quote.merchant + quote.rider + quote.platform <= quote.total + quote.credit
    /\ order # None /\ ~order.quoted =>
         order.rider + order.platform <= order.total

=============================================================================
