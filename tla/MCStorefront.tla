----------------------------- MODULE MCStorefront ----------------------------
(***************************************************************************)
(* Storefront with history variables: what was on offer while a checkout   *)
(* ran, what reviewers had before them, and the requests that got into     *)
(* each other's way.                                                       *)
(***************************************************************************)
EXTENDS Storefront

VARIABLES
  offers,   \* [Workers -> what there was to buy since the worker's checkout began]
  unfair,   \* an order was placed for what was never on offer like that meanwhile
  judged,   \* the papers the last approval was about
  checked,  \* the document each verification of an age was about
  revived,  \* an approval made a merchant active that was no draft
  mixed     \* subjects on which two requests overlapped

MCVars == <<vars, offers, unfair, judged, checked, revived, mixed>>

MCInit ==
  /\ Init
  /\ offers = [w \in Workers |-> {}] /\ unfair = FALSE
  /\ judged = 0 /\ checked = << >> /\ revived = FALSE /\ mixed = {}

Offer == [store |-> store, items |-> items, verified |-> Verified]

\* The order of w pays for every item what it cost, all at one moment, when all were
\* available, and for every option what it cost at one moment; its store was active and
\* its customer's age verified, if need be, at some moment.
Fair(w) ==
  LET lines == op[w].lines IN
  /\ \E o \in offers[w] : o.store = "on"
  /\ \E o \in offers[w] : \A i \in op[w].basket :
       o.items[i].state = "on" /\ o.items[i].price = lines[i].price
  /\ op[w].to = "options" =>
       \E o \in offers[w] : \A i \in op[w].basket : o.items[i].extra = lines[i].extra
  /\ op[w].to = "restricted" => \E o \in offers[w] : o.verified

Places(w) == At(w, "place") /\ placed' # placed /\ op'[w] = Idle

InFlight(w, kind) == op'[w].kind = kind

Overlaps ==
  {kind \in {"kyc", "age"} : \E v, w \in Workers : v # w /\ InFlight(v, kind) /\ InFlight(w, kind)}
    \cup {kind \in {"create"} : \E v, w \in Workers :
            InFlight(v, kind) /\ InFlight(w, "category") /\ op'[w].to = "deleted"}
    \cup {kind \in {"merchant"} : \E v, w \in Workers :
            InFlight(v, kind) /\ InFlight(w, "kyc") /\ op'[w].pc = "promote"}

Approves(w) ==
  (At(w, "commit") \/ At(w, "promote")) /\ op'[w] = Idle /\ op[w].to = "APPROVED"

MCNext ==
  /\ Next
  /\ offers' = [w \in Workers |->
       IF op'[w].kind # "checkout" THEN {}
       ELSE (IF op[w].kind = "checkout" THEN offers[w] ELSE {}) \cup {Offer'}]
  /\ unfair' = (unfair \/ \E w \in Workers : Places(w) /\ ~Fair(w))
  /\ judged' = IF \E w \in Workers : Approves(w)
               THEN op[CHOOSE w \in Workers : Approves(w)].seen ELSE judged
  /\ checked' = [n \in DOMAIN ages' |->
       IF \E w \in Workers : At(w, "age_review") /\ op[w].row = n /\ op'[w] = Idle
       THEN op[CHOOSE w \in Workers : At(w, "age_review") /\ op[w].row = n /\ op'[w] = Idle].seen
       ELSE IF n \in DOMAIN checked THEN checked[n] ELSE 0]
  /\ revived' = (revived \/ \E w \in Workers : Approves(w) /\ merchant # "DRAFT" /\ merchant' # merchant)
  /\ mixed' = mixed \cup Overlaps

MCSpec == MCInit /\ [][MCNext]_MCVars

\* An order costs what its items and options cost when it was made, and is made of what
\* was on sale then, however the menu, the store and the customer's proof of age change
\* between the checkout's queries.
OrdersAsOffered == ~unfair

\* No item on sale is in a deleted category, where no menu shows it and every checkout
\* sells it, unless it was created while its category was being deleted.
NoOrphanUnlessMixed ==
  category = "deleted" /\ "create" \notin mixed => \A i \in Items : ~Living(items[i].state)

\* A merchant is approved on the papers its reviewer saw, and approval makes drafts
\* active, never the suspended or the closed; an age is verified on the document the
\* reviewer saw, and a customer has one proof of age; all unless requests overlapped.
ReviewedAsSeenUnlessMixed ==
  /\ kyc.status = "APPROVED" /\ "kyc" \notin mixed => judged = kyc.papers
  /\ revived => "merchant" \in mixed
  /\ "age" \notin mixed =>
       /\ Len(ages) <= 1
       /\ \A n \in DOMAIN ages : ages[n].status = "VERIFIED" => checked[n] = ages[n].document
=============================================================================
