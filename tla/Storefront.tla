----------------------------- MODULE Storefront -----------------------------
(***************************************************************************)
(* What a merchant sells: the merchant and the review of its papers, one   *)
(* restaurant with its menu, the customer's proof of age, and checkouts    *)
(* that read all of it.  Administrators' requests check that a row exists  *)
(* and write it by id later; a checkout reads table after table and places *)
(* its order at the end.  Payments and prices of delivery are in Orders    *)
(* and Pricing; texts, places, opening hours, minimum and maximum numbers  *)
(* of options (which nothing checks at checkout) are left out.             *)
(***************************************************************************)
EXTENDS Naturals, Sequences

CONSTANTS
  Workers,
  Items,    \* menu items (or products: on is active and in stock)
  Prices,
  Extras,   \* prices of an item's modifier option
  None,     \* an option that is unavailable or deleted
  MaxOps    \* bound: requests

VARIABLES
  merchant,  \* Merchant.status, or "deleted"
  kyc,       \* its MerchantKyc row: [status, papers], "NONE" before there is one
  store,     \* "on" (isActive), "off" or "deleted"
  category,  \* the one MenuCategory of the items, likewise
  items,     \* [Items -> [state, price, extra]]
  ages,      \* AgeVerification rows of the customer, oldest first
  placed,    \* orders placed
  op, left

rows == <<merchant, kyc, store, category, items, ages>>
vars == <<rows, placed, op, left>>

Idle == [pc |-> "idle", kind |-> None, to |-> None, item |-> None, amount |-> None,
         row |-> None, seen |-> None, basket |-> {}, lines |-> None]

Item(state) == [state |-> state, price |-> CHOOSE p \in Prices : TRUE, extra |-> None]

Init ==
  /\ merchant = "DRAFT" /\ kyc = [status |-> "NONE", papers |-> 0]
  /\ store = "on" /\ category = "on"
  /\ items \in [Items -> {Item("absent"), Item("on")}]
  /\ ages = << >> /\ placed = 0
  /\ op = [w \in Workers |-> Idle] /\ left = MaxOps

At(w, pc) == op[w].pc = pc

Become(w, self) == op' = [op EXCEPT ![w] = self]

Goto(w, pc, lines) == Become(w, [op[w] EXCEPT !.pc = pc, !.lines = lines])

Done(w) == Become(w, Idle)

Accept(w, self) ==
  /\ At(w, "idle") /\ left > 0 /\ left' = left - 1
  /\ Become(w, self)
  /\ UNCHANGED <<rows, placed>>

-----------------------------------------------------------------------------
\* AdminStoresService, AdminMenuService, AdminProductsService, AdminMerchantsService:
\* the row is there and not deleted.
Living(state) == state \notin {"absent", "deleted"}

Writing(kind, to) == [Idle EXCEPT !.pc = "write", !.kind = kind, !.to = to]

StoreStart(w, to) == Living(store) /\ Accept(w, Writing("store", to))

CategoryStart(w, to) ==
  /\ Living(store) /\ Living(category)
  /\ Accept(w, Writing("category", to))

ItemStart(w, i, to) ==
  /\ Living(store) /\ Living(items[i].state)
  /\ Accept(w, [Writing("item", to) EXCEPT !.item = i])

CreateItemStart(w, i) ==
  /\ Living(store) /\ Living(category) /\ items[i].state = "absent"
  /\ Accept(w, [Writing("create", "on") EXCEPT !.item = i])

PriceStart(w, i, price) ==
  /\ Living(store) /\ Living(items[i].state)
  /\ Accept(w, [Writing("price", None) EXCEPT !.item = i, !.amount = price])

OptionStart(w, i, extra) ==
  /\ Living(store) /\ Living(items[i].state)
  /\ Accept(w, [Writing("extra", None) EXCEPT !.item = i, !.amount = extra])

MerchantStart(w, to) == Living(merchant) /\ Accept(w, Writing("merchant", to))

\* A deleted row keeps its deletedAt, whatever else is written to it.
Now(state, to) == IF state = "deleted" THEN state ELSE to

\* deleteCategory deletes the items it finds, in one transaction.
Cascaded(to) ==
  IF to # "deleted" THEN items
  ELSE [i \in Items |-> IF Living(items[i].state) THEN [items[i] EXCEPT !.state = to] ELSE items[i]]

ItemAfter(row, self) ==
  CASE self.kind = "price" -> [row EXCEPT !.price = self.amount]
    [] self.kind = "extra" -> [row EXCEPT !.extra = self.amount]
    [] OTHER               -> [row EXCEPT !.state = Now(@, self.to)]

Write(w) ==
  LET self == op[w] IN
  /\ At(w, "write") /\ Done(w)
  /\ store' = IF self.kind = "store" THEN Now(store, self.to) ELSE store
  /\ category' = IF self.kind = "category" THEN Now(category, self.to) ELSE category
  /\ merchant' = IF self.kind = "merchant" THEN Now(merchant, self.to) ELSE merchant
  /\ items' = IF self.kind = "category" THEN Cascaded(self.to)
              ELSE IF self.item \in Items
              THEN [items EXCEPT ![self.item] = ItemAfter(@, self)]
              ELSE items
  /\ UNCHANGED <<kyc, ages, placed, left>>

-----------------------------------------------------------------------------
\* MerchantKycService.  Each writing of papers makes papers nobody has seen.
PapersStart(w, to) ==
  /\ Living(merchant) /\ kyc.status \notin {"PENDING", "APPROVED"}
  /\ Accept(w, [Writing("kyc", to) EXCEPT !.pc = "papers"])

\* A review has written the row and not committed; another write waits.
Locked == \E w \in Workers : At(w, "commit") \/ At(w, "promote")

\* upsertDraft or submit: by merchant id, whatever has become of the row.
PutPapers(w) ==
  /\ At(w, "papers") /\ ~Locked /\ Done(w)
  /\ kyc' = [status |-> op[w].to, papers |-> kyc.papers + 1]
  /\ UNCHANGED <<merchant, store, category, items, ages, placed, left>>

Reviewable == kyc.status = "PENDING"

ReviewStart(w, decision) ==
  /\ Living(merchant) /\ Reviewable
  /\ Accept(w, [Writing("kyc", decision) EXCEPT !.pc = "review", !.seen = kyc.papers])

Promotable == merchant = "DRAFT"

\* The transaction writes the kyc row and reads the merchant; one that was a draft is
\* activated by id, whatever it has become, with the commit.
Review(w) ==
  /\ At(w, "review") /\ ~Locked
  /\ Goto(w, IF op[w].to = "APPROVED" /\ Promotable THEN "promote" ELSE "commit", None)
  /\ UNCHANGED <<rows, placed, left>>

Commit(w) ==
  /\ At(w, "commit") \/ At(w, "promote")
  /\ Done(w)
  /\ kyc' = [kyc EXCEPT !.status = op[w].to]
  /\ merchant' = IF At(w, "promote") THEN Now(merchant, "ACTIVE") ELSE merchant
  /\ UNCHANGED <<store, category, items, ages, placed, left>>

-----------------------------------------------------------------------------
\* AgeVerificationService.
Latest == IF ages = << >> THEN None ELSE Len(ages)

AgeStart(w) == Accept(w, [Writing("age", "PENDING") EXCEPT !.pc = "age", !.row = Latest])

\* A first submission inserts a row; a later one overwrites the one it found.
SubmitAge(w) ==
  LET n == op[w].row IN
  /\ At(w, "age") /\ Done(w)
  /\ ages' = IF n = None THEN Append(ages, [status |-> "PENDING", document |-> 1])
             ELSE [ages EXCEPT ![n] = [status |-> "PENDING", document |-> @.document + 1]]
  /\ UNCHANGED <<merchant, kyc, store, category, items, placed, left>>

\* An administrator decides on a document; the row may be in any state.
AgeReviewStart(w, n, decision) ==
  Accept(w, [Writing("age", decision) EXCEPT !.pc = "age_review", !.row = n,
                                             !.seen = ages[n].document])

AgeReview(w) ==
  /\ At(w, "age_review") /\ Done(w)
  /\ ages' = [ages EXCEPT ![op[w].row].status = op[w].to]
  /\ UNCHANGED <<merchant, kyc, store, category, items, placed, left>>

-----------------------------------------------------------------------------
\* MultiCheckoutService.place, for one vendor: the items asked for, each with its option
\* or all without, or goods sold from a certain age.
Sales == {"plain", "options", "restricted"}

Verified == ages # << >> /\ ages[Len(ages)].status = "VERIFIED"

CheckoutStart(w, basket, sale) ==
  Accept(w, [Writing("checkout", sale) EXCEPT !.basket = basket,
               !.pc = IF sale = "restricted" THEN "check_age" ELSE "find_store"])

CheckAge(w) ==
  /\ At(w, "check_age")
  /\ IF Verified THEN Goto(w, "find_store", None) ELSE Done(w)
  /\ UNCHANGED <<rows, placed, left>>

FindStore(w) ==
  /\ At(w, "find_store")
  /\ IF store = "on" THEN Goto(w, "find_items", None) ELSE Done(w)
  /\ UNCHANGED <<rows, placed, left>>

\* Mutation: an item that is unavailable can be bought.
NotDeleted(i) == Living(items[i].state)

Available(i) == items[i].state = "on"

\* One query for the items of the basket, all of which must be there.
FindItems(w) ==
  /\ At(w, "find_items")
  /\ IF \A i \in op[w].basket : Available(i)
     THEN Goto(w, "find_options", [i \in op[w].basket |-> [price |-> items[i].price, extra |-> None]])
     ELSE Done(w)
  /\ UNCHANGED <<rows, placed, left>>

\* Another for their options, which must be available if asked for.
Extra(w, i) == IF op[w].to = "options" THEN items[i].extra ELSE None

FindOptions(w) ==
  /\ At(w, "find_options")
  /\ IF op[w].to = "options" => \A i \in op[w].basket : Extra(w, i) # None
     THEN Goto(w, "place", [i \in op[w].basket |-> [op[w].lines[i] EXCEPT !.extra = Extra(w, i)]])
     ELSE Done(w)
  /\ UNCHANGED <<rows, placed, left>>

\* The order is inserted with the lines as they were read.
Place(w) ==
  /\ At(w, "place") /\ Done(w)
  /\ placed' = placed + 1
  /\ UNCHANGED <<rows, left>>

Next ==
  \E w \in Workers :
    \/ \E to \in {"on", "off", "deleted"} :
         StoreStart(w, to) \/ CategoryStart(w, to) \/ \E i \in Items : ItemStart(w, i, to)
    \/ \E to \in {"DRAFT", "ACTIVE", "SUSPENDED", "deleted"} : MerchantStart(w, to)
    \/ \E i \in Items :
         \/ CreateItemStart(w, i)
         \/ \E price \in Prices : PriceStart(w, i, price)
         \/ \E extra \in Extras \cup {None} : OptionStart(w, i, extra)
    \/ Write(w)
    \/ \E to \in {"NOT_STARTED", "PENDING"} : PapersStart(w, to)
    \/ \E decision \in {"APPROVED", "REJECTED"} : ReviewStart(w, decision)
    \/ PutPapers(w) \/ Review(w) \/ Commit(w)
    \/ AgeStart(w) \/ SubmitAge(w) \/ AgeReview(w)
    \/ \E n \in DOMAIN ages, decision \in {"VERIFIED", "REJECTED"} : AgeReviewStart(w, n, decision)
    \/ \E basket \in SUBSET Items \ {{}}, sale \in Sales : CheckoutStart(w, basket, sale)
    \/ CheckAge(w) \/ FindStore(w) \/ FindItems(w) \/ FindOptions(w) \/ Place(w)

Spec == Init /\ [][Next]_vars
-----------------------------------------------------------------------------
\* Every row has its shape.
TypeOK ==
  /\ merchant \in {"DRAFT", "ACTIVE", "SUSPENDED", "deleted"}
  /\ kyc \in [status: {"NONE", "NOT_STARTED", "PENDING", "APPROVED", "REJECTED"}, papers: Nat]
  /\ kyc.papers = 0 <=> kyc.status = "NONE"
  /\ {store, category} \subseteq {"on", "off", "deleted"}
  /\ items \in [Items -> [state: {"absent", "on", "off", "deleted"}, price: Prices,
                          extra: Extras \cup {None}]]
  /\ ages \in Seq([status: {"PENDING", "VERIFIED", "REJECTED"}, document: Nat \ {0}])
  /\ placed \in Nat /\ left \in 0..MaxOps
=============================================================================
