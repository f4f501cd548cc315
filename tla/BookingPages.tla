----------------------------- MODULE BookingPages -----------------------------
(***************************************************************************)
(* The pages on which a visitor books and pays (apps/web: /book, /kiosk,   *)
(* /kiosk/pay, /kiosk/qr, /checkout, /bookings) and the one on which the    *)
(* staff books for a client (/admin/bookings/new).  Each choice sends       *)
(* requests that are never canceled: their answers come in any order, or   *)
(* not at all, and each one is shown when it comes.  The page sends no     *)
(* price: the server computes it again for the booking, then takes the     *)
(* payment from the wallet and the card.                                   *)
(*                                                                         *)
(* A place stands for a court and a date.  A person uses one surface, the  *)
(* web, the tablet of the club or the desk; on the tablet he pays there or *)
(* scans the QR code with his telephone.  What the desk books waits for a  *)
(* payment that no page of the site asks for.  What happens inside the     *)
(* payment is the matter of Checkout, the split one that of SplitPayments. *)
(***************************************************************************)
EXTENDS Availability

CONSTANTS
    Places,       \* courts, each on a date
    TariffRules,  \* rows that tariff_rules may hold
    Orders,       \* bookings
    Funds,        \* availableCents of the visitor's wallet at first
    Prefills      \* bound: starts that the planning fills in at the desk

ASSUME PagesAssumption ==
    /\ Funds \in Nat /\ Places # {} /\ None \notin Orders
    /\ IsFiniteSet(TariffRules)
    /\ \A r \in TariffRules :
        /\ {r.priority, r.id} \subseteq Int /\ r.capacity \in Nat
        /\ {r.total, r.each} \subseteq Nat \cup {None}

VARIABLES
    rates,    \* tariff_rules that are active
    page,     \* state of the page where the visitor chooses
    net,      \* answers on their way to the page
    orders,   \* bookings, with what the visitor had been told of each
    till,     \* state of the page /checkout
    funds,    \* availableCents of the wallet
    qrPage    \* state of the page /kiosk/qr

pagesVars == <<rates, page, net, orders, till, funds, qrPage>>

Steps == {"choose", "pay", "qr", "made"}
OrderStatus == {"absent", "session", "CHECKOUT_PENDING", "CONFIRMED", "CANCELED"}
Final == {"CONFIRMED", "CANCELED"}     \* TERMINAL_BOOKING_STATUSES

NoTill == [order |-> None, wallet |-> None, use |-> FALSE, moved |-> FALSE, paying |-> FALSE]
NoQr == [order |-> None, shown |-> "session", polls |-> {}, polling |-> FALSE, overtaken |-> FALSE]
NoOrder == [status |-> "absent", price |-> 0, told |-> None, doubt |-> FALSE, desk |-> FALSE,
            wallet |-> 0, card |-> 0, shown |-> [wallet |-> 0, card |-> 0], moved |-> FALSE]

PagesTypeOK ==
    /\ rates \subseteq TariffRules
    /\ page.surface \in {"web", "tablet", "desk"} /\ page.user \in BOOLEAN
    /\ page.place \in Places \cup {None} /\ page.step \in Steps /\ page.made \in Orders \cup {None}
    /\ {page.loading, page.fetching} \subseteq BOOLEAN /\ page.overtaken \in BOOLEAN /\ page.outdated \in BOOLEAN
    /\ \A o \in Orders : /\ orders[o].status \in OrderStatus
                         /\ {orders[o].price, orders[o].wallet, orders[o].card} \subseteq Nat
    /\ till.order \in Orders \cup {None} /\ till.wallet \in 0..Funds \cup {None}
    /\ funds \in 0..Funds
    /\ qrPage.order \in Orders \cup {None} /\ qrPage.polls \subseteq OrderStatus

\* a page that nobody has clicked on
Opened(surface, user) ==
    [surface |-> surface, user |-> user, place |-> None, start |-> None, duration |-> None, slots |-> {},
     quote |-> None, loading |-> FALSE, step |-> "choose", made |-> None, overtaken |-> FALSE,
     outdated |-> FALSE, prefill |-> None, fetching |-> TRUE]

-----------------------------------------------------------------------------
(* The server: pricing.quote and GET /availability *)
Price(place, start, duration) ==
    LET tariff == resolveTariff(rates, place, start, duration)
    IN  IF tariff = None THEN None ELSE tariff.total

Calendar == [opening |-> OpeningRules, durations |-> DurationRules, closures |-> {}, bookings |-> {}]
AskSlots(p) == [place |-> p, slots |-> getAvailability(Calendar, p)]
AskQuote(p, m, d) == [place |-> p, start |-> m, price |-> Price(p, m, d)]
QuotesOf(p, m, d) == IF None \in {p, m, d} THEN {} ELSE {AskQuote(p, m, d)}

-----------------------------------------------------------------------------
(* The visitor has clicked on a first place; the places are alike *)
FirstPlace == CHOOSE p \in Places : TRUE
PagesInit ==
    /\ rates = TariffRules
    /\ \E surface \in {"web", "tablet", "desk"}, user \in BOOLEAN, start \in Prefills \cup {None} :
            page = [Opened(surface, user) EXCEPT !.place = FirstPlace, !.prefill = start]
    /\ page.prefill # None => page.surface = "desk"
    /\ page.user = (page.surface = "desk") \/ page.surface = "web"
    /\ focus # "pages" => page.surface = "web" /\ page.user
    /\ net = [slots |-> {AskSlots(FirstPlace)}, quotes |-> {}]
    /\ orders = [o \in Orders |-> NoOrder]
    /\ till = NoTill /\ funds = Funds /\ qrPage = NoQr

\* createTariffRule and deactivateTariffRule, once the visitor has asked for a price
EditRates(r) ==
    /\ Request("pages")
    /\ net.quotes # {} \/ page.quote # None \/ page.step # "choose"
    /\ rates' \in {rates \cup {r}, rates \ {r}} /\ rates' # rates
    /\ page' = [page EXCEPT !.outdated = TRUE]
    /\ UNCHANGED <<net, orders, till, funds, qrPage>>

-----------------------------------------------------------------------------
(* The choices.  Another place: the effects on [courtId, dateISO] send both *)
(* requests; the tablet forgets the start, the web keeps it until the slots *)
(* are there.                                                               *)
choosePlace(p) ==
    /\ Request("pages")
    /\ page.step = "choose" /\ page.place # p
    /\ page' = [page EXCEPT !.place = p, !.quote = None, !.outdated = FALSE, !.fetching = TRUE,
                            !.start = IF page.surface = "web" THEN @ ELSE None,
                            !.duration = IF page.surface = "web" THEN @ ELSE None,
                            !.loading = @ \/ page.start # None]
    /\ net' = [slots |-> net.slots \cup {AskSlots(p)},
               quotes |-> net.quotes \cup QuotesOf(p, page.start, page.duration)]
    /\ UNCHANGED <<rates, orders, till, funds, qrPage>>

\* a start, offered when no slots are awaited, empties the duration and so the
\* quote; the duration then asks for one
chooseSlot(slot, d) ==
    /\ Request("pages")
    /\ page.step = "choose" /\ page.place # None
    /\ slot \in page.slots /\ d \in slot.durations
    /\ page.fetching => slot.start = page.start
    /\ page' = [page EXCEPT !.start = slot.start, !.duration = d, !.quote = None, !.loading = TRUE,
                            !.outdated = FALSE]
    /\ net' = [net EXCEPT !.quotes = @ \cup QuotesOf(page.place, slot.start, d)]
    /\ UNCHANGED <<rates, orders, till, funds, qrPage>>

\* whichever place the slots are for
SlotsAnswer(a) ==
    /\ Step("pages")
    /\ a \in net.slots /\ page.step = "choose" /\ page.surface # "desk"
    /\ LET kept == \E slot \in a.slots : slot.start = page.start
       IN  page' = [page EXCEPT !.slots = a.slots, !.fetching = FALSE,
                                !.start = IF kept \/ page.surface = "tablet" THEN @ ELSE None,
                                !.quote = IF kept \/ page.surface = "tablet" THEN @ ELSE None]
    /\ net' = [net EXCEPT !.slots = @ \ {a}]
    /\ UNCHANGED <<rates, orders, till, funds, qrPage>>

\* at the desk, the start comes back to the one of the planning; the price of the
\* start chosen meanwhile stays on the screen
DeskSlotsAnswer(a) ==
    /\ Step("pages")
    /\ a \in net.slots /\ page.step = "choose" /\ page.surface = "desk"
    /\ LET start == IF \E slot \in a.slots : slot.start = page.prefill THEN page.prefill ELSE page.start
           again == start # page.start
       IN  /\ page' = [page EXCEPT !.slots = a.slots, !.start = start, !.fetching = FALSE,
                                   !.overtaken = @ \/ (again /\ page.duration # None)]
           /\ net' = [slots |-> net.slots \ {a},
                      quotes |-> net.quotes \cup IF again THEN QuotesOf(page.place, start, page.duration)
                                                 ELSE {}]
    /\ UNCHANGED <<rates, orders, till, funds, qrPage>>

\* the web keeps the slots of the other place
SlotsLost(a) ==
    /\ Fault("pages")
    /\ a \in net.slots /\ page.step = "choose"
    /\ page' = [page EXCEPT !.fetching = FALSE, !.slots = IF page.surface = "web" THEN @ ELSE {}]
    /\ net' = [net EXCEPT !.slots = @ \ {a}]
    /\ UNCHANGED <<rates, orders, till, funds, qrPage>>

\* whichever slot the price is for: a price shown for a slot that is not the one
\* chosen now, or beside a request that is not answered yet, was overtaken
QuoteAnswer(a) ==
    /\ Step("pages")
    /\ a \in net.quotes /\ page.step = "choose"
    /\ page' = [page EXCEPT !.loading = FALSE,
                            !.quote = IF a.price # None THEN a.price
                                      ELSE IF page.surface = "web" THEN @ ELSE None,
                            !.overtaken = @ \/ net.quotes # {a} \/ a.place # page.place
                                            \/ a.start # page.start]
    /\ net' = [net EXCEPT !.quotes = @ \ {a}]
    /\ UNCHANGED <<rates, orders, till, funds, qrPage>>

QuoteLost(a) ==
    /\ Fault("pages")
    /\ a \in net.quotes /\ page.step = "choose"
    /\ page' = [page EXCEPT !.loading = FALSE, !.quote = IF page.surface = "web" THEN @ ELSE None,
                            !.overtaken = @ \/ net.quotes # {a}]
    /\ net' = [net EXCEPT !.quotes = @ \ {a}]
    /\ UNCHANGED <<rates, orders, till, funds, qrPage>>

-----------------------------------------------------------------------------
(* The booking *)
Chosen == page.step = "choose" /\ page.place # None /\ page.start # None /\ page.duration # None

\* createBooking computes the price again
create(o) ==
    LET price == Price(page.place, page.start, page.duration)
    IN  /\ price # None
        /\ orders' = [orders EXCEPT ![o] = [NoOrder EXCEPT !.status = "CHECKOUT_PENDING", !.price = price,
                                              !.told = page.quote, !.desk = page.surface = "desk",
                                              !.doubt = page.overtaken \/ page.outdated]]

\* handleConfirm: without a session, the visitor signs in and the page comes
\* back with the choice it kept in sessionStorage
signInFirst ==
    /\ Request("pages")
    /\ page.surface = "web" /\ Chosen /\ ~page.loading /\ page.quote # None
    /\ ~page.user
    /\ page' = [Opened("web", TRUE) EXCEPT !.place = page.place, !.start = page.start,
                                           !.duration = page.duration, !.loading = TRUE]
    /\ net' = [slots |-> {AskSlots(page.place)}, quotes |-> QuotesOf(page.place, page.start, page.duration)]
    /\ UNCHANGED <<rates, orders, till, funds, qrPage>>

handleConfirm(o) ==
    /\ Request("pages")
    /\ page.surface = "web" /\ Chosen /\ ~page.loading /\ page.quote # None
    /\ page.user /\ orders[o] = NoOrder
    /\ create(o)
    /\ page' = [page EXCEPT !.step = "made", !.made = o]
    /\ UNCHANGED <<rates, net, till, funds, qrPage>>

\* handleCreate, for the client the staff has found: the price is shown
handleCreate(o) ==
    /\ Request("pages")
    /\ page.surface = "desk" /\ Chosen /\ page.quote # None
    /\ orders[o] = NoOrder
    /\ create(o)
    /\ page' = [page EXCEPT !.step = "made", !.made = o]
    /\ UNCHANGED <<rates, net, till, funds, qrPage>>

\* the desk shows the participants of the booking; it does not open /checkout
BookingCreated ==
    /\ Step("pages")
    /\ page.step = "made" /\ page.surface = "desk"
    /\ page' = Opened("desk", TRUE)
    /\ net' = [slots |-> {}, quotes |-> {}]
    /\ UNCHANGED <<rates, orders, till, funds, qrPage>>

\* saveDraftAndGo: the tablet asks for a quote, not for the last one
saveDraftAndGo(path) ==
    /\ Request("pages")
    /\ page.surface = "tablet" /\ Chosen /\ page.quote # None
    /\ page' = [page EXCEPT !.step = path]
    /\ net' = [slots |-> {}, quotes |-> {}]
    /\ UNCHANGED <<rates, orders, till, funds, qrPage>>

\* /kiosk/pay: once signed in, the booking is created by the page itself
kioskPay(o) ==
    /\ Step("pages")
    /\ page.step = "pay" /\ orders[o] = NoOrder
    /\ create(o)
    /\ page' = [page EXCEPT !.step = "made", !.made = o]
    /\ UNCHANGED <<rates, net, till, funds, qrPage>>

\* the answer of POST /bookings: the draft is cleared and /checkout opens
BookingAnswer ==
    /\ Step("pages")
    /\ page.step = "made" /\ page.surface # "desk" /\ till.order = None
    /\ till' = [NoTill EXCEPT !.order = page.made]
    /\ page' = Opened(page.surface, page.surface = "web")
    /\ net' = [slots |-> {}, quotes |-> {}]
    /\ UNCHANGED <<rates, orders, funds, qrPage>>

\* the booking exists and the page does not know: the visitor may try again
BookingAnswerLost ==
    /\ Fault("pages")
    /\ page.step = "made"
    /\ page' = IF page.surface = "tablet" THEN Opened("tablet", FALSE)
               ELSE [page EXCEPT !.step = "choose", !.made = None]
    /\ UNCHANGED <<rates, net, orders, till, funds, qrPage>>

-----------------------------------------------------------------------------
(* /checkout: the booking is shown with its price, then the wallet *)
WalletAnswer ==
    /\ Step("pages")
    /\ till.order # None /\ till.wallet = None
    /\ till' = [till EXCEPT !.wallet = funds]
    /\ UNCHANGED <<rates, page, net, orders, funds, qrPage>>

useWallet ==
    /\ Request("pages")
    /\ till.wallet # None /\ till.wallet > 0 /\ ~till.paying
    /\ till' = [till EXCEPT !.use = ~@]
    /\ UNCHANGED <<rates, page, net, orders, funds, qrPage>>

\* credits spent elsewhere, a share or another booking, after the page has read them
FundsSpent ==
    /\ Request("pages")
    /\ funds > 0 /\ till.wallet # None
    /\ funds' = funds - 1
    /\ till' = [till EXCEPT !.moved = TRUE]
    /\ UNCHANGED <<rates, page, net, orders, qrPage>>

Least(a, b) == IF a < b THEN a ELSE b
walletAppliedCents == IF till.use THEN Least(till.wallet, orders[till.order].price) ELSE 0
remainingCents == orders[till.order].price - walletAppliedCents

\* handlePay, and what checkout does of it when the card is accepted; without a
\* card it refuses a rest to pay, and it refuses a booking paid or canceled
handlePay ==
    LET o == till.order
        applied == Least(walletAppliedCents, Least(funds, orders[o].price))
        rest == orders[o].price - applied
        accepted == orders[o].status = "CHECKOUT_PENDING" /\ (rest > 0 => remainingCents > 0)
    IN  /\ Request("pages")
        /\ o # None /\ ~till.paying
        /\ orders' = IF accepted
                     THEN [orders EXCEPT ![o] = [@ EXCEPT !.status = "CONFIRMED", !.wallet = applied,
                                !.card = rest, !.moved = till.moved,
                                !.shown = [wallet |-> walletAppliedCents, card |-> remainingCents]]]
                     ELSE orders
        /\ funds' = IF accepted THEN funds - applied ELSE funds
        /\ till' = [till EXCEPT !.paying = TRUE]
        /\ UNCHANGED <<rates, page, net, qrPage>>

\* CONFIRMED leads to /bookings/:id; an error stays on the page
PayAnswer ==
    /\ Step("pages")
    /\ till.paying
    /\ till' = IF orders[till.order].status = "CONFIRMED" THEN NoTill ELSE [till EXCEPT !.paying = FALSE]
    /\ UNCHANGED <<rates, page, net, orders, funds, qrPage>>

PayAnswerLost ==
    /\ Fault("pages")
    /\ till.paying
    /\ till' = [till EXCEPT !.paying = FALSE]
    /\ UNCHANGED <<rates, page, net, orders, funds, qrPage>>

\* handleCancel of /bookings/:id
handleCancel(o) ==
    /\ Request("pages")
    /\ orders[o].status = "CONFIRMED"
    /\ orders' = [orders EXCEPT ![o].status = "CANCELED"]
    /\ UNCHANGED <<rates, page, net, till, funds, qrPage>>

-----------------------------------------------------------------------------
(* /kiosk/qr: a session is created, the telephone that scans it books and   *)
(* pays, and the tablet asks for the status every three seconds             *)
kioskQr(o) ==
    /\ Step("pages")
    /\ page.step = "qr" /\ qrPage.order = None /\ orders[o] = NoOrder
    /\ orders' = [orders EXCEPT ![o].status = "session"]
    /\ qrPage' = [NoQr EXCEPT !.order = o, !.polling = TRUE]
    /\ UNCHANGED <<rates, page, net, till, funds>>

\* /kiosk-pay/:token: the signed-in telephone claims the session and goes on to /checkout
Claim ==
    /\ Request("pages")
    /\ qrPage.order # None /\ orders[qrPage.order].status = "session" /\ till.order = None
    /\ create(qrPage.order)
    /\ till' = [NoTill EXCEPT !.order = qrPage.order]
    /\ UNCHANGED <<rates, page, net, funds, qrPage>>

poll ==
    /\ Step("pages")
    /\ qrPage.polling /\ orders[qrPage.order].status \notin qrPage.polls
    /\ qrPage' = [qrPage EXCEPT !.polls = @ \cup {orders[qrPage.order].status}]
    /\ UNCHANGED <<rates, page, net, orders, till, funds>>

\* mutant: the interval stops at the first answer
PollOnce(s) ==
    /\ Step("pages")
    /\ s \in qrPage.polls
    /\ qrPage' = [qrPage EXCEPT !.shown = s, !.polls = @ \ {s}, !.polling = FALSE]
    /\ UNCHANGED <<rates, page, net, orders, till, funds>>

\* the interval stops at a final status; a slower answer is shown all the same
PollAnswer(s) ==
    /\ Step("pages")
    /\ s \in qrPage.polls
    /\ qrPage' = [qrPage EXCEPT !.shown = s, !.polls = @ \ {s},
                                !.polling = @ /\ s \notin Final,
                                !.overtaken = @ \/ (s \in Final /\ qrPage.polls # {s})]
    /\ UNCHANGED <<rates, page, net, orders, till, funds>>

PollLost(s) ==
    /\ Fault("pages")
    /\ s \in qrPage.polls
    /\ qrPage' = [qrPage EXCEPT !.polls = @ \ {s}]
    /\ UNCHANGED <<rates, page, net, orders, till, funds>>

\* back to the home of the tablet: the session is canceled if nobody claimed it
LeaveQr ==
    /\ Request("pages")
    /\ qrPage.order # None
    /\ orders' = [orders EXCEPT ![qrPage.order].status = IF @ = "session" THEN "CANCELED" ELSE @]
    /\ qrPage' = NoQr
    /\ page' = Opened("tablet", FALSE)
    /\ UNCHANGED <<rates, net, till, funds>>

-----------------------------------------------------------------------------
PagesNext ==
    \/ \E r \in TariffRules : EditRates(r)
    \/ \E p \in Places : choosePlace(p)
    \/ \E slot \in page.slots : \E d \in slot.durations : chooseSlot(slot, d)
    \/ \E a \in net.slots : SlotsAnswer(a) \/ DeskSlotsAnswer(a) \/ SlotsLost(a)
    \/ \E a \in net.quotes : QuoteAnswer(a) \/ QuoteLost(a)
    \/ signInFirst \/ BookingAnswer \/ BookingAnswerLost \/ BookingCreated
    \/ \E path \in {"pay", "qr"} : saveDraftAndGo(path)
    \/ \E o \in Orders : handleConfirm(o) \/ handleCreate(o) \/ kioskPay(o) \/ kioskQr(o) \/ handleCancel(o)
    \/ WalletAnswer \/ useWallet \/ FundsSpent \/ handlePay \/ PayAnswer \/ PayAnswerLost
    \/ Claim \/ poll \/ LeaveQr
    \/ \E s \in qrPage.polls : PollAnswer(s) \/ PollLost(s)

PagesSpec == BaseInit /\ PagesInit /\ [][PagesNext]_<<baseVars, pagesVars>>

-----------------------------------------------------------------------------
(* What is taken is what was shown, across pages that read at different     *)
(* moments and a server that reads again.  A payment takes the price that   *)
(* /checkout shows, from the wallet never more than announced, and from the *)
(* card more than announced only if credits were spent elsewhere after the  *)
(* page had read them (checkout.service.ts:105).  The price the visitor     *)
(* accepted on /book, or that the desk announced, is that of his booking    *)
(* unless a slower answer overtook it (at the desk also one that moved the  *)
(* start, admin/bookings/new/page.tsx:66) or the tariffs were edited        *)
(* meanwhile.  A booking that waits for its payment is open on a page, or   *)
(* its answer was lost, or the desk made it.  And a tablet that stopped     *)
(* asking shows how it ended, unless a slower answer overtook the last one  *)
(* (kiosk/qr/page.tsx:68-85).                                               *)
PaidIsShown ==
    /\ \A o \in Orders :
        orders[o].status = "CONFIRMED" =>
            /\ orders[o].wallet + orders[o].card = orders[o].price
            /\ orders[o].wallet <= orders[o].shown.wallet
            /\ orders[o].shown.wallet + orders[o].shown.card = orders[o].price
            /\ orders[o].card # orders[o].shown.card => orders[o].moved
    /\ \A o \in Orders :
        orders[o].told # None /\ ~orders[o].doubt => orders[o].told = orders[o].price
    /\ Cardinality({o \in Orders : orders[o].status = "CHECKOUT_PENDING" /\ ~orders[o].desk
                                   /\ o \notin {page.made, till.order}}) <= budget.faults
    /\ qrPage.order # None /\ ~qrPage.polling /\ ~qrPage.overtaken => qrPage.shown \in Final
=============================================================================
