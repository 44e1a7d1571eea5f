---------------------------- MODULE CheckoutPage ----------------------------
(***************************************************************************)
(* The checkout page of the storefront (CheckoutFlow, and the BFF between  *)
(* it and the API) on top of the checkout sessions.  One guest, one tab:   *)
(* the page keeps its session and its idempotency keys in sessionStorage,  *)
(* where they outlive it, and sends one request at a time.  The BFF gives  *)
(* a request up after a timeout; the API may serve it later, or never.     *)
(***************************************************************************)
EXTENDS Checkout

CONSTANTS
  Forms,      \* what a customer may enter: e-mail and addresses
  NoKey,      \* an empty entry of the storage
  MaxFaults   \* bound of the model: reloads, and requests without an answer

VARIABLES
  begun,   \* initiationRequestHash of each session: the form it began with
  page,    \* the page and its storage
  network, \* requests the API has not served
  agreed,  \* by order: what the page displayed when its button was pressed
  missed,  \* sessions that were priced again by a request nobody answered
  faults

pageVars == <<begun, page, network, agreed, missed, faults>>

NoForm   == "none"
Answer(kind) == [kind |-> kind, session |-> NoKey, status |-> "absent", quote |-> NoQuote]
NoAnswer == Answer("none")
Blank    == [phase |-> "loading", checkout |-> NoKey, shown |-> NoQuote, awaits |-> "none",
             answer |-> NoAnswer, storage |-> TRUE, id |-> NoKey, startKey |-> NoKey,
             confirmKey |-> NoKey, issued |-> {}]

\* A guest with one unit of everything in the cart opens the page.
PageInit ==
  /\ carts = [c \in CartIds |->
       IF c = 1 THEN [NoCart EXCEPT !.status = "ACTIVE", !.lines = [v \in Variants |-> 1]]
       ELSE NoCart]
  /\ addClaims = [o \in Owners |-> [k \in AddKeys |-> Unclaimed]]
  /\ renders = {}
  /\ available = Stock
  /\ sessions = [s \in Sessions |-> NoSession]
  /\ confirmations = [s \in Sessions |-> [k \in ConfirmKeys |-> "absent"]]
  /\ orders = <<>>
  /\ price = 0
  /\ begun = [s \in Sessions |-> NoForm]
  /\ \E storage \in BOOLEAN : page = [Blank EXCEPT !.storage = storage]
  /\ network = {} /\ agreed = <<>> /\ missed = {} /\ faults = 0

-----------------------------------------------------------------------------
(* What the customer does.                                                 *)
Idle == page.awaits = "none"

\* writeStorage and clearStorage do nothing where the storage is blocked.
Stored(p, id, startKey, confirmKey) ==
  IF p.storage
  THEN [p EXCEPT !.id = id, !.startKey = startKey, !.confirmKey = confirmKey] ELSE p

\* newKey: a random UUID, never one of before.
Fresh(S) == S \ page.issued

\* requestCheckout: the page waits for the answer.
Send(p, kind, s, k, form) ==
  /\ page' = [p EXCEPT !.awaits = kind, !.issued = @ \cup ({s, k} \ {NoKey})]
  /\ network' = network \cup {[kind |-> kind, session |-> s, key |-> k, form |-> form,
                               shown |-> p.shown, awaited |-> TRUE]}

ResetToForm(p) ==
  [Stored(p, NoKey, NoKey, NoKey) EXCEPT !.phase = "form", !.checkout = NoKey, !.shown = NoQuote]

Open ==
  /\ page.phase = "loading" /\ Idle
  /\ IF page.id = NoKey
     THEN page' = [page EXCEPT !.phase = "form"] /\ UNCHANGED network
     ELSE Send(page, "get", page.id, NoKey, NoForm)
  /\ UNCHANGED <<vars, begun, agreed, missed, faults>>

\* onContactSubmit
SubmitForm(form) ==
  /\ page.phase = "form" /\ Idle
  /\ \E s \in IF page.startKey = NoKey THEN Fresh(Sessions) ELSE {page.startKey} :
       Send(Stored(page, page.id, s, page.confirmKey), "start", s, NoKey, form)
  /\ UNCHANGED <<vars, begun, agreed, missed, faults>>

\* onConfirm
ClickConfirm ==
  /\ page.phase = "review" /\ Idle
  /\ \E k \in IF page.confirmKey = NoKey THEN Fresh(ConfirmKeys) ELSE {page.confirmKey} :
       Send([Stored(page, page.id, page.startKey, k) EXCEPT !.phase = "confirming"],
            "confirm", page.checkout, k, NoForm)
  /\ UNCHANGED <<vars, begun, agreed, missed, faults>>

\* onShippingSelection
ClickQuote ==
  /\ page.phase = "review" /\ Idle
  /\ Send(page, "select", page.checkout, NoKey, NoForm)
  /\ UNCHANGED <<vars, begun, agreed, missed, faults>>

\* "Start over": the page forgets its session, which keeps its hold.
StartOver ==
  /\ page.phase = "review" /\ Idle
  /\ page' = ResetToForm(page)
  /\ UNCHANGED <<vars, begun, network, agreed, missed, faults>>

\* The page is opened again: its memory is gone, its storage is not.
Reload ==
  /\ faults < MaxFaults
  /\ faults' = faults + 1
  /\ page' = [Blank EXCEPT !.storage = page.storage, !.id = page.id, !.issued = page.issued,
                           !.startKey = page.startKey, !.confirmKey = page.confirmKey]
  /\ network' = {[m EXCEPT !.awaited = FALSE] : m \in network}
  /\ UNCHANGED <<vars, begun, agreed, missed>>

-----------------------------------------------------------------------------
(* What the API does with a request, as CheckoutService says.              *)
Reply(m, answer) ==
  /\ network' = network \ {m}
  /\ page' = IF m.awaited THEN [page EXCEPT !.answer = answer] ELSE page
  /\ UNCHANGED faults

View(s) == [kind |-> "session", session |-> s,
            status |-> sessions'[s].status, quote |-> sessions'[s].quote]

Refuse(m, kind) == Reply(m, Answer(kind)) /\ UNCHANGED <<vars, begun, agreed, missed>>

\* Priced again by a request the page does not wait for any more, or while
\* one that it does not wait for any more is about to order.
Unseen(m) ==
  IF m.awaited /\ \A n \in network \ {m} : n.kind # "confirm" THEN missed
  ELSE missed \cup {m.session}

ServeStart(m) ==
  /\ m.kind = "start"
  /\ \/ /\ Start("guest", m.session)
        /\ begun' = [begun EXCEPT ![m.session] = m.form]
        /\ Reply(m, View(m.session))
        /\ UNCHANGED <<agreed, missed>>
     \/ /\ begun[m.session] = m.form
        /\ UNCHANGED <<vars, begun, agreed, missed>>
        /\ Reply(m, View(m.session))
     \/ /\ IF begun[m.session] # NoForm THEN begun[m.session] # m.form
           ELSE \A c \in CheckoutCart("guest") : ~Fits(carts[c].lines, available)
        /\ Refuse(m, "refused")

\* get and extend
ServeLook(m) ==
  LET s   == m.session
      due == sessions[s].status = "OPEN" /\ sessions[s].due
  IN  /\ m.kind \in {"get", "extend", "refresh"}
      /\ IF due THEN ExpireOnAccess("guest", s) ELSE UNCHANGED vars
      /\ IF m.kind = "extend" /\ (due \/ sessions[s].status # "OPEN")
         THEN Reply(m, Answer("refused")) ELSE Reply(m, View(s))
      /\ UNCHANGED <<begun, agreed, missed>>

ServeSelect(m) ==
  /\ m.kind = "select"
  /\ \/ /\ SelectShippingQuote("guest", m.session)
        /\ missed' = Unseen(m)
        /\ Reply(m, View(m.session))
        /\ UNCHANGED <<begun, agreed>>
     \/ /\ Confirmable("guest", m.session) => sessions[m.session].cart \notin CheckoutCart("guest")
        /\ Refuse(m, "refused")

\* A key that was claimed and not completed is taken for one in progress.
ConfirmInProgress(m) ==
  confirmations[m.session][m.key] = "claimed" /\ Refuse(m, "in progress")

ConfirmReplayed(m) ==
  /\ confirmations[m.session][m.key] = "completed"
  /\ Refuse(m, "ordered")

ConfirmRefused(m) ==
  LET s == m.session
  IN  /\ NewKey(s, m.key) /\ OrdersOf(s) = {}
      /\ \/ ~Confirmable("guest", s) /\ Refuse(m, "over")
         \/ /\ Confirmable("guest", s) /\ sessions[s].cart \notin CheckoutCart("guest")
            /\ Refuse(m, "refused")
         \/ /\ Confirmable("guest", s) /\ sessions[s].cart \in CheckoutCart("guest")
            /\ Shown(s) /\ ~Held(s) /\ Refuse(m, "over")

ServeConfirm(m) ==
  /\ m.kind = "confirm"
  /\ \/ ConfirmInProgress(m) \/ ConfirmReplayed(m) \/ ConfirmRefused(m)
     \/ /\ ConfirmOrdered("guest", m.session, m.key)
        /\ Reply(m, Answer("ordered"))
        /\ UNCHANGED <<begun, agreed, missed>>
     \/ /\ ConfirmRepriced("guest", m.session, m.key)
        /\ Reply(m, Answer("repriced"))
        /\ missed' = Unseen(m)
        /\ UNCHANGED <<begun, agreed>>
     \/ /\ Confirm("guest", m.session, m.key)
        /\ Reply(m, Answer("ordered"))
        /\ agreed' = Append(agreed, m.shown)
        /\ UNCHANGED <<begun, missed>>

-----------------------------------------------------------------------------
(* The BFF gives up, the connection breaks, or a request never arrives.    *)
AnswerLost ==
  /\ ~Idle /\ page.answer.kind # "lost"
  /\ faults < MaxFaults
  /\ faults' = faults + 1
  /\ page' = [page EXCEPT !.answer = Answer("lost")]
  /\ network' = {[m EXCEPT !.awaited = FALSE] : m \in network}
  /\ missed' = IF \/ page.answer.kind = "repriced"
                  \/ page.awaits = "select" /\ page.answer.kind = "session"
                  \/ page.awaits = "refresh"
               THEN missed \cup {page.checkout} ELSE missed
  /\ UNCHANGED <<vars, begun, agreed>>

RequestLost(m) ==
  /\ ~m.awaited
  /\ network' = network \ {m}
  /\ UNCHANGED <<vars, begun, page, agreed, missed, faults>>

-----------------------------------------------------------------------------
(* What the page does with the answer.                                     *)
Answered(kinds) == page.awaits \in kinds /\ page.answer # NoAnswer

ShowingStill(p) == p

Settled    == [page EXCEPT !.awaits = "none", !.answer = NoAnswer]
Showing(p) == [p EXCEPT !.shown = page.answer.quote]
IsSession  == page.answer.kind = "session"

\* The page opened: only an open session is gone on with, and extended once.
ResumeSession ==
  /\ Answered({"get"})
  /\ IF page.answer.status = "OPEN"
     THEN Send([Showing(Settled) EXCEPT !.checkout = page.id], "extend", page.id, NoKey, NoForm)
     ELSE page' = ResetToForm(Settled) /\ UNCHANGED network
  /\ UNCHANGED <<vars, begun, agreed, missed, faults>>

SessionExtended ==
  /\ Answered({"extend"})
  /\ page' = [IF IsSession THEN Showing(Settled) ELSE Settled EXCEPT !.phase = "review"]
  /\ UNCHANGED <<vars, begun, network, agreed, missed, faults>>

SessionStarted ==
  /\ Answered({"start"})
  /\ page' = IF IsSession
             THEN [Stored(Showing(Settled), page.answer.session, NoKey, page.confirmKey)
                     EXCEPT !.checkout = page.answer.session, !.phase = "review"]
             ELSE Settled
  /\ UNCHANGED <<vars, begun, network, agreed, missed, faults>>

\* The answer of a selection, and of the look after PRICE_CHANGED: without
\* one the page goes on showing what it showed.
QuoteShown ==
  /\ Answered({"select", "refresh"})
  /\ page' = [IF IsSession THEN Showing(Settled) ELSE Settled EXCEPT !.phase = "review"]
  /\ UNCHANGED <<vars, begun, network, agreed, missed, faults>>

ConfirmAnswered ==
  /\ Answered({"confirm"})
  /\ LET kind == page.answer.kind
     IN  IF kind = "repriced"
         THEN Send(Stored(Settled, page.id, page.startKey, NoKey),
                   "refresh", page.checkout, NoKey, NoForm)
         ELSE /\ page' =
                   IF kind = "ordered"
                   THEN [Stored(Settled, NoKey, page.startKey, NoKey) EXCEPT !.phase = "success"]
                   ELSE IF kind = "over" THEN ResetToForm(Settled)
                   ELSE [Settled EXCEPT !.phase = "review"]
              /\ UNCHANGED network
  /\ UNCHANGED <<vars, begun, agreed, missed, faults>>

-----------------------------------------------------------------------------
Customer ==
  \/ Open \/ Reload \/ ClickConfirm \/ ClickQuote \/ StartOver
  \/ \E form \in Forms : SubmitForm(form)

Page == ResumeSession \/ SessionExtended \/ SessionStarted \/ QuoteShown \/ ConfirmAnswered

Api ==
  \E m \in network : ServeStart(m) \/ ServeLook(m) \/ ServeSelect(m) \/ ServeConfirm(m)

Faults == AnswerLost \/ \E m \in network : RequestLost(m)

\* The cart is edited in another tab, prices change and holds come due.
Around ==
  /\ \/ \E v \in Variants, n \in Quantities : UpdateLine("guest", v, n) /\ UNCHANGED checkoutVars
     \/ PriceChanges
     \/ \E s \in Sessions : SweepHold(s) \/ HoldComesDue(s)
  /\ UNCHANGED pageVars

PageNext == Customer \/ Page \/ Api \/ Faults \/ Around
PageSpec == PageInit /\ [][PageNext]_<<vars, pageVars>>

-----------------------------------------------------------------------------
PageTypeOK ==
  /\ begun \in [Sessions -> Forms \cup {NoForm}]
  /\ page.phase \in {"loading", "form", "review", "confirming", "success"}
  /\ page.id \in Sessions \cup {NoKey} /\ page.startKey \in Sessions \cup {NoKey}
  /\ page.confirmKey \in ConfirmKeys \cup {NoKey}
  /\ missed \subseteq Sessions

(* The customer pays what the page displayed when its button was pressed,  *)
(* whatever was retried, reloaded or served late: it is otherwise only     *)
(* where a request that priced the session again got no answer.            *)
ChargedAsDisplayed ==
  \A i \in DOMAIN orders :
    orders[i].session \in missed \/ agreed[i] = [lines |-> orders[i].lines, price |-> orders[i].price]

(* docs/api-strategy.md:183-189: a replay returns the stored response, and *)
(* 409 is for requests with the same key that are served at the same time. *)
InProgressIsInProgress ==
  page.answer.kind = "in progress" => \E m \in network : m.kind = "confirm" /\ m.session = page.checkout
=============================================================================
