---------------------------- MODULE ConsolePages ----------------------------
(***************************************************************************)
(* One operator at one management page of the console: src/app/console,    *)
(* with the hook that loads a listing (useApi), the dialog that asks       *)
(* before a dangerous change, the handlers that send a change and reload,  *)
(* and the panel that shows a new secret once.  Other operators and        *)
(* spending change the same rows meanwhile, and the answers of the browser *)
(* arrive in any order.                                                    *)
(*                                                                         *)
(* The listing is one row: how often it was written and the balance it     *)
(* carries.  A secret is the number of the change that made it.            *)
(***************************************************************************)
EXTENDS Naturals, FiniteSets

CONSTANTS
    MaxRowWrites,  \* bound: changes of the server's row
    MaxLoads,      \* bound: loads of the listing
    Blank          \* a model value: no data, no dialog, no change, no secret

ASSUME PagesAssumption ==
    MaxRowWrites \in Nat /\ MaxLoads \in Nat \ {0} /\ Blank \notin Nat

VARIABLES
    page,      \* the management page that is open
    row,       \* what the server holds: [writes, balance]
    query,     \* the path the rendered page asks of useApi
    stale,     \* the path or the nonce changed since the effect last ran
    view,      \* the hook's state: [path, data, error, loading]
    loads,     \* the loads whose answer has not come: [n, path, live, answer]
    started,   \* loads started so far
    dialog,    \* the change the dialog asks about
    change,    \* the change in flight: [op, stage, made]
    editing,   \* the balance the balance dialog was opened on
    secret,    \* the secret on the screen
    saved,     \* secrets the operator said were saved
    received,  \* secrets the server handed out to this page
    known      \* writes of the row up to the last change acknowledged here

pageVars == <<page, row, query, stale, view, loads, started, dialog, change,
              editing, secret, saved, received, known>>

Paths == {0, 1}             \* the page numbers of the listing
Balances == {0, 1}

\* How a change is made: at once or after a yes, and whether its answer
\* carries a secret.
Operation(asks, reveals) == [asks |-> asks, reveals |-> reveals]

\* channels/page.tsx
ChannelChanges ==
    [op \in {"create", "enable", "disable", "remove", "replaceKeys", "testAll"} |->
        Operation(op \notin {"create", "enable"}, FALSE)]

\* tokens/page.tsx
TokenChanges ==
    [op \in {"create", "rotate", "enable", "disable", "remove"} |->
        Operation(op \notin {"create", "enable"}, op \in {"create", "rotate"})]

\* users/page.tsx; "balance" is saved from a dialog of its own
UserChanges ==
    [op \in {"create", "changeRole", "toggle", "balance"} |->
        Operation(op \in {"changeRole", "toggle"}, FALSE)]

\* pricing/page.tsx
PricingChanges ==
    [op \in {"savePrice", "saveMapping", "saveRatio"} |-> Operation(TRUE, FALSE)]

\* redemption/page.tsx
RedemptionChanges == [op \in {"generate"} |-> Operation(TRUE, TRUE)]

OperationsOf ==
    [channels |-> ChannelChanges, tokens |-> TokenChanges, users |-> UserChanges,
     pricing |-> PricingChanges, redemption |-> RedemptionChanges]

Changes == OperationsOf[page]
Busy == change # Blank

-----------------------------------------------------------------------------
PagesInit ==
    /\ page \in DOMAIN OperationsOf
    /\ row = [writes |-> 0, balance |-> 0]
    /\ query = 0
    /\ stale = TRUE
    /\ view = [path |-> Blank, data |-> Blank, error |-> FALSE, loading |-> FALSE]
    /\ loads = {}
    /\ started = 0
    /\ dialog = Blank /\ change = Blank /\ editing = Blank /\ secret = Blank
    /\ saved = {} /\ received = {}
    /\ known = 0

\* What the hook returns for the path the page asks for: the data of another
\* path is not shown under it.
Shown ==
    IF view.path = query
      THEN [data |-> view.data, error |-> view.error, loading |-> view.loading]
      ELSE [data |-> Blank, error |-> FALSE, loading |-> TRUE]

\* The effect of useApi runs for a new path or nonce: it aborts the load of
\* the effect before, keeps the data of the same path and starts a load.
StartLoad ==
    /\ stale
    /\ started < MaxLoads
    /\ started' = started + 1
    /\ stale' = FALSE
    /\ view' = [path |-> query,
                data |-> IF view.path = query THEN view.data ELSE Blank,
                error |-> FALSE, loading |-> TRUE]
    /\ loads' = {[l EXCEPT !.live = FALSE] : l \in loads}
                  \cup {[n |-> started + 1, path |-> query, live |-> TRUE,
                         answer |-> Blank]}
    /\ UNCHANGED <<page, row, query, dialog, change, editing, secret, saved,
                   received, known>>

\* The server reads the row for a load.
AnswerLoad ==
    /\ \E l \in loads :
         /\ l.answer = Blank
         /\ loads' = (loads \ {l}) \cup {[l EXCEPT !.answer = row]}
    /\ UNCHANGED <<page, row, query, stale, view, started, dialog, change,
                   editing, secret, saved, received, known>>

\* A slip: an aborted load is heard too.
BadHears(l) == l \in loads

\* An aborted load is not heard.
Hears(l) == l.live

\* An answer reaches the browser, or the load fails, which keeps the data
\* that was there.
ReceiveLoad ==
    /\ \E l \in loads :
         /\ loads' = loads \ {l}
         /\ view' = IF ~Hears(l) THEN view
                    ELSE IF l.answer = Blank
                      THEN [view EXCEPT !.path = l.path, !.error = TRUE, !.loading = FALSE]
                    ELSE [path |-> l.path, data |-> l.answer, error |-> FALSE,
                          loading |-> FALSE]
    /\ UNCHANGED <<page, row, query, stale, started, dialog, change, editing,
                   secret, saved, received, known>>

Reload == stale' = TRUE /\ UNCHANGED query

\* Refresh, and a step to another page of the listing; both buttons rest
\* while a load runs.
Browse ==
    /\ ~Shown.loading
    /\ started < MaxLoads
    /\ \/ Reload
       \/ query' \in Paths \ {query} /\ stale' = TRUE
    /\ UNCHANGED <<page, row, view, loads, started, dialog, change,
                   editing, secret, saved, received, known>>

-----------------------------------------------------------------------------
\* A slip: the next secret may replace the one on the screen.
BadOffered(op) == ~Busy /\ dialog = Blank /\ editing = Blank

\* A button of the page works while no change runs, nothing modal is open
\* and, where the page reveals secrets, none waits on the screen.
Offered(op) ==
    /\ ~Busy /\ dialog = Blank /\ editing = Blank
    /\ page \in {"tokens", "redemption"} => secret = Blank

Send(op) == change' = [op |-> op, stage |-> "sent", made |-> Blank]

\* A click: the change is sent at once, or the dialog asks first.
Click ==
    /\ \E op \in DOMAIN Changes \ {"balance"} :
         /\ Offered(op)
         /\ IF Changes[op].asks
              THEN dialog' = op /\ UNCHANGED change
              ELSE Send(op) /\ UNCHANGED dialog
    /\ UNCHANGED <<page, row, query, stale, view, loads, started, editing,
                   secret, saved, received, known>>

\* The dialog's promise: yes sends the change, no drops it.
AnswerDialog ==
    /\ dialog # Blank
    /\ dialog' = Blank
    /\ \/ UNCHANGED change
       \/ Send(dialog)
    /\ UNCHANGED <<page, row, query, stale, view, loads, started, editing,
                   secret, saved, received, known>>

\* The balance dialog opens on the row the page shows.
OpenBalance ==
    /\ page = "users"
    /\ Offered("balance")
    /\ Shown.data # Blank
    /\ editing' = Shown.data.balance
    /\ UNCHANGED <<page, row, query, stale, view, loads, started, dialog, change,
                   secret, saved, received, known>>

\* It is closed, or saved: the change carries the balance that was seen.
LeaveBalance ==
    /\ editing # Blank /\ ~Busy
    /\ \/ editing' = Blank /\ UNCHANGED change
       \/ Send("balance") /\ UNCHANGED editing
    /\ UNCHANGED <<page, row, query, stale, view, loads, started, dialog,
                   secret, saved, received, known>>

\* The server applies the change that was sent, or refuses it: a balance
\* edit is refused when the balance is not the one the operator saw.
Apply ==
    /\ Busy /\ change.stage = "sent"
    /\ \/ /\ row.writes < MaxRowWrites
          /\ change.op = "balance" => editing = row.balance
          /\ \E balance \in IF change.op = "balance" THEN Balances ELSE {row.balance} :
               row' = [writes |-> row.writes + 1, balance |-> balance]
          /\ change' = [change EXCEPT !.stage = "applied", !.made = row'.writes]
       \/ /\ change' = [change EXCEPT !.stage = "refused"]
          /\ UNCHANGED row
    /\ UNCHANGED <<page, query, stale, view, loads, started, dialog, editing,
                   secret, saved, received, known>>

\* The answer of a change that was made: the secret is shown, the list is
\* loaded again.
Acknowledge ==
    /\ Busy /\ change.stage = "applied"
    /\ change' = Blank
    /\ known' = change.made
    /\ IF Changes[change.op].reveals
         THEN secret' = change.made /\ received' = received \cup {change.made}
         ELSE UNCHANGED <<secret, received>>
    /\ editing' = Blank
    /\ Reload
    /\ UNCHANGED <<page, row, view, loads, started, dialog, saved>>

\* The change was refused, or its answer was lost on the way back: the page
\* shows the error and only the balance dialog loads the list again.
Fail ==
    /\ Busy
    /\ change' = Blank
    /\ IF change.op = "balance" THEN Reload ELSE UNCHANGED <<query, stale>>
    /\ UNCHANGED <<page, row, view, loads, started, dialog, editing,
                   secret, saved, received, known>>

\* "I have saved it": only this takes a secret off the screen.
SaveSecret ==
    /\ secret # Blank
    /\ saved' = saved \cup {secret}
    /\ secret' = Blank
    /\ UNCHANGED <<page, row, query, stale, view, loads, started, dialog, change,
                   editing, received, known>>

\* Another operator, or spending, writes the row.
OtherWrites ==
    /\ row.writes < MaxRowWrites
    /\ \E balance \in Balances :
         row' = [writes |-> row.writes + 1, balance |-> balance]
    /\ UNCHANGED <<page, query, stale, view, loads, started, dialog, change,
                   editing, secret, saved, received, known>>

PagesNext ==
    \/ StartLoad \/ AnswerLoad \/ ReceiveLoad \/ Browse
    \/ Click \/ AnswerDialog \/ OpenBalance \/ LeaveBalance
    \/ Apply \/ Acknowledge \/ Fail \/ SaveSecret \/ OtherWrites

PagesSpec == PagesInit /\ [][PagesNext]_pageVars

-----------------------------------------------------------------------------
\* The page has nothing under way: its last render's effect ran and its load
\* was answered well.
Quiet == ~stale /\ ~Shown.loading /\ ~Shown.error

\* useApi (console/ui.tsx): a page at rest shows the row at least as the last
\* change acknowledged here left it, however late the answers of the loads
\* before it come in.
OwnChangesShow == Quiet => Shown.data # Blank /\ Shown.data.writes >= known

\* tokens/page.tsx and redemption/page.tsx show a secret only once: every one
\* the page received is on the screen or was said to be saved.
NoSecretIsLost == received \subseteq saved \cup {secret}

PagesAreCurrent == OwnChangesShow /\ NoSecretIsLost
=============================================================================
