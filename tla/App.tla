-------------------------------- MODULE App --------------------------------
(***************************************************************************)
(* The web application (app/src) in one browser tab: its router, wallet,   *)
(* pages and caches, the election of a payout mint, with the service that  *)
(* stores it (module ElectionApi), and the launch of a coin.               *)
(*                                                                         *)
(* JavaScript runs to the next await, so an action here is what happens    *)
(* between two awaits.  External are the wallet extension, the RPC node    *)
(* and the network: a call is answered in the end, or fails.               *)
(***************************************************************************)
EXTENDS ElectionApi, Client

CONSTANTS
  Wallets,     \* accounts of the wallet extension
  Coins,       \* coins on the cards of a grid
  Parts,       \* what a card reads later: its coin's meta, market
  FirstPages,  \* pages the tab may be opened with
  ChunkSize,   \* addresses sent at once to a lookup table
  MaxClicks, MaxRoutes, MaxTime \* bounds on what the user does, on the calls
               \* of route it leads to, and on the clock

ASSUME AppAssumption ==
  /\ Electors = Wallets /\ Wallets # {}
  /\ 0 \in Epochs
  /\ ChunkSize \in Nat \ {0}
  /\ MaxTime \in Nat /\ MaxTime <= MaxNonce

VARIABLES
  hash,     \* the page the address bar names
  pk,       \* the page's copy of the wallet's key
  account,  \* the account selected in the wallet
  dom,      \* what is on the screen
  views,    \* calls of route that have not ended
  grid,     \* for each coin on a card that is shown: its missing parts
  cache,    \* for each coin and part: not asked for, being read, or read
  form,     \* the election page's picker and button
  posts,    \* submissions of elections that have not ended
  screen,   \* the launch page's launch screen
  attempts, \* launches that have not ended
  clicks, routes, time,
  \* auxiliary: no guard of the actions reads these
  told,      \* elections the page said were submitted, as they were sent
  launched,  \* coins launched, with the screen they were launched from
  failed,    \* launches that ended in an error, with their screen
  restarted  \* the service has been restarted

page == <<hash, pk, account, dom, views, grid, form, screen>>
aux == <<told, launched, failed, restarted>>
count == <<clicks, routes>>
vars == <<signed, elections, page, cache, posts, attempts, count, time, aux>>

----------------------------------------------------------------------------
(* The pages.  A page is rendered in stages, an await between one and the  *)
(* next.  The await of a stage is a read that "throws" when it fails, to   *)
(* the router; or is "caught", and ends the page with a message; or is     *)
(* "soft", a failure being ignored; "none" is no await.  Then the page may *)
(* stop, for what it found, with a message, which replaces the screen or   *)
(* is added to it; or it shows something in the same way, and goes on.     *)

Stage(read, stops, shows) == [read |-> read, stops |-> stops, shows |-> shows]

homePage == <<Stage("none", "never", "mount")>>

explorePage == <<Stage("none", "never", "mount"),
                 Stage("caught", "never", "append")>>

coinPage == <<Stage("none", "mount", "nothing"),
              Stage("throws", "mount", "nothing"),
              Stage("soft", "never", "nothing"),
              Stage("soft", "never", "nothing"),
              Stage("throws", "never", "mount")>>

minePage == <<Stage("none", "mount", "mount"),
              Stage("caught", "never", "append")>>

electionPage == <<Stage("none", "mount", "nothing"),
                  Stage("throws", "mount", "nothing"),
                  Stage("throws", "mount", "nothing"),
                  Stage("soft", "never", "mount")>>

launchPage == <<Stage("throws", "mount", "nothing"),
                Stage("throws", "mount", "mount")>>

roundPage == <<Stage("none", "mount", "nothing"),
               Stage("throws", "mount", "nothing"),
               Stage("soft", "never", "mount"),
               Stage("throws", "append", "nothing"),
               Stage("throws", "never", "append"),
               Stage("soft", "append", "append"),
               Stage("soft", "never", "append")>>

Pages == [home |-> homePage, explore |-> explorePage, coin |-> coinPage,
          mine |-> minePage, election |-> electionPage,
          launch |-> launchPage, round |-> roundPage]

(* A piece of the screen is a page and a stage of it, or one of these.     *)
Notice == 0
NotLoaded == -1
LaunchScreen == 10

Show(op, what) ==
  dom' = CASE op = "mount" -> {what}
           [] op = "append" -> dom \cup {what}
           [] OTHER -> dom

NoForm == [n |-> 0]
NoMessage == [nonce |-> 0]
NoScreen == [n |-> 0]
NoGrid == [c \in Coins |-> {}]

(* Whatever replaces the screen takes its cards, picker and buttons along. *)
Clear == /\ grid' = NoGrid
         /\ form' = NoForm
         /\ screen' = NoScreen

(* route, up to its first await.                                           *)
Route ==
  /\ routes < MaxRoutes
  /\ routes' = routes + 1
  /\ dom' = {<<"loading">>}
  /\ Clear
  /\ views' = views \cup {[n |-> clicks', page |-> hash', at |-> 1]}

Click == clicks < MaxClicks /\ clicks' = clicks + 1

Navigate(p) ==
  /\ Click
  /\ hash' = p
  /\ Route
  /\ UNCHANGED <<signed, elections, pk, account, cache, posts, attempts, time,
                 aux>>

----------------------------------------------------------------------------
(* The wallet: each change is an event, which calls route.                 *)

connect ==
  /\ Click
  /\ pk' = account
  /\ hash' = hash
  /\ Route
  /\ UNCHANGED <<signed, elections, account, cache, posts, attempts, time, aux>>

disconnect ==
  /\ Click
  /\ pk # "none"
  /\ pk' = "none"
  /\ hash' = hash
  /\ Route
  /\ UNCHANGED <<signed, elections, account, cache, posts, attempts, time, aux>>

(* The handler of accountChanged leaves pk as it is.                       *)
accountChanged(w) ==
  /\ Click
  /\ pk # "none"
  /\ account # w
  /\ account' = w
  /\ hash' = hash
  /\ Route
  /\ UNCHANGED <<signed, elections, pk, cache, posts, attempts, time, aux>>

----------------------------------------------------------------------------
(* Rendering.                                                              *)

Ended(v) == views' = views \ {v}

(* loadCoinMeta, loadMarket: a part that is read is shown at once, one     *)
(* that is being read is waited for with the others.                       *)
Ask(c, part) == IF cache[<<c, part>>] = "read" THEN "read" ELSE "reading"

(* The last stage of a page puts its cards, picker or form on the screen.  *)
LastStage(v) ==
  CASE v.page \in {"explore", "mine"} ->
         /\ cache' = [k \in Coins \X Parts |-> Ask(k[1], k[2])]
         /\ grid' = [c \in Coins |-> {x \in Parts : cache[<<c, x>>] # "read"}]
         /\ UNCHANGED <<form, screen>>
    [] v.page = "election" ->
         /\ \E m \in Mints :
              form' = [n |-> v.n, picked |-> m, enabled |-> pk # "none"]
         /\ grid' = NoGrid
         /\ screen' = NoScreen
         /\ UNCHANGED cache
    [] v.page = "round" -> UNCHANGED <<grid, form, screen, cache>>
    [] OTHER -> Clear /\ UNCHANGED cache

(* A stage without an await runs before anything else does.                *)
Synchronous(v) == Pages[v.page][v.at].read = "none"
Waiting == ~\E v \in views : Synchronous(v)

(* The read of a stage, if it has one, succeeded, or need not.             *)
Render(v) ==
  LET stage == Pages[v.page][v.at]
      last == v.at = Len(Pages[v.page]) IN
  /\ v.page = "mine" /\ v.at = 1 => pk # "none"
  /\ Show(stage.shows, <<v.page, v.at>>)
  /\ views' = (views \ {v}) \cup (IF last THEN {} ELSE {[v EXCEPT !.at = @ + 1]})
  /\ IF last THEN LastStage(v)
     ELSE /\ IF stage.shows = "mount" THEN Clear
             ELSE UNCHANGED <<grid, form, screen>>
          /\ UNCHANGED cache
  /\ UNCHANGED <<signed, elections, hash, pk, account, posts, attempts, count,
                 time, aux>>

(* The page found that there is nothing to show.                           *)
Stop(v) ==
  LET stage == Pages[v.page][v.at] IN
  /\ stage.stops # "never"
  /\ v.page = "mine" => pk = "none"
  /\ Show(stage.stops, <<v.page, Notice>>)
  /\ IF stage.stops = "mount" THEN Clear ELSE UNCHANGED <<grid, form, screen>>
  /\ Ended(v)
  /\ UNCHANGED <<signed, elections, hash, pk, account, cache, posts, attempts,
                 count, time, aux>>

(* The read failed: the page catches it, or route does.                    *)
Fail(v) ==
  LET stage == Pages[v.page][v.at] IN
  /\ \/ /\ stage.read = "caught"
        /\ Show("append", <<v.page, Notice>>)
        /\ UNCHANGED <<grid, form, screen>>
     \/ /\ stage.read = "throws"
        /\ Show("mount", <<v.page, NotLoaded>>)
        /\ Clear
  /\ Ended(v)
  /\ UNCHANGED <<signed, elections, hash, pk, account, cache, posts, attempts,
                 count, time, aux>>

(* loadCoinMeta and loadMarket: a read ends, well or not, for all cards    *)
(* that wait for it, and is kept.  Bug: a failure is not.                  *)
ReadLost(c, part) ==
  /\ cache[<<c, part>>] = "reading"
  /\ \E found \in BOOLEAN :
       /\ cache' = [cache EXCEPT ![<<c, part>>] = IF found THEN "read" ELSE "none"]
       /\ grid' = [grid EXCEPT ![c] = IF found THEN @ \ {part} ELSE @]

ReadEnds(c, part) ==
  /\ cache[<<c, part>>] = "reading"
  /\ cache' = [cache EXCEPT ![<<c, part>>] = "read"]
  /\ grid' = [grid EXCEPT ![c] = @ \ {part}]

FinishRead(c, part) ==
  /\ ReadEnds(c, part)
  /\ UNCHANGED <<signed, elections, hash, pk, account, dom, views, form, screen,
                 posts, attempts, count, time, aux>>

----------------------------------------------------------------------------
(* The election page (pages/election.ts).  The round is the coin's         *)
(* current_epoch, which the program writes at launch and never again.      *)

current_epoch == 0

(* Another mint is picked, also while a submission is under way.           *)
onSelect(m) ==
  /\ form # NoForm
  /\ form.picked # m
  /\ Click
  /\ form' = [form EXCEPT !.picked = m]
  /\ posts' = {IF p.n = form.n THEN [p EXCEPT !.picked = m] ELSE p : p \in posts}
  /\ UNCHANGED <<routes, signed, elections, hash, pk, account, dom, views, grid, screen,
                 cache, attempts, time, aux>>

(* onSubmit, up to the wallet's prompt: the text to sign is made here, and *)
(* the nonce read from the clock, the only use of it.                      *)
onSubmit ==
  /\ form # NoForm
  /\ form.enabled
  /\ pk # "none"
  /\ Click
  /\ time' \in time .. MaxTime
  /\ form' = [form EXCEPT !.enabled = FALSE]
  /\ posts' = posts \cup {[n |-> form.n, at |-> "signing", wallet |-> pk,
       text |-> form.picked, picked |-> form.picked, nonce |-> time',
       message |-> NoMessage]}
  /\ UNCHANGED <<routes, signed, elections, hash, pk, account, dom, views, grid, screen,
                 cache, attempts, aux>>

(* The selected account signs.  The body that is sent names the mint       *)
(* picked by now; if that is not what the text says the signature is not   *)
(* one of the body.                                                        *)
Signs(p) ==
  LET message == [wallet |-> p.wallet, signer |-> account,
        epochIndex |-> current_epoch, outMint |-> p.picked, nonce |-> p.nonce]
      valid == p.picked = p.text IN
  /\ p.at = "signing"
  /\ IF valid THEN Sign(message) ELSE UNCHANGED signed
  /\ posts' = (posts \ {p}) \cup
       {[p EXCEPT !.at = "sent", !.message = IF valid THEN message ELSE @]}
  /\ UNCHANGED <<elections, page, cache, attempts, count, time, aux>>

(* The service takes the message, or answers with an error.                *)
Post(p) ==
  /\ p.at = "sent"
  /\ LET taken == p.message # NoMessage /\ Accepted(p.message, Mints) IN
     /\ IF taken THEN submit(p.message, Mints) ELSE UNCHANGED elections
     /\ posts' = (posts \ {p}) \cup
          {[p EXCEPT !.at = IF taken THEN "accepted" ELSE "refused"]}
  /\ UNCHANGED <<signed, page, cache, attempts, count, time, aux>>

(* The answer is read, and the button enabled again.                       *)
SaysSubmitted(p) == p.at = "accepted"

Answer(p) ==
  /\ p.at \in {"accepted", "refused"}
  /\ posts' = posts \ {p}
  /\ told' = IF SaysSubmitted(p) /\ p.n = form.n
             THEN told \cup {[wallet |-> p.wallet, sent |-> p.text,
                              nonce |-> p.nonce]}
             ELSE told
  /\ form' = IF p.n = form.n THEN [form EXCEPT !.enabled = pk # "none"]
             ELSE form
  /\ UNCHANGED <<signed, elections, hash, pk, account, dom, views, grid, screen,
                 cache, attempts, count, time, launched, failed, restarted>>

(* The user declines to sign, or the request or its answer is lost.        *)
PostFails(p) ==
  /\ posts' = posts \ {p}
  /\ form' = IF p.n = form.n THEN [form EXCEPT !.enabled = pk # "none"]
             ELSE form
  /\ UNCHANGED <<signed, elections, hash, pk, account, dom, views, grid, screen,
                 cache, attempts, count, time, aux>>

(* What was signed arrives at the service late, or again.                  *)
Redeliver(message) ==
  /\ submit(message, Mints)
  /\ UNCHANGED <<signed, page, cache, posts, attempts, count, time, aux>>

Restart ==
  /\ ~restarted
  /\ electionsForRound(current_epoch) # <<>>
  /\ restarted' = TRUE
  /\ RestartApi
  /\ UNCHANGED <<signed, page, cache, posts, attempts, count, time, told,
                 launched, failed>>

----------------------------------------------------------------------------
(* The launch of a coin (pages/launch.ts and launchtx.ts).                 *)

(* From the form to its launch screen, with a new button, and back.        *)
Continue ==
  /\ <<"launch", Len(launchPage)>> \in dom
  /\ Click
  /\ dom' = {<<"launch", LaunchScreen>>}
  /\ screen' = [n |-> clicks', enabled |-> pk # "none"]
  /\ grid' = NoGrid
  /\ form' = NoForm
  /\ UNCHANGED <<routes, signed, elections, hash, pk, account, views, cache, posts,
                 attempts, time, aux>>

Back ==
  /\ screen # NoScreen
  /\ Click
  /\ dom' = {<<"launch", Len(launchPage)>>}
  /\ Clear
  /\ UNCHANGED <<routes, signed, elections, hash, pk, account, views, cache, posts,
                 attempts, time, aux>>

(* assembleLaunch: every launch has a mint of its own.                     *)
Accounts(a) ==
  [payer |-> Key(a.payer), baseMint |-> <<"mint", a.n>>,
   config |-> Key("config"), platformWallet |-> Key("platform")]

LaunchParams ==
  [dev_buy_lamports |-> Zero, default_payout_mint |-> Key("payout")]

Addresses(a) == launchCoinAltAddresses(Accounts(a))

NewAttempt(s) ==
  attempts' = attempts \cup {[n |-> clicks', screen |-> s, payer |-> pk,
    at |-> "upload", exists |-> FALSE, next |-> 0, table |-> {},
    clean |-> TRUE]}

(* Bug: the button stays enabled.                                          *)
LaunchAgain ==
  /\ screen # NoScreen
  /\ screen.enabled
  /\ pk # "none"
  /\ Click
  /\ screen' = screen
  /\ NewAttempt(screen.n)

onLaunch ==
  /\ screen # NoScreen
  /\ screen.enabled
  /\ pk # "none"
  /\ Click
  /\ screen' = [screen EXCEPT !.enabled = FALSE]
  /\ NewAttempt(screen.n)

PressLaunch ==
  /\ onLaunch
  /\ UNCHANGED <<routes, signed, elections, hash, pk, account, dom, views, grid, form,
                 cache, posts, time, aux>>

Goes(a, b) == attempts' = (attempts \ {a}) \cup {b}

(* An error ends the attempt; its button is enabled again.                 *)
LaunchFails(a) ==
  /\ attempts' = attempts \ {a}
  /\ failed' = failed \cup {[n |-> a.n, screen |-> a.screen]}
  /\ screen' = IF screen.n = a.screen THEN [screen EXCEPT !.enabled = TRUE]
               ELSE screen
  /\ UNCHANGED <<signed, elections, hash, pk, account, dom, views, grid, form,
                 cache, posts, count, time, told, launched, restarted>>

(* resolveUri has the image uploaded.                                      *)
Upload(a) ==
  /\ a.at = "upload"
  /\ Goes(a, [a EXCEPT !.at = "create"])
  /\ UNCHANGED <<signed, elections, page, cache, posts, count, time, aux>>

(* sendAndConfirm returns: the transaction has landed, or has failed on    *)
(* chain, which the answer of confirmTransaction says but nobody reads.    *)
CreateTable(a, landed) ==
  /\ a.at = "create"
  /\ Goes(a, [a EXCEPT !.at = "extend", !.exists = landed, !.clean = landed])
  /\ UNCHANGED <<signed, elections, page, cache, posts, count, time, aux>>

(* Bug: the last address of a slice is left out.                           *)
SliceShort(list, from) ==
  {list[i] : i \in {j \in DOMAIN list : from < j /\ j < from + ChunkSize}}

Slice(list, from) ==
  {list[i] : i \in {j \in DOMAIN list : from < j /\ j <= from + ChunkSize}}

ExtendTable(a, landed) ==
  LET list == Addresses(a)
      next == a.next + ChunkSize IN
  /\ a.at = "extend"
  /\ landed => a.exists
  /\ Goes(a, [a EXCEPT
       !.at = IF next < Len(list) THEN "extend" ELSE "poll",
       !.next = next,
       !.table = IF landed THEN @ \cup Slice(list, a.next) ELSE @,
       !.clean = @ /\ landed])
  /\ UNCHANGED <<signed, elections, page, cache, posts, count, time, aux>>

(* The table is seen to have all addresses, or the polls have run out.     *)
Poll(a) ==
  /\ a.at = "poll"
  /\ Goes(a, [a EXCEPT !.at = "launch"])
  /\ UNCHANGED <<signed, elections, page, cache, posts, count, time, aux>>

Launch(a, landed) ==
  /\ a.at = "launch"
  /\ attempts' = attempts \ {a}
  /\ launched' = IF landed THEN launched \cup {[n |-> a.n, screen |-> a.screen]}
                 ELSE launched
  /\ UNCHANGED <<signed, elections, page, cache, posts, count, time, told,
                 failed, restarted>>

(* The launch lands, but its confirmation is lost.                         *)
LaunchUnconfirmed(a) ==
  /\ a.at = "launch"
  /\ attempts' = attempts \ {a}
  /\ launched' = launched \cup {[n |-> a.n, screen |-> a.screen]}
  /\ failed' = failed \cup {[n |-> a.n, screen |-> a.screen]}
  /\ screen' = IF screen.n = a.screen THEN [screen EXCEPT !.enabled = TRUE]
               ELSE screen
  /\ UNCHANGED <<signed, elections, hash, pk, account, dom, views, grid, form,
                 cache, posts, count, time, told, restarted>>

----------------------------------------------------------------------------
Init ==
  /\ ElectionInit
  /\ hash \in FirstPages
  /\ pk = "none"
  /\ account = CHOOSE w \in Wallets : TRUE
  /\ dom = {<<"loading">>}
  /\ views = {[n |-> 1, page |-> hash, at |-> 1]}
  /\ grid = NoGrid
  /\ cache = [k \in Coins \X Parts |-> "none"]
  /\ form = NoForm
  /\ posts = {}
  /\ screen = NoScreen
  /\ attempts = {}
  /\ clicks = 1
  /\ routes = 1
  /\ time = 1
  /\ told = {}
  /\ launched = {}
  /\ failed = {}
  /\ restarted = FALSE

Rendering ==
  \E v \in views : (Synchronous(v) \/ Waiting) /\ (Render(v) \/ Stop(v) \/ Fail(v))

Reading == Waiting /\ \E c \in Coins, part \in Parts : FinishRead(c, part)

Submitting ==
  Waiting /\ \E p \in posts : Signs(p) \/ Post(p) \/ Answer(p) \/ PostFails(p)

Launching ==
  /\ Waiting
  /\ \E a \in attempts :
       \/ Upload(a) \/ Poll(a) \/ LaunchFails(a) \/ LaunchUnconfirmed(a)
       \/ \E landed \in BOOLEAN :
            CreateTable(a, landed) \/ ExtendTable(a, landed) \/ Launch(a, landed)

User ==
  /\ Waiting
  /\ \/ \E p \in DOMAIN Pages : Navigate(p)
     \/ connect \/ disconnect \/ \E w \in Wallets : accountChanged(w)
     \/ \E m \in Mints : onSelect(m)
     \/ onSubmit \/ Continue \/ Back \/ PressLaunch

Next ==
  \/ Rendering \/ Reading \/ Submitting \/ Launching \/ User
  \/ Restart \/ \E message \in signed : Redeliver(message)

(* Reads, requests and wallet prompts are answered, or fail.               *)
Spec == Init /\ [][Next]_vars
          /\ WF_vars(Rendering) /\ WF_vars(Reading)
          /\ WF_vars(Submitting) /\ WF_vars(Launching)
----------------------------------------------------------------------------
(* election.ts:65, "Election submitted": an election of which the page said *)
(* so is kept by the service as its wallet signed it, or a newer one of    *)
(* that wallet is, whatever is picked, signed, late, sent again or lost    *)
(* meanwhile, until the service is restarted, which forgets all.  The line *)
(* goes on to name the mint picked when the answer comes, which may be     *)
(* another than the one that was signed and kept.                          *)
SubmittedIsKept ==
  ~restarted =>
    \A t \in told :
      LET stored == elections[<<current_epoch, t.wallet>>] IN
      \/ stored.nonce > t.nonce
      \/ stored = [outMint |-> t.sent, nonce |-> t.nonce]

(* launch.ts:154-170: a launch that the page did not report as failed is   *)
(* the last of its launch screen: nothing a screen launches for certain is *)
(* launched beside another attempt, or again.  After an error there may be *)
(* another coin, also where the error is of a launch that did land.        *)
LaunchedLast ==
  \A a \in launched \ failed : \A b \in launched :
    b.screen = a.screen => b.n <= a.n

(* index.ts:257, "all non-signer addresses this instruction touches": when *)
(* the table was filled without a failure it leaves none of the launch's   *)
(* accounts to be named in full; the lists for the other instructions      *)
(* leave the caller, and the recipients.                                   *)
TablesCover ==
  /\ \A a \in attempts : a.at = "launch" /\ a.clean =>
       Uncovered(launchCoinIx(LaunchParams, Accounts(a)), a.table) = {}
  /\ LET sweep == [caller |-> Key("caller"), mint |-> Key("mint"),
                   config |-> Key("config"), platformWallet |-> Key("platform")]
     IN \A graduated \in BOOLEAN :
          Uncovered(claimAndSweepIx(sweep, graduated),
                    claimAndSweepAltAddresses(sweep, graduated)) = {}
  /\ \A outMint \in {Key("out"), WSOL_MINT} :
       Uncovered(distributeBatchIx(0, outMint, <<Key("recipient")>>,
                                   Key("mint"), Key("keeper")),
                 distributeBatchAltAddresses(Key("mint"), 0, outMint))
         = {Ata(outMint, Key("recipient"))}

(* main.ts:24-38, coin.ts:30, launch.ts:157: what the page waits for ends: *)
(* once the user stops, no screen stays at Loading, no card at "...", no   *)
(* submission and no launch under way.                                     *)
ScreenSettles ==
  <>[](/\ views = {}
       /\ <<"loading">> \notin dom
       /\ \A c \in Coins : grid[c] = {}
       /\ posts = {}
       /\ attempts = {})
=============================================================================
