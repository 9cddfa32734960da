----------------------------- MODULE AppProofs -----------------------------
(***************************************************************************)
(* Proofs about module App: an election that was submitted is kept by the  *)
(* service as it was signed, however messages are delayed or sent again; a *)
(* launch not reported as failed is the last of its launch screen; and a   *)
(* launch's lookup table, when none of its transactions failed, covers the *)
(* launch; for every number of wallets, mints, epochs and clicks, and      *)
(* every size of the slices.                                               *)
(***************************************************************************)
EXTENDS App, SequenceTheorems, TLAPS

(* The service has this choice for the wallet, or a newer one.             *)
Holds(store, w, mint, nonce) ==
  LET stored == store[<<current_epoch, w>>] IN
  \/ stored.nonce > nonce
  \/ stored = [outMint |-> mint, nonce |-> nonce]

PostFields == {"n", "at", "wallet", "text", "picked", "nonce", "message"}

(* The message is the signed text of the submission.                       *)
SaysText(m, p) ==
  /\ m \in signed
  /\ m.wallet = p.wallet
  /\ m.epochIndex = current_epoch
  /\ m.outMint = p.text
  /\ m.nonce = p.nonce

PostTyped(p) ==
  /\ DOMAIN p = PostFields
  /\ p.wallet \in Wallets
  /\ p.text \in Mints
  /\ p.picked \in Mints
  /\ p.nonce \in 1 .. MaxNonce

PostTrue(p) ==
  /\ p.at = "signing" => p.message = NoMessage
  /\ p.message # NoMessage => SaysText(p.message, p)
  /\ p.at = "accepted" /\ ~restarted => Holds(elections, p.wallet, p.text, p.nonce)

FormOK == form = NoForm \/ ("picked" \in DOMAIN form /\ form.picked \in Mints)

Told == [wallet : Wallets, sent : Mints, nonce : 1 .. MaxNonce]

(* The strengthening: a submission's message says its text, and what was   *)
(* accepted or told is held.                                               *)
PageTyped ==
  /\ pk \in Wallets \cup {"none"}
  /\ account \in Wallets
  /\ time \in Nat /\ time >= 1
  /\ FormOK

PostsTrue == \A p \in posts : PostTyped(p) /\ PostTrue(p)

AllTold ==
  /\ told \subseteq Told
  /\ ~restarted => \A t \in told : Holds(elections, t.wallet, t.sent, t.nonce)

Inv ==
  /\ ElectionTypeOK
  /\ PageTyped
  /\ PostsTrue
  /\ AllTold

----------------------------------------------------------------------------
(* A submission that the service takes keeps what it held, or replaces it  *)
(* by something newer.                                                     *)
LEMMA SubmitHolds ==
  ASSUME ElectionTypeOK, NEW m \in signed, submit(m, Mints)
  PROVE  /\ DOMAIN elections' = Epochs \X Electors
         /\ \A k \in Epochs \X Electors :
              \/ elections'[k] = NoElection
              \/ elections'[k].outMint \in Mints /\ elections'[k].nonce \in 1 .. MaxNonce
         /\ \A w \in Wallets, mint \in Mints, n \in 1 .. MaxNonce :
              Holds(elections, w, mint, n) => Holds(elections', w, mint, n)
         /\ m.epochIndex = current_epoch =>
              Holds(elections', m.wallet, m.outMint, m.nonce)
<1> DEFINE at == <<m.epochIndex, m.wallet>>
           new == [outMint |-> m.outMint, nonce |-> m.nonce]
<1>1. /\ m.wallet \in Electors /\ m.epochIndex \in Epochs
      /\ m.outMint \in Mints /\ m.nonce \in 1 .. MaxNonce
  BY DEF ElectionTypeOK, Message
<1>2. at \in Epochs \X Electors
  BY <1>1
<1>3. elections' = [elections EXCEPT ![at] = new]
  BY DEF submit
<1>4. m.nonce > elections[at].nonce
  BY DEF submit, Accepted, Newer
<1>5. DOMAIN elections = Epochs \X Electors
  BY DEF ElectionTypeOK
<1>6. new.outMint = m.outMint /\ new.nonce = m.nonce
  OBVIOUS
<1> HIDE DEF at, new
<1>7. DOMAIN elections' = Epochs \X Electors
  BY <1>3, <1>5
<1>8. elections'[at] = new
  BY <1>2, <1>3, <1>5
<1>9. \A k \in Epochs \X Electors : k # at => elections'[k] = elections[k]
  BY <1>3, <1>5
<1>10. \A k \in Epochs \X Electors :
         \/ elections'[k] = NoElection
         \/ elections'[k].outMint \in Mints /\ elections'[k].nonce \in 1 .. MaxNonce
  BY <1>1, <1>6, <1>8, <1>9 DEF ElectionTypeOK
<1>11. ASSUME NEW w \in Wallets, NEW mint \in Mints, NEW n \in 1 .. MaxNonce,
              Holds(elections, w, mint, n)
       PROVE  Holds(elections', w, mint, n)
  <2> DEFINE k == <<current_epoch, w>>
  <2>1. k \in Epochs \X Electors
    BY AppAssumption DEF current_epoch
  <2>2. elections[k].nonce > n \/ elections[k] = [outMint |-> mint, nonce |-> n]
    BY <1>11 DEF Holds
  <2> SUFFICES elections'[k].nonce > n \/ elections'[k] = [outMint |-> mint, nonce |-> n]
    BY DEF Holds
  <2>3. CASE k # at
    BY <1>9, <2>1, <2>2, <2>3
  <2>4. CASE k = at
    <3>1. elections[at].nonce \in Nat
      BY <1>2 DEF ElectionTypeOK, NoElection
    <3>2. elections[at].nonce >= n
      BY <2>2, <2>4, <3>1
    <3>3. elections'[at].nonce > n
      BY <1>1, <1>4, <1>6, <1>8, <3>1, <3>2
    <3> QED
      BY <2>4, <3>3
  <2> QED
    BY <2>3, <2>4
<1>12. m.epochIndex = current_epoch => Holds(elections', m.wallet, m.outMint, m.nonce)
  BY <1>8 DEF Holds, at, new
<1> QED
  BY <1>7, <1>10, <1>11, <1>12

----------------------------------------------------------------------------
LEMMA InitCorrect == Init => Inv
<1> SUFFICES ASSUME Init PROVE Inv
  OBVIOUS
<1>1. ElectionTypeOK
  BY DEF Init, ElectionInit, ElectionTypeOK
<1>2. PageTyped
  <2>1. account \in Wallets
    BY AppAssumption DEF Init
  <2> QED
    BY <2>1 DEF Init, PageTyped, FormOK
<1>3. PostsTrue /\ AllTold
  BY DEF Init, PostsTrue, AllTold
<1> QED
  BY <1>1, <1>2, <1>3 DEF Inv

(* A step that neither signs, nor is taken by the service, and only ends   *)
(* submissions.                                                            *)
LEMMA QuietStep ==
  ASSUME Inv, UNCHANGED <<signed, elections, told, restarted>>,
         posts' \subseteq posts
  PROVE  ElectionTypeOK' /\ PostsTrue' /\ AllTold'
<1>1. ElectionTypeOK'
  BY DEF Inv, ElectionTypeOK
<1>2. AllTold'
  BY DEF Inv, AllTold
<1>3. ASSUME NEW p \in posts' PROVE (PostTyped(p) /\ PostTrue(p))'
  BY <1>3 DEF Inv, PostsTrue, PostTyped, PostTrue, SaysText
<1> QED
  BY <1>1, <1>2, <1>3 DEF PostsTrue

(* What a step of the page may do that is none of an election's.           *)
PageStep ==
  /\ UNCHANGED <<signed, elections, posts, told, restarted, time>>
  /\ pk' \in {pk, account, "none"}
  /\ account' \in Wallets
  /\ \/ form' \in {form, NoForm}
     \/ "picked" \in DOMAIN form' /\ form'.picked \in Mints

LEMMA PageStepKeeps ==
  ASSUME Inv, PageStep
  PROVE  Inv'
<1>1. PageTyped'
  BY DEF Inv, PageStep, PageTyped, FormOK
<1>2. ElectionTypeOK' /\ PostsTrue' /\ AllTold'
  BY QuietStep DEF PageStep
<1> QED
  BY <1>1, <1>2 DEF Inv

(* The page's own steps, the user's, and those of a launch.                *)
LEMMA UserSteps ==
  ASSUME Inv
  PROVE  /\ \A p \in DOMAIN Pages : Navigate(p) => PageStep
         /\ connect => PageStep
         /\ disconnect => PageStep
         /\ \A w \in Wallets : accountChanged(w) => PageStep
         /\ Continue => PageStep
         /\ Back => PageStep
         /\ PressLaunch => PageStep
<1>1. pk \in Wallets \cup {"none"} /\ account \in Wallets
  BY DEF Inv, PageTyped
<1>2. ASSUME NEW p, Navigate(p) PROVE PageStep
  BY <1>1, <1>2 DEF Navigate, Route, Clear, aux, PageStep
<1>3. ASSUME connect PROVE PageStep
  BY <1>1, <1>3 DEF connect, Route, Clear, aux, PageStep
<1>4. ASSUME disconnect PROVE PageStep
  BY <1>1, <1>4 DEF disconnect, Route, Clear, aux, PageStep
<1>5. ASSUME NEW w \in Wallets, accountChanged(w) PROVE PageStep
  BY <1>1, <1>5 DEF accountChanged, Route, Clear, aux, PageStep
<1>6. ASSUME Continue PROVE PageStep
  BY <1>1, <1>6 DEF Continue, aux, PageStep
<1>7. ASSUME Back PROVE PageStep
  BY <1>1, <1>7 DEF Back, Clear, aux, PageStep
<1>8. ASSUME PressLaunch PROVE PageStep
  BY <1>1, <1>8 DEF PressLaunch, aux, PageStep
<1> QED
  BY <1>2, <1>3, <1>4, <1>5, <1>6, <1>7, <1>8

LEMMA RenderSteps ==
  ASSUME Inv, NEW v
  PROVE  /\ Render(v) => PageStep
         /\ Stop(v) => PageStep
         /\ Fail(v) => PageStep
         /\ \A c, part : FinishRead(c, part) => PageStep
<1>1. pk \in Wallets \cup {"none"} /\ account \in Wallets
  BY DEF Inv, PageTyped
<1>2. ASSUME LastStage(v)
      PROVE  \/ form' \in {form, NoForm}
             \/ "picked" \in DOMAIN form' /\ form'.picked \in Mints
  <2>1. CASE v.page \in {"explore", "mine"}
    BY <1>2, <2>1 DEF LastStage
  <2>2. CASE v.page = "election"
    BY <1>2, <2>2 DEF LastStage
  <2>3. CASE v.page \notin {"explore", "mine", "election"}
    BY <1>2, <2>3 DEF LastStage, Clear
  <2> QED
    BY <2>1, <2>2, <2>3
<1>3. ASSUME Render(v) PROVE PageStep
  <2>1. \/ form' \in {form, NoForm}
        \/ "picked" \in DOMAIN form' /\ form'.picked \in Mints
    BY <1>2, <1>3 DEF Render, Clear
  <2> QED
    BY <1>1, <1>3, <2>1 DEF Render, aux, PageStep
<1>4. ASSUME Stop(v) PROVE PageStep
  BY <1>1, <1>4 DEF Stop, Clear, aux, PageStep
<1>5. ASSUME Fail(v) PROVE PageStep
  BY <1>1, <1>5 DEF Fail, Clear, aux, PageStep
<1>6. ASSUME NEW c, NEW part, FinishRead(c, part) PROVE PageStep
  BY <1>1, <1>6 DEF FinishRead, aux, PageStep
<1> QED
  BY <1>3, <1>4, <1>5, <1>6

LEMMA LaunchSteps ==
  ASSUME Inv, NEW a
  PROVE  /\ Upload(a) => PageStep
         /\ Poll(a) => PageStep
         /\ LaunchFails(a) => PageStep
         /\ LaunchUnconfirmed(a) => PageStep
         /\ \A landed \in BOOLEAN :
              /\ CreateTable(a, landed) => PageStep
              /\ ExtendTable(a, landed) => PageStep
              /\ Launch(a, landed) => PageStep
<1>1. pk \in Wallets \cup {"none"} /\ account \in Wallets
  BY DEF Inv, PageTyped
<1>2. ASSUME Upload(a) PROVE PageStep
  BY <1>1, <1>2 DEF Upload, page, aux, PageStep
<1>3. ASSUME Poll(a) PROVE PageStep
  BY <1>1, <1>3 DEF Poll, page, aux, PageStep
<1>4. ASSUME LaunchFails(a) PROVE PageStep
  BY <1>1, <1>4 DEF LaunchFails, PageStep
<1>5. ASSUME LaunchUnconfirmed(a) PROVE PageStep
  BY <1>1, <1>5 DEF LaunchUnconfirmed, PageStep
<1>6. ASSUME NEW landed, CreateTable(a, landed) PROVE PageStep
  BY <1>1, <1>6 DEF CreateTable, page, aux, PageStep
<1>7. ASSUME NEW landed, ExtendTable(a, landed) PROVE PageStep
  BY <1>1, <1>7 DEF ExtendTable, page, aux, PageStep
<1>8. ASSUME NEW landed, Launch(a, landed) PROVE PageStep
  BY <1>1, <1>8 DEF Launch, page, PageStep
<1> QED
  BY <1>2, <1>3, <1>4, <1>5, <1>6, <1>7, <1>8

----------------------------------------------------------------------------
(* The steps of an election.                                               *)
LEMMA FormKeeps ==
  ASSUME FormOK, NEW b, form' = [form EXCEPT !.enabled = b]
  PROVE  FormOK'
<1>1. CASE form = NoForm
  <2>1. [NoForm EXCEPT !.enabled = b] = NoForm
    BY DEF NoForm
  <2> QED
    BY <1>1, <2>1 DEF FormOK
<1>2. CASE "picked" \in DOMAIN form /\ form.picked \in Mints
  <2>1. DOMAIN form' = DOMAIN form /\ form'.picked = form.picked
    BY <1>2
  <2> QED
    BY <1>2, <2>1 DEF FormOK
<1> QED
  BY <1>1, <1>2 DEF FormOK

LEMMA SelectKeeps ==
  ASSUME Inv, NEW m \in Mints, onSelect(m)
  PROVE  Inv'
<1>1. ElectionTypeOK' /\ AllTold'
  BY DEF Inv, ElectionTypeOK, AllTold, onSelect, aux
<1>2. PageTyped'
  <2>1. FormOK'
    BY DEF Inv, PageTyped, FormOK, onSelect
  <2> QED
    BY <2>1 DEF Inv, PageTyped, onSelect
<1>3. ASSUME NEW q \in posts' PROVE (PostTyped(q) /\ PostTrue(q))'
  <2>1. PICK p \in posts : q = p \/ q = [p EXCEPT !.picked = m]
    BY <1>3 DEF onSelect
  <2>2. PostTyped(p) /\ PostTrue(p)
    BY DEF Inv, PostsTrue
  <2>3. /\ DOMAIN q = PostFields /\ q.picked \in Mints
        /\ q.at = p.at /\ q.wallet = p.wallet /\ q.text = p.text
        /\ q.nonce = p.nonce /\ q.message = p.message
    BY <2>1, <2>2 DEF PostTyped, PostFields
  <2>4. PostTyped(q)'
    BY <2>2, <2>3 DEF PostTyped
  <2>5. signed' = signed /\ elections' = elections /\ restarted' = restarted
    BY DEF onSelect, aux
  <2>6. PostTrue(q)'
    BY <2>2, <2>3, <2>5 DEF PostTrue, SaysText
  <2> QED
    BY <2>4, <2>6
<1> QED
  BY <1>1, <1>2, <1>3 DEF Inv, PostsTrue

LEMMA SubmitKeeps ==
  ASSUME Inv, onSubmit
  PROVE  Inv'
<1>1. ElectionTypeOK' /\ AllTold'
  BY DEF Inv, ElectionTypeOK, AllTold, onSubmit, aux
<1>2. /\ time' \in Nat /\ time' >= 1 /\ time' \in 1 .. MaxNonce
      /\ pk \in Wallets /\ form.picked \in Mints
  BY AppAssumption, ElectionAssumption DEF Inv, PageTyped, FormOK, onSubmit
<1>3. PageTyped'
  <2>1. FormOK'
    BY FormKeeps DEF Inv, PageTyped, onSubmit
  <2> QED
    BY <1>2, <2>1 DEF Inv, PageTyped, onSubmit
<1>4. ASSUME NEW q \in posts' PROVE (PostTyped(q) /\ PostTrue(q))'
  <2>1. UNCHANGED <<signed, elections, restarted>>
    BY DEF onSubmit, aux
  <2>2. CASE q \in posts
    BY <2>1, <2>2 DEF Inv, PostsTrue, PostTyped, PostTrue, SaysText
  <2>3. CASE q = [n |-> form.n, at |-> "signing", wallet |-> pk,
                  text |-> form.picked, picked |-> form.picked,
                  nonce |-> time', message |-> NoMessage]
    <3>1. /\ DOMAIN q = PostFields
          /\ q.at = "signing" /\ q.wallet = pk /\ q.text = form.picked
          /\ q.picked = form.picked /\ q.nonce = time' /\ q.message = NoMessage
      BY <2>3 DEF PostFields
    <3> QED
      BY <1>2, <3>1 DEF PostTyped, PostTrue
  <2> QED
    BY <2>2, <2>3 DEF onSubmit
<1> QED
  BY <1>1, <1>3, <1>4 DEF Inv, PostsTrue

LEMMA SignsKeeps ==
  ASSUME Inv, NEW p \in posts, Signs(p)
  PROVE  Inv'
<1> DEFINE message == [wallet |-> p.wallet, signer |-> account,
             epochIndex |-> current_epoch, outMint |-> p.picked, nonce |-> p.nonce]
           valid == p.picked = p.text
           after == [p EXCEPT !.at = "sent",
                              !.message = IF valid THEN message ELSE @]
<1>1. PostTyped(p) /\ PostTrue(p)
  BY DEF Inv, PostsTrue
<1>2. /\ p.at = "signing"
      /\ signed' = IF valid THEN signed \cup {message} ELSE signed
      /\ posts' = (posts \ {p}) \cup {after}
      /\ UNCHANGED <<elections, page, told, restarted, time>>
  BY DEF Signs, Sign, aux
<1>3. message \in Message
  BY <1>1, AppAssumption DEF Message, PostTyped, Inv, PageTyped, current_epoch
<1>4. /\ message.wallet = p.wallet /\ message.epochIndex = current_epoch
      /\ message.outMint = p.picked /\ message.nonce = p.nonce
  OBVIOUS
<1>5. /\ DOMAIN after = PostFields
      /\ after.at = "sent" /\ after.wallet = p.wallet /\ after.text = p.text
      /\ after.picked = p.picked /\ after.nonce = p.nonce
      /\ after.message = IF valid THEN message ELSE p.message
  BY <1>1 DEF PostTyped, PostFields
<1> HIDE DEF after, message
<1>6. ElectionTypeOK'
  BY <1>2, <1>3 DEF Inv, ElectionTypeOK
<1>7. AllTold'
  BY <1>2 DEF Inv, AllTold
<1>8. PageTyped'
  BY <1>2 DEF Inv, PageTyped, FormOK, page
<1>9. ASSUME NEW q, q = after PROVE PostTyped(q)' /\ PostTrue(q)'
  <2> HIDE DEF valid
  <2>1. PostTyped(q)'
    BY <1>1, <1>5, <1>9 DEF PostTyped
  <2>2. CASE valid
    <3>1. q.message = message /\ message \in signed'
      BY <1>2, <1>5, <1>9, <2>2
    <3> QED
      BY <1>4, <1>5, <1>9, <2>1, <2>2, <3>1 DEF PostTrue, SaysText, valid
  <2>3. CASE ~valid
    <3>1. q.message = NoMessage
      BY <1>1, <1>2, <1>5, <1>9, <2>3 DEF PostTrue
    <3> QED
      BY <1>5, <1>9, <2>1, <3>1 DEF PostTrue
  <2> QED
    BY <2>2, <2>3
<1>10. ASSUME NEW q \in posts PROVE PostTyped(q)' /\ PostTrue(q)'
  BY <1>2 DEF Inv, PostsTrue, PostTyped, PostTrue, SaysText
<1>11. ASSUME NEW q \in posts' PROVE PostTyped(q)' /\ PostTrue(q)'
  BY <1>2, <1>9, <1>10
<1> QED
  BY <1>6, <1>7, <1>8, <1>11 DEF Inv, PostsTrue

(* What the service holds, it still holds after taking another message.    *)
LEMMA TakenKeeps ==
  ASSUME Inv, NEW m \in signed, submit(m, Mints), UNCHANGED <<signed, restarted>>
  PROVE  /\ ElectionTypeOK'
         /\ \A q \in posts : PostTyped(q)' /\ PostTrue(q)'
         /\ told' = told => AllTold'
<1>1. ElectionTypeOK'
  BY SubmitHolds DEF Inv, ElectionTypeOK
<1>2. \A w \in Wallets, mint \in Mints, n \in 1 .. MaxNonce :
        Holds(elections, w, mint, n) => Holds(elections', w, mint, n)
  BY SubmitHolds DEF Inv
<1>3. ASSUME NEW q \in posts PROVE PostTyped(q)' /\ PostTrue(q)'
  <2>1. PostTyped(q) /\ PostTrue(q)
    BY DEF Inv, PostsTrue
  <2>2. PostTyped(q)'
    BY <2>1 DEF PostTyped
  <2>3. q.at = "accepted" /\ ~restarted => Holds(elections', q.wallet, q.text, q.nonce)
    BY <1>2, <2>1 DEF PostTyped, PostTrue
  <2> QED
    BY <2>1, <2>2, <2>3 DEF PostTrue, SaysText
<1>4. ASSUME told' = told PROVE AllTold'
  <2>1. ASSUME ~restarted, NEW t \in told
        PROVE  Holds(elections', t.wallet, t.sent, t.nonce)
    <3>1. t \in Told /\ Holds(elections, t.wallet, t.sent, t.nonce)
      BY <2>1 DEF Inv, AllTold
    <3>2. t.wallet \in Wallets /\ t.sent \in Mints /\ t.nonce \in 1 .. MaxNonce
      BY <3>1 DEF Told
    <3> QED
      BY <1>2, <3>1, <3>2
  <2> QED
    BY <1>4, <2>1 DEF Inv, AllTold
<1> QED
  BY <1>1, <1>3, <1>4

LEMMA PostKeeps ==
  ASSUME Inv, NEW p \in posts, Post(p)
  PROVE  Inv'
<1> DEFINE taken == p.message # NoMessage /\ Accepted(p.message, Mints)
           after == [p EXCEPT !.at = IF taken THEN "accepted" ELSE "refused"]
<1>1. PostTyped(p) /\ PostTrue(p)
  BY DEF Inv, PostsTrue
<1>2. /\ IF taken THEN submit(p.message, Mints) ELSE elections' = elections
      /\ posts' = (posts \ {p}) \cup {after}
      /\ UNCHANGED <<signed, page, time, told, restarted>>
  BY DEF Post, aux
<1>3. PageTyped'
  BY <1>2 DEF Inv, PageTyped, FormOK, page
<1>4. /\ DOMAIN after = PostFields
      /\ after.at = IF taken THEN "accepted" ELSE "refused"
      /\ after.wallet = p.wallet /\ after.text = p.text /\ after.picked = p.picked
      /\ after.nonce = p.nonce /\ after.message = p.message
  BY <1>1 DEF PostTyped, PostFields
<1> HIDE DEF after
<1>5. ASSUME NEW q, q = after
      PROVE  /\ PostTyped(q)'
             /\ p.message # NoMessage => SaysText(q.message, q)'
             /\ taken => (PostTrue(q)' <=> (~restarted => Holds(elections', p.wallet, p.text, p.nonce)))
             /\ ~taken => PostTrue(q)'
  <2> HIDE DEF taken
  <2>1. /\ DOMAIN q = PostFields
        /\ q.at = IF taken THEN "accepted" ELSE "refused"
        /\ q.wallet = p.wallet /\ q.text = p.text /\ q.picked = p.picked
        /\ q.nonce = p.nonce /\ q.message = p.message
    BY <1>4, <1>5
  <2>2. PostTyped(q)'
    BY <1>1, <2>1 DEF PostTyped
  <2>3. p.message # NoMessage => SaysText(q.message, q)'
    BY <1>1, <1>2, <2>1 DEF PostTrue, SaysText
  <2> QED
    BY <1>2, <2>1, <2>2, <2>3 DEF PostTrue
<1>6. p.message # NoMessage => SaysText(p.message, p)
  BY <1>1 DEF PostTrue
<1>8. CASE taken
  <2>1. p.message \in signed /\ submit(p.message, Mints) /\ SaysText(p.message, p)
    BY <1>2, <1>6, <1>8 DEF SaysText
  <2>2. /\ ElectionTypeOK'
        /\ \A q \in posts : PostTyped(q)' /\ PostTrue(q)'
        /\ told' = told => AllTold'
    BY <1>2, <2>1, TakenKeeps
  <2>3. Holds(elections', p.wallet, p.text, p.nonce)
    BY <2>1, SubmitHolds DEF Inv, SaysText
  <2>4. ASSUME NEW q \in posts' PROVE PostTyped(q)' /\ PostTrue(q)'
    BY <1>2, <1>5, <1>8, <2>2, <2>3
  <2> QED
    BY <1>2, <1>3, <2>2, <2>4 DEF Inv, PostsTrue
<1>9. CASE ~taken
  <2>1. elections' = elections
    BY <1>2, <1>9
  <2>2. ASSUME NEW q \in posts PROVE PostTyped(q)' /\ PostTrue(q)'
    BY <1>2, <2>1 DEF Inv, PostsTrue, PostTyped, PostTrue, SaysText
  <2>3. ASSUME NEW q \in posts' PROVE PostTyped(q)' /\ PostTrue(q)'
    BY <1>2, <1>5, <1>9, <2>2
  <2>4. ElectionTypeOK' /\ AllTold'
    BY <1>2, <2>1 DEF Inv, ElectionTypeOK, AllTold
  <2> QED
    BY <1>3, <2>3, <2>4 DEF Inv, PostsTrue
<1> QED
  BY <1>8, <1>9

LEMMA AnswerKeeps ==
  ASSUME Inv, NEW p \in posts, Answer(p)
  PROVE  Inv'
<1>1. PostTyped(p) /\ PostTrue(p)
  BY DEF Inv, PostsTrue
<1>2. PageTyped'
  <2>1. FormOK'
    BY FormKeeps DEF Inv, PageTyped, FormOK, Answer
  <2> QED
    BY <2>1 DEF Inv, PageTyped, Answer
<1>3. ElectionTypeOK' /\ PostsTrue'
  BY DEF Inv, Answer, ElectionTypeOK, PostsTrue, PostTyped, PostTrue, SaysText
<1>4. AllTold'
  <2> DEFINE t == [wallet |-> p.wallet, sent |-> p.text, nonce |-> p.nonce]
  <2>1. CASE told' = told
    BY <2>1 DEF Inv, AllTold, Answer
  <2>2. CASE p.at = "accepted" /\ told' = told \cup {t}
    <3>1. t \in Told
      BY <1>1 DEF PostTyped, Told
    <3>2. ~restarted => Holds(elections, t.wallet, t.sent, t.nonce)
      BY <1>1, <2>2 DEF PostTrue
    <3> HIDE DEF t
    <3> QED
      BY <2>2, <3>1, <3>2 DEF Inv, AllTold, Answer
  <2> QED
    BY <2>1, <2>2 DEF Answer, SaysSubmitted
<1> QED
  BY <1>2, <1>3, <1>4 DEF Inv

LEMMA OtherKeeps ==
  ASSUME Inv
  PROVE  /\ \A p \in posts : PostFails(p) => Inv'
         /\ \A m \in signed : Redeliver(m) => Inv'
         /\ Restart => Inv'
         /\ UNCHANGED vars => Inv'
<1>1. ASSUME NEW p \in posts, PostFails(p) PROVE Inv'
  <2>1. FormOK'
    BY <1>1, FormKeeps DEF Inv, PageTyped, FormOK, PostFails
  <2>2. PageTyped'
    BY <1>1, <2>1 DEF Inv, PageTyped, PostFails
  <2>3. ElectionTypeOK' /\ PostsTrue' /\ AllTold'
    BY <1>1, QuietStep DEF PostFails, aux
  <2> QED
    BY <2>2, <2>3 DEF Inv
<1>2. ASSUME NEW m \in signed, Redeliver(m) PROVE Inv'
  <2>1. submit(m, Mints) /\ UNCHANGED <<signed, page, posts, time, told, restarted>>
    BY <1>2 DEF Redeliver, aux
  <2>2. /\ ElectionTypeOK'
        /\ \A q \in posts : PostTyped(q)' /\ PostTrue(q)'
        /\ told' = told => AllTold'
    BY <2>1, TakenKeeps
  <2>3. PageTyped'
    BY <2>1 DEF Inv, PageTyped, FormOK, page
  <2> QED
    BY <2>1, <2>2, <2>3 DEF Inv, PostsTrue
<1>3. ASSUME Restart PROVE Inv'
  <2>1. /\ restarted' /\ RestartApi
        /\ UNCHANGED <<signed, page, posts, time, told>>
    BY <1>3 DEF Restart
  <2>2. ElectionTypeOK'
    BY <2>1 DEF Inv, ElectionTypeOK, RestartApi
  <2>3. PostsTrue' /\ AllTold'
    BY <2>1 DEF Inv, PostsTrue, PostTyped, PostTrue, SaysText, AllTold
  <2>4. PageTyped'
    BY <2>1 DEF Inv, PageTyped, FormOK, page
  <2> QED
    BY <2>2, <2>3, <2>4 DEF Inv
<1>4. ASSUME UNCHANGED vars PROVE Inv'
  <2>1. UNCHANGED <<signed, elections, page, posts, time, told, restarted>>
    BY <1>4 DEF vars, aux
  <2>2. PageTyped'
    BY <2>1 DEF Inv, PageTyped, FormOK, page
  <2> QED
    BY <2>1, <2>2, QuietStep DEF Inv
<1> QED
  BY <1>1, <1>2, <1>3, <1>4

----------------------------------------------------------------------------
LEMMA NextKeeps == Inv /\ [Next]_vars => Inv'
<1> SUFFICES ASSUME Inv, [Next]_vars PROVE Inv'
  OBVIOUS
<1>1. CASE Rendering
  BY <1>1, RenderSteps, PageStepKeeps DEF Rendering
<1>2. CASE Reading
  <2>1. PICK c \in Coins, part \in Parts : FinishRead(c, part)
    BY <1>2 DEF Reading
  <2> QED
    BY <2>1, RenderSteps, PageStepKeeps
<1>3. CASE Submitting
  BY <1>3, SignsKeeps, PostKeeps, AnswerKeeps, OtherKeeps DEF Submitting
<1>4. CASE Launching
  BY <1>4, LaunchSteps, PageStepKeeps DEF Launching
<1>5. CASE User
  BY <1>5, UserSteps, PageStepKeeps, SelectKeeps, SubmitKeeps DEF User
<1>6. CASE Restart \/ (\E m \in signed : Redeliver(m)) \/ UNCHANGED vars
  BY <1>6, OtherKeeps
<1> QED
  BY <1>1, <1>2, <1>3, <1>4, <1>5, <1>6 DEF Next

(* An election the page said was submitted is kept by the service as it was *)
(* signed, or a newer one is (election.ts:65): for all wallets and mints,  *)
(* whatever is picked meanwhile and whatever arrives late or again.        *)
THEOREM SubmittedIsKeptCorrect == Spec => []SubmittedIsKept
<1>1. Inv => SubmittedIsKept
  <2> SUFFICES ASSUME Inv, ~restarted, NEW t \in told
               PROVE  Holds(elections, t.wallet, t.sent, t.nonce)
    BY DEF SubmittedIsKept, Holds
  <2> QED
    BY DEF Inv, AllTold
<1> QED
  BY InitCorrect, NextKeeps, <1>1, PTL DEF Spec

----------------------------------------------------------------------------
(* Launches.  One that did not also end in an error is the last of its     *)
(* launch screen: no other attempt is under way, no button is enabled, and *)
(* an attempt is later than all that its screen has launched.              *)
Certain == launched \ failed

ScreenOK ==
  \/ screen = NoScreen
  \/ /\ DOMAIN screen = {"n", "enabled"}
     /\ screen.n \in 1 .. clicks
     /\ screen.enabled =>
          /\ \A b \in Certain : b.screen # screen.n
          /\ \A a \in attempts : a.screen # screen.n

AttemptsOK ==
  /\ \A a \in attempts :
       /\ {"n", "screen", "at", "exists", "next", "table", "clean"} \subseteq DOMAIN a
       /\ a.screen \in 1 .. clicks /\ a.n \in 1 .. clicks
       /\ \A b \in launched : b.screen = a.screen => b.n <= a.n
       /\ \A b \in Certain : b.screen # a.screen
  /\ \A a, b \in attempts : a.screen = b.screen => a = b

LaunchesOK ==
  /\ \A b \in launched : b.screen \in 1 .. clicks /\ b.n \in 1 .. clicks
  /\ \A a \in Certain, b \in launched : b.screen = a.screen => b.n <= a.n

LaunchInv == clicks \in Nat /\ ScreenOK /\ AttemptsOK /\ LaunchesOK

LEMMA LaunchInit == Init => LaunchInv
<1> SUFFICES ASSUME Init PROVE LaunchInv
  OBVIOUS
<1>1. launched = {} /\ failed = {} /\ attempts = {} /\ screen = NoScreen /\ clicks = 1
  BY DEF Init
<1> QED
  BY <1>1 DEF LaunchInv, ScreenOK, AttemptsOK, LaunchesOK, Certain

(* A step that is none of a launch may only take its screen away.          *)
Elsewhere ==
  /\ UNCHANGED <<attempts, launched, failed>>
  /\ clicks' \in {clicks, clicks + 1}
  /\ screen' \in {screen, NoScreen}

LEMMA ElsewhereKeeps ==
  ASSUME LaunchInv, Elsewhere
  PROVE  LaunchInv'
<1>1. clicks \in Nat /\ clicks' \in Nat /\ 1 .. clicks \subseteq 1 .. clicks'
  BY DEF LaunchInv, Elsewhere
<1>2. Certain' = Certain
  BY DEF Elsewhere, Certain
<1>3. ScreenOK'
  BY <1>1, <1>2 DEF LaunchInv, Elsewhere, ScreenOK
<1>4. AttemptsOK'
  BY <1>1, <1>2 DEF LaunchInv, Elsewhere, AttemptsOK
<1>5. LaunchesOK'
  BY <1>1, <1>2 DEF LaunchInv, Elsewhere, LaunchesOK
<1> QED
  BY <1>1, <1>3, <1>4, <1>5 DEF LaunchInv

LEMMA ElsewhereSteps ==
  /\ \A v : Render(v) \/ Stop(v) \/ Fail(v) => Elsewhere
  /\ \A c, part : FinishRead(c, part) => Elsewhere
  /\ \A p : Signs(p) \/ Post(p) \/ Answer(p) \/ PostFails(p) => Elsewhere
  /\ \A p : Navigate(p) => Elsewhere
  /\ \A w : accountChanged(w) => Elsewhere
  /\ \A m : onSelect(m) \/ Redeliver(m) => Elsewhere
  /\ connect \/ disconnect \/ onSubmit \/ Back \/ Restart \/ UNCHANGED vars => Elsewhere
<1>1. ASSUME NEW v, LastStage(v) PROVE screen' \in {screen, NoScreen}
  <2>1. CASE v.page \in {"explore", "mine"}
    BY <1>1, <2>1 DEF LastStage
  <2>2. CASE v.page = "election"
    BY <1>1, <2>2 DEF LastStage
  <2>3. CASE v.page \notin {"explore", "mine", "election"}
    BY <1>1, <2>3 DEF LastStage, Clear
  <2> QED
    BY <2>1, <2>2, <2>3
<1>2. ASSUME NEW v, Render(v) PROVE Elsewhere
  <2>1. screen' \in {screen, NoScreen}
    BY <1>1, <1>2 DEF Render, Clear
  <2> QED
    BY <1>2, <2>1 DEF Render, aux, count, Elsewhere
<1>3. ASSUME NEW v, Stop(v) PROVE Elsewhere
  BY <1>3 DEF Stop, Clear, aux, count, Elsewhere
<1>4. ASSUME NEW v, Fail(v) PROVE Elsewhere
  BY <1>4 DEF Fail, Clear, aux, count, Elsewhere
<1>5. ASSUME NEW c, NEW part, FinishRead(c, part) PROVE Elsewhere
  BY <1>5 DEF FinishRead, aux, count, Elsewhere
<1>6. ASSUME NEW p, Signs(p) PROVE Elsewhere
  BY <1>6 DEF Signs, page, aux, count, Elsewhere
<1>7. ASSUME NEW p, Post(p) PROVE Elsewhere
  BY <1>7 DEF Post, page, aux, count, Elsewhere
<1>8. ASSUME NEW p, Answer(p) PROVE Elsewhere
  BY <1>8 DEF Answer, count, Elsewhere
<1>9. ASSUME NEW p, PostFails(p) PROVE Elsewhere
  BY <1>9 DEF PostFails, aux, count, Elsewhere
<1>10. ASSUME NEW p, Navigate(p) PROVE Elsewhere
  BY <1>10 DEF Navigate, Click, Route, Clear, aux, Elsewhere
<1>11. ASSUME NEW w, accountChanged(w) PROVE Elsewhere
  BY <1>11 DEF accountChanged, Click, Route, Clear, aux, Elsewhere
<1>12. ASSUME NEW m, onSelect(m) PROVE Elsewhere
  BY <1>12 DEF onSelect, Click, aux, Elsewhere
<1>13. ASSUME NEW m, Redeliver(m) PROVE Elsewhere
  BY <1>13 DEF Redeliver, page, aux, count, Elsewhere
<1>14. ASSUME connect PROVE Elsewhere
  BY <1>14 DEF connect, Click, Route, Clear, aux, Elsewhere
<1>15. ASSUME disconnect PROVE Elsewhere
  BY <1>15 DEF disconnect, Click, Route, Clear, aux, Elsewhere
<1>16. ASSUME onSubmit PROVE Elsewhere
  BY <1>16 DEF onSubmit, Click, aux, Elsewhere
<1>17. ASSUME Back PROVE Elsewhere
  BY <1>17 DEF Back, Click, Clear, aux, Elsewhere
<1>18. ASSUME Restart PROVE Elsewhere
  BY <1>18 DEF Restart, page, count, Elsewhere
<1>19. ASSUME UNCHANGED vars PROVE Elsewhere
  BY <1>19 DEF vars, page, aux, count, Elsewhere
<1> QED
  BY <1>2, <1>3, <1>4, <1>5, <1>6, <1>7, <1>8, <1>9, <1>10, <1>11, <1>12,
     <1>13, <1>14, <1>15, <1>16, <1>17, <1>18, <1>19

(* A new launch screen is not one that was launched from before.           *)
LEMMA ContinueKeeps ==
  ASSUME LaunchInv, Continue
  PROVE  LaunchInv'
<1>1. /\ UNCHANGED <<attempts, launched, failed>>
      /\ clicks' = clicks + 1
      /\ screen' = [n |-> clicks', enabled |-> pk # "none"]
  BY DEF Continue, Click, aux
<1>2. clicks \in Nat /\ clicks' \in Nat /\ 1 .. clicks \subseteq 1 .. clicks'
  BY <1>1 DEF LaunchInv
<1>3. Certain' = Certain
  BY <1>1 DEF Certain
<1>4. \A b \in Certain \cup attempts : b.screen # clicks'
  BY <1>1, <1>2 DEF LaunchInv, AttemptsOK, LaunchesOK, Certain
<1>5. DOMAIN screen' = {"n", "enabled"} /\ screen'.n = clicks'
  BY <1>1
<1>6. ScreenOK'
  BY <1>1, <1>2, <1>3, <1>4, <1>5 DEF ScreenOK
<1>7. AttemptsOK' /\ LaunchesOK'
  BY <1>1, <1>2, <1>3 DEF LaunchInv, AttemptsOK, LaunchesOK
<1> QED
  BY <1>2, <1>6, <1>7 DEF LaunchInv

LEMMA PressKeeps ==
  ASSUME LaunchInv, PressLaunch
  PROVE  LaunchInv'
<1> DEFINE new == [n |-> clicks', screen |-> screen.n, payer |-> pk,
                   at |-> "upload", exists |-> FALSE, next |-> 0, table |-> {},
                   clean |-> TRUE]
<1>1. /\ screen # NoScreen /\ screen.enabled
      /\ clicks' = clicks + 1
      /\ screen' = [screen EXCEPT !.enabled = FALSE]
      /\ attempts' = attempts \cup {new}
      /\ UNCHANGED <<launched, failed>>
  BY DEF PressLaunch, onLaunch, Click, NewAttempt, aux
<1>2. clicks \in Nat /\ clicks' \in Nat /\ 1 .. clicks \subseteq 1 .. clicks'
  BY <1>1 DEF LaunchInv
<1>3. Certain' = Certain
  BY <1>1 DEF Certain
<1>4. /\ DOMAIN screen = {"n", "enabled"}
      /\ screen.n \in 1 .. clicks
      /\ \A b \in Certain : b.screen # screen.n
      /\ \A a \in attempts : a.screen # screen.n
  BY <1>1 DEF LaunchInv, ScreenOK
<1>5. DOMAIN screen' = {"n", "enabled"} /\ screen'.n = screen.n /\ ~screen'.enabled
  BY <1>1, <1>4
<1>6. ScreenOK'
  BY <1>2, <1>4, <1>5 DEF ScreenOK
<1>7. /\ {"n", "screen", "at", "exists", "next", "table", "clean"} \subseteq DOMAIN new
      /\ new.screen = screen.n /\ new.n = clicks'
  OBVIOUS
<1> HIDE DEF new
<1>8. AttemptsOK'
  <2>1. clicks' \in 1 .. clicks' /\ \A b \in launched : b.n <= clicks'
    BY <1>1, <1>2 DEF LaunchInv, LaunchesOK
  <2> QED
    BY <1>1, <1>2, <1>3, <1>4, <1>7, <2>1 DEF LaunchInv, AttemptsOK
<1>9. LaunchesOK'
  BY <1>1, <1>2, <1>3 DEF LaunchInv, LaunchesOK
<1> QED
  BY <1>2, <1>6, <1>8, <1>9 DEF LaunchInv

(* An attempt goes on, as its launch screen's only one.                    *)
LEMMA GoesKeeps ==
  ASSUME LaunchInv, NEW a \in attempts, NEW b,
         DOMAIN b = DOMAIN a, b.screen = a.screen, b.n = a.n, Goes(a, b),
         UNCHANGED <<clicks, screen, launched, failed>>
  PROVE  LaunchInv'
<1>1. Certain' = Certain
  BY DEF Certain
<1>2. attempts' = (attempts \ {a}) \cup {b}
  BY DEF Goes
<1>3. ScreenOK'
  BY <1>1, <1>2 DEF LaunchInv, ScreenOK
<1>4. AttemptsOK'
  BY <1>1, <1>2 DEF LaunchInv, AttemptsOK
<1>5. LaunchesOK'
  BY <1>1 DEF LaunchInv, LaunchesOK
<1> QED
  BY <1>3, <1>4, <1>5 DEF LaunchInv

LEMMA AttemptSteps ==
  ASSUME LaunchInv, NEW a \in attempts
  PROVE  /\ Upload(a) => LaunchInv'
         /\ Poll(a) => LaunchInv'
         /\ \A landed \in BOOLEAN : CreateTable(a, landed) => LaunchInv'
         /\ \A landed \in BOOLEAN : ExtendTable(a, landed) => LaunchInv'
<1>1. {"n", "screen", "at", "exists", "next", "table", "clean"} \subseteq DOMAIN a
  BY DEF LaunchInv, AttemptsOK
<1>2. ASSUME Upload(a) PROVE LaunchInv'
  BY <1>1, <1>2, GoesKeeps DEF Upload, page, aux, count
<1>3. ASSUME Poll(a) PROVE LaunchInv'
  BY <1>1, <1>3, GoesKeeps DEF Poll, page, aux, count
<1>4. ASSUME NEW landed \in BOOLEAN, CreateTable(a, landed) PROVE LaunchInv'
  BY <1>1, <1>4, GoesKeeps DEF CreateTable, page, aux, count
<1>5. ASSUME NEW landed \in BOOLEAN, ExtendTable(a, landed) PROVE LaunchInv'
  BY <1>1, <1>5, GoesKeeps DEF ExtendTable, page, aux, count
<1> QED
  BY <1>2, <1>3, <1>4, <1>5

(* An attempt ends.  Unless it launched for certain, its button may be     *)
(* enabled again: no other attempt, and no certain launch, is of that      *)
(* screen.                                                                 *)
LEMMA EndKeeps ==
  ASSUME LaunchInv, NEW a \in attempts,
         attempts' = attempts \ {a}, clicks' = clicks,
         launched \subseteq launched',
         \A x \in launched' \ launched : x.screen = a.screen /\ x.n = a.n,
         Certain' \subseteq Certain,
         screen' = IF screen.n = a.screen THEN [screen EXCEPT !.enabled = TRUE]
                   ELSE screen
  PROVE  LaunchInv'
<1>1. /\ a.screen \in 1 .. clicks /\ a.n \in 1 .. clicks
      /\ \A b \in Certain' : b.screen # a.screen
      /\ \A b \in attempts' : b.screen # a.screen
  BY DEF LaunchInv, AttemptsOK
<1>2. ScreenOK'
  <2>1. CASE screen.n = a.screen
    <3>1. screen # NoScreen
      BY <1>1, <2>1 DEF LaunchInv, NoScreen
    <3>2. DOMAIN screen' = {"n", "enabled"} /\ screen'.n = a.screen
      BY <2>1, <3>1 DEF LaunchInv, ScreenOK
    <3> QED
      BY <1>1, <3>2 DEF ScreenOK
  <2>2. CASE screen.n # a.screen
    BY <2>2 DEF LaunchInv, ScreenOK
  <2> QED
    BY <2>1, <2>2
<1>3. AttemptsOK'
  BY DEF LaunchInv, AttemptsOK
<1>4. LaunchesOK'
  BY <1>1 DEF LaunchInv, LaunchesOK
<1> QED
  BY <1>2, <1>3, <1>4 DEF LaunchInv

LEMMA LaunchEnds ==
  ASSUME LaunchInv, NEW a \in attempts
  PROVE  /\ LaunchFails(a) => LaunchInv'
         /\ LaunchUnconfirmed(a) => LaunchInv'
         /\ \A landed \in BOOLEAN : Launch(a, landed) => LaunchInv'
<1> DEFINE x == [n |-> a.n, screen |-> a.screen]
<1>1. x.screen = a.screen /\ x.n = a.n
  OBVIOUS
<1> HIDE DEF x
<1>2. a.n \in 1 .. clicks /\ \A b \in launched : b.screen = a.screen => b.n <= a.n
  BY DEF LaunchInv, AttemptsOK
<1>3. ASSUME LaunchFails(a) PROVE LaunchInv'
  <2>1. /\ attempts' = attempts \ {a} /\ clicks' = clicks
        /\ launched' = launched /\ failed' = failed \cup {x}
        /\ screen' = IF screen.n = a.screen THEN [screen EXCEPT !.enabled = TRUE]
                     ELSE screen
    BY <1>3 DEF LaunchFails, count, x
  <2>2. Certain' \subseteq Certain
    BY <2>1 DEF Certain
  <2> QED
    BY <2>1, <2>2, EndKeeps
<1>4. ASSUME LaunchUnconfirmed(a) PROVE LaunchInv'
  <2>1. /\ attempts' = attempts \ {a} /\ clicks' = clicks
        /\ launched' = launched \cup {x} /\ failed' = failed \cup {x}
        /\ screen' = IF screen.n = a.screen THEN [screen EXCEPT !.enabled = TRUE]
                     ELSE screen
    BY <1>4 DEF LaunchUnconfirmed, count, x
  <2>2. Certain' \subseteq Certain
    BY <2>1 DEF Certain
  <2> QED
    BY <1>1, <2>1, <2>2, EndKeeps
<1>5. ASSUME NEW landed \in BOOLEAN, Launch(a, landed) PROVE LaunchInv'
  <2>1. /\ attempts' = attempts \ {a} /\ clicks' = clicks /\ screen' = screen
        /\ launched' \in {launched, launched \cup {x}} /\ failed' = failed
    BY <1>5 DEF Launch, page, count, x
  <2>2. Certain' \subseteq Certain \cup {x}
    BY <2>1 DEF Certain
  <2>3. /\ a.screen \in 1 .. clicks
        /\ \A b \in Certain : b.screen # a.screen
        /\ \A b \in attempts' : b.screen # a.screen
    BY <2>1 DEF LaunchInv, AttemptsOK
  <2>4. ScreenOK'
    BY <1>1, <2>1, <2>2 DEF LaunchInv, ScreenOK
  <2>5. AttemptsOK'
    BY <1>1, <2>1, <2>2, <2>3 DEF LaunchInv, AttemptsOK
  <2>6. LaunchesOK'
    <3>1. \A b \in launched' : b.screen \in 1 .. clicks' /\ b.n \in 1 .. clicks'
      BY <1>1, <1>2, <2>1, <2>3 DEF LaunchInv, LaunchesOK
    <3>2. \A c \in Certain', b \in launched' : b.screen = c.screen => b.n <= c.n
      BY <1>1, <1>2, <2>1, <2>2, <2>3 DEF LaunchInv, LaunchesOK
    <3> QED
      BY <3>1, <3>2 DEF LaunchesOK
  <2> QED
    BY <2>1, <2>4, <2>5, <2>6 DEF LaunchInv
<1> QED
  BY <1>3, <1>4, <1>5

LEMMA LaunchNext == LaunchInv /\ [Next]_vars => LaunchInv'
<1> SUFFICES ASSUME LaunchInv, [Next]_vars PROVE LaunchInv'
  OBVIOUS
<1>1. CASE Rendering
  BY <1>1, ElsewhereSteps, ElsewhereKeeps DEF Rendering
<1>2. CASE Reading
  BY <1>2, ElsewhereSteps, ElsewhereKeeps DEF Reading
<1>3. CASE Submitting
  BY <1>3, ElsewhereSteps, ElsewhereKeeps DEF Submitting
<1>4. CASE Launching
  BY <1>4, AttemptSteps, LaunchEnds DEF Launching
<1>5. CASE User
  BY <1>5, ElsewhereSteps, ElsewhereKeeps, ContinueKeeps, PressKeeps DEF User
<1>6. CASE Restart \/ (\E m \in signed : Redeliver(m)) \/ UNCHANGED vars
  BY <1>6, ElsewhereSteps, ElsewhereKeeps
<1> QED
  BY <1>1, <1>2, <1>3, <1>4, <1>5, <1>6 DEF Next

(* A launch not reported as failed is the last of its launch screen        *)
(* (launch.ts:154-170), for any number of clicks, screens and launches.    *)
THEOREM LaunchedLastCorrect == Spec => []LaunchedLast
<1>1. LaunchInv => LaunchedLast
  BY DEF LaunchInv, LaunchesOK, LaunchedLast, Certain
<1> QED
  BY LaunchInit, LaunchNext, <1>1, PTL DEF Spec

----------------------------------------------------------------------------
(* What a table leaves uncovered.                                          *)
LEMMA InstructionKeys ==
  ASSUME NEW name, NEW fields, NEW args, NEW keys
  PROVE  Instruction(name, fields, args, keys).keys = keys
<1> DEFINE throws == ~encodeChecked(name, args, encode(fields, args))
<1>1. Instruction(name, fields, args, keys) =
        [name |-> name, data |-> encode(fields, args), keys |-> keys,
         throws |-> throws]
  BY DEF Instruction
<1> HIDE DEF throws
<1> QED
  BY <1>1

LEMMA MetaFields ==
  ASSUME NEW x
  PROVE  /\ ro(x).key = x /\ rw(x).key = x
         /\ Signed(ro(x)).key = x /\ Signed(rw(x)).key = x
         /\ Signed(ro(x)).signer /\ Signed(rw(x)).signer
         /\ ~ro(x).signer /\ ~rw(x).signer
  BY DEF ro, rw, Signed

(* The twenty addresses of a launch's table are those of the accounts that *)
(* launch_coin names, the two signers left out.                            *)
LEMMA LaunchListed ==
  ASSUME NEW params, NEW a
  PROVE  LET keys == launchCoinIx(params, a).keys
             list == launchCoinAltAddresses(a) IN
         /\ Len(list) = 20 /\ DOMAIN list = 1 .. 20 /\ list[20] = PROGRAM_ID
         /\ DOMAIN keys = 1 .. 22
         /\ \A n \in 1 .. 22 :
              keys[n].signer \/ \E j \in 1 .. 20 : keys[n].key = list[j]
<1> DEFINE keys == launchCoinIx(params, a).keys
           list == launchCoinAltAddresses(a)
           d == launchCoinDerived(a)
           At(n, j) == keys[n].key = list[j]
<1>1. keys =
        <<Signed(rw(a.payer)), Signed(rw(a.baseMint)), ro(pdas_global),
          ro(pdas_platformAllowlist), ro(a.config), ro(DBC_POOL_AUTHORITY),
          ro(WSOL_MINT), rw(d.pool), rw(d.baseVault), rw(d.quoteVault),
          rw(d.mintMetadata), ro(METADATA_PROGRAM), rw(d.devQuoteAta),
          rw(d.devBaseAta), rw(d.coinConfig), rw(a.platformWallet),
          ro(TOKEN_PROGRAM), ro(TOKEN_PROGRAM), ro(ATA_PROGRAM),
          ro(DBC_EVENT_AUTHORITY), ro(DBC_PROGRAM), ro(SYSTEM_PROGRAM)>>
  BY InstructionKeys DEF launchCoinIx
<1>2. list =
        <<pdas_global, pdas_platformAllowlist, a.config, DBC_POOL_AUTHORITY,
          WSOL_MINT, d.pool, d.baseVault, d.quoteVault, d.mintMetadata,
          METADATA_PROGRAM, d.devQuoteAta, d.devBaseAta, d.coinConfig,
          a.platformWallet, TOKEN_PROGRAM, ATA_PROGRAM, DBC_EVENT_AUTHORITY,
          DBC_PROGRAM, SYSTEM_PROGRAM, PROGRAM_ID>>
  BY DEF launchCoinAltAddresses
<1> HIDE DEF keys, list, d
<1>3. keys[1].signer /\ keys[2].signer
  BY <1>1, MetaFields
<1>4. At(3, 1) /\ At(4, 2) /\ At(5, 3) /\ At(6, 4) /\ At(7, 5)
  BY <1>1, <1>2, MetaFields
<1>5. At(8, 6) /\ At(9, 7) /\ At(10, 8) /\ At(11, 9) /\ At(12, 10)
  BY <1>1, <1>2, MetaFields
<1>6. At(13, 11) /\ At(14, 12) /\ At(15, 13) /\ At(16, 14) /\ At(17, 15)
  BY <1>1, <1>2, MetaFields
<1>7. At(18, 15) /\ At(19, 16) /\ At(20, 17) /\ At(21, 18) /\ At(22, 19)
  BY <1>1, <1>2, MetaFields
<1>8. Len(list) = 20 /\ DOMAIN list = 1 .. 20 /\ list[20] = PROGRAM_ID
  BY <1>2
<1>9. DOMAIN keys = 1 .. 22
  BY <1>1
<1> HIDE DEF At
<1> DEFINE Listed(n) == keys[n].signer \/ \E j \in 1 .. 20 : At(n, j)
<1>10. /\ Listed(1) /\ Listed(2) /\ Listed(3) /\ Listed(4) /\ Listed(5)
       /\ Listed(6) /\ Listed(7) /\ Listed(8) /\ Listed(9) /\ Listed(10)
       /\ Listed(11)
  BY <1>3, <1>4, <1>5, <1>6
<1>11. /\ Listed(12) /\ Listed(13) /\ Listed(14) /\ Listed(15) /\ Listed(16)
       /\ Listed(17) /\ Listed(18) /\ Listed(19) /\ Listed(20) /\ Listed(21)
       /\ Listed(22)
  BY <1>5, <1>6, <1>7
<1> HIDE DEF Listed
<1>12. \A n \in 1 .. 22 : Listed(n)
  BY <1>10, <1>11
<1>13. \A n \in 1 .. 22 : keys[n].signer \/ \E j \in 1 .. 20 : keys[n].key = list[j]
  BY <1>12 DEF Listed, At
<1> QED
  BY <1>8, <1>9, <1>13 DEF keys, list

----------------------------------------------------------------------------
(* The third invariant: what an attempt has in its table.  The addresses   *)
(* are sent in slices, and the table has all those sent by now, unless one *)
(* of its transactions has failed on chain.                                *)
Filled(a) == \A j \in 1 .. 20 : j <= a.next => Addresses(a)[j] \in a.table

TableOK(a) ==
  /\ {"n", "payer", "at", "exists", "next", "table", "clean"} \subseteq DOMAIN a
  /\ a.next \in Nat
  /\ a.at \in {"upload", "create", "extend", "poll", "launch"}
  /\ a.at \in {"upload", "create"} => a.next = 0
  /\ a.at \in {"poll", "launch"} => a.next >= 20
  /\ a.clean => Filled(a)

TablesOK == \A a \in attempts : TableOK(a)

LEMMA AttemptTables ==
  ASSUME TablesOK, NEW a \in attempts
  PROVE  /\ Upload(a) => TablesOK'
         /\ Poll(a) => TablesOK'
         /\ \A landed \in BOOLEAN : CreateTable(a, landed) => TablesOK'
         /\ \A landed \in BOOLEAN : ExtendTable(a, landed) => TablesOK'
<1>1. TableOK(a)
  BY DEF TablesOK
<1>2. ASSUME NEW b, TableOK(b), Goes(a, b) PROVE TablesOK'
  <2>1. attempts' = (attempts \ {a}) \cup {b}
    BY <1>2 DEF Goes
  <2>2. \A c \in attempts' : TableOK(c)
    BY <1>2, <2>1 DEF TablesOK
  <2> QED
    BY <2>2 DEF TablesOK, TableOK, Filled, Addresses, Accounts
<1>3. ASSUME NEW b, b.n = a.n, b.payer = a.payer PROVE Addresses(b) = Addresses(a)
  BY <1>3 DEF Addresses, Accounts
<1>4. ASSUME Upload(a) PROVE TablesOK'
  <2> DEFINE b == [a EXCEPT !.at = "create"]
  <2>1. /\ DOMAIN b = DOMAIN a /\ b.n = a.n /\ b.payer = a.payer
        /\ b.at = "create" /\ b.next = a.next /\ b.table = a.table
        /\ b.clean = a.clean /\ a.at = "upload" /\ Goes(a, b)
    BY <1>1, <1>4 DEF TableOK, Upload
  <2> HIDE DEF b
  <2>2. TableOK(b)
    BY <1>1, <1>3, <2>1 DEF TableOK, Filled
  <2> QED
    BY <1>2, <2>1, <2>2
<1>5. ASSUME Poll(a) PROVE TablesOK'
  <2> DEFINE b == [a EXCEPT !.at = "launch"]
  <2>1. /\ DOMAIN b = DOMAIN a /\ b.n = a.n /\ b.payer = a.payer
        /\ b.at = "launch" /\ b.next = a.next /\ b.table = a.table
        /\ b.clean = a.clean /\ a.at = "poll" /\ Goes(a, b)
    BY <1>1, <1>5 DEF TableOK, Poll
  <2> HIDE DEF b
  <2>2. TableOK(b)
    BY <1>1, <1>3, <2>1 DEF TableOK, Filled
  <2> QED
    BY <1>2, <2>1, <2>2
<1>6. ASSUME NEW landed \in BOOLEAN, CreateTable(a, landed) PROVE TablesOK'
  <2> DEFINE b == [a EXCEPT !.at = "extend", !.exists = landed, !.clean = landed]
  <2>1. /\ DOMAIN b = DOMAIN a /\ b.n = a.n /\ b.payer = a.payer
        /\ b.at = "extend" /\ b.next = a.next
        /\ a.at = "create" /\ Goes(a, b)
    BY <1>1, <1>6 DEF TableOK, CreateTable
  <2> HIDE DEF b
  <2>2. TableOK(b)
    BY <1>1, <2>1 DEF TableOK, Filled
  <2> QED
    BY <1>2, <2>1, <2>2
<1>7. ASSUME NEW landed \in BOOLEAN, ExtendTable(a, landed) PROVE TablesOK'
  <2> DEFINE list == Addresses(a)
             next == a.next + ChunkSize
             at == IF next < Len(list) THEN "extend" ELSE "poll"
             table == IF landed THEN a.table \cup Slice(list, a.next) ELSE a.table
             b == [a EXCEPT !.at = at, !.next = next, !.table = table,
                            !.clean = @ /\ landed]
  <2>1. /\ Len(list) = 20 /\ DOMAIN list = 1 .. 20
    BY LaunchListed DEF Addresses
  <2> HIDE DEF list
  <2>2. a.at = "extend" /\ Goes(a, b)
    BY <1>7 DEF ExtendTable, list
  <2>3. /\ DOMAIN b = DOMAIN a /\ b.n = a.n /\ b.payer = a.payer
        /\ b.at = at /\ b.next = next /\ b.table = table
        /\ b.clean => a.clean /\ landed
    <3> HIDE DEF at, next, table
    <3>1. /\ DOMAIN b = DOMAIN a /\ b.n = a.n /\ b.payer = a.payer
          /\ b.at = at /\ b.next = next /\ b.table = table
      BY <1>1 DEF TableOK
    <3>2. b.clean = (a.clean /\ landed)
      BY <1>1 DEF TableOK
    <3> QED
      BY <3>1, <3>2
  <2> HIDE DEF b
  <2>4. a.next \in Nat /\ next \in Nat /\ ChunkSize \in Nat
    BY <1>1, AppAssumption DEF TableOK
  <2>5. /\ at \in {"extend", "poll"}
        /\ at = "poll" => next >= 20
    BY <2>1, <2>4
  <2>6. ASSUME b.clean, NEW j \in 1 .. 20, j <= next PROVE list[j] \in b.table
    <3>1. a.clean /\ landed /\ Filled(a)
      BY <1>1, <2>3, <2>6 DEF TableOK
    <3>2. CASE j <= a.next
      BY <2>3, <3>1, <3>2 DEF Filled, list
    <3>3. CASE ~(j <= a.next)
      <4>1. list[j] \in Slice(list, a.next)
        BY <2>1, <2>4, <2>6, <3>3 DEF Slice
      <4> QED
        BY <2>3, <3>1, <4>1
    <3> QED
      BY <3>2, <3>3
  <2>7. Addresses(b) = list
    BY <1>3, <2>3 DEF list
  <2> HIDE DEF at, next, table
  <2>8. b.clean => Filled(b)
    BY <2>3, <2>6, <2>7 DEF Filled
  <2>9. TableOK(b)
    BY <1>1, <2>3, <2>4, <2>5, <2>8 DEF TableOK
  <2> QED
    BY <1>2, <2>2, <2>9
<1> QED
  BY <1>4, <1>5, <1>6, <1>7

LEMMA FewerTables ==
  ASSUME TablesOK, attempts' \subseteq attempts
  PROVE  TablesOK'
<1>1. \A a \in attempts' : TableOK(a)
  BY DEF TablesOK
<1> QED
  BY <1>1 DEF TablesOK, TableOK, Filled, Addresses, Accounts

LEMMA PressTables ==
  ASSUME TablesOK, PressLaunch
  PROVE  TablesOK'
<1> DEFINE new == [n |-> clicks', screen |-> screen.n, payer |-> pk,
                   at |-> "upload", exists |-> FALSE, next |-> 0, table |-> {},
                   clean |-> TRUE]
<1>1. attempts' = attempts \cup {new}
  BY DEF PressLaunch, onLaunch, NewAttempt
<1>2. /\ {"n", "payer", "at", "exists", "next", "table", "clean"} \subseteq DOMAIN new
      /\ new.at = "upload" /\ new.next = 0
  OBVIOUS
<1> HIDE DEF new
<1>3. TableOK(new)
  BY <1>2 DEF TableOK, Filled
<1>4. \A a \in attempts' : TableOK(a)
  BY <1>1, <1>3 DEF TablesOK
<1> QED
  BY <1>4 DEF TablesOK, TableOK, Filled, Addresses, Accounts

LEMMA TablesNext == TablesOK /\ [Next]_vars => TablesOK'
<1> SUFFICES ASSUME TablesOK, [Next]_vars PROVE TablesOK'
  OBVIOUS
<1>1. CASE Rendering
  BY <1>1, ElsewhereSteps, FewerTables DEF Rendering, Elsewhere
<1>2. CASE Reading
  BY <1>2, ElsewhereSteps, FewerTables DEF Reading, Elsewhere
<1>3. CASE Submitting
  BY <1>3, ElsewhereSteps, FewerTables DEF Submitting, Elsewhere
<1>4. CASE Launching
  <2>1. PICK a \in attempts :
          \/ Upload(a) \/ Poll(a) \/ LaunchFails(a) \/ LaunchUnconfirmed(a)
          \/ \E landed \in BOOLEAN :
               CreateTable(a, landed) \/ ExtendTable(a, landed) \/ Launch(a, landed)
    BY <1>4 DEF Launching
  <2>2. CASE \/ LaunchFails(a) \/ LaunchUnconfirmed(a)
             \/ \E landed \in BOOLEAN : Launch(a, landed)
    <3>1. attempts' \subseteq attempts
      BY <2>2 DEF LaunchFails, LaunchUnconfirmed, Launch
    <3> QED
      BY <3>1, FewerTables
  <2> QED
    BY <2>1, <2>2, AttemptTables
<1>5. CASE User
  <2>1. Elsewhere \/ Continue \/ PressLaunch
    BY <1>5, ElsewhereSteps DEF User
  <2>2. CASE Elsewhere \/ Continue
    BY <2>2, FewerTables DEF Elsewhere, Continue
  <2> QED
    BY <2>1, <2>2, PressTables
<1>6. CASE Restart \/ (\E m \in signed : Redeliver(m)) \/ UNCHANGED vars
  BY <1>6, ElsewhereSteps, FewerTables DEF Elsewhere
<1> QED
  BY <1>1, <1>2, <1>3, <1>4, <1>5, <1>6 DEF Next

----------------------------------------------------------------------------
(* A sequence and what is appended to it.                                  *)
Sequential(s) == Len(s) \in Nat /\ s = [n \in 1 .. Len(s) |-> s[n]]

LEMMA AppendedIs ==
  ASSUME NEW s, NEW r, Sequential(s), Sequential(r)
  PROVE  /\ Len(s \o r) = Len(s) + Len(r)
         /\ DOMAIN (s \o r) = 1 .. (Len(s) + Len(r))
         /\ \A i \in 1 .. (Len(s) + Len(r)) :
              (s \o r)[i] = IF i <= Len(s) THEN s[i] ELSE r[i - Len(s)]
<1> DEFINE S == {s[n] : n \in 1 .. Len(s)} \cup {r[n] : n \in 1 .. Len(r)}
<1>1. s \in Seq(S)
  <2>1. [n \in 1 .. Len(s) |-> s[n]] \in [1 .. Len(s) -> S]
    OBVIOUS
  <2> HIDE DEF S
  <2> QED
    BY <2>1 DEF Sequential
<1>2. r \in Seq(S)
  <2>1. [n \in 1 .. Len(r) |-> r[n]] \in [1 .. Len(r) -> S]
    OBVIOUS
  <2> HIDE DEF S
  <2> QED
    BY <2>1 DEF Sequential
<1> HIDE DEF S
<1>3. /\ s \o r \in Seq(S)
      /\ Len(s \o r) = Len(s) + Len(r)
      /\ \A n \in 1 .. (Len(s) + Len(r)) :
           (s \o r)[n] = IF n <= Len(s) THEN s[n] ELSE r[n - Len(s)]
  BY <1>1, <1>2, ConcatProperties
<1>4. DOMAIN (s \o r) = 1 .. (Len(s) + Len(r))
  BY <1>3, LenProperties
<1> QED
  BY <1>3, <1>4

(* What is in a whole sequence is in one of its two parts.                 *)
FromEither(whole, s, r) ==
  \A n \in DOMAIN whole :
    \/ n \in 1 .. Len(s) /\ whole[n] = s[n]
    \/ \E i \in 1 .. Len(r) : whole[n] = r[i]

LEMMA InEither ==
  ASSUME NEW s, NEW r, Sequential(s), Sequential(r), NEW whole, whole = s \o r
  PROVE  FromEither(whole, s, r)
<1> SUFFICES ASSUME NEW n \in DOMAIN whole
             PROVE  \/ n \in 1 .. Len(s) /\ whole[n] = s[n]
                    \/ \E i \in 1 .. Len(r) : whole[n] = r[i]
  BY DEF FromEither
<1>1. /\ DOMAIN whole = 1 .. (Len(s) + Len(r))
      /\ \A i \in 1 .. (Len(s) + Len(r)) :
           whole[i] = IF i <= Len(s) THEN s[i] ELSE r[i - Len(s)]
  <2> DEFINE all == s \o r
  <2>1. /\ DOMAIN all = 1 .. (Len(s) + Len(r))
        /\ \A i \in 1 .. (Len(s) + Len(r)) :
             all[i] = IF i <= Len(s) THEN s[i] ELSE r[i - Len(s)]
    BY AppendedIs, Zenon
  <2>2. whole = all
    OBVIOUS
  <2> HIDE DEF all
  <2> QED
    BY <2>1, <2>2
<1>2. n \in DOMAIN whole
  OBVIOUS
<1>3. Len(s) \in Nat /\ Len(r) \in Nat
  BY DEF Sequential
<1>4. CASE n <= Len(s)
  <2>1. n \in 1 .. Len(s) /\ whole[n] = s[n]
    BY <1>1, <1>2, <1>3, <1>4
  <2> QED
    BY <2>1
<1>5. CASE ~(n <= Len(s))
  <2>1. n - Len(s) \in 1 .. Len(r) /\ whole[n] = r[n - Len(s)]
    BY <1>1, <1>2, <1>3, <1>5
  <2> QED
    BY <2>1
<1> QED
  BY <1>4, <1>5

(* The table for claim_and_sweep leaves nothing but its caller.            *)
LEMMA SweepCovered ==
  ASSUME NEW a, NEW graduated \in BOOLEAN
  PROVE  Uncovered(claimAndSweepIx(a, graduated),
                   claimAndSweepAltAddresses(a, graduated)) = {}
<1> DEFINE ix == claimAndSweepIx(a, graduated)
           table == claimAndSweepAltAddresses(a, graduated)
           s == sweepAtas(a.mint, a.platformWallet)
           pool == Pool(a.mint, a.config)
           own == <<Signed(ro(a.caller)), ro(pdas_global), rw(pdas_coinConfig(a.mint)),
                    ro(a.mint), ro(WSOL_MINT), ro(pdas_feeClaimer), ro(s.feeAuthority),
                    rw(s.feeWsolAta), rw(s.feeBaseAta), ro(s.payoutAuthority),
                    rw(s.payoutWsolAta), ro(s.revenueAuthority), rw(s.revenueWsolAta),
                    ro(a.platformWallet), rw(s.platformWsolAta), ro(a.config),
                    ro(DBC_POOL_AUTHORITY), rw(pool), rw(Vault(pool, a.mint)),
                    rw(Vault(pool, WSOL_MINT)), ro(DBC_EVENT_AUTHORITY),
                    ro(DBC_PROGRAM), ro(TOKEN_PROGRAM)>>
           first == {pdas_global, pdas_coinConfig(a.mint), a.mint, WSOL_MINT,
                     pdas_feeClaimer, s.feeAuthority, s.feeWsolAta, s.feeBaseAta,
                     s.payoutAuthority, s.payoutWsolAta, s.revenueAuthority,
                     s.revenueWsolAta, a.platformWallet, s.platformWsolAta, a.config,
                     DBC_POOL_AUTHORITY, pool, Vault(pool, a.mint),
                     Vault(pool, WSOL_MINT), DBC_EVENT_AUTHORITY, DBC_PROGRAM,
                     TOKEN_PROGRAM, PROGRAM_ID}
           rest == IF graduated THEN Rail(a.mint) ELSE <<>>
<1>1. table = first \cup (IF graduated THEN KeysOf(Rail(a.mint)) ELSE {})
  BY DEF claimAndSweepAltAddresses
<1>2. ix.keys = own \o rest
  <2> DEFINE all == own \o rest
  <2>1. ix = Instruction("claim_and_sweep", {}, <<>>, all)
    BY DEF claimAndSweepIx
  <2> HIDE DEF all, ix
  <2>2. ix.keys = all
    BY <2>1, InstructionKeys
  <2> QED
    BY <2>2 DEF all
<1>3. PROGRAM_ID \in table
  BY <1>1
<1> HIDE DEF ix, table, s, pool
<1>4. Sequential(own) /\ Len(own) = 23
  BY DEF Sequential
<1>5. \A n \in 1 .. 23 : own[n].signer \/ own[n].key \in first
  <2> DEFINE In(n) == own[n].signer \/ own[n].key \in first
  <2>1. In(1) /\ In(2) /\ In(3) /\ In(4) /\ In(5) /\ In(6)
    BY MetaFields
  <2>2. In(7) /\ In(8) /\ In(9) /\ In(10) /\ In(11) /\ In(12)
    BY MetaFields
  <2>3. In(13) /\ In(14) /\ In(15) /\ In(16) /\ In(17) /\ In(18)
    BY MetaFields
  <2>4. In(19) /\ In(20) /\ In(21) /\ In(22) /\ In(23)
    BY MetaFields
  <2> HIDE DEF In, own, first
  <2>5. \A n \in 1 .. 23 : In(n)
    BY <2>1, <2>2, <2>3, <2>4
  <2> QED
    BY <2>5 DEF In
<1> HIDE DEF own, first
<1>6. /\ Sequential(rest)
      /\ \A i \in 1 .. Len(rest) : rest[i].key \in table
  <2>1. CASE graduated
    <3>1. rest = Rail(a.mint)
      BY <2>1
    <3>2. Sequential(Rail(a.mint)) /\ DOMAIN Rail(a.mint) = 1 .. Len(Rail(a.mint))
      BY DEF Rail, Sequential
    <3>3. \A i \in 1 .. Len(Rail(a.mint)) : Rail(a.mint)[i].key \in table
      BY <1>1, <2>1, <3>2 DEF KeysOf
    <3> QED
      BY <3>1, <3>2, <3>3
  <2>2. CASE ~graduated
    <3>1. rest = <<>>
      BY <2>2
    <3>2. Sequential(<<>>) /\ Len(<<>>) = 0
      BY DEF Sequential
    <3> QED
      BY <3>1, <3>2
  <2> QED
    BY <2>1, <2>2
<1> HIDE DEF rest
<1>7. ASSUME NEW n \in DOMAIN ix.keys
      PROVE  ix.keys[n].signer \/ ix.keys[n].key \in table
  <2>1. FromEither(ix.keys, own, rest)
    BY <1>2, <1>4, <1>6, InEither, ZenonT(60)
  <2>2. \/ n \in 1 .. 23 /\ ix.keys[n] = own[n]
        \/ \E i \in 1 .. Len(rest) : ix.keys[n] = rest[i]
    BY <1>4, <2>1 DEF FromEither
  <2> QED
    BY <1>1, <1>5, <1>6, <2>2
<1>8. Uncovered(ix, table) \subseteq {}
  BY <1>3, <1>7 DEF Uncovered
<1> QED
  BY <1>8 DEF ix, table

(* That for distribute_batch leaves the recipients.                        *)
LEMMA DistributeCovered ==
  ASSUME NEW i, NEW out, NEW mint, NEW keeper, NEW who
  PROVE  LET ix == distributeBatchIx(i, out, <<who>>, mint, keeper) IN
         /\ Uncovered(ix, distributeBatchAltAddresses(mint, i, out))
              \subseteq {Ata(out, who)}
         /\ \E n \in DOMAIN ix.keys : ix.keys[n].key = Ata(out, who)
         /\ \A n \in DOMAIN ix.keys : ix.keys[n].signer => ix.keys[n].key = keeper
<1> DEFINE ix == distributeBatchIx(i, out, <<who>>, mint, keeper)
           table == distributeBatchAltAddresses(mint, i, out)
           payout == pdas_payoutAuthority(mint)
           whole == <<ro(pdas_global), Signed(ro(keeper)), ro(mint),
                      rw(pdas_epochState(mint, i)), rw(pdas_bucketState(mint, i, out)),
                      ro(out), ro(payout), rw(Ata(out, payout)), ro(TOKEN_PROGRAM)>>
           rest == [n \in DOMAIN <<who>> |-> rw(Ata(out, <<who>>[n]))]
<1>1. ix.keys = whole \o rest
  <2> DEFINE all == whole \o rest
             data == [_epoch_index |-> <<"u32", i>>,
                      recipients |-> <<"recipients", <<who>> >>]
  <2>1. ix = Instruction("distribute_batch", {"_epoch_index", "recipients"}, data, all)
    BY DEF distributeBatchIx
  <2> HIDE DEF all, ix, data
  <2>2. ix.keys = all
    BY <2>1, InstructionKeys
  <2> QED
    BY <2>2 DEF all
<1>2. table = {pdas_global, mint, pdas_epochState(mint, i),
               pdas_bucketState(mint, i, out), out, payout, Ata(out, payout),
               TOKEN_PROGRAM, PROGRAM_ID}
  BY DEF distributeBatchAltAddresses
<1>3. Sequential(whole) /\ Len(whole) = 9
  BY DEF Sequential
<1>4. rest = <<rw(Ata(out, who))>>
  OBVIOUS
<1> HIDE DEF ix, rest, payout, table
<1>5. /\ \A n \in 1 .. 9 : whole[n].signer \/ whole[n].key \in table
      /\ \A n \in 1 .. 9 : whole[n].signer => whole[n].key = keeper
  <2> DEFINE In(n) == /\ whole[n].signer \/ whole[n].key \in table
                      /\ whole[n].signer => whole[n].key = keeper
  <2>1. In(1) /\ In(2) /\ In(3) /\ In(4) /\ In(5)
    BY <1>2, MetaFields
  <2>2. In(6) /\ In(7) /\ In(8) /\ In(9)
    BY <1>2, MetaFields
  <2> HIDE DEF In, whole
  <2>3. \A n \in 1 .. 9 : In(n)
    BY <2>1, <2>2
  <2> QED
    BY <2>3 DEF In
<1> HIDE DEF whole
<1>6. /\ Sequential(rest) /\ Len(rest) = 1 /\ rest[1] = rw(Ata(out, who))
  <2>1. Sequential(<<rw(Ata(out, who))>>) /\ Len(<<rw(Ata(out, who))>>) = 1
    BY DEF Sequential
  <2> QED
    BY <1>4, <2>1
<1>7. ASSUME NEW n \in DOMAIN ix.keys
      PROVE  \/ n \in 1 .. 9 /\ ix.keys[n] = whole[n]
             \/ ix.keys[n] = rw(Ata(out, who))
  <2>1. FromEither(ix.keys, whole, rest)
    BY <1>1, <1>3, <1>6, InEither, ZenonT(60)
  <2> QED
    BY <1>3, <1>6, <2>1 DEF FromEither
<1>8. ASSUME NEW n \in DOMAIN ix.keys
      PROVE  /\ ix.keys[n].signer \/ ix.keys[n].key \in table \cup {Ata(out, who)}
             /\ ix.keys[n].signer => ix.keys[n].key = keeper
  <2>1. CASE n \in 1 .. 9 /\ ix.keys[n] = whole[n]
    BY <1>5, <2>1
  <2>2. CASE ix.keys[n] = rw(Ata(out, who))
    BY <2>2, MetaFields
  <2> QED
    BY <1>7, <2>1, <2>2
<1>9. Uncovered(ix, table) \subseteq {Ata(out, who)}
  <2>1. PROGRAM_ID \in table
    BY <1>2
  <2> QED
    BY <1>8, <2>1 DEF Uncovered
<1>10. 10 \in DOMAIN ix.keys /\ ix.keys[10] = rest[1]
  <2> DEFINE keys == whole \o rest
  <2>1. /\ DOMAIN keys = 1 .. (Len(whole) + Len(rest))
        /\ \A j \in 1 .. (Len(whole) + Len(rest)) :
             keys[j] = IF j <= Len(whole) THEN whole[j] ELSE rest[j - Len(whole)]
    BY <1>3, <1>6, AppendedIs, ZenonT(60)
  <2> HIDE DEF keys
  <2>2. 10 \in DOMAIN keys /\ keys[10] = rest[1]
    BY <1>3, <1>6, <2>1
  <2> QED
    BY <1>1, <2>2 DEF keys
<1>11. ix.keys[10].key = Ata(out, who)
  BY <1>6, <1>10, MetaFields
<1> QED
  BY <1>8, <1>9, <1>10, <1>11 DEF ix, table

LEMMA PdaTag ==
  ASSUME NEW s, Sequential(s), Len(s) \in 1 .. 4
  PROVE  Pda(s)[1] = "pda"
<1>1. Sequential(<<"pda">>) /\ Len(<<"pda">>) = 1 /\ <<"pda">>[1] = "pda"
  BY DEF Sequential
<1> DEFINE tag == <<"pda">>
           all == tag \o s
<1>2. \A i \in 1 .. (Len(tag) + Len(s)) :
        all[i] = IF i <= Len(tag) THEN tag[i] ELSE s[i - Len(tag)]
  <2> HIDE DEF tag
  <2> QED
    BY <1>1, AppendedIs, ZenonT(60) DEF tag
<1> HIDE DEF tag, all
<1>3. all[1] = "pda"
  BY <1>1, <1>2 DEF tag
<1> QED
  BY <1>3 DEF Pda, all, tag

(* The table of a recipient's batch does not name the recipient's account. *)
LEMMA RecipientLeft ==
  ASSUME NEW out \in {Key("out"), WSOL_MINT}
  PROVE  LET mint == Key("mint")
             x == Ata(out, Key("recipient")) IN
         /\ x \notin distributeBatchAltAddresses(mint, 0, out)
         /\ x # Key("keeper")
<1> DEFINE mint == Key("mint")
           x == Ata(out, Key("recipient"))
<1>1. x[1] = "ata" /\ x[3][1] = "key"
  BY DEF Ata, Key
<1>2. /\ pdas_global[1] = "pda" /\ pdas_epochState(mint, 0)[1] = "pda"
      /\ pdas_bucketState(mint, 0, out)[1] = "pda"
      /\ pdas_payoutAuthority(mint)[1] = "pda"
  <2> HIDE DEF mint
  <2>1. pdas_global[1] = "pda"
    <3>1. Sequential(<<"global">>) /\ Len(<<"global">>) \in 1 .. 4
      BY DEF Sequential
    <3> QED
      BY <3>1, PdaTag DEF pdas_global
  <2>2. pdas_epochState(mint, 0)[1] = "pda"
    <3> DEFINE s == <<"epoch", mint, 0>>
    <3>1. Sequential(s) /\ Len(s) \in 1 .. 4
      BY DEF Sequential
    <3> HIDE DEF s
    <3>2. Pda(s)[1] = "pda"
      BY <3>1, PdaTag
    <3> QED
      BY <3>2 DEF pdas_epochState, s
  <2>3. pdas_bucketState(mint, 0, out)[1] = "pda"
    <3> DEFINE s == <<"bucket", mint, 0, out>>
    <3>1. Sequential(s) /\ Len(s) \in 1 .. 4
      BY DEF Sequential
    <3> HIDE DEF s
    <3>2. Pda(s)[1] = "pda"
      BY <3>1, PdaTag
    <3> QED
      BY <3>2 DEF pdas_bucketState, s
  <2>4. pdas_payoutAuthority(mint)[1] = "pda"
    <3> DEFINE s == <<"payout", mint>>
    <3>1. Sequential(s) /\ Len(s) \in 1 .. 4
      BY DEF Sequential
    <3> HIDE DEF s
    <3>2. Pda(s)[1] = "pda"
      BY <3>1, PdaTag
    <3> QED
      BY <3>2 DEF pdas_payoutAuthority, s
  <2> QED
    BY <2>1, <2>2, <2>3, <2>4
<1>3. /\ mint[1] = "key" /\ out[1] \in {"key", "program"} /\ Key("keeper")[1] = "key"
      /\ TOKEN_PROGRAM[1] = "program" /\ PROGRAM_ID[1] = "program"
  BY DEF Key, WSOL_MINT, TOKEN_PROGRAM, PROGRAM_ID, Program
<1>4. Ata(out, pdas_payoutAuthority(mint))[3] = pdas_payoutAuthority(mint)
  BY DEF Ata
<1> HIDE DEF x, mint
<1>5. x \notin distributeBatchAltAddresses(mint, 0, out)
  BY <1>1, <1>2, <1>3, <1>4 DEF distributeBatchAltAddresses
<1> QED
  BY <1>1, <1>3, <1>5 DEF x, mint

LEMMA LaunchCovered ==
  ASSUME NEW a, TableOK(a), a.at = "launch", a.clean, NEW params
  PROVE  Uncovered(launchCoinIx(params, Accounts(a)), a.table) = {}
<1> DEFINE ix == launchCoinIx(params, Accounts(a))
           list == Addresses(a)
<1>1. /\ Len(list) = 20 /\ list[20] = PROGRAM_ID
      /\ DOMAIN ix.keys = 1 .. 22
      /\ \A n \in 1 .. 22 :
           ix.keys[n].signer \/ \E j \in 1 .. 20 : ix.keys[n].key = list[j]
  BY LaunchListed DEF Addresses
<1>2. \A j \in 1 .. 20 : list[j] \in a.table
  BY DEF TableOK, Filled
<1> HIDE DEF ix, list
<1>3. PROGRAM_ID \in a.table
  BY <1>1, <1>2
<1>4. ASSUME NEW n \in DOMAIN ix.keys
      PROVE  ix.keys[n].signer \/ ix.keys[n].key \in a.table
  BY <1>1, <1>2
<1>5. Uncovered(ix, a.table) = {}
  BY <1>3, <1>4 DEF Uncovered
<1> QED
  BY <1>5 DEF ix

(* index.ts:257: a lookup table that was filled without a failure covers   *)
(* the launch it was made for, whatever the size of its slices and however *)
(* many launches go on at a time; those of the other two instructions      *)
(* leave the signer and the recipients, and nothing else.                  *)
THEOREM TablesCoverCorrect == Spec => []TablesCover
<1>1. Init => TablesOK
  BY DEF Init, TablesOK
<1>2. TablesOK => TablesCover
  <2> SUFFICES ASSUME TablesOK PROVE TablesCover
    OBVIOUS
  <2>1. ASSUME NEW a \in attempts, a.at = "launch", a.clean
        PROVE  Uncovered(launchCoinIx(LaunchParams, Accounts(a)), a.table) = {}
    <3>1. TableOK(a)
      BY DEF TablesOK
    <3> QED
      BY <2>1, <3>1, LaunchCovered
  <2>2. ASSUME NEW sweep, NEW graduated \in BOOLEAN
        PROVE  Uncovered(claimAndSweepIx(sweep, graduated),
                         claimAndSweepAltAddresses(sweep, graduated)) = {}
    BY SweepCovered
  <2>3. ASSUME NEW out \in {Key("out"), WSOL_MINT}
        PROVE  Uncovered(distributeBatchIx(0, out, <<Key("recipient")>>,
                                           Key("mint"), Key("keeper")),
                         distributeBatchAltAddresses(Key("mint"), 0, out))
                 = {Ata(out, Key("recipient"))}
    <3> DEFINE x == Ata(out, Key("recipient"))
               keeper == Key("keeper")
               ix == distributeBatchIx(0, out, <<Key("recipient")>>, Key("mint"), keeper)
               table == distributeBatchAltAddresses(Key("mint"), 0, out)
    <3>1. /\ Uncovered(ix, table) \subseteq {x}
          /\ \E n \in DOMAIN ix.keys : ix.keys[n].key = x
          /\ \A n \in DOMAIN ix.keys : ix.keys[n].signer => ix.keys[n].key = keeper
      BY DistributeCovered
    <3>2. x \notin table /\ x # keeper
      BY RecipientLeft
    <3> HIDE DEF x, ix, table, keeper
    <3>3. x \in Uncovered(ix, table)
      BY <3>1, <3>2 DEF Uncovered
    <3>4. Uncovered(ix, table) = {x}
      BY <3>1, <3>3
    <3> QED
      BY <3>4 DEF x, ix, table, keeper
  <2> QED
    BY <2>1, <2>2, <2>3 DEF TablesCover
<1> QED
  BY <1>1, <1>2, TablesNext, PTL DEF Spec
=============================================================================
