-------------------------- MODULE CheckEmailProofs --------------------------
(***************************************************************************)
(* Proofs about CheckEmail, for every number of retries.                   *)
(***************************************************************************)
EXTENDS CheckEmail, TLAPS

\* Every recognised reply is a Deliverability.
LEMMA ReadType == ASSUME NEW reply PROVE Read(reply) \in Deliverability
  BY DEF Read, Deliverability

\* So are the two answers that are not read off a reply.
LEMMA AnswerType == NoAnswer \in Deliverability /\ Deliverable \in Deliverability
  BY DEF NoAnswer, Deliverable, Deliverability

\* The verdict on a successful check is one of three.
LEMMA ReachableType ==
  ASSUME NEW ca, NEW a
  PROVE CalculateReachable(ca, a) \in {"safe", "risky", "invalid"}
  BY DEF CalculateReachable

\* Opening a connection, or failing to, keeps every variable's type.
LEMMA ConnectType ==
  ASSUME TypeOK, NEW next \in {"catchall", "rcptagain"}, ConnectTo(next)
  PROVE TypeOK'
<1>1. pc' \in Places /\ conns' \in Nat
  BY DEF TypeOK, ConnectTo, Fail, Places, Conversation
<1>2. open' \in BOOLEAN
  BY DEF ConnectTo
<1>3. error' \in {"none", "blocked", "other"}
  BY DEF TypeOK, ConnectTo, Fail
<1>4. UNCHANGED <<target, count, catchAll, answer, verdict, learned, webVars>>
  BY DEF ConnectTo, Fail
<1> QED
  BY <1>1, <1>2, <1>3, <1>4 DEF TypeOK, webVars

\* The strengthening behind SessionsBound, which the types rest on too: where
\* there is a browser, how many attempts there were, and that an answer closes
\* its own session.
Sessions ==
  /\ sessions <= tries
  /\ tries <= MaxAttempts(target.method)
  /\ pc \in Browsing => sessions >= 1
  /\ pc = "browse" => tries < MaxAttempts(target.method)
  /\ pc \notin Browsing \cup {"browse", "browsefailed", "done"} => tries = 0
  /\ pc # "done" => verdict = "none"
  /\ verdict \in {"none", "unknown"} \/ tries = 0 \/ sessions <= tries - 1

\* The initial states satisfy both.
LEMMA TypeInit == Init => TypeOK /\ Sessions
<1> SUFFICES ASSUME Init PROVE TypeOK /\ Sessions
  OBVIOUS
<1>1. TypeOK
  <2>1. answer \in Deliverability
    BY AnswerType DEF Init
  <2>2. catchAll \in BOOLEAN /\ open \in BOOLEAN /\ learned \in BOOLEAN
    BY DEF Init
  <2>3. tries \in 0 .. 3 /\ sessions \in Nat
    BY DEF Init
  <2> QED
    BY <2>1, <2>2, <2>3, CheckEmailAssumption DEF Init, TypeOK, Places, Verdicts
<1>2. Sessions
  BY DEF Init, Sessions, MaxAttempts, Browsing
<1> QED
  BY <1>1, <1>2

\* Every step keeps every variable's type: one step per action.
LEMMA TypeStep ==
  ASSUME TypeOK, Sessions, [Next]_vars
  PROVE TypeOK'
<1> USE DEF TypeOK, smtpVars, webVars
<1>1. CASE CheckSyntax
  BY <1>1 DEF CheckSyntax, GoOn, Return, Places, Verdicts
<1>2. CASE CheckMx
  BY <1>2 DEF CheckMx, GoOn, Return, Places, Verdicts
<1>3. CASE Dispatch
  BY <1>3 DEF Dispatch, GoOn, Places, Conversation
<1>4. CASE Retry
  <2>1. answer' \in Deliverability
    BY <1>4, AnswerType DEF Retry, StartOver
  <2>2. catchAll' \in BOOLEAN /\ open' \in BOOLEAN
    BY <1>4 DEF Retry, StartOver
  <2> QED
    BY <1>4, <2>1, <2>2 DEF Retry, StartOver, Places, Conversation
<1>5. CASE GiveUp
  BY <1>5 DEF GiveUp, Return, Places, Verdicts
<1>6. CASE CatchAllSkipped
  BY <1>6 DEF CatchAllSkipped, Places, Conversation
<1>7. CASE ApiPage
  BY <1>7 DEF ApiPage, GoOn, Return, Places, Verdicts
<1>8. CASE ApiForm
  <2>1. answer' \in Deliverability /\ learned' \in BOOLEAN
    BY <1>8, ReadType DEF ApiForm, Return
  <2>2. verdict' \in Verdicts
    BY <1>8, ReachableType DEF ApiForm, Return, Verdicts
  <2> QED
    BY <1>8, <2>1, <2>2 DEF ApiForm, Return, Places
<1>9. CASE OpenBrowser
  <2>1. tries' \in 0 .. 3
    BY <1>9 DEF OpenBrowser, Sessions, MaxAttempts
  <2>2. sessions' \in Nat /\ pc' \in Places
    BY <1>9 DEF OpenBrowser, Places, Browsing
  <2> QED
    BY <1>9, <2>1, <2>2 DEF OpenBrowser
<1>10. CASE FillForm
  BY <1>10, AnswerType DEF FillForm, BrowseFails, GoOn, Places, Browsing
<1>11. CASE ReadPage
  <2>1. answer' \in Deliverability /\ learned' \in BOOLEAN
    BY <1>11, ReadType, AnswerType DEF ReadPage, BrowseFails
  <2>2. pc' \in Places
    BY <1>11 DEF ReadPage, BrowseFails, Places, Browsing
  <2> QED
    BY <1>11, <2>1, <2>2 DEF ReadPage, BrowseFails
<1>12. CASE CloseBrowser
  <2>1. answer' \in Deliverability
    BY <1>12, AnswerType DEF CloseBrowser, BrowseFails
  <2>4. sessions \in Nat /\ sessions >= 1
    BY <1>12 DEF CloseBrowser, Sessions, Browsing
  <2>5. sessions' \in {sessions, sessions - 1}
    BY <1>12 DEF CloseBrowser
  <2>2. sessions' \in Nat
    BY <2>4, <2>5
  <2>3. pc' \in Places /\ verdict' \in Verdicts
    BY <1>12, ReachableType DEF CloseBrowser, BrowseFails, Places, Verdicts
  <2> QED
    BY <1>12, <2>1, <2>2, <2>3 DEF CloseBrowser, BrowseFails
<1>13. CASE SessionEnds
  BY <1>13 DEF SessionEnds
<1>14. CASE BrowseAgain
  BY <1>14 DEF BrowseAgain, GoOn, Places
<1>15. CASE BrowseGivesUp
  BY <1>15 DEF BrowseGivesUp, Return, Places, Verdicts
<1>16. CASE Connect
  BY <1>16, ConnectType DEF Connect
<1>17. CASE Reconnect
  BY <1>17, ConnectType DEF Reconnect
<1>18. CASE CatchAll
  <2>1. answer' \in Deliverability
    BY <1>18, AnswerType DEF CatchAll
  <2>2. PICK reply :
          /\ catchAll' = Read(reply).deliverable
          /\ learned' = (learned \/ Read(reply).deliverable)
    BY <1>18 DEF CatchAll
  <2>3. Read(reply).deliverable \in BOOLEAN
    BY ReadType DEF Deliverability
  <2>4. catchAll' \in BOOLEAN /\ learned' \in BOOLEAN
    BY <2>2, <2>3
  <2>5. pc' \in Places
    BY <1>18 DEF CatchAll, Places, Conversation
  <2> QED
    BY <1>18, <2>1, <2>4, <2>5 DEF CatchAll
<1>19. CASE Rcpt
  <2>1. answer' \in Deliverability
    BY <1>19, ReadType DEF Rcpt, GoOn, Fail
  <2>2. pc' \in Places /\ error' \in {"none", "blocked", "other"}
    BY <1>19 DEF Rcpt, GoOn, Fail, ErrorOf, Places, Conversation
  <2>3. learned' \in BOOLEAN
    BY <1>19 DEF Rcpt, GoOn, Fail
  <2> QED
    BY <1>19, <2>1, <2>2, <2>3 DEF Rcpt, GoOn, Fail
<1>20. CASE Quit
  BY <1>20, ReachableType DEF Quit, Places, Verdicts
<1>21. CASE QuitFails
  BY <1>21 DEF QuitFails, Fail, ErrorOf, Places
<1>22. CASE Timeout
  BY <1>22 DEF Timeout, Fail, Places
<1>23. CASE ServerCloses
  BY <1>23 DEF ServerCloses
<1>24. CASE UNCHANGED vars
  BY <1>24 DEF vars
<1> QED
  BY <1>1, <1>2, <1>3, <1>4, <1>5, <1>6, <1>7, <1>8, <1>9, <1>10, <1>11,
     <1>12, <1>13, <1>14, <1>15, <1>16, <1>17, <1>18, <1>19, <1>20, <1>21, <1>22,
     <1>23, <1>24 DEF Next, Proceed

\* Every step keeps the sessions in bounds: one step per action.
LEMMA SessionsStep ==
  ASSUME TypeOK, Sessions, [Next]_vars
  PROVE Sessions'
<1> USE DEF Sessions, smtpVars, webVars, Browsing, Conversation
<1>0. tries \in Nat /\ sessions \in Nat /\ pc \in Places
  BY DEF TypeOK
<1>1. CASE CheckSyntax
  BY <1>1, <1>0 DEF CheckSyntax, GoOn, Return
<1>2. CASE CheckMx
  BY <1>2, <1>0 DEF CheckMx, GoOn, Return
<1>3. CASE Dispatch
  BY <1>3, <1>0 DEF Dispatch, GoOn, MaxAttempts
<1>4. CASE Retry
  BY <1>4, <1>0 DEF Retry, StartOver
<1>5. CASE GiveUp
  BY <1>5, <1>0 DEF GiveUp, Return
<1>6. CASE CatchAllSkipped
  BY <1>6, <1>0 DEF CatchAllSkipped
<1>7. CASE ApiPage
  BY <1>7, <1>0 DEF ApiPage, GoOn, Return
<1>8. CASE ApiForm
  BY <1>8, <1>0, ReachableType DEF ApiForm, Return
<1>9. CASE OpenBrowser
  BY <1>9, <1>0 DEF OpenBrowser, MaxAttempts
<1>10. CASE FillForm
  BY <1>10, <1>0 DEF FillForm, BrowseFails, GoOn
<1>11. CASE ReadPage
  BY <1>11, <1>0 DEF ReadPage, BrowseFails
<1>12. CASE CloseBrowser
  <2>1. UNCHANGED <<target, tries>> /\ sessions' \in {sessions, sessions - 1}
    BY <1>12 DEF CloseBrowser, BrowseFails
  <2>2. CASE pc' = "browsefailed" /\ verdict' = verdict
    BY <1>12, <1>0, <2>1, <2>2 DEF CloseBrowser
  <2>3. CASE sessions' = sessions - 1 /\ pc' = "done"
    BY <1>12, <1>0, <2>1, <2>3 DEF CloseBrowser
  <2> QED
    BY <1>12, <2>2, <2>3 DEF CloseBrowser, BrowseFails
<1>13. CASE SessionEnds
  BY <1>13, <1>0 DEF SessionEnds
<1>14. CASE BrowseAgain
  BY <1>14, <1>0 DEF BrowseAgain, GoOn
<1>15. CASE BrowseGivesUp
  BY <1>15, <1>0 DEF BrowseGivesUp, Return
<1>16. CASE Connect
  BY <1>16, <1>0 DEF Connect, ConnectTo, Fail
<1>17. CASE Reconnect
  BY <1>17, <1>0 DEF Reconnect, ConnectTo, Fail
<1>18. CASE CatchAll
  BY <1>18, <1>0 DEF CatchAll
<1>19. CASE Rcpt
  BY <1>19, <1>0 DEF Rcpt, GoOn, Fail
<1>20. CASE Quit
  BY <1>20, <1>0, ReachableType DEF Quit
<1>21. CASE QuitFails
  BY <1>21, <1>0 DEF QuitFails, Fail
<1>22. CASE Timeout
  BY <1>22, <1>0 DEF Timeout, Fail
<1>23. CASE ServerCloses
  BY <1>23, <1>0 DEF ServerCloses
<1>24. CASE UNCHANGED vars
  BY <1>24, <1>0 DEF vars
<1> QED
  BY <1>1, <1>2, <1>3, <1>4, <1>5, <1>6, <1>7, <1>8, <1>9, <1>10, <1>11,
     <1>12, <1>13, <1>14, <1>15, <1>16, <1>17, <1>18, <1>19, <1>20, <1>21, <1>22,
     <1>23, <1>24 DEF Next, Proceed

\* Both are invariants.
LEMMA SessionsInv == Spec => [](TypeOK /\ Sessions)
<1>1. Init => TypeOK /\ Sessions
  BY TypeInit
<1>2. TypeOK /\ Sessions /\ [Next]_vars => (TypeOK /\ Sessions)'
  BY TypeStep, SessionsStep
<1> QED
  BY <1>1, <1>2, PTL DEF Spec

\* Every variable keeps its type; in particular the remaining retries, an
\* unsigned integer that is decremented, never go below zero, and the attempts
\* with a browser never exceed three.
THEOREM TypeCorrect == Spec => []TypeOK
  BY SessionsInv, PTL

\* However its steps fail, a verification leaves at most one browser session
\* per attempt behind, and none of the attempt that brought the answer.
THEOREM SessionsBounded == Spec => []SessionsBound
<1>1. TypeOK /\ Sessions => SessionsBound
  BY DEF TypeOK, Sessions, SessionsBound
<1> QED
  BY <1>1, SessionsInv, PTL

\* The connections the current attempt may have opened so far.
Opened ==
  IF pc \in {"catchall", "rcpt", "reconnect"} THEN 1
  ELSE IF pc \in {"rcptagain", "quit", "failed", "done"} THEN 2
  ELSE 0

\* The strengthening behind ConnectionsBound: every attempt that is over has
\* used at most two connections, the current one no more than its progress
\* allows, and no attempt is started without a retry left for it.
Budget ==
  /\ count <= Retries
  /\ count = 0 => Retries = 0
  /\ conns <= 2 * (Retries - count) + Opened

\* Budget is an invariant: one step per action.
LEMMA BudgetInv == Spec => []Budget
<1>1. Init => Budget
  BY CheckEmailAssumption DEF Init, Budget, Opened
<1>2. TypeOK /\ Budget /\ [Next]_vars => Budget'
  <2> SUFFICES ASSUME TypeOK, Budget, [Next]_vars PROVE Budget'
    OBVIOUS
  <2>0. Retries \in Nat /\ count \in Nat /\ conns \in Nat
    BY CheckEmailAssumption DEF TypeOK
  <2> USE <2>0 DEF Budget, Opened, smtpVars, webVars, Browsing
  <2>1. CASE CheckSyntax
    BY <2>1 DEF CheckSyntax, GoOn, Return
  <2>2. CASE CheckMx
    BY <2>2 DEF CheckMx, GoOn, Return
  <2>3. CASE Dispatch
    BY <2>3 DEF Dispatch, GoOn
  <2>4. CASE Retry
    BY <2>4 DEF Retry, StartOver
  <2>5. CASE GiveUp
    BY <2>5 DEF GiveUp, Return
  <2>6. CASE CatchAllSkipped
    BY <2>6 DEF CatchAllSkipped
  <2>7. CASE ApiPage
    BY <2>7 DEF ApiPage, GoOn, Return
  <2>8. CASE ApiForm
    <3>1. pc = "apiform" /\ pc' = "done" /\ UNCHANGED <<count, conns>>
      BY <2>8 DEF ApiForm, Return
    <3> QED
      BY <3>1
  <2>9. CASE OpenBrowser
    BY <2>9 DEF OpenBrowser
  <2>10. CASE FillForm
    BY <2>10 DEF FillForm, BrowseFails, GoOn
  <2>11. CASE ReadPage
    BY <2>11 DEF ReadPage, BrowseFails
  <2>12. CASE CloseBrowser
    <3>1. pc = "close" /\ pc' \in {"done", "browsefailed"} /\ UNCHANGED <<count, conns>>
      BY <2>12 DEF CloseBrowser, BrowseFails
    <3> QED
      BY <3>1
  <2>13. CASE SessionEnds
    BY <2>13 DEF SessionEnds
  <2>14. CASE BrowseAgain
    BY <2>14 DEF BrowseAgain, GoOn
  <2>15. CASE BrowseGivesUp
    BY <2>15 DEF BrowseGivesUp, Return
  <2>16. CASE Connect
    BY <2>16 DEF Connect, ConnectTo, Fail
  <2>17. CASE Reconnect
    BY <2>17 DEF Reconnect, ConnectTo, Fail
  <2>18. CASE CatchAll
    BY <2>18 DEF CatchAll
  <2>19. CASE Rcpt
    BY <2>19 DEF Rcpt, GoOn, Fail
  <2>20. CASE Quit
    BY <2>20 DEF Quit
  <2>21. CASE QuitFails
    BY <2>21 DEF QuitFails, Fail
  <2>22. CASE Timeout
    BY <2>22 DEF Timeout, Fail, Conversation
  <2>23. CASE ServerCloses
    BY <2>23 DEF ServerCloses
  <2>24. CASE UNCHANGED vars
    BY <2>24 DEF vars
  <2> QED
    BY <2>1, <2>2, <2>3, <2>4, <2>5, <2>6, <2>7, <2>8, <2>9, <2>10, <2>11,
       <2>12, <2>13, <2>14, <2>15, <2>16, <2>17, <2>18, <2>19, <2>20, <2>21, <2>22,
       <2>23, <2>24 DEF Next, Proceed
<1> QED
  BY <1>1, <1>2, TypeCorrect, PTL DEF Spec

\* However the server refuses, closes or falls silent, a verification opens at
\* most two connections per configured attempt.
THEOREM ConnectionsBounded == Spec => []ConnectionsBound
<1>1. TypeOK /\ Budget => ConnectionsBound
  BY CheckEmailAssumption
  DEF TypeOK, Budget, Opened, ConnectionsBound, AtLeastOne
<1> QED
  BY <1>1, TypeCorrect, BudgetInv, PTL

\* The strengthening behind UnknownIsEarned: nothing is decided before the
\* end, no connection is opened before the conversation, and "unknown" is said
\* without a conversation, of a blocked sender, or with no retry left, and not
\* before the last attempt with a browser.
Earned ==
  /\ pc # "done" => verdict = "none"
  /\ pc \notin Conversation \cup {"failed", "done"} => conns = 0
  /\ verdict = "unknown" => conns = 0 \/ error = "blocked" \/ count <= 1
  /\ verdict = "unknown" => tries \in {0, MaxAttempts(target.method)}

\* Earned is an invariant: one step per action.
LEMMA EarnedInv == Spec => []Earned
<1>1. Init => Earned
  BY DEF Init, Earned, Conversation
<1>2. TypeOK /\ Sessions /\ Earned /\ [Next]_vars => Earned'
  <2> SUFFICES ASSUME TypeOK, Sessions, Earned, [Next]_vars PROVE Earned'
    OBVIOUS
  <2>0. count \in Nat /\ conns \in Nat /\ pc \in Places /\ tries \in Nat
    BY DEF TypeOK
  <2> USE <2>0 DEF Earned, Sessions, smtpVars, webVars, Browsing, Conversation
  <2>1. CASE CheckSyntax
    BY <2>1 DEF CheckSyntax, GoOn, Return
  <2>2. CASE CheckMx
    BY <2>2 DEF CheckMx, GoOn, Return
  <2>3. CASE Dispatch
    BY <2>3 DEF Dispatch, GoOn
  <2>4. CASE Retry
    BY <2>4 DEF Retry, StartOver
  <2>5. CASE GiveUp
    BY <2>5 DEF GiveUp, Return
  <2>6. CASE CatchAllSkipped
    BY <2>6 DEF CatchAllSkipped
  <2>7. CASE ApiPage
    BY <2>7 DEF ApiPage, GoOn, Return
  <2>8. CASE ApiForm
    BY <2>8, ReachableType DEF ApiForm, Return
  <2>9. CASE OpenBrowser
    BY <2>9 DEF OpenBrowser
  <2>10. CASE FillForm
    BY <2>10 DEF FillForm, BrowseFails, GoOn
  <2>11. CASE ReadPage
    BY <2>11 DEF ReadPage, BrowseFails
  <2>12. CASE CloseBrowser
    BY <2>12, ReachableType DEF CloseBrowser, BrowseFails
  <2>13. CASE SessionEnds
    BY <2>13 DEF SessionEnds
  <2>14. CASE BrowseAgain
    BY <2>14 DEF BrowseAgain, GoOn
  <2>15. CASE BrowseGivesUp
    BY <2>15 DEF BrowseGivesUp, Return, MaxAttempts
  <2>16. CASE Connect
    BY <2>16 DEF Connect, ConnectTo, Fail
  <2>17. CASE Reconnect
    BY <2>17 DEF Reconnect, ConnectTo, Fail
  <2>18. CASE CatchAll
    BY <2>18 DEF CatchAll
  <2>19. CASE Rcpt
    BY <2>19 DEF Rcpt, GoOn, Fail
  <2>20. CASE Quit
    BY <2>20, ReachableType DEF Quit
  <2>21. CASE QuitFails
    BY <2>21 DEF QuitFails, Fail
  <2>22. CASE Timeout
    BY <2>22 DEF Timeout, Fail
  <2>23. CASE ServerCloses
    BY <2>23 DEF ServerCloses
  <2>24. CASE UNCHANGED vars
    BY <2>24 DEF vars
  <2> QED
    BY <2>1, <2>2, <2>3, <2>4, <2>5, <2>6, <2>7, <2>8, <2>9, <2>10, <2>11,
       <2>12, <2>13, <2>14, <2>15, <2>16, <2>17, <2>18, <2>19, <2>20, <2>21, <2>22,
       <2>23, <2>24 DEF Next, Proceed
<1> QED
  BY <1>1, <1>2, SessionsInv, PTL DEF Spec

\* "unknown" is only said of a mailbox after every configured attempt, or
\* after a server named the sender's address as the reason; with a browser,
\* after every attempt there is.
THEOREM UnknownEarned == Spec => []UnknownIsEarned
<1>1. TypeOK /\ Budget /\ Earned => UnknownIsEarned
  BY CheckEmailAssumption
  DEF TypeOK, Budget, Earned, UnknownIsEarned, Attempts, AtLeastOne
<1> QED
  BY <1>1, TypeCorrect, BudgetInv, EarnedInv, PTL

\* Where check_email is tells how the address is verified.
Routes ==
  /\ pc \in Conversation \cup {"failed"} => target.method = "smtp"
  /\ pc \in Browsing \cup {"browse", "browsefailed"} => target.method \in {"yahoo", "hotmailb2c"}
  /\ pc \in {"api", "apiform"} => target.method = "api"
  /\ tries > 0 => target.method \in {"yahoo", "hotmailb2c"}

Accepts == target.acceptsAll \/ target.mailbox = "exists"

\* An answer that speaks the truth about the mailbox.
Fits(a) ==
  /\ a.full => ~ target.acceptsAll /\ target.mailbox = "full"
  /\ a.deliverable /\ ~ a.disabled => Accepts
  /\ ~ a.full /\ (~ a.deliverable \/ a.disabled) => ~ Accepts /\ target.mailbox # "full"

\* The strengthening behind VerdictIsTrue: what an attempt has learned is true
\* whenever it could still become the verdict.
Truthful ==
  /\ Routes
  /\ pc # "done" => verdict = "none"
  /\ target.method = "smtp" /\ catchAll => target.acceptsAll
  /\ pc = "quit" => Fits(answer)
  /\ pc = "close" =>
       (~ answer.deliverable \/ answer.disabled => target.mailbox \in {"missing", "disabled"})
  /\ VerdictIsTrue

\* What the server says to RCPT TO is true unless it is a refusal, and a refusal
\* that could be taken for an answer is ambiguous.
LEMMA ConclusiveFits ==
  ASSUME TypeOK, ~ Ambiguous, NEW reply \in Heard(About(target.mailbox)), Conclusive(reply)
  PROVE  Fits(Read(reply))
<1>1. target.mailbox \in {"exists", "missing", "full", "disabled"}
  BY DEF TypeOK, Targets, Mailboxes
<1>2. reply \in About(target.mailbox)
  BY DEF Heard, Refusals, Conclusive
<1>3. reply \in {{"ok"}, {"rate"}, {"missing"}, {"full"}, {"disabled"}}
  BY <1>1, <1>2 DEF About
<1>4. \/ Accepts /\ reply \in {{"ok"}, {"rate"}}
      \/ ~ Accepts /\ reply = {target.mailbox}
  BY <1>2 DEF About, Accepts
<1>5. CASE Accepts /\ reply \in {{"ok"}, {"rate"}}
  BY <1>5 DEF Fits, Read
<1>6. CASE ~ Accepts /\ reply = {target.mailbox}
  BY <1>1, <1>6 DEF Fits, Read, Accepts
<1> QED
  BY <1>4, <1>5, <1>6

\* Only a server that accepts all takes a random address.
LEMMA CatchAllFits ==
  ASSUME NEW reply \in Heard(About("missing")), Read(reply).deliverable
  PROVE  target.acceptsAll /\ Fits(Deliverable)
<1>1. reply = {"ok"} \/ "rate" \in reply
  BY DEF Read
<1>2. target.acceptsAll
  BY <1>1 DEF Heard, About, Refusals
<1> QED
  BY <1>2 DEF Fits, Deliverable, Accepts

\* A verdict that is calculated from answers that fit is true.
LEMMA VerdictFits ==
  ASSUME target.method = "smtp", tries = 0,
         NEW ca, NEW a, ca => target.acceptsAll, Fits(a),
         UNCHANGED <<target, tries>>, verdict' = CalculateReachable(ca, a)
  PROVE  VerdictIsTrue'
BY DEF VerdictIsTrue, CalculateReachable, Fits, Accepts

\* One step per action.
LEMMA TruthStep ==
  ASSUME TypeOK, Sessions, ~ Ambiguous, Truthful, [Next]_vars
  PROVE  Truthful'
<1>0. pc \in Places /\ tries \in Nat /\ target.method \in Methods
  BY DEF TypeOK, Targets
<1>1. pc \notin Browsing \cup {"browse", "browsefailed", "done"} => tries = 0
  BY DEF Sessions
<1> USE <1>0, <1>1 DEF Truthful, Routes, smtpVars, webVars, Conversation, Browsing, Methods
<1>2. CASE CheckSyntax
  BY <1>2 DEF CheckSyntax, GoOn, Return, VerdictIsTrue
<1>3. CASE CheckMx
  BY <1>3 DEF CheckMx, GoOn, Return, VerdictIsTrue
<1>4. CASE Dispatch
  BY <1>4 DEF Dispatch, GoOn, VerdictIsTrue
<1>5. CASE Retry
  BY <1>5 DEF Retry, StartOver, VerdictIsTrue
<1>6. CASE GiveUp
  BY <1>6 DEF GiveUp, Return, VerdictIsTrue
<1>7. CASE CatchAllSkipped
  BY <1>7 DEF CatchAllSkipped, VerdictIsTrue
<1>8. CASE ApiPage
  BY <1>8 DEF ApiPage, GoOn, Return, VerdictIsTrue
<1>9. CASE ApiForm
  <2>1. pc = "apiform" /\ pc' = "done" /\ UNCHANGED <<target, catchAll, tries>>
    BY <1>9 DEF ApiForm, Return
  <2> QED
    BY <2>1 DEF VerdictIsTrue
<1>10. CASE OpenBrowser
  BY <1>10 DEF OpenBrowser, VerdictIsTrue
<1>11. CASE FillForm
  BY <1>11 DEF FillForm, BrowseFails, GoOn, VerdictIsTrue
<1>12. CASE ReadPage
  <2>1. CASE pc' = "close"
    <3>1. PICK reply \in Shown :
            answer' = Read(reply) /\ UNCHANGED <<target, smtpVars, verdict, tries>>
      BY <1>12, <2>1 DEF ReadPage, BrowseFails
    <3>2. ~ Read(reply).deliverable \/ Read(reply).disabled => target.mailbox \in {"missing", "disabled"}
      BY DEF Shown, Read
    <3> QED
      BY <1>12, <2>1, <3>1, <3>2 DEF ReadPage, VerdictIsTrue
  <2>2. CASE pc' # "close"
    BY <1>12, <2>2 DEF ReadPage, BrowseFails, VerdictIsTrue
  <2> QED
    BY <2>1, <2>2
<1>13. CASE CloseBrowser
  <2>1. CASE verdict' = CalculateReachable(FALSE, answer) /\ pc' = "done"
    <3>1. pc = "close" /\ UNCHANGED <<target, catchAll, tries>>
      BY <1>13 DEF CloseBrowser, BrowseFails
    <3>2. verdict' = "invalid" => target.mailbox \in {"missing", "disabled"}
      BY <2>1, <3>1 DEF CalculateReachable
    <3> QED
      BY <2>1, <3>1, <3>2 DEF VerdictIsTrue
  <2>2. CASE BrowseFails
    BY <1>13, <2>2 DEF CloseBrowser, BrowseFails, VerdictIsTrue
  <2> QED
    BY <1>13, <2>1, <2>2 DEF CloseBrowser
<1>14. CASE SessionEnds
  BY <1>14 DEF SessionEnds, VerdictIsTrue, Fits, Accepts
<1>15. CASE BrowseAgain
  BY <1>15 DEF BrowseAgain, GoOn, VerdictIsTrue
<1>16. CASE BrowseGivesUp
  BY <1>16 DEF BrowseGivesUp, Return, VerdictIsTrue
<1>17. CASE Connect
  BY <1>17 DEF Connect, ConnectTo, Fail, VerdictIsTrue
<1>18. CASE Reconnect
  BY <1>18 DEF Reconnect, ConnectTo, Fail, VerdictIsTrue
<1>19. CASE CatchAll
  <2>1. PICK reply \in Heard(About("missing")) :
          LET all == Read(reply).deliverable IN
          /\ catchAll' = all
          /\ answer' = IF all THEN Deliverable ELSE answer
          /\ pc' = IF all THEN "quit" ELSE "rcpt"
    BY <1>19 DEF CatchAll
  <2>2. UNCHANGED <<target, verdict, tries>> /\ pc = "catchall"
    BY <1>19 DEF CatchAll
  <2>3. CASE Read(reply).deliverable
    <3>1. target.acceptsAll /\ Fits(Deliverable)
      BY <2>3, CatchAllFits
    <3>2. Fits(answer)'
      BY <2>1, <2>2, <2>3, <3>1 DEF Fits, Accepts
    <3> QED
      BY <2>1, <2>2, <2>3, <3>1, <3>2 DEF VerdictIsTrue
  <2>4. CASE ~ Read(reply).deliverable
    BY <2>1, <2>2, <2>4 DEF VerdictIsTrue
  <2> QED
    BY <2>3, <2>4
<1>20. CASE Rcpt
  <2>1. PICK reply \in Heard(About(target.mailbox)) :
          \/ /\ Conclusive(reply)
             /\ answer' = Read(reply)
             /\ pc' = "quit"
             /\ UNCHANGED <<target, smtpVars, verdict, webVars>>
          \/ GoOn("reconnect")
          \/ Fail(ErrorOf(reply))
    BY <1>20 DEF Rcpt
  <2>2. pc \in {"rcpt", "rcptagain"}
    BY <1>20 DEF Rcpt
  <2>3. CASE /\ Conclusive(reply)
             /\ answer' = Read(reply)
             /\ pc' = "quit"
             /\ UNCHANGED <<target, smtpVars, verdict, webVars>>
    <3>1. Fits(Read(reply))
      BY <2>3, ConclusiveFits
    <3>2. Fits(answer)'
      BY <2>3, <3>1 DEF Fits, Accepts
    <3> QED
      BY <2>2, <2>3, <3>2 DEF VerdictIsTrue
  <2>4. CASE GoOn("reconnect")
    BY <2>2, <2>4 DEF GoOn, VerdictIsTrue
  <2>5. CASE Fail(ErrorOf(reply))
    BY <2>2, <2>5 DEF Fail, VerdictIsTrue
  <2> QED
    BY <2>1, <2>3, <2>4, <2>5
<1>21. CASE Quit
  <2>1. /\ pc = "quit" /\ pc' = "done" /\ UNCHANGED <<target, catchAll, tries>>
        /\ verdict' = CalculateReachable(catchAll, answer)
    BY <1>21 DEF Quit
  <2>2. VerdictIsTrue'
    BY <2>1, VerdictFits
  <2> QED
    BY <2>1, <2>2
<1>22. CASE QuitFails
  BY <1>22 DEF QuitFails, Fail, VerdictIsTrue
<1>23. CASE Timeout
  BY <1>23 DEF Timeout, Fail, VerdictIsTrue
<1>24. CASE ServerCloses
  BY <1>24 DEF ServerCloses, VerdictIsTrue, Fits, Accepts
<1>25. CASE UNCHANGED vars
  BY <1>25 DEF vars, VerdictIsTrue, Fits, Accepts
<1> QED
  BY <1>2, <1>3, <1>4, <1>5, <1>6, <1>7, <1>8, <1>9, <1>10, <1>11, <1>12, <1>13, <1>14,
     <1>15, <1>16, <1>17, <1>18, <1>19, <1>20, <1>21, <1>22, <1>23, <1>24, <1>25
     DEF Next, Proceed

\* With servers that do not blame the address when they mean the sender, no
\* sequence of refusals, lost connections and retries, for any number of them,
\* makes the verdict contradict the mailbox.
THEOREM VerdictTrue == ASSUME ~ Ambiguous PROVE Spec => []VerdictIsTrue
<1>1. Init => Truthful
  BY DEF Init, Truthful, Routes, VerdictIsTrue, Conversation, Browsing
<1>2. TypeOK /\ Sessions /\ Truthful /\ [Next]_vars => Truthful'
  BY TruthStep
<1>3. Truthful => VerdictIsTrue
  BY DEF Truthful
<1> QED
  BY <1>1, <1>2, <1>3, SessionsInv, PTL DEF Spec

\* Within an attempt, every step gets closer to its end, and each connection
\* and session that ends counts: one step per action.  The two actions that
\* begin an attempt pay for it.
LEMMA ShorterStep ==
  ASSUME TypeOK, Sessions, Next
  PROVE  LeftToDo' < LeftToDo
<1>0. /\ count \in Nat /\ tries \in 0 .. 3 /\ sessions \in Nat
      /\ pc \in Places /\ open \in BOOLEAN
  BY DEF TypeOK
<1>d. Distance(pc) \in Nat
  BY <1>0 DEF Places, Conversation, Browsing, Distance
<1> USE <1>0 DEF LeftToDo, Distance, smtpVars, webVars
<1>1. CASE CheckSyntax
  BY <1>1 DEF CheckSyntax, GoOn, Return
<1>2. CASE CheckMx
  BY <1>2 DEF CheckMx, GoOn, Return
<1>3. CASE Dispatch
  BY <1>3 DEF Dispatch, GoOn
<1>4. CASE Retry
  BY <1>4 DEF Retry, StartOver
<1>5. CASE GiveUp
  BY <1>5 DEF GiveUp, Return
<1>6. CASE CatchAllSkipped
  BY <1>6 DEF CatchAllSkipped
<1>7. CASE ApiPage
  BY <1>7 DEF ApiPage, GoOn, Return
<1>8. CASE ApiForm
  <2>1. pc = "apiform" /\ pc' = "done" /\ UNCHANGED <<count, open, webVars>>
    BY <1>8 DEF ApiForm, Return
  <2> QED
    BY <2>1
<1>9. CASE OpenBrowser
  BY <1>9 DEF OpenBrowser
<1>10. CASE FillForm
  BY <1>10 DEF FillForm, BrowseFails, GoOn
<1>11. CASE ReadPage
  <2>1. /\ pc = "page" /\ pc' \in {"close", "browsefailed"}
        /\ UNCHANGED <<count, open, webVars>>
    BY <1>11 DEF ReadPage, BrowseFails
  <2> QED
    BY <2>1
<1>12. CASE CloseBrowser
  <2>1. /\ pc = "close" /\ pc' \in {"done", "browsefailed"}
        /\ sessions' \in {sessions, sessions - 1}
        /\ UNCHANGED <<count, open, tries>>
    BY <1>12 DEF CloseBrowser, BrowseFails
  <2> QED
    BY <2>1
<1>13. CASE SessionEnds
  <2> HIDE DEF Distance
  <2>1. Distance(pc)' = Distance(pc)
    BY <1>13 DEF SessionEnds
  <2> QED
    BY <1>13, <1>d, <2>1 DEF SessionEnds
<1>14. CASE BrowseAgain
  BY <1>14 DEF BrowseAgain, GoOn
<1>15. CASE BrowseGivesUp
  BY <1>15 DEF BrowseGivesUp, Return
<1>16. CASE Connect
  BY <1>16 DEF Connect, ConnectTo, Fail
<1>17. CASE Reconnect
  BY <1>17 DEF Reconnect, ConnectTo, Fail
<1>18. CASE CatchAll
  <2>1. /\ pc = "catchall" /\ pc' \in {"quit", "rcpt"}
        /\ UNCHANGED <<count, open, webVars>>
    BY <1>18 DEF CatchAll
  <2> QED
    BY <2>1
<1>19. CASE Rcpt
  <2>1. /\ \/ pc = "rcpt" /\ pc' \in {"quit", "reconnect", "failed"}
           \/ pc = "rcptagain" /\ pc' \in {"quit", "failed"}
        /\ UNCHANGED <<count, open, webVars>>
    BY <1>19 DEF Rcpt, GoOn, Fail
  <2> QED
    BY <2>1
<1>20. CASE Quit
  BY <1>20 DEF Quit
<1>21. CASE QuitFails
  BY <1>21 DEF QuitFails, Fail
<1>22. CASE Timeout
  BY <1>22 DEF Timeout, Fail, Conversation
<1>23. CASE ServerCloses
  <2> HIDE DEF Distance
  <2>1. Distance(pc)' = Distance(pc)
    BY <1>23 DEF ServerCloses
  <2> QED
    BY <1>23, <1>d, <2>1 DEF ServerCloses
<1> QED
  BY <1>1, <1>2, <1>3, <1>4, <1>5, <1>6, <1>7, <1>8, <1>9, <1>10, <1>11,
     <1>12, <1>13, <1>14, <1>15, <1>16, <1>17, <1>18, <1>19, <1>20, <1>21, <1>22,
     <1>23 DEF Next, Proceed

\* No sequence of failures keeps a verification going for ever, with or without
\* a timeout, however many retries are configured.
THEOREM AlwaysShorter == Spec => GetsShorter
<1>1. TypeOK /\ Sessions /\ (TypeOK /\ Sessions)' /\ [Next]_vars
        => [0 <= LeftToDo' /\ LeftToDo' < LeftToDo]_vars
  <2> SUFFICES ASSUME TypeOK, Sessions, TypeOK', Next
               PROVE  0 <= LeftToDo' /\ LeftToDo' < LeftToDo
    OBVIOUS
  <2>1. LeftToDo' \in Nat
    <3>1. Distance(pc)' \in 0 .. 11
      BY DEF TypeOK, Places, Conversation, Browsing, Distance
    <3> QED
      BY <3>1 DEF TypeOK, LeftToDo
  <2> QED
    BY <2>1, ShorterStep
<1> QED
  BY <1>1, SessionsInv, PTL DEF Spec, GetsShorter
=============================================================================
