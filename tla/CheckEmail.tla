----------------------------- MODULE CheckEmail -----------------------------
(***************************************************************************)
(* The verification of one email, check_email of core/src/lib.rs, and what *)
(* is below it: the SMTP conversation of core/src/smtp/connect.rs, the     *)
(* password recovery pages of Yahoo and Outlook in a headless browser, and *)
(* Yahoo's signup API.                                                     *)
(*                                                                         *)
(* The other party, an SMTP server (behind a SOCKS5 proxy perhaps), is     *)
(* external: it answers, refuses, falls silent or closes the connection.   *)
(* A reply is the set of what core/src/smtp/parser.rs recognises in it:    *)
(* "ok" for an accepted command, "closed" when the connection turns out to *)
(* be gone ("io: incomplete"), the empty set for an error text that means  *)
(* nothing to the parser, such as greylisting.  The WebDriver server that  *)
(* runs the browser, and the pages it shows, are external too.             *)
(***************************************************************************)
EXTENDS Integers

CONSTANTS
  Retries,     \* retries of the provider's VerifMethodSmtpConfig
  TimeoutSet,  \* is its smtp_timeout set
  Ambiguous    \* may a server reject the sender in words that blame the address

ASSUME CheckEmailAssumption ==
  /\ Retries \in Nat
  /\ TimeoutSet \in BOOLEAN
  /\ Ambiguous \in BOOLEAN

VARIABLES
  target,    \* the email and the truth about its mailbox; never changes
  pc,        \* how far check_email is
  count,     \* remaining retries
  conns,     \* SMTP connections opened (observation)
  open,      \* is the server's end of the current connection open
  catchAll,  \* result of smtp_is_catch_all
  answer,    \* the Deliverability found last
  error,     \* class of the last SmtpError, by get_description
  verdict,   \* is_reachable
  learned,   \* did the server ever say what there is to know (observation)
  tries,     \* attempts with a browser
  sessions   \* browser sessions the WebDriver server has open (observation)

smtpVars == <<count, conns, open, catchAll>>
webVars  == <<tries, sessions>>
vars == <<target, pc, smtpVars, answer, error, verdict, learned, webVars>>

Mailboxes == {"exists", "missing", "full", "disabled"}
\* How an address is verified: over SMTP; Yahoo in a browser; Outlook
\* (HotmailB2C) in a browser; Yahoo over its API.
Methods == {"smtp", "yahoo", "hotmailb2c", "api"}
MaxAttempts(method) == IF method = "yahoo" THEN 3 ELSE 1

Targets ==
  [syntax : BOOLEAN,                   \* is the address well-formed
   mx : {"hosts", "none", "error"},    \* outcome of the MX lookup
   method : Methods,
   skip : BOOLEAN,                     \* the domain or host has rule SkipCatchAll
   misc : BOOLEAN,                     \* role account
   acceptsAll : BOOLEAN,               \* does the server take any recipient
   mailbox : Mailboxes]

Conversation == {"connect", "catchall", "rcpt", "reconnect", "rcptagain", "quit"}
Browsing     == {"form", "page", "close"}
Places       == {"syntax", "mx", "dispatch", "failed", "browse", "browsefailed",
                 "api", "apiform", "done"} \cup Conversation \cup Browsing
Verdicts     == {"none", "safe", "risky", "invalid", "unknown"}

Deliverability == [full : BOOLEAN, deliverable : BOOLEAN, disabled : BOOLEAN]
NoAnswer       == [full |-> FALSE, deliverable |-> FALSE, disabled |-> FALSE]
Deliverable    == [full |-> FALSE, deliverable |-> TRUE, disabled |-> FALSE]

Init ==
  /\ target \in Targets
  /\ pc = "syntax"
  /\ count = Retries
  /\ conns = 0
  /\ open = FALSE
  /\ catchAll = FALSE
  /\ answer = NoAnswer
  /\ error = "none"
  /\ verdict = "none"
  /\ learned = FALSE
  /\ tries = 0
  /\ sessions = 0

-----------------------------------------------------------------------------
(* Replies, and what check_email_deliverability makes of them.             *)

Conclusive(reply) == reply \cap {"ok", "disabled", "full", "rate", "missing"} # {}

\* Disabled is looked for before full, full before the rate limit, and that
\* before an unknown address.
Read(reply) ==
  [disabled    |-> "disabled" \in reply,
   full        |-> "full" \in reply /\ "disabled" \notin reply,
   deliverable |-> reply = {"ok"} \/ ("rate" \in reply /\ reply \cap {"disabled", "full"} = {})]

\* get_description knows two reasons, a blacklisted IP and a missing reverse
\* DNS entry, both the sender's fault: "blocked".
ErrorOf(reply) == IF "blocked" \in reply THEN "blocked" ELSE "other"

Refusals == {{}, {"blocked"}} \cup IF Ambiguous THEN {{"missing", "blocked"}} ELSE {}

\* What the server says to RCPT TO for an address with such a mailbox.
About(mailbox) ==
  CASE target.acceptsAll      -> {{"ok"}}
    [] mailbox = "exists"     -> {{"ok"}, {"rate"}}
    [] OTHER                  -> {{mailbox}}

\* Every command may be refused; on a connection that is gone, it fails, with
\* "io: incomplete" when the answer is missing and otherwise (a reset, a broken
\* pipe) with an error that says nothing.
Heard(said) == IF open THEN said \cup Refusals ELSE {{"closed"}, {}}

-----------------------------------------------------------------------------
(* check_email up to the SMTP conversation.                                *)

\* The early returns: every other part of the output keeps its default.
Return(v) ==
  /\ verdict' = v
  /\ pc' = "done"
  /\ UNCHANGED <<target, smtpVars, answer, error, learned, webVars>>

GoOn(place) ==
  /\ pc' = place
  /\ UNCHANGED <<target, smtpVars, answer, error, verdict, learned, webVars>>

CheckSyntax ==
  /\ pc = "syntax"
  /\ IF target.syntax THEN GoOn("mx") ELSE Return("invalid")

CheckMx ==
  /\ pc = "mx"
  /\ CASE target.mx = "error" -> Return("unknown")
       [] target.mx = "none"  -> Return("invalid")
       [] OTHER               -> GoOn("dispatch")

\* check_smtp chooses the method by the provider of the best MX host.
Dispatch ==
  /\ pc = "dispatch"
  /\ GoOn(CASE target.method = "smtp" -> "connect"
            [] target.method = "api"  -> "api"
            [] OTHER                  -> "browse")

\* calculate_reachable of a successful check.  can_connect_smtp is TRUE then.
CalculateReachable(ca, a) ==
  IF target.misc \/ ca \/ a.full THEN "risky"
  ELSE IF ~ a.deliverable \/ a.disabled THEN "invalid"
  ELSE "safe"

-----------------------------------------------------------------------------
(* check_headless of Yahoo, check_password_recovery of Outlook.            *)

\* What the recovery page may show for the account.  A challenge, a captcha
\* included, counts as an account that exists, whatever the address; no page
\* tells that an inbox is full, and Outlook's none that it is disabled.
Shown ==
  CASE target.mailbox = "missing"  -> {{"ok"}, {"missing"}}
    [] target.mailbox = "disabled" ->
         {{"ok"}, {"missing"}} \cup IF target.method = "yahoo" THEN {{"disabled"}} ELSE {}
    [] OTHER                       -> {{"ok"}}

\* The client is dropped on an error: the session, if there is one, is left to
\* a request that nobody waits for, SessionEnds.
BrowseFails ==
  /\ pc' = "browsefailed"
  /\ answer' = NoAnswer
  /\ UNCHANGED <<target, smtpVars, error, verdict, learned, tries>>

\* create_headless_client.  The server may open a session and its answer be
\* lost.
OpenBrowser ==
  /\ pc = "browse"
  /\ tries' = tries + 1
  /\ sessions' \in {sessions, sessions + 1}
  /\ pc' \in {"browsefailed"} \cup IF sessions' > sessions THEN {"form"} ELSE {}
  /\ UNCHANGED <<target, smtpVars, answer, error, verdict, learned>>

\* Go to the page, wait for the input, type the address and click.
FillForm ==
  /\ pc = "form"
  /\ \/ GoOn("page")
     \/ BrowseFails /\ UNCHANGED sessions

\* select_ok: the first known element to appear decides; none does in time.
ReadPage ==
  /\ pc = "page"
  /\ \/ \E reply \in Shown :
          /\ answer' = Read(reply)
          /\ learned' = TRUE
          /\ pc' = "close"
          /\ UNCHANGED <<target, smtpVars, error, verdict, webVars>>
     \/ BrowseFails /\ UNCHANGED sessions

\* Bug: the answer is returned without closing the session.
CloseForgotten ==
  /\ pc = "close"
  /\ verdict' = CalculateReachable(FALSE, answer)
  /\ pc' = "done"
  /\ UNCHANGED <<target, smtpVars, answer, error, learned, webVars>>

\* The session is closed and the answer returned; or the request to close it
\* fails, before or after it had its effect, and the answer is lost with it.
CloseBrowser ==
  /\ pc = "close"
  /\ \/ /\ sessions' = sessions - 1
        /\ verdict' = CalculateReachable(FALSE, answer)
        /\ pc' = "done"
        /\ UNCHANGED <<target, smtpVars, answer, error, learned, tries>>
     \/ BrowseFails /\ sessions' \in {sessions, sessions - 1}

\* The server ends a session whose client is gone.
SessionEnds ==
  /\ sessions > IF pc \in Browsing THEN 1 ELSE 0
  /\ sessions' = sessions - 1
  /\ UNCHANGED <<target, pc, smtpVars, answer, error, verdict, learned, tries>>

\* Yahoo: the next attempt, after a blocking sleep of a second.
BrowseAgain ==
  /\ pc = "browsefailed"
  /\ tries < MaxAttempts(target.method)
  /\ GoOn("browse")

\* The last error is the outcome.
BrowseGivesUp ==
  /\ pc = "browsefailed"
  /\ tries >= MaxAttempts(target.method)
  /\ Return("unknown")

-----------------------------------------------------------------------------
(* check_api of Yahoo.                                                     *)

\* The signup page: a request, a cookie with the "acrumb", and the session
\* index in the body.  Any may be missing, and that is an error.
ApiPage ==
  /\ pc = "api"
  /\ GoOn("apiform") \/ Return("unknown")

\* The form is posted with the user name alone.  An identifier that is taken
\* is an account that exists, be it this domain's mailbox or another's.
ApiForm ==
  /\ pc = "apiform"
  /\ \/ \E reply \in {{"ok"}, {"missing"}} :
          /\ answer' = Read(reply)
          /\ learned' = TRUE
          /\ verdict' = CalculateReachable(FALSE, Read(reply))
          /\ pc' = "done"
          /\ UNCHANGED <<target, smtpVars, error, webVars>>
     \/ Return("unknown")

-----------------------------------------------------------------------------
(* create_smtp_future: one attempt.                                        *)

\* The attempt ends with an error.
Fail(class) ==
  /\ error' = class
  /\ pc' = "failed"
  /\ UNCHANGED <<target, count, catchAll, verdict, learned, webVars>>

\* TCP or SOCKS5 connect, greeting, EHLO and MAIL FROM; any may fail.  The
\* attempt goes on at place next.
ConnectTo(next) ==
  /\ conns' = conns + 1
  /\ UNCHANGED answer
  /\ \/ /\ open' = TRUE
        /\ pc' = next
        /\ UNCHANGED <<target, count, catchAll, error, verdict, learned, webVars>>
     \/ \E class \in {"blocked", "other"} : open' = FALSE /\ Fail(class)

Connect   == pc = "connect" /\ ConnectTo("catchall")

\* Bug: the next RCPT TO may reconnect once more.
ReconnectAlways == pc = "reconnect" /\ ConnectTo("rcpt")

Reconnect == pc = "reconnect" /\ ConnectTo("rcptagain")

CatchAllSkipped ==
  /\ pc = "catchall"
  /\ target.skip
  /\ catchAll' = FALSE
  /\ pc' = "rcpt"
  /\ UNCHANGED <<target, count, conns, open, answer, error, verdict, learned, webVars>>

\* Bug: an error of the catch-all check counts as a catch-all.
CatchAllOnError ==
  /\ pc = "catchall"
  /\ ~ target.skip
  /\ \E reply \in Heard(About("missing")) :
       /\ catchAll' = ("missing" \notin reply)
       /\ answer' = IF "missing" \notin reply THEN Deliverable ELSE answer
       /\ learned' = (learned \/ reply = {"ok"})
       /\ pc' = IF "missing" \notin reply THEN "quit" ELSE "rcpt"
  /\ UNCHANGED <<target, count, conns, open, error, verdict, webVars>>

\* RCPT TO for a random address: its errors count as "not a catch-all".
CatchAll ==
  /\ pc = "catchall"
  /\ ~ target.skip
  /\ \E reply \in Heard(About("missing")) :
       LET all == Read(reply).deliverable IN
       /\ catchAll' = all
       /\ answer' = IF all THEN Deliverable ELSE answer
       /\ learned' = (learned \/ all)
       /\ pc' = IF all THEN "quit" ELSE "rcpt"
  /\ UNCHANGED <<target, count, conns, open, error, verdict, webVars>>

\* RCPT TO for the address itself.  Only "io: incomplete" makes the attempt
\* reconnect and repeat the command, once.
Rcpt ==
  /\ pc \in {"rcpt", "rcptagain"}
  /\ \E reply \in Heard(About(target.mailbox)) :
       \/ /\ Conclusive(reply)
          /\ answer' = Read(reply)
          /\ learned' = (learned \/ "blocked" \notin reply)
          /\ pc' = "quit"
          /\ UNCHANGED <<target, smtpVars, error, verdict, webVars>>
       \/ /\ "closed" \in reply
          /\ pc = "rcpt"
          /\ GoOn("reconnect")
       \/ /\ ~ Conclusive(reply)
          /\ "closed" \in reply => pc = "rcptagain"
          /\ Fail(ErrorOf(reply))
          /\ UNCHANGED <<conns, open, answer>>

\* QUIT is answered, and the attempt succeeds ...
Quit ==
  /\ pc = "quit"
  /\ open
  /\ open' = FALSE
  /\ verdict' = CalculateReachable(catchAll, answer)
  /\ pc' = "done"
  /\ UNCHANGED <<target, count, conns, catchAll, answer, error, learned, webVars>>

\* ... or it fails, and the answer of the attempt with it.
QuitFails ==
  /\ pc = "quit"
  /\ open' = FALSE
  /\ \E reply \in Heard({}) : Fail(ErrorOf(reply))
  /\ UNCHANGED <<conns, answer>>

\* Bug: the timer is only set for connecting, not for the whole attempt.
TimeoutConnecting ==
  /\ TimeoutSet
  /\ pc \in {"connect", "reconnect"}
  /\ open' = FALSE
  /\ Fail("other")
  /\ UNCHANGED <<conns, answer>>

\* smtp_timeout runs out; it spans the whole attempt.
Timeout ==
  /\ TimeoutSet
  /\ pc \in Conversation
  /\ open' = FALSE
  /\ Fail("other")
  /\ UNCHANGED <<conns, answer>>

\* The server closes the connection, after an error for instance.
ServerCloses ==
  /\ open
  /\ open' = FALSE
  /\ UNCHANGED <<target, pc, count, conns, catchAll, answer, error, verdict, learned, webVars>>

-----------------------------------------------------------------------------
(* check_smtp_with_retry.                                                  *)

\* A new attempt from scratch.
StartOver ==
  /\ open' = FALSE
  /\ catchAll' = FALSE
  /\ answer' = NoAnswer
  /\ error' = "none"
  /\ pc' = "connect"
  /\ UNCHANGED <<target, conns, verdict, learned, webVars>>

\* Bug: the last retry is taken too.
RetryPastEnd ==
  /\ pc = "failed"
  /\ error # "blocked"
  /\ count' = count - 1
  /\ StartOver

\* An error without a description is tried again while retries remain.
Retry ==
  /\ pc = "failed"
  /\ error # "blocked"
  /\ count > 1
  /\ count' = count - 1
  /\ StartOver

\* Bug: the last retry is never used.
GiveUpEarly ==
  /\ pc = "failed"
  /\ error = "blocked" \/ count <= 2
  /\ Return("unknown")

GiveUp ==
  /\ pc = "failed"
  /\ error = "blocked" \/ count <= 1
  /\ Return("unknown")

-----------------------------------------------------------------------------

\* What depends on check_email alone.
Proceed ==
  \/ CheckSyntax \/ CheckMx \/ Dispatch \/ Retry \/ GiveUp \/ CatchAllSkipped
  \/ BrowseAgain \/ BrowseGivesUp

Next ==
  \/ Proceed \/ ApiPage \/ ApiForm
  \/ OpenBrowser \/ FillForm \/ ReadPage \/ CloseBrowser \/ SessionEnds
  \/ Connect \/ Reconnect \/ CatchAll \/ Rcpt \/ Quit \/ QuitFails
  \/ Timeout \/ ServerCloses

Spec == Init /\ [][Next]_vars

\* The server owes nothing, not even an answer: only the own steps and the
\* timer are fair.
FairSpec == Spec /\ WF_vars(Proceed) /\ WF_vars(Timeout)

-----------------------------------------------------------------------------
(* Properties.                                                             *)

\* Type invariant.
TypeOK ==
  /\ target \in Targets
  /\ pc \in Places
  /\ count \in Nat
  /\ conns \in Nat
  /\ open \in BOOLEAN
  /\ catchAll \in BOOLEAN
  /\ answer \in Deliverability
  /\ error \in {"none", "blocked", "other"}
  /\ verdict \in Verdicts
  /\ learned \in BOOLEAN
  /\ tries \in 0 .. 3
  /\ sessions \in Nat

Attempts == Retries - count + 1
AtLeastOne(n) == IF n = 0 THEN 1 ELSE n

\* However the server refuses, closes or falls silent, a verification opens at
\* most two connections per configured attempt: one, and one to repeat the
\* command a closed connection swallowed.
ConnectionsBound == conns <= 2 * AtLeastOne(Retries)

\* No sequence of refusals, lost connections and retries mixes up the answers
\* of two attempts or of the random and the real address: the verdict of an
\* SMTP verification fits the mailbox as long as the server's words do.  Nor
\* does a browser lose or confuse pages: only a missing or disabled account is
\* invalid.
VerdictIsTrue ==
  LET accepts == target.acceptsAll \/ target.mailbox = "exists" IN
  /\ target.method = "smtp" =>
    /\ verdict = "safe" => accepts /\ ~ target.misc
    /\ verdict = "risky" => target.misc \/ target.acceptsAll \/ target.mailbox = "full"
    /\ verdict = "invalid" =>
         ~ target.syntax \/ target.mx = "none"
           \/ (~ accepts /\ target.mailbox # "full")
  /\ verdict = "invalid" /\ tries > 0 => target.mailbox \in {"missing", "disabled"}

\* "unknown" is only said of a mailbox after every configured attempt, or
\* after a server named the sender's address as the reason; with a browser,
\* after every attempt there is.
UnknownIsEarned ==
  verdict = "unknown" =>
    /\ conns > 0 => error = "blocked" \/ Attempts = AtLeastOne(Retries)
    /\ tries > 0 => tries = MaxAttempts(target.method)

\* However its steps fail, a verification leaves at most one browser session
\* per attempt behind, and none of the attempt that brought the answer.
SessionsBound ==
  sessions <= IF verdict \in {"none", "unknown"} \/ tries = 0 THEN tries ELSE tries - 1

\* How far a place is from the end of its attempt.
Distance(place) ==
  CASE place = "done"         -> 0
    [] place = "browse"       -> 1
    [] place = "browsefailed" -> 2
    [] place = "failed"       -> 2
    [] place = "apiform"      -> 1
    [] place = "api"          -> 2
    [] place = "close"        -> 3
    [] place = "page"         -> 4
    [] place = "form"         -> 5
    [] place = "quit"         -> 3
    [] place = "rcptagain"    -> 4
    [] place = "reconnect"    -> 5
    [] place = "rcpt"         -> 6
    [] place = "catchall"     -> 7
    [] place = "connect"      -> 8
    [] place = "dispatch"     -> 9
    [] place = "mx"           -> 10
    [] place = "syntax"       -> 11

\* What there is left to do: an attempt outweighs the 16 that a new connection
\* is away from its end, a place the connection that may open on leaving it.
LeftToDo ==
  18 * (count + 3 - tries) + 2 * Distance(pc) + (IF open THEN 1 ELSE 0) + sessions

\* Retries, repeated commands, attempts with a browser, and connections and
\* sessions that end early only ever use up what the retries allow: no sequence
\* of failures keeps a verification going for ever, with or without a timeout.
GetsShorter == [][0 <= LeftToDo' /\ LeftToDo' < LeftToDo]_vars

\* With a timeout set, every conversation comes to a verdict, even with a
\* server that never says anything.  Nothing like it holds of a browser or of
\* the API: their requests have no timeout.
Terminates == pc \in Conversation ~> pc = "done"

\* verif_method.rs: retries is "the total number of SMTP connections to do".
TotalConnections == conns <= AtLeastOne(Retries)

\* input_output.rs: unknown is "We're unable to get a valid response from the
\* recipient's email server."
UnknownMeansNoAnswer == verdict = "unknown" => ~ learned

\* input_output.rs: "Emails are classified as risky when one of the following
\* happens: - catch-all email".  Unless the domain is exempt from the check.
CatchAllIsRisky ==
  target.acceptsAll /\ ~ target.skip /\ conns > 0 => verdict # "safe"

\* input_output.rs: risky is "The email address appears to exist, but has
\* quality issues".
RiskyExists ==
  verdict = "risky" => target.acceptsAll \/ target.mailbox # "missing"

\* is-reachable.md: "unknown: Sometimes, the email provider blocks our
\* real-time verification, so we can't determine deliverability."  What an
\* email provider says because it blocks the sender never makes an existing
\* address invalid.
BlockedIsUnknown ==
  verdict = "invalid" => target.mailbox # "exists" \/ ~ target.syntax \/ target.mx = "none"
=============================================================================
