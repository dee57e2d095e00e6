------------------------------- MODULE Report -------------------------------
(***************************************************************************)
(* The report on one email: how check_email of core/src/lib.rs puts its    *)
(* sections together, early returns included, how the report is turned     *)
(* into JSON, what is sent to Sentry, and how the two bulk endpoints turn  *)
(* that JSON into a row of CSV.                                            *)
(*                                                                         *)
(* A section of the report is a record of its fields, or [error |-> ...],  *)
(* as in the JSON; reading a field that a section does not have is part of *)
(* the model, since the CSV helpers do it.  How the SMTP server, the       *)
(* browser or the API is asked is CheckEmail; here only the outcome        *)
(* counts, with the class of its error.                                    *)
(***************************************************************************)
EXTENDS Integers, Sequences

CONSTANTS
  Domains,    \* domains of the emails
  Providers,  \* the list MAIL_PROVIDERS, in its order
  Distance,   \* Levenshtein distance of a domain to a provider's
  Exchanges,  \* MX hosts, by what from_mx_host tells apart
  MaxRecords  \* bound on the MX records of a domain

Hosts == {"olc", "OLC", "protection", "google", "yahoodns", "pphosted", "mimecast", "other"}

Null == "null"

ASSUME ReportAssumption ==
  /\ Null \notin Domains
  /\ Providers \in Seq(Domains)
  /\ Distance \in [Domains -> [Domains -> Nat]]
  /\ Exchanges \subseteq Hosts
  /\ MaxRecords \in Nat \ {0}

VARIABLES
  email,    \* the address; never changes
  config,   \* what of the CheckEmailInput counts here; never changes
  step,     \* what check_email does next
  host,     \* exchange of the best MX record
  output,   \* the CheckEmailOutput
  logged,   \* the error sent to Sentry
  row0,     \* the row of the v0 CSV
  row1      \* the row of the v1 CSV

vars == <<email, config, step, host, output, logged, row0, row1>>

Emails ==
  [username : {"role", "plain"},  \* "role": in roles.txt
   domain : Domains,
   wellFormed : BOOLEAN,
   disposable : BOOLEAN]          \* does mailchecker know the domain

Configs ==
  [yahoo : {"Api", "Headless", "Smtp"},
   hotmailb2c : {"Headless", "Smtp"},
   gravatar : BOOLEAN,
   haveibeenpwned : BOOLEAN]      \* is there an API key

MxRecords == UNION {[1 .. n -> [preference : 1 .. 2, exchange : Exchanges]] : n \in 1 .. MaxRecords}

-----------------------------------------------------------------------------
(* The sections.                                                           *)

NoSyntax == [is_valid_syntax |-> FALSE, username |-> "", domain |-> "", suggestion |-> Null]
NoMisc   == [is_disposable |-> FALSE, is_role_account |-> FALSE,
             gravatar_url |-> Null, haveibeenpwned |-> Null]
\* MxDetails: the serialised form, without the priorities.
Mx(records) == [accepts_mail |-> records # <<>>,
                records |-> [i \in DOMAIN records |-> records[i].exchange]]
NoMx     == Mx(<<>>)
Details(full, catchAll, deliverable, disabled) ==
  [can_connect_smtp |-> TRUE, has_full_inbox |-> full, is_catch_all |-> catchAll,
   is_deliverable |-> deliverable, is_disabled |-> disabled]
NoSmtp   == [Details(FALSE, FALSE, FALSE, FALSE) EXCEPT !.can_connect_smtp = FALSE]

\* CheckEmailOutput::default, which the early returns fill up with.
DefaultOutput ==
  [is_reachable |-> "unknown", misc |-> NoMisc, mx |-> NoMx, smtp |-> NoSmtp,
   syntax |-> NoSyntax, method |-> "Skipped"]

Has(section, field) == field \in DOMAIN section
IsErr(section) == Has(section, "error")

Init ==
  /\ email \in Emails
  /\ config \in Configs
  /\ step = "syntax"
  /\ host = Null
  /\ output = DefaultOutput
  /\ logged = Null
  /\ row0 = Null
  /\ row1 = Null

-----------------------------------------------------------------------------
(* check_syntax, get_similar_mail_provider.                                *)

Syntax == [is_valid_syntax |-> TRUE, username |-> email.username,
           domain |-> email.domain, suggestion |-> Null]

\* The first provider of the list at a distance below three, if any.
SimilarProvider(domain) ==
  LET near == {i \in DOMAIN Providers : Distance[domain][Providers[i]] < 3} IN
  IF near = {} THEN Null
  ELSE Providers[CHOOSE i \in near : \A j \in near : i <= j]

Suggest(syntax) == [syntax EXCEPT !.suggestion = SimilarProvider(syntax.domain)]

\* The output is what check_email returns.
Return(out) ==
  /\ output' = out
  /\ step' = "returned"
  /\ UNCHANGED <<email, config, host, row0, row1>>

GoOn(next) ==
  /\ step' = next
  /\ UNCHANGED <<email, config, logged, row0, row1>>

\* Bug: the verdict is left to CheckEmailOutput::default.
CheckSyntaxDefault ==
  /\ step = "syntax"
  /\ IF email.wellFormed /\ ~ email.disposable
     THEN GoOn("mx") /\ output' = [output EXCEPT !.syntax = Syntax] /\ UNCHANGED host
     ELSE Return(DefaultOutput) /\ UNCHANGED logged

\* An address that does not parse is not valid, nor one that mailchecker
\* rejects, as it does disposable domains.
CheckSyntax ==
  /\ step = "syntax"
  /\ IF email.wellFormed /\ ~ email.disposable
     THEN GoOn("mx") /\ output' = [output EXCEPT !.syntax = Syntax] /\ UNCHANGED host
     ELSE Return([DefaultOutput EXCEPT !.is_reachable = "invalid"]) /\ UNCHANGED logged

-----------------------------------------------------------------------------
(* check_mx, and the host with the lowest preference, the first of several *)
(* (min_by_key).                                                           *)

Best(records) ==
  LET Before(i, j) == \/ records[i].preference < records[j].preference
                      \/ records[i].preference = records[j].preference /\ i <= j
  IN  records[CHOOSE i \in DOMAIN records : \A j \in DOMAIN records : Before(i, j)]

\* An error of the lookup; no records; or some.
CheckMx ==
  /\ step = "mx"
  /\ \/ /\ Return([output EXCEPT !.mx = [error |-> "ResolveError"],
                                 !.syntax = Suggest(@)])
        /\ UNCHANGED logged
     \/ /\ Return([output EXCEPT !.is_reachable = "invalid", !.syntax = Suggest(@)])
        /\ UNCHANGED logged
     \/ \E records \in MxRecords :
          /\ output' = [output EXCEPT !.mx = Mx(records)]
          /\ host' = Best(records).exchange
          /\ GoOn("misc")

-----------------------------------------------------------------------------
(* check_misc, with check_gravatar and check_haveibeenpwned, whose         *)
(* failures are no answer.                                                 *)

CheckMisc ==
  /\ step = "misc"
  /\ \E url \in IF config.gravatar THEN {Null, "url"} ELSE {Null} :
       \E pwned \in IF config.haveibeenpwned THEN {Null, "true", "false"} ELSE {Null} :
         output' = [output EXCEPT !.misc =
           [is_disposable |-> email.disposable,
            is_role_account |-> email.username = "role",
            gravatar_url |-> url,
            haveibeenpwned |-> pwned]]
  /\ GoOn("smtp")
  /\ UNCHANGED host

-----------------------------------------------------------------------------
(* check_smtp, calculate_reachable, log_unknown_errors.                    *)

\* The suffix ".olc" is looked for in the host's own spelling, the others in
\* lower case.
FromMxHost(h) ==
  CASE h = "olc"                   -> "HotmailB2C"
    [] h \in {"OLC", "protection"} -> "HotmailB2B"
    [] h = "google"                -> "Gmail"
    [] h = "yahoodns"              -> "Yahoo"
    [] h = "pphosted"              -> "Proofpoint"
    [] h = "mimecast"              -> "Mimecast"
    [] OTHER                       -> "EverythingElse"

\* Only Outlook and Yahoo can be verified other than over SMTP.
MethodFor(provider) ==
  CASE provider = "HotmailB2C" -> config.hotmailb2c
    [] provider = "Yahoo"      -> config.yahoo
    [] OTHER                   -> "Smtp"

\* What a verification can find: over SMTP a catch-all, a deliverable, full,
\* disabled or missing mailbox; elsewhere no catch-all and no full inbox.
Found(method) ==
  {Details(FALSE, FALSE, TRUE, FALSE), Details(FALSE, FALSE, FALSE, FALSE)}
    \cup (IF method \in {"Smtp", "Headless"} THEN {Details(FALSE, FALSE, FALSE, TRUE)} ELSE {})
    \cup (IF method = "Smtp"
          THEN {Details(FALSE, TRUE, TRUE, FALSE), Details(TRUE, FALSE, FALSE, FALSE)} ELSE {})

\* How it can fail.  Only an SMTP reply has a description, or is known to be
\* transient ("try again").
Failures(method) ==
  {[error |-> "other"]} \cup
    IF method # "Smtp" THEN {}
    ELSE {[error |-> "transient"], [error |-> "smtp", description |-> "IpBlacklisted"],
          [error |-> "smtp", description |-> "NeedsRDNS"]}

CalculateReachable(misc, smtp) ==
  IF IsErr(smtp) THEN "unknown"
  ELSE IF misc.is_disposable \/ misc.is_role_account \/ smtp.is_catch_all \/ smtp.has_full_inbox
       THEN "risky"
  ELSE IF ~ smtp.is_deliverable \/ ~ smtp.can_connect_smtp \/ smtp.is_disabled
       THEN "invalid"
  ELSE "safe"

\* Known errors are not sent.
LogUnknownErrors(out) ==
  CASE IsErr(out.mx)                                       -> "MxError"
    [] IsErr(out.smtp) /\ Has(out.smtp, "description")     -> Null
    [] IsErr(out.smtp) /\ out.smtp.error = "transient"     -> Null
    [] IsErr(out.smtp) /\ ~ Has(out.smtp, "description")
         /\ out.smtp.error # "transient"                   -> "SmtpError"
    [] OTHER                                               -> Null

CheckSmtp ==
  /\ step = "smtp"
  /\ LET method == MethodFor(FromMxHost(host)) IN
     \E smtp \in Found(method) \cup Failures(method) :
       LET out == [output EXCEPT !.is_reachable = CalculateReachable(output.misc, smtp),
                                 !.smtp = smtp, !.method = method,
                                 !.syntax = IF IsErr(smtp) THEN Suggest(@) ELSE @]
       IN  Return(out) /\ logged' = LogUnknownErrors(out)

-----------------------------------------------------------------------------
(* The rows of CSV, v0's and v1's csv_helper.rs.                           *)

\* Column, section and key it is read from.
Columns ==
  {<<"misc.is_disposable", "misc", "is_disposable">>,
   <<"misc.is_role_account", "misc", "is_role_account">>,
   <<"mx.accepts_mail", "mx", "accepts_email">>,
   <<"smtp.can_connect", "smtp", "can_connect_smtp">>,
   <<"smtp.has_full_inbox", "smtp", "has_full_inbox">>,
   <<"smtp.is_catch_all", "smtp", "is_catch_all">>,
   <<"smtp.is_deliverable", "smtp", "is_deliverable">>,
   <<"smtp.is_disabled", "smtp", "is_disabled">>,
   <<"syntax.is_valid_syntax", "syntax", "is_valid_syntax">>}

Sections == {"misc", "mx", "smtp", "syntax"}

Text(out) ==
  [is_reachable |-> out.is_reachable,
   misc_gravatar_url |-> IF Has(out.misc, "gravatar_url") THEN out.misc.gravatar_url ELSE Null,
   syntax_domain |-> out.syntax.domain,
   syntax_username |-> out.syntax.username]

\* v0: a field that is missing is FALSE, and any section's error is the row's.
Row0(out) ==
  [text |-> Text(out),
   flags |-> {c[1] : c \in {d \in Columns : Has(out[d[2]], d[3]) /\ out[d[2]][d[3]]}},
   error |-> IF \E s \in Sections : IsErr(out[s])
             THEN out[CHOOSE s \in Sections : IsErr(out[s])].error ELSE Null]

\* v1: a field that is missing is an error, which fails the whole download; the
\* error column reads a key "error" of the report itself.
Row1(out) ==
  IF \A c \in Columns : Has(out[c[2]], c[3])
  THEN [text |-> Text(out),
        flags |-> {c[1] : c \in {d \in Columns : out[d[2]][d[3]]}},
        error |-> IF Has(out, "error") THEN out.error ELSE Null]
  ELSE "failed"

\* Bug: the errors of the SMTP section are passed over.
ExportNoSmtpError ==
  /\ step = "returned"
  /\ row0' = IF IsErr(output.smtp) THEN [Row0(output) EXCEPT !.error = Null] ELSE Row0(output)
  /\ row1' = Row1(output)
  /\ step' = "done"
  /\ UNCHANGED <<email, config, host, output, logged>>

Export ==
  /\ step = "returned"
  /\ row0' = Row0(output)
  /\ row1' = Row1(output)
  /\ step' = "done"
  /\ UNCHANGED <<email, config, host, output, logged>>

Next == CheckSyntax \/ CheckMx \/ CheckMisc \/ CheckSmtp \/ Export

Spec == Init /\ [][Next]_vars

-----------------------------------------------------------------------------
(* Properties.                                                             *)

Steps == {"syntax", "mx", "misc", "smtp", "returned", "done"}
Reachables == {"safe", "risky", "invalid", "unknown"}

\* Type invariant.
TypeOK ==
  /\ email \in Emails
  /\ config \in Configs
  /\ step \in Steps
  /\ host \in Exchanges \cup {Null}
  /\ output.is_reachable \in Reachables
  /\ output.method \in {"Skipped", "Smtp", "Api", "Headless"}
  /\ output.syntax.suggestion \in {Null} \cup {Providers[i] : i \in DOMAIN Providers}
  /\ logged \in {Null, "MxError", "SmtpError"}

Returned == step \in {"returned", "done"}

\* The parts of a report agree with its verdict on every path, the early
\* returns with their defaults included: the verdict is "unknown" just when a
\* section holds an error, and otherwise what calculate_reachable makes of the
\* sections that are there.
VerdictMatchesSections ==
  Returned =>
    output.is_reachable =
      IF IsErr(output.mx) THEN "unknown" ELSE CalculateReachable(output.misc, output.smtp)

\* The verdict of a row of v0's CSV has its reason in the same row: "unknown"
\* comes with the error and nothing else does, and "safe" with the columns of the
\* syntax and of the mailbox that make it so and with none of a risk.  Nothing is
\* said of the column mx.accepts_mail, which is wrong (AcceptsMailExported).
RowMatchesVerdict ==
  step = "done" =>
    /\ (row0.text.is_reachable = "unknown") <=> (row0.error # Null)
    /\ row0.text.is_reachable = "safe" =>
         row0.flags \ {"mx.accepts_mail"} =
           {"smtp.can_connect", "smtp.is_deliverable", "syntax.is_valid_syntax"}

\* A suggestion never comes with an answer of the mail server: it is made for a
\* domain that is close to a provider's, when the check of the MX records or of
\* the mailbox failed, and always then.
SuggestedOnFailure ==
  Returned =>
    LET failed == IsErr(output.mx) \/ IsErr(output.smtp) \/
                  (output.syntax.is_valid_syntax /\ ~ IsErr(output.mx) /\ ~ output.mx.accepts_mail)
        near == \E i \in DOMAIN Providers : Distance[email.domain][Providers[i]] < 3
    IN  (output.syntax.suggestion # Null) <=> (failed /\ near)

\* v1/bulk/get_results/mod.rs: "Defines the download format, passed in as a
\* query param."  Every report can be downloaded in either format.
CsvServed == step = "done" => row1 # "failed"

\* csv_helper.rs names the column "mx.accepts_mail": it says what the report
\* says.
AcceptsMailExported ==
  step = "done" /\ ~ IsErr(output.mx) =>
    (output.mx.accepts_mail <=> "mx.accepts_mail" \in row0.flags)

\* input_output.rs: "Emails are classified as risky when one of the following
\* happens: - disposable email".
DisposableIsRisky ==
  Returned /\ email.wellFormed /\ email.disposable => output.is_reachable = "risky"

\* syntax/mod.rs: "Supplies the syntax parameter with a suggestion that matches
\* the mail domain best by levenshtein distance."
SuggestionIsBest ==
  output.syntax.suggestion # Null =>
    \A i \in DOMAIN Providers :
      Distance[email.domain][output.syntax.suggestion] <= Distance[email.domain][Providers[i]]
=============================================================================
