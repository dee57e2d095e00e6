---------------------------- MODULE ReportProofs ----------------------------
(***************************************************************************)
(* That a report's verdict agrees with its sections, for every list of     *)
(* providers, table of distances and set of mail exchanges.                *)
(***************************************************************************)
EXTENDS Report, WellFoundedInduction, TLAPS

\* What each step of check_email finds in the report: the sections it has not
\* come to are still the defaults, and the one of the MX records holds no error
\* once it is passed.
Stage ==
  /\ DOMAIN output = DOMAIN DefaultOutput
  /\ step \in {"syntax", "mx", "misc"} => output.misc = NoMisc /\ output.smtp = NoSmtp
  /\ step \in {"syntax", "mx"} => output.mx = NoMx /\ output.is_reachable = "unknown"
  /\ step \in {"misc", "smtp"} => ~ IsErr(output.mx)
  /\ step \in Steps

\* The two facts that make the verdict, by induction together.
Sound == Stage /\ VerdictMatchesSections

\* The sections of the MX records and of the SMTP server that the early returns
\* leave at their defaults hold no error, and are those of an invalid address.
LEMMA NoMxIsNoError == \A r : ~ IsErr(Mx(r))
  BY DEF IsErr, Has, Mx

LEMMA DefaultIsInvalid == CalculateReachable(NoMisc, NoSmtp) = "invalid"
<1>1. ~ IsErr(NoSmtp)
  BY DEF IsErr, Has, NoSmtp, Details
<1>2. /\ ~ NoSmtp.is_catch_all /\ ~ NoSmtp.has_full_inbox
      /\ ~ NoSmtp.is_deliverable
  BY DEF NoSmtp, Details
<1>3. ~ NoMisc.is_disposable /\ ~ NoMisc.is_role_account
  BY DEF NoMisc
<1> QED
  BY <1>1, <1>2, <1>3 DEF CalculateReachable

LEMMA SoundInit == Init => Sound
  BY DEF Init, Sound, Stage, VerdictMatchesSections, Returned, DefaultOutput, Steps,
         IsErr, Has, NoMx, Mx

LEMMA SyntaxKeeps == Sound /\ CheckSyntax => Sound'
<1> SUFFICES ASSUME Sound, CheckSyntax PROVE Sound'
  OBVIOUS
<1>1. CASE email.wellFormed /\ ~ email.disposable
  <2>1. output' = [output EXCEPT !.syntax = Syntax] /\ step' = "mx" /\ step = "syntax"
    BY <1>1 DEF CheckSyntax, GoOn
  <2>2. /\ output'.misc = output.misc /\ output'.smtp = output.smtp
        /\ output'.mx = output.mx /\ output'.is_reachable = output.is_reachable
        /\ DOMAIN output' = DOMAIN output
    BY <2>1 DEF Sound, Stage, DefaultOutput
  <2> QED
    BY <2>1, <2>2 DEF Sound, Stage, VerdictMatchesSections, Returned, Steps
<1>2. CASE ~ (email.wellFormed /\ ~ email.disposable)
  <2>1. output' = [DefaultOutput EXCEPT !.is_reachable = "invalid"] /\ step' = "returned"
    BY <1>2 DEF CheckSyntax, Return
  <2>2. /\ output'.misc = NoMisc /\ output'.smtp = NoSmtp
        /\ output'.mx = NoMx /\ output'.is_reachable = "invalid"
        /\ DOMAIN output' = DOMAIN DefaultOutput
    BY <2>1 DEF DefaultOutput
  <2>3. ~ IsErr(output'.mx)
    BY <2>2, NoMxIsNoError DEF NoMx
  <2> QED
    BY <2>1, <2>2, <2>3, DefaultIsInvalid
    DEF Sound, Stage, VerdictMatchesSections, Returned, Steps
<1> QED
  BY <1>1, <1>2

LEMMA MxKeeps == Sound /\ CheckMx => Sound'
<1> SUFFICES ASSUME Sound, CheckMx PROVE Sound'
  OBVIOUS
<1>1. step = "mx" /\ DOMAIN output = DOMAIN DefaultOutput /\ output.is_reachable = "unknown"
      /\ output.misc = NoMisc /\ output.smtp = NoSmtp /\ output.mx = NoMx
  BY DEF CheckMx, Sound, Stage
<1>2. CASE Return([output EXCEPT !.mx = [error |-> "ResolveError"], !.syntax = Suggest(@)])
  <2>1. /\ output' = [output EXCEPT !.mx = [error |-> "ResolveError"], !.syntax = Suggest(@)]
        /\ step' = "returned"
    BY <1>2 DEF Return
  <2>2. /\ output'.is_reachable = "unknown" /\ output'.mx = [error |-> "ResolveError"]
        /\ DOMAIN output' = DOMAIN DefaultOutput
    BY <1>1, <2>1 DEF DefaultOutput
  <2>3. IsErr(output'.mx)
    BY <2>2 DEF IsErr, Has
  <2> QED
    BY <2>1, <2>2, <2>3 DEF Sound, Stage, VerdictMatchesSections, Returned, Steps
<1>3. CASE Return([output EXCEPT !.is_reachable = "invalid", !.syntax = Suggest(@)])
  <2>1. /\ output' = [output EXCEPT !.is_reachable = "invalid", !.syntax = Suggest(@)]
        /\ step' = "returned"
    BY <1>3 DEF Return
  <2>2. /\ output'.is_reachable = "invalid" /\ output'.mx = NoMx
        /\ output'.misc = NoMisc /\ output'.smtp = NoSmtp
        /\ DOMAIN output' = DOMAIN DefaultOutput
    BY <1>1, <2>1 DEF DefaultOutput
  <2>3. ~ IsErr(output'.mx)
    BY <2>2, NoMxIsNoError DEF NoMx
  <2> QED
    BY <2>1, <2>2, <2>3, DefaultIsInvalid
    DEF Sound, Stage, VerdictMatchesSections, Returned, Steps
<1>4. ASSUME NEW records \in MxRecords, output' = [output EXCEPT !.mx = Mx(records)],
             GoOn("misc")
      PROVE  Sound'
  <2>1. /\ output'.misc = NoMisc /\ output'.smtp = NoSmtp /\ output'.mx = Mx(records)
        /\ DOMAIN output' = DOMAIN DefaultOutput
    BY <1>1, <1>4 DEF DefaultOutput
  <2>2. ~ IsErr(output'.mx)
    BY <2>1, NoMxIsNoError
  <2>3. step' = "misc"
    BY <1>4 DEF GoOn
  <2> QED
    BY <2>1, <2>2, <2>3 DEF Sound, Stage, VerdictMatchesSections, Returned, Steps
<1> QED
  BY <1>2, <1>3, <1>4 DEF CheckMx

LEMMA MiscKeeps == Sound /\ CheckMisc => Sound'
<1> SUFFICES ASSUME Sound, CheckMisc PROVE Sound'
  OBVIOUS
<1>1. step = "misc" /\ step' = "smtp"
  BY DEF CheckMisc, GoOn
<1>2. PICK misc : output' = [output EXCEPT !.misc = misc]
  BY DEF CheckMisc
<1>3. DOMAIN output' = DOMAIN output /\ output'.mx = output.mx
  BY <1>2 DEF Sound, Stage, DefaultOutput
<1> QED
  BY <1>1, <1>3 DEF Sound, Stage, VerdictMatchesSections, Returned, Steps

LEMMA SmtpKeeps == Sound /\ CheckSmtp => Sound'
<1> SUFFICES ASSUME Sound, CheckSmtp PROVE Sound'
  OBVIOUS
<1>1. PICK smtp, method, syntax :
        /\ output' = [output EXCEPT !.is_reachable = CalculateReachable(output.misc, smtp),
                                    !.smtp = smtp, !.method = method, !.syntax = syntax]
        /\ step' = "returned"
  BY DEF CheckSmtp, Return
<1>2. /\ output'.is_reachable = CalculateReachable(output.misc, smtp)
      /\ output'.smtp = smtp /\ output'.misc = output.misc /\ output'.mx = output.mx
      /\ DOMAIN output' = DOMAIN DefaultOutput
  BY <1>1 DEF Sound, Stage, DefaultOutput
<1>3. ~ IsErr(output.mx)
  BY DEF CheckSmtp, Sound, Stage
<1> QED
  BY <1>1, <1>2, <1>3 DEF Sound, Stage, VerdictMatchesSections, Returned, Steps

LEMMA SoundNext == Sound /\ [Next]_vars => Sound'
<1>1. Sound /\ Export => Sound'
  BY DEF Sound, Stage, VerdictMatchesSections, Returned, Steps, Export
<1>2. Sound /\ UNCHANGED vars => Sound'
  BY DEF Sound, Stage, VerdictMatchesSections, Returned, vars
<1> QED
  BY <1>1, <1>2, SyntaxKeeps, MxKeeps, MiscKeeps, SmtpKeeps DEF Next

\* The verdict of a report is what its sections say, whichever of the returns
\* of check_email it comes from.
THEOREM VerdictFits == Spec => []VerdictMatchesSections
<1>1. Sound => VerdictMatchesSections
  BY DEF Sound
<1> QED
  BY <1>1, SoundInit, SoundNext, PTL DEF Spec

-----------------------------------------------------------------------------
(* The row of CSV.                                                         *)

\* What the sections look like: which fields each may have, and that an error
\* is never null.  The row is made from the report that was returned.
Shape ==
  /\ DOMAIN output.syntax = DOMAIN NoSyntax
  /\ DOMAIN output.misc = DOMAIN NoMisc
  /\ \/ DOMAIN output.mx = DOMAIN NoMx
     \/ DOMAIN output.mx = {"error"} /\ output.mx.error # Null
  /\ \/ DOMAIN output.smtp = DOMAIN NoSmtp
     \/ IsErr(output.smtp) /\ output.smtp.error # Null
  /\ step \in {"mx", "misc", "smtp"} => output.syntax.is_valid_syntax
  /\ Returned /\ output.is_reachable = "safe" => output.syntax.is_valid_syntax
  /\ step = "done" => row0 = Row0(output)

\* A suggestion leaves the rest of the syntax section alone.
LEMMA SuggestKeeps ==
  ASSUME NEW syntax, DOMAIN syntax = DOMAIN NoSyntax
  PROVE  /\ DOMAIN Suggest(syntax) = DOMAIN NoSyntax
         /\ Suggest(syntax).is_valid_syntax = syntax.is_valid_syntax
  BY DEF Suggest, NoSyntax

\* What an SMTP verification gives: the details, or an error that is not null.
LEMMA Outcomes ==
  ASSUME NEW method, NEW smtp \in Found(method) \cup Failures(method)
  PROVE  DOMAIN smtp = DOMAIN NoSmtp \/ (IsErr(smtp) /\ smtp.error # Null)
<1>1. smtp \in Found(method) => DOMAIN smtp = DOMAIN NoSmtp
  BY DEF Found, Details, NoSmtp
<1>2. smtp \in Failures(method) => IsErr(smtp) /\ smtp.error # Null
  BY DEF Failures, IsErr, Has, Null
<1> QED
  BY <1>1, <1>2

LEMMA ShapeInit == Init => Shape
  BY DEF Init, Shape, Returned, DefaultOutput

LEMMA ShapeSyntax == Sound /\ Shape /\ CheckSyntax => Shape'
<1> SUFFICES ASSUME Sound, Shape, CheckSyntax PROVE Shape'
  OBVIOUS
<1>1. CASE email.wellFormed /\ ~ email.disposable
  <2>1. output' = [output EXCEPT !.syntax = Syntax] /\ step' = "mx"
    BY <1>1 DEF CheckSyntax, GoOn
  <2>2. /\ output'.misc = output.misc /\ output'.smtp = output.smtp
        /\ output'.mx = output.mx /\ output'.syntax = Syntax
    BY <2>1 DEF Sound, Stage, DefaultOutput
  <2>3. DOMAIN Syntax = DOMAIN NoSyntax /\ Syntax.is_valid_syntax
    BY DEF Syntax, NoSyntax
  <2> QED
    BY <2>1, <2>2, <2>3 DEF Shape, Returned
<1>2. CASE ~ (email.wellFormed /\ ~ email.disposable)
  <2>1. output' = [DefaultOutput EXCEPT !.is_reachable = "invalid"] /\ step' = "returned"
    BY <1>2 DEF CheckSyntax, Return
  <2>2. /\ output'.misc = NoMisc /\ output'.smtp = NoSmtp /\ output'.syntax = NoSyntax
        /\ output'.mx = NoMx /\ output'.is_reachable = "invalid"
    BY <2>1 DEF DefaultOutput
  <2> QED
    BY <2>1, <2>2 DEF Shape, Returned
<1> QED
  BY <1>1, <1>2

LEMMA ShapeMx == Sound /\ Shape /\ CheckMx => Shape'
<1> SUFFICES ASSUME Sound, Shape, CheckMx PROVE Shape'
  OBVIOUS
<1>1. step = "mx" /\ DOMAIN output = DOMAIN DefaultOutput /\ output.is_reachable = "unknown"
  BY DEF CheckMx, Sound, Stage
<1>2. CASE Return([output EXCEPT !.mx = [error |-> "ResolveError"], !.syntax = Suggest(@)])
  <2>1. /\ output' = [output EXCEPT !.mx = [error |-> "ResolveError"], !.syntax = Suggest(@)]
        /\ step' = "returned"
    BY <1>2 DEF Return
  <2>2. /\ output'.is_reachable = "unknown" /\ output'.mx = [error |-> "ResolveError"]
        /\ output'.syntax = Suggest(output.syntax)
        /\ output'.misc = output.misc /\ output'.smtp = output.smtp
    BY <1>1, <2>1 DEF DefaultOutput
  <2> QED
    BY <2>1, <2>2, SuggestKeeps DEF Shape, Returned, Null
<1>3. CASE Return([output EXCEPT !.is_reachable = "invalid", !.syntax = Suggest(@)])
  <2>1. /\ output' = [output EXCEPT !.is_reachable = "invalid", !.syntax = Suggest(@)]
        /\ step' = "returned"
    BY <1>3 DEF Return
  <2>2. /\ output'.is_reachable = "invalid" /\ output'.mx = output.mx
        /\ output'.syntax = Suggest(output.syntax)
        /\ output'.misc = output.misc /\ output'.smtp = output.smtp
    BY <1>1, <2>1 DEF DefaultOutput
  <2> QED
    BY <2>1, <2>2, SuggestKeeps DEF Shape, Returned
<1>4. ASSUME NEW records \in MxRecords, output' = [output EXCEPT !.mx = Mx(records)],
             GoOn("misc")
      PROVE  Shape'
  <2>1. /\ output'.misc = output.misc /\ output'.smtp = output.smtp
        /\ output'.mx = Mx(records) /\ output'.syntax = output.syntax
    BY <1>1, <1>4 DEF DefaultOutput
  <2>2. DOMAIN Mx(records) = DOMAIN NoMx
    BY DEF Mx, NoMx
  <2> QED
    BY <1>1, <1>4, <2>1, <2>2 DEF Shape, Returned, GoOn
<1> QED
  BY <1>2, <1>3, <1>4 DEF CheckMx

LEMMA ShapeMisc == Sound /\ Shape /\ CheckMisc => Shape'
<1> SUFFICES ASSUME Sound, Shape, CheckMisc PROVE Shape'
  OBVIOUS
<1>1. step = "misc" /\ step' = "smtp"
  BY DEF CheckMisc, GoOn
<1>2. PICK url, pwned :
        output' = [output EXCEPT !.misc = [is_disposable |-> email.disposable,
                                           is_role_account |-> email.username = "role",
                                           gravatar_url |-> url,
                                           haveibeenpwned |-> pwned]]
  BY DEF CheckMisc
<1>3. /\ DOMAIN output'.misc = DOMAIN NoMisc /\ output'.mx = output.mx
      /\ output'.smtp = output.smtp /\ output'.syntax = output.syntax
  BY <1>2 DEF Sound, Stage, DefaultOutput, NoMisc
<1> QED
  BY <1>1, <1>3 DEF Shape, Returned

LEMMA ShapeSmtp == Sound /\ Shape /\ CheckSmtp => Shape'
<1> SUFFICES ASSUME Sound, Shape, CheckSmtp PROVE Shape'
  OBVIOUS
<1> DEFINE method == MethodFor(FromMxHost(host))
<1>1. PICK smtp, verdict, way :
        /\ smtp \in Found(method) \cup Failures(method)
        /\ output' = [output EXCEPT !.is_reachable = verdict, !.smtp = smtp, !.method = way,
                                    !.syntax = IF IsErr(smtp) THEN Suggest(@) ELSE @]
        /\ step' = "returned"
  BY DEF CheckSmtp, Return
<1>2. /\ output'.smtp = smtp /\ output'.misc = output.misc /\ output'.mx = output.mx
      /\ output'.syntax = IF IsErr(smtp) THEN Suggest(output.syntax) ELSE output.syntax
  BY <1>1 DEF Sound, Stage, DefaultOutput
<1>3. step = "smtp"
  BY DEF CheckSmtp
<1>4. DOMAIN smtp = DOMAIN NoSmtp \/ (IsErr(smtp) /\ smtp.error # Null)
  BY <1>1, Outcomes
<1>5. DOMAIN output.syntax = DOMAIN NoSyntax /\ output.syntax.is_valid_syntax
  BY <1>3 DEF Shape
<1>6. DOMAIN output'.syntax = DOMAIN NoSyntax /\ output'.syntax.is_valid_syntax
  BY <1>2, <1>5, SuggestKeeps
<1> HIDE DEF method
<1> QED
  BY <1>1, <1>2, <1>4, <1>6 DEF Shape, Returned

LEMMA ShapeNext == Sound /\ Shape /\ [Next]_vars => Shape'
<1>1. Shape /\ Export => Shape'
  BY DEF Shape, Export, Returned
<1>2. Shape /\ UNCHANGED vars => Shape'
  BY DEF Shape, Returned, vars
<1> QED
  BY <1>1, <1>2, ShapeSyntax, ShapeMx, ShapeMisc, ShapeSmtp DEF Next

\* A row has an error just when a section of the report has one.
LEMMA RowError ==
  Shape => (Row0(output).error # Null <=> IsErr(output.mx) \/ IsErr(output.smtp))
<1> SUFFICES ASSUME Shape
             PROVE  Row0(output).error # Null <=> IsErr(output.mx) \/ IsErr(output.smtp)
  OBVIOUS
<1>1. ~ IsErr(output.misc) /\ ~ IsErr(output.syntax)
  BY DEF Shape, IsErr, Has, NoMisc, NoSyntax
<1>2. ~ IsErr(NoMx) /\ ~ IsErr(NoSmtp)
  BY DEF IsErr, Has, NoMx, Mx, NoSmtp, Details
<1>3. /\ IsErr(output.mx) => output.mx.error # Null
      /\ IsErr(output.smtp) => output.smtp.error # Null
  BY <1>2 DEF Shape, IsErr, Has
<1>4. \A s \in Sections : IsErr(output[s]) => output[s].error # Null
  BY <1>1, <1>3 DEF Sections
<1>5. (\E s \in Sections : IsErr(output[s])) <=> IsErr(output.mx) \/ IsErr(output.smtp)
  BY <1>1 DEF Sections
<1>6. Row0(output).error = IF \E s \in Sections : IsErr(output[s])
                           THEN output[CHOOSE s \in Sections : IsErr(output[s])].error ELSE Null
  BY DEF Row0
<1> QED
  BY <1>4, <1>5, <1>6

\* The columns that are set in the row of a safe address, whatever is in
\* mx.accepts_mail.
LEMMA RowSafe ==
  Sound /\ Shape /\ Returned /\ output.is_reachable = "safe" =>
    Row0(output).flags \ {"mx.accepts_mail"} =
      {"smtp.can_connect", "smtp.is_deliverable", "syntax.is_valid_syntax"}
<1> SUFFICES ASSUME Sound, Shape, Returned, output.is_reachable = "safe"
             PROVE  Row0(output).flags \ {"mx.accepts_mail"} =
                      {"smtp.can_connect", "smtp.is_deliverable", "syntax.is_valid_syntax"}
  OBVIOUS
<1>1. ~ IsErr(output.mx) /\ CalculateReachable(output.misc, output.smtp) = "safe"
  BY DEF Sound, VerdictMatchesSections
<1>2. /\ ~ IsErr(output.smtp)
      /\ ~ output.misc.is_disposable /\ ~ output.misc.is_role_account
      /\ ~ output.smtp.is_catch_all /\ ~ output.smtp.has_full_inbox
      /\ output.smtp.is_deliverable /\ output.smtp.can_connect_smtp
      /\ ~ output.smtp.is_disabled
  BY <1>1 DEF CalculateReachable
<1>3. "can_connect_smtp" \in DOMAIN output.smtp /\ "is_deliverable" \in DOMAIN output.smtp
  BY <1>2 DEF Shape, NoSmtp, Details
<1>4. "is_valid_syntax" \in DOMAIN output.syntax /\ output.syntax.is_valid_syntax
  BY DEF Shape, NoSyntax
<1> DEFINE Set(d) == Has(output[d[2]], d[3]) /\ output[d[2]][d[3]]
<1>5. Row0(output).flags = {c[1] : c \in {d \in Columns : Set(d)}}
  BY DEF Row0
<1>6. \A d \in Columns : d[1] # "mx.accepts_mail" =>
        (Set(d) <=> d[1] \in {"smtp.can_connect", "smtp.is_deliverable", "syntax.is_valid_syntax"})
  BY <1>2, <1>3, <1>4 DEF Columns, Has
<1>7. /\ \E d \in Columns : d[1] = "smtp.can_connect"
      /\ \E d \in Columns : d[1] = "smtp.is_deliverable"
      /\ \E d \in Columns : d[1] = "syntax.is_valid_syntax"
  BY DEF Columns
<1> HIDE DEF Set
<1> QED
  BY <1>5, <1>6, <1>7

\* A row of v0's CSV shows the reason of its verdict: the error of an unknown
\* one, the syntax and mailbox columns of a safe one.
THEOREM RowFits == Spec => []RowMatchesVerdict
<1>1. Sound /\ Shape => RowMatchesVerdict
  <2> SUFFICES ASSUME Sound, Shape, step = "done" PROVE RowMatchesVerdict
    BY DEF RowMatchesVerdict
  <2>1. row0 = Row0(output) /\ Row0(output).text.is_reachable = output.is_reachable
    BY DEF Shape, Row0, Text
  <2>2. Returned
    BY DEF Returned
  <2>3. output.is_reachable = "unknown" <=> IsErr(output.mx) \/ IsErr(output.smtp)
    BY <2>2 DEF Sound, VerdictMatchesSections, CalculateReachable
  <2> QED
    BY <2>1, <2>2, <2>3, RowError, RowSafe DEF RowMatchesVerdict
<1> QED
  BY <1>1, SoundInit, SoundNext, ShapeInit, ShapeNext, PTL DEF Spec
-----------------------------------------------------------------------------
(* The suggestion.                                                         *)

Near == \E i \in DOMAIN Providers : Distance[email.domain][Providers[i]] < 3

\* Of the providers that are near, one comes first in the list.
LEMMA OneIsFirst ==
  ASSUME NEW near \in SUBSET Nat, near # {}
  PROVE  \E i \in near : \A j \in near : i <= j
<1>1. \E i \in near : \A j \in near : ~ (<<j, i>> \in OpToRel(<, Nat))
  BY WFMin, NatLessThanWellFounded, Zenon
<1>2. \E i \in near : \A j \in near : ~ (<<j, i>> \in {ss \in Nat \X Nat : ss[1] < ss[2]})
  BY <1>1, Zenon DEF OpToRel
<1>3. PICK i \in near : \A j \in near : ~ (<<j, i>> \in {ss \in Nat \X Nat : ss[1] < ss[2]})
  BY <1>2
<1>4. ASSUME NEW j \in near PROVE i <= j
  <2>1. <<j, i>> \in Nat \X Nat /\ <<j, i>>[1] = j /\ <<j, i>>[2] = i
    OBVIOUS
  <2>2. ~ (j < i)
    BY <1>3, <2>1
  <2>3. i \in Nat /\ j \in Nat
    OBVIOUS
  <2> QED
    BY <2>2, <2>3
<1> QED
  BY <1>4

\* There is a provider to suggest just when one is near.
LEMMA SimilarIsNear == (SimilarProvider(email.domain) # Null) <=> Near
<1> DEFINE near == {i \in DOMAIN Providers : Distance[email.domain][Providers[i]] < 3}
<1>1. CASE near = {}
  BY <1>1 DEF SimilarProvider, Near
<1>2. CASE near # {}
  <2>1. near \in SUBSET Nat /\ near \subseteq DOMAIN Providers
    BY ReportAssumption
  <2>2. \E i \in near : \A j \in near : i <= j
    BY <1>2, <2>1, OneIsFirst
  <2>3. (CHOOSE i \in near : \A j \in near : i <= j) \in DOMAIN Providers
    BY <2>1, <2>2
  <2>4. SimilarProvider(email.domain) \in Domains
    <3>1. SimilarProvider(email.domain) = Providers[CHOOSE i \in near : \A j \in near : i <= j]
      BY <1>2 DEF SimilarProvider
    <3> HIDE DEF near
    <3>2. \A i \in DOMAIN Providers : Providers[i] \in Domains
      BY ReportAssumption
    <3> QED
      BY <2>3, <3>1, <3>2
  <2>5. Near
    BY <1>2 DEF Near
  <2> QED
    BY <2>4, <2>5, ReportAssumption
<1> QED
  BY <1>1, <1>2

\* What of a report SuggestedOnFailure looks at.
Failed(mx, smtp, valid) == IsErr(mx) \/ IsErr(smtp) \/ (valid /\ ~ IsErr(mx) /\ ~ mx.accepts_mail)

\* Until check_email returns there is no suggestion, and once the MX records
\* are there the domain accepts mail.
Unsuggested ==
  /\ step \in {"mx", "misc", "smtp"} => output.syntax = Syntax
  /\ step \in {"misc", "smtp"} => output.mx.accepts_mail
  /\ SuggestedOnFailure

\* A section with a suggestion is made for the email's own domain.
LEMMA SuggestSyntax ==
  /\ Suggest(Syntax).is_valid_syntax /\ Syntax.is_valid_syntax /\ Syntax.suggestion = Null
  /\ (Suggest(Syntax).suggestion # Null) <=> Near
BY SimilarIsNear DEF Suggest, Syntax

LEMMA SuggestionStep == Sound /\ Unsuggested /\ [Next]_vars => Unsuggested'
<1> SUFFICES ASSUME Sound, Unsuggested, [Next]_vars PROVE Unsuggested'
  OBVIOUS
<1>0. /\ DOMAIN output = {"is_reachable", "misc", "mx", "smtp", "syntax", "method"}
      /\ step \in {"syntax", "mx", "misc"} => output.smtp = NoSmtp
      /\ step \in {"syntax", "mx"} => output.mx = NoMx
      /\ step \in {"misc", "smtp"} => ~ IsErr(output.mx)
  BY DEF Sound, Stage, DefaultOutput
<1>1. ~ IsErr(NoSmtp) /\ ~ IsErr(NoMx) /\ ~ NoMx.accepts_mail
  BY DEF IsErr, Has, NoSmtp, Details, NoMx, Mx
\* It is enough to look at the report that is returned.
<1>2. ASSUME step' = "returned", UNCHANGED email,
             (output'.syntax.suggestion # Null)
               <=> Failed(output'.mx, output'.smtp, output'.syntax.is_valid_syntax) /\ Near
      PROVE  Unsuggested'
  BY <1>2 DEF Unsuggested, SuggestedOnFailure, Returned, Failed, Near, IsErr, Has
<1>3. CASE CheckSyntax
  <2>1. CASE email.wellFormed /\ ~ email.disposable
    <3>1. output' = [output EXCEPT !.syntax = Syntax] /\ step' = "mx" /\ UNCHANGED email
      BY <1>3, <2>1 DEF CheckSyntax, GoOn
    <3>2. output'.syntax = Syntax /\ Syntax' = Syntax
      BY <1>0, <3>1 DEF Syntax
    <3> QED
      BY <3>1, <3>2 DEF Unsuggested, SuggestedOnFailure, Returned
  <2>2. CASE ~ (email.wellFormed /\ ~ email.disposable)
    <3>1. /\ output' = [DefaultOutput EXCEPT !.is_reachable = "invalid"]
          /\ step' = "returned" /\ UNCHANGED email
      BY <1>3, <2>2 DEF CheckSyntax, Return
    <3>2. output'.mx = NoMx /\ output'.smtp = NoSmtp /\ output'.syntax = NoSyntax
      BY <3>1 DEF DefaultOutput
    <3>3. ~ NoSyntax.is_valid_syntax /\ NoSyntax.suggestion = Null
      BY DEF NoSyntax
    <3> QED
      BY <1>1, <1>2, <3>1, <3>2, <3>3 DEF Failed
  <2> QED
    BY <2>1, <2>2
<1>4. CASE CheckMx
  <2>0. step = "mx" /\ output.syntax = Syntax /\ output.mx = NoMx /\ output.smtp = NoSmtp
    BY <1>0, <1>4 DEF CheckMx, Unsuggested
  <2>1. CASE Return([output EXCEPT !.mx = [error |-> "ResolveError"], !.syntax = Suggest(@)])
    <3>1. /\ output' = [output EXCEPT !.mx = [error |-> "ResolveError"], !.syntax = Suggest(@)]
          /\ step' = "returned" /\ UNCHANGED email
      BY <2>1 DEF Return
    <3>2. /\ output'.mx = [error |-> "ResolveError"] /\ output'.smtp = NoSmtp
          /\ output'.syntax = Suggest(Syntax)
      BY <1>0, <2>0, <3>1
    <3>3. IsErr(output'.mx)
      BY <3>2 DEF IsErr, Has
    <3> QED
      BY <1>2, <3>1, <3>2, <3>3, SuggestSyntax DEF Failed
  <2>2. CASE Return([output EXCEPT !.is_reachable = "invalid", !.syntax = Suggest(@)])
    <3>1. /\ output' = [output EXCEPT !.is_reachable = "invalid", !.syntax = Suggest(@)]
          /\ step' = "returned" /\ UNCHANGED email
      BY <2>2 DEF Return
    <3>2. output'.mx = NoMx /\ output'.smtp = NoSmtp /\ output'.syntax = Suggest(Syntax)
      BY <1>0, <2>0, <3>1
    <3> QED
      BY <1>1, <1>2, <3>1, <3>2, SuggestSyntax DEF Failed
  <2>3. ASSUME NEW records \in MxRecords, output' = [output EXCEPT !.mx = Mx(records)],
               GoOn("misc")
        PROVE  Unsuggested'
    <3>1. output'.syntax = Syntax /\ output'.mx = Mx(records)
      BY <1>0, <2>0, <2>3
    <3>2. PICK n \in 1 .. MaxRecords : records \in [1 .. n -> [preference : 1 .. 2, exchange : Exchanges]]
      BY DEF MxRecords
    <3>3. 1 \in DOMAIN records /\ DOMAIN <<>> = {}
      BY <3>2, ReportAssumption
    <3>4. Mx(records).accepts_mail
      BY <3>3 DEF Mx
    <3>5. step' = "misc" /\ UNCHANGED email /\ Syntax' = Syntax
      BY <2>3 DEF GoOn, Syntax
    <3> QED
      BY <3>1, <3>4, <3>5 DEF Unsuggested, SuggestedOnFailure, Returned
  <2> QED
    BY <1>4, <2>1, <2>2, <2>3 DEF CheckMx
<1>5. CASE CheckMisc
  <2>1. step = "misc" /\ step' = "smtp" /\ UNCHANGED email /\ Syntax' = Syntax
    BY <1>5 DEF CheckMisc, GoOn, Syntax
  <2>2. output'.syntax = output.syntax /\ output'.mx = output.mx
    BY <1>0, <1>5 DEF CheckMisc
  <2> QED
    BY <2>1, <2>2 DEF Unsuggested, SuggestedOnFailure, Returned
<1>6. CASE CheckSmtp
  <2>1. PICK smtp, verdict, way :
          /\ output' = [output EXCEPT !.is_reachable = verdict, !.smtp = smtp, !.method = way,
                                      !.syntax = IF IsErr(smtp) THEN Suggest(@) ELSE @]
          /\ step' = "returned" /\ UNCHANGED email
    BY <1>6 DEF CheckSmtp, Return
  <2>2. /\ step = "smtp" /\ output.syntax = Syntax
        /\ output.mx.accepts_mail /\ ~ IsErr(output.mx)
    BY <1>0, <1>6 DEF CheckSmtp, Unsuggested
  <2>3. /\ output'.smtp = smtp /\ output'.mx = output.mx
        /\ output'.syntax = IF IsErr(smtp) THEN Suggest(Syntax) ELSE Syntax
    BY <1>0, <2>1, <2>2
  <2> QED
    BY <1>2, <2>1, <2>2, <2>3, SuggestSyntax DEF Failed
<1>7. CASE Export
  BY <1>7 DEF Export, Unsuggested, SuggestedOnFailure, Returned
<1>8. CASE UNCHANGED vars
  <2>1. Syntax' = Syntax
    BY <1>8 DEF vars, Syntax
  <2> QED
    BY <1>8, <2>1 DEF vars, Unsuggested, SuggestedOnFailure, Returned
<1> QED
  BY <1>3, <1>4, <1>5, <1>6, <1>7, <1>8 DEF Next

\* Whichever of the three paths that fail check_email leaves by, it suggests a
\* provider if there is one near, and on no other path.
THEOREM SuggestsOnFailure == Spec => []SuggestedOnFailure
<1>1. Init => Unsuggested
  BY DEF Init, Unsuggested, SuggestedOnFailure, Returned
<1>2. Unsuggested => SuggestedOnFailure
  BY DEF Unsuggested
<1> QED
  BY <1>1, <1>2, SoundInit, SoundNext, SuggestionStep, PTL DEF Spec
-----------------------------------------------------------------------------
(* The types.                                                              *)

\* A suggestion is a provider of the list.
LEMMA SimilarIsProvider ==
  ASSUME NEW domain
  PROVE  SimilarProvider(domain) \in {Null} \cup {Providers[i] : i \in DOMAIN Providers}
<1> DEFINE near == {i \in DOMAIN Providers : Distance[domain][Providers[i]] < 3}
<1>1. CASE near = {}
  BY <1>1 DEF SimilarProvider
<1>2. CASE near # {}
  <2>1. near \in SUBSET Nat /\ near \subseteq DOMAIN Providers
    BY ReportAssumption
  <2>2. \E i \in near : \A j \in near : i <= j
    BY <1>2, <2>1, OneIsFirst
  <2>3. (CHOOSE i \in near : \A j \in near : i <= j) \in DOMAIN Providers
    BY <2>1, <2>2
  <2>4. SimilarProvider(domain) = Providers[CHOOSE i \in near : \A j \in near : i <= j]
    BY <1>2 DEF SimilarProvider
  <2> HIDE DEF near
  <2> QED
    BY <2>3, <2>4
<1> QED
  BY <1>1, <1>2

\* Of the MX records one has the lowest preference and is the first with it, so
\* that the host is one of those the lookup gave.
LEMMA BestIsRecord ==
  ASSUME NEW records \in MxRecords
  PROVE  Best(records).exchange \in Exchanges
<1> DEFINE Before(i, j) == \/ records[i].preference < records[j].preference
                           \/ records[i].preference = records[j].preference /\ i <= j
           low == {i \in DOMAIN records : records[i].preference = 1}
<1>1. PICK n \in 1 .. MaxRecords :
        records \in [1 .. n -> [preference : 1 .. 2, exchange : Exchanges]]
  BY DEF MxRecords
<1>2. /\ DOMAIN records = 1 .. n /\ 1 \in DOMAIN records /\ DOMAIN records \in SUBSET Nat
      /\ \A i \in DOMAIN records : records[i].preference \in 1 .. 2
      /\ \A i \in DOMAIN records : records[i].exchange \in Exchanges
  BY <1>1, ReportAssumption
<1>3. \E i \in DOMAIN records : \A j \in DOMAIN records : Before(i, j)
  <2>1. CASE low # {}
    <3>1. PICK i \in low : \A j \in low : i <= j
      BY <1>2, <2>1, OneIsFirst
    <3>2. \A j \in DOMAIN records : Before(i, j)
      BY <1>2, <3>1
    <3> QED
      BY <3>1, <3>2
  <2>2. CASE low = {}
    <3>1. PICK i \in DOMAIN records : \A j \in DOMAIN records : i <= j
      BY <1>2, OneIsFirst
    <3>2. \A j \in DOMAIN records : records[j].preference = 2
      BY <1>2, <2>2
    <3> QED
      BY <3>1, <3>2
  <2> QED
    BY <2>1, <2>2
<1>4. Best(records) = records[CHOOSE i \in DOMAIN records : \A j \in DOMAIN records : Before(i, j)]
  BY DEF Best
<1> HIDE DEF Before
<1>5. (CHOOSE i \in DOMAIN records : \A j \in DOMAIN records : Before(i, j)) \in DOMAIN records
  BY <1>3
<1> QED
  BY <1>2, <1>4, <1>5

\* What the last step computes: the method, the verdict and what is logged.
LEMMA SmtpTypes ==
  /\ config \in Configs => \A p : MethodFor(p) \in {"Smtp", "Api", "Headless"}
  /\ \A misc, smtp : CalculateReachable(misc, smtp) \in Reachables
  /\ \A out : LogUnknownErrors(out) \in {Null, "MxError", "SmtpError"}
<1>1. config \in Configs => \A p : MethodFor(p) \in {"Smtp", "Api", "Headless"}
  BY DEF Configs, MethodFor
<1>2. \A misc, smtp : CalculateReachable(misc, smtp) \in Reachables
  BY DEF CalculateReachable, Reachables
<1>3. \A out : LogUnknownErrors(out) \in {Null, "MxError", "SmtpError"}
  BY DEF LogUnknownErrors
<1> QED
  BY <1>1, <1>2, <1>3

LEMMA TypeStep == Sound /\ Shape /\ TypeOK /\ [Next]_vars => TypeOK'
<1> SUFFICES ASSUME Sound, Shape, TypeOK, [Next]_vars PROVE TypeOK'
  OBVIOUS
<1> DEFINE Suggestions == {Null} \cup {Providers[i] : i \in DOMAIN Providers}
<1>0. /\ DOMAIN output = {"is_reachable", "misc", "mx", "smtp", "syntax", "method"}
      /\ "suggestion" \in DOMAIN output.syntax
      /\ output.is_reachable \in Reachables /\ output.syntax.suggestion \in Suggestions
      /\ output.method \in {"Skipped", "Smtp", "Api", "Headless"}
  BY DEF Sound, Stage, Shape, DefaultOutput, NoSyntax, TypeOK
<1>1. Suggest(output.syntax).suggestion \in Suggestions
  BY <1>0, SimilarIsProvider DEF Suggest
<1>2. CASE CheckSyntax
  <2>1. /\ email' = email /\ config' = config /\ host' = host /\ logged' = logged
        /\ step' \in Steps
    BY <1>2 DEF CheckSyntax, GoOn, Return, Steps
  <2>2. CASE output' = [output EXCEPT !.syntax = Syntax]
    BY <1>0, <2>1, <2>2 DEF TypeOK, Syntax
  <2>3. CASE output' = [DefaultOutput EXCEPT !.is_reachable = "invalid"]
    BY <2>1, <2>3 DEF TypeOK, DefaultOutput, NoSyntax, Reachables
  <2> QED
    BY <1>2, <2>2, <2>3 DEF CheckSyntax, Return
<1>3. CASE CheckMx
  <2>1. CASE Return([output EXCEPT !.mx = [error |-> "ResolveError"], !.syntax = Suggest(@)])
             /\ UNCHANGED logged
    <3>1. /\ output' = [output EXCEPT !.mx = [error |-> "ResolveError"], !.syntax = Suggest(@)]
          /\ UNCHANGED <<email, config, host, logged>> /\ step' \in Steps
      BY <2>1 DEF Return, Steps
    <3>2. /\ output'.syntax = Suggest(output.syntax) /\ output'.method = output.method
          /\ output'.is_reachable = output.is_reachable
      BY <1>0, <3>1
    <3> QED
      BY <1>0, <1>1, <3>1, <3>2 DEF TypeOK
  <2>2. CASE Return([output EXCEPT !.is_reachable = "invalid", !.syntax = Suggest(@)])
             /\ UNCHANGED logged
    <3>1. /\ output' = [output EXCEPT !.is_reachable = "invalid", !.syntax = Suggest(@)]
          /\ UNCHANGED <<email, config, host, logged>> /\ step' \in Steps
      BY <2>2 DEF Return, Steps
    <3>2. /\ output'.syntax = Suggest(output.syntax) /\ output'.method = output.method
          /\ output'.is_reachable = "invalid"
      BY <1>0, <3>1
    <3> QED
      BY <1>0, <1>1, <3>1, <3>2 DEF TypeOK, Reachables
  <2>3. ASSUME NEW records \in MxRecords, output' = [output EXCEPT !.mx = Mx(records)],
               host' = Best(records).exchange, GoOn("misc")
        PROVE  TypeOK'
    <3>1. /\ output'.syntax = output.syntax /\ output'.method = output.method
          /\ output'.is_reachable = output.is_reachable
      BY <1>0, <2>3
    <3> QED
      BY <2>3, <3>1, BestIsRecord DEF TypeOK, GoOn, Steps
  <2> QED
    BY <1>3, <2>1, <2>2, <2>3 DEF CheckMx
<1>4. CASE CheckMisc
  <2>1. /\ output'.syntax = output.syntax /\ output'.method = output.method
        /\ output'.is_reachable = output.is_reachable
    BY <1>0, <1>4 DEF CheckMisc
  <2> QED
    BY <1>4, <2>1 DEF CheckMisc, TypeOK, GoOn, Steps
<1>5. CASE CheckSmtp
  <2> DEFINE method == MethodFor(FromMxHost(host))
  <2>1. PICK smtp :
          LET out == [output EXCEPT !.is_reachable = CalculateReachable(output.misc, smtp),
                                    !.smtp = smtp, !.method = method,
                                    !.syntax = IF IsErr(smtp) THEN Suggest(@) ELSE @]
          IN  Return(out) /\ logged' = LogUnknownErrors(out)
    BY <1>5 DEF CheckSmtp
  <2>2. method \in {"Smtp", "Api", "Headless"}
    BY SmtpTypes DEF TypeOK
  <2> HIDE DEF method
  <2>3. /\ output'.syntax = IF IsErr(smtp) THEN Suggest(output.syntax) ELSE output.syntax
        /\ output'.method = method
        /\ output'.is_reachable = CalculateReachable(output.misc, smtp)
        /\ UNCHANGED <<email, config, host>> /\ step' \in Steps
    BY <1>0, <2>1 DEF Return, Steps
  <2>4. output'.is_reachable \in Reachables /\ logged' \in {Null, "MxError", "SmtpError"}
    BY <2>1, <2>3, SmtpTypes
  <2> QED
    BY <1>0, <1>1, <2>2, <2>3, <2>4 DEF TypeOK
<1>6. CASE Export
  BY <1>6 DEF Export, TypeOK, Steps
<1>7. CASE UNCHANGED vars
  BY <1>7 DEF vars, TypeOK
<1> QED
  BY <1>2, <1>3, <1>4, <1>5, <1>6, <1>7 DEF Next

\* Every part of a report is of its type: the host is one of the MX records
\* that were found, a suggestion is in the list, the verdict one of four.
THEOREM TypeCorrect == Spec => []TypeOK
<1>1. Init => TypeOK
  <2> SUFFICES ASSUME Init PROVE TypeOK
    OBVIOUS
  <2>1. /\ output.is_reachable = "unknown" /\ output.method = "Skipped"
        /\ output.syntax.suggestion = Null
    BY DEF Init, DefaultOutput, NoSyntax
  <2> QED
    BY <2>1 DEF Init, TypeOK, Steps, Reachables
<1> QED
  BY <1>1, SoundInit, SoundNext, ShapeInit, ShapeNext, TypeStep, PTL DEF Spec
=============================================================================
