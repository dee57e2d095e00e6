------------------------- MODULE VerifMethodProofs -------------------------
(***************************************************************************)
(* That proxies are honoured, for every set of proxy names, every bound on *)
(* the overrides, and every configuration and request.                     *)
(***************************************************************************)
EXTENDS VerifMethod, TLAPS

\* What a provider's method depends on: the method in use is the one of the
\* configuration, or the one built for the last request; and the backend serves
\* only a configuration whose proxies it validated.
Source ==
  /\ config \in Configs
  /\ request \in Requests
  /\ method = GetVerifMethod(config) \/ method = ToCheckEmailInput(config, request)
  /\ request.proxy => method = ToCheckEmailInput(config, request)
  /\ pc = "starting" => method = GetVerifMethod(config)
  /\ pc = "serving" => ValidateProxies(GetVerifMethod(config))

\* Every proxy a method can look up is a proxy (get_verif_method and
\* new_with_same_config_for_all insert nothing else).
LEMMA ConfigProxies ==
  ASSUME NEW c \in Configs, NEW id \in DOMAIN GetVerifMethod(c).proxies
  PROVE  GetVerifMethod(c).proxies[id] # NoProxy
<1>1. c.proxies \subseteq Ids
  BY DEF Configs
<1>2. "top" # NoProxy
  BY VerifMethodAssumption
<1>3. id \in c.proxies \cup (IF c.top THEN {DefaultId} ELSE {})
  BY DEF GetVerifMethod
<1>4. GetVerifMethod(c).proxies[id] = IF c.top /\ id = DefaultId THEN "top" ELSE id
  BY <1>3 DEF GetVerifMethod
<1> QED
  BY <1>1, <1>2, <1>3, <1>4, VerifMethodAssumption

\* A method that validate_proxies accepts gives a proxy to every provider of
\* the five it looks at that has one configured.
LEMMA ValidatedIsFound ==
  ASSUME NEW c \in Configs, ValidateProxies(GetVerifMethod(c)),
         NEW p \in Providers \ {"mimecast", "proofpoint"},
         GetVerifMethod(c).of[p].kind = "smtp",
         GetVerifMethod(c).of[p].proxy # NoProxy
  PROVE  GetProxy(GetVerifMethod(c), p) # NoProxy
<1> DEFINE m == GetVerifMethod(c)
<1>1. p \in {"gmail", "hotmailb2b", "hotmailb2c", "yahoo", "everything_else"}
  BY DEF Providers, SmtpOnly
<1>2. Resolves(m, p)
  BY <1>1 DEF ValidateProxies
<1>3. m.of[p].proxy \in DOMAIN m.proxies
  BY <1>2 DEF Resolves
<1>4. m.proxies[m.of[p].proxy] # NoProxy
  BY <1>3, ConfigProxies
<1>5. GetProxy(m, p) = m.proxies[m.of[p].proxy]
  <2> HIDE DEF m
  <2> QED
    BY <1>3 DEF GetProxy, m
<1> QED
  BY <1>4, <1>5

\* A provider's method for a request with a proxy: SMTP through the request's
\* proxy, or no SMTP.
LEMMA RequestMethod ==
  ASSUME NEW c, NEW r \in Requests, r.proxy, NEW p \in Providers,
         ToCheckEmailInput(c, r).of[p].kind = "smtp"
  PROVE  GetProxy(ToCheckEmailInput(c, r), p) = "body"
<1> DEFINE m == ToCheckEmailInput(c, r)
<1>1. m.proxies = [id \in {DefaultId} |-> "body"]
  BY DEF ToCheckEmailInput, SameConfigForAll
<1>2. m.of[p] = IF p = "yahoo" /\ r.yahoo # "unset" THEN BackwardCompat(r.yahoo, TRUE)
                ELSE IF p = "hotmailb2c" /\ r.hotmailb2c # "unset"
                     THEN BackwardCompat(r.hotmailb2c, TRUE)
                     ELSE Fallback(p, DefaultId)
  BY DEF ToCheckEmailInput, SameConfigForAll, Providers, SmtpOnly, Requests
<1>3. ASSUME NEW k \in {"unset", "api", "headless", "smtp"},
             BackwardCompat(k, TRUE).kind = "smtp"
      PROVE  BackwardCompat(k, TRUE).proxy = DefaultId
  BY <1>3 DEF BackwardCompat, Smtp, Headless, Api
<1>4. r.yahoo \in {"unset", "api", "headless", "smtp"}
      /\ r.hotmailb2c \in {"unset", "api", "headless", "smtp"}
  BY DEF Requests
<1>5. Fallback(p, DefaultId).kind = "smtp" => Fallback(p, DefaultId).proxy = DefaultId
  BY DEF Fallback, Smtp, Headless
<1>6. m.of[p].proxy = DefaultId
  BY <1>2, <1>3, <1>4, <1>5
<1> HIDE DEF m
<1> QED
  BY <1>1, <1>6 DEF GetProxy, m

\* A provider's method for a request without a proxy is the configuration's, or
\* one without a proxy.
LEMMA ConfigMethod ==
  ASSUME NEW c, NEW r \in Requests, ~ r.proxy, NEW p \in Providers,
         ToCheckEmailInput(c, r).of[p].proxy # NoProxy
  PROVE  /\ ToCheckEmailInput(c, r).of[p] = GetVerifMethod(c).of[p]
         /\ ToCheckEmailInput(c, r).proxies = GetVerifMethod(c).proxies
<1> DEFINE m == ToCheckEmailInput(c, r)
           g == GetVerifMethod(c)
<1>1. m.proxies = g.proxies
  BY DEF ToCheckEmailInput, GetVerifMethod
<1>2. m.of[p] = IF p = "yahoo" /\ r.yahoo # "unset" THEN BackwardCompat(r.yahoo, FALSE)
                ELSE IF p = "hotmailb2c" /\ r.hotmailb2c # "unset"
                     THEN BackwardCompat(r.hotmailb2c, FALSE)
                     ELSE g.of[p]
  BY DEF ToCheckEmailInput, GetVerifMethod, Providers, SmtpOnly, Requests
<1>3. ASSUME NEW k PROVE BackwardCompat(k, FALSE).proxy = NoProxy
  BY DEF BackwardCompat, Smtp, Headless, Api
<1> QED
  BY <1>1, <1>2, <1>3

-----------------------------------------------------------------------------

\* The source of the method in use is the configuration that was validated, or
\* the last request: nothing between load_config and the check changes it.
LEMMA SourceKept == Spec => []Source
<1>1. Init => Source
  BY DEF Init, Source, Requests, NoRequest
<1>2. Source /\ [Next]_vars => Source'
  <2> SUFFICES ASSUME Source, [Next]_vars PROVE Source'
    OBVIOUS
  <2>1. CASE LoadConfig
    BY <2>1 DEF Source, LoadConfig
  <2>2. ASSUME NEW r \in Requests, Serve(r) PROVE Source'
    BY <2>2 DEF Source, Serve
  <2>3. CASE UNCHANGED vars
    BY <2>3 DEF Source, vars
  <2> QED
    BY <2>1, <2>2, <2>3 DEF Next
<1> QED
  BY <1>1, <1>2, PTL DEF Spec

\* A request that brings a proxy reaches SMTP servers through that proxy only,
\* whatever the configuration (RequestProxyUsed; to_check_email_input).
THEOREM RequestProxyAlwaysUsed == Spec => []RequestProxyUsed
<1>1. Source => RequestProxyUsed
  BY RequestMethod DEF Source, RequestProxyUsed
<1> QED
  BY <1>1, SourceKept, PTL

\* Once load_config accepted the configuration, a proxy that is named is used,
\* for the five providers validate_proxies looks at (ProxyHonoured; load_config,
\* get_verif_method, get_proxy).
THEOREM ProxyAlwaysHonoured == Spec => []ProxyHonoured
<1>1. Source => ProxyHonoured
  <2> SUFFICES ASSUME Source, pc = "serving",
                      NEW p \in Providers \ {"mimecast", "proofpoint"},
                      method.of[p].kind = "smtp", method.of[p].proxy # NoProxy
               PROVE  GetProxy(method, p) # NoProxy
    BY DEF ProxyHonoured
  <2>1. CASE method = GetVerifMethod(config)
    BY <2>1, ValidatedIsFound DEF Source
  <2>2. CASE method = ToCheckEmailInput(config, request) /\ request.proxy
    <3>1. GetProxy(method, p) = "body"
      BY <2>2, RequestMethod DEF Source
    <3> QED
      BY <3>1, VerifMethodAssumption
  <2>3. CASE method = ToCheckEmailInput(config, request) /\ ~ request.proxy
    <3>1. method.of[p] = GetVerifMethod(config).of[p]
          /\ method.proxies = GetVerifMethod(config).proxies
      BY <2>3, ConfigMethod DEF Source
    <3>2. GetProxy(GetVerifMethod(config), p) # NoProxy
      BY <3>1, ValidatedIsFound DEF Source
    <3> QED
      BY <3>1, <3>2 DEF GetProxy
  <2> QED
    BY <2>1, <2>2, <2>3 DEF Source
<1> QED
  BY <1>1, SourceKept, PTL

\* What a configuration or a request turns into has a method the provider knows
\* for each provider, and no proxies but configured ones.
Known(m) ==
  /\ \A p \in Providers : m.of[p] \in Options(p) \ {Unset}
  /\ \A id \in DOMAIN m.proxies : m.proxies[id] \in Ids \cup {"top", "body"}

\* The default method is one that every provider knows.
LEMMA FallbackKnown ==
  ASSUME NEW p \in Providers, NEW id \in Ids \cup {NoProxy}
  PROVE  Fallback(p, id) \in Options(p) \ {Unset}
<1>1. Smtp(id) \in SmtpKinds
  BY DEF SmtpKinds
<1>2. Smtp(id) # Unset /\ Headless # Unset
  BY DEF Smtp, Headless, Unset
<1>3. p \in SmtpOnly \/ p \in {"yahoo", "hotmailb2c"}
  BY DEF Providers
<1>4. p \in SmtpOnly => Fallback(p, id) = Smtp(id)
  BY DEF Fallback
<1>5. p \in {"yahoo", "hotmailb2c"} => Fallback(p, id) = Headless
  BY DEF Fallback, SmtpOnly
<1> QED
  BY <1>1, <1>2, <1>3, <1>4, <1>5 DEF Options, SmtpOnly

LEMMA ConfigKnown == ASSUME NEW c \in Configs PROVE Known(GetVerifMethod(c))
<1> DEFINE m == GetVerifMethod(c)
<1>1. ASSUME NEW p \in Providers PROVE m.of[p] \in Options(p) \ {Unset}
  <2>1. CASE p \in Overridable /\ c.overrides[p] # Unset
    <3>1. c.overrides[p] \in Options(p)
      BY <2>1 DEF Configs, Overrides
    <3>2. m.of[p] = c.overrides[p]
      BY <2>1 DEF GetVerifMethod
    <3> QED
      BY <2>1, <3>1, <3>2
  <2>2. CASE ~ (p \in Overridable /\ c.overrides[p] # Unset)
    <3>1. m.of[p] = Fallback(p, IF c.top THEN DefaultId ELSE NoProxy)
      BY <2>2 DEF GetVerifMethod
    <3> QED
      BY <3>1, FallbackKnown, VerifMethodAssumption
  <2> QED
    BY <2>1, <2>2
<1>2. ASSUME NEW id \in DOMAIN m.proxies PROVE m.proxies[id] \in Ids \cup {"top", "body"}
  BY <1>2, VerifMethodAssumption DEF GetVerifMethod, Configs
<1> QED
  BY <1>1, <1>2 DEF Known

LEMMA RequestKnown ==
  ASSUME NEW c \in Configs, NEW r \in Requests PROVE Known(ToCheckEmailInput(c, r))
<1> DEFINE base == IF r.proxy THEN SameConfigForAll ELSE GetVerifMethod(c)
           m == ToCheckEmailInput(c, r)
<1>1. Known(base)
  <2>1. ASSUME NEW p \in Providers PROVE SameConfigForAll.of[p] \in Options(p) \ {Unset}
    BY FallbackKnown, VerifMethodAssumption DEF SameConfigForAll
  <2>2. Known(SameConfigForAll)
    BY <2>1 DEF Known, SameConfigForAll
  <2> QED
    BY <2>2, ConfigKnown
<1>2. m.proxies = base.proxies
  BY DEF ToCheckEmailInput, SameConfigForAll, GetVerifMethod
<1>3. ASSUME NEW p \in Providers
      PROVE  m.of[p] = IF p = "yahoo" /\ r.yahoo # "unset" THEN BackwardCompat(r.yahoo, r.proxy)
                       ELSE IF p = "hotmailb2c" /\ r.hotmailb2c # "unset"
                            THEN BackwardCompat(r.hotmailb2c, r.proxy)
                            ELSE base.of[p]
  BY DEF ToCheckEmailInput, SameConfigForAll, GetVerifMethod, Providers, SmtpOnly
<1>4. ASSUME NEW b \in BOOLEAN
      PROVE  /\ BackwardCompat("smtp", b) \in SmtpKinds
             /\ BackwardCompat("headless", b) = Headless
             /\ BackwardCompat("api", b) = Api
  BY VerifMethodAssumption DEF BackwardCompat, SmtpKinds
<1>5. Unset \notin SmtpKinds /\ Headless # Unset /\ Api # Unset
  BY DEF SmtpKinds, Smtp, Headless, Api, Unset
<1>6. /\ r.yahoo \in {"unset", "api", "headless", "smtp"} /\ r.proxy \in BOOLEAN
      /\ r.hotmailb2c \in {"unset", "headless", "smtp"}
  BY DEF Requests
<1>7. ASSUME NEW p \in Providers PROVE m.of[p] \in Options(p) \ {Unset}
  <2>1. CASE p = "yahoo" /\ r.yahoo # "unset"
    BY <1>3, <1>4, <1>5, <1>6, <2>1 DEF Options
  <2>2. CASE p = "hotmailb2c" /\ r.hotmailb2c # "unset"
    BY <1>3, <1>4, <1>5, <1>6, <2>2 DEF Options
  <2>3. CASE ~ (p = "yahoo" /\ r.yahoo # "unset") /\ ~ (p = "hotmailb2c" /\ r.hotmailb2c # "unset")
    BY <1>1, <1>3, <2>3 DEF Known
  <2> QED
    BY <2>1, <2>2, <2>3
<1> HIDE DEF m, base
<1> QED
  BY <1>1, <1>2, <1>7 DEF Known, m

\* Whatever is configured and asked for, an email is verified with a method its
\* provider knows and through a proxy somebody configured, if any.
THEOREM TypeCorrect == Spec => []TypeOK
<1>1. Init => pc \in {"starting", "refused", "serving"}
  BY DEF Init
<1>2. pc \in {"starting", "refused", "serving"} /\ [Next]_vars
        => (pc \in {"starting", "refused", "serving"})'
  BY DEF Next, LoadConfig, Serve, vars
<1>3. Source /\ pc \in {"starting", "refused", "serving"} => TypeOK
  <2> SUFFICES ASSUME Source, pc \in {"starting", "refused", "serving"} PROVE TypeOK
    OBVIOUS
  <2>1. Known(method)
    BY ConfigKnown, RequestKnown DEF Source
  <2> QED
    BY <2>1 DEF Source, TypeOK, Known
<1> QED
  BY <1>1, <1>2, <1>3, SourceKept, PTL DEF Spec
=============================================================================
