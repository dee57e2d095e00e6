----------------------------- MODULE VerifMethod -----------------------------
(***************************************************************************)
(* Which way an email is verified, and through which SOCKS5 proxy:         *)
(*   - backend/src/config.rs turns the configuration file into a           *)
(*     VerifMethod and checks its proxies when the backend starts;         *)
(*   - http/v0/check_email/post.rs turns a request into one, from the      *)
(*     configuration or, if the request names a proxy, from the request;   *)
(*   - core/src/smtp/verif_method.rs looks the provider's proxy up when    *)
(*     the email is checked.  A proxy that is not found means none.        *)
(***************************************************************************)
EXTENDS Integers, FiniteSets, Functions

CONSTANTS
  Ids,          \* names of proxies
  DefaultId,    \* DEFAULT_PROXY_ID, the name of the top-level and request proxy
  NoProxy,
  MaxOverrides  \* bound on the overridden providers of a configuration

ASSUME VerifMethodAssumption ==
  /\ DefaultId \in Ids
  /\ NoProxy \notin Ids
  /\ {"top", "body"} \cap (Ids \cup {NoProxy}) = {}
  /\ MaxOverrides \in Nat

VARIABLES
  config,   \* the configuration file
  pc,       \* "starting", "refused", "serving"
  request,  \* the last request served
  method    \* the VerifMethod it is verified with

vars == <<config, pc, request, method>>

\* The providers whose method is SMTP, or may be something else too.
SmtpOnly  == {"gmail", "hotmailb2b", "mimecast", "proofpoint", "everything_else"}
Providers == SmtpOnly \cup {"hotmailb2c", "yahoo"}
Overridable == Providers \ {"everything_else"}

\* A verification method: its kind, and for SMTP the name of its proxy.
Smtp(id)  == [kind |-> "smtp", proxy |-> id]
Headless  == [kind |-> "headless", proxy |-> NoProxy]
Api       == [kind |-> "api", proxy |-> NoProxy]
Unset     == [kind |-> "unset", proxy |-> NoProxy]
SmtpKinds == {Smtp(id) : id \in Ids \cup {NoProxy}}

Options(p) ==
  CASE p = "yahoo"      -> SmtpKinds \cup {Headless, Api, Unset}
    [] p = "hotmailb2c" -> SmtpKinds \cup {Headless, Unset}
    [] OTHER            -> SmtpKinds \cup {Unset}

Overrides ==
  {o \in [Overridable -> SmtpKinds \cup {Headless, Api, Unset}] :
     /\ \A p \in Overridable : o[p] \in Options(p)
     /\ Cardinality({p \in Overridable : o[p] # Unset}) <= MaxOverrides}

\* proxies: the named ones.  top: is the [proxy] section filled in.
Configs == [proxies : SUBSET Ids, top : BOOLEAN, overrides : Overrides]

\* proxy: does the request bring one.  The other two are the deprecated
\* fields yahoo_verif_method and hotmailb2c_verif_method.
Requests == [proxy : BOOLEAN,
             yahoo : {"unset", "api", "headless", "smtp"},
             hotmailb2c : {"unset", "headless", "smtp"}]

NoRequest == [proxy |-> FALSE, yahoo |-> "unset", hotmailb2c |-> "unset"]

-----------------------------------------------------------------------------
(* Building a VerifMethod: what each name stands for, and a method per     *)
(* provider.  A proxy is told apart by where it was defined.               *)

\* The default of a provider that is not overridden.
Fallback(p, id) == IF p \in SmtpOnly THEN Smtp(id) ELSE Headless

\* The [proxy] section is inserted last, over a named proxy of that name.
GetVerifMethod(c) ==
  [proxies |-> [id \in c.proxies \cup (IF c.top THEN {DefaultId} ELSE {}) |->
                  IF c.top /\ id = DefaultId THEN "top" ELSE id],
   of |-> [p \in Providers |->
             IF p \in Overridable /\ c.overrides[p] # Unset THEN c.overrides[p]
             ELSE Fallback(p, IF c.top THEN DefaultId ELSE NoProxy)]]

\* Bug: a provider added later is not given the request's proxy.
SameConfigForSome ==
  [proxies |-> [id \in {DefaultId} |-> "body"],
   of |-> [p \in Providers |->
             Fallback(p, IF p = "proofpoint" THEN NoProxy ELSE DefaultId)]]

\* new_with_same_config_for_all, for a request that brings a proxy.  Yahoo
\* and Hotmail B2C keep their default.
SameConfigForAll ==
  [proxies |-> [id \in {DefaultId} |-> "body"],
   of |-> [p \in Providers |-> Fallback(p, DefaultId)]]

\* to_yahoo_verif_method and to_hotmailb2c_verif_method.
BackwardCompat(kind, useDefaultProxy) ==
  CASE kind = "smtp"     -> Smtp(IF useDefaultProxy THEN DefaultId ELSE NoProxy)
    [] kind = "headless" -> Headless
    [] OTHER             -> Api

\* to_check_email_input.
ToCheckEmailInput(c, r) ==
  LET base == IF r.proxy THEN SameConfigForAll ELSE GetVerifMethod(c) IN
  [base EXCEPT
     !.of["yahoo"] = IF r.yahoo = "unset" THEN @ ELSE BackwardCompat(r.yahoo, r.proxy),
     !.of["hotmailb2c"] =
       IF r.hotmailb2c = "unset" THEN @ ELSE BackwardCompat(r.hotmailb2c, r.proxy)]

\* get_proxy: an unknown name gives no proxy, and a direct connection.
GetProxy(m, p) ==
  LET id == m.of[p].proxy IN
  IF m.of[p].kind = "smtp" /\ id \in DOMAIN m.proxies THEN m.proxies[id] ELSE NoProxy

\* Does the name of p's proxy, if there is one, stand for a proxy.
Resolves(m, p) ==
  m.of[p].kind = "smtp" /\ m.of[p].proxy # NoProxy => m.of[p].proxy \in DOMAIN m.proxies

\* Bug: a provider is forgotten.
ValidateFewer(m) ==
  \A p \in {"gmail", "hotmailb2c", "yahoo", "everything_else"} : Resolves(m, p)

\* validate_proxies looks at these five providers.
ValidateProxies(m) ==
  \A p \in {"gmail", "hotmailb2b", "hotmailb2c", "yahoo", "everything_else"} :
    Resolves(m, p)

-----------------------------------------------------------------------------

Init ==
  /\ config \in Configs
  /\ pc = "starting"
  /\ request = NoRequest
  /\ method = GetVerifMethod(config)

\* load_config: the backend starts, or it refuses the configuration.
LoadConfig ==
  /\ pc = "starting"
  /\ pc' = IF ValidateProxies(method) THEN "serving" ELSE "refused"
  /\ UNCHANGED <<config, request, method>>

\* A request of /v0/check_email or /v1/check_email; a task of /v1/bulk is a
\* request with nothing but the email.
Serve(r) ==
  /\ pc = "serving"
  /\ request' = r
  /\ method' = ToCheckEmailInput(config, r)
  /\ UNCHANGED <<config, pc>>

Next == LoadConfig \/ \E r \in Requests : Serve(r)

Spec == Init /\ [][Next]_vars

-----------------------------------------------------------------------------
(* Properties.                                                             *)

\* Type invariant: each provider has a method it knows, and every proxy that
\* can be looked up is one that somebody configured.
TypeOK ==
  /\ config \in Configs
  /\ pc \in {"starting", "refused", "serving"}
  /\ request \in Requests
  /\ \A p \in Providers : method.of[p] \in Options(p) \ {Unset}
  /\ \A id \in DOMAIN method.proxies : method.proxies[id] \in Ids \cup {"top", "body"}

\* A backend that started never verifies an email directly where its
\* configuration or the request names a proxy, whichever of the two the method
\* came from; for the providers validate_proxies looks at.
ProxyHonoured ==
  pc = "serving" =>
    \A p \in Providers \ {"mimecast", "proofpoint"} :
      method.of[p].kind = "smtp" /\ method.of[p].proxy # NoProxy
        => GetProxy(method, p) # NoProxy

\* A request that brings a proxy reaches SMTP servers through that proxy only,
\* not through one of the configuration and not directly.
RequestProxyUsed ==
  request.proxy =>
    \A p \in Providers : method.of[p].kind = "smtp" => GetProxy(method, p) = "body"

\* config.rs: "for each email provider's verification method, the proxy (if
\* set) must exist in the proxies field" once load_config returned.
AcceptedResolves == pc = "serving" => \A p \in Providers : Resolves(method, p)

\* post.rs: "If the proxy field is present, we force use the proxy for all the
\* verifications."
ForcedForAll ==
  request.proxy => \A p \in Providers : GetProxy(method, p) = "body"

\* backend_config.toml: [proxy] is there "to route all SMTP verification
\* requests through a specified proxy".  Providers that an override sends
\* another way aside.
TopProxyForAll ==
  config.top /\ pc = "serving" =>
    \A p \in Providers :
      (p \in Overridable => config.overrides[p] = Unset)
        /\ method.of[p].kind = "smtp" => GetProxy(method, p) # NoProxy
=============================================================================
