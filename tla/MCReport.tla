------------------------------ MODULE MCReport ------------------------------
(* Values for model checking Report: three providers in the order of the   *)
(* list, and the Levenshtein distances of five domains to them.            *)
EXTENDS Report

MCDomains == {"gmail.com", "yahoo.com", "hotmail.com", "otmail.com", "example.org"}
MCProviders == <<"gmail.com", "yahoo.com", "hotmail.com">>

\* Rows: the domain; columns: gmail.com, yahoo.com, hotmail.com.
Table ==
  [d \in MCDomains |->
     CASE d = "gmail.com"   -> <<0, 5, 3>>
       [] d = "yahoo.com"   -> <<5, 0, 5>>
       [] d = "hotmail.com" -> <<3, 5, 0>>
       [] d = "otmail.com"  -> <<2, 5, 1>>
       [] OTHER             -> <<9, 9, 9>>]

MCDistance ==
  [d \in MCDomains |-> [p \in MCDomains |->
     IF \E i \in DOMAIN MCProviders : MCProviders[i] = p
     THEN Table[d][CHOOSE i \in DOMAIN MCProviders : MCProviders[i] = p] ELSE 9]]
=============================================================================
