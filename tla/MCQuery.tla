------------------------------ MODULE MCQuery ------------------------------
(* Instances of Query for TLC.                                              *)
EXTENDS Query, TLC

CONSTANTS here, away, isp, slow, stub

aws == <<"aws", "doze">>
sqs == <<"sqs", "aws", "doze">>
acme == <<"acme", "com">>
any == <<"*", "acme", "com">>
app == <<"dev", "acme", "com">>

Names == {aws, sqs, any, app}
Hosts == {sqs, app}
Wants == {[c \in {here, away} |-> IF c = here THEN h ELSE app] : h \in Hosts}
Tiers == sqs :> "qualified" @@ aws :> "apex" @@ any :> "domain" @@ app :> "domain"

R(type, ttl, data) == [name |-> <<Pointer, 1>>, type |-> type, ttl |-> ttl, data |-> data]
Chain == <<R(5, 9, <<1, 1, 0>>), [R(1, 3, <<7>>) EXCEPT !.name = <<1, 1, 0>>]>>
Short == <<R(1, 1, <<7>>)>>

Lists == {<<stub>>, <<slow, isp>>}
Answers ==
  isp :> {[records |-> Chain, cut |-> k] : k \in {0, 1, 3, 5, 9, 12}}
         \cup {[records |-> Short, cut |-> k] : k \in {0, 2}}
  @@ slow :> {} @@ stub :> {}

=============================================================================
