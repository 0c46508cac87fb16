----------------------------- MODULE MCLtpSpan -----------------------------
(* Instances of LtpSpan for TLC: what the clients send.                     *)
EXTENDS LtpSpan, TLC

CONSTANTS a, b

Red(svc) == [svc |-> svc, red |-> 1, len |-> 1]
Green(svc) == [svc |-> svc, red |-> 0, len |-> 1]
Mixed(svc) == [svc |-> svc, red |-> 1, len |-> 2]

\* One client mixes colours, the other, of another service, sends red data.
Traffic == a :> {Red(1), Mixed(1)} @@ b :> {Red(2), Green(2)}
Sends == a :> 2 @@ b :> 1
=============================================================================
