----------------------------- MODULE MCDnsProxy -----------------------------
(* Instances of DnsProxy for TLC. *)
EXTENDS DnsProxy, TLC

CONSTANTS q1, q2

\* Enough of one stream to go around the ring buffer, while the other is there.
MCStreamLength == [client |-> 4, server |-> 1]

=============================================================================
