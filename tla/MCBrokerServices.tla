-------------------------- MODULE MCBrokerServices --------------------------
(* A small instance of BrokerServices for TLC. *)
EXTENDS BrokerServices

Sdk(v) == [name |-> "lib", version |-> v]

\* A file without packages, one that lists a package twice in two spellings, and one more.
Listed == [a |-> <<>>, b |-> <<Sdk(NoVersion), Sdk("0.0.0")>>, c |-> <<Sdk("1.0.0")>>]

Bin(n, w, c, u) == [id |-> n, weight |-> w, customized |-> c, unstable |-> u, platform |-> "linux"]

\* Stable and test versions, and a newer one of another customisation.
SomeBins == {Bin(1, 1, "", FALSE), Bin(2, 2, "", FALSE), Bin(3, 3, "", TRUE), Bin(4, 3, "x", FALSE)}
SomeAgents == {Bin(0, 1, "", FALSE), Bin(0, 3, "", TRUE)}
=============================================================================
