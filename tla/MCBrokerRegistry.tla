--------------------------- MODULE MCBrokerRegistry ---------------------------
(* Small instances of BrokerRegistry for TLC.                              *)
EXTENDS BrokerRegistry

\* Profiles are interchangeable, so the first host may belong to any one.
OneFirst == LET first == CHOOSE f \in Profiles : TRUE
            IN {o \in [Host -> Profiles] : o[1] = first}
=============================================================================
