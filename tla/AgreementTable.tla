--------------------------- MODULE AgreementTable ---------------------------
(***************************************************************************)
(* The states and edges of the agreement template fixed_outcome/v1, as the *)
(* conformance data lists them.                                            *)
(***************************************************************************)

AgreementStates ==
    {"PROPOSED", "COMMITTED", "FULFILLING", "DELIVERED", "REJECTED", "DISPUTED",
     "ACCEPTED", "RESOLVED", "CANCELLED", "DEFAULTED", "EXPIRED"}

TerminalStates == {"ACCEPTED", "RESOLVED", "CANCELLED", "DEFAULTED", "EXPIRED"}

(* The legal edges.  The acceptance that commits a proposal is not one of  *)
(* them: it is an interaction, and opens the agreement.                    *)
Edges ==
    { <<"COMMITTED", "FULFILLING">>,    \* FUND_CONFIRMED
      <<"COMMITTED", "EXPIRED">>,       \* FUNDING_EXPIRED
      <<"FULFILLING", "DELIVERED">>,    \* delivered (seller)
      <<"FULFILLING", "DEFAULTED">>,    \* DELIVERY_MISSED
      <<"FULFILLING", "CANCELLED">>,    \* refund_consented (seller)
      <<"DELIVERED", "ACCEPTED">>,      \* accepted (buyer) or auto-confirm
      <<"DELIVERED", "REJECTED">>,      \* rejected (buyer)
      <<"DELIVERED", "CANCELLED">>,     \* refund_consented (seller)
      <<"REJECTED", "DISPUTED">>,       \* appealed (seller)
      <<"REJECTED", "CANCELLED">>,      \* refund_consented or APPEAL_RESPONSE_EXPIRED
      <<"DISPUTED", "RESOLVED">>,       \* arbiter_decided (arbiter)
      <<"DISPUTED", "CANCELLED">> }     \* ARBITRATION_EXPIRED
=============================================================================
