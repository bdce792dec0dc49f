--------------------------- MODULE MCAmortization ---------------------------
(***************************************************************************)
(* Loans of up to four instalments; three decimals are kept and one of     *)
(* them is shown, so that a third of anything has to be rounded twice.     *)
(***************************************************************************)
EXTENDS Amortization

MCPrincipals == {7, 10}
MCRates == {0, 12000}
MCCharges ==
  { <<0, "fixed", "upfront">>, <<500, "fixed", "upfront">>, <<500, "fixed", "installment">>,
    <<5000, "percentage", "installment">>, <<101000, "percentage", "upfront">> }

(* A charge above the whole is asked for in a quote only. *)
MCApplication ==
  { [principal |-> p, rate |-> r, rateType |-> t, frequency |-> f, tenor |-> n,
     moratorium |-> m, period |-> g, charge |-> c[1], chargeType |-> c[2], chargeTime |-> c[3]] :
      p \in MCPrincipals, r \in MCRates, t \in {"flat", "declining_balance"},
      f \in {"daily", "quarterly", "yearly"}, n \in 1..4, m \in Moratorium, g \in 0..2,
      c \in MCCharges }

(* Powers of five factors do not fit TLC's integers: four instalments have a grace. *)
MCSmall == {a \in MCApplication : a.tenor - a.period <= 3}
=============================================================================
