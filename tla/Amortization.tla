---------------------------- MODULE Amortization ----------------------------
(***************************************************************************)
(* calculateLoanRepayment: how the instalments of a loan are worked out,   *)
(* for a quote, for the view of a loan that is not paid out yet, and for   *)
(* the schedule a disbursement stores.  Amounts are decimal strings in the *)
(* code, rounded half to even after every operation; here they are integers *)
(* that count the last decimal kept, Scale of them to a major unit.        *)
(***************************************************************************)
EXTENDS Integers, Sequences, Functions

CONSTANTS
  Scale,        \* 10^DP: the resolution of the calculator, 10^20 in the source
  Minor,        \* minor units of a major unit, 100 in the source
  Application,  \* the terms loans are asked for
  Accuracy      \* the rounding of a calculation adds up to less than this part of the principal

Frequency == {"daily", "weekly", "bi_weekly", "quarterly", "monthly", "yearly"}
Moratorium == {"none", "principal_only", "principal_and_interest"}
Caller == {"quote", "preview", "disburse"}

(* The principal counts minor units; rate and charge are scaled, the rate and a
   percentage charge in percent. *)
Terms ==
  [principal : Nat, rate : Nat, rateType : {"flat", "declining_balance"},
   frequency : Frequency, tenor : Nat \ {0}, moratorium : Moratorium, period : Nat,
   charge : Nat, chargeType : {"fixed", "percentage"}, chargeTime : {"upfront", "installment"}]

ASSUME AmortizationAssumption ==
  /\ Scale \in Nat \ {0}
  /\ Minor \in Nat \ {0}
  /\ Scale % Minor = 0
  /\ Application \subseteq Terms
  /\ Accuracy \in Nat

VARIABLES
  caller,         \* who asks for the calculation
  loan,           \* the terms of the loan
  phase,          \* "asked", "loop", "returned", "stored" or "refused"
  balance,        \* the principal not repaid yet
  totalInterest,
  schedules,      \* the instalments worked out so far
  stored,         \* loan_schedules as the disbursement writes them
  repaid          \* history: the principal in the instalments so far

vars == <<caller, loan, phase, balance, totalInterest, schedules, stored, repaid>>

-----------------------------------------------------------------------------
(* The calculator.                                                           *)
HalfEven(n, d) ==
  LET q == n \div d  r == n % d IN
  IF 2 * r > d \/ (2 * r = d /\ q % 2 = 1) THEN q + 1 ELSE q

Multiply(a, b) == HalfEven(a * b, Scale)
Divide(a, b)   == HalfEven(a * Scale, b)
ToMinor(a)     == HalfEven(a * Minor, Scale)

Power(b, n) == LET power[i \in 0..n] == IF i = 0 THEN 1 ELSE b * power[i - 1] IN power[n]

(* What the callers hand over.  A quote passes all its fields in major units; the
   view of a loan passes the stored principal, in minor units, and no charge; both
   the view and the disbursement leave the rate type to its default. *)
Dto ==
  LET major == loan.principal * (Scale \div Minor) IN
  CASE caller = "quote"    -> [loan EXCEPT !.principal = major]
    [] caller = "preview"  -> [loan EXCEPT !.principal = @ * Scale, !.charge = 0,
                                           !.rateType = "declining_balance"]
    [] caller = "disburse" -> [loan EXCEPT !.principal = major,
                                           !.rateType = "declining_balance"]

PeriodsPerYear(f) ==
  CASE f = "weekly" -> 52 [] f = "bi_weekly" -> 26 [] f = "quarterly" -> 4
    [] f = "yearly" -> 1 [] OTHER -> 12

PeriodicRate == HalfEven(HalfEven(Dto.rate, 100), PeriodsPerYear(Dto.frequency))

ActiveTenor == Dto.tenor - Dto.period

Percent(c) == HalfEven(c, 100)
ChargeAmount ==
  IF Dto.chargeType = "percentage" THEN Multiply(Dto.principal, Percent(Dto.charge))
  ELSE Dto.charge

(* Mutant: the charge is spread over the grace period too. *)
ChargeOverAll == IF Dto.chargeTime = "installment" THEN HalfEven(ChargeAmount, Dto.tenor) ELSE 0

EmiCharge == IF Dto.chargeTime = "installment" THEN HalfEven(ChargeAmount, ActiveTenor) ELSE 0

(* CLR001 and CLR002. *)
Invalid ==
  \/ ActiveTenor <= 0
  \/ Dto.charge > 0 /\ Dto.chargeType = "percentage" /\ Dto.charge > 100 * Scale

(* The annuity of the code: p * r * (1 + r)^n / ((1 + r)^n - 1). *)
RatePow == HalfEven(Power(Scale + PeriodicRate, ActiveTenor), Power(Scale, ActiveTenor - 1))
Annuity ==
  Divide(HalfEven(Dto.principal * PeriodicRate * RatePow, Scale * Scale), RatePow - Scale)

(* Mutant: the grace period is counted among the instalments that repay. *)
ShareOfTenor == HalfEven(Dto.principal, Dto.tenor)

PrincipalShare == HalfEven(Dto.principal, ActiveTenor)
FlatInterest   == Multiply(Dto.principal, PeriodicRate)
Emi ==
  IF PeriodicRate = 0 THEN PrincipalShare
  ELSE IF Dto.rateType = "flat" THEN PrincipalShare + FlatInterest
  ELSE Annuity

-----------------------------------------------------------------------------
(* The loop over the instalments.                                            *)
Number == Len(schedules) + 1
IsMoratorium(i) == i <= Dto.period /\ Dto.moratorium # "none"

Interest ==
  IF Dto.rateType = "flat" THEN FlatInterest ELSE Multiply(balance, PeriodicRate)
Principal ==
  IF Dto.rateType = "flat" THEN PrincipalShare ELSE Emi - Interest

(* One instalment: its parts, what is paid besides the charge, and what is left. *)
Push(principal, interest, amount, charge, left) ==
  /\ phase = "loop"
  /\ balance' = left
  /\ totalInterest' = totalInterest + interest
  /\ schedules' = Append(schedules,
       [principal |-> principal, interest |-> interest, total |-> amount + charge,
        left |-> left, charge |-> charge])
  /\ repaid' = repaid + principal
  /\ UNCHANGED <<caller, loan, phase, stored>>

Grace ==
  LET interest == IF Dto.moratorium = "principal_and_interest" THEN 0 ELSE Interest IN
  /\ Number <= Dto.tenor
  /\ IsMoratorium(Number)
  /\ Push(0, interest, interest, 0, balance)

LeftAfter(principal) == IF balance < principal THEN 0 ELSE balance - principal

Instalment ==
  /\ Number < Dto.tenor
  /\ ~IsMoratorium(Number)
  /\ Push(Principal, Interest, Emi, EmiCharge, LeftAfter(Principal))

(* Mutant: the last instalment is like the others. *)
ShareAtTheEnd == Principal

PrincipalAtTheEnd == balance

LastInstalment ==
  /\ Number = Dto.tenor
  /\ ~IsMoratorium(Number)
  /\ Push(PrincipalAtTheEnd, Interest, PrincipalAtTheEnd + Interest, EmiCharge, 0)

-----------------------------------------------------------------------------
Refuse ==
  /\ phase = "asked"
  /\ Invalid
  /\ phase' = "refused"
  /\ UNCHANGED <<caller, loan, balance, totalInterest, schedules, stored, repaid>>

Begin ==
  /\ phase = "asked"
  /\ ~Invalid
  /\ phase' = "loop"
  /\ balance' = Dto.principal
  /\ UNCHANGED <<caller, loan, totalInterest, schedules, stored, repaid>>

Return ==
  /\ phase = "loop"
  /\ Number > Dto.tenor
  /\ phase' = "returned"
  /\ UNCHANGED <<caller, loan, balance, totalInterest, schedules, stored, repaid>>

(* Mutant: minor units are cut off. *)
CutOff(s) ==
  [principal |-> (s.principal * Minor) \div Scale, interest |-> (s.interest * Minor) \div Scale,
   total |-> (s.total * Minor) \div Scale]

(* The row of an instalment; charge_amount is not written and stays 0. *)
ScheduleRow(s) ==
  [principal |-> ToMinor(s.principal), interest |-> ToMinor(s.interest),
   total |-> ToMinor(s.total)]

Store ==
  /\ phase = "returned"
  /\ caller = "disburse"
  /\ phase' = "stored"
  /\ stored' = [i \in DOMAIN schedules |-> ScheduleRow(schedules[i])]
  /\ UNCHANGED <<caller, loan, balance, totalInterest, schedules, repaid>>

Init ==
  /\ caller \in Caller
  /\ loan \in Application
  /\ phase = "asked"
  /\ balance = 0
  /\ totalInterest = 0
  /\ schedules = <<>>
  /\ stored = <<>>
  /\ repaid = 0

Next == Refuse \/ Begin \/ Grace \/ Instalment \/ LastInstalment \/ Return \/ Store

Spec == Init /\ [][Next]_vars

-----------------------------------------------------------------------------
(* Properties.                                                               *)
Worked == phase \in {"loop", "returned", "stored"}

(* Terms whose grace period has a type, if there is one. *)
Regular == Dto.moratorium # "none" \/ Dto.period = 0

Charges     == SumFunction([i \in DOMAIN schedules |-> schedules[i].charge])
Totals      == SumFunction([i \in DOMAIN schedules |-> schedules[i].total])
StoredShare == SumFunction([i \in DOMAIN stored |-> stored[i].principal])
Distance(a, b) == IF a < b THEN b - a ELSE a - b

(* The schedule repays the principal exactly once and to the end, whatever the
   rounding, the rate type and the grace period (calculateLoanRepayment). *)
PrincipalRepaidOnce ==
  phase \in {"returned", "stored"} =>
    /\ balance = 0
    /\ schedules[Len(schedules)].left = 0
    /\ repaid >= Dto.principal
    /\ Regular => repaid = Dto.principal

(* What the borrower pays in the end is principal, interest and the charges by
   instalment; every instalment is the sum of its parts, and the charges come to
   the whole charge but for rounding. *)
InstalmentsAddUp ==
  /\ \A i \in DOMAIN schedules :
       LET e == schedules[i] IN e.total = e.principal + e.interest + e.charge
  /\ Worked => Totals = repaid + totalInterest + Charges
  /\ phase = "returned" /\ Regular /\ Dto.chargeTime = "installment"
       => 2 * Distance(Charges, ChargeAmount) <= ActiveTenor

(* The instalments are level: the last one, which takes what the rounding left over,
   differs from the one before it by no more than that rounding. An annuity worked out
   from the wrong number of instalments, or from the wrong rate, would show here. *)
LastLikeTheOthers ==
  phase = "returned" /\ Regular /\ ActiveTenor >= 2
    => Accuracy * Distance(schedules[Dto.tenor].total, schedules[Dto.tenor - 1].total) < Dto.principal

(* The stored rows are rounded one by one. The principal of the rows stays within half
   a unit per row of what was paid out, and, without a charge, a row's total within one
   unit of its parts (disburseLoan). *)
StoredAddsUp ==
  phase = "stored" =>
    /\ Regular => 2 * Distance(StoredShare, loan.principal) <= ActiveTenor
    /\ EmiCharge = 0 =>
         \A i \in DOMAIN stored :
           Distance(stored[i].total, stored[i].principal + stored[i].interest) <= 1
=============================================================================
