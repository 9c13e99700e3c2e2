------------------------------ MODULE Pricing -------------------------------
(* The price of a task for its caller.  Two engines compute it, one in     *)
(* node.py and one in pricing_engine.py; the configuration names the one   *)
(* that is used.  Both apply the discounts of the caller's groups, a cap   *)
(* on what they take together, and floors.                                 *)
(*                                                                         *)
(* Amounts are whole multiples of a unit in which every product here is    *)
(* exact, so the rounding to six places is left out, and so are infinities *)
(* and the breakdown.  dynamic is cost_projection times markup_minimum.    *)
(***************************************************************************)
EXTENDS DataOps, FiniteSetsExt, SequencesExt

CONSTANTS
  Bases,        \* prices of skills
  Percents,     \* effect_pct of the rules in force
  MaxRules,     \* bound: rules that apply to one caller
  Modes,        \* values of discount_mode
  Caps,         \* cap for the skill, in percent
  Costs,        \* dynamic floors, 0 if there is no projection
  SkillMins,    \* min_price of the skill, or NoMin
  MinPrices, GlobalMins,
  NoMin, NoQuote

ASSUME PricingAssumption ==
  /\ Bases \cup Percents \subseteq Int /\ MaxRules \in Nat
  /\ Caps \cup Costs \cup MinPrices \cup GlobalMins \cup (SkillMins \ {NoMin}) \subseteq Nat

VARIABLE quote    \* NoQuote, or the request and the price of each engine

Request ==
  [base : Bases, rules : BoundedSeq(Percents, MaxRules), mode : Modes, cap : Caps,
   dynamic : Costs, skillMin : SkillMins, minPrice : MinPrices, globalMin : GlobalMins]

PricingTypeOK ==
  quote = NoQuote \/ quote \in [of : Request, builtin : Int, module : Int]

PricingInit == quote = NoQuote

Larger(a, b)  == IF a > b THEN a ELSE b
Smaller(a, b) == IF a < b THEN a ELSE b
Less(price, pct)   == (price * (100 - pct)) \div 100
AllOf(price, pcts) ==
  LET left[i \in 0..Len(pcts)] == IF i = 0 THEN price ELSE Less(left[i - 1], pcts[i])
  IN  left[Len(pcts)]
SumOf(pcts) == SumTo(pcts, Len(pcts))
-----------------------------------------------------------------------------
(* _resolve_price_builtin()                                                *)

\* An unknown mode gives no discount.
BuiltinDiscounted(r) ==
  CASE r.rules = << >>           -> r.base
    [] r.rules # << >> /\ r.mode = "multiplicative" -> AllOf(r.base, r.rules)
    [] r.rules # << >> /\ r.mode = "additive"  -> Less(r.base, SumOf(r.rules))
    [] r.rules # << >> /\ r.mode = "best_wins" -> Less(r.base, Max(ToSet(r.rules)))
    [] OTHER                     -> r.base

\* Mutant of BuiltinCapped: the cap is a percentage of the discounted price.
BuiltinCappedLate(r) ==
  LET price == BuiltinDiscounted(r) IN Larger(price, r.base - (price * r.cap) \div 100)

BuiltinCapped(r) ==
  LET most == (r.base * r.cap) \div 100 IN
  IF r.base - BuiltinDiscounted(r) > most THEN r.base - most ELSE BuiltinDiscounted(r)

SkillFloor(r) == IF r.skillMin = NoMin THEN r.minPrice ELSE r.skillMin

\* A skill that is free stays free.
BuiltinPrice(r) ==
  LET floor == IF r.dynamic > 0 THEN Larger(r.dynamic, SkillFloor(r)) ELSE SkillFloor(r) IN
  IF r.base = 0 THEN 0
  ELSE Larger(Larger(BuiltinCapped(r), floor), r.globalMin)
-----------------------------------------------------------------------------
(* resolve_price() of pricing_engine.py, which clamps what it is given; no *)
(* meter count reaches it from the node                                    *)

Percent(n) == Smaller(Larger(n, 0), 100)

\* An unknown mode is multiplicative.
ModuleDiscounted(r) ==
  LET pcts == [i \in DOMAIN r.rules |-> Percent(r.rules[i])] IN
  CASE r.mode = "additive"  -> Less(r.base, Smaller(SumOf(pcts), 100))
    [] r.mode = "best_wins" -> Less(r.base, Max(ToSet(pcts)))
    [] OTHER                -> AllOf(r.base, pcts)

ModuleCapped(r) ==
  LET most == (r.base * Percent(r.cap)) \div 100 IN
  IF r.base - ModuleDiscounted(r) > most THEN r.base - most ELSE ModuleDiscounted(r)

\* _apply_floor()
ModuleFloored(price, r) ==
  LET floored == Larger(price, Larger(r.dynamic, SkillFloor(r))) IN
  IF r.globalMin > 0 THEN Larger(floored, r.globalMin) ELSE Larger(floored, 0)

ModulePrice(r) ==
  CASE r.base = 0                          -> 0
    [] r.base # 0 /\ r.rules = << >>       -> ModuleFloored(r.base, r)
    [] OTHER                               -> ModuleFloored(ModuleCapped(r), r)
-----------------------------------------------------------------------------
\* _resolve_price(): a price below zero is quoted as zero.
Quote(r) ==
  /\ quote = NoQuote
  /\ quote' = [of |-> r, builtin |-> IF r.base < 0 THEN 0 ELSE BuiltinPrice(r),
               module |-> IF r.base < 0 THEN 0 ELSE ModulePrice(r)]

PricingNext == \E r \in Request : Quote(r)

PricingSpec == PricingInit /\ [][PricingNext]_quote
-----------------------------------------------------------------------------
(* Properties                                                              *)

\* test_pricing_parity_v41.py:3, for every price: with rules of 0 to 100
\* percent and a known mode the engines agree, although only one clamps; what
\* is free stays free, and no other caller pays less than the floors or than
\* the cap leaves, or more than the price of the skill and the floors.
EnginesAgree ==
  quote # NoQuote /\ ToSet(quote.of.rules) \subseteq 0..100
    /\ quote.of.mode \in {"multiplicative", "additive", "best_wins"} =>
    LET r == quote.of
        floor == Max({r.dynamic, SkillFloor(r), r.globalMin})
        left  == r.base - (r.base * Percent(r.cap)) \div 100 IN
    /\ quote.builtin = quote.module
    /\ r.base <= 0 => quote.builtin = 0
    /\ r.base > 0 => quote.builtin \in Larger(floor, left)..Larger(floor, r.base)
=============================================================================
