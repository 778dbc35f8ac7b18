------------------------------- MODULE Tariff -------------------------------
(***************************************************************************)
(* The fee of a stay, services/fee_engine.py: day and night periods, each  *)
(* with its own block length and price, a flat price for every full day    *)
(* and a free time that depends on when the vehicle leaves.  Times are     *)
(* whole numbers of one unit since a midnight; the site's clock is the     *)
(* time plus Offset, the rules' "timezone".                                *)
(***************************************************************************)
EXTENDS Integers, FiniteSetsExt

CONSTANTS
  DayLength,                  \* units in a day, 86400 seconds
  DayStart, DayEnd,           \* clock times between which it is day
  FreeDay, FreeNight,         \* free_day_seconds, free_night_seconds
  DayBlock, NightBlock,       \* day_block_seconds, night_block_seconds
  DayFee, NightFee,           \* price of a block
  DailyFee,                   \* daily_wrap_fee
  Deduction,                  \* over_1000_subtract, 0: none
  Offset                      \* of the tariff's time zone

(* The day ends before midnight: the rules give both ends as clock times.   *)
ASSUME TariffAssumption ==
  /\ DayLength \in Nat /\ DayStart \in 0 .. DayEnd /\ DayEnd \in DayStart + 1 .. DayLength - 1
  /\ {FreeDay, FreeNight, DayFee, NightFee, DailyFee, Deduction, Offset} \subseteq Nat
  /\ {DayBlock, NightBlock} \subseteq Nat \ {0}

Smaller(m, n) == IF m < n THEN m ELSE n
Midnight(t) == t - (t % DayLength)

IsDaytime(t) ==
  LET clock == (t + Offset) % DayLength IN DayStart <= clock /\ clock < DayEnd

(* A block more than fits: a stay of one block exactly pays for two.       *)
Blocks(length, block) == IF length <= 0 THEN 0 ELSE 1 + (length \div block)

(* Mutant: the night before the day starts is charged to the next morning. *)
NextBoundarySkipsNight(t) ==
  LET clock == t % DayLength
  IN Midnight(t) + (IF clock < DayEnd THEN DayEnd ELSE DayStart + DayLength)

(* The first change of period after t.  It is taken from the time itself,  *)
(* not from the clock of the time zone.                                    *)
NextBoundary(t) ==
  LET clock == t % DayLength
  IN Midnight(t) + (CASE clock < DayStart -> DayStart
                      [] DayStart <= clock /\ clock < DayEnd -> DayEnd
                      [] OTHER -> DayStart + DayLength)

Part(t, length) ==
  IF IsDaytime(t) THEN Blocks(length, DayBlock) * DayFee
                  ELSE Blocks(length, NightBlock) * NightFee

ChargeSpan(start, end) ==
  LET charged[t \in start .. end] ==
        IF t = end THEN 0
        ELSE LET stop == Smaller(end, NextBoundary(t))
             IN Part(t, stop - t) + charged[stop]
  IN charged[start]

Deducted(due) == IF Deduction > 0 /\ due > Deduction THEN due - Deduction ELSE due

(* calculate_car1_fee; times given the wrong way round are exchanged.      *)
FeeDue(entry, exit) ==
  LET start == Smaller(entry, exit)
      end == entry + exit - start
      duration == end - start
      free == IF IsDaytime(end) THEN FreeDay ELSE FreeNight
      fullDays == duration \div DayLength
      due == fullDays * DailyFee + ChargeSpan(start + fullDays * DayLength, end)
  IN IF duration <= free THEN 0 ELSE Deducted(due)

-----------------------------------------------------------------------------
(* The schedule the fee is to follow, without walking along the stay: the  *)
(* units of the last, incomplete day fall into unbroken runs of day or     *)
(* night, and a run pays each time it reaches a multiple of its block,     *)
(* its first and its last moment included.                                 *)
Runs(start, end) ==
  {r \in (start .. end) \X (start .. end) :
     /\ r[1] < r[2]
     /\ \A t \in r[1] .. r[2] - 1 : IsDaytime(t) <=> IsDaytime(r[1])
     /\ r[1] = start \/ (IsDaytime(r[1] - 1) # IsDaytime(r[1]))
     /\ r[2] = end \/ (IsDaytime(r[2]) # IsDaytime(r[1]))}

RunPrice(r) ==
  LET block == IF IsDaytime(r[1]) THEN DayBlock ELSE NightBlock
      price == IF IsDaytime(r[1]) THEN DayFee ELSE NightFee
  IN price * Quantify(0 .. r[2] - r[1], LAMBDA n : n % block = 0)

ScheduledFee(entry, exit) ==
  LET days == (exit - entry) \div DayLength
      rest == entry + days * DayLength
  IN days * DailyFee + MapThenSumSet(RunPrice, Runs(rest, exit))

(* What a stay costs: nothing while it is free, else the schedule's price  *)
(* less the deduction.                                                     *)
FollowsSchedule(entry, exit) ==
  LET free == IF IsDaytime(exit) THEN FreeDay ELSE FreeNight
  IN FeeDue(entry, exit) =
       IF exit - entry <= free THEN 0 ELSE Deducted(ScheduledFee(entry, exit))
=============================================================================
