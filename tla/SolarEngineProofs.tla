-------------------------- MODULE SolarEngineProofs --------------------------
(***************************************************************************)
(* Proofs about CurrentLimits and SolarEngine: the types of their          *)
(* operators, how far a target may exceed the limits it is made from, and  *)
(* what each strategy does to the start timer and to the current.          *)
(***************************************************************************)
EXTENDS SolarEngine, TLAPS

-----------------------------------------------------------------------------
(* Limits.                                                                 *)


(* What the operators need of a configuration and of a wallbox state.      *)
LimitsConfig(c) ==
  /\ {c.min, c.max, c.safe, c.fuse, c.margin} \subseteq Nat
  /\ c.installed \in {1, 3}
Draws == [Phases -> Nat]
LimitsWallbox(wallbox) ==
  /\ wallbox.draw \in Draws /\ wallbox.hardwareMin \in Nat
  /\ wallbox.cableMax \in Maybe(Nat) /\ wallbox.evMax \in Maybe(Nat)

LEMMA NoneIsNoInt == None \notin Int
BY NoneIsNoNumber

-----------------------------------------------------------------------------
(* Rounding.                                                               *)

(* To a tenth of an ampere: at most 50 mA away, and order is kept.         *)
LEMMA TenthsNear ==
  ASSUME NEW i \in Int
  PROVE  /\ Tenths(i) \in Int
         /\ Tenths(i) <= i + 50
         /\ Tenths(i) >= i - 49
         /\ i \in Nat => Tenths(i) \in Nat
BY DEF Tenths
LEMMA TenthsKeepOrder ==
  ASSUME NEW i \in Int, NEW n \in Int, i >= 100 * n
  PROVE  Tenths(i) >= 100 * n
BY DEF Tenths

LEMMA TenthsStayBelow ==
  ASSUME NEW i \in Int, NEW n \in Int, i <= 100 * n
  PROVE  Tenths(i) <= 100 * n
BY DEF Tenths

(* To an ampere: at most half of one away, and order is kept.              *)
LEMMA AmperesNear ==
  ASSUME NEW i \in Int
  PROVE  /\ Amperes(i) \in Int
         /\ 1000 * Amperes(i) <= i + 500
         /\ i \in Nat => Amperes(i) \in Nat
BY DEF Amperes
LEMMA AmperesKeepOrder ==
  ASSUME NEW i \in Int, NEW n \in Int, i >= 1000 * n
  PROVE  Amperes(i) >= n
BY DEF Amperes

LEMMA AmperesRise ==
  ASSUME NEW i \in Int, NEW j \in Int, i <= j
  PROVE  Amperes(i) <= Amperes(j)
<1>1. CASE i = j
  BY <1>1, AmperesNear
<1>2. CASE i # j
  <2>1. 1000 * Amperes(j) >= j - 500
    BY DEF Amperes
  <2> QED
    BY <1>2, <2>1, AmperesNear
<1> QED
  BY <1>1, <1>2

LEMMA DivisionKeepsNat ==
  ASSUME NEW n \in Nat, NEW v \in Nat \ {0}
  PROVE  n \div v \in Nat
OBVIOUS

LEMMA DivisionKeepsInt ==
  ASSUME NEW n \in Int, NEW v \in Nat \ {0}
  PROVE  n \div v \in Int
OBVIOUS

LEMMA PhaseVoltageInRange ==
  ASSUME NEW v
  PROVE  PhaseVoltage(v) \in 180..260
BY DEF PhaseVoltage

LEMMA VoltageSumIsPositive ==
  ASSUME NEW count, NEW volts
  PROVE  VoltageSum(count, volts) \in Nat \ {0}
<1>1. PICK a \in 180..260 : a = PhaseVoltage(volts[1])
  BY PhaseVoltageInRange
<1>2. PICK b \in 180..260, v \in 180..260 :
        b = PhaseVoltage(volts[2]) /\ v = PhaseVoltage(volts[3])
  BY PhaseVoltageInRange
<1>3. VoltageSum(count, volts) = IF count = 1 THEN a ELSE a + b + v
  BY <1>1, <1>2 DEF VoltageSum
<1> QED
  BY <1>3

-----------------------------------------------------------------------------
(* Sensors.                                                                *)

LEMMA NormalizedType ==
  ASSUME NEW state \in States, NEW needsUnit
  PROVE  Normalized(state, needsUnit) \in Maybe(Int)
BY DEF Normalized, Factor, States, Maybe

LEMMA TrustedType ==
  ASSUME NEW state \in States, NEW needsUnit
  PROVE  /\ Trusted(state, needsUnit) \in Maybe(Int)
         /\ TrustedOrQuiet(state, needsUnit) \in Maybe(Int)
BY NormalizedType DEF Trusted, TrustedOrQuiet, Maybe

LEMMA HouseCurrentsType ==
  ASSUME NEW c, NEW house \in [Phases -> States]
  PROVE  HouseCurrents(c, house) \in [Phases -> Maybe(Int)]
BY TrustedType DEF HouseCurrents, Maybe

-----------------------------------------------------------------------------
(* Dynamic load balancing.                                                 *)

LEMMA UsedPhasesExist ==
  ASSUME NEW c, NEW draw
  PROVE  UsedPhases(c, draw) \subseteq Phases /\ UsedPhases(c, draw) # {}
BY DEF UsedPhases, Active, Phases

(* One of three phases, or of the used ones among them, has least left.    *)
LEMMA LeastExists ==
  ASSUME NEW used, used \subseteq Phases, used # {},
         NEW left, \A p \in used : left[p] \in Int
  PROVE  \E p \in used : \A q \in used : left[p] <= left[q]
<1>1. \A p \in used : p \in {1, 2, 3}
  BY DEF Phases
<1>2. CASE 1 \in used
  <2>1. CASE 2 \in used /\ left[2] < left[1]
    <3>1. CASE 3 \in used /\ left[3] < left[2]
      BY <1>1, <1>2, <2>1, <3>1
    <3>2. CASE ~(3 \in used /\ left[3] < left[2])
      BY <1>1, <1>2, <2>1, <3>2
    <3> QED
      BY <3>1, <3>2
  <2>2. CASE ~(2 \in used /\ left[2] < left[1])
    <3>1. CASE 3 \in used /\ left[3] < left[1]
      BY <1>1, <1>2, <2>2, <3>1
    <3>2. CASE ~(3 \in used /\ left[3] < left[1])
      BY <1>1, <1>2, <2>2, <3>2
    <3> QED
      BY <3>1, <3>2
  <2> QED
    BY <2>1, <2>2
<1>3. CASE 1 \notin used
  <2>1. CASE 2 \in used /\ ~(3 \in used /\ left[3] < left[2])
    BY <1>1, <1>3, <2>1
  <2>2. CASE 3 \in used /\ ~(2 \in used /\ left[2] <= left[3])
    BY <1>1, <1>3, <2>2
  <2> QED
    BY <1>1, <1>3, <2>1, <2>2
<1> QED
  BY <1>2, <1>3

(* A valid limit leaves the fuse its margin on every phase in use.         *)
LEMMA AvailableIsLeast ==
  ASSUME NEW c, LimitsConfig(c), NEW draw \in Draws, NEW currents,
         \A p \in UsedPhases(c, draw) : currents[p] \in Int
  PROVE  /\ Available(c, currents, draw) \in Int
         /\ \A p \in UsedPhases(c, draw) :
              Available(c, currents, draw) <= LeftOn(c, currents, draw, p)
<1> DEFINE used == UsedPhases(c, draw)
           left == [p \in used |-> LeftOn(c, currents, draw, p)]
<1>1. used \subseteq Phases /\ used # {}
  BY UsedPhasesExist
<1>2. \A p \in used : left[p] = LeftOn(c, currents, draw, p) /\ left[p] \in Int
  BY <1>1 DEF LeftOn, ChargerShare, Higher, LimitsConfig, Draws
<1>3. PICK least \in used : \A q \in used : left[least] <= left[q]
  <2> HIDE DEF used, left
  <2> QED
    BY <1>1, <1>2, LeastExists
<1>4. \E i \in {LeftOn(c, currents, draw, p) : p \in used} :
        \A p \in used : i <= LeftOn(c, currents, draw, p)
  BY <1>2, <1>3
<1>5. /\ Available(c, currents, draw) \in {LeftOn(c, currents, draw, p) : p \in used}
      /\ \A p \in used : Available(c, currents, draw) <= LeftOn(c, currents, draw, p)
  BY <1>4 DEF Available
<1> QED
  BY <1>2, <1>5

LEMMA DlbResultType ==
  ASSUME NEW c, LimitsConfig(c), NEW valid, NEW currents \in [Phases -> Maybe(Int)],
         NEW draw \in Draws
  PROVE  DlbResult(c, valid, currents, draw) \in [limit : Maybe(Nat), valid : BOOLEAN]
<1> DEFINE used == UsedPhases(c, draw)
<1>1. CASE \A p \in used : currents[p] # None
  <2>1. \A p \in used : currents[p] \in Int
    BY <1>1, UsedPhasesExist DEF Maybe
  <2>2. Available(c, currents, draw) \in Int
    BY <2>1, AvailableIsLeast
  <2> QED
    BY <2>2 DEF DlbResult, Unlimited, Fallback, Higher, LimitsConfig, Maybe
<1>2. CASE \E p \in used : currents[p] = None
  BY <1>2 DEF DlbResult, Unlimited, Fallback, LimitsConfig, Maybe
<1> QED
  BY <1>1, <1>2

-----------------------------------------------------------------------------
(* Combination.                                                            *)

Limit == [amps : Maybe(Nat), by : {"none", "dlb", "cable", "ev"}]

(* The tighter of a limit and one that may be missing.                     *)
LEMMA TighterIsLower ==
  ASSUME NEW a \in Limit, a.amps \in Nat, NEW b \in Limit
  PROVE  /\ Tighter(a, b) \in Limit /\ Tighter(a, b).amps \in Nat
         /\ Tighter(a, b).amps <= a.amps
         /\ b.amps # None => Tighter(a, b).amps <= b.amps
BY NoneIsNoInt DEF Tighter, Limit, Maybe

(* All limits there are.                                                   *)
Limiting(c, wallbox, modeTarget, dlbLimit) ==
  {modeTarget, c.max, dlbLimit, wallbox.cableMax, wallbox.evMax} \ {None}

LEMMA TightestIsLowest ==
  ASSUME NEW c, LimitsConfig(c), NEW wallbox, LimitsWallbox(wallbox),
         NEW modeTarget \in Nat, NEW dlbLimit \in Maybe(Nat),
         NEW low, low = Tightest(c, wallbox, modeTarget, dlbLimit)
  PROVE  /\ low \in Limit /\ low.amps \in Nat
         /\ \A i \in Limiting(c, wallbox, modeTarget, dlbLimit) : low.amps <= i
<1> DEFINE mode  == [amps |-> modeTarget, by |-> "none"]
           max   == [amps |-> c.max, by |-> "none"]
           dlb   == [amps |-> dlbLimit, by |-> "dlb"]
           cable == [amps |-> wallbox.cableMax, by |-> "cable"]
           ev    == [amps |-> wallbox.evMax, by |-> "ev"]
           first == Tighter(mode, max)
           second == Tighter(first, dlb)
           third == Tighter(second, cable)
<1>1. {mode, max, dlb, cable, ev} \subseteq Limit
  BY DEF Limit, Maybe, LimitsConfig, LimitsWallbox
<1>2. c.max \in Nat /\ c.max # None
  BY NoneIsNoInt DEF LimitsConfig
<1>3. /\ first \in Limit /\ first.amps \in Nat
      /\ first.amps <= modeTarget /\ first.amps <= c.max
  BY <1>1, <1>2, TighterIsLower
<1> HIDE DEF first
<1>4. /\ second \in Limit /\ second.amps \in Nat /\ second.amps <= first.amps
      /\ dlbLimit # None => second.amps <= dlbLimit
  BY <1>1, <1>3, TighterIsLower
<1> HIDE DEF second
<1>5. /\ third \in Limit /\ third.amps \in Nat /\ third.amps <= second.amps
      /\ wallbox.cableMax # None => third.amps <= wallbox.cableMax
  BY <1>1, <1>4, TighterIsLower
<1> HIDE DEF third
<1>6. low = Tighter(third, ev)
  BY DEF Tightest, first, second, third
<1>7. /\ low \in Limit /\ low.amps \in Nat /\ low.amps <= third.amps
      /\ wallbox.evMax # None => low.amps <= wallbox.evMax
  BY <1>1, <1>5, <1>6, TighterIsLower
<1>8. \A i \in Limiting(c, wallbox, modeTarget, dlbLimit) : i \in Nat
  BY <1>2 DEF Limiting, Maybe, LimitsWallbox
<1> QED
  BY <1>3, <1>4, <1>5, <1>7, <1>8 DEF Limiting

LEMMA CombineLimitsType ==
  ASSUME NEW c, LimitsConfig(c), NEW wallbox, LimitsWallbox(wallbox),
         NEW modeTarget \in Maybe(Nat), NEW dlbLimit \in Maybe(Nat)
  PROVE  CombineLimits(c, wallbox, modeTarget, dlbLimit)
           \in [target : Maybe(Nat), by : {"none", "dlb", "cable", "ev"}]
<1>1. CASE modeTarget = None
  BY <1>1 DEF CombineLimits, Maybe
<1>2. CASE modeTarget # None
  <2> DEFINE low == Tightest(c, wallbox, modeTarget, dlbLimit)
  <2>1. low \in Limit /\ low.amps \in Nat
    BY <1>2, TightestIsLowest DEF Maybe
  <2>2. Tenths(low.amps) \in Nat
    BY <2>1, TenthsNear
  <2> HIDE DEF low
  <2> QED
    BY <1>2, <2>1, <2>2 DEF CombineLimits, Limit, Maybe, low
<1> QED
  BY <1>1, <1>2

(* Whatever is written is at most 0.55 A above each of the limits: 50 mA   *)
(* by round(x, 1) and half an ampere by int(round(x)); and a target is     *)
(* never below the minimum by more than the first.                         *)
THEOREM TargetWithinLimits ==
  ASSUME NEW c, LimitsConfig(c), NEW wallbox, LimitsWallbox(wallbox),
         NEW modeTarget \in Maybe(Nat), NEW dlbLimit \in Maybe(Nat),
         NEW target, target = CombineLimits(c, wallbox, modeTarget, dlbLimit).target,
         target # None
  PROVE  /\ \A i \in Limiting(c, wallbox, modeTarget, dlbLimit) :
              target <= i + 50 /\ 1000 * Amperes(target) <= i + 550
         /\ \A n \in Nat : Minimum(c, wallbox) >= 1000 * n => Amperes(target) >= n
<1> DEFINE low == Tightest(c, wallbox, modeTarget, dlbLimit)
<1>1. modeTarget \in Nat
  BY DEF CombineLimits, Maybe
<1>2. /\ low \in Limit /\ low.amps \in Nat
      /\ \A i \in Limiting(c, wallbox, modeTarget, dlbLimit) : low.amps <= i
  BY <1>1, TightestIsLowest
<1> HIDE DEF low
<1>3. target = Tenths(low.amps) /\ ~(low.amps < Minimum(c, wallbox))
  BY <1>1, NoneIsNoInt DEF CombineLimits, low
<1>4. Minimum(c, wallbox) \in Nat
  BY DEF Minimum, Higher, LimitsConfig, LimitsWallbox
<1>5. target \in Int /\ target <= low.amps + 50
  BY <1>2, <1>3, TenthsNear
<1>6. ASSUME NEW i \in Limiting(c, wallbox, modeTarget, dlbLimit)
      PROVE  target <= i + 50 /\ 1000 * Amperes(target) <= i + 550
  <2>1. i \in Nat
    BY <1>1 DEF Limiting, Maybe, LimitsConfig, LimitsWallbox
  <2>2. Amperes(target) \in Int /\ 1000 * Amperes(target) <= target + 500
    BY <1>5, AmperesNear, SMT
  <2> QED
    BY <1>2, <1>5, <2>1, <2>2
<1>7. ASSUME NEW n \in Nat, Minimum(c, wallbox) >= 1000 * n
      PROVE  Amperes(target) >= n
  <2> DEFINE m == 10 * n
  <2>1. m \in Int /\ low.amps >= 100 * m
    BY <1>2, <1>3, <1>4, <1>7
  <2>2. target >= 100 * m
    <3> HIDE DEF m
    <3> QED
      BY <1>2, <1>3, <2>1, TenthsKeepOrder
  <2>3. target >= 1000 * n
    BY <2>2
  <2> QED
    BY <1>5, <2>3, AmperesKeepOrder
<1> QED
  BY <1>6, <1>7

(* A configuration with DLB.                                               *)
Balanced(c) == LimitsConfig(c) /\ c.min > 0 /\ c.dlb

(* With valid inputs, the house together with the current that a target    *)
(* gives the charger leaves the main fuse its safety margin, up to the     *)
(* rounding, on every phase the charger uses.                              *)
THEOREM FuseKeepsItsMargin ==
  ASSUME NEW c, Balanced(c),
         NEW wallbox, LimitsWallbox(wallbox), NEW modeTarget \in Maybe(Nat),
         NEW valid, NEW currents \in [Phases -> Maybe(Int)],
         NEW dlb, dlb = DlbResult(c, valid, currents, wallbox.draw), dlb.valid,
         NEW target, target = CombineLimits(c, wallbox, modeTarget, dlb.limit).target,
         target # None,
         NEW p \in UsedPhases(c, wallbox.draw)
  PROVE  currents[p] - ChargerShare(c, wallbox.draw[p]) + 1000 * Amperes(target)
           <= c.fuse - c.margin + 550
<1> DEFINE used == UsedPhases(c, wallbox.draw)
           available == Available(c, currents, wallbox.draw)
           low == Tightest(c, wallbox, modeTarget, dlb.limit)
<1>0. LimitsConfig(c) /\ c.min > 0 /\ c.dlb
  BY DEF Balanced
<1>1. wallbox.draw \in Draws
  BY DEF LimitsWallbox
<1>2. /\ \A q \in used : currents[q] # None
      /\ dlb.limit = Higher(0, available)
  BY <1>0 DEF DlbResult, Fallback
<1>3. \A q \in used : currents[q] \in Int
  BY <1>2, UsedPhasesExist DEF Maybe
<1>4. available \in Int /\ available <= LeftOn(c, currents, wallbox.draw, p)
  BY <1>0, <1>1, <1>3, AvailableIsLeast
<1> HIDE DEF available
<1>5. dlb.limit \in Nat
  BY <1>2, <1>4 DEF Higher
<1>6. dlb.limit \in Limiting(c, wallbox, modeTarget, dlb.limit)
  BY <1>5, NoneIsNoInt DEF Limiting
<1>7. 1000 * Amperes(target) <= dlb.limit + 550
  BY <1>0, <1>5, <1>6, TargetWithinLimits DEF Maybe
<1>8. available > 0
  <2>1. modeTarget \in Nat
    BY DEF CombineLimits, Maybe
  <2>2. low.amps \in Nat /\ low.amps <= dlb.limit
    BY <1>0, <1>5, <1>6, <2>1, TightestIsLowest DEF Maybe
  <2> HIDE DEF low
  <2>3. ~(low.amps < Minimum(c, wallbox))
    BY <2>1, NoneIsNoInt DEF CombineLimits, low
  <2>4. Minimum(c, wallbox) \in Nat /\ Minimum(c, wallbox) > 0
    BY <1>0 DEF Minimum, Higher, LimitsConfig, LimitsWallbox
  <2> QED
    BY <1>2, <1>4, <2>2, <2>3, <2>4 DEF Higher
<1>9. currents[p] \in Int /\ ChargerShare(c, wallbox.draw[p]) \in Int /\ Amperes(target) \in Int
  <2>1. wallbox.draw[p] \in Nat
    BY <1>1, UsedPhasesExist DEF Draws
  <2>2. target \in Nat
    BY <1>0, <1>5, CombineLimitsType DEF Maybe
  <2> QED
    BY <1>3, <2>1, <2>2, AmperesNear DEF ChargerShare, Higher
<1>10. dlb.limit = available
  BY <1>2, <1>4, <1>8 DEF Higher
<1> QED
  BY <1>0, <1>4, <1>7, <1>9, <1>10 DEF LeftOn, LimitsConfig

-----------------------------------------------------------------------------
(* Strategies.                                                             *)


(* What the engine needs of a configuration and a wallbox state.           *)
SolarConfig(c) ==
  /\ LimitsConfig(c)
  /\ {c.solarMin, c.start, c.stop} \subseteq Nat
  /\ c.smoothing \in Nat \ {0} /\ c.deadband = 150 /\ c.ramp = 2000
  /\ {c.startDelay, c.stopDelay, c.minRuntime, c.minPause} \subseteq Nat
SolarWallbox(wallbox) ==
  /\ LimitsWallbox(wallbox) /\ wallbox.power \in Int
Meters == [first : States, second : States]

LEMMA InactiveType == Inactive \in SolarStates
BY GrainAssumption DEF Inactive, SolarStates, Maybe

LEMMA ZeroIsAge == 0 \in 0..LongAgo
BY GrainAssumption

LEMMA AgedType ==
  ASSUME NEW age \in Maybe(0..LongAgo), NEW d \in Nat
  PROVE  /\ Aged(age, d) \in Maybe(0..LongAgo)
         /\ age # None => Aged(age, d) = Lower(age + d, LongAgo) /\ Aged(age, d) \in 0..LongAgo
         /\ age = None => Aged(age, d) = None
BY GrainAssumption DEF Aged, Lower, Maybe

LEMMA AgedNumber ==
  ASSUME NEW age \in 0..LongAgo, NEW d \in Nat
  PROVE  Aged(age, d) \in 0..LongAgo
BY GrainAssumption, NoneIsNoInt DEF Aged, Lower

LEMMA LaterType ==
  ASSUME NEW solar \in SolarStates, NEW d \in Nat
  PROVE  Later(solar, d) \in SolarStates
<1>1. /\ Aged(solar.startFor, d) \in Maybe(0..LongAgo)
      /\ Aged(solar.stopFor, d) \in Maybe(0..LongAgo)
  BY AgedType DEF SolarStates
<1>2. /\ Aged(solar.sinceStart, d) \in 0..LongAgo
      /\ Aged(solar.sinceStop, d) \in 0..LongAgo
  BY AgedNumber DEF SolarStates
<1> QED
  BY <1>1, <1>2 DEF Later, SolarStates

-----------------------------------------------------------------------------
(* Inputs.                                                                 *)

Powers == [surplus : Maybe(Int), grid : Maybe(Int)]

LEMMA SolarInputType ==
  ASSUME NEW c, NEW sun \in Meters
  PROVE  SolarInput(c, sun) \in Powers
<1> DEFINE first  == TrustedOrQuiet(sun.first, c.solarUnits)
           second == TrustedOrQuiet(sun.second, c.solarUnits)
           trusted == Trusted(sun.first, c.solarUnits)
<1>1. first \in Maybe(Int) /\ second \in Maybe(Int) /\ trusted \in Maybe(Int)
  BY TrustedType DEF Meters
<1>2. SolarInput(c, sun) =
        IF c.input = "surplus" THEN [surplus |-> first, grid |-> None]
        ELSE IF c.input = "dsmr"
        THEN [surplus |-> None,
              grid |-> IF first = None \/ second = None THEN None ELSE first - second]
        ELSE [surplus |-> None, grid |-> trusted]
  BY DEF SolarInput
<1> HIDE DEF first, second, trusted
<1> QED
  BY <1>1, <1>2 DEF Powers, Maybe

LEMMA SurplusType ==
  ASSUME NEW c, SolarConfig(c), NEW power \in Powers, NEW wallbox, SolarWallbox(wallbox)
  PROVE  Surplus(c, power, wallbox) \in Maybe(Nat)
<1>1. ASSUME NEW w \in Int
      PROVE  /\ Deadband(c, w) \in Int
             /\ w \in Nat => Deadband(c, w) \in Nat
  BY DEF Deadband, SolarConfig
<1>2. CASE power.surplus # None
  <2>1. Higher(0, power.surplus) \in Nat
    BY <1>2 DEF Powers, Maybe, Higher
  <2> QED
    BY <1>1, <1>2, <2>1 DEF Surplus, Maybe
<1>3. CASE power.surplus = None /\ power.grid # None
  <2>1. OwnPower(wallbox) \in Int
    BY DEF OwnPower, Higher, SolarWallbox
  <2>2. ExportOf(c, power.grid) \in Int
    BY <1>3 DEF ExportOf, Powers, Maybe
  <2>3. Deadband(c, ExportOf(c, power.grid)) \in Int
    BY <1>1, <2>2
  <2> QED
    BY <1>3, <2>1, <2>3 DEF Surplus, Higher, Maybe
<1>4. CASE power.surplus = None /\ power.grid = None
  BY <1>4 DEF Surplus, Maybe
<1> QED
  BY <1>2, <1>3, <1>4

LEMMA ProductIsPositive ==
  ASSUME NEW a \in Nat \ {0}, NEW b \in Nat \ {0}
  PROVE  a * b \in Nat \ {0}
OBVIOUS

LEMMA StepType ==
  ASSUME NEW c, SolarConfig(c), NEW distance \in Nat, NEW d \in Nat
  PROVE  Step(distance, c, d) \in 0..distance
<1> DEFINE whole == (c.smoothing + d) * PowerGrain
           share == (distance * d) \div whole
<1>1. whole \in Nat \ {0}
  <2>1. c.smoothing + d \in Nat \ {0}
    BY DEF SolarConfig
  <2> QED
    BY <2>1, GrainAssumption, ProductIsPositive
<1>2. distance * d \in Nat
  OBVIOUS
<1>3. share \in Nat
  <2> HIDE DEF whole
  <2> QED
    BY <1>1, <1>2, DivisionKeepsNat
<1> HIDE DEF share
<1>4. Higher(1, share) \in Nat
  BY <1>3 DEF Higher
<1>5. PowerGrain * Higher(1, share) \in Nat
  BY <1>4, GrainAssumption
<1> QED
  BY <1>5 DEF Step, Lower, share, whole

LEMMA FilteredType ==
  ASSUME NEW c, SolarConfig(c), NEW previous \in Maybe(Nat), NEW w \in Nat, NEW d \in Nat
  PROVE  Filtered(c, previous, w, d) \in Nat
<1>1. CASE previous = None \/ c.smoothing = 0
  BY <1>1 DEF Filtered
<1>2. CASE previous # None /\ w >= previous
  <2>1. previous \in Nat /\ w - previous \in Nat
    BY <1>2 DEF Maybe
  <2>2. Step(w - previous, c, d) \in 0..(w - previous)
    BY <2>1, StepType
  <2> QED
    BY <1>2, <2>1, <2>2 DEF Filtered
<1>3. CASE previous # None /\ ~(w >= previous)
  <2>1. previous \in Nat /\ previous - w \in Nat
    BY <1>3 DEF Maybe
  <2>2. Step(previous - w, c, d) \in 0..(previous - w)
    BY <2>1, StepType
  <2> QED
    BY <1>3, <2>1, <2>2 DEF Filtered
<1> QED
  BY <1>1, <1>2, <1>3

-----------------------------------------------------------------------------
(* Strategies.                                                             *)

Results ==
  [solar : SolarStates, target : Maybe(Nat),
   reason : {"solar_mode", "below_min_current", "sensor_unavailable"}]

LEMMA ShareType ==
  ASSUME NEW watts \in Nat, NEW volts \in Nat \ {0}
  PROVE  Share(watts, volts) \in Nat
BY DivisionKeepsNat DEF Share

LEMMA ThresholdType ==
  ASSUME NEW c, SolarConfig(c), NEW watts \in Nat, NEW volts \in Nat \ {0}
  PROVE  Threshold(c, watts, volts) \in Nat
BY DivisionKeepsNat DEF Threshold, Higher, SolarConfig

(* The other strategies leave the timers of Eco Solar alone.               *)
TimersKept(solar, next) ==
  /\ next.startFor = solar.startFor /\ next.stopFor = solar.stopFor
  /\ next.active = solar.active
  /\ next.sinceStart = solar.sinceStart /\ next.sinceStop = solar.sinceStop

LEMMA MinimumBasedType ==
  ASSUME NEW c, SolarConfig(c), NEW solar \in SolarStates, NEW strategy,
         NEW surplus \in Maybe(Nat), NEW volts \in Nat \ {0}, NEW d \in Nat
  PROVE  /\ MinimumBased(c, solar, strategy, surplus, volts, d) \in Results
         /\ TimersKept(solar, MinimumBased(c, solar, strategy, surplus, volts, d).solar)
<1> DEFINE result == MinimumBased(c, solar, strategy, surplus, volts, d)
           power == Filtered(c, solar.filtered, surplus, d)
           amps  == Share(power, volts)
           blind == [solar EXCEPT !.filtered = None]
           bright == [solar EXCEPT !.filtered = power]
<1>1. c.solarMin \in Nat
  BY DEF SolarConfig
<1>2. CASE surplus = None
  <2>1. blind \in SolarStates /\ TimersKept(solar, blind)
    BY DEF SolarStates, Maybe, TimersKept
  <2>2. result = IF c.failure = "continue_minimum" THEN Charge(blind, c.solarMin)
                 ELSE Pause(blind, "sensor_unavailable")
    BY <1>2 DEF MinimumBased
  <2> HIDE DEF blind
  <2> QED
    BY <1>1, <2>1, <2>2 DEF Charge, Pause, Results, Maybe
<1>3. CASE surplus # None
  <2>1. power \in Nat
    BY <1>3, FilteredType DEF SolarStates, Maybe
  <2> HIDE DEF power
  <2>2. amps \in Nat
    BY <2>1, ShareType
  <2> HIDE DEF amps
  <2>3. bright \in SolarStates /\ TimersKept(solar, bright)
    BY <2>1 DEF SolarStates, Maybe, TimersKept
  <2>4. result = Charge(bright, IF strategy = "smart" THEN Higher(c.solarMin, amps)
                                ELSE c.solarMin + amps)
    BY <1>3 DEF MinimumBased, power, amps
  <2> HIDE DEF bright
  <2> QED
    BY <1>1, <2>2, <2>3, <2>4 DEF Charge, Results, Maybe, Higher
<1> QED
  BY <1>2, <1>3

(* How Eco Solar goes on with too little surplus: its minimum runtime is   *)
(* not over, or its stop timer counts from the first poll after that.      *)
FadesOut(c, solar, next) ==
  /\ next.sinceStart = solar.sinceStart
  /\ ~(solar.sinceStart < c.minRuntime) =>
       /\ next.stopFor = IF solar.stopFor = None THEN 0 ELSE solar.stopFor
       /\ next.stopFor < c.stopDelay

(* How Eco Solar goes on: the start timer runs only in enough surplus, and *)
(* counts from the first such poll; a start needs the whole delay and the  *)
(* pause; there is a current exactly while it is active.                   *)
EcoGoesOn(c, solar, result, volts) ==
  LET next == result.solar
      dim  == next.filtered # None /\ next.filtered < Threshold(c, c.stop, volts)
      waited == IF solar.startFor = None THEN 0 ELSE solar.startFor
      bright == next.filtered # None /\ ~(next.filtered < Threshold(c, c.start, volts))
  IN  /\ next.startFor # None => bright /\ next.startFor = waited /\ ~next.active
      /\ next.active /\ ~solar.active =>
           /\ bright /\ waited >= c.startDelay
           /\ ~(solar.sinceStop < c.minPause)
      /\ ~next.active /\ solar.active => next.sinceStop = 0
      /\ next.active = solar.active \/ next.active => next.sinceStop = solar.sinceStop
      /\ result.target # None <=> next.active
      /\ dim /\ solar.active /\ next.active => FadesOut(c, solar, next)

LEMMA EcoRunningGoesOn ==
  ASSUME NEW c, SolarConfig(c), NEW solar \in SolarStates, solar.active,
         NEW power \in Nat, solar.filtered = power, NEW volts \in Nat \ {0}
  PROVE  /\ EcoRunning(c, solar, power, volts) \in Results
         /\ EcoGoesOn(c, solar, EcoRunning(c, solar, power, volts), volts)
<1> DEFINE on     == [solar EXCEPT !.startFor = None]
           waited == IF solar.stopFor = None THEN 0 ELSE solar.stopFor
           onward == [on EXCEPT !.stopFor = None]
           dims   == [on EXCEPT !.stopFor = waited]
           stops  == [on EXCEPT !.active = FALSE, !.stopFor = None,
                                !.sinceStart = 0, !.sinceStop = 0]
           amps   == Higher(Share(power, volts), c.solarMin)
           result == EcoRunning(c, solar, power, volts)
           dim    == power < Threshold(c, c.stop, volts)
<1>1. c.solarMin \in Nat /\ amps \in Nat /\ amps # None /\ c.solarMin # None
  BY ShareType, NoneIsNoInt DEF SolarConfig, Higher
<1>2. waited \in 0..LongAgo
  BY GrainAssumption DEF SolarStates, Maybe
<1> HIDE DEF amps, waited
<1> DEFINE keeps(next) == /\ next \in SolarStates /\ next.startFor = None
                          /\ next.active = TRUE /\ next.sinceStop = solar.sinceStop
                          /\ next.sinceStart = solar.sinceStart /\ next.filtered = power
<1>0. solar.active = TRUE
  BY DEF SolarStates
<1>3. keeps(on)
  BY <1>0 DEF SolarStates, Maybe
<1> HIDE DEF on
<1>6. keeps(onward)
  BY <1>3 DEF SolarStates, Maybe
<1>7. keeps(dims) /\ dims.stopFor = waited
  BY <1>2, <1>3 DEF SolarStates, Maybe
<1>8. stops \in SolarStates /\ stops.startFor = None /\ stops.active = FALSE
      /\ stops.sinceStop = 0
  BY <1>3, ZeroIsAge DEF SolarStates, Maybe
<1>10. power >= Threshold(c, c.stop, volts) => ~dim
  BY <1>1, DivisionKeepsNat DEF Threshold, Higher, SolarConfig
<1>4. \/ result = Charge(onward, amps) /\ ~dim
      \/ result = Charge(on, c.solarMin) /\ solar.sinceStart < c.minRuntime
      \/ result = Charge(dims, c.solarMin) /\ waited < c.stopDelay
      \/ result = Pause(stops, "below_min_current")
  BY <1>10 DEF EcoRunning, amps, waited, on
<1> HIDE DEF onward, dims, stops, result, dim
<1>5. result \in Results
  BY <1>1, <1>3, <1>4, <1>6, <1>7, <1>8 DEF Charge, Pause, Results, Maybe
<1>9. EcoGoesOn(c, solar, result, volts)
  <2> DEFINE goesOn(next, i) == /\ result = Charge(next, i) /\ keeps(next) /\ i # None
                                /\ dim => FadesOut(c, solar, next)
  <2>1. CASE \E next, i : goesOn(next, i)
    <3>1. PICK next, i : goesOn(next, i)
      BY <2>1
    <3>2. result.solar = next /\ result.target = i
      BY <3>1 DEF Charge
    <3> QED
      BY <1>0, <3>1, <3>2 DEF EcoGoesOn, dim
  <2>2. CASE result = Pause(stops, "below_min_current")
    <3>1. result.solar = stops /\ result.target = None
      BY <2>2 DEF Pause
    <3> QED
      BY <1>0, <1>8, <3>1 DEF EcoGoesOn
  <2>3. CASE result = Charge(onward, amps) /\ ~dim
    <3>1. goesOn(onward, amps)
      BY <1>1, <1>6, <2>3
    <3> QED
      BY <2>1, <3>1
  <2>4. CASE result = Charge(on, c.solarMin) /\ solar.sinceStart < c.minRuntime
    <3>1. goesOn(on, c.solarMin)
      BY <1>1, <1>3, <2>4 DEF FadesOut
    <3> QED
      BY <2>1, <3>1
  <2>5. CASE result = Charge(dims, c.solarMin) /\ waited < c.stopDelay
    <3>1. goesOn(dims, c.solarMin)
      BY <1>1, <1>7, <2>5 DEF FadesOut, waited
    <3> QED
      BY <2>1, <3>1
  <2> QED
    BY <1>4, <2>2, <2>3, <2>4, <2>5
<1> QED
  BY <1>5, <1>9 DEF result

LEMMA EcoWaitingGoesOn ==
  ASSUME NEW c, SolarConfig(c), NEW solar \in SolarStates, ~solar.active,
         NEW power \in Nat, solar.filtered = power, NEW volts \in Nat \ {0}
  PROVE  /\ EcoWaiting(c, solar, power, volts) \in Results
         /\ EcoGoesOn(c, solar, EcoWaiting(c, solar, power, volts), volts)
<1> DEFINE off    == [solar EXCEPT !.stopFor = None]
           waited == IF solar.startFor = None THEN 0 ELSE solar.startFor
           dull   == [off EXCEPT !.startFor = None]
           brightens == [off EXCEPT !.startFor = waited]
           starts == [solar EXCEPT !.active = TRUE, !.startFor = None, !.stopFor = None,
                                   !.sinceStart = 0]
           amps   == Higher(Share(power, volts), c.solarMin)
           result == EcoWaiting(c, solar, power, volts)
           below  == power < Threshold(c, c.start, volts)
<1>1. amps \in Nat /\ amps # None /\ power # None
  BY ShareType, NoneIsNoInt DEF SolarConfig, Higher
<1>2. waited \in 0..LongAgo /\ waited # None
  BY GrainAssumption, NoneIsNoInt DEF SolarStates, Maybe
<1> HIDE DEF amps
<1> DEFINE keeps(next) == /\ next \in SolarStates /\ next.filtered = power
                          /\ next.sinceStop = solar.sinceStop
<1>3. keeps(off) /\ ~off.active /\ off.startFor = solar.startFor
  BY DEF SolarStates, Maybe
<1> HIDE DEF off
<1>8. keeps(dull) /\ ~dull.active /\ dull.startFor = None
  BY <1>3 DEF SolarStates, Maybe
<1>9. keeps(brightens) /\ ~brightens.active /\ brightens.startFor = waited
  BY <1>2, <1>3 DEF SolarStates, Maybe
<1>10. keeps(starts) /\ starts.active /\ starts.startFor = None
  BY ZeroIsAge DEF SolarStates, Maybe
<1>4. \/ below /\ result = Pause(dull, "below_min_current")
      \/ ~below /\ solar.sinceStop < c.minPause /\ result = Pause(off, "below_min_current")
      \/ ~below /\ result = Pause(brightens, "below_min_current")
      \/ /\ ~below /\ ~(solar.sinceStop < c.minPause) /\ ~(waited < c.startDelay)
         /\ result = Charge(starts, amps)
  BY DEF EcoWaiting, EcoStart, amps, off
<1>5. ~(waited < c.startDelay) => waited >= c.startDelay
  BY <1>2 DEF SolarConfig
<1> HIDE DEF dull, brightens, starts, result, below
<1>6. result \in Results
  BY <1>1, <1>3, <1>4, <1>8, <1>9, <1>10 DEF Charge, Pause, Results, Maybe
<1>7. EcoGoesOn(c, solar, result, volts)
  BY <1>1, <1>2, <1>3, <1>4, <1>5, <1>8, <1>9, <1>10 DEF Charge, Pause, EcoGoesOn, below
<1> QED
  BY <1>6, <1>7 DEF result

(* Without a surplus Eco Solar stands still, but remembers that it is      *)
(* active.                                                                 *)
EcoStandsStill(solar, result) ==
  LET next == result.solar
  IN  /\ next.startFor = None /\ next.active = solar.active /\ next.filtered = None
      /\ next.sinceStop = solar.sinceStop /\ result.target = None

LEMMA EcoType ==
  ASSUME NEW c, SolarConfig(c), NEW solar \in SolarStates,
         NEW surplus \in Maybe(Nat), NEW volts \in Nat \ {0}, NEW d \in Nat,
         NEW result, result = Eco(c, solar, surplus, volts, d)
  PROVE  /\ result \in Results
         /\ EcoStandsStill(solar, result) \/ EcoGoesOn(c, solar, result, volts)
<1>1. CASE surplus = None
  <2> DEFINE blind == [solar EXCEPT !.filtered = None, !.startFor = None, !.stopFor = None]
  <2>1. /\ blind \in SolarStates /\ blind.startFor = None /\ blind.active = solar.active
        /\ blind.sinceStop = solar.sinceStop /\ blind.filtered = None
    BY DEF SolarStates, Maybe
  <2>2. result = Pause(blind, "sensor_unavailable")
    BY <1>1 DEF Eco
  <2> HIDE DEF blind
  <2> QED
    BY <2>1, <2>2 DEF Pause, Results, EcoStandsStill, Maybe
<1>2. CASE surplus # None
  <2> DEFINE power == Filtered(c, solar.filtered, surplus, d)
             next  == [solar EXCEPT !.filtered = power]
  <2>1. power \in Nat
    BY <1>2, FilteredType DEF SolarStates, Maybe
  <2> HIDE DEF power
  <2>2. /\ next \in SolarStates /\ next.filtered = power /\ next.active = solar.active
        /\ next.startFor = solar.startFor /\ next.sinceStop = solar.sinceStop
        /\ next.stopFor = solar.stopFor /\ next.sinceStart = solar.sinceStart
    BY <2>1 DEF SolarStates, Maybe
  <2>3. result = IF next.active THEN EcoRunning(c, next, power, volts)
                 ELSE EcoWaiting(c, next, power, volts)
    BY <1>2, <2>2 DEF Eco, power
  <2> HIDE DEF next
  <2>4. result \in Results /\ EcoGoesOn(c, next, result, volts)
    BY <2>1, <2>2, <2>3, EcoRunningGoesOn, EcoWaitingGoesOn
  <2> QED
    BY <2>2, <2>4 DEF EcoGoesOn, FadesOut
<1> QED
  BY <1>1, <1>2

LEMMA SolarType ==
  ASSUME NEW c, SolarConfig(c), NEW solar \in SolarStates, NEW strategy,
         NEW surplus \in Maybe(Nat), NEW volts \in Nat \ {0}, NEW d \in Nat,
         NEW result, result = Solar(c, solar, strategy, surplus, volts, d)
  PROVE  /\ result \in Results
         /\ strategy = "eco" => EcoStandsStill(solar, result) \/ EcoGoesOn(c, solar, result, volts)
         /\ strategy # "eco" => TimersKept(solar, result.solar)
<1>1. CASE strategy = "eco"
  <2>1. result = Eco(c, solar, surplus, volts, d)
    BY <1>1 DEF Solar
  <2> QED
    BY <1>1, <2>1, EcoType
<1>2. CASE strategy \in {"smart", "boost"}
  <2>1. result = MinimumBased(c, solar, strategy, surplus, volts, d)
    BY <1>2 DEF Solar
  <2> QED
    BY <1>2, <2>1, MinimumBasedType
<1>3. CASE strategy \notin {"eco", "smart", "boost"}
  <2>1. result = Pause(solar, "below_min_current")
    BY <1>3 DEF Solar
  <2> QED
    BY <1>3, <2>1 DEF Pause, Results, TimersKept, Maybe
<1> QED
  BY <1>1, <1>2, <1>3

LEMMA BaselineType ==
  ASSUME NEW solar \in SolarStates, NEW lastWritten \in Maybe(Nat), NEW register \in Nat
  PROVE  Baseline(solar, lastWritten, register) \in Nat
BY DEF Baseline, SolarStates, Maybe

(* The ramp never raises a target, nor lowers it below the minimum.        *)
LEMMA RampedType ==
  ASSUME NEW c, SolarConfig(c), NEW target \in Maybe(Nat), NEW baseline \in Nat
  PROVE  /\ Ramped(c, target, baseline) \in Maybe(Nat)
         /\ target = None <=> Ramped(c, target, baseline) = None
         /\ target # None => /\ Ramped(c, target, baseline) <= target
                             /\ target >= c.min => Ramped(c, target, baseline) >= c.min
<1>1. c.min \in Nat /\ c.ramp = 2000
  BY DEF SolarConfig, LimitsConfig
<1> QED
  BY <1>1, NoneIsNoInt DEF Ramped, Lower, Higher, Maybe
=============================================================================
