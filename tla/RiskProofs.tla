------------------------------- MODULE RiskProofs ------------------------------
(***************************************************************************)
(* Theorems of RiskManager, for every set of orders, settings and prices,  *)
(* every pair of windows and every bound: types, that the OMS follows the  *)
(* settings, and that neither the rate nor the duplicate check can be      *)
(* outrun. All of them rest on ConfigAssumption and RiskAssumption.        *)
(***************************************************************************)
EXTENDS RiskManager, FiniteSetTheorems, TLAPS

\* Rows about to be applied that are no longer those of the table are known to be so; but
\* an empty table's "no rows" may be overtaken by the seed, which changes nothing.
ApplyInv ==
  loader.pc \in {"startApply", "apply"} =>
    \/ loader.read = dbConfig
    \/ loader.read = NoRows /\ cfg = dbConfig
    \/ announcing > 0 \/ notices > 0 \/ missed

\* As long as the table is empty, the OMS has the defaults and no rows in its hands.
SeedInv == dbConfig = NoRows => cfg = Defaults /\ loader.read = NoRows

\* What the list of recent orders holds: orders of this process only, and all those it let
\* pass in the last minute.
RecentInv ==
  /\ IsFiniteSet(recent)
  /\ \A e \in recent : e.life = life
  /\ \A e \in passed : e.time <= now /\ e.life <= life
  /\ \A e \in passed : e.life = life /\ Within(e, RateWindow) => e \in recent

IInv == TypeOK /\ ApplyInv /\ SeedInv /\ SettingsFollow /\ RecentInv /\ NoTwins

--------------------------------------------------------------------------------
(* The settings *)

LEMMA DefaultsType ==
  /\ Defaults \in Settings /\ Settings \subseteq [Keys -> Nat]
  /\ NoRows \in Tables /\ Defaults \in Tables /\ NoRows \notin Settings
<1>1. Defaults \in Settings /\ Settings \subseteq [Keys -> Nat] /\ Keys # {}
    BY ConfigAssumption DEF Keys
<1>2. DOMAIN NoRows = {}
    BY DEF NoRows
<1> QED
    BY <1>1, <1>2 DEF Tables

\* What a load may leave behind: settings; all those of the table; or what was there.
LEMMA AppliedType ==
  ASSUME NEW old \in [Keys -> Nat], NEW read \in Tables, NEW S \in SUBSET DOMAIN read
  PROVE  /\ Applied(old, read, S) \in [Keys -> Nat]
         /\ read # NoRows => Applied(old, read, DOMAIN read) = read
         /\ read = NoRows => Applied(old, read, S) = old
<1>1. CASE read \in Settings
  <2>1. read \in [Keys -> Nat] /\ read # NoRows
      BY <1>1, DefaultsType
  <2> QED
      BY <2>1 DEF Applied
<1>2. CASE read = NoRows
  <2>1. S = {}
      BY <1>2 DEF NoRows
  <2> QED
      BY <1>2, <2>1 DEF Applied
<1> QED
    BY <1>1, <1>2 DEF Tables

ConfigInv == ConfigTypeOK /\ ApplyInv /\ SeedInv /\ SettingsFollow

LEMMA ConfigStart == ConfigInit => ConfigInv
<1> SUFFICES ASSUME ConfigInit PROVE ConfigInv
    OBVIOUS
<1> Starting \in [pc : LoaderSteps, read : Tables]
    BY DefaultsType DEF Starting, LoaderSteps
<1> subscribed \in BOOLEAN /\ missed \in BOOLEAN
    BY Zenon DEF ConfigInit
<1>1. ConfigTypeOK
    BY DefaultsType, ConfigAssumption DEF ConfigInit, ConfigTypeOK
<1>2. ApplyInv /\ SeedInv /\ SettingsFollow
    BY DEF ConfigInit, ApplyInv, SeedInv, SettingsFollow, Loading, Starting
<1> QED
    BY <1>1, <1>2 DEF ConfigInv

\* Every step of the gateway and of the loading goroutine keeps the settings' invariant.
LEMMA ConfigStep == ConfigInv /\ ConfigNext => ConfigInv'
<1> SUFFICES ASSUME ConfigInv, ConfigNext PROVE ConfigInv'
    OBVIOUS
<1> USE DEF ConfigInv
<1> DefaultsType
    BY DefaultsType
<1>0. CASE Seed
  <2>1. /\ dbConfig = NoRows /\ dbConfig' = Defaults /\ Defaults # NoRows
        /\ UNCHANGED <<announcing, notices, subscribed, cfg, loader, missed, changes, faults>>
      BY <1>0 DEF Seed
  <2>2. ConfigTypeOK'
      BY <2>1 DEF ConfigTypeOK
  <2>3. cfg = Defaults /\ loader.read = NoRows
      BY <2>1 DEF SeedInv
  <2>4. ApplyInv' /\ SeedInv'
      BY <2>1, <2>3 DEF ApplyInv, SeedInv
  <2>5. SettingsFollow'
      BY <2>1, <2>3 DEF SettingsFollow, InForce
  <2> QED
      BY <2>2, <2>4, <2>5
<1>1. CASE Commit
  <2>1. dbConfig' \in Tables /\ (dbConfig' = NoRows => dbConfig = NoRows)
      BY <1>1 DEF Commit, Tables
  <2>2. ConfigTypeOK'
      BY <1>1, <2>1, ConfigAssumption DEF Commit, ConfigTypeOK
  <2>3. announcing' > 0
      BY <1>1 DEF Commit, ConfigTypeOK
  <2>4. SeedInv'
      BY <1>1, <2>1 DEF Commit, SeedInv
  <2> QED
      BY <2>2, <2>3, <2>4 DEF ApplyInv, SettingsFollow
<1>2. CASE Announce
  <2> missed' \in BOOLEAN
      BY <1>2, Zenon DEF Announce, ConfigTypeOK
  <2>1. ConfigTypeOK'
      BY <1>2 DEF Announce, ConfigTypeOK
  <2>2. notices' > 0 \/ missed'
      BY <1>2 DEF Announce, ConfigTypeOK
  <2>3. SeedInv'
      BY <1>2 DEF Announce, SeedInv
  <2> QED
      BY <2>1, <2>2, <2>3 DEF ApplyInv, SettingsFollow
<1>3. CASE TakeNotice
  <2>1. ConfigTypeOK'
      BY <1>3 DEF TakeNotice, ConfigTypeOK, LoaderSteps
  <2>2. loader'.pc = "query" /\ loader'.read = loader.read
      BY <1>3 DEF TakeNotice, ConfigTypeOK
  <2>3. SeedInv'
      BY <1>3, <2>2 DEF TakeNotice, SeedInv
  <2> QED
      BY <2>1, <2>2, <2>3 DEF ApplyInv, SettingsFollow, Loading
<1>4. CASE Query
  <2> missed' \in BOOLEAN
      BY <1>4, Zenon DEF Query, ConfigTypeOK
  <2> loader' \in [pc : LoaderSteps, read : Tables]
      BY <1>4 DEF Query, ConfigTypeOK, LoaderSteps, AfterLoad, AtStart
  <2>1. ConfigTypeOK'
      BY <1>4 DEF Query, ConfigTypeOK
  <2>2. \/ loader'.pc \in {"startApply", "apply"} /\ loader'.read = dbConfig'
        \/ missed'
      BY <1>4 DEF Query, ConfigTypeOK
  <2>3. loader'.read \in {dbConfig, loader.read} /\ UNCHANGED <<dbConfig, cfg>>
      BY <1>4 DEF Query, ConfigTypeOK
  <2>4. SeedInv'
      BY <2>3 DEF SeedInv
  <2> QED
      BY <2>1, <2>2, <2>4 DEF ApplyInv, SettingsFollow, Loading
<1>5. CASE Apply
  <2>1. cfg \in [Keys -> Nat] /\ loader.read \in Tables
      BY DEF ConfigTypeOK
  <2>2. PICK S \in SUBSET DOMAIN loader.read :
          /\ cfg' = Applied(cfg, loader.read, S)
          /\ S = DOMAIN loader.read \/ missed'
      BY <1>5 DEF Apply
  <2>3. /\ cfg' \in [Keys -> Nat]
        /\ loader.read = NoRows => cfg' = cfg
        /\ loader.read # NoRows => cfg' = loader.read \/ missed'
      BY <2>1, <2>2, AppliedType
  <2> missed' \in BOOLEAN
      BY <1>5, Zenon DEF Apply, ConfigTypeOK
  <2> loader' \in [pc : LoaderSteps, read : Tables]
      BY <1>5 DEF Apply, ConfigTypeOK, LoaderSteps, AfterLoad, AtStart
  <2>4. ConfigTypeOK'
      BY <1>5, <2>3 DEF Apply, ConfigTypeOK
  <2>5. /\ loader'.pc \in {"subscribe", "idle"} /\ loader'.read = NoRows
        /\ loader.pc \in {"startApply", "apply"}
        /\ UNCHANGED <<dbConfig, announcing, notices>> /\ (missed => missed')
      BY <1>5 DEF Apply, ConfigTypeOK, AfterLoad
  <2>6. SeedInv'
      BY <2>3, <2>5 DEF SeedInv
  <2>7. cfg' = InForce' \/ announcing' > 0 \/ notices' > 0 \/ missed'
    <3>1. CASE dbConfig = NoRows
        BY <2>5, <2>6, <3>1 DEF SeedInv, InForce
    <3>2. CASE dbConfig # NoRows
        BY <2>3, <2>5, <3>2 DEF ApplyInv, InForce
    <3> QED
        BY <3>1, <3>2
  <2> QED
      BY <2>4, <2>5, <2>6, <2>7 DEF ApplyInv, SettingsFollow
<1>6. CASE Subscribe
  <2>1. ConfigTypeOK'
      BY <1>6 DEF Subscribe, ConfigTypeOK, LoaderSteps
  <2>2. loader'.pc = "idle" /\ loader'.read = loader.read
      BY <1>6 DEF Subscribe, ConfigTypeOK
  <2>3. ~Loading
      BY <1>6 DEF Subscribe, Loading
  <2>4. SeedInv'
      BY <1>6, <2>2 DEF Subscribe, SeedInv
  <2> QED
      BY <1>6, <2>1, <2>2, <2>3, <2>4 DEF Subscribe, ApplyInv, SettingsFollow, InForce
<1> QED
    BY <1>0, <1>1, <1>2, <1>3, <1>4, <1>5, <1>6 DEF ConfigNext

LEMMA ConfigStill == ConfigInv /\ UNCHANGED configVars => ConfigInv'
BY DEF ConfigInv, configVars, ConfigTypeOK, ApplyInv, SeedInv, SettingsFollow, Loading, InForce

LEMMA RestartStep ==
  ASSUME ConfigInv, ConfigRestart, faults' \in Nat
  PROVE  ConfigInv'
<1> Starting \in [pc : LoaderSteps, read : Tables]
    BY DefaultsType DEF Starting, LoaderSteps
<1> subscribed' \in BOOLEAN /\ missed' \in BOOLEAN
    BY Zenon DEF ConfigRestart
<1>1. ConfigTypeOK'
    BY DefaultsType, ConfigAssumption DEF ConfigInv, ConfigRestart, ConfigTypeOK
<1>2. loader'.pc = "startQuery" /\ loader'.read = NoRows /\ cfg' = Defaults
    BY DEF ConfigRestart, Starting
<1> QED
    BY <1>1, <1>2 DEF ConfigInv, ApplyInv, SeedInv, SettingsFollow, Loading

--------------------------------------------------------------------------------
(* The orders *)

RiskTypeOK ==
  /\ now \in Nat /\ life \in Nat /\ checks \in Nat
  /\ hand \subseteq [order : Orders, limits : [Keys -> Nat], lost : Losses]
  /\ \A g, h \in hand : g = h
  /\ recent \subseteq Entry
  /\ passed \subseteq Entry
  /\ filled \subseteq passed
  /\ rows \in [Symbols -> Position]
  /\ tracker \in [Symbols -> Position]
  /\ loss \in [true : Losses, seen : Losses]

RiskInv == RiskTypeOK /\ RecentInv /\ NoTwins

LEMMA Parts == IInv <=> ConfigInv /\ RiskInv
BY DEF IInv, TypeOK, ConfigInv, RiskInv, RiskTypeOK

LEMMA RiskStart == Init => RiskInv
<1> SUFFICES ASSUME Init PROVE RiskInv
    OBVIOUS
<1>1. RiskTypeOK
    BY RiskAssumption DEF Init, RiskTypeOK, NoPositions, Position
<1>2. RecentInv /\ NoTwins
    BY FS_EmptySet DEF Init, RecentInv, NoTwins
<1> QED
    BY <1>1, <1>2 DEF RiskInv

\* Steps that touch neither the list nor the orders that passed.
LEMMA SameOrders ==
  ASSUME RecentInv, NoTwins, UNCHANGED <<now, life, recent, passed>>
  PROVE  RecentInv' /\ NoTwins'
BY DEF RecentInv, NoTwins, Within

LEMMA RiskStill == RiskInv /\ UNCHANGED riskVars => RiskInv'
BY SameOrders DEF RiskInv, RiskTypeOK, riskVars

LEMMA StartCheckInv ==
  ASSUME ConfigTypeOK, RiskInv, NEW o \in Orders, StartCheck(o)
  PROVE  RiskInv'
<1>1. RiskTypeOK'
  <2>1. hand' = {[order |-> o, limits |-> cfg, lost |-> loss.true]}
      BY DEF StartCheck
  <2>2. loss.true \in Losses /\ cfg \in [Keys -> Nat]
      BY DEF RiskInv, RiskTypeOK, ConfigTypeOK
  <2>3. /\ hand' \subseteq [order : Orders, limits : [Keys -> Nat], lost : Losses]
        /\ \A g, h \in hand' : g = h
      BY <2>1, <2>2
  <2> QED
      BY <2>3 DEF RiskInv, RiskTypeOK, StartCheck
<1>2. RecentInv' /\ NoTwins'
    BY SameOrders DEF RiskInv, StartCheck
<1> QED
    BY <1>1, <1>2 DEF RiskInv

\* The orders a process let pass within the last minute are among those it looks at.
LEMMA PassedIsPruned ==
  ASSUME RiskInv, NEW e \in passed, e.life = life, Within(e, RateWindow)
  PROVE  e \in Pruned
BY DEF RiskInv, RecentInv, Pruned

LEMMA PrunedFinite ==
  ASSUME RecentInv
  PROVE  /\ IsFiniteSet(Pruned)
         /\ Pruned \subseteq recent
<1>1. Pruned \subseteq recent
    BY DEF Pruned
<1> QED
    BY <1>1, FS_Subset DEF RecentInv

\* An order that passes has no twin in its process within the duplicate window.
LEMMA PassingHasNoTwin ==
  ASSUME RiskInv, NEW o \in Orders, checkDuplicateOrder(o),
         NEW e \in passed, e.life = life, SameAs(e.order, o) \/ SameAs(o, e.order)
  PROVE  e.time + DuplicateWindow <= now
<1>1. e \in Entry /\ now \in Nat
    BY DEF RiskInv, RiskTypeOK
<1>2. e.time \in Nat
    BY <1>1 DEF Entry
<1>3. SUFFICES ASSUME ~(e.time + DuplicateWindow <= now) PROVE FALSE
    OBVIOUS
<1>4. Within(e, DuplicateWindow) /\ Within(e, RateWindow)
    BY <1>1, <1>2, <1>3, RiskAssumption DEF Within
<1>5. e \in Pruned
    BY <1>4, PassedIsPruned
<1> QED
    BY <1>4, <1>5 DEF checkDuplicateOrder, SameAs

LEMMA FinishCheckInv ==
  ASSUME RiskInv, NEW h \in hand, NEW others \in OtherChecks, FinishCheck(h, others)
  PROVE  RiskInv'
<1> DEFINE entry == [id |-> checks, order |-> h.order, time |-> now, life |-> life]
<1>1. /\ hand' = {} /\ checks' = checks + 1 /\ recent' = Pruned \cup {entry}
      /\ UNCHANGED <<now, life, filled, rows, tracker, loss>>
    BY DEF FinishCheck
<1>2. \/ passed' = passed
      \/ passed' = passed \cup {entry} /\ AllPassed(h.order, h.limits, others)
    BY DEF FinishCheck
<1>3. h.order \in Orders /\ now \in Nat /\ life \in Nat
    BY DEF RiskInv, RiskTypeOK
<1>4. entry \in Entry
    BY <1>3 DEF Entry, RiskInv, RiskTypeOK
<1>5. RiskTypeOK'
    BY <1>1, <1>2, <1>4, PrunedFinite DEF RiskInv, RiskTypeOK
<1>6. RecentInv'
  <2>1. IsFiniteSet(recent')
      BY <1>1, PrunedFinite, FS_AddElement DEF RiskInv
  <2>2. \A e \in recent' : e.life = life'
      BY <1>1, PrunedFinite DEF RiskInv, RecentInv
  <2>3. \A e \in passed' : e.time <= now' /\ e.life <= life'
      BY <1>1, <1>2, <1>3 DEF RiskInv, RecentInv
  <2>4. ASSUME NEW e \in passed', e.life = life', Within(e, RateWindow)' PROVE e \in recent'
    <3>1. CASE e = entry
        BY <1>1, <3>1
    <3>2. CASE e \in passed
        BY <1>1, <2>4, <3>2, PassedIsPruned DEF Within
    <3> QED
        BY <1>2, <3>1, <3>2
  <2> QED
      BY <2>1, <2>2, <2>3, <2>4 DEF RecentInv
<1>7. NoTwins'
  <2>1. CASE passed' = passed
      BY <2>1 DEF RiskInv, NoTwins
  <2>2. CASE passed' = passed \cup {entry} /\ AllPassed(h.order, h.limits, others)
    <3>1. checkDuplicateOrder(h.order)
        BY <2>2 DEF AllPassed
    <3> SUFFICES ASSUME NEW d \in passed', NEW e \in passed', d # e, d.life = e.life,
                        SameAs(d.order, e.order), d.time <= e.time
                 PROVE  d.time + DuplicateWindow <= e.time
        BY DEF NoTwins
    <3>2. CASE d \in passed /\ e \in passed
        BY <3>2 DEF RiskInv, NoTwins
    <3>3. CASE d \in passed /\ e = entry
      <4>1. d.life = life /\ SameAs(d.order, h.order) /\ e.time = now
          BY <3>3
      <4> QED
          BY <1>3, <3>1, <3>3, <4>1, PassingHasNoTwin
    <3>4. CASE d = entry /\ e \in passed
      <4>1. e.life = life /\ SameAs(h.order, e.order) /\ d.time = now
          BY <3>4
      <4>2. e.time + DuplicateWindow <= now
          BY <1>3, <3>1, <3>4, <4>1, PassingHasNoTwin
      <4>3. e.time \in Nat
          BY <3>4 DEF RiskInv, RiskTypeOK, Entry
      <4> QED
          BY <1>3, <4>1, <4>2, <4>3, RiskAssumption
    <3> QED
        BY <2>2, <3>2, <3>3, <3>4
  <2> QED
      BY <1>2, <2>1, <2>2
<1> QED
    BY <1>5, <1>6, <1>7 DEF RiskInv

LEMMA BookedType ==
  ASSUME NEW row \in Position, NEW o \in Orders, NEW price \in Nat
  PROVE  Booked(row, o, price) \in Position
<1>1. o.quantity \in Nat \ {0}
    BY RiskAssumption
<1>2. row.quantity \in Nat /\ row.price \in Nat
    BY DEF Position
<1>3. CASE o.side = "BUY" /\ row.quantity = 0
    BY <1>1, <1>3 DEF Booked, Position
<1>4. CASE o.side = "BUY" /\ row.quantity # 0
    BY <1>1, <1>2, <1>4 DEF Booked, Position
<1>5. CASE o.side = "SELL" /\ row.quantity > o.quantity
    BY <1>1, <1>2, <1>5 DEF Booked, Position
<1>6. CASE ~(o.side = "BUY") /\ ~(o.side = "SELL" /\ row.quantity > o.quantity)
    BY <1>6 DEF Booked, Position
<1> QED
    BY <1>3, <1>4, <1>5, <1>6

LEMMA FillInv ==
  ASSUME RiskInv, NEW e \in passed, NEW price \in Nat, Fill(e, price)
  PROVE  RiskInv'
<1>1. e.order \in Orders
    BY DEF RiskInv, RiskTypeOK, Entry
<1>2. e.order.symbol \in Symbols
    BY <1>1, RiskAssumption
<1>3. rows' \in [Symbols -> Position]
    BY <1>1, <1>2, BookedType DEF RiskInv, RiskTypeOK, Fill
<1>4. RiskTypeOK'
    BY <1>3 DEF RiskInv, RiskTypeOK, Fill
<1>5. RecentInv' /\ NoTwins'
    BY SameOrders DEF RiskInv, Fill
<1> QED
    BY <1>4, <1>5 DEF RiskInv

LEMMA PricesMoveInv == RiskInv /\ PricesMove => RiskInv'
<1> SUFFICES ASSUME RiskInv, PricesMove PROVE RiskInv'
    OBVIOUS
<1>1. RiskTypeOK'
    BY DEF RiskInv, RiskTypeOK, PricesMove
<1>2. RecentInv' /\ NoTwins'
    BY SameOrders DEF RiskInv, PricesMove
<1> QED
    BY <1>1, <1>2 DEF RiskInv

LEMMA TickInv == RiskInv /\ Tick => RiskInv'
<1> SUFFICES ASSUME RiskInv, Tick PROVE RiskInv'
    OBVIOUS
<1>1. RiskTypeOK' /\ NoTwins'
    BY DEF RiskInv, RiskTypeOK, NoTwins, Tick
<1>2. ASSUME NEW e \in passed
      PROVE  /\ e.time \in Nat
             /\ Within(e, RateWindow)' => Within(e, RateWindow)
    BY RiskAssumption DEF RiskInv, RiskTypeOK, Entry, Tick, Within
<1>3. RecentInv'
    BY <1>2 DEF RiskInv, RiskTypeOK, RecentInv, Tick
<1> QED
    BY <1>1, <1>3 DEF RiskInv

LEMMA RestartInv == RiskInv /\ Restart => RiskInv'
<1> SUFFICES ASSUME RiskInv, Restart PROVE RiskInv'
    OBVIOUS
<1>1. PICK l \in Losses : loss' = [loss EXCEPT !.seen = l]
    BY RiskAssumption DEF Restart
<1>0. tracker' \in [Symbols -> Position]
    BY DEF Restart, Loaded, RiskInv, RiskTypeOK, NoPositions, Position
<1>2. RiskTypeOK' /\ NoTwins'
    BY <1>0, <1>1 DEF RiskInv, RiskTypeOK, NoTwins, Restart
<1>3. IsFiniteSet(recent') /\ (\A e \in recent' : e.life = life')
    BY FS_EmptySet DEF Restart
<1>4. ASSUME NEW e \in passed' PROVE e.time <= now' /\ e.life < life'
    BY DEF Restart, RiskInv, RiskTypeOK, Entry, RecentInv
<1>5. RecentInv'
    BY <1>2, <1>3, <1>4 DEF RecentInv, RiskTypeOK, Entry
<1> QED
    BY <1>2, <1>5 DEF RiskInv

--------------------------------------------------------------------------------
(* Theorems *)

LEMMA FillPrice ==
  ASSUME RiskInv, NEW e \in passed, NEW price \in Prices
  PROVE  (IF e.order.limit # 0 THEN e.order.limit ELSE price) \in Nat
BY RiskAssumption DEF RiskInv, RiskTypeOK, Entry

LEMMA StepInv == IInv /\ [Next]_vars => IInv'
<1> SUFFICES ASSUME ConfigInv, RiskInv, [Next]_vars PROVE ConfigInv' /\ RiskInv'
    BY Parts DEF IInv, TypeOK, ConfigInv, RiskInv, RiskTypeOK
<1>1. CASE ConfigNext /\ UNCHANGED riskVars
    BY <1>1, ConfigStep, RiskStill
<1>2. ASSUME NEW o \in Orders, StartCheck(o) PROVE ConfigInv' /\ RiskInv'
  <2>1. UNCHANGED configVars
      BY <1>2 DEF StartCheck
  <2> QED
      BY <1>2, <2>1, ConfigStill, StartCheckInv DEF ConfigInv
<1>3. ASSUME NEW h \in hand, NEW others \in OtherChecks, FinishCheck(h, others)
      PROVE  ConfigInv' /\ RiskInv'
  <2>1. UNCHANGED configVars
      BY <1>3 DEF FinishCheck
  <2> QED
      BY <1>3, <2>1, ConfigStill, FinishCheckInv
<1>4. ASSUME NEW e \in passed, NEW price \in Prices,
             Fill(e, IF e.order.limit # 0 THEN e.order.limit ELSE price)
      PROVE  ConfigInv' /\ RiskInv'
  <2>1. UNCHANGED configVars
      BY <1>4 DEF Fill
  <2> QED
      BY <1>4, <2>1, ConfigStill, FillPrice, FillInv
<1>5. CASE PricesMove
    BY <1>5, ConfigStill, PricesMoveInv DEF PricesMove
<1>6. CASE Tick
    BY <1>6, ConfigStill, TickInv DEF Tick
<1>7. CASE Restart
  <2>1. faults' \in Nat
      BY <1>7 DEF Restart, ConfigInv, ConfigTypeOK
  <2> QED
      BY <1>7, <2>1, RestartStep, RestartInv DEF Restart
<1>8. CASE UNCHANGED vars
    BY <1>8, ConfigStill, RiskStill DEF vars
<1> QED
    BY <1>1, <1>2, <1>3, <1>4, <1>5, <1>6, <1>7, <1>8 DEF Next

\* The inductive invariant: see its parts.
THEOREM RiskInvariance == Spec => []IInv
<1>1. Init => IInv
    BY Parts, ConfigStart, RiskStart DEF Init
<1> QED
    BY <1>1, StepInv, PTL DEF Spec

\* Every variable keeps its type; messages are never more than the committed changes.
THEOREM RiskTypeCorrect == Spec => []TypeOK
<1>1. IInv => TypeOK
    BY DEF IInv
<1> QED
    BY <1>1, RiskInvariance, PTL

\* The OMS (LoadFromDB, SubscribeChanges) goes by the settings of the table unless
\* something is under way or was lost.
THEOREM SettingsFollowHolds == Spec => []SettingsFollow
<1>1. IInv => SettingsFollow
    BY DEF IInv
<1> QED
    BY <1>1, RiskInvariance, PTL

\* No process lets twins pass within the duplicate window (checkDuplicateOrder).
THEOREM NoTwinsHolds == Spec => []NoTwins
<1>1. IInv => NoTwins
    BY DEF IInv
<1> QED
    BY <1>1, RiskInvariance, PTL

LEMMA OneMore ==
  ASSUME NEW S, IsFiniteSet(S), NEW x
  PROVE  /\ IsFiniteSet(S \cup {x})
         /\ Cardinality(S \cup {x}) \in Nat
         /\ Cardinality(S \cup {x}) <= Cardinality(S) + 1
<1>1. Cardinality(S) \in Nat
    BY FS_CardinalityType
<1>2. /\ IsFiniteSet(S \cup {x})
      /\ Cardinality(S \cup {x}) = IF x \in S THEN Cardinality(S) ELSE Cardinality(S) + 1
    BY FS_AddElement
<1> QED
    BY <1>1, <1>2

\* In the step in which an order passes, the minute's orders are within the limit.
LEMMA RateStep ==
  ASSUME IInv, [Next]_vars, NEW e \in passed' \ passed, NEW h \in hand
  PROVE  Cardinality(ThisMinute(passed')) <= h.limits["max_orders"]
<1>1. PICK others \in OtherChecks : FinishCheck(h, others)
  <2>1. passed' # passed
      OBVIOUS
  <2>2. \A g \in hand : g = h
      BY DEF IInv, TypeOK
  <2>3. PICK g \in hand, others \in OtherChecks : FinishCheck(g, others)
      BY <2>1 DEF Next, vars, riskVars, StartCheck, Fill, PricesMove, Tick, Restart
  <2> QED
      BY <2>2, <2>3
<1> DEFINE entry == [id |-> checks, order |-> h.order, time |-> now, life |-> life]
<1>2. passed' = passed \cup {entry} /\ AllPassed(h.order, h.limits, others)
    BY <1>1 DEF FinishCheck
<1>3. RiskInv
    BY Parts
<1>4. ThisMinute(passed') \subseteq Pruned \cup {entry}
    BY <1>2, <1>3, PassedIsPruned DEF ThisMinute
<1>5. IsFiniteSet(Pruned) /\ Cardinality(Pruned) \in Nat
    BY <1>3, PrunedFinite, FS_CardinalityType DEF RiskInv
<1>6. /\ IsFiniteSet(Pruned \cup {entry})
      /\ Cardinality(Pruned \cup {entry}) \in Nat
      /\ Cardinality(Pruned \cup {entry}) <= Cardinality(Pruned) + 1
    BY <1>5, OneMore
<1>7. /\ Cardinality(ThisMinute(passed')) \in Nat
      /\ Cardinality(ThisMinute(passed')) <= Cardinality(Pruned \cup {entry})
    BY <1>4, <1>6, FS_Subset, FS_CardinalityType
<1>8. h.limits["max_orders"] \in Nat
    BY <1>3, RiskAssumption DEF RiskInv, RiskTypeOK
<1>9. Cardinality(Pruned) < h.limits["max_orders"]
    BY <1>2 DEF AllPassed, checkOrderRate
<1> QED
    BY <1>5, <1>6, <1>7, <1>8, <1>9

\* checkOrderRate cannot be outrun: see RateHolds.
THEOREM RateHoldsAlways == Spec => RateHolds
<1>1. IInv /\ [Next]_vars =>
        [\A e \in passed' \ passed : \A h \in hand :
           Cardinality(ThisMinute(passed')) <= h.limits["max_orders"]]_vars
    BY RateStep
<1> QED
    BY <1>1, RiskInvariance, PTL DEF Spec, RateHolds
================================================================================
