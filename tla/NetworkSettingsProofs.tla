------------------------ MODULE NetworkSettingsProofs ------------------------
(***************************************************************************)
(* Proofs about a run-time update of a network: its settings, for any      *)
(* documents, tokens and pools and any number of updates; and the locks    *)
(* it takes and the other tasks nest, for any tasks and any changes.  The  *)
(* two modules have no variable in common.                                 *)
(***************************************************************************)
EXTENDS NetworkSettings, RuntimeLocks, TLAPS, SequenceTheorems, WellFoundedInduction

LEMMA OrderIs ==
    /\ Len(Order) = 12 /\ DOMAIN Order = 1..12
    /\ Order[1] = "name" /\ Order[2] = "priceName" /\ Order[3] = "rpcs"
    /\ Order[4] = "poolsRpcs" /\ Order[5] = "followerRpcs" /\ Order[6] = "wrap"
    /\ Order[7] = "minProfit" /\ Order[8] = "aero" /\ Order[9] = "fees"
    /\ Order[10] = "multicall" /\ Order[11] = "wait" /\ Order[12] = "batch"
BY DEF Order

LEMMA OrderInjective == \A i, j \in 1..12 : Order[i] = Order[j] => i = j
BY OrderIs

LEMMA CopiesAre == Copies = {Order[i] : i \in 1..12}
BY OrderIs DEF Copies

(* A document that parses asks for the same under both of AtStart and Want. *)
LEMMA Parses ==
    ASSUME NEW d \in Documents, NEW c \in Copies, Wanted(d, c) = Bad
    PROVE  c \in Addresses
<1>1. /\ c = "name" \/ c = "priceName" \/ c = "rpcs" \/ c = "poolsRpcs" \/ c = "followerRpcs"
         \/ c = "minProfit" \/ c = "fees" \/ c = "wait" \/ c = "batch" \/ c \in Addresses
  BY CopiesAre, OrderIs DEF Addresses
<1>2. CASE c \notin Addresses
  <2>1. Source(c) \in Settings \ Addresses
    BY <1>1, <1>2 DEF Source, Settings, Addresses
  <2>2. Wanted(d, c) = Content[d][Source(c)]
    BY <1>2 DEF Wanted, Addresses
  <2> QED
    BY <2>1, <2>2, SettingsAssumption
<1> QED
  BY <1>2
-----------------------------------------------------------------------------
(* The copies of the settings. *)
Agrees(h) ==
    /\ h["priceName"] = h["name"]
    /\ h["poolsRpcs"] = h["rpcs"] /\ h["followerRpcs"] = h["rpcs"]

(* The copies before the position are settled, the others not.             *)
Applied ==
    \A i \in 1..12 : held[Order[i]] = IF i < at THEN Want(Order[i]) ELSE before[Order[i]]

Shape ==
    /\ status \in {"down", "up", "dead"} /\ DOMAIN held = Copies
    /\ at \in 0..13 /\ (at > 0 => status = "up" /\ handed \in Documents /\ outcome = None)
    /\ status = "down" => outcome # "ok"

(* An update starts from copies that agree and leaves such behind.         *)
Updating == at > 0 => Applied /\ Agrees(before)
Resting == at = 0 => Agrees(held)
Ended == outcome = "ok" => \A c \in Copies : held[c] = AtStart(handed, c)

(* No copy holds an address that does not parse.                           *)
Parsed == \A c \in Copies : held[c] # Bad

SettingsInv == Shape /\ Updating /\ Resting /\ Ended /\ Parsed
-----------------------------------------------------------------------------
LEMMA WantPairs ==
    Want("priceName") = Want("name") /\ Want("poolsRpcs") = Want("rpcs")
    /\ Want("followerRpcs") = Want("rpcs")
BY DEF Want, Wanted, Source

(* Between the groups of copies that belong together they agree.           *)
LEMMA AgreeBetween ==
    ASSUME Shape, at > 0, at \notin {2, 4, 5}, Applied, Agrees(before) PROVE Agrees(held)
<1>1. /\ held["name"] = IF 1 < at THEN Want("name") ELSE before["name"]
      /\ held["priceName"] = IF 2 < at THEN Want("priceName") ELSE before["priceName"]
      /\ held["rpcs"] = IF 3 < at THEN Want("rpcs") ELSE before["rpcs"]
      /\ held["poolsRpcs"] = IF 4 < at THEN Want("poolsRpcs") ELSE before["poolsRpcs"]
      /\ held["followerRpcs"] = IF 5 < at THEN Want("followerRpcs") ELSE before["followerRpcs"]
  BY OrderIs DEF Applied
<1> QED
  BY <1>1, WantPairs DEF Agrees, Shape

LEMMA AtPosition == \A i \in 1..12 : At(Order[i]) <=> at = i
BY OrderIs, OrderInjective DEF At

LEMMA SettleApplies ==
    ASSUME Shape, Applied, NEW c, At(c), Settle(c), UNCHANGED <<handed, before>>
    PROVE  Applied' /\ at' \in 1..13 /\ DOMAIN held' = Copies
<1>1. at \in 1..12 /\ Order[at] = c /\ c \in Copies
  BY OrderIs, CopiesAre DEF At
<1>2. at' = at + 1 /\ \A i \in 1..12 : held'[Order[i]] = IF i = at THEN Want(Order[i]) ELSE held[Order[i]]
  BY <1>1, OrderInjective, CopiesAre DEF Settle, Shape
<1>3. \A i \in 1..12 : Want(Order[i])' = Want(Order[i])
  BY DEF Want
<1>4. \A i \in 1..12 : i < at' <=> i < at \/ i = at
  BY <1>1, <1>2
<1>5. \A i \in 1..12 : held'[Order[i]] = IF i < at' THEN Want(Order[i])' ELSE before'[Order[i]]
  BY <1>1, <1>2, <1>3, <1>4 DEF Applied
<1> QED
  BY <1>1, <1>2, <1>5 DEF Applied, Settle, Shape

(* Copies are skipped only if they hold the document's value already.      *)
LEMMA SkipApplies ==
    ASSUME Shape, Applied, NEW n \in 1..3, at > 0, at + n <= 13, Skip(n), UNCHANGED <<handed, before>>,
           \A i \in 1..12 : at <= i /\ i < at + n => held[Order[i]] = Want(Order[i])
    PROVE  Applied' /\ at' \in 1..13 /\ DOMAIN held' = Copies
<1>1. at' = at + n /\ held' = held /\ at \in 1..13
  BY DEF Skip, Shape
<1>2. \A i \in 1..12 : Want(Order[i])' = Want(Order[i])
  BY DEF Want
<1>3. \A i \in 1..12 : i < at' <=> i < at \/ (at <= i /\ i < at + n)
  BY <1>1
<1>4. \A i \in 1..12 : held'[Order[i]] = IF i < at' THEN Want(Order[i])' ELSE before'[Order[i]]
  BY <1>1, <1>2, <1>3 DEF Applied
<1> QED
  BY <1>1, <1>4 DEF Applied, Shape
-----------------------------------------------------------------------------
LEMMA InitSettings == Init => SettingsInv
<1> SUFFICES ASSUME Init PROVE SettingsInv
  OBVIOUS
<1>1. Agrees(held)
  BY CopiesAre, OrderIs DEF Init, Agrees
<1> QED
  BY <1>1, SettingsAssumption DEF Init, SettingsInv, Shape, Updating, Resting, Ended, Parsed, None

(* One step of update_network. *)
LEMMA StepUpdate == SettingsInv /\ UpdateStep => SettingsInv'
<1> SUFFICES ASSUME SettingsInv, UpdateStep PROVE SettingsInv'
  OBVIOUS
<1>t. Shape /\ Updating /\ Resting /\ Ended /\ Parsed
  BY DEF SettingsInv
<1>u. UNCHANGED <<handed, before>>
  BY DEF UpdateStep
(* A step in the middle, and one that ends the update. *)
<1>m. ASSUME at \in 1..13, Applied', at' \in 1..13, DOMAIN held' = Copies, UNCHANGED <<status, outcome>>,
             Parsed'
      PROVE  SettingsInv'
  <2>1. Shape'
    BY <1>t, <1>m, <1>u DEF Shape
  <2>2. Agrees(before) /\ outcome' = None
    BY <1>t, <1>m DEF Shape, Updating
  <2>3. Updating'
    BY <1>m, <1>u, <2>2 DEF Updating, Agrees
  <2>4. Resting' /\ Ended'
    BY <1>m, <2>2 DEF Resting, Ended, None
  <2> QED
    BY <1>m, <2>1, <2>3, <2>4 DEF SettingsInv
<1>s. ASSUME NEW c, At(c), Settle(c), UNCHANGED <<status, outcome>>, c \in Addresses => Want(c) # Bad
      PROVE  SettingsInv'
  <2>1. at \in 1..13 /\ Applied
    BY <1>t, <1>s, OrderIs DEF At, Updating
  <2>2. Applied' /\ at' \in 1..13 /\ DOMAIN held' = Copies
    BY <1>t, <1>s, <1>u, <2>1, SettleApplies
  <2>3. handed \in Documents /\ c \in Copies
    BY <1>t, <1>s, <2>1, CopiesAre, OrderIs DEF Shape, At
  <2>4. Want(c) # Bad
    BY <1>s, <2>3, Parses DEF Want
  <2>5. Parsed'
    BY <1>t, <1>s, <2>2, <2>3, <2>4 DEF Parsed, Settle, Shape
  <2> QED
    BY <1>m, <1>s, <2>1, <2>2, <2>5
<1>e. ASSUME at \in {3, 6, 7, 8, 9, 10, 11, 12, 13}, at' = 0, held' = held, outcome' # "ok",
             status' \in {"up", "dead"}
      PROVE  SettingsInv'
  <2>1. Agrees(held)
    BY <1>t, <1>e, AgreeBetween DEF Updating
  <2> QED
    BY <1>t, <1>e, <2>1 DEF SettingsInv, Shape, Updating, Resting, Ended, Agrees, Parsed
<1>1. CASE UpdateNetworkName /\ Same("name")
  <2>1. at = 1 /\ Skip(2) /\ UNCHANGED <<status, outcome>> /\ held["name"] = Want("name")
    BY <1>1, AtPosition, OrderIs DEF UpdateNetworkName, Same
  <2>2. Applied /\ Agrees(held)
    BY <1>t, <2>1, AgreeBetween DEF Updating
  <2>3. \A i \in 1..12 : at <= i /\ i < at + 2 => held[Order[i]] = Want(Order[i])
    <3>1. held["priceName"] = Want("priceName")
      BY <2>1, <2>2, WantPairs DEF Agrees
    <3>2. \A i \in 1..12 : at <= i /\ i < at + 2 => i = 1 \/ i = 2
      BY <2>1
    <3> QED
      BY <2>1, <3>1, <3>2, OrderIs
  <2>4. Applied' /\ at' \in 1..13 /\ DOMAIN held' = Copies
    BY <1>t, <1>u, <2>1, <2>2, <2>3, SkipApplies
  <2> QED
    BY <1>t, <1>m, <2>1, <2>4 DEF Skip, Parsed
<1>2. CASE UpdateNetworkName /\ ~Same("name")
  BY <1>2, <1>s DEF UpdateNetworkName, Addresses
<1>3. CASE UpdateChainName
  BY <1>3, <1>s DEF UpdateChainName, Addresses
<1>4. CASE UpdateRpcs
  <2>1. at = 3 /\ UNCHANGED outcome
    BY <1>4, AtPosition, OrderIs DEF UpdateRpcs
  <2>2. CASE Same("rpcs")
    <3>1. Skip(3) /\ UNCHANGED status /\ held["rpcs"] = Want("rpcs")
      BY <1>4, <2>2 DEF UpdateRpcs, Same
    <3>2. Applied /\ Agrees(held)
      BY <1>t, <2>1, AgreeBetween DEF Updating
    <3>3. \A i \in 1..12 : at <= i /\ i < at + 3 => held[Order[i]] = Want(Order[i])
      <4>1. held["poolsRpcs"] = Want("poolsRpcs") /\ held["followerRpcs"] = Want("followerRpcs")
        BY <3>1, <3>2, WantPairs DEF Agrees
      <4>2. \A i \in 1..12 : at <= i /\ i < at + 3 => i = 3 \/ i = 4 \/ i = 5
        BY <2>1
      <4> QED
        BY <3>1, <4>1, <4>2, OrderIs
    <3>4. Applied' /\ at' \in 1..13 /\ DOMAIN held' = Copies
      BY <1>t, <1>u, <2>1, <3>1, <3>2, <3>3, SkipApplies
    <3> QED
      BY <1>t, <1>m, <2>1, <3>1, <3>4 DEF Skip, Parsed
  <2>3. CASE ~Same("rpcs") /\ Want("rpcs") # NoRpcs
    BY <1>4, <1>s, <2>1, <2>3 DEF UpdateRpcs, Addresses
  <2>4. CASE ~Same("rpcs") /\ Want("rpcs") = NoRpcs
    <3>1. status' = "dead" /\ at' = 0 /\ held' = held
      BY <1>4, <2>4 DEF UpdateRpcs
    <3> QED
      BY <1>t, <1>e, <2>1, <3>1 DEF Shape, None
  <2> QED
    BY <2>2, <2>3, <2>4
<1>5. CASE End
  <2>1. at = 13 /\ at' = 0 /\ outcome' = "ok" /\ UNCHANGED <<status, held>> /\ handed \in Documents
    BY <1>t, <1>5, OrderIs DEF End, Shape
  <2>2. Applied /\ Agrees(held)
    BY <1>t, <2>1, AgreeBetween DEF Updating
  <2>3. \A c \in Copies : held[c] = Want(c)
    BY <2>1, <2>2, CopiesAre DEF Applied
  <2>4. \A c \in Copies : held[c] = AtStart(handed, c)
    BY <1>t, <2>3 DEF AtStart, Want, Parsed
  <2>5. Shape' /\ Updating' /\ Resting' /\ Parsed'
    BY <1>t, <2>1, <2>2 DEF Shape, Updating, Resting, Agrees, Parsed
  <2>6. Ended'
    BY <1>u, <2>1, <2>4 DEF Ended, AtStart, Wanted
  <2> QED
    BY <2>5, <2>6 DEF SettingsInv
<1>6. ASSUME NEW c \in Copies, SetProvider(c) PROVE SettingsInv'
  BY <1>6, <1>s DEF SetProvider, Addresses
<1>7. ASSUME NEW c \in Copies, ParseError(c) PROVE SettingsInv'
  <2>1. at \in {6, 8, 10} /\ at' = 0 /\ outcome' = "err" /\ UNCHANGED <<status, held>>
    BY <1>7, AtPosition, OrderIs DEF ParseError, Addresses
  <2> QED
    BY <1>t, <1>e, <2>1 DEF Shape
<1>8. ASSUME NEW c \in Copies, UpdateProfitSetting(c) \/ UpdateFollowerSetting(c) PROVE SettingsInv'
  BY <1>8, <1>s DEF UpdateProfitSetting, UpdateFollowerSetting
<1>9. ASSUME NEW c \in Copies, UpdateFactory(c) PROVE SettingsInv'
  <2>1. CASE c = "aero" /\ Same("aero") /\ Same("fees")
    <3>1. at = 8 /\ Skip(2) /\ UNCHANGED <<status, outcome>>
      BY <1>9, <2>1, AtPosition, OrderIs DEF UpdateFactory
    <3>2. \A i \in 1..12 : at <= i /\ i < at + 2 => held[Order[i]] = Want(Order[i])
      <4>1. \A i \in 1..12 : at <= i /\ i < at + 2 => i = 8 \/ i = 9
        BY <3>1
      <4> QED
        BY <2>1, <4>1, OrderIs DEF Same
    <3>3. Applied
      BY <1>t, <3>1 DEF Updating
    <3>4. Applied' /\ at' \in 1..13 /\ DOMAIN held' = Copies
      BY <1>t, <1>u, <3>1, <3>2, <3>3, SkipApplies
    <3> QED
      BY <1>t, <1>m, <3>1, <3>4 DEF Skip, Parsed
  <2>2. CASE ~(c = "aero" /\ Same("aero") /\ Same("fees"))
    BY <1>9, <1>s, <2>2 DEF UpdateFactory
  <2> QED
    BY <2>1, <2>2
<1> QED
  BY <1>1, <1>2, <1>3, <1>4, <1>5, <1>6, <1>7, <1>8, <1>9 DEF UpdateStep, UpdateNetworkName

LEMMA StepSettings == SettingsInv /\ [Next]_vars => SettingsInv'
<1> SUFFICES ASSUME SettingsInv, [Next]_vars PROVE SettingsInv'
  OBVIOUS
<1>t. Shape /\ Updating /\ Resting /\ Ended /\ Parsed
  BY DEF SettingsInv
<1>0. ASSUME UNCHANGED update PROVE SettingsInv'
  BY <1>0 DEF update, SettingsInv, Shape, Updating, Resting, Ended, Parsed, Applied, Agrees, Want,
     Wanted, AtStart
<1>1. ASSUME NEW d \in Documents, BringUp(d) PROVE SettingsInv'
  <2>1. status = "down" /\ at = 0 /\ handed' = d /\ UNCHANGED <<at, before>>
    BY <1>1 DEF BringUp, Idle
  <2>2. CASE UNCHANGED held /\ status' # "up" /\ outcome' # "ok" /\ status' \in {"down", "dead"}
    BY <1>t, <2>1, <2>2 DEF SettingsInv, Shape, Updating, Resting, Ended, Parsed, Agrees
  <2>3. CASE status' = "up" /\ outcome' = "ok" /\ held' = [c \in Copies |-> AtStart(d, c)]
    <3>1. Shape' /\ Updating' /\ Ended'
      BY <1>t, <2>1, <2>3 DEF Shape, Updating, Ended, AtStart, Wanted
    <3>2. Parsed'
      BY <2>3, SettingsAssumption DEF Parsed, AtStart
    <3>3. Agrees(held')
      <4>1. {"name", "priceName", "rpcs", "poolsRpcs", "followerRpcs"} \subseteq Copies
        BY CopiesAre, OrderIs
      <4>2. /\ AtStart(d, "priceName") = AtStart(d, "name")
            /\ AtStart(d, "poolsRpcs") = AtStart(d, "rpcs")
            /\ AtStart(d, "followerRpcs") = AtStart(d, "rpcs")
        BY DEF AtStart, Wanted, Source
      <4> QED
        BY <2>3, <4>1, <4>2 DEF Agrees
    <3> QED
      BY <3>1, <3>2, <3>3 DEF SettingsInv, Resting, Agrees
  <2> QED
    BY <1>t, <1>1, <2>1, <2>2, <2>3 DEF BringUp, Shape
<1>2. ASSUME NEW d \in Documents, Begin(d) PROVE SettingsInv'
  <2>1. /\ status = "up" /\ at = 0 /\ handed' = d /\ at' = 1 /\ before' = held /\ outcome' = None
        /\ UNCHANGED <<status, held>>
    BY <1>2 DEF Begin, Idle
  <2>2. Agrees(before')
    BY <1>t, <2>1 DEF Resting, Agrees
  <2>3. Shape' /\ Resting' /\ Ended' /\ Parsed'
    BY <1>t, <2>1 DEF Shape, Resting, Ended, Parsed, None
  <2>4. Updating'
    BY <2>1, <2>2 DEF Updating, Applied, Agrees
  <2> QED
    BY <2>3, <2>4 DEF SettingsInv
<1>3. CASE UpdateStep
  BY <1>3, StepUpdate
<1>4. CASE ~UpdateStep /\ ~(\E d \in Documents : BringUp(d) \/ Begin(d))
  <2>1. UNCHANGED update
    BY <1>4 DEF Next, InsertToken, Store, ListToken, StartLoop, Ask, AnswerErr, Rest, Answer,
       BeginFetch, FetchToken, AddPool, FetchErr, vars
  <2> QED
    BY <1>0, <2>1
<1> QED
  BY <1>1, <1>2, <1>3, <1>4

(* update_network settles the copies in their order and skips none that    *)
(* differs, and a document it was through with is held by every copy.      *)
THEOREM SettingsApplied == Spec => []AppliedInOrder
<1>1. SettingsInv => AppliedInOrder
  BY OrderIs DEF SettingsInv, Updating, Ended, Applied, AppliedInOrder, Shape
<1> QED
  BY <1>1, InitSettings, StepSettings, PTL DEF Spec

(* Name and nodes have one value in all their copies, but for the moments  *)
(* when update_network is between two of them.                             *)
THEOREM CopiesStayTogether == Spec => []CopiesAgree
<1>1. SettingsInv => CopiesAgree
  <2> SUFFICES ASSUME SettingsInv PROVE CopiesAgree
    OBVIOUS
  <2>1. CASE at \notin {2, 4, 5}
    <3>1. Agrees(held)
      BY <2>1, AgreeBetween DEF SettingsInv, Updating, Resting, Shape
    <3> QED
      BY <3>1 DEF Agrees, CopiesAgree
  <2>2. CASE at = 2
    <3>1. At("priceName") /\ Applied /\ Agrees(before)
      BY <2>2, AtPosition, OrderIs DEF SettingsInv, Updating
    <3>2. \A c \in {"rpcs", "poolsRpcs", "followerRpcs"} : held[c] = before[c]
      BY <2>2, <3>1, OrderIs DEF Applied
    <3> QED
      BY <3>1, <3>2 DEF Agrees, CopiesAgree
  <2>3. CASE at \in {4, 5}
    <3>1. (At("poolsRpcs") \/ At("followerRpcs")) /\ Applied
      BY <2>3, AtPosition, OrderIs DEF SettingsInv, Updating
    <3>2. held["name"] = Want("name") /\ held["priceName"] = Want("priceName")
      BY <2>3, <3>1, OrderIs DEF Applied
    <3> QED
      BY <3>1, <3>2, WantPairs DEF CopiesAgree
  <2> QED
    BY <2>1, <2>2, <2>3
<1> QED
  BY <1>1, InitSettings, StepSettings, PTL DEF Spec
-----------------------------------------------------------------------------
(* The price loop and the tokens. *)
Looping ==
    /\ DOMAIN loop = {"pc", "name", "tokens", "minProfit"}
    /\ loop.pc \in {"off", "rest", "ask", "store"}
    /\ loop.pc \in {"ask", "store"} => loop.name = held["priceName"]
    /\ loop.pc # "off" => held["priceName"] # None
    /\ \A t \in DOMAIN book : book[t].price # None

(* The fetcher has a name as soon as the network has one.                  *)
Named ==
    /\ status = "up" => held["priceName"] # None
    /\ status = "down" => held["priceName"] = None
    /\ held["name"] # None => held["priceName"] # None

PricesInv == Looping /\ Named /\ NoTokenForgotten

LEMMA InitPrices == Init => PricesInv
<1> SUFFICES ASSUME Init PROVE PricesInv
  OBVIOUS
<1>1. DOMAIN book = {} /\ listed = {} /\ adding = None
  BY DEF Init
<1>2. held["name"] = None /\ held["priceName"] = None
  BY CopiesAre, OrderIs DEF Init
<1> QED
  BY <1>1, <1>2 DEF Init, PricesInv, Looping, Named, NoTokenForgotten

(* The fetcher's name changes only while no round is under way.            *)
LEMMA UpdateNames ==
    ASSUME SettingsInv, UpdateStep
    PROVE  /\ \/ held'["priceName"] = held["priceName"]
              \/ PricesFree /\ held'["priceName"] # None
           /\ status = "up" /\ status' \in {"up", "dead"}
           /\ UNCHANGED <<prices, loop, follower>>
<1>1. at > 0 /\ status = "up" /\ handed \in Documents /\ "priceName" \in DOMAIN held
  <2>1. at > 0
    BY OrderIs DEF UpdateStep, UpdateNetworkName, UpdateChainName, UpdateRpcs, End, SetProvider,
       ParseError, UpdateProfitSetting, UpdateFactory, UpdateFollowerSetting, At
  <2> QED
    BY <2>1, CopiesAre, OrderIs DEF SettingsInv, Shape
<1>2. CASE UpdateChainName
  <2>1. Want("priceName") # None
    BY <1>1, SettingsAssumption DEF Want, Wanted, Source
  <2> QED
    BY <1>1, <1>2, <2>1 DEF UpdateChainName, Settle, UpdateStep
<1>3. CASE ~UpdateChainName
  <2>1. ASSUME NEW c, c # "priceName", Settle(c) PROVE held'["priceName"] = held["priceName"]
    BY <1>1, <2>1 DEF Settle
  <2>2. held'["priceName"] = held["priceName"]
    BY <1>3, <2>1 DEF UpdateStep, UpdateNetworkName, UpdateRpcs, End, SetProvider, ParseError,
       UpdateProfitSetting, UpdateFactory, UpdateFollowerSetting, Skip, Addresses
  <2>3. status' \in {status, "dead"}
    BY <1>3 DEF UpdateStep, UpdateNetworkName, UpdateRpcs, End, SetProvider, ParseError,
       UpdateProfitSetting, UpdateFactory, UpdateFollowerSetting
  <2>4. UNCHANGED <<prices, loop, follower>>
    BY DEF UpdateStep
  <2> QED
    BY <1>1, <2>2, <2>3, <2>4
<1> QED
  BY <1>2, <1>3

LEMMA StepPrices == SettingsInv /\ PricesInv /\ [Next]_vars => PricesInv'
<1> SUFFICES ASSUME SettingsInv, PricesInv, [Next]_vars PROVE PricesInv'
  OBVIOUS
<1>t. Looping /\ Named /\ NoTokenForgotten
  BY DEF PricesInv
<1>l. UNCHANGED <<loop, book, held>> => Looping'
  BY <1>t DEF Looping
<1>n. UNCHANGED update => Named'
  BY <1>t DEF Named, update
<1>o. UNCHANGED prices => NoTokenForgotten'
  BY <1>t DEF NoTokenForgotten, prices
<1>1. ASSUME NEW d \in Documents, BringUp(d) PROVE PricesInv'
  <2>1. status = "down" /\ UNCHANGED <<prices, loop, follower>> /\ held["priceName"] = None
    BY <1>t, <1>1 DEF BringUp, Named
  <2>2. loop.pc = "off"
    BY <1>t, <2>1 DEF Looping
  <2>3. Looping'
    BY <1>t, <2>1, <2>2 DEF Looping, prices
  <2>4. CASE UNCHANGED held /\ status' # "up"
    BY <1>t, <1>o, <2>1, <2>3, <2>4 DEF PricesInv, Named, follower
  <2>5. CASE status' = "up" /\ held' = [c \in Copies |-> AtStart(d, c)]
    <3>1. held'["priceName"] = AtStart(d, "priceName")
      BY <2>5, CopiesAre, OrderIs
    <3>2. AtStart(d, "priceName") = Content[d].name
      BY SettingsAssumption DEF AtStart, Wanted, Source, Settings, Addresses
    <3>3. Named'
      BY <2>5, <3>1, <3>2, SettingsAssumption DEF Named
    <3> QED
      BY <1>o, <2>1, <2>3, <3>3 DEF PricesInv, follower
  <2>6. (UNCHANGED held /\ status' # "up") \/ (status' = "up" /\ held' = [c \in Copies |-> AtStart(d, c)])
    BY <1>1, <2>1 DEF BringUp
  <2> QED
    BY <2>4, <2>5, <2>6
<1>2. ASSUME NEW d \in Documents, Begin(d) PROVE PricesInv'
  BY <1>2, <1>t, <1>l, <1>o DEF Begin, PricesInv, Named, prices, follower
<1>3. CASE UpdateStep
  <2>1. /\ \/ held'["priceName"] = held["priceName"]
           \/ PricesFree /\ held'["priceName"] # None
        /\ status = "up" /\ status' \in {"up", "dead"}
        /\ UNCHANGED <<prices, loop, follower>>
    BY <1>3, UpdateNames
  <2>2. held["priceName"] # None /\ held'["priceName"] # None
    BY <1>t, <2>1 DEF Named
  <2>3. Named'
    BY <2>1, <2>2 DEF Named
  <2>4. Looping'
    BY <1>t, <2>1, <2>2 DEF Looping, PricesFree, prices
  <2> QED
    BY <1>o, <2>1, <2>3, <2>4 DEF PricesInv, follower
<1>4. ASSUME NEW t \in ProfitTokens, InsertToken(t) PROVE PricesInv'
  <2>1. /\ adding = None /\ t \notin DOMAIN book /\ adding' = t
        /\ UNCHANGED <<update, listed, loop, follower>>
    BY <1>4 DEF InsertToken
  <2>2. /\ DOMAIN book' = DOMAIN book \cup {t} /\ book'[t].price = DefaultPrice
        /\ \A u \in DOMAIN book : book'[u] = book[u]
    BY <1>4 DEF InsertToken
  <2>3. t # None
    BY SettingsAssumption
  <2>4. NoTokenForgotten'
    BY <1>t, <2>1, <2>2, <2>3 DEF NoTokenForgotten
  <2>5. DefaultPrice # None
    BY DEF DefaultPrice, None
  <2>6. \A u \in DOMAIN book' : book'[u].price # None
    BY <1>t, <2>2, <2>5 DEF Looping
  <2>7. Looping'
    BY <1>t, <2>1, <2>6 DEF Looping, update
  <2> QED
    BY <1>n, <2>1, <2>4, <2>7 DEF PricesInv, follower
<1>5. CASE ListToken
  BY <1>5, <1>t, <1>l, <1>n DEF ListToken, NoTokenForgotten, PricesInv, update, follower
<1>6. ASSUME StartLoop \/ Ask \/ AnswerErr \/ Rest \/ \E S \in SUBSET ProfitTokens : Answer(S)
      PROVE  PricesInv'
  <2>1. UNCHANGED <<update, prices, follower>>
    BY <1>6 DEF StartLoop, Ask, AnswerErr, Rest, Answer
  <2>2. CASE StartLoop
    <3>1. held["priceName"] # None
      BY <1>t, <2>2 DEF StartLoop, InRegistry, Named
    <3> QED
      BY <1>t, <1>n, <1>o, <2>1, <2>2, <3>1
         DEF StartLoop, Looping, PricesInv, update, prices, follower
  <2>3. CASE ~StartLoop
    <3>1. Looping'
      BY <1>t, <1>6, <2>1, <2>3 DEF Ask, AnswerErr, Rest, Answer, Rested, Looping, update, prices
    <3> QED
      BY <1>n, <1>o, <2>1, <3>1 DEF PricesInv, follower
  <2> QED
    BY <2>2, <2>3
<1>7. ASSUME NEW t \in ProfitTokens, Store(t) PROVE PricesInv'
  <2>1. /\ loop.pc = "store" /\ loop' = [loop EXCEPT !.tokens = loop.tokens \ {t}]
        /\ book' = IF t \in DOMAIN book THEN [book EXCEPT ![t] = Priced(t)] ELSE book
        /\ UNCHANGED <<update, listed, adding, follower>>
    BY <1>7 DEF Store
  <2>2. DOMAIN book' = DOMAIN book
        /\ \A u \in DOMAIN book : book'[u] = IF u = t THEN Priced(t) ELSE book[u]
    BY <2>1
  <2>3. Priced(t).price = held["priceName"] /\ held["priceName"] # None
    BY <1>t, <2>1 DEF Priced, Looping
  <2>4. \A u \in DOMAIN book' : book'[u].price # None
    BY <1>t, <2>2, <2>3 DEF Looping
  <2>5. Looping'
    BY <1>t, <2>1, <2>4 DEF Looping, update
  <2>6. NoTokenForgotten'
    BY <1>t, <2>1, <2>2 DEF NoTokenForgotten
  <2> QED
    BY <1>n, <2>1, <2>5, <2>6 DEF PricesInv, follower
<1>8. ASSUME \/ \E p \in Pools : BeginFetch(p)
             \/ \E t \in Tokens : FetchToken(t)
             \/ AddPool \/ FetchErr
      PROVE  PricesInv'
  <2>1. UNCHANGED <<update, prices, loop>>
    BY <1>8 DEF BeginFetch, FetchToken, AddPool, FetchErr
  <2> QED
    BY <1>l, <1>n, <1>o, <2>1 DEF PricesInv, update, prices
<1>9. CASE UNCHANGED vars
  BY <1>9, <1>l, <1>n, <1>o DEF vars, PricesInv, update, prices, follower
<1> QED
  BY <1>1, <1>2, <1>3, <1>4, <1>5, <1>6, <1>7, <1>8, <1>9 DEF Next

(* A registered token is with the price fetcher or about to be:            *)
(* add_token_if_not_exists asks only the registry whether it is there.     *)
THEOREM TokensListed == Spec => []NoTokenForgotten
<1>1. PricesInv => NoTokenForgotten
  BY DEF PricesInv
<1> QED
  BY <1>1, InitSettings, StepSettings, InitPrices, StepPrices, PTL DEF Spec

(* A price is stored only under the name it was asked for.                 *)
THEOREM PricesUnderName == Spec => PricesOfTheName
<1>1. ASSUME SettingsInv, PricesInv, [Next]_vars
      PROVE  [\A t \in DOMAIN book \cap DOMAIN book' :
                book'[t].price # book[t].price => book'[t].price = held'["priceName"]]_vars
  <2> SUFFICES ASSUME Next, NEW t \in DOMAIN book, t \in DOMAIN book', book'[t].price # book[t].price
               PROVE  book'[t].price = held'["priceName"]
    BY <1>1 DEF vars, prices
  <2>1. ASSUME NEW u \in ProfitTokens, Store(u) PROVE book'[t].price = held'["priceName"]
    <3>1. Priced(u).price = held["priceName"] /\ held' = held
      BY <1>1, <2>1 DEF Store, Priced, PricesInv, Looping, update
    <3>2. book'[t] = Priced(u) \/ book'[t] = book[t]
      BY <2>1 DEF Store
    <3> QED
      BY <3>1, <3>2
  <2>2. ASSUME NEW u \in ProfitTokens, InsertToken(u) PROVE FALSE
    BY <2>2 DEF InsertToken
  <2>3. CASE ~\E u \in ProfitTokens : Store(u) \/ InsertToken(u)
    <3>1. book' = book
      BY <2>3 DEF Next, BringUp, Begin, UpdateStep, ListToken, StartLoop, Ask, AnswerErr, Rest,
         Answer, BeginFetch, FetchToken, AddPool, FetchErr, prices
    <3> QED
      BY <3>1
  <2> QED
    BY <2>1, <2>2, <2>3
<1> QED
  BY <1>1, InitSettings, StepSettings, InitPrices, StepPrices, PTL DEF Spec, PricesOfTheName
-----------------------------------------------------------------------------
(* The order in which the tasks nest the locks. *)
Rank == [network |-> 1, provider |-> 3, multicall |-> 5, pools |-> 7, profit |-> 9]

(* The guards of a task, and what an operation does to them. *)
Holdings == [r : [Locks -> Nat], w : SUBSET Locks]
Nothing == [r |-> [l \in Locks |-> 0], w |-> {}]

After(op, h) ==
    CASE op.op = "read" -> [r |-> [h.r EXCEPT ![op.lock] = @ + 1], w |-> h.w]
      [] op.op = "write" -> [r |-> h.r, w |-> h.w \cup {op.lock}]
      [] op.op = "drop" /\ op.lock \in h.w -> [r |-> h.r, w |-> h.w \ {op.lock}]
      [] op.op = "drop" /\ op.lock \notin h.w -> [r |-> [h.r EXCEPT ![op.lock] = @ - 1], w |-> h.w]
      [] OTHER -> h

(* A lock may be asked for by a task with guards on lower locks only, or   *)
(* that reads it.                                                          *)
Orderly(op, h) ==
    /\ op.op \in {"read", "write"} => \A l \in h.w : Rank[l] < Rank[op.lock]
    /\ op.op = "read" => \A l \in Locks : h.r[l] > 0 => Rank[l] <= Rank[op.lock]
    /\ op.op = "write" => \A l \in Locks : h.r[l] > 0 => Rank[l] < Rank[op.lock]

(* Code that is orderly from holdings h on, and ends with k. *)
Trace(H, code, h, k) ==
    /\ H \in [0 .. Len(code) -> Holdings]
    /\ H[0] = h /\ H[Len(code)] = k
    /\ \A n \in 1 .. Len(code) : Orderly(code[n], H[n - 1]) /\ H[n] = After(code[n], H[n - 1])
Takes(code, h, k) == \E H : Trace(H, code, h, k)

LEMMA TakesNone == ASSUME NEW h \in Holdings PROVE Takes(<<>>, h, h)
<1>1. Trace([n \in 0..0 |-> h], <<>>, h, h)
  BY DEF Trace
<1> QED
  BY <1>1 DEF Takes

LEMMA TakesOne ==
    ASSUME NEW op, NEW h \in Holdings, NEW k \in Holdings, Orderly(op, h), k = After(op, h)
    PROVE  Takes(<<op>>, h, k)
<1>1. PICK H : H = [n \in 0..1 |-> IF n = 0 THEN h ELSE k]
  OBVIOUS
<1>2. Trace(H, <<op>>, h, k)
  BY <1>1 DEF Trace
<1> QED
  BY <1>2 DEF Takes

LEMMA TakesBoth ==
    ASSUME NEW c \in Seq(Ops), NEW d \in Seq(Ops), NEW h, NEW k, NEW m,
           Takes(c, h, k), Takes(d, k, m)
    PROVE  Takes(c \o d, h, m)
<1>1. PICK F : Trace(F, c, h, k)
  BY DEF Takes
<1>2. PICK G : Trace(G, d, k, m)
  BY DEF Takes
<1>3. PICK H : H = [n \in 0 .. Len(c) + Len(d) |-> IF n <= Len(c) THEN F[n] ELSE G[n - Len(c)]]
  OBVIOUS
<1>4. /\ Len(c) \in Nat /\ Len(d) \in Nat /\ Len(c \o d) = Len(c) + Len(d)
      /\ \A n \in 1..Len(c) : (c \o d)[n] = c[n]
      /\ \A n \in 1..Len(d) : (c \o d)[n + Len(c)] = d[n]
  OBVIOUS
<1>5. \A n \in 0..Len(c) : H[n] = F[n] /\ F[n] \in Holdings
  BY <1>1, <1>3, <1>4 DEF Trace
<1>6. \A n \in 0..Len(d) : H[n + Len(c)] = G[n] /\ G[n] \in Holdings
  <2>1. F[Len(c)] = G[0]
    BY <1>1, <1>2 DEF Trace
  <2>2. \A n \in 0..Len(d) : G[n] \in Holdings
    BY <1>2 DEF Trace
  <2>3. ASSUME NEW n \in 0..Len(d) PROVE H[n + Len(c)] = G[n]
    <3>1. n + Len(c) \in 0 .. Len(c) + Len(d) /\ (n + Len(c)) - Len(c) = n
      BY <1>4
    <3>2. H[n + Len(c)] = IF n + Len(c) <= Len(c) THEN F[n + Len(c)] ELSE G[n]
      BY <1>3, <3>1
    <3>3. n + Len(c) <= Len(c) => n = 0 /\ n + Len(c) = Len(c)
      BY <1>4
    <3> QED
      BY <2>1, <3>2, <3>3
  <2> QED
    BY <2>2, <2>3
<1>7. H \in [0 .. Len(c \o d) -> Holdings]
  <2>1. ASSUME NEW n \in 0 .. Len(c) + Len(d) PROVE H[n] \in Holdings
    <3>1. CASE n <= Len(c)
      BY <1>4, <1>5, <3>1
    <3>2. CASE n > Len(c)
      <4>1. n - Len(c) \in 0..Len(d) /\ (n - Len(c)) + Len(c) = n
        BY <1>4, <3>2
      <4> QED
        BY <1>6, <4>1
    <3> QED
      BY <1>4, <3>1, <3>2
  <2> QED
    BY <1>3, <1>4, <2>1
<1>8. H[0] = h /\ H[Len(c \o d)] = m
  <2>1. 0 \in 0..Len(c) /\ Len(d) \in 0..Len(d) /\ Len(d) + Len(c) = Len(c \o d)
    BY <1>4
  <2> QED
    BY <1>1, <1>2, <1>5, <1>6, <2>1 DEF Trace
<1>9. ASSUME NEW n \in 1 .. Len(c \o d)
      PROVE  Orderly((c \o d)[n], H[n - 1]) /\ H[n] = After((c \o d)[n], H[n - 1])
  <2>1. CASE n <= Len(c)
    <3>1. n \in 1..Len(c) /\ n - 1 \in 0..Len(c) /\ n \in 0..Len(c)
      BY <1>4, <2>1
    <3> QED
      BY <1>1, <1>4, <1>5, <3>1 DEF Trace
  <2>2. CASE n > Len(c)
    <3>1. PICK i \in 1..Len(d) : n = i + Len(c)
      <4>1. n - Len(c) \in 1..Len(d) /\ n = (n - Len(c)) + Len(c)
        BY <1>4, <2>2
      <4> QED
        BY <4>1
    <3>2. i \in 0..Len(d) /\ i - 1 \in 0..Len(d) /\ n - 1 = (i - 1) + Len(c)
      BY <1>4, <3>1
    <3>3. H[n] = G[i] /\ H[n - 1] = G[i - 1] /\ (c \o d)[n] = d[i]
      BY <1>4, <1>6, <3>1, <3>2
    <3> QED
      BY <1>2, <3>1, <3>3 DEF Trace
  <2> QED
    BY <1>4, <2>1, <2>2
<1> QED
  BY <1>7, <1>8, <1>9 DEF Takes, Trace

LEMMA TakesFirst ==
    ASSUME NEW c \in Seq(Ops), c # <<>>, NEW h, NEW k, Takes(c, h, k)
    PROVE  Orderly(Head(c), h) /\ Takes(Tail(c), After(Head(c), h), k)
<1>1. PICK H : Trace(H, c, h, k)
  BY DEF Takes
<1>2. /\ Len(c) \in Nat \ {0} /\ Head(c) = c[1] /\ Tail(c) \in Seq(Ops) /\ Len(Tail(c)) = Len(c) - 1
      /\ \A n \in 1 .. Len(c) - 1 : Tail(c)[n] = c[n + 1]
  OBVIOUS
<1>3. PICK G : G = [n \in 0 .. Len(c) - 1 |-> H[n + 1]]
  OBVIOUS
<1>4. Orderly(Head(c), h) /\ H[1] = After(Head(c), h)
  <2>1. 1 \in 1..Len(c) /\ 1 - 1 = 0
    BY <1>2
  <2> QED
    BY <1>1, <1>2, <2>1 DEF Trace
<1>5. G \in [0 .. Len(Tail(c)) -> Holdings] /\ G[0] = H[1] /\ G[Len(Tail(c))] = k
  <2>1. ASSUME NEW n \in 0 .. Len(c) - 1 PROVE H[n + 1] \in Holdings
    <3>1. n + 1 \in 0..Len(c)
      BY <1>2
    <3> QED
      BY <1>1, <3>1 DEF Trace
  <2> QED
    BY <1>1, <1>2, <1>3, <2>1 DEF Trace
<1>6. ASSUME NEW n \in 1 .. Len(Tail(c))
      PROVE  Orderly(Tail(c)[n], G[n - 1]) /\ G[n] = After(Tail(c)[n], G[n - 1])
  <2>1. n + 1 \in 1..Len(c) /\ G[n] = H[n + 1] /\ G[n - 1] = H[n] /\ (n + 1) - 1 = n
    BY <1>2, <1>3
  <2> QED
    BY <1>1, <1>2, <2>1 DEF Trace
<1> QED
  BY <1>4, <1>5, <1>6 DEF Takes, Trace

LEMMA TakesEnd == ASSUME NEW h, NEW k, Takes(<<>>, h, k) PROVE h = k
BY DEF Takes, Trace
-----------------------------------------------------------------------------
(* Code that any task may run whose guards are below a rank, and that      *)
(* drops what it takes.                                                    *)
Below(h, n) ==
    /\ \A l \in Locks : h.r[l] > 0 => Rank[l] <= n
    /\ \A l \in h.w : Rank[l] < n
Fits(code, n) == code \in Seq(Ops) /\ \A h \in Holdings : Below(h, n) => Takes(code, h, h)

Reading(l, code) == <<Read(l)>> \o code \o <<Drop(l)>>
Writing(l, code) == <<Write(l)>> \o code \o <<Drop(l)>>

LEMMA RankTyped == \A l \in Locks : Rank[l] \in 1..9
BY DEF Rank, Locks

LEMMA OpsTyped ==
    ASSUME NEW l \in Locks PROVE {Read(l), Write(l), Drop(l), Reply} \subseteq Ops
BY DEF Ops, Read, Write, Drop, Reply

LEMMA FitsNone == ASSUME NEW n PROVE Fits(<<>>, n)
BY TakesNone DEF Fits

LEMMA FitsAnswer == ASSUME NEW n PROVE Fits(<<Reply>>, n)
<1>1. <<Reply>> \in Seq(Ops)
  <2>1. Reply \in Ops
    BY DEF Ops
  <2> QED
    BY <2>1
<1>2. ASSUME NEW h \in Holdings PROVE Takes(<<Reply>>, h, h)
  BY TakesOne DEF Reply, Orderly, After
<1> QED
  BY <1>1, <1>2 DEF Fits

LEMMA FitsBoth ==
    ASSUME NEW c, NEW d, NEW n, Fits(c, n), Fits(d, n) PROVE Fits(c \o d, n)
BY TakesBoth DEF Fits

LEMMA FitsLower ==
    ASSUME NEW c, NEW n \in Int, NEW m \in Int, m <= n, Fits(c, n) PROVE Fits(c, m)
<1>1. ASSUME NEW h \in Holdings, Below(h, m) PROVE Below(h, n)
  BY <1>1, RankTyped DEF Below, Holdings
<1> QED
  BY <1>1 DEF Fits

LEMMA FitsReading ==
    ASSUME NEW l \in Locks, NEW c, Fits(c, Rank[l]) PROVE Fits(Reading(l, c), Rank[l])
<1>1. /\ c \in Seq(Ops) /\ <<Read(l)>> \in Seq(Ops) /\ <<Drop(l)>> \in Seq(Ops)
      /\ Reading(l, c) \in Seq(Ops) /\ <<Read(l)>> \o c \in Seq(Ops)
  BY OpsTyped DEF Fits, Reading
<1>2. ASSUME NEW h \in Holdings, Below(h, Rank[l]) PROVE Takes(Reading(l, c), h, h)
  <2>1. PICK k : k = [r |-> [h.r EXCEPT ![l] = @ + 1], w |-> h.w]
    OBVIOUS
  <2>2. /\ h.r \in [Locks -> Nat] /\ h.w \in SUBSET Locks
        /\ h = [r |-> h.r, w |-> h.w] /\ l \notin h.w /\ Rank[l] \in Int
    BY <1>2, RankTyped DEF Holdings, Below
  <2>3. k \in Holdings /\ k.w = h.w
        /\ \A m \in Locks : k.r[m] = IF m = l THEN h.r[m] + 1 ELSE h.r[m]
    BY <2>1, <2>2 DEF Holdings
  <2>4. Orderly(Read(l), h) /\ k = After(Read(l), h)
    BY <1>2, <2>1 DEF Orderly, Read, After, Below
  <2>5. Below(k, Rank[l])
    BY <1>2, <2>2, <2>3 DEF Below
  <2>6. Orderly(Drop(l), k)
    BY DEF Orderly, Drop
  <2>7. h = After(Drop(l), k)
    <3>1. After(Drop(l), k) = [r |-> [k.r EXCEPT ![l] = @ - 1], w |-> k.w]
      BY <2>2, <2>3 DEF After, Drop
    <3>2. PICK f : f = k.r
      OBVIOUS
    <3>3. f \in [Locks -> Nat] /\ f[l] = h.r[l] + 1 /\ \A m \in Locks : m # l => f[m] = h.r[m]
      BY <2>3, <3>2 DEF Holdings
    <3>4. PICK g : g = [f EXCEPT ![l] = @ - 1]
      OBVIOUS
    <3>5. /\ g = [m \in Locks |-> IF m = l THEN f[l] - 1 ELSE f[m]]
          /\ h.r = [m \in Locks |-> h.r[m]]
      BY <2>2, <3>3, <3>4
    <3>6. g = h.r
      <4>1. \A m \in Locks : h.r[m] = IF m = l THEN f[l] - 1 ELSE f[m]
        BY <2>2, <3>3
      <4> QED
        BY <3>5, <4>1, Zenon
    <3> QED
      BY <2>2, <2>3, <3>1, <3>2, <3>4, <3>6
  <2>8. Takes(<<Read(l)>>, h, k) /\ Takes(c, k, k) /\ Takes(<<Drop(l)>>, k, h)
    BY <2>3, <2>4, <2>5, <2>6, <2>7, TakesOne DEF Fits
  <2>9. Takes(<<Read(l)>> \o c, h, k)
    BY <1>1, <2>8, TakesBoth
  <2> QED
    BY <1>1, <2>8, <2>9, TakesBoth DEF Reading
<1> QED
  BY <1>1, <1>2 DEF Fits

LEMMA FitsWriting ==
    ASSUME NEW l \in Locks, NEW c, Fits(c, Rank[l] + 1) PROVE Fits(Writing(l, c), Rank[l] - 1)
<1>1. /\ c \in Seq(Ops) /\ <<Write(l)>> \in Seq(Ops) /\ <<Drop(l)>> \in Seq(Ops)
      /\ Writing(l, c) \in Seq(Ops) /\ <<Write(l)>> \o c \in Seq(Ops)
  BY OpsTyped DEF Fits, Writing
<1>2. ASSUME NEW h \in Holdings, Below(h, Rank[l] - 1) PROVE Takes(Writing(l, c), h, h)
  <2>1. PICK k : k = [r |-> h.r, w |-> h.w \cup {l}]
    OBVIOUS
  <2>2. /\ h.r \in [Locks -> Nat] /\ h.w \in SUBSET Locks
        /\ h = [r |-> h.r, w |-> h.w] /\ l \notin h.w /\ \A m \in Locks : Rank[m] \in Int
    BY <1>2, RankTyped DEF Holdings, Below
  <2>3. k \in Holdings /\ k.w = h.w \cup {l} /\ k.r = h.r
    BY <2>1, <2>2 DEF Holdings
  <2>4. Orderly(Write(l), h) /\ k = After(Write(l), h)
    <3>1. Orderly(Write(l), h)
      BY <1>2, <2>2 DEF Orderly, Write, Below
    <3> QED
      BY <2>1, <3>1 DEF Write, After
  <2>5. Below(k, Rank[l] + 1)
    BY <1>2, <2>2, <2>3 DEF Below
  <2>6. Orderly(Drop(l), k) /\ h = After(Drop(l), k)
    <3>1. After(Drop(l), k) = [r |-> k.r, w |-> k.w \ {l}]
      BY <2>3 DEF After, Drop
    <3>2. k.w \ {l} = h.w
      BY <2>2, <2>3
    <3> QED
      BY <2>2, <2>3, <3>1, <3>2 DEF Orderly, Drop
  <2>7. Takes(<<Write(l)>>, h, k) /\ Takes(c, k, k) /\ Takes(<<Drop(l)>>, k, h)
    BY <2>3, <2>4, <2>5, <2>6, TakesOne DEF Fits
  <2>8. Takes(<<Write(l)>> \o c, h, k)
    BY <1>1, <2>7, TakesBoth
  <2> QED
    BY <1>1, <2>7, <2>8, TakesBoth DEF Writing
<1> QED
  BY <1>1, <1>2 DEF Fits
-----------------------------------------------------------------------------
(* Every routine fits a task without guards. *)

LEMMA FitsBriefly ==
    /\ \A l \in Locks : Fits(Briefly(Read(l)), 1) /\ Fits(Briefly(Read(l)), Rank[l])
    /\ \A l \in Locks \ {"network"} : Fits(Briefly(Write(l)), 2)
    /\ Fits(Briefly(Write("pools")), 3)
<1>1. ASSUME NEW l \in Locks PROVE Briefly(Read(l)) = Reading(l, <<>>) /\ Briefly(Write(l)) = Writing(l, <<>>)
  BY DEF Briefly, Reading, Writing, Read, Write, Drop
<1>2. ASSUME NEW l \in Locks PROVE Fits(Reading(l, <<>>), 1) /\ Fits(Reading(l, <<>>), Rank[l])
  BY FitsNone, FitsReading, FitsLower, RankTyped
<1>3. ASSUME NEW l \in Locks \ {"network"} PROVE Fits(Writing(l, <<>>), 2)
  <2>1. Rank[l] - 1 >= 2
    BY DEF Rank, Locks
  <2> QED
    BY <2>1, FitsNone, FitsWriting, FitsLower, RankTyped
<1>4. Fits(Writing("pools", <<>>), 3)
  <2>1. "pools" \in Locks /\ Rank["pools"] - 1 >= 3
    BY DEF Rank, Locks
  <2> QED
    BY <2>1, FitsNone, FitsWriting, FitsLower, RankTyped
<1> QED
  BY <1>1, <1>2, <1>3, <1>4 DEF Locks

LEMMA FitsAdmit == Fits(AdmitOk, 0) /\ Fits(AdmitErr, 0)
<1> DEFINE Body(code) == Reading("provider", Reading("multicall", Reading("pools", Reading("pools", code))))
<1>1. ASSUME NEW code, Fits(code, 7) PROVE Fits(Body(code), 0)
  <2>1. /\ Rank["provider"] = 3 /\ Rank["multicall"] = 5 /\ Rank["pools"] = 7
        /\ {"provider", "multicall", "pools"} \subseteq Locks
    BY DEF Rank, Locks
  <2>2. Fits(Reading("pools", Reading("pools", code)), 7)
    BY <1>1, <2>1, FitsReading
  <2>3. Fits(Reading("multicall", Reading("pools", Reading("pools", code))), 5)
    BY <2>1, <2>2, FitsReading, FitsLower
  <2>4. Fits(Body(code), 3)
    BY <2>1, <2>3, FitsReading, FitsLower
  <2> QED
    BY <2>4, FitsLower
<1>2. Fits(<<Reply>>, 7) /\ Fits(<<Reply>> \o Briefly(Read("pools")), 7)
  <2>1. Fits(Briefly(Read("pools")), 7)
    BY FitsBriefly DEF Rank, Locks
  <2> QED
    BY <2>1, FitsAnswer, FitsBoth
<1>3. AdmitErr = Body(<<Reply>>)
  BY DEF AdmitErr, AdmitArguments, AdmitDrops, Reading
<1>4. AdmitOk = Body(<<Reply>> \o Briefly(Read("pools")))
  BY DEF AdmitOk, AdmitArguments, AdmitDrops, Reading, Briefly
<1> QED
  BY <1>1, <1>2, <1>3, <1>4

LEMMA FitsUpdate == ASSUME NEW changed PROVE Fits(Update(changed), 0)
<1> DEFINE body ==
      If("rpcs" \in changed, Rpcs) \o Briefly(Read("profit")) \o Briefly(Read("profit"))
        \o If("min_profit" \in changed, Briefly(Write("profit")))
        \o Briefly(Read("pools")) \o Briefly(Read("multicall"))
        \o If("multicall" \in changed, Briefly(Write("multicall")))
<1>1. ASSUME NEW l \in Locks \ {"network"}
      PROVE  Fits(Briefly(Read(l)), 2) /\ Fits(Briefly(Write(l)), 2)
  <2>1. Rank[l] >= 2
    BY DEF Rank, Locks
  <2> QED
    BY <2>1, FitsBriefly, FitsLower, RankTyped
<1>2. ASSUME NEW condition, NEW code, Fits(code, 2) PROVE Fits(If(condition, code), 2)
  BY <1>2, FitsNone DEF If
<1>3. Fits(Rpcs, 2)
  BY <1>1, FitsBoth DEF Rpcs, Locks
<1>4. Fits(body, 2)
  <2>1. Fits(If("rpcs" \in changed, Rpcs), 2)
    BY <1>2, <1>3
  <2>2. {"profit", "pools", "multicall"} \subseteq Locks \ {"network"}
    BY DEF Locks
  <2>3. /\ Fits(If("min_profit" \in changed, Briefly(Write("profit"))), 2)
        /\ Fits(If("multicall" \in changed, Briefly(Write("multicall"))), 2)
        /\ Fits(Briefly(Read("profit")), 2) /\ Fits(Briefly(Read("pools")), 2)
        /\ Fits(Briefly(Read("multicall")), 2)
    BY <1>1, <1>2, <2>2
  <2>4. ASSUME NEW a, NEW b, NEW c, NEW d, NEW e, NEW f,
               Fits(a, 2), Fits(b, 2), Fits(c, 2), Fits(d, 2), Fits(e, 2), Fits(f, 2)
        PROVE  Fits(a \o b \o b \o c \o d \o e \o f, 2)
    <3>1. Fits(a \o b, 2)
      BY <2>4, FitsBoth
    <3>2. Fits(a \o b \o b, 2)
      BY <2>4, <3>1, FitsBoth
    <3>3. Fits(a \o b \o b \o c, 2)
      BY <2>4, <3>2, FitsBoth
    <3>4. Fits(a \o b \o b \o c \o d, 2)
      BY <2>4, <3>3, FitsBoth
    <3>5. Fits(a \o b \o b \o c \o d \o e, 2)
      BY <2>4, <3>4, FitsBoth
    <3> QED
      BY <2>4, <3>5, FitsBoth
  <2> QED
    BY <2>1, <2>3, <2>4
<1>5. Update(changed) = Writing("network", body)
  <2>1. /\ body \in Seq(Ops) /\ Rpcs \in Seq(Ops) /\ \A l \in Locks : <<Write(l)>> \in Seq(Ops) /\ <<Drop(l)>> \in Seq(Ops)
    BY <1>3, <1>4, OpsTyped DEF Fits
  <2> QED
    BY <2>1 DEF Update, Writing
<1>6. Rank["network"] = 1 /\ "network" \in Locks
  BY DEF Rank, Locks
<1> HIDE DEF body
<1> QED
  BY <1>4, <1>5, <1>6, FitsWriting
LEMMA FitsCode == \A s \in DOMAIN Code : Fits(Code[s], 0)
<1>1. ASSUME NEW l \in Locks PROVE Fits(Briefly(Read(l)), 0)
  BY FitsBriefly, FitsLower
<1>2. Fits(Briefly(Write("pools")), 0)
  BY FitsBriefly, FitsLower
<1>3. {"network", "provider", "multicall", "pools", "profit"} \subseteq Locks
      /\ Rank["network"] = 1 /\ Rank["provider"] = 3 /\ Rank["profit"] = 9 /\ Rank["pools"] = 7
  BY DEF Locks, Rank
<1>4. ASSUME NEW l \in Locks, NEW code, Fits(code, Rank[l]) PROVE Fits(Reading(l, code), 0)
  BY <1>4, FitsReading, FitsLower, RankTyped
<1>5. Fits(Prologue, 0) /\ Fits(Top, 0) /\ Fits(Initialize, 0) /\ Fits(<<>>, 0)
  BY <1>1, <1>2, <1>3, FitsBoth, FitsNone DEF Prologue, Top, Initialize
<1>6. Fits(FetchHead, 0)
  <2>1. FetchHead = Reading("provider", <<Reply>>)
    BY DEF FetchHead, Reading
  <2> QED
    BY <1>3, <1>4, <2>1, FitsAnswer
<1>7. Fits(Batch, 0)
  <2> DEFINE body == Briefly(Read("pools")) \o <<Reply>> \o Briefly(Read("pools")) \o Briefly(Write("pools"))
  <2>1. Fits(Briefly(Read("pools")), 3)
    BY <1>3, FitsBriefly, FitsLower
  <2>2. Fits(body, 3)
    BY <2>1, FitsBriefly, FitsAnswer, FitsBoth
  <2>3. Batch = Reading("provider", body)
    BY DEF Batch, Reading, Briefly
  <2> HIDE DEF body
  <2> QED
    BY <1>3, <1>4, <2>2, <2>3
<1>8. Fits(SubmitPools, 0)
  <2>1. SubmitPools = Reading("network", Briefly(Read("pools")))
    BY DEF SubmitPools, Reading, Briefly
  <2> QED
    BY <1>3, <1>4, <2>1, FitsBriefly
<1>9. Fits(SetPaths, 0) /\ Fits(ClonePool, 0)
  BY <1>1, <1>3, FitsBoth DEF SetPaths, ClonePool
<1>10. Fits(Value, 0)
  <2>1. Value = Briefly(Read("network")) \o Reading("profit", Reading("profit", <<>>))
    BY DEF Value, Reading, Briefly
  <2>2. Fits(Reading("profit", <<>>), Rank["profit"])
    BY <1>3, FitsNone, FitsReading
  <2> QED
    BY <1>1, <1>3, <1>4, <2>1, <2>2, FitsBoth
<1>11. Fits(NetworkInfo, 0)
  <2>1. NetworkInfo = Reading("network", Reading("network", <<>>))
    BY DEF NetworkInfo, Reading
  <2>2. Fits(Reading("network", <<>>), Rank["network"])
    BY <1>3, FitsNone, FitsReading
  <2> QED
    BY <1>3, <1>4, <2>1, <2>2
<1>12. Code.prologue = Prologue /\ Code.top = Top
  BY DEF Code
<1> QED
  BY <1>5, <1>6, <1>7, <1>8, <1>9, <1>10, <1>11, FitsAdmit DEF Code
-----------------------------------------------------------------------------
(* Every task runs such code, and a request waiting is its next operation. *)

Held(t) == [r |-> reads[t], w |-> {l \in Locks : writer[l] = t}]

LocksTyped ==
    /\ stage \in [Tasks -> DOMAIN Follows] /\ rest \in [Tasks -> Seq(Ops)]
    /\ reads \in [Tasks -> [Locks -> Nat]] /\ writer \in [Locks -> Tasks \cup {"none"}]
    /\ queue \in [Locks -> Seq(Request)]

Disciplined == \A t \in Tasks : Takes(rest[t], Held(t), Nothing)

Asks(t, l, op) == rest[t] # <<>> /\ Head(rest[t]).op = op /\ Head(rest[t]).lock = l
Awaited(l, i) == Asks(queue[l][i].task, l, queue[l][i].op)
Queued ==
    /\ \A l \in Locks : \A i \in DOMAIN queue[l] : Awaited(l, i)
    /\ \A l \in Locks : \A i, j \in DOMAIN queue[l] :
           queue[l][i].task = queue[l][j].task => i = j

LocksInv == LocksTyped /\ Disciplined /\ Queued

LEMMA TasksTyped == "none" \notin Tasks
BY LocksAssumption DEF AllTasks

(* Some operation of t, its next, is done. *)
LEMMA Advances ==
    ASSUME LocksInv, NEW t \in Tasks, NEW op, rest[t] # <<>>, Head(rest[t]) = op,
           rest' = [rest EXCEPT ![t] = Tail(@)], Held(t)' = After(op, Held(t)),
           \A u \in Tasks : u # t => Held(u)' = Held(u)
    PROVE  Disciplined' /\ rest' \in [Tasks -> Seq(Ops)]
<1>1. rest[t] \in Seq(Ops) /\ Takes(rest[t], Held(t), Nothing)
  BY DEF LocksInv, LocksTyped, Disciplined
<1>2. Takes(Tail(rest[t]), After(op, Held(t)), Nothing) /\ Tail(rest[t]) \in Seq(Ops)
  BY <1>1, TakesFirst
<1>3. rest \in [Tasks -> Seq(Ops)]
  BY DEF LocksInv, LocksTyped
<1>4. /\ rest' \in [Tasks -> Seq(Ops)] /\ rest'[t] = Tail(rest[t])
      /\ \A u \in Tasks : u # t => rest'[u] = rest[u]
  BY <1>2, <1>3
<1>5. ASSUME NEW u \in Tasks PROVE Takes(rest'[u], Held(u)', Nothing)
  <2>1. CASE u = t
    BY <1>2, <1>4, <2>1
  <2>2. CASE u # t
    BY <1>4, <2>2 DEF LocksInv, Disciplined
  <2> QED
    BY <2>1, <2>2
<1> QED
  BY <1>4, <1>5 DEF Disciplined
LEMMA RequestsTyped ==
    ASSUME LocksInv, NEW l \in Locks, NEW i \in DOMAIN queue[l]
    PROVE  /\ queue[l][i].task \in Tasks /\ queue[l][i].op \in {"read", "write"}
           /\ Len(queue[l]) \in Nat /\ DOMAIN queue[l] = 1..Len(queue[l])
           /\ Head(rest[queue[l][i].task]) = [op |-> queue[l][i].op, lock |-> l]
<1>1. queue[l] \in Seq(Request)
  BY DEF LocksInv, LocksTyped
<1>2. queue[l][i] \in Request /\ Len(queue[l]) \in Nat /\ DOMAIN queue[l] = 1..Len(queue[l])
  BY <1>1
<1>3. queue[l][i].task \in Tasks /\ queue[l][i].op \in {"read", "write"}
  BY <1>2 DEF Request
<1>4. rest[queue[l][i].task] \in Seq(Ops) /\ rest[queue[l][i].task] # <<>>
  BY <1>3 DEF LocksInv, LocksTyped, Queued, Awaited, Asks
<1>5. PICK op \in Ops : op = Head(rest[queue[l][i].task])
  BY <1>4
<1>6. op.op = queue[l][i].op /\ op.lock = l
  BY <1>5 DEF LocksInv, Queued, Awaited, Asks
<1>7. op = [op |-> op.op, lock |-> op.lock]
  BY <1>5 DEF Ops, Reply
<1> QED
  BY <1>2, <1>3, <1>5, <1>6, <1>7

LEMMA QueuedStays ==
    ASSUME LocksInv, NEW t \in Tasks, ~Waiting(t), UNCHANGED queue,
           \A u \in Tasks : u # t => rest'[u] = rest[u]
    PROVE  Queued'
<1>1. ASSUME NEW l \in Locks, NEW i \in DOMAIN queue[l] PROVE queue[l][i].task \in Tasks \ {t}
  BY <1>1, RequestsTyped DEF Waiting, Waits
<1>2. ASSUME NEW l \in Locks, NEW i \in DOMAIN queue[l]
      PROVE  Awaited(l, i)'
  BY <1>1 DEF LocksInv, Queued, Awaited, Asks
<1> QED
  BY <1>2 DEF LocksInv, Queued

LEMMA QueuedShrinks ==
    ASSUME LocksInv, NEW l \in Locks, queue[l] # <<>>, NEW t, t = Head(queue[l]).task,
           queue' = [queue EXCEPT ![l] = Tail(@)],
           \A u \in Tasks : u # t => rest'[u] = rest[u]
    PROVE  Queued' /\ queue' \in [Locks -> Seq(Request)]
<1>1. queue \in [Locks -> Seq(Request)] /\ queue[l] \in Seq(Request)
  BY DEF LocksInv, LocksTyped
<1>2. /\ Len(queue[l]) \in Nat \ {0} /\ DOMAIN queue[l] = 1..Len(queue[l])
      /\ Head(queue[l]) = queue[l][1] /\ Tail(queue[l]) \in Seq(Request)
      /\ DOMAIN Tail(queue[l]) = 1 .. Len(queue[l]) - 1
      /\ \A n \in 1 .. Len(queue[l]) - 1 : Tail(queue[l])[n] = queue[l][n + 1]
  BY <1>1
<1>3. /\ queue' \in [Locks -> Seq(Request)] /\ queue'[l] = Tail(queue[l])
      /\ \A m \in Locks : m # l => queue'[m] = queue[m]
  BY <1>1, <1>2
<1>4. 1 \in DOMAIN queue[l]
  BY <1>2
<1>5. Head(rest[t]).lock = l
  <2>1. Head(rest[queue[l][1].task]) = [op |-> queue[l][1].op, lock |-> l]
    BY <1>4, RequestsTyped
  <2> QED
    BY <1>2, <2>1
<1>6. ASSUME NEW n \in DOMAIN queue'[l]
      PROVE  n + 1 \in DOMAIN queue[l] /\ queue'[l][n] = queue[l][n + 1] /\ queue'[l][n].task \in Tasks \ {t}
  <2>1. n + 1 \in DOMAIN queue[l] /\ queue'[l][n] = queue[l][n + 1] /\ n + 1 # 1
    BY <1>2, <1>3
  <2>2. queue[l][n + 1].task # queue[l][1].task
    BY <1>4, <2>1 DEF LocksInv, Queued
  <2> QED
    BY <1>2, <2>1, <2>2, RequestsTyped
<1>7. ASSUME NEW m \in Locks, m # l, NEW n \in DOMAIN queue'[m] PROVE queue'[m][n].task \in Tasks \ {t}
  <2>1. n \in DOMAIN queue[m] /\ queue'[m][n] = queue[m][n]
    BY <1>3, <1>7
  <2>2. /\ Head(rest[queue[m][n].task]) = [op |-> queue[m][n].op, lock |-> m]
        /\ queue[m][n].task \in Tasks
    BY <2>1, RequestsTyped
  <2>3. Head(rest[queue[m][n].task]).lock = m
    BY <2>2
  <2> QED
    BY <1>5, <1>7, <2>1, <2>2, <2>3
<1>8. ASSUME NEW m \in Locks, NEW i \in DOMAIN queue'[m]
      PROVE  Awaited(m, i)'
  <2>1. CASE m = l
    BY <1>6, <2>1 DEF LocksInv, Queued, Awaited, Asks
  <2>2. CASE m # l
    BY <1>3, <1>7, <2>2 DEF LocksInv, Queued, Awaited, Asks
  <2> QED
    BY <2>1, <2>2
<1>9. ASSUME NEW m \in Locks, NEW i \in DOMAIN queue'[m], NEW j \in DOMAIN queue'[m],
             queue'[m][i].task = queue'[m][j].task
      PROVE  i = j
  <2>1. CASE m = l
    <3>1. /\ i + 1 \in DOMAIN queue[l] /\ j + 1 \in DOMAIN queue[l]
          /\ queue[l][i + 1].task = queue[l][j + 1].task
      BY <1>6, <1>9, <2>1
    <3>2. i + 1 = j + 1
      BY <3>1 DEF LocksInv, Queued
    <3> QED
      BY <1>2, <1>3, <2>1, <3>2
  <2>2. CASE m # l
    BY <1>3, <1>9, <2>2 DEF LocksInv, Queued
  <2> QED
    BY <2>1, <2>2
<1> QED
  BY <1>3, <1>8, <1>9 DEF Queued

LEMMA AskKeeps == ASSUME LocksInv, NEW t \in Tasks, AskFor(t) PROVE LocksInv'
<1>1. /\ rest[t] \in Seq(Ops) /\ rest[t] # <<>> /\ ~Waiting(t)
      /\ Head(rest[t]).op \in {"read", "write"} /\ UNCHANGED <<stage, rest, reads, writer>>
  BY DEF AskFor, AtOp, LocksInv, LocksTyped
<1>2. PICK op \in Ops, l \in Locks : op = Head(rest[t]) /\ l = op.lock
  <2>1. Head(rest[t]) \in Ops
    BY <1>1
  <2> QED
    BY <1>1, <2>1 DEF Ops, Reply
<1>3. PICK q \in Request : q = [task |-> t, op |-> op.op]
  BY <1>1, <1>2 DEF Request
<1>4. /\ queue \in [Locks -> Seq(Request)] /\ queue[l] \in Seq(Request)
      /\ queue' = [queue EXCEPT ![l] = Append(@, q)]
  BY <1>2, <1>3 DEF LocksInv, LocksTyped, AskFor
<1>5. /\ queue' \in [Locks -> Seq(Request)]
      /\ \A m \in Locks : m # l => queue'[m] = queue[m]
      /\ Len(queue[l]) \in Nat /\ DOMAIN queue[l] = 1..Len(queue[l])
      /\ DOMAIN queue'[l] = 1 .. Len(queue[l]) + 1
      /\ \A n \in 1..Len(queue[l]) : queue'[l][n] = queue[l][n]
      /\ queue'[l][Len(queue[l]) + 1] = q
  BY <1>4
<1>6. LocksTyped' /\ Disciplined'
  BY <1>1, <1>5 DEF LocksInv, LocksTyped, Disciplined, Held
<1>7. \A m \in Locks : \A i \in DOMAIN queue[m] : queue[m][i].task # t
  BY <1>1 DEF Waiting, Waits
<1>8. ASSUME NEW m \in Locks, NEW i \in DOMAIN queue'[m]
      PROVE  Awaited(m, i)'
  <2>1. CASE m = l /\ i = Len(queue[l]) + 1
    <3>1. queue'[m][i] = q /\ q.task = t /\ q.op = op.op
      BY <1>3, <1>5, <2>1
    <3>2. Asks(t, l, op.op)'
      BY <1>1, <1>2 DEF Asks
    <3> QED
      BY <2>1, <3>1, <3>2 DEF Awaited, Asks
  <2>2. CASE m # l \/ i \in 1..Len(queue[l])
    BY <1>1, <1>5, <2>2 DEF LocksInv, Queued, Awaited, Asks
  <2> QED
    BY <1>5, <2>1, <2>2
<1>9. ASSUME NEW m \in Locks, NEW i \in DOMAIN queue'[m], NEW j \in DOMAIN queue'[m],
             queue'[m][i].task = queue'[m][j].task
      PROVE  i = j
  <2>1. CASE m # l
    BY <1>5, <1>9, <2>1 DEF LocksInv, Queued
  <2>2. CASE m = l
    <3>1. q.task = t /\ \A n \in 1..Len(queue[l]) : queue'[l][n].task # t
      <4>1. \A n \in 1..Len(queue[l]) : queue'[l][n] = queue[l][n] /\ queue[l][n].task # t
        BY <1>5, <1>7
      <4>2. q.task = t
        BY <1>3
      <4> QED
        BY <4>1, <4>2
    <3>2. CASE i \in 1..Len(queue[l]) /\ j \in 1..Len(queue[l])
      <4>1. queue[l][i].task = queue[l][j].task
        BY <1>5, <1>9, <2>2, <3>2
      <4> QED
        BY <1>5, <3>2, <4>1 DEF LocksInv, Queued
    <3>3. CASE i = Len(queue[l]) + 1 \/ j = Len(queue[l]) + 1
      BY <1>5, <1>9, <2>2, <3>1, <3>3
    <3> QED
      BY <1>5, <2>2, <3>2, <3>3
  <2> QED
    BY <2>1, <2>2
<1> QED
  BY <1>6, <1>8, <1>9 DEF LocksInv, Queued
LEMMA GrantReadKeeps == ASSUME LocksInv, NEW l \in Locks, GrantRead(l) PROVE LocksInv'
<1>1. PICK t : t = Head(queue[l]).task
  OBVIOUS
<1>2. /\ t \in Tasks /\ rest[t] # <<>> /\ Head(rest[t]) = Read(l) /\ queue[l] # <<>>
  <2>1. queue[l] \in Seq(Request) /\ queue[l] # <<>> /\ Head(queue[l]).op = "read"
    BY DEF LocksInv, LocksTyped, GrantRead
  <2>2. 1 \in DOMAIN queue[l] /\ Head(queue[l]) = queue[l][1]
    BY <2>1
  <2>3. Awaited(l, 1)
    BY <2>2 DEF LocksInv, Queued
  <2> QED
    BY <1>1, <2>1, <2>2, <2>3, RequestsTyped DEF Read, Awaited, Asks
<1>3. /\ reads' = [reads EXCEPT ![t][l] = @ + 1] /\ rest' = [rest EXCEPT ![t] = Tail(@)]
      /\ queue' = [queue EXCEPT ![l] = Tail(@)] /\ UNCHANGED <<stage, writer>>
  BY <1>1 DEF GrantRead
<1>4. reads \in [Tasks -> [Locks -> Nat]] /\ rest \in [Tasks -> Seq(Ops)]
  BY DEF LocksInv, LocksTyped
<1>5. /\ reads' \in [Tasks -> [Locks -> Nat]] /\ reads'[t] = [reads[t] EXCEPT ![l] = @ + 1]
      /\ \A u \in Tasks : u # t => reads'[u] = reads[u] /\ rest'[u] = rest[u]
  BY <1>2, <1>3, <1>4
<1>6. Held(t)' = After(Read(l), Held(t)) /\ \A u \in Tasks : u # t => Held(u)' = Held(u)
  BY <1>3, <1>5 DEF Held, After, Read
<1>7. Disciplined' /\ rest' \in [Tasks -> Seq(Ops)]
  BY <1>2, <1>3, <1>6, Advances
<1>8. Queued' /\ queue' \in [Locks -> Seq(Request)]
  BY <1>1, <1>2, <1>3, <1>5, QueuedShrinks
<1> QED
  BY <1>3, <1>5, <1>7, <1>8 DEF LocksInv, LocksTyped

LEMMA GrantWriteKeeps == ASSUME LocksInv, NEW l \in Locks, GrantWrite(l) PROVE LocksInv'
<1>1. PICK t : t = Head(queue[l]).task
  OBVIOUS
<1>2. /\ t \in Tasks /\ rest[t] # <<>> /\ Head(rest[t]) = Write(l) /\ queue[l] # <<>>
  <2>1. queue[l] \in Seq(Request) /\ queue[l] # <<>> /\ Head(queue[l]).op = "write"
    BY DEF LocksInv, LocksTyped, GrantWrite
  <2>2. 1 \in DOMAIN queue[l] /\ Head(queue[l]) = queue[l][1]
    BY <2>1
  <2>3. Awaited(l, 1)
    BY <2>2 DEF LocksInv, Queued
  <2> QED
    BY <1>1, <2>1, <2>2, <2>3, RequestsTyped DEF Write, Awaited, Asks
<1>3. /\ writer[l] = "none" /\ writer' = [writer EXCEPT ![l] = t] /\ rest' = [rest EXCEPT ![t] = Tail(@)]
      /\ queue' = [queue EXCEPT ![l] = Tail(@)] /\ UNCHANGED <<stage, reads>>
  BY <1>1 DEF GrantWrite
<1>4. writer \in [Locks -> Tasks \cup {"none"}] /\ rest \in [Tasks -> Seq(Ops)]
  BY DEF LocksInv, LocksTyped
<1>5. /\ writer' \in [Locks -> Tasks \cup {"none"}]
      /\ \A m \in Locks : writer'[m] = IF m = l THEN t ELSE writer[m]
      /\ \A u \in Tasks : u # t => rest'[u] = rest[u]
  BY <1>2, <1>3, <1>4
<1>6. Held(t)' = After(Write(l), Held(t)) /\ \A u \in Tasks : u # t => Held(u)' = Held(u)
  <2>1. {m \in Locks : writer'[m] = t} = {m \in Locks : writer[m] = t} \cup {l}
    BY <1>5
  <2>2. \A u \in Tasks : u # t => {m \in Locks : writer'[m] = u} = {m \in Locks : writer[m] = u}
    BY <1>3, <1>5, TasksTyped
  <2> QED
    BY <1>3, <2>1, <2>2 DEF Held, After, Write
<1>7. Disciplined' /\ rest' \in [Tasks -> Seq(Ops)]
  BY <1>2, <1>3, <1>6, Advances
<1>8. Queued' /\ queue' \in [Locks -> Seq(Request)]
  BY <1>1, <1>2, <1>3, <1>5, QueuedShrinks
<1> QED
  BY <1>3, <1>5, <1>7, <1>8 DEF LocksInv, LocksTyped

LEMMA ReleaseKeeps == ASSUME LocksInv, NEW t \in Tasks, Release(t) PROVE LocksInv'
<1>1. /\ rest[t] \in Seq(Ops) /\ rest[t] # <<>> /\ ~Waiting(t) /\ Head(rest[t]).op = "drop"
      /\ rest' = [rest EXCEPT ![t] = Tail(@)] /\ UNCHANGED <<stage, queue>>
  BY DEF Release, AtOp, LocksInv, LocksTyped
<1>2. PICK op \in Ops, l \in Locks : op = Head(rest[t]) /\ op.op = "drop" /\ op.lock = l
  <2>1. Head(rest[t]) \in Ops
    BY <1>1
  <2> QED
    BY <1>1, <2>1 DEF Ops, Reply
<1>3. /\ reads \in [Tasks -> [Locks -> Nat]] /\ rest \in [Tasks -> Seq(Ops)]
      /\ writer \in [Locks -> Tasks \cup {"none"}]
  BY DEF LocksInv, LocksTyped
<1>4. \A u \in Tasks : u # t => rest'[u] = rest[u]
  BY <1>1
<1>5. /\ writer' \in [Locks -> Tasks \cup {"none"}]
      /\ Held(t)' = After(op, Held(t)) /\ \A u \in Tasks : u # t => Held(u)' = Held(u)
  <2>1. CASE writer[l] = t
    <3>1. writer' = [writer EXCEPT ![l] = "none"] /\ reads' = reads
      BY <1>2, <2>1 DEF Release
    <3>2. \A m \in Locks : writer'[m] = IF m = l THEN "none" ELSE writer[m]
      BY <1>3, <3>1
    <3>3. {m \in Locks : writer'[m] = t} = {m \in Locks : writer[m] = t} \ {l}
      BY <3>2, TasksTyped
    <3>4. \A u \in Tasks : u # t => {m \in Locks : writer'[m] = u} = {m \in Locks : writer[m] = u}
      BY <2>1, <3>2, TasksTyped
    <3> QED
      BY <1>2, <1>3, <2>1, <3>1, <3>3, <3>4 DEF Held, After
  <2>2. CASE writer[l] # t
    <3>1. reads' = [reads EXCEPT ![t][l] = @ - 1] /\ writer' = writer
      BY <1>2, <2>2 DEF Release
    <3>2. /\ reads'[t] = [reads[t] EXCEPT ![l] = @ - 1]
          /\ \A u \in Tasks : u # t => reads'[u] = reads[u]
      BY <1>3, <3>1
    <3> QED
      BY <1>2, <1>3, <2>2, <3>1, <3>2 DEF Held, After
  <2> QED
    BY <2>1, <2>2
<1>6. Disciplined' /\ rest' \in [Tasks -> Seq(Ops)]
  BY <1>1, <1>2, <1>5, Advances
<1>7. reads' \in [Tasks -> [Locks -> Nat]]
  <2>1. ASSUME NEW u \in Tasks PROVE reads'[u] \in [Locks -> Nat]
    <3>1. Takes(rest'[u], Held(u)', Nothing)
      BY <1>6 DEF Disciplined
    <3>2. PICK H : Trace(H, rest'[u], Held(u)', Nothing)
      BY <3>1 DEF Takes
    <3>3. 0 \in 0..Len(rest'[u])
      BY <1>6
    <3>4. Held(u)' \in Holdings
      BY <3>2, <3>3 DEF Trace
    <3> QED
      BY <3>4 DEF Held, Holdings
  <2>2. DOMAIN reads' = Tasks /\ reads' = [u \in Tasks |-> reads'[u]]
    BY <1>3 DEF Release
  <2> QED
    BY <2>1, <2>2
<1>8. Queued'
  BY <1>1, <1>4, QueuedStays
<1> QED
  BY <1>1, <1>3, <1>5, <1>6, <1>7, <1>8 DEF LocksInv, LocksTyped

LEMMA GetAnswerKeeps == ASSUME LocksInv, NEW t \in Tasks, GetAnswer(t) PROVE LocksInv'
<1>1. /\ rest[t] # <<>> /\ ~Waiting(t) /\ Head(rest[t]).op = "answer"
      /\ rest' = [rest EXCEPT ![t] = Tail(@)] /\ UNCHANGED <<stage, reads, writer, queue>>
  BY DEF GetAnswer, AtOp
<1>2. PICK op : op = Head(rest[t])
  OBVIOUS
<1>3. Held(t)' = After(op, Held(t)) /\ \A u \in Tasks : u # t => Held(u)' = Held(u)
  BY <1>1, <1>2 DEF Held, After
<1>4. Disciplined' /\ rest' \in [Tasks -> Seq(Ops)]
  BY <1>1, <1>2, <1>3, Advances
<1>5. \A u \in Tasks : u # t => rest'[u] = rest[u]
  BY <1>1 DEF LocksInv, LocksTyped
<1>6. Queued'
  BY <1>1, <1>5, QueuedStays
<1> QED
  BY <1>1, <1>4, <1>6 DEF LocksInv, LocksTyped

LEMMA EnterKeeps ==
    ASSUME LocksInv, NEW t \in Tasks, NEW s \in DOMAIN Follows, NEW code, Fits(code, 0), Enter(t, s, code)
    PROVE  LocksInv'
<1>1. /\ rest[t] = <<>> /\ stage' = [stage EXCEPT ![t] = s] /\ rest' = [rest EXCEPT ![t] = code]
      /\ UNCHANGED <<reads, writer, queue>>
  BY DEF Enter
<1>2. Held(t) = Nothing
  BY <1>1, TakesEnd DEF LocksInv, Disciplined
<1>3. Takes(code, Nothing, Nothing) /\ code \in Seq(Ops)
  <2>1. Nothing \in Holdings /\ Below(Nothing, 0)
    BY DEF Nothing, Holdings, Below
  <2> QED
    BY <2>1 DEF Fits
<1>4. rest \in [Tasks -> Seq(Ops)] /\ stage \in [Tasks -> DOMAIN Follows]
  BY DEF LocksInv, LocksTyped
<1>5. /\ rest' \in [Tasks -> Seq(Ops)] /\ rest'[t] = code /\ stage' \in [Tasks -> DOMAIN Follows]
      /\ \A u \in Tasks : u # t => rest'[u] = rest[u]
  BY <1>1, <1>3, <1>4
<1>6. \A u \in Tasks : Held(u)' = Held(u)
  BY <1>1 DEF Held
<1>7. ASSUME NEW u \in Tasks PROVE Takes(rest'[u], Held(u)', Nothing)
  <2>1. CASE u = t
    BY <1>2, <1>3, <1>5, <1>6, <2>1
  <2>2. CASE u # t
    BY <1>5, <1>6, <2>2 DEF LocksInv, Disciplined
  <2> QED
    BY <2>1, <2>2
<1>8. ~Waiting(t)
  <2>1. ASSUME NEW l \in Locks, NEW i \in DOMAIN queue[l], queue[l][i].task = t PROVE FALSE
    <3>1. Awaited(l, i)
      BY DEF LocksInv, Queued
    <3> QED
      BY <1>1, <2>1, <3>1 DEF Awaited, Asks
  <2> QED
    BY <2>1 DEF Waiting, Waits
<1>9. Queued'
  BY <1>1, <1>5, <1>8, QueuedStays
<1> QED
  BY <1>1, <1>5, <1>7, <1>9 DEF LocksInv, LocksTyped, Disciplined
LEMMA StagesTyped ==
    /\ \A s \in DOMAIN Follows : Follows[s] \subseteq DOMAIN Code \cap DOMAIN Follows
    /\ "update" \in DOMAIN Follows
    /\ \A t \in Tasks : FirstStage[t] \in DOMAIN Code \cap DOMAIN Follows
<1>1. \A s \in DOMAIN Follows : Follows[s] \subseteq DOMAIN Code \cap DOMAIN Follows
  BY DEF Follows, Code
<1>2. "update" \in DOMAIN Follows
  BY DEF Follows
<1>3. \A t \in AllTasks : FirstStage[t] \in DOMAIN Code \cap DOMAIN Follows
  BY DEF Follows, Code, FirstStage, AllTasks
<1> QED
  BY <1>1, <1>2, <1>3, LocksAssumption

LEMMA LocksStart == ASSUME LocksInit PROVE LocksInv
<1>1. \A t \in Tasks : Held(t) = Nothing
  BY TasksTyped DEF LocksInit, Held, Nothing
<1>2. ASSUME NEW t \in Tasks
      PROVE  rest[t] \in Seq(Ops) /\ Takes(rest[t], Nothing, Nothing) /\ stage[t] \in DOMAIN Follows
  <2>1. /\ rest[t] = Code[FirstStage[t]] /\ stage[t] = FirstStage[t]
        /\ FirstStage[t] \in DOMAIN Code \cap DOMAIN Follows
    BY StagesTyped DEF LocksInit
  <2>2. Fits(rest[t], 0)
    BY <2>1, FitsCode
  <2>3. Nothing \in Holdings /\ Below(Nothing, 0)
    BY DEF Nothing, Holdings, Below
  <2> QED
    BY <2>1, <2>2, <2>3 DEF Fits
<1>3. LocksTyped
  <2>1. stage \in [Tasks -> DOMAIN Follows] /\ rest \in [Tasks -> Seq(Ops)]
    BY <1>2 DEF LocksInit
  <2>2. queue \in [Locks -> Seq(Request)]
    BY DEF LocksInit
  <2> QED
    BY <2>1, <2>2 DEF LocksInit, LocksTyped
<1>4. Queued
  BY DEF LocksInit, Queued
<1> QED
  BY <1>1, <1>2, <1>3, <1>4 DEF LocksInv, Disciplined

LEMMA LocksStep == ASSUME LocksInv, [LocksNext]_lockVars PROVE LocksInv'
<1>1. ASSUME NEW t \in Tasks, Continue(t) PROVE LocksInv'
  <2>1. PICK s \in Follows[stage[t]] : Enter(t, s, Code[s])
    BY <1>1 DEF Continue
  <2>2. s \in DOMAIN Code \cap DOMAIN Follows
    BY StagesTyped DEF LocksInv, LocksTyped
  <2> QED
    BY <2>1, <2>2, FitsCode, EnterKeeps
<1>2. ASSUME NEW t \in Tasks, TaskStep(t) PROVE LocksInv'
  BY <1>2, AskKeeps, ReleaseKeeps, GetAnswerKeeps DEF TaskStep
<1>3. ASSUME BeginUpdate PROVE LocksInv'
  <2>1. PICK c \in Changes : Enter("poller", "update", Update(c)) /\ "poller" \in Tasks
    BY <1>3 DEF BeginUpdate
  <2> QED
    BY <2>1, StagesTyped, FitsUpdate, EnterKeeps
<1>4. ASSUME NEW l \in Locks, Grant(l) PROVE LocksInv'
  BY <1>4, GrantReadKeeps, GrantWriteKeeps DEF Grant
<1>5. ASSUME UNCHANGED lockVars PROVE LocksInv'
  BY <1>5 DEF lockVars, LocksInv, LocksTyped, Disciplined, Queued, Held, Awaited, Asks
<1> QED
  BY <1>1, <1>2, <1>3, <1>4, <1>5 DEF LocksNext
-----------------------------------------------------------------------------
(* A circle of waiting tasks. *)

LEMMA LeastPosition ==
    ASSUME NEW T \in SUBSET Nat, T # {} PROVE \E n \in T : \A k \in T : n <= k
<1> DEFINE below == {pair \in Nat \X Nat : pair[1] < pair[2]}
<1>1. OpToRel(<, Nat) = below
  BY Zenon DEF OpToRel
<1>2. IsWellFoundedOn(below, Nat)
  BY <1>1, NatLessThanWellFounded, Zenon
<1>3. \E n \in T : \A k \in T : <<k, n>> \notin below
  <2> HIDE DEF below
  <2> QED
    BY <1>2, WFMin
<1>4. PICK n \in T : \A k \in T : ~(k < n)
  BY <1>3
<1> QED
  BY <1>4

(* Where a waiting task waits, and what it has. *)
Place(t, l, i) == l \in Locks /\ i \in DOMAIN queue[l] /\ queue[l][i].task = t

LEMMA Places ==
    ASSUME LocksInv, NEW t \in Tasks, NEW l, NEW i, Place(t, l, i)
    PROVE  /\ i \in Nat /\ l \in Locks /\ \A m, j : Place(t, m, j) => m = l /\ j = i
           /\ \A m \in Locks : writer[m] = t => Rank[m] < Rank[l]
           /\ \A m \in Locks : reads[t][m] > 0 => Rank[m] <= Rank[l]
           /\ queue[l][i].op = "write" => \A m \in Locks : reads[t][m] > 0 => Rank[m] < Rank[l]
<1>1. /\ l \in Locks /\ queue[l][i].op \in {"read", "write"} /\ i \in 1..Len(queue[l]) /\ Len(queue[l]) \in Nat
      /\ Head(rest[t]) = [op |-> queue[l][i].op, lock |-> l] /\ rest[t] # <<>>
  <2>1. Awaited(l, i)
    BY DEF Place, LocksInv, Queued
  <2> QED
    BY <2>1, RequestsTyped DEF Place, Awaited, Asks
<1>2. ASSUME NEW m, NEW j, Place(t, m, j) PROVE m = l /\ j = i
  <2>1. Head(rest[t]).lock = m
    BY <1>2 DEF Place, LocksInv, Queued, Awaited, Asks
  <2>2. m = l
    BY <1>1, <2>1
  <2> QED
    BY <1>2, <2>2 DEF Place, LocksInv, Queued
<1>3. PICK op, h : op = Head(rest[t]) /\ h = Held(t) /\ Orderly(op, h)
  BY <1>1, TakesFirst DEF LocksInv, LocksTyped, Disciplined
<1>4. op.op = queue[l][i].op /\ op.lock = l
  BY <1>1, <1>3
<1>5. h.r = reads[t] /\ \A m \in Locks : writer[m] = t => m \in h.w
  BY <1>3 DEF Held
<1>6. /\ \A m \in Locks : writer[m] = t => Rank[m] < Rank[l]
      /\ queue[l][i].op = "write" => \A m \in Locks : reads[t][m] > 0 => Rank[m] < Rank[l]
  BY <1>1, <1>3, <1>4, <1>5 DEF Orderly
<1>7. ASSUME NEW m \in Locks, reads[t][m] > 0 PROVE Rank[m] <= Rank[l]
  <2>1. Rank[m] < Rank[l] \/ Rank[m] <= Rank[l]
    BY <1>1, <1>3, <1>4, <1>5, <1>7 DEF Orderly
  <2> QED
    BY <1>1, <2>1, RankTyped
<1> QED
  BY <1>1, <1>2, <1>6, <1>7

LEMMA HighestLock ==
    ASSUME NEW T \in SUBSET Locks, T # {} PROVE \E l \in T : \A m \in T : Rank[m] <= Rank[l]
<1> DEFINE D == {9 - Rank[l] : l \in T}
<1>1. \A l \in T : Rank[l] \in 1..9
  BY RankTyped
<1>2. D \in SUBSET Nat /\ D # {}
  BY <1>1
<1>3. PICK n \in D : \A k \in D : n <= k
  <2> HIDE DEF D
  <2> QED
    BY <1>2, LeastPosition
<1>4. PICK l \in T : n = 9 - Rank[l]
  BY <1>3
<1>5. ASSUME NEW m \in T PROVE Rank[m] <= Rank[l]
  <2>1. n <= 9 - Rank[m]
    BY <1>3
  <2> QED
    BY <1>1, <1>4, <2>1
<1> QED
  BY <1>5

LEMMA CirclesJam ==
    ASSUME LocksInv, NEW S \in SUBSET {t \in Tasks : Waiting(t)}, Deadlocked(S)
    PROVE  \E t \in S : Jammed(t)
<1>1. S # {} /\ S \subseteq Tasks /\ \A t \in S : \E l, i : Place(t, l, i)
  BY DEF Deadlocked, Waiting, Waits, Place
<1>2. PICK high \in Locks :
        /\ \E t \in S, i \in Nat : Place(t, high, i)
        /\ \A t \in S : \A l, i : Place(t, l, i) => Rank[l] <= Rank[high]
  <2> DEFINE T == {l \in Locks : \E t \in S, i \in Nat : Place(t, l, i)}
  <2>1. \A t \in S : \A l, i : Place(t, l, i) => l \in T
    BY <1>1, Places
  <2>2. T # {} /\ T \in SUBSET Locks
    BY <1>1, <2>1
  <2>3. PICK l \in T : \A m \in T : Rank[m] <= Rank[l]
    <3> HIDE DEF T
    <3> QED
      BY <2>2, HighestLock
  <2> QED
    BY <2>1, <2>3
<1>3. PICK first \in Nat :
        /\ \E t \in S : Place(t, high, first)
        /\ \A t \in S, i \in Nat : Place(t, high, i) => first <= i
  <2> DEFINE T == {i \in Nat : \E t \in S : Place(t, high, i)}
  <2>1. T # {} /\ T \in SUBSET Nat
    BY <1>2
  <2>2. PICK n \in T : \A k \in T : n <= k
    <3> HIDE DEF T
    <3> QED
      BY <2>1, LeastPosition
  <2> QED
    BY <2>2
<1>4. PICK t \in S : Place(t, high, first)
  BY <1>3
<1>5. PICK u \in S : Blocks(u, t)
  BY DEF Deadlocked
<1>6. PICK lock, place : Place(u, lock, place)
  BY <1>1
<1>7. t \in Tasks /\ u \in Tasks /\ Rank[lock] <= Rank[high] /\ place \in Nat /\ lock \in Locks
  BY <1>1, <1>2, <1>6, Places
<1>8. \A l \in Locks : Ahead(u, t, l) => FALSE
  <2>1. SUFFICES ASSUME NEW l \in Locks, Ahead(u, t, l) PROVE FALSE
    OBVIOUS
  <2>2. PICK i \in DOMAIN queue[l], j \in DOMAIN queue[l] : i < j /\ Place(u, l, i) /\ Place(t, l, j)
    BY <2>1 DEF Ahead, Place
  <2>3. l = high /\ j = first
    BY <1>4, <1>7, <2>2, Places
  <2>4. i \in Nat
    BY <1>7, <2>2, Places
  <2>5. first <= i
    BY <1>3, <2>2, <2>3, <2>4
  <2> QED
    BY <2>2, <2>3, <2>4, <2>5
<1>9. \A l \in Locks : Waits(t, l) => l = high
  BY <1>4, <1>7, Places DEF Waits, Place
<1>10. ASSUME writer[high] = u PROVE FALSE
  <2>1. Rank[high] < Rank[lock]
    BY <1>6, <1>7, <1>10, Places
  <2> QED
    BY <1>7, <2>1, RankTyped
<1>11. Wants(t, high, "write") /\ reads[u][high] > 0
  <2>1. PICK l \in Locks : Wants(t, l, "write") /\ reads[u][l] > 0
    BY <1>5, <1>8, <1>9, <1>10 DEF Blocks
  <2>2. l = high
    BY <1>9, <2>1 DEF Wants, Waits
  <2> QED
    BY <2>1, <2>2
<1>12. lock = high
  <2>1. Rank[high] <= Rank[lock]
    BY <1>6, <1>7, <1>11, Places
  <2>2. Rank[high] = Rank[lock]
    BY <1>7, <2>1, RankTyped
  <2> QED
    BY <1>7, <2>2 DEF Rank, Locks
<1>13. queue[high][first].op = "write" /\ queue[high][place].op # "write"
  <2>1. PICK i \in DOMAIN queue[high] : queue[high][i] = [task |-> t, op |-> "write"]
    BY <1>11 DEF Wants
  <2>2. i = first
    BY <1>4, <1>7, <2>1, Places DEF Place
  <2>3. ASSUME queue[high][place].op = "write" PROVE FALSE
    <3>1. Rank[high] < Rank[high]
      BY <1>6, <1>7, <1>11, <1>12, <2>3, Places
    <3> QED
      BY <3>1, RankTyped
  <2> QED
    BY <2>1, <2>2, <2>3
<1>14. first < place /\ t # u
  <2>1. first <= place /\ first # place
    BY <1>3, <1>6, <1>7, <1>12, <1>13
  <2> QED
    BY <1>4, <1>6, <1>7, <1>12, <2>1, Places
<1>15. Ahead(t, u, high) /\ Waits(u, high)
  BY <1>4, <1>6, <1>12, <1>14 DEF Ahead, Waits, Place
<1> QED
  BY <1>7, <1>11, <1>14, <1>15 DEF Jammed

(* Whatever tasks run and whatever an update changes, tasks wait for each  *)
(* other in a circle only where one of them asks again for a lock it       *)
(* reads, behind a writer: the locks are nested in one order everywhere.   *)
THEOREM OneLockOrder == LocksSpec => []OnlyNestedReads
<1>1. LocksInv => OnlyNestedReads
  BY CirclesJam DEF OnlyNestedReads
<1> QED
  BY <1>1, LocksStart, LocksStep, PTL DEF LocksSpec
=============================================================================
