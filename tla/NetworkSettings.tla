--------------------------- MODULE NetworkSettings ---------------------------
(***************************************************************************)
(* What one network is configured with and who holds a copy of it: the     *)
(* polling task brings the network up from its document and later applies  *)
(* newer documents to it (NetworkRegistry::update_network), one setting    *)
(* after the other, while the price loop of its ProfitTokenRegistry and    *)
(* the follower that fetches pools use them.  Both hold guards across a    *)
(* remote call, and an update waits for them.  The polling task also       *)
(* registers the profit tokens whose prices the loop asks for.             *)
(***************************************************************************)
EXTENDS Naturals, Sequences, FiniteSets

CONSTANTS
    Documents,       \* contents a network's document may have, by name
    Content,         \* Content[d]: the settings of d
    Bad,             \* an address that does not parse
    Absent,          \* no multicall address in the document
    Multicall3,      \* the well-known address used instead
    NoRpcs,          \* an empty or unparsable list of nodes
    Tokens, ProfitTokens,
    Pools, TokensOf, \* TokensOf[p]: the two tokens of a pool
    MaxUpdates       \* bound: documents handed on

None == "none"
Addresses == {"wrap", "aero", "multicall"}
Settings == {"name", "rpcs", "wrap", "minProfit", "aero", "fees", "multicall", "wait", "batch"}

ASSUME SettingsAssumption ==
    /\ \A d \in Documents :
        /\ DOMAIN Content[d] = Settings /\ Content[d].name # None
        /\ \A s \in Settings \ Addresses : Content[d][s] # Bad
    /\ Bad \notin {None, Multicall3}
    /\ ProfitTokens \subseteq Tokens /\ None \notin ProfitTokens
    /\ TokensOf \in [Pools -> SUBSET Tokens]
    /\ MaxUpdates \in Nat

(* The copies of the settings, in the order update_network settles them.   *)
(* The name is also with the price fetcher, the provider made from the     *)
(* nodes also with the pool registry and with the follower.                *)
Order == <<"name", "priceName", "rpcs", "poolsRpcs", "followerRpcs", "wrap", "minProfit",
           "aero", "fees", "multicall", "wait", "batch">>
Copies == {Order[i] : i \in 1..Len(Order)}
Source(c) == CASE c = "priceName" -> "name"
               [] c \in {"poolsRpcs", "followerRpcs"} -> "rpcs"
               [] OTHER -> c

VARIABLES
    status,     \* the network: "down", "up", or the polling task is "dead"
    held,       \* held[c]: what each copy holds
    handed,     \* the document handed on last
    at,         \* update_network: the copy it settles next, 0 outside it
    outcome,    \* how the last document ended
    updates,    \* bound: documents handed on
    before,     \* history: the copies when the update began
    book,       \* tokens of the ProfitTokenRegistry: price, threshold
    listed,     \* token_addresses of the price fetcher
    adding,     \* add_token: inserted and not yet listed
    loop,       \* the price loop: pc, name and tokens asked for, min_profit_usd
    known,      \* TokenRegistry
    cached,     \* pools in the PoolRegistry
    fetching    \* the pool the follower is fetching

update == <<status, held, handed, at, outcome, updates, before>>
prices == <<book, listed, adding>>
follower == <<known, cached, fetching>>
vars == <<update, prices, loop, follower>>

DefaultPrice == "default"
Zero == "zero"
Names == {Content[d].name : d \in Documents}
Thresholds == {Content[d].minProfit : d \in Documents}
Wanted(d, c) == LET v == Content[d][Source(c)]
                IN  IF c = "multicall" /\ v = Absent THEN Multicall3 ELSE v
Want(c) == Wanted(handed, c)
InRegistry == held["name"] # None

TypeOK ==
    /\ status \in {"down", "up", "dead"}
    /\ DOMAIN held = Copies /\ (InRegistry <=> None \notin {held[c] : c \in Copies})
    /\ status = "up" => InRegistry
    /\ Bad \notin {held[c] : c \in Copies} /\ held["multicall"] # Absent
    /\ held["followerRpcs"] # NoRpcs
    /\ handed \in Documents \cup {None}
    /\ at \in 0..(Len(Order) + 1) /\ at > 0 => status = "up"
    /\ outcome \in {None, "ok", "err"} /\ updates \in 0..MaxUpdates
    /\ DOMAIN book \subseteq ProfitTokens
    /\ \A t \in DOMAIN book : /\ book[t].price \in Names \cup {DefaultPrice}
                              /\ book[t].minProfit \in Thresholds \cup {Zero}
    /\ listed \subseteq ProfitTokens /\ adding \in ProfitTokens \cup {None}
    /\ loop.pc \in {"off", "rest", "ask", "store"}
    /\ loop.name \in Names \cup {None} /\ loop.tokens \subseteq ProfitTokens
    /\ known \subseteq Tokens /\ cached \subseteq Pools /\ fetching \in Pools \cup {None}

Init ==
    /\ status = "down" /\ held = [c \in Copies |-> None] /\ before = held
    /\ handed = None /\ at = 0 /\ outcome = None /\ updates = 0
    /\ book = <<>> /\ listed = {} /\ adding = None
    /\ loop = [pc |-> "off", name |-> None, tokens |-> {}, minProfit |-> Zero]
    /\ known = {} /\ cached = {} /\ fetching = None
-----------------------------------------------------------------------------
(* handle_networks_update, for a network that is not in the registry yet.  *)
(* create_provider unwraps; the addresses of wrapped token and Aero        *)
(* factories must parse, a multicall address that does not is replaced.    *)
AtStart(d, c) == IF Wanted(d, c) = Bad THEN Multicall3 ELSE Wanted(d, c)

Idle == at = 0 /\ adding = None /\ updates < MaxUpdates

BringUp(d) ==
    /\ status = "down" /\ Idle
    /\ handed' = d /\ updates' = updates + 1
    /\ \/ /\ Content[d].rpcs = NoRpcs
          /\ status' = "dead" /\ UNCHANGED <<held, outcome>>
       \/ /\ Content[d].rpcs # NoRpcs /\ Bad \in {Content[d].aero, Content[d].wrap}
          /\ outcome' = "err" /\ UNCHANGED <<status, held>>
       \/ /\ Content[d].rpcs # NoRpcs /\ Bad \notin {Content[d].aero, Content[d].wrap}
          /\ status' = "up" /\ outcome' = "ok"
          /\ held' = [c \in Copies |-> AtStart(d, c)]
    /\ UNCHANGED <<at, before, prices, loop, follower>>

(* ... and for one that is: update_network, under the write lock of the    *)
(* network for its whole duration.                                         *)
Begin(d) ==
    /\ status = "up" /\ Idle
    /\ handed' = d /\ updates' = updates + 1
    /\ at' = 1 /\ before' = held /\ outcome' = None
    /\ UNCHANGED <<status, held, prices, loop, follower>>

At(c) == at \in 1..Len(Order) /\ Order[at] = c
Same(c) == held[c] = Want(c)
Settle(c) == held' = [held EXCEPT ![c] = Want(c)] /\ at' = at + 1
Skip(n) == at' = at + n /\ UNCHANGED held

(* The guards that others hold while they wait for an answer.              *)
PricesFree == loop.pc \notin {"ask", "store"}
FollowerFree == fetching = None

UpdateNetworkName ==
    /\ At("name")
    /\ IF Same("name") THEN Skip(2) ELSE Settle("name")
    /\ UNCHANGED <<status, outcome>>

UpdateChainNameAnytime ==
    /\ At("priceName")
    /\ Settle("priceName")
    /\ UNCHANGED <<status, outcome>>

UpdateChainName ==
    /\ At("priceName") /\ PricesFree
    /\ Settle("priceName")
    /\ UNCHANGED <<status, outcome>>

(* create_provider comes first: if it panics, nothing has been replaced.   *)
UpdateRpcsStoresFirst ==
    /\ At("rpcs")
    /\ \/ Same("rpcs") /\ Skip(3) /\ UNCHANGED status
       \/ ~Same("rpcs") /\ Want("rpcs") # NoRpcs /\ Settle("rpcs") /\ UNCHANGED status
       \/ /\ ~Same("rpcs") /\ Want("rpcs") = NoRpcs
          /\ status' = "dead" /\ at' = 0 /\ held' = [held EXCEPT !["rpcs"] = NoRpcs]
    /\ UNCHANGED outcome

UpdateRpcs ==
    /\ At("rpcs")
    /\ \/ Same("rpcs") /\ Skip(3) /\ UNCHANGED status
       \/ ~Same("rpcs") /\ Want("rpcs") # NoRpcs /\ Settle("rpcs") /\ UNCHANGED status
       \/ /\ ~Same("rpcs") /\ Want("rpcs") = NoRpcs
          /\ status' = "dead" /\ at' = 0 /\ UNCHANGED held
    /\ UNCHANGED outcome

SetProvider(c) ==
    /\ At(c) /\ c \in {"poolsRpcs", "followerRpcs"} /\ FollowerFree
    /\ Settle(c)
    /\ UNCHANGED <<status, outcome>>

(* An address that does not parse ends the update; what has been settled   *)
(* before stays, and the error is only logged.                             *)
ParseError(c) ==
    /\ At(c) /\ c \in Addresses /\ Want(c) = Bad
    /\ at' = 0 /\ outcome' = "err"
    /\ UNCHANGED <<status, held>>

(* Wrapped token and minimum profit, with the ProfitTokenRegistry.          *)
UpdateProfitSetting(c) ==
    /\ At(c) /\ c \in {"wrap", "minProfit"} /\ Want(c) # Bad
    /\ Settle(c)
    /\ UNCHANGED <<status, outcome>>

UpdateFactoryIfBoth(c) ==
    /\ At(c) /\ c \in {"aero", "fees"} /\ Want(c) # Bad
    /\ IF c = "aero" /\ (Same("aero") \/ Same("fees")) THEN Skip(2) ELSE Settle(c)
    /\ UNCHANGED <<status, outcome>>

(* Aero factories and fees, with the pool registry: both are compared      *)
(* before either is replaced.                                              *)
UpdateFactory(c) ==
    /\ At(c) /\ c \in {"aero", "fees"} /\ Want(c) # Bad
    /\ IF c = "aero" /\ Same("aero") /\ Same("fees") THEN Skip(2) ELSE Settle(c)
    /\ UNCHANGED <<status, outcome>>

(* The follower's settings; it reads the multicall address under a guard   *)
(* it keeps while it fetches a pool.                                       *)
UpdateFollowerSetting(c) ==
    /\ At(c) /\ c \in {"multicall", "wait", "batch"} /\ Want(c) # Bad
    /\ c = "multicall" /\ ~Same(c) => FollowerFree
    /\ Settle(c)
    /\ UNCHANGED <<status, outcome>>

End ==
    /\ at = Len(Order) + 1
    /\ at' = 0 /\ outcome' = "ok"
    /\ UNCHANGED <<status, held>>

UpdateStep ==
    /\ \/ UpdateNetworkName \/ UpdateChainName \/ UpdateRpcs \/ End
       \/ \E c \in Copies :
            \/ SetProvider(c) \/ ParseError(c)
            \/ UpdateProfitSetting(c) \/ UpdateFactory(c) \/ UpdateFollowerSetting(c)
    /\ UNCHANGED <<handed, updates, before, prices, loop, follower>>
-----------------------------------------------------------------------------
(* add_token_if_not_exists, called by set_paths in the polling task: the   *)
(* token is registered, then the price fetcher is told.                    *)
InsertToken(t) ==
    /\ status = "up" /\ at = 0 /\ adding = None
    /\ t \notin DOMAIN book
    /\ book' = [u \in DOMAIN book \cup {t} |->
                    IF u = t THEN [price |-> DefaultPrice, minProfit |-> Zero] ELSE book[u]]
    /\ adding' = t
    /\ UNCHANGED <<update, listed, loop, follower>>

ListTokenIfFree ==
    /\ adding # None
    /\ listed' = IF PricesFree THEN listed \cup {adding} ELSE listed
    /\ adding' = None
    /\ UNCHANGED <<update, book, loop, follower>>

ListToken ==
    /\ adding # None /\ PricesFree
    /\ listed' = listed \cup {adding} /\ adding' = None
    /\ UNCHANGED <<update, book, loop, follower>>

(* get_price: a registered token without a price has the default one.      *)
GetPrice(t) == IF t \in DOMAIN book THEN book[t].price ELSE None

(* The loop: spawned when the network comes up, it copies min_profit_usd   *)
(* once.  A round holds the guard of the price updater from the request to *)
(* the last price stored.                                                  *)
StartLoop ==
    /\ InRegistry /\ loop.pc = "off"
    /\ loop' = [loop EXCEPT !.pc = "rest", !.minProfit = held["minProfit"]]
    /\ UNCHANGED <<update, prices, follower>>

Ask ==
    /\ loop.pc = "rest"
    /\ loop' = [loop EXCEPT !.pc = "ask", !.name = held["priceName"], !.tokens = listed]
    /\ UNCHANGED <<update, prices, follower>>

(* A token may be missing in the answer, or its price not a number.        *)
Answer(S) ==
    /\ loop.pc = "ask" /\ S \subseteq loop.tokens
    /\ loop' = [loop EXCEPT !.pc = "store", !.tokens = S]
    /\ UNCHANGED <<update, prices, follower>>

Rested == loop' = [loop EXCEPT !.pc = "rest", !.name = None, !.tokens = {}]

AnswerErr ==
    /\ loop.pc = "ask" /\ loop.tokens # {}
    /\ Rested
    /\ UNCHANGED <<update, prices, follower>>

(* A threshold in units of the token is computed if its decimals are known *)
(* (no code reads it).                                                     *)
Priced(t) == [price |-> loop.name,
              minProfit |-> IF t \in known THEN loop.minProfit ELSE book[t].minProfit]

StoreOnce(t) ==
    /\ loop.pc = "store" /\ t \in loop.tokens
    /\ book' = IF GetPrice(t) = DefaultPrice THEN [book EXCEPT ![t] = Priced(t)] ELSE book
    /\ loop' = [loop EXCEPT !.tokens = @ \ {t}]
    /\ UNCHANGED <<update, listed, adding, follower>>

Store(t) ==
    /\ loop.pc = "store" /\ t \in loop.tokens
    /\ book' = IF t \in DOMAIN book THEN [book EXCEPT ![t] = Priced(t)] ELSE book
    /\ loop' = [loop EXCEPT !.tokens = @ \ {t}]
    /\ UNCHANGED <<update, listed, adding, follower>>

Rest ==
    /\ loop.pc = "store" /\ loop.tokens = {}
    /\ Rested
    /\ UNCHANGED <<update, prices, follower>>
-----------------------------------------------------------------------------
(* The follower fetches a pool: the match on identify_and_fetch_pool keeps *)
(* the guards of provider, multicall address and pool registry to its end. *)
BeginFetch(p) ==
    /\ InRegistry /\ fetching = None /\ p \notin cached
    /\ fetching' = p
    /\ UNCHANGED <<update, prices, loop, known, cached>>

(* get_or_fetch_token, for a token not in the registry.                    *)
FetchToken(t) ==
    /\ fetching # None /\ t \in TokensOf[fetching] \ known
    /\ known' = known \cup {t}
    /\ UNCHANGED <<update, prices, loop, cached, fetching>>

TokensFetched(p) == TokensOf[p] \subseteq known

AddPool ==
    /\ fetching # None /\ TokensFetched(fetching)
    /\ cached' = cached \cup {fetching} /\ fetching' = None
    /\ UNCHANGED <<update, prices, loop, known>>

FetchErr ==
    /\ fetching # None /\ fetching' = None
    /\ UNCHANGED <<update, prices, loop, known, cached>>
-----------------------------------------------------------------------------
Next ==
    \/ \E d \in Documents : BringUp(d) \/ Begin(d)
    \/ UpdateStep
    \/ \E t \in ProfitTokens : InsertToken(t) \/ Store(t)
    \/ ListToken \/ StartLoop \/ Ask \/ AnswerErr \/ Rest
    \/ \E S \in SUBSET ProfitTokens : Answer(S)
    \/ \E p \in Pools : BeginFetch(p)
    \/ \E t \in Tokens : FetchToken(t)
    \/ AddPool \/ FetchErr

(* tokio's locks are fair, so add_token is let in although the loop comes  *)
(* again and again: strong fairness.  A round of the loop ends (weak: the  *)
(* server answers or refuses) and its answers name each token now and then *)
(* (strong).  Nothing is assumed of updates, which can jam (RuntimeLocks). *)
Fairness ==
    /\ SF_vars(ListToken)
    /\ WF_vars(StartLoop) /\ WF_vars(Ask) /\ WF_vars(Rest)
    /\ WF_vars(AnswerErr \/ \E S \in SUBSET ProfitTokens : Answer(S))
    /\ \A t \in ProfitTokens :
        WF_vars(Store(t)) /\ SF_vars(\E S \in SUBSET ProfitTokens : t \in S /\ Answer(S))

Spec == Init /\ [][Next]_vars /\ Fairness
-----------------------------------------------------------------------------
(* update_network goes through the copies in their order, skipping none    *)
(* that differs: those passed hold the document's settings, the others     *)
(* what they held before; and a document that was applied is held by every *)
(* copy, whatever half-applied document came before it.  (A document the   *)
(* network is brought up with may have a multicall address that does not   *)
(* parse.)                                                                 *)
AppliedInOrder ==
    /\ at > 0 => \A i \in 1..Len(Order) :
        held[Order[i]] = IF i < at THEN Want(Order[i]) ELSE before[Order[i]]
    /\ outcome = "ok" => \A c \in Copies :
        held[c] = AtStart(handed, c)

(* The name of the network and the price fetcher's, the nodes of the       *)
(* registry, the pool registry's and the follower's are the same except    *)
(* while update_network replaces them one by one, also after an update     *)
(* that failed or panicked: the comparison that decides whether to replace *)
(* them looks at the first copy only.                                      *)
CopiesAgree ==
    /\ ~At("priceName") => held["priceName"] = held["name"]
    /\ ~At("poolsRpcs") /\ ~At("followerRpcs") =>
        held["poolsRpcs"] = held["rpcs"] /\ held["followerRpcs"] = held["rpcs"]

(* A price that is stored was asked for under the name the network has at  *)
(* that moment: a round that began under an old name does not end under a  *)
(* new one.                                                                *)
PricesOfTheName ==
    [][\A t \in DOMAIN book \cap DOMAIN book' :
        book'[t].price # book[t].price => book'[t].price = held'["priceName"]]_vars

(* The registry's check for a token it has already covers the price        *)
(* fetcher too: a token that is registered is listed or about to be, or it *)
(* would keep the default price for ever.                                  *)
NoTokenForgotten == DOMAIN book = listed \cup ({adding} \ {None})

(* A registered token gets its price, and after a change of the network's  *)
(* name the price of that name, unless the name changes again.             *)
PricesFollow ==
    \A t \in ProfitTokens, n \in Names :
        t \in DOMAIN book /\ held["priceName"] = n
            ~> GetPrice(t) = n \/ held["priceName"] # n
=============================================================================
