---------------------------- MODULE PathRegistry ----------------------------
(***************************************************************************)
(* MultichainNetworkRegistry::set_paths and the PathRegistry of each       *)
(* network: the poller installs path documents one after another, and a    *)
(* handler may look up a pool at any moment.  A document names, per chain, *)
(* legs from an anchor token; a leg is a sequence of hops.  The legs of a  *)
(* chain are verified one by one, then filed under their first pool, with  *)
(* the other chains' legs as targets, and then the next chain's turn       *)
(* comes.  A document's content is immutable here: an edited document is   *)
(* another one.                                                            *)
(***************************************************************************)
EXTENDS Integers, Sequences, FiniteSets, SequencesExt

CONSTANTS
    Chains, Pools, Tokens,
    Known,           \* chains whose network is in the registry
    Documents,
    Content          \* Content[d]: a sequence of [chain, anchor, legs]

Hop == [pool : Pools, tokenIn : Tokens, tokenOut : Tokens]

PathDoc == [chain : Chains, anchor : Tokens, legs : Seq(Seq(Hop))]

ASSUME PathAssumption ==
    /\ Known \subseteq Chains
    /\ Content \in [Documents -> Seq(PathDoc)]

VARIABLES
    filed,           \* paths_cache of each chain: entries by pool
    tokens,          \* keys of each chain's ProfitTokenRegistry
    pc,
    doc, index,      \* set_paths: the document, the path of it in work
    verified,        \* set_paths: how many of its legs are verified
    left,            \* set_paths: pools of pool_to_path not filed yet
    tried,           \* history: documents set_paths was called with
    done             \* history: those it returned Ok for

registries == <<filed, tokens>>
call == <<pc, doc, index, verified, left>>
vars == <<registries, call, tried, done>>

Paths(d) == ToSet(Content[d])
Path == Content[doc][index]
Legs(path) == ToSet(path.legs)
Others(d, path) == {other \in Paths(d) : other.chain # path.chain}

(* pool_to_path: the verified legs of the path by their first pool. *)
FirstPool(leg) == leg[1].pool
GroupOfOne(p) == {CHOOSE l \in Legs(Path) : FirstPool(l) = p}
Group(p) == {l \in Legs(Path) : FirstPool(l) = p}

TypeOK ==
    /\ DOMAIN filed = Known
    /\ \A c \in Known : DOMAIN filed[c] \subseteq Pools
    /\ tokens \in [Known -> SUBSET Tokens]
    /\ pc \in {"idle", "verify", "file", "dead"}
    /\ doc \in Documents \cup {"none"}
    /\ pc \in {"verify", "file"} =>
        index \in DOMAIN Content[doc] /\ verified \in 0..Len(Path.legs)
    /\ left \subseteq Pools
    /\ done \subseteq tried /\ tried \subseteq Documents

Init ==
    /\ filed = [c \in Known |-> <<>>] /\ tokens = [c \in Known |-> {}]
    /\ pc = "idle" /\ doc = "none" /\ index = 0 /\ verified = 0 /\ left = {}
    /\ tried = {} /\ done = {}
-----------------------------------------------------------------------------
Return ==
    /\ pc' = "idle" /\ doc' = "none"
    /\ index' = 0 /\ verified' = 0 /\ left' = {}

Begin(i) == pc' = "verify" /\ index' = i /\ verified' = 0

(* handle_paths_update calls set_paths, again and again if it failed. *)
SetPaths(d) ==
    /\ pc = "idle" /\ Content[d] # <<>>
    /\ Begin(1) /\ doc' = d
    /\ tried' = tried \cup {d} /\ done' = done \ {d}
    /\ UNCHANGED <<registries, left>>

LegPanics(path, leg) == leg = <<>> \/ path.chain \notin Known

(* last().unwrap() and get_profit_token_registry(..).await.unwrap() *)
LegUnwraps ==
    /\ pc = "verify" /\ verified < Len(Path.legs)
    /\ LegPanics(Path, Path.legs[verified + 1])
    /\ pc' = "dead"
    /\ UNCHANGED <<registries, doc, index, verified, left, tried, done>>

(* The check's loop runs over 0..len - 2, which leaves out the last joint. *)
ConnectedFromSecond(leg) == \A i \in 2 .. Len(leg) - 2 : leg[i].tokenOut = leg[i + 1].tokenIn
ConnectedButLast(leg) == \A i \in 1 .. Len(leg) - 2 : leg[i].tokenOut = leg[i + 1].tokenIn
Passes(path, leg) == leg[1].tokenIn = path.anchor /\ ConnectedButLast(leg)

(* The last token of a leg is added to the profit tokens before the check. *)
AddFirstToken(leg) == tokens' = [tokens EXCEPT ![Path.chain] = @ \cup {leg[1].tokenOut}]
AddToken(leg) == tokens' = [tokens EXCEPT ![Path.chain] = @ \cup {leg[Len(leg)].tokenOut}]

VerifyLeg ==
    /\ pc = "verify" /\ verified < Len(Path.legs)
    /\ LET leg == Path.legs[verified + 1]
       IN  /\ ~LegPanics(Path, leg)
           /\ AddToken(leg)
           /\ Passes(Path, leg)
    /\ verified' = verified + 1
    /\ UNCHANGED <<filed, pc, doc, index, left, tried, done>>

RejectLeg ==
    /\ pc = "verify" /\ verified < Len(Path.legs)
    /\ LET leg == Path.legs[verified + 1]
       IN  /\ ~LegPanics(Path, leg)
           /\ AddToken(leg)
           /\ ~Passes(Path, leg)
    /\ Return
    /\ UNCHANGED <<filed, tried, done>>

(* Without legs the registry is still asked for: an Err if it is unknown.  *)
Verified ==
    /\ pc = "verify" /\ verified = Len(Path.legs)
    /\ IF Path.chain \in Known
       THEN /\ pc' = "file" /\ left' = {FirstPool(l) : l \in Legs(Path)}
            /\ UNCHANGED <<doc, index, verified>>
       ELSE Return
    /\ UNCHANGED <<registries, tried, done>>

-----------------------------------------------------------------------------
With(f, p, entry) == [q \in DOMAIN f \cup {p} |-> IF q = p THEN entry ELSE f[q]]

Entry(p) == [anchor |-> Path.anchor, legs |-> Group(p), targets |-> Others(doc, Path)]

(* PathRegistry::set_paths replaces what was filed under the pool; the     *)
(* pools come in the order of a HashMap.                                   *)
FilePool(p) ==
    /\ pc = "file" /\ p \in left /\ Others(doc, Path) # {}
    /\ filed' = [filed EXCEPT ![Path.chain] = With(@, p, Entry(p))]
    /\ left' = left \ {p}
    /\ UNCHANGED <<tokens, pc, doc, index, verified, tried, done>>

(* "Path is empty" *)
NoTargets ==
    /\ pc = "file" /\ left # {} /\ Others(doc, Path) = {}
    /\ Return
    /\ UNCHANGED <<registries, tried, done>>

NextPath ==
    /\ pc = "file" /\ left = {} /\ index < Len(Content[doc])
    /\ Begin(index + 1)
    /\ UNCHANGED <<registries, doc, left, tried, done>>

AllFiled ==
    /\ pc = "file" /\ left = {} /\ index = Len(Content[doc])
    /\ done' = done \cup {doc}
    /\ Return
    /\ UNCHANGED <<registries, tried>>

Next ==
    \/ \E d \in Documents : SetPaths(d)
    \/ LegUnwraps \/ VerifyLeg \/ RejectLeg \/ Verified
    \/ \E p \in Pools : FilePool(p)
    \/ NoTargets \/ NextPath \/ AllFiled

Spec == Init /\ [][Next]_vars
-----------------------------------------------------------------------------
(* Properties. *)

(* What get_paths_for_pool offers a handler for a swap of p on chain c:    *)
(* pairs of a source leg and a target leg.                                 *)
Offered(c, p) ==
    IF p \in DOMAIN filed[c]
    THEN {<<l, m>> : l \in filed[c][p].legs, m \in UNION {Legs(t) : t \in filed[c][p].targets}}
    ELSE {}

KeysOf(d) ==
    UNION {{<<path.chain, FirstPool(l)>> : l \in Legs(path) \ {<<>>}} : path \in Paths(d)}
Alone(d) == \A e \in tried \ {d} : KeysOf(d) \cap KeysOf(e) = {}

(* Both legs of an offered pair are legs of one document the poller        *)
(* brought, of two different chains, the source's being the registry's.    *)
OfOneDocument(c, pair) ==
    \E d \in tried : \E i, j \in Paths(d) :
        /\ i.chain = c /\ j.chain # c
        /\ pair[1] \in Legs(i) /\ pair[2] \in Legs(j)

(* An installed document whose first pools no other document uses is found *)
(* from both sides: for any two legs on different chains, a swap of the    *)
(* first pool of either offers the pair.  And no other pairs are offered:  *)
(* replacing and failing mixes no two documents.                           *)
FoundFromBothSides ==
    /\ \A d \in done : Alone(d) =>
           \A i, j \in Paths(d) : i.chain # j.chain =>
               \A l \in Legs(i), m \in Legs(j) :
                   /\ <<l, m>> \in Offered(i.chain, FirstPool(l))
                   /\ <<m, l>> \in Offered(j.chain, FirstPool(m))
    /\ \A c \in Known, p \in Pools : \A pair \in Offered(c, p) : OfOneDocument(c, pair)

(* The source legs of every entry were verified, whatever failed before or *)
(* after they were filed: they begin with the anchor of their path, and    *)
(* their hops connect but for the last one, which nothing looks at.  The   *)
(* targets, whose turn comes later, were verified where the document was   *)
(* installed and has its first pools to itself; a rejected document leaves *)
(* targets behind that were not.                                           *)
VerifiedAgainst(anchor, leg) ==
    /\ leg # <<>> /\ leg[1].tokenIn = anchor
    /\ \A i \in 1 .. Len(leg) - 2 : leg[i].tokenOut = leg[i + 1].tokenIn

InstalledVerified ==
    /\ \A c \in Known : \A p \in DOMAIN filed[c] :
           \A leg \in filed[c][p].legs : VerifiedAgainst(filed[c][p].anchor, leg)
    /\ \A d \in done : Alone(d) =>
           \A key \in KeysOf(d) : \A t \in filed[key[1]][key[2]].targets :
               \A leg \in Legs(t) : VerifiedAgainst(t.anchor, leg)

(* A handler can price what a source leg ends in: its last token was       *)
(* registered with the network's profit tokens before the leg was filed.   *)
(* (Not so for targets, which are filed before their own chain's turn.)    *)
SourcesPriced ==
    \A c \in Known : \A p \in DOMAIN filed[c] :
        \A leg \in filed[c][p].legs : leg[Len(leg)].tokenOut \in tokens[c]
=============================================================================
