-------------------------- MODULE PathRegistryProofs --------------------------
(***************************************************************************)
(* Proofs about PathRegistry for any chains, known or not, and any         *)
(* documents.                                                              *)
(***************************************************************************)
EXTENDS PathRegistry, TLAPS

(* A leg set_paths has verified: its last token has a price, too.          *)
Checked(path, leg) ==
    /\ path.chain \in Known /\ VerifiedAgainst(path.anchor, leg)
    /\ leg[Len(leg)].tokenOut \in tokens[path.chain]

(* A path set_paths is through with: each leg's first pool has an entry,   *)
(* which another document may have replaced since.                         *)
Through(path) ==
    /\ path.chain \in Known
    /\ \A leg \in Legs(path) : Checked(path, leg) /\ FirstPool(leg) \in DOMAIN filed[path.chain]

(* How far the call in progress has come. *)
Working ==
    pc \in {"verify", "file"} =>
        /\ doc \in tried /\ index \in DOMAIN Content[doc] /\ verified \in 0..Len(Path.legs)
        /\ \A j \in 1..index - 1 : Through(Content[doc][j])
        /\ \A k \in 1..verified : Checked(Path, Path.legs[k])
Filing ==
    pc = "file" =>
        /\ Path.chain \in Known /\ verified = Len(Path.legs)
        /\ left \subseteq {FirstPool(leg) : leg \in Legs(Path)}
        /\ \A leg \in Legs(Path) :
              FirstPool(leg) \in left \/ FirstPool(leg) \in DOMAIN filed[Path.chain]

Installed == \A d \in done : \A path \in Paths(d) : Through(path)

(* Every entry is the whole of one path of one document. *)
EntryOf(c, p, d, path) ==
    /\ path.chain = c /\ <<c, p>> \in KeysOf(d)
    /\ filed[c][p] = [anchor  |-> path.anchor,
                      legs    |-> {leg \in Legs(path) : FirstPool(leg) = p},
                      targets |-> Others(d, path)]
    /\ \A leg \in Legs(path) : Checked(path, leg)
Entries ==
    \A c \in Known : \A p \in DOMAIN filed[c] :
        \E d \in tried : \E path \in Paths(d) : EntryOf(c, p, d, path)

IInv == TypeOK /\ Working /\ Filing /\ Installed /\ Entries
-----------------------------------------------------------------------------
(* What nothing takes back: tokens and entries are only added. *)
Grows ==
    \A c \in Known : tokens[c] \subseteq tokens'[c] /\ DOMAIN filed[c] \subseteq DOMAIN filed'[c]

LEMMA CheckedStays ==
    ASSUME Grows, NEW path, NEW leg, Checked(path, leg) PROVE Checked(path, leg)'
BY DEF Grows, Checked

LEMMA ThroughStays ==
    ASSUME Grows, NEW path, Through(path) PROVE Through(path)'
BY CheckedStays DEF Grows, Through

LEMMA DocumentTyped ==
    ASSUME NEW d \in Documents, NEW i \in DOMAIN Content[d]
    PROVE  /\ Content[d] \in Seq(PathDoc) /\ DOMAIN Content[d] = 1..Len(Content[d])
           /\ i \in 1..Len(Content[d])
           /\ Content[d][i] \in Paths(d) /\ Content[d][i] \in PathDoc
           /\ Content[d][i].legs \in Seq(Seq(Hop)) /\ Len(Content[d][i].legs) \in Nat
           /\ Legs(Content[d][i]) = {Content[d][i].legs[k] : k \in 1..Len(Content[d][i].legs)}
<1>1. Content[d] \in Seq(PathDoc)
  BY PathAssumption
<1>2. DOMAIN Content[d] = 1..Len(Content[d]) /\ Content[d][i] \in PathDoc
  BY <1>1
<1>3. Content[d][i].legs \in Seq(Seq(Hop))
  BY <1>2 DEF PathDoc
<1> QED
  BY <1>1, <1>2, <1>3 DEF Paths, Legs, ToSet

LEMMA PathsIndexed ==
    ASSUME NEW d \in Documents, NEW path \in Paths(d)
    PROVE  \E i \in 1..Len(Content[d]) : path = Content[d][i]
<1>1. Content[d] \in Seq(PathDoc)
  BY PathAssumption
<1> QED
  BY <1>1 DEF Paths, ToSet

LEMMA LegTyped ==
    ASSUME NEW d \in Documents, NEW i \in DOMAIN Content[d], NEW leg \in Legs(Content[d][i]),
           leg # <<>>
    PROVE  FirstPool(leg) \in Pools /\ leg[Len(leg)].tokenOut \in Tokens
<1>1. leg \in Seq(Hop)
  <2>1. /\ Content[d][i].legs \in Seq(Seq(Hop))
        /\ Legs(Content[d][i]) = {Content[d][i].legs[k] : k \in 1..Len(Content[d][i].legs)}
    BY DocumentTyped
  <2>2. PICK k \in 1..Len(Content[d][i].legs) : leg = Content[d][i].legs[k]
    BY <2>1
  <2> QED
    BY <2>1, <2>2
<1>2. Len(leg) \in Nat /\ Len(leg) # 0 /\ DOMAIN leg = 1..Len(leg)
  BY <1>1
<1>3. leg[1] \in Hop /\ leg[Len(leg)] \in Hop
  BY <1>1, <1>2
<1> QED
  BY <1>3 DEF Hop, FirstPool
-----------------------------------------------------------------------------
LEMMA InitIInv == Init => IInv
BY DEF Init, IInv, TypeOK, Working, Filing, Installed, Entries

LEMMA StepIInv == IInv /\ [Next]_vars => IInv'
<1> SUFFICES ASSUME IInv, [Next]_vars PROVE IInv'
  OBVIOUS
<1>t. TypeOK /\ Working /\ Filing /\ Installed /\ Entries
  BY DEF IInv
(* What holds whenever a step takes nothing back. *)
<1>g. UNCHANGED registries => Grows
  BY DEF Grows, registries
<1>i. Grows /\ done' \subseteq done => Installed'
  BY <1>t, ThroughStays DEF Installed
<1>e. Grows /\ UNCHANGED filed /\ tried \subseteq tried' => Entries'
  <2> SUFFICES ASSUME Grows, UNCHANGED filed, tried \subseteq tried' PROVE Entries'
    OBVIOUS
  <2>1. ASSUME NEW c, NEW p, NEW d, NEW path, EntryOf(c, p, d, path)
        PROVE  EntryOf(c, p, d, path)'
    BY <2>1, CheckedStays DEF EntryOf
  <2> QED
    BY <1>t, <2>1 DEF Entries
<1>w. ASSUME Grows, UNCHANGED <<doc, index, verified, tried>>, pc \in {"verify", "file"}
      PROVE  Working'
  BY <1>t, <1>w, CheckedStays, ThroughStays DEF Working, Path
<1>r. pc' \notin {"verify", "file"} => Working' /\ Filing'
  BY DEF Working, Filing
(* The document and the path in work. *)
<1>d. ASSUME pc \in {"verify", "file"}
      PROVE  /\ doc \in Documents /\ index \in DOMAIN Content[doc] /\ Path = Content[doc][index]
             /\ verified \in 0..Len(Path.legs) /\ Len(Path.legs) \in Nat
             /\ Legs(Path) = {Path.legs[k] : k \in 1..Len(Path.legs)}
             /\ Path \in Paths(doc) /\ Path.chain \in Chains
  <2>1. PICK d, i : d = doc /\ i = index
    OBVIOUS
  <2>2. d \in Documents /\ i \in DOMAIN Content[d]
    BY <1>t, <1>d, <2>1 DEF Working, TypeOK
  <2>3. /\ Len(Content[d][i].legs) \in Nat /\ Content[d][i] \in Paths(d)
        /\ Legs(Content[d][i]) = {Content[d][i].legs[k] : k \in 1..Len(Content[d][i].legs)}
        /\ Content[d][i].chain \in Chains
    BY <2>2, DocumentTyped DEF PathDoc
  <2>4. Path = Content[d][i]
    BY <2>1 DEF Path
  <2> QED
    BY <1>t, <1>d, <2>1, <2>2, <2>3, <2>4 DEF Working
<1>1. ASSUME NEW d \in Documents, SetPaths(d) PROVE IInv'
  <2>1. Content[d] # <<>> /\ doc' = d /\ index' = 1 /\ verified' = 0 /\ pc' = "verify"
    BY <1>1 DEF SetPaths, Begin
  <2>2. 1 \in DOMAIN Content[d]
    <3>1. Content[d] \in Seq(PathDoc)
      BY PathAssumption
    <3> QED
      BY <2>1, <3>1
  <2>3. Len(Content[d][1].legs) \in Nat
    BY <2>2, DocumentTyped
  <2>4. Path' = Content[d][1]
    BY <2>1 DEF Path
  <2>5. TypeOK'
    BY <1>t, <1>1, <2>1, <2>2, <2>3, <2>4 DEF TypeOK, SetPaths, registries
  <2>6. Working' /\ Filing'
    BY <1>1, <2>1, <2>2, <2>3, <2>4 DEF Working, Filing, SetPaths
  <2>7. Grows /\ done' \subseteq done /\ UNCHANGED filed /\ tried \subseteq tried'
    BY <1>1, <1>g DEF SetPaths, registries
  <2> QED
    BY <1>i, <1>e, <2>5, <2>6, <2>7 DEF IInv
<1>2. ASSUME LegUnwraps PROVE IInv'
  <2>1. TypeOK' /\ pc' = "dead"
    BY <1>t, <1>2 DEF TypeOK, LegUnwraps, registries
  <2>2. Grows /\ UNCHANGED <<filed, tried, done>>
    BY <1>2, <1>g DEF LegUnwraps, registries
  <2> QED
    BY <1>i, <1>e, <1>r, <2>1, <2>2 DEF IInv
<1>3. ASSUME VerifyLeg PROVE IInv'
  <2>1. PICK d, i, k, path, leg : d = doc /\ i = index /\ k = verified /\ path = Path
                                   /\ leg = path.legs[k + 1]
    OBVIOUS
  <2>2. pc = "verify" /\ k < Len(path.legs) /\ k \in 0..Len(path.legs) /\ Len(path.legs) \in Nat
        /\ leg \in Legs(path)
    BY <1>3, <1>d, <2>1 DEF VerifyLeg
  <2>3. /\ ~LegPanics(path, leg) /\ Passes(path, leg)
        /\ tokens' = [tokens EXCEPT ![path.chain] = tokens[path.chain] \cup {leg[Len(leg)].tokenOut}]
        /\ verified' = k + 1 /\ UNCHANGED <<filed, pc, doc, index, left, tried, done>>
    BY <1>3, <2>1 DEF VerifyLeg, AddToken, Path
  <2>4. leg # <<>> /\ path.chain \in Known
    BY <2>3 DEF LegPanics
  <2>5. leg[Len(leg)].tokenOut \in Tokens
    BY <1>d, <2>1, <2>2, <2>4, LegTyped
  <2>6. Path' = path
    BY <2>1, <2>3 DEF Path
  <2>7. tokens' \in [Known -> SUBSET Tokens] /\ leg[Len(leg)].tokenOut \in tokens'[path.chain]
        /\ \A c \in Known : tokens[c] \subseteq tokens'[c]
    BY <1>t, <2>3, <2>4, <2>5 DEF TypeOK
  <2>8. TypeOK'
    BY <1>t, <1>d, <2>1, <2>2, <2>3, <2>6, <2>7 DEF TypeOK
  <2>9. Grows
    BY <2>3, <2>7 DEF Grows
  <2>10. Checked(path, leg)'
    BY <2>3, <2>4, <2>7 DEF Checked, Passes, ConnectedButLast, VerifiedAgainst
  <2>11. Working'
    <3>1. \A n \in 1..k : Checked(path, path.legs[n])'
      BY <1>t, <2>1, <2>2, <2>9, CheckedStays DEF Working
    <3>2. \A n \in 1..k + 1 : Checked(path, path.legs[n])'
      BY <2>1, <2>2, <2>10, <3>1
    <3>3. \A j \in 1..i - 1 : Through(Content[d][j])'
      BY <1>t, <2>1, <2>2, <2>9, ThroughStays DEF Working
    <3>4. doc \in tried /\ index \in DOMAIN Content[doc]
      BY <1>t, <2>2 DEF Working
    <3> QED
      BY <2>1, <2>2, <2>3, <2>6, <3>2, <3>3, <3>4 DEF Working
  <2>12. Filing'
    BY <2>2, <2>3 DEF Filing
  <2> QED
    BY <1>i, <1>e, <2>3, <2>8, <2>9, <2>11, <2>12 DEF IInv
<1>4. ASSUME RejectLeg PROVE IInv'
  <2>1. PICK path, leg : path = Path /\ leg = path.legs[verified + 1]
    OBVIOUS
  <2>2. pc = "verify" /\ verified < Len(path.legs) /\ ~LegPanics(path, leg)
        /\ tokens' = [tokens EXCEPT ![path.chain] = tokens[path.chain] \cup {leg[Len(leg)].tokenOut}]
        /\ Return /\ UNCHANGED <<filed, tried, done>>
    BY <1>4, <2>1 DEF RejectLeg, AddToken
  <2>3. leg # <<>> /\ path.chain \in Known /\ leg \in Legs(path)
    BY <1>d, <2>1, <2>2 DEF LegPanics
  <2>4. leg[Len(leg)].tokenOut \in Tokens
    BY <1>d, <2>1, <2>2, <2>3, LegTyped
  <2>5. tokens' \in [Known -> SUBSET Tokens] /\ \A c \in Known : tokens[c] \subseteq tokens'[c]
    BY <1>t, <2>2, <2>3, <2>4 DEF TypeOK
  <2>6. TypeOK' /\ Grows /\ pc' = "idle"
    BY <1>t, <2>2, <2>5 DEF TypeOK, Grows, Return
  <2> QED
    BY <1>i, <1>e, <1>r, <2>2, <2>6 DEF IInv
<1>5. ASSUME Verified PROVE IInv'
  <2>1. pc = "verify" /\ verified = Len(Path.legs) /\ UNCHANGED <<registries, tried, done>>
    BY <1>5 DEF Verified
  <2>2. Grows /\ UNCHANGED filed
    BY <1>g, <2>1 DEF registries
  <2>3. CASE Path.chain \notin Known
    <3>1. Return
      BY <1>5, <2>3 DEF Verified
    <3>2. TypeOK' /\ pc' = "idle"
      BY <1>t, <2>1, <3>1 DEF TypeOK, Return, registries
    <3> QED
      BY <1>i, <1>e, <1>r, <2>1, <2>2, <3>2 DEF IInv
  <2>4. CASE Path.chain \in Known
    <3>1. /\ pc' = "file" /\ left' = {FirstPool(l) : l \in Legs(Path)}
          /\ UNCHANGED <<doc, index, verified>>
      BY <1>5, <2>4 DEF Verified
    <3>2. Path' = Path
      BY <3>1 DEF Path
    <3>3. \A leg \in Legs(Path) : Checked(Path, leg)
      BY <1>t, <1>d, <2>1 DEF Working
    <3>4. left' \subseteq Pools
      <4>1. PICK d, i, path : d = doc /\ i = index /\ path = Path
        OBVIOUS
      <4>2. \A leg \in Legs(path) : leg # <<>>
        BY <3>3, <4>1 DEF Checked, VerifiedAgainst
      <4>3. \A leg \in Legs(path) : FirstPool(leg) \in Pools
        BY <1>d, <2>1, <4>1, <4>2, LegTyped
      <4> QED
        BY <3>1, <4>1, <4>3
    <3>5. TypeOK'
      BY <1>t, <2>1, <3>1, <3>2, <3>4, <1>d DEF TypeOK, registries
    <3>6. Filing'
      BY <2>1, <2>4, <3>1, <3>2 DEF Filing
    <3> QED
      BY <1>i, <1>e, <1>w, <2>1, <2>2, <3>1, <3>5, <3>6 DEF IInv
  <2> QED
    BY <2>3, <2>4
<1>6. ASSUME NEW q \in Pools, FilePool(q) PROVE IInv'
  <2>1. PICK d, path, entry : d = doc /\ path = Path /\ entry = Entry(q)
    OBVIOUS
  <2>2. /\ pc = "file" /\ q \in left /\ left' = left \ {q}
        /\ filed' = [filed EXCEPT ![path.chain] = With(filed[path.chain], q, entry)]
        /\ UNCHANGED <<tokens, pc, doc, index, verified, tried, done>>
    BY <1>6, <2>1 DEF FilePool
  <2>3. /\ path.chain \in Known /\ verified = Len(path.legs) /\ path \in Paths(d) /\ d \in tried
        /\ \A leg \in Legs(path) : Checked(path, leg)
        /\ \A leg \in Legs(path) : FirstPool(leg) \in left \/ FirstPool(leg) \in DOMAIN filed[path.chain]
    BY <1>t, <1>d, <2>1, <2>2 DEF Filing, Working
  <2>4. Path' = path
    BY <2>1, <2>2 DEF Path
  <2>5. entry = [anchor |-> path.anchor, legs |-> {leg \in Legs(path) : FirstPool(leg) = q},
                 targets |-> Others(d, path)]
    BY <2>1 DEF Entry, Group
  <2>6. DOMAIN filed = Known /\ DOMAIN filed' = Known
    BY <1>t, <2>2 DEF TypeOK
  <2>7. filed'[path.chain] = With(filed[path.chain], q, entry)
        /\ \A c \in Known : c # path.chain => filed'[c] = filed[c]
    BY <2>2, <2>3, <2>6
  <2>8. /\ DOMAIN filed'[path.chain] = DOMAIN filed[path.chain] \cup {q}
        /\ filed'[path.chain][q] = entry
        /\ \A p \in DOMAIN filed[path.chain] : p # q => filed'[path.chain][p] = filed[path.chain][p]
    BY <2>7 DEF With
  <2>9. Grows
    BY <2>2, <2>7, <2>8 DEF Grows
  <2>10. TypeOK'
    <3>1. \A c \in Known : DOMAIN filed'[c] \subseteq Pools
      BY <1>t, <2>7, <2>8 DEF TypeOK
    <3> QED
      BY <1>t, <2>1, <2>2, <2>4, <2>6, <3>1 DEF TypeOK
  <2>11. Filing'
    <3>1. left' \subseteq {FirstPool(leg) : leg \in Legs(path)}
      BY <1>t, <2>1, <2>2 DEF Filing
    <3>2. \A leg \in Legs(path) :
              FirstPool(leg) \in left' \/ FirstPool(leg) \in DOMAIN filed'[path.chain]
      BY <2>2, <2>3, <2>8
    <3> QED
      BY <2>2, <2>3, <2>4, <3>1, <3>2 DEF Filing
  <2>12. Entries'
    <3> SUFFICES ASSUME NEW c \in Known, NEW p \in DOMAIN filed'[c]
                 PROVE  \E e \in tried : \E h \in Paths(e) : EntryOf(c, p, e, h)'
      BY <2>2 DEF Entries
    <3>1. CASE c = path.chain /\ p = q
      <4>1. <<c, p>> \in KeysOf(d)
        <5>1. PICK leg \in Legs(path) : FirstPool(leg) = q
          BY <1>t, <2>1, <2>2 DEF Filing
        <5> QED
          BY <2>3, <3>1, <5>1 DEF KeysOf, Checked, VerifiedAgainst
      <4>2. \A leg \in Legs(path) : Checked(path, leg)'
        BY <2>3, <2>9, CheckedStays
      <4>3. EntryOf(c, p, d, path)'
        BY <2>5, <2>8, <3>1, <4>1, <4>2 DEF EntryOf
      <4> QED
        BY <2>3, <4>3
    <3>2. CASE ~(c = path.chain /\ p = q)
      <4>1. p \in DOMAIN filed[c] /\ filed'[c][p] = filed[c][p]
        BY <2>7, <2>8, <3>2
      <4>2. PICK e \in tried : \E h \in Paths(e) : EntryOf(c, p, e, h)
        BY <1>t, <4>1 DEF Entries
      <4>3. PICK h \in Paths(e) : EntryOf(c, p, e, h)
        BY <4>2
      <4>4. EntryOf(c, p, e, h)'
        BY <2>9, <4>1, <4>3, CheckedStays DEF EntryOf
      <4> QED
        BY <4>4
    <3> QED
      BY <3>1, <3>2
  <2> QED
    BY <1>i, <1>w, <2>2, <2>9, <2>10, <2>11, <2>12 DEF IInv
<1>7. ASSUME NoTargets PROVE IInv'
  <2>1. Return /\ UNCHANGED <<registries, tried, done>>
    BY <1>7 DEF NoTargets
  <2>2. TypeOK' /\ pc' = "idle"
    BY <1>t, <2>1 DEF TypeOK, Return, registries
  <2> QED
    BY <1>g, <1>i, <1>e, <1>r, <2>1, <2>2 DEF IInv, registries
<1>p. ASSUME pc = "file", left = {} PROVE Through(Path)
  <2>1. PICK path : path = Path
    OBVIOUS
  <2>2. /\ \A leg \in Legs(path) : Checked(path, leg)
        /\ path.chain \in Known
        /\ \A leg \in Legs(path) : FirstPool(leg) \in DOMAIN filed[path.chain]
    BY <1>t, <1>d, <1>p, <2>1 DEF Filing, Working
  <2> QED
    BY <2>1, <2>2 DEF Through
<1>8. ASSUME NextPath PROVE IInv'
  <2>1. PICK d, i : d = doc /\ i = index
    OBVIOUS
  <2>2. /\ pc = "file" /\ left = {} /\ i < Len(Content[d]) /\ pc' = "verify" /\ index' = i + 1
        /\ verified' = 0 /\ UNCHANGED <<registries, doc, left, tried, done>>
    BY <1>8, <2>1 DEF NextPath, Begin
  <2>3. d \in Documents /\ i \in DOMAIN Content[d] /\ d \in tried
    BY <1>t, <1>d, <2>1, <2>2 DEF Working
  <2>4. DOMAIN Content[d] = 1..Len(Content[d]) /\ i \in 1..Len(Content[d]) /\ Len(Content[d]) \in Nat
    <3>1. Content[d] \in Seq(PathDoc)
      BY <2>3, PathAssumption
    <3> QED
      BY <2>3, <3>1
  <2>5. i + 1 \in DOMAIN Content[d]
    BY <2>2, <2>4
  <2>6. Len(Content[d][i + 1].legs) \in Nat
    BY <2>3, <2>5, DocumentTyped
  <2>7. Path' = Content[d][i + 1]
    BY <2>1, <2>2 DEF Path
  <2>8. Grows /\ UNCHANGED filed
    BY <1>g, <2>2 DEF registries
  <2>9. TypeOK'
    BY <1>t, <2>1, <2>2, <2>3, <2>5, <2>6, <2>7 DEF TypeOK, registries
  <2>10. \A j \in 1..i : Through(Content[d][j])
    <3>1. Through(Content[d][i])
      BY <1>p, <2>1, <2>2 DEF Path
    <3>2. \A j \in 1..i - 1 : Through(Content[d][j])
      BY <1>t, <2>1, <2>2 DEF Working
    <3> QED
      BY <2>4, <3>1, <3>2
  <2>11. \A j \in 1..i : Through(Content[d][j])'
    BY <2>8, <2>10, ThroughStays
  <2>12. Working'
    <3>1. index' - 1 = i
      BY <2>2, <2>4
    <3>2. doc' = d /\ doc' \in tried' /\ index' \in DOMAIN Content[d] /\ verified' \in 0..Len((Path').legs)
      BY <2>1, <2>2, <2>3, <2>5, <2>6, <2>7
    <3>3. 1..verified' = {}
      BY <2>2
    <3> QED
      BY <2>11, <3>1, <3>2, <3>3 DEF Working
  <2>13. Filing'
    BY <2>2 DEF Filing
  <2> QED
    BY <1>i, <1>e, <2>2, <2>8, <2>9, <2>12, <2>13 DEF IInv
<1>9. ASSUME AllFiled PROVE IInv'
  <2>1. PICK d : d = doc
    OBVIOUS
  <2>2. /\ pc = "file" /\ left = {} /\ index = Len(Content[d]) /\ done' = done \cup {d}
        /\ Return /\ UNCHANGED <<registries, tried>>
    BY <1>9, <2>1 DEF AllFiled
  <2>3. d \in Documents /\ d \in tried
    BY <1>t, <1>d, <2>1, <2>2 DEF Working
  <2>4. TypeOK' /\ pc' = "idle" /\ Grows /\ UNCHANGED filed
    BY <1>t, <1>g, <2>2, <2>3 DEF TypeOK, Return, registries
  <2>5. \A path \in Paths(d) : Through(path)
    <3> SUFFICES ASSUME NEW path \in Paths(d) PROVE Through(path)
      OBVIOUS
    <3>1. PICK j \in 1..Len(Content[d]) : path = Content[d][j]
      BY <2>3, PathsIndexed
    <3>2. CASE j = Len(Content[d])
      BY <1>p, <2>1, <2>2, <3>1, <3>2 DEF Path
    <3>3. CASE j # Len(Content[d])
      <4>1. Len(Content[d]) \in Nat
        BY <2>3, PathAssumption
      <4>2. j \in 1..Len(Content[d]) - 1
        BY <3>1, <3>3, <4>1
      <4> QED
        BY <1>t, <2>1, <2>2, <3>1, <4>2 DEF Working
    <3> QED
      BY <3>2, <3>3
  <2>6. Installed'
    BY <1>t, <2>2, <2>4, <2>5, ThroughStays DEF Installed
  <2> QED
    BY <1>e, <1>r, <2>2, <2>4, <2>6 DEF IInv
<1>10. ASSUME UNCHANGED vars PROVE IInv'
  BY <1>t, <1>10 DEF vars, registries, call, IInv, TypeOK, Working, Filing, Installed, Entries,
     EntryOf, Through, Checked, Path
<1> QED
  BY <1>1, <1>2, <1>3, <1>4, <1>5, <1>6, <1>7, <1>8, <1>9, <1>10 DEF Next

THEOREM Inductive == Spec => []IInv
<1> QED
  BY InitIInv, StepIInv, PTL DEF Spec
-----------------------------------------------------------------------------
(* With its keys to itself, an installed document's entries are its own.   *)
LEMMA EntryOfAlone ==
    ASSUME IInv, NEW d \in done, Alone(d), NEW path \in Paths(d), NEW leg \in Legs(path)
    PROVE  /\ path.chain \in Known /\ FirstPool(leg) \in DOMAIN filed[path.chain]
           /\ \E own \in Paths(d) : EntryOf(path.chain, FirstPool(leg), d, own)
<1>1. Through(path)
  BY DEF IInv, Installed
<1>2. path.chain \in Known /\ FirstPool(leg) \in DOMAIN filed[path.chain] /\ leg # <<>>
  BY <1>1 DEF Through, Checked, VerifiedAgainst
<1>3. <<path.chain, FirstPool(leg)>> \in KeysOf(d)
  BY <1>2 DEF KeysOf
<1>4. PICK e \in tried : \E own \in Paths(e) : EntryOf(path.chain, FirstPool(leg), e, own)
  BY <1>2 DEF IInv, Entries
<1>5. <<path.chain, FirstPool(leg)>> \in KeysOf(e)
  BY <1>4 DEF EntryOf
<1>6. e = d
  BY <1>3, <1>5 DEF Alone
<1> QED
  BY <1>2, <1>4, <1>6

(* Every filed source leg was verified, whatever failed; of an installed   *)
(* document with its first pools to itself the targets were verified, too, *)
(* though they were filed before their own turn: set_paths.                *)
THEOREM FiledIsVerified == Spec => []InstalledVerified
<1>1. ASSUME IInv, NEW c \in Known, NEW p \in DOMAIN filed[c], NEW leg \in filed[c][p].legs
      PROVE  VerifiedAgainst(filed[c][p].anchor, leg)
  <2>1. PICK d \in tried : \E path \in Paths(d) : EntryOf(c, p, d, path)
    BY <1>1 DEF IInv, Entries
  <2> QED
    BY <1>1, <2>1 DEF EntryOf, Checked
<1>2. ASSUME IInv, NEW d \in done, Alone(d), NEW key \in KeysOf(d),
             NEW t \in filed[key[1]][key[2]].targets, NEW leg \in Legs(t)
      PROVE  VerifiedAgainst(t.anchor, leg)
  <2>0. PICK path \in Paths(d) : \E l \in Legs(path) : key = <<path.chain, FirstPool(l)>>
    BY DEF KeysOf
  <2>1. PICK l \in Legs(path) : key = <<path.chain, FirstPool(l)>>
    BY <2>0
  <2>2. PICK own \in Paths(d) : EntryOf(path.chain, FirstPool(l), d, own)
    BY <1>2, <2>1, EntryOfAlone
  <2>3. filed[key[1]][key[2]].targets \subseteq Paths(d)
    BY <2>1, <2>2 DEF EntryOf, Others
  <2> QED
    BY <1>2, <2>3 DEF IInv, Installed, Through, Checked
<1>3. IInv => InstalledVerified
  BY <1>1, <1>2 DEF InstalledVerified
<1> QED
  BY <1>3, Inductive, PTL

(* What a source leg ends in has a price before the leg is filed.          *)
THEOREM SourcesHavePrices == Spec => []SourcesPriced
<1>1. IInv => SourcesPriced
  <2> SUFFICES ASSUME IInv, NEW c \in Known, NEW p \in DOMAIN filed[c], NEW leg \in filed[c][p].legs
               PROVE  leg[Len(leg)].tokenOut \in tokens[c]
    BY DEF SourcesPriced
  <2>1. PICK d \in tried : \E path \in Paths(d) : EntryOf(c, p, d, path)
    BY DEF IInv, Entries
  <2> QED
    BY <2>1 DEF EntryOf, Checked
<1> QED
  BY <1>1, Inductive, PTL

(* Documents with one path per chain: two of one chain that begin at the   *)
(* same pool would replace each other.                                     *)
OnePathPerChain ==
    \A d \in Documents : \A i, j \in Paths(d) : i.chain = j.chain => i = j

(* An installed document with its first pools to itself is found from both *)
(* sides, and a pair that is offered is of one document: set_paths and     *)
(* get_paths_for_pool.                                                     *)
THEOREM PairsFound == OnePathPerChain => (Spec => []FoundFromBothSides)
<1> SUFFICES ASSUME OnePathPerChain PROVE Spec => []FoundFromBothSides
  OBVIOUS
<1>1. ASSUME IInv, NEW d \in done, Alone(d), NEW i \in Paths(d), NEW j \in Paths(d),
             i.chain # j.chain, NEW l \in Legs(i), NEW m \in Legs(j)
      PROVE  <<l, m>> \in Offered(i.chain, FirstPool(l))
  <2>1. PICK own \in Paths(d) : EntryOf(i.chain, FirstPool(l), d, own)
    BY <1>1, EntryOfAlone
  <2>2. own = i
    <3>1. d \in Documents
      BY <1>1 DEF IInv, TypeOK
    <3> QED
      BY <2>1, <3>1 DEF OnePathPerChain, EntryOf
  <2>3. FirstPool(l) \in DOMAIN filed[i.chain]
    BY <1>1, EntryOfAlone
  <2>4. l \in filed[i.chain][FirstPool(l)].legs /\ j \in filed[i.chain][FirstPool(l)].targets
    BY <1>1, <2>1, <2>2 DEF EntryOf, Others
  <2> QED
    BY <1>1, <2>3, <2>4 DEF Offered
<1>2. ASSUME IInv, NEW c \in Known, NEW p \in Pools, NEW pair \in Offered(c, p)
      PROVE  OfOneDocument(c, pair)
  <2>1. p \in DOMAIN filed[c]
    BY <1>2 DEF Offered
  <2>0. PICK d \in tried : \E path \in Paths(d) : EntryOf(c, p, d, path)
    BY <1>2, <2>1 DEF IInv, Entries
  <2>2. PICK path \in Paths(d) : EntryOf(c, p, d, path)
    BY <2>0
  <2>3. PICK l \in filed[c][p].legs, t \in filed[c][p].targets : \E m \in Legs(t) : pair = <<l, m>>
    BY <1>2, <2>1 DEF Offered
  <2>4. path.chain = c /\ l \in Legs(path) /\ t \in Paths(d) /\ t.chain # c
    BY <2>2, <2>3 DEF EntryOf, Others
  <2> QED
    BY <2>3, <2>4 DEF OfOneDocument
<1>3. IInv => FoundFromBothSides
  BY <1>1, <1>2 DEF FoundFromBothSides
<1> QED
  BY <1>3, Inductive, PTL
=============================================================================
