--------------------------- MODULE WireguardProofs ---------------------------
(***************************************************************************)
(* Proofs about the WireGuard engine, for any interfaces, peers, artifacts *)
(* and failures.  WireguardInv is inductive: while blocks are served, a    *)
(* command only adds to the kernel (Grows), and what is deleted then is    *)
(* not of the artifact.                                                    *)
(***************************************************************************)
EXTENDS WireguardEngine, SequenceTheorems, TLAPS

Blocks == [name : Names, address : Addresses, peers : SUBSET Peers]

Interfaces == [link : BOOLEAN, addresses : SUBSET Addresses, peers : SUBSET Peers]

Working == pc \in {"add", "addr", "set", "up"}

(* The blocks of an artifact are records of the interface they configure,  *)
(* and no two of them configure the same one.                              *)
LEMMA ConfigBlocks ==
    ASSUME TypeOK
    PROVE  /\ config \in Seq(Blocks) /\ Len(config) \in Nat
           /\ DOMAIN config = 1..Len(config)
           /\ \A i \in DOMAIN config : config[i] \in Blocks
           /\ NamesOf(config) \subseteq Names
           /\ \A i, j \in DOMAIN config : config[i].name = config[j].name => i = j
<1>1. config \in Seq(Blocks) /\ config \in Configs
  BY WireguardAssumption DEF TypeOK, Blocks
<1>2. /\ Len(config) \in Nat /\ DOMAIN config = 1..Len(config)
      /\ \A i \in DOMAIN config : config[i] \in Blocks
  BY <1>1
<1>3. NamesOf(config) \subseteq Names
  BY <1>2 DEF NamesOf, Blocks
<1> QED
  BY <1>1, <1>2, <1>3, WireguardAssumption

(* What a command does while blocks are served: it changes one interface,  *)
(* adding to it.                                                           *)
Grows ==
    \A n \in Names :
        /\ kernel[n].link => kernel'[n].link
        /\ kernel[n].addresses \subseteq kernel'[n].addresses
        /\ kernel[n].peers \subseteq kernel'[n].peers

(* What is there stays there when the kernel grows.                        *)
LEMMA ServedStays ==
    ASSUME TypeOK, Grows, config' = config, NEW i \in DOMAIN config
    PROVE  /\ Addressed(i) => Addressed(i)'
           /\ Served(i) => Served(i)'
<1>1. config[i].name \in Names
  BY ConfigBlocks DEF Blocks
<1> QED
  BY <1>1 DEF Grows, Addressed, Served

(* A failed or interrupted command leaves the kernel as it was, and what   *)
(* Apply had created is lost.                                              *)
LEMMA ErrorKeeps == ASSUME WireguardInv, Error, pc # "idle" PROVE WireguardInv'
<1>1. TypeOK'
  BY DEF WireguardInv, TypeOK, Error, Links, NoLink
<1>2. BlocksOK'
  BY DEF Error, BlocksOK
<1>3. Links' = Links /\ Links \subseteq Names
  BY DEF Error, Links
<1>4. LinksOK'
  BY <1>3 DEF WireguardInv, TypeOK, LinksOK, Error
<1> QED
  BY <1>1, <1>2, <1>4 DEF WireguardInv

(* The other steps while blocks are served: the kernel grows by links of   *)
(* the artifact only.                                                      *)
LEMMA WorkKeeps ==
    ASSUME WireguardInv, Working, Grows, TypeOK',
           UNCHANGED <<state, config, result, lost>>,
           Links' \subseteq Links \cup NamesOf(config),
           \/ pc' = "addr" /\ pc = "add" /\ UNCHANGED <<pos, gone>>
           \/ pc' = "set" /\ pc = "addr" /\ Addressed(pos)' /\ UNCHANGED <<pos, gone>>
           \/ pc' = "up" /\ pc = "set" /\ Served(pos)' /\ UNCHANGED <<pos, gone>>
           \/ pc' = "add" /\ pc = "up" /\ pos < Len(config) /\ pos' = pos + 1
           \/ /\ pc' = "del" /\ pc = "up" /\ pos = Len(config)
              /\ gone' = state \ NamesOf(config)
    PROVE  WireguardInv'
<1>a. /\ TypeOK /\ BlocksOK /\ LinksOK /\ result = "none"
      /\ pos \in DOMAIN config /\ DOMAIN config = 1..Len(config) /\ Len(config) \in Nat
  BY ConfigBlocks DEF WireguardInv, BlocksOK, Working
<1>1. \A i \in DOMAIN config : /\ Addressed(i) => Addressed(i)'
                               /\ Served(i) => Served(i)'
  BY <1>a, ServedStays
<1>2. BlocksOK'
  <2>1. CASE pc' \in {"addr", "set", "up"} /\ UNCHANGED pos
    BY <1>a, <1>1, <2>1 DEF BlocksOK, Working
  <2>2. CASE pc' = "add" /\ pc = "up" /\ pos < Len(config) /\ pos' = pos + 1
    <3>1. pos' \in DOMAIN config /\ \A i \in DOMAIN config : i < pos' => i <= pos
      BY <1>a, <2>2
    <3>2. \A i \in DOMAIN config : i <= pos => Served(i)
      BY <1>a, <2>2 DEF BlocksOK
    <3> QED
      BY <1>a, <1>1, <2>2, <3>1, <3>2 DEF BlocksOK
  <2>3. CASE pc' = "del" /\ pc = "up" /\ pos = Len(config)
    <3>1. \A i \in DOMAIN config : Served(i)
      BY <1>a, <2>3 DEF BlocksOK
    <3> QED
      BY <1>a, <1>1, <2>3, <3>1 DEF BlocksOK
  <2> QED
    BY <2>1, <2>2, <2>3
<1>3. LinksOK'
  BY <1>a DEF LinksOK, Working
<1> QED
  BY <1>2, <1>3 DEF WireguardInv

-----------------------------------------------------------------------------
(* The types. *)
LEMMA WireguardTypeNext == ASSUME WireguardInv, [Next]_vars PROVE TypeOK'
<1>a. /\ TypeOK /\ BlocksOK /\ config \in Seq(Blocks) /\ Len(config) \in Nat
      /\ DOMAIN config = 1..Len(config)
      /\ \A i \in DOMAIN config : config[i] \in Blocks
      /\ NamesOf(config) \subseteq Names
  BY ConfigBlocks DEF WireguardInv
<1> USE DEF TypeOK
<1>1. ASSUME NEW c \in Configs, Apply(c) PROVE TypeOK'
  <2>1. c \in Seq(Blocks)
    BY WireguardAssumption DEF Blocks
  <2>3. (c # <<>> => 1 \in 0..Len(c)) /\ 0 \in 0..Len(c)
    BY <2>1, EmptySeq, LenProperties
  <2>2. pos' \in 0..Len(config') /\ config' \in Configs
    BY <1>1, <2>3 DEF Apply
  <2> QED
    BY <1>1, <1>a, <2>2 DEF Apply
<1>2. ASSUME Error PROVE TypeOK'
  BY <1>2, <1>a DEF Error, Links, NoLink
<1>3. ASSUME pos \in DOMAIN config, NEW v \in Interfaces, v.link,
             Change(Current.name, v), pc' \in {"addr", "set", "up"},
             UNCHANGED <<state, config, pos, gone, result, lost>>
      PROVE TypeOK'
  BY <1>3, <1>a DEF Change, Interfaces
<1>4. ASSUME LinkAdd \/ AddrReplace \/ WgSet PROVE TypeOK'
  <2>1. /\ pos \in DOMAIN config /\ Current \in Blocks /\ Current.name \in Names
        /\ kernel[Current.name] \in Interfaces
    BY <1>4, <1>a DEF LinkAdd, AddrReplace, WgSet, BlocksOK, Current, Blocks, Interfaces
  <2>2. CASE LinkAdd
    <3>1. [kernel[Current.name] EXCEPT !.link = TRUE] \in Interfaces
      BY <2>1 DEF Interfaces
    <3>2. CASE UNCHANGED kernel
      BY <2>2, <3>2, <1>a DEF LinkAdd
    <3>3. CASE Change(Current.name, [kernel[Current.name] EXCEPT !.link = TRUE])
      BY <2>1, <2>2, <3>1, <3>3, <1>3 DEF LinkAdd, Interfaces
    <3> QED
      BY <2>2, <3>2, <3>3 DEF LinkAdd
  <2>3. CASE AddrReplace
    <3>1. [kernel[Current.name] EXCEPT !.addresses = @ \cup {Current.address}]
            \in Interfaces
      BY <2>1 DEF Interfaces, Blocks
    <3> QED
      BY <2>1, <2>3, <3>1, <1>2, <1>3 DEF AddrReplace, Interfaces
  <2>4. CASE WgSet
    <3>1. [kernel[Current.name] EXCEPT !.peers = @ \cup Current.peers] \in Interfaces
      BY <2>1 DEF Interfaces, Blocks
    <3>2. kernel[Current.name].link
      BY <2>1, <2>4, <1>a DEF WgSet, BlocksOK, Addressed, Current
    <3> QED
      BY <2>1, <2>4, <3>1, <3>2, <1>2, <1>3 DEF WgSet, Interfaces
  <2> QED
    BY <1>4, <2>2, <2>3, <2>4
<1>5. ASSUME LinkUp PROVE TypeOK'
  BY <1>5, <1>2, <1>a DEF LinkUp, BlocksOK
<1>6. ASSUME LinkDel PROVE TypeOK'
  <2>1. NoLink \in Interfaces
    BY DEF NoLink, Interfaces
  <2>2. PICK n \in gone :
            /\ \/ Change(n, NoLink) /\ lost' = lost \ {n}
               \/ lost' = lost \cup ({n} \cap Links) /\ UNCHANGED kernel
            /\ gone' = gone \ {n}
    BY <1>6 DEF LinkDel
  <2>3. n \in Names /\ UNCHANGED <<state, pc, config, pos, result>>
    BY <1>6, <1>a DEF LinkDel
  <2> QED
    <3>1. CASE Change(n, NoLink) /\ lost' = lost \ {n}
      <4>1. kernel \in [Names -> Interfaces] /\ kernel' = [kernel EXCEPT ![n] = NoLink]
        BY <1>a, <3>1 DEF Change, Interfaces
      <4>2. kernel' \in [Names -> Interfaces]
        BY <4>1, <2>1
      <4>3. \A m \in Names : ~ kernel'[m].link => kernel'[m] = NoLink
        BY <4>1, <1>a
      <4> QED
        BY <2>2, <2>3, <3>1, <4>2, <4>3, <1>a DEF Interfaces
    <3>2. CASE lost' = lost \cup ({n} \cap Links) /\ UNCHANGED kernel
      BY <2>2, <2>3, <3>2, <1>a
    <3> QED
      BY <2>2, <3>1, <3>2
<1>7. ASSUME WriteState PROVE TypeOK'
  BY <1>7, <1>a DEF WriteState
<1>8. ASSUME UNCHANGED vars PROVE TypeOK'
  BY <1>8, <1>a DEF vars
<1> QED
  BY <1>1, <1>2, <1>4, <1>5, <1>6, <1>7, <1>8 DEF Next, Crash

-----------------------------------------------------------------------------
(* The commands that serve a block, each of them by WorkKeeps. *)
LEMMA ServeNext ==
    ASSUME WireguardInv, TypeOK', LinkAdd \/ AddrReplace \/ WgSet \/ LinkUp
    PROVE  WireguardInv'
<1>a. /\ TypeOK /\ BlocksOK /\ pos \in DOMAIN config /\ Working
      /\ DOMAIN config = 1..Len(config) /\ Len(config) \in Nat
      /\ Current \in Blocks /\ Current.name \in Names
      /\ Current.name \in NamesOf(config)
  BY ConfigBlocks
     DEF WireguardInv, BlocksOK, LinkAdd, AddrReplace, WgSet, LinkUp, Working,
         Current, Blocks, NamesOf
<1>b. kernel \in [Names -> Interfaces] /\ kernel[Current.name] \in Interfaces
  BY <1>a DEF TypeOK, Interfaces
<1>1. CASE Error
  BY <1>1, <1>a, ErrorKeeps DEF Working
<1>2. CASE UNCHANGED kernel /\ (LinkAdd \/ LinkUp)
  <2>1. Grows /\ Links' = Links
    BY <1>2 DEF Grows, Links
  <2>2. CASE LinkAdd
    BY <1>a, <2>1, <2>2, WorkKeeps DEF LinkAdd
  <2>3. CASE LinkUp
    <3>1. /\ pc = "up"
          /\ \/ pos < Len(config) /\ pc' = "add" /\ pos' = pos + 1
             \/ pos = Len(config) /\ pc' = "del" /\ gone' = state \ NamesOf(config)
          /\ UNCHANGED <<state, config, result, lost>>
       \/ Error
      BY <1>a, <2>3 DEF LinkUp
    <3> QED
      BY <1>1, <1>a, <2>1, <3>1, WorkKeeps
  <2> QED
    BY <1>2, <2>2, <2>3
<1>3. ASSUME NEW v \in Interfaces, v.link, Change(Current.name, v),
             kernel[Current.name].addresses \subseteq v.addresses,
             kernel[Current.name].peers \subseteq v.peers
      PROVE  /\ Grows /\ Links' \subseteq Links \cup NamesOf(config)
             /\ kernel'[Current.name] = v
  <2>1. kernel' = [kernel EXCEPT ![Current.name] = v]
    BY <1>3 DEF Change
  <2>2. kernel'[Current.name] = v
    BY <1>a, <1>b, <2>1
  <2>3. \A n \in Names : n # Current.name => kernel'[n] = kernel[n]
    BY <1>b, <2>1
  <2> QED
    BY <1>3, <1>a, <2>2, <2>3 DEF Grows, Links
<1>4. CASE LinkAdd /\ Change(Current.name, [kernel[Current.name] EXCEPT !.link = TRUE])
  <2> DEFINE v == [kernel[Current.name] EXCEPT !.link = TRUE]
  <2>1. /\ v \in Interfaces /\ v.link
        /\ v.addresses = kernel[Current.name].addresses
        /\ v.peers = kernel[Current.name].peers
    BY <1>b DEF Interfaces
  <2>2. Grows /\ Links' \subseteq Links \cup NamesOf(config)
    BY <1>3, <1>4, <2>1
  <2> QED
    BY <1>a, <1>4, <2>2, WorkKeeps DEF LinkAdd
<1>5. CASE AddrReplace /\ ~ Error
  <2> DEFINE v == [kernel[Current.name] EXCEPT !.addresses = @ \cup {Current.address}]
  <2>1. /\ kernel[Current.name].link /\ Change(Current.name, v)
        /\ pc = "addr" /\ pc' = "set"
        /\ UNCHANGED <<state, config, pos, gone, result, lost>>
    BY <1>5 DEF AddrReplace
  <2>2. /\ v \in Interfaces /\ v.link
        /\ v.addresses = kernel[Current.name].addresses \cup {Current.address}
        /\ v.peers = kernel[Current.name].peers
    BY <1>a, <1>b, <2>1 DEF Interfaces, Blocks
  <2>3. /\ Grows /\ Links' \subseteq Links \cup NamesOf(config)
        /\ kernel'[Current.name] = v
    BY <1>3, <2>1, <2>2
  <2>4. Addressed(pos)'
    BY <2>1, <2>2, <2>3 DEF Addressed, Current
  <2> QED
    BY <1>a, <2>1, <2>3, <2>4, WorkKeeps
<1>6. CASE WgSet /\ ~ Error
  <2> DEFINE v == [kernel[Current.name] EXCEPT !.peers = @ \cup Current.peers]
  <2>1. /\ Addressed(pos) /\ Change(Current.name, v)
        /\ pc = "set" /\ pc' = "up"
        /\ UNCHANGED <<state, config, pos, gone, result, lost>>
    BY <1>6, <1>a DEF WgSet, BlocksOK
  <2>2. /\ v \in Interfaces /\ v.link
        /\ v.addresses = kernel[Current.name].addresses
        /\ v.peers = kernel[Current.name].peers \cup Current.peers
    BY <1>a, <1>b, <2>1 DEF Interfaces, Blocks, Addressed, Current
  <2>3. /\ Grows /\ Links' \subseteq Links \cup NamesOf(config)
        /\ kernel'[Current.name] = v
    BY <1>3, <2>1, <2>2
  <2>4. Served(pos)'
    BY <2>1, <2>2, <2>3 DEF Addressed, Served, Current
  <2> QED
    BY <1>a, <2>1, <2>3, <2>4, WorkKeeps
<1> QED
  BY <1>1, <1>2, <1>4, <1>5, <1>6 DEF LinkAdd, LinkUp

(* The deletions touch nothing that the artifact names. *)
LEMMA DeleteNext == ASSUME WireguardInv, TypeOK', LinkDel PROVE WireguardInv'
<1>a. /\ TypeOK /\ BlocksOK /\ LinksOK /\ pc = "del" /\ result = "none"
      /\ UNCHANGED <<state, pc, config, pos, result>>
      /\ gone \subseteq state \ NamesOf(config)
      /\ Links \subseteq NamesOf(config) \cup lost \cup gone
  BY DEF WireguardInv, LinkDel, BlocksOK, LinksOK
<1>1. PICK n \in gone :
            /\ \/ Change(n, NoLink) /\ lost' = lost \ {n}
               \/ lost' = lost \cup ({n} \cap Links) /\ UNCHANGED kernel
            /\ gone' = gone \ {n}
  BY DEF LinkDel
<1>2. n \in Names /\ n \notin NamesOf(config)
  BY <1>1, <1>a DEF TypeOK
<1>3. \A m \in Names : m # n => kernel'[m] = kernel[m]
  BY <1>1, <1>2, <1>a DEF Change, TypeOK
<1>4. BlocksOK'
  <2>1. ASSUME NEW i \in DOMAIN config PROVE Served(i)'
    <3>1. config[i].name \in Names /\ config[i].name # n
      BY <1>2, <1>a, ConfigBlocks DEF NamesOf
    <3> QED
      BY <3>1, <1>3, <1>a DEF BlocksOK, Served, Addressed
  <2> QED
    BY <2>1, <1>a DEF BlocksOK
<1>5. LinksOK'
  <2>1. CASE Change(n, NoLink) /\ lost' = lost \ {n}
    <3>1. kernel'[n] = NoLink
      BY <2>1, <1>2, <1>a DEF Change, TypeOK
    <3>2. Links' \subseteq Links \ {n}
      BY <3>1, <1>3 DEF Links, NoLink
    <3> QED
      BY <2>1, <3>2, <1>1, <1>a DEF LinksOK
  <2>2. CASE lost' = lost \cup ({n} \cap Links) /\ UNCHANGED kernel
    <3>1. Links' = Links
      BY <2>2 DEF Links
    <3> QED
      BY <2>2, <3>1, <1>1, <1>a DEF LinksOK
  <2> QED
    BY <1>1, <2>1, <2>2
<1> QED
  BY <1>4, <1>5 DEF WireguardInv

(* Whatever becomes of the state file, a link that it does not name is     *)
(* lost from then on.                                                      *)
LEMMA WriteNext == ASSUME WireguardInv, TypeOK', WriteState PROVE WireguardInv'
<1>1. BlocksOK'
  BY DEF WireguardInv, WriteState, BlocksOK, Served, Addressed
<1>2. Links' = Links /\ NamesOf(config)' = NamesOf(config)
  BY DEF WriteState, Links, NamesOf
<1>3. LinksOK'
  BY <1>2 DEF WireguardInv, WriteState, LinksOK
<1> QED
  BY <1>1, <1>3 DEF WireguardInv

(* An Apply that starts knows of no block yet. *)
LEMMA ApplyNext ==
    ASSUME WireguardInv, TypeOK', NEW c \in Configs, Apply(c) PROVE WireguardInv'
<1>a. /\ TypeOK /\ LinksOK /\ pc = "idle" /\ UNCHANGED <<kernel, state, lost>>
      /\ config' = c /\ result' = "none" /\ Links' = Links
  BY DEF WireguardInv, Apply, Links
<1>b. c \in Seq(Blocks)
  BY WireguardAssumption DEF Blocks
<1>1. CASE c = <<>>
  <2>1. DOMAIN c = {} /\ NamesOf(c) = {}
    BY <1>1 DEF NamesOf
  <2> QED
    BY <2>1, <1>1, <1>a DEF Apply, BlocksOK, LinksOK, WireguardInv
<1>2. CASE c # <<>>
  <2>1. DOMAIN c = 1..Len(c) /\ Len(c) \in Nat \ {0}
    BY <1>b, <1>2, EmptySeq, LenProperties
  <2>2. pos' \in DOMAIN c /\ \A i \in DOMAIN c : ~ (i < pos')
    BY <1>2, <2>1 DEF Apply
  <2> QED
    BY <2>2, <1>2, <1>a DEF Apply, BlocksOK, LinksOK, WireguardInv
<1> QED
  BY <1>1, <1>2

-----------------------------------------------------------------------------
(* The invariant of wireguard.go: how far the blocks of the artifact are   *)
(* served, and that every link is recorded, lost or of the artifact.       *)
THEOREM WireguardInvCorrect == Spec => []WireguardInv
<1>1. Init => WireguardInv
  <2> SUFFICES ASSUME Init PROVE WireguardInv
    OBVIOUS
  <2>1. /\ [NoLink EXCEPT !.link = TRUE] \in Interfaces /\ NoLink \in Interfaces
        /\ [NoLink EXCEPT !.link = TRUE].link /\ ~ NoLink.link
    BY DEF NoLink, Interfaces
  <2>2. kernel \in [Names -> Interfaces]
    BY <2>1 DEF Init
  <2>3. \A n \in Names : /\ ~ kernel[n].link => kernel[n] = NoLink
                         /\ kernel[n].link => n \in Foreign
    BY <2>1 DEF Init
  <2>4. TypeOK
    BY <2>1, <2>2, <2>3, WireguardAssumption DEF Init, TypeOK, Interfaces
  <2>5. Links \subseteq Foreign
    BY <2>3 DEF Links
  <2>6. BlocksOK /\ LinksOK
    BY <2>5 DEF Init, BlocksOK, LinksOK
  <2> QED
    BY <2>4, <2>6 DEF WireguardInv
<1>2. WireguardInv /\ [Next]_vars => WireguardInv'
  <2> SUFFICES ASSUME WireguardInv, [Next]_vars PROVE WireguardInv'
    OBVIOUS
  <2>1. TypeOK'
    BY WireguardTypeNext
  <2>2. CASE UNCHANGED vars
    BY <2>2 DEF vars, WireguardInv, TypeOK, BlocksOK, LinksOK, Links, NamesOf,
                Served, Addressed
  <2>3. CASE Crash
    BY <2>3, ErrorKeeps DEF Crash
  <2> QED
    BY <2>1, <2>2, <2>3, ApplyNext, ServeNext, DeleteNext, WriteNext DEF Next
<1> QED
  BY <1>1, <1>2, PTL DEF Spec

(* After a successful Apply the kernel serves what the artifact asks for,  *)
(* and has no other link but those that no state file names.               *)
THEOREM KernelCorrect == Spec => []KernelMatches
<1>1. WireguardInv => KernelMatches
  BY DEF WireguardInv, BlocksOK, LinksOK, Served, Addressed, KernelMatches
<1> QED
  BY <1>1, WireguardInvCorrect, PTL
=============================================================================
