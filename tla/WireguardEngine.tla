--------------------------- MODULE WireguardEngine ---------------------------
(***************************************************************************)
(* The WireGuard engine (internal/engines/wireguard.go).  Apply goes       *)
(* through the interfaces of the artifact, one command at a time: create   *)
(* the link (a failure means it exists and is ignored), give it its        *)
(* address, one `wg set` for the key and the peers, link up.  Then it      *)
(* deletes the interfaces that the state file names and the artifact does  *)
(* not, ignoring failures, and writes the artifact's names to the file.    *)
(*                                                                         *)
(* The kernel is external: `ip addr replace` adds an address beside the    *)
(* old ones, `wg set ... peer` adds or updates a peer and leaves the       *)
(* others, `ip link del` removes everything.                               *)
(***************************************************************************)
EXTENDS Naturals, Sequences, FiniteSets, SequencesExt

CONSTANTS
    Names,      \* interface names
    Addresses, Peers,
    Foreign,    \* interfaces that somebody else created
    Configs,    \* wireguard artifacts
    Faults      \* "cmd": a command may fail; "kill": the process or its
                \* context may end; "write": the state file may not be written

ASSUME WireguardAssumption ==
    /\ Foreign \subseteq Names
    /\ Configs \subseteq Seq([name : Names, address : Addresses, peers : SUBSET Peers])
    /\ \A c \in Configs : \A i, j \in DOMAIN c : c[i].name = c[j].name => i = j
    /\ <<>> \in Configs
    /\ Faults \subseteq {"cmd", "kill", "write"}

VARIABLES
    kernel,     \* per name, whether there is a link, its addresses, peers
    state,      \* names in wireguard.state
    pc,         \* where Apply is
    config,     \* its argument
    pos,        \* the interface it works on
    gone,       \* recorded names still to delete
    result,     \* what the last Apply returned
    lost        \* history variable: links that are there and that no state
                \* file names: foreign ones, and those an error left behind

vars == <<kernel, state, pc, config, pos, gone, result, lost>>

NoLink == [link |-> FALSE, addresses |-> {}, peers |-> {}]

TypeOK ==
    /\ kernel \in [Names -> [link : BOOLEAN, addresses : SUBSET Addresses,
                             peers : SUBSET Peers]]
    /\ \A n \in Names : ~ kernel[n].link => kernel[n] = NoLink
    /\ state \in SUBSET Names
    /\ pc \in {"idle", "add", "addr", "set", "up", "del"}
    /\ config \in Configs
    /\ pos \in 0..Len(config)
    /\ gone \in SUBSET Names
    /\ result \in {"none", "ok", "error"}
    /\ lost \in SUBSET Names

Init ==
    /\ kernel = [n \in Names |-> IF n \in Foreign THEN [NoLink EXCEPT !.link = TRUE]
                                ELSE NoLink]
    /\ state = {}
    /\ pc = "idle"
    /\ config = <<>>
    /\ pos = 0
    /\ gone = {}
    /\ result = "none"
    /\ lost = Foreign

-----------------------------------------------------------------------------
NamesOf(c) == {c[i].name : i \in DOMAIN c}

(* The interface block that Apply works on. *)
Current == config[pos]

(* What a command does to the interface of a name. *)
Change(n, v) == kernel' = [kernel EXCEPT ![n] = v]

Links == {n \in Names : kernel[n].link}

(* A command under a context that ended, or one the kernel refuses; a      *)
(* crash looks the same: Apply is over and the rest is not done, and the   *)
(* links it created are in no state file.                                  *)
Error ==
    /\ Faults \cap {"cmd", "kill"} # {}
    /\ pc' = "idle"
    /\ result' = "error"
    /\ gone' = {}
    /\ lost' = lost \cup ((Links \cap NamesOf(config)) \ state)
    /\ UNCHANGED <<kernel, state, pos, config>>

Apply(c) ==
    /\ pc = "idle"
    /\ config' = c
    /\ pos' = IF c = <<>> THEN 0 ELSE 1
    /\ gone' = IF c = <<>> THEN state ELSE {}
    /\ pc' = IF c = <<>> THEN "del" ELSE "add"
    /\ result' = "none"
    /\ UNCHANGED <<kernel, state, lost>>

(* ip link add: fails if the link is there, or for another reason; nobody  *)
(* looks.                                                                  *)
LinkAdd ==
    /\ pc = "add"
    /\ \/ Change(Current.name, [kernel[Current.name] EXCEPT !.link = TRUE])
       \/ Faults \cap {"cmd", "kill"} # {} /\ UNCHANGED kernel
    /\ pc' = "addr"
    /\ UNCHANGED <<state, config, pos, gone, result, lost>>

AddrReplace ==
    /\ pc = "addr"
    /\ \/ /\ kernel[Current.name].link
          /\ Change(Current.name,
                    [kernel[Current.name] EXCEPT !.addresses = @ \cup {Current.address}])
          /\ pc' = "set"
          /\ UNCHANGED <<state, config, pos, gone, result, lost>>
       \/ Error

(* Variant: the command gives the key and leaves out the peers. *)
WgSetNothing ==
    /\ pc = "set"
    /\ pc' = "up"
    /\ UNCHANGED <<kernel, state, config, pos, gone, result, lost>>

WgSet ==
    /\ pc = "set"
    /\ \/ /\ Change(Current.name,
                    [kernel[Current.name] EXCEPT !.peers = @ \cup Current.peers])
          /\ pc' = "up"
          /\ UNCHANGED <<state, config, pos, gone, result, lost>>
       \/ Error

(* Variant: every recorded interface is deleted. *)
LinkUpAll ==
    /\ pc = "up"
    /\ IF pos < Len(config)
       THEN pc' = "add" /\ pos' = pos + 1 /\ UNCHANGED gone
       ELSE pc' = "del" /\ gone' = state /\ UNCHANGED pos
    /\ UNCHANGED <<kernel, state, config, result, lost>>

(* ip link set up; on to the next interface, or to the deletions: the      *)
(* state file is read only now.                                            *)
LinkUp ==
    /\ pc = "up"
    /\ \/ /\ IF pos < Len(config)
             THEN pc' = "add" /\ pos' = pos + 1 /\ UNCHANGED gone
             ELSE pc' = "del" /\ gone' = state \ NamesOf(config) /\ UNCHANGED pos
          /\ UNCHANGED <<kernel, state, config, result, lost>>
       \/ Error

(* ip link del of one recorded name; its failure is ignored, and the name  *)
(* is forgotten all the same.                                              *)
LinkDel ==
    /\ pc = "del"
    /\ gone # {}
    /\ \E n \in gone :
          /\ \/ Change(n, NoLink) /\ lost' = lost \ {n}
             \/ /\ Faults \cap {"cmd", "kill"} # {}
                /\ lost' = lost \cup ({n} \cap Links)
                /\ UNCHANGED kernel
          /\ gone' = gone \ {n}
    /\ UNCHANGED <<state, pc, config, pos, result>>

(* The process may die between two commands. *)
Crash == "kill" \in Faults /\ pc # "idle" /\ Error

(* os.WriteFile truncates first: a failed write leaves the old file or     *)
(* an empty one.                                                           *)
WriteState ==
    /\ pc = "del" /\ gone = {}
    /\ UNCHANGED <<kernel, config, pos, gone>>
    /\ pc' = "idle"
    /\ \/ /\ state' = NamesOf(config)
          /\ result' = "ok"
          /\ lost' = lost \ NamesOf(config)
       \/ /\ Faults \cap {"write", "kill"} # {}
          /\ state' \in {state, {}}
          /\ result' = "error"
          /\ lost' = lost \cup (NamesOf(config) \ state')

Next ==
    \/ \E c \in Configs : Apply(c)
    \/ LinkAdd \/ AddrReplace \/ WgSet \/ LinkUp \/ LinkDel \/ WriteState
    \/ Crash

Spec == Init /\ [][Next]_vars

-----------------------------------------------------------------------------
(* Properties *)

(* After a successful Apply, whatever failed before, what the artifact     *)
(* asks for is there (the link, its address, its peers), and "interfaces   *)
(* removed from policy are deleted" (Wireguard): the links are those of    *)
(* the artifact, and those that no state file ever named or that an error  *)
(* made it forget; an artifact that names such a link takes it back.       *)
KernelMatches ==
    result = "ok" =>
        /\ \A i \in DOMAIN config :
              /\ kernel[config[i].name].link
              /\ config[i].address \in kernel[config[i].name].addresses
              /\ config[i].peers \subseteq kernel[config[i].name].peers
        /\ Links \subseteq NamesOf(config) \cup lost

(* "Apply reconciles kernel interfaces with the artifact": a peer that is  *)
(* no longer in the policy may no longer connect.                          *)
PeersRevoked ==
    result = "ok" =>
        \A i \in DOMAIN config : kernel[config[i].name].peers = config[i].peers

-----------------------------------------------------------------------------
(* The inductive invariant. *)

Addressed(i) ==
    /\ kernel[config[i].name].link
    /\ config[i].address \in kernel[config[i].name].addresses

Served(i) ==
    Addressed(i) /\ config[i].peers \subseteq kernel[config[i].name].peers

(* Where Apply stands: the blocks before pos are served, the block at pos  *)
(* as far as its commands went, and none is undone by what follows.        *)
BlocksOK ==
    /\ pc # "idle" => result = "none"
    /\ pc \in {"add", "addr", "set", "up"} => pos \in DOMAIN config
    /\ \A i \in DOMAIN config :
          /\ pc \in {"add", "addr", "set", "up"} /\ i < pos => Served(i)
          /\ pc = "set" /\ i = pos => Addressed(i)
          /\ pc = "up" /\ i = pos => Served(i)
          /\ pc = "del" \/ result = "ok" => Served(i)

(* Every link is accounted for: it is recorded, lost, or one of those that *)
(* this Apply creates; while recorded ones are deleted, it is one of those *)
(* still to delete, which the artifact does not name.                      *)
LinksOK ==
    /\ pc = "idle" => Links \subseteq state \cup lost
    /\ pc \in {"add", "addr", "set", "up"} =>
          Links \subseteq state \cup lost \cup NamesOf(config)
    /\ pc = "del" => /\ gone \subseteq state \ NamesOf(config)
                     /\ Links \subseteq NamesOf(config) \cup lost \cup gone
    /\ result = "ok" => Links \subseteq NamesOf(config) \cup lost

WireguardInv == TypeOK /\ BlocksOK /\ LinksOK
=============================================================================
