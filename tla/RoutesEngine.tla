---------------------------- MODULE RoutesEngine ----------------------------
(***************************************************************************)
(* The static-route engine (internal/engines/routes.go).  The artifact is  *)
(* a list of "route replace" lines.  Apply reads the state file of the     *)
(* previous apply, appends a "route del" for every recorded destination    *)
(* that the artifact no longer has, feeds all of it to one `ip -batch`,    *)
(* which stops at the first line the kernel refuses, and records the       *)
(* artifact in the state file only when the whole batch went through.      *)
(*                                                                         *)
(* The kernel's table is external: it keys a route by destination and      *)
(* metric, "replace" writes that key and is refused when the link of the   *)
(* route is not there, and "del <dest>" removes the entry of that          *)
(* destination with the lowest metric and fails if there is none.  A link  *)
(* that goes takes its routes along.  NodeEngines composes this module     *)
(* with the engines that create links.                                     *)
(***************************************************************************)
EXTENDS Integers, Sequences, FiniteSets

CONSTANTS
    Dests,      \* destination prefixes
    Metrics,    \* metrics in use, 0 when the policy gives none
    Links,      \* interfaces; a next hop is told by the link it is behind
    Absent,     \* no route
    Configs,    \* the artifacts a policy may be rendered to
    Faults      \* "refuse": the kernel refuses a line; "kill": ctx ends ip
                \* or the daemon dies; "write": the state file is not written

ASSUME RoutesAssumption ==
    /\ Metrics \subseteq Nat /\ IsFiniteSet(Metrics)
    /\ Absent \notin Links
    /\ Configs \subseteq Seq([dest : Dests, metric : Metrics, dev : Links])
    /\ <<>> \in Configs
    /\ Faults \subseteq {"refuse", "kill", "write"}

VARIABLES
    kernel,     \* the routing table
    links,      \* the interfaces that exist and are up
    state,      \* routes.state, the artifact recorded last
    pc,         \* where Apply is
    config,     \* its argument
    adds,       \* lines of the artifact not yet executed
    dels,       \* recorded lines whose destination is still to be deleted
    result,     \* what the last Apply returned
    clean       \* history variable: no fault has struck, and no artifact
                \* had a metric or a destination twice, and no route of
                \* ours was lost with its link

routesVars == <<kernel, links, state, pc, config, adds, dels, result, clean>>

Keys == Dests \X Metrics

RoutesTypeOK ==
    /\ kernel \in [Keys -> Links \cup {Absent}]
    /\ links \in SUBSET Links
    /\ state \in Configs
    /\ pc \in {"idle", "batch", "write"}
    /\ config \in Configs
    /\ adds \in SUBSET DOMAIN config
    /\ dels \in SUBSET DOMAIN state
    /\ result \in {"none", "ok", "error"}
    /\ clean \in BOOLEAN

RoutesInit ==
    /\ kernel = [k \in Keys |-> Absent]
    /\ state = <<>>
    /\ pc = "idle"
    /\ config = <<>>
    /\ adds = {} /\ dels = {}
    /\ result = "none"
    /\ clean = TRUE

-----------------------------------------------------------------------------
Key(r) == <<r.dest, r.metric>>

DestsOf(c) == {c[i].dest : i \in DOMAIN c}

(* No metrics, and no destination twice. *)
Simple(c) ==
    \A i, j \in DOMAIN c : c[i].metric = 0 /\ (c[i].dest = c[j].dest => i = j)

(* No destination twice with the same metric. *)
Distinct(c) == \A i, j \in DOMAIN c : Key(c[i]) = Key(c[j]) => i = j

(* The script: the artifact, then a delete for each recorded line whose    *)
(* destination left it.  Variant: for each line that left.                 *)
DeletesByLine(prev, c) == {i \in DOMAIN prev : \A j \in DOMAIN c : c[j] # prev[i]}

Deletes(prev, c) == {i \in DOMAIN prev : prev[i].dest \notin DestsOf(c)}

Apply(c) ==
    /\ pc = "idle"
    /\ config' = c
    /\ adds' = DOMAIN c
    /\ dels' = Deletes(state, c)
    /\ pc' = IF adds' \cup dels' = {} THEN "write" ELSE "batch"
    /\ result' = "none"
    /\ clean' = (clean /\ Simple(c))
    /\ UNCHANGED <<kernel, links, state>>

Fail ==
    /\ pc' = "idle"
    /\ adds' = {} /\ dels' = {}
    /\ result' = "error"
    /\ clean' = FALSE
    /\ UNCHANGED config

(* The line that comes first. *)
First(lines) == {i \in lines : \A j \in lines : i <= j}

(* The statement that is next: one, as long as there are lines left.  A    *)
(* "del" names only the destination.                                       *)
Upcoming ==
    {[do |-> "replace", route |-> config[i]] : i \in First(adds)} \cup
    {[do |-> "del", route |-> state[i]] : i \in IF adds = {} THEN First(dels) ELSE {}}

(* External: what the kernel does with a statement. *)
Present(d) == {m \in Metrics : kernel[<<d, m>>] # Absent}

Lowest(d) == CHOOSE m \in Present(d) : \A n \in Present(d) : m <= n

Accepts(s) == IF s.do = "del" THEN Present(s.route.dest) # {}
              ELSE s.route.dev \in links

Execute(s) ==
    kernel' = IF s.do = "replace"
              THEN [kernel EXCEPT ![Key(s.route)] = s.route.dev]
              ELSE [kernel EXCEPT ![<<s.route.dest, Lowest(s.route.dest)>>] = Absent]

Lost(up) == {k \in Keys : kernel[k] \notin up \cup {Absent}}

(* External: from now on these links are there. *)
LinksBecome(up) ==
    /\ links' = up
    /\ kernel' = [k \in Keys |-> IF k \in Lost(up) THEN Absent ELSE kernel[k]]

BatchLine ==
    /\ pc = "batch"
    /\ \E s \in Upcoming : Accepts(s) /\ Execute(s)
    /\ adds' = adds \ First(adds)
    /\ dels' = IF adds = {} THEN dels \ First(dels) ELSE dels
    /\ pc' = IF adds' \cup dels' = {} THEN "write" ELSE "batch"
    /\ UNCHANGED <<links, state, config, result, clean>>

(* The kernel refuses the line, or ip is killed before it: Apply returns   *)
(* the error and the lines already executed stay.                          *)
BatchFail ==
    /\ pc = "batch"
    /\ \E s \in Upcoming : ~ Accepts(s) \/ Faults \cap {"refuse", "kill"} # {}
    /\ UNCHANGED <<kernel, links, state>>
    /\ Fail

(* Variant: an empty artifact is not recorded. *)
WriteStateUnlessEmpty ==
    /\ pc = "write"
    /\ state' = IF config = <<>> THEN state ELSE config
    /\ pc' = "idle"
    /\ result' = "ok"
    /\ UNCHANGED <<kernel, links, config, adds, dels, clean>>

(* os.WriteFile truncates the file before it writes; a failure or a crash  *)
(* may leave it as it was or empty.                                        *)
WriteState ==
    /\ pc = "write"
    /\ UNCHANGED <<kernel, links>>
    /\ \/ /\ state' = config
          /\ pc' = "idle"
          /\ result' = "ok"
          /\ UNCHANGED <<config, adds, dels, clean>>
       \/ /\ Faults \cap {"kill", "write"} # {}
          /\ state' \in {state, <<>>}
          /\ Fail

-----------------------------------------------------------------------------
(* The last line of a key counts. *)
Lasts(c) == {i \in DOMAIN c : \A j \in DOMAIN c : Key(c[j]) = Key(c[i]) => j <= i}

(* The table has every route the artifact asks for. *)
Holds(c) == \A i \in Lasts(c) : kernel[Key(c[i])] = c[i].dev

(* It has a route only where the artifact asks for one. *)
Only(c) ==
    \A k \in Keys : kernel[k] # Absent => \E i \in DOMAIN c : Key(c[i]) = k
=============================================================================
