------------------------------ MODULE EveReader ------------------------------
(***************************************************************************)
(* Reading recent events from Suricata's EVE file (internal/telemetry/     *)
(* eve.go): ReadAlerts and ReadFlows, the same code but for the event type *)
(* and the fields they copy.  The reader opens the file, asks for its      *)
(* size, seeks to the last MaxTail bytes when there are more, drops what   *)
(* is left of the line it lands in, and scans to the end.                  *)
(*                                                                         *)
(* Suricata is external: it appends to the file between any two of these   *)
(* steps, a line may be there in part, and the file may be rotated by a    *)
(* rename or truncated in place.                                           *)
(***************************************************************************)
EXTENDS Integers, Sequences, FiniteSetsExt, SequencesExt

CONSTANTS
    MaxTail,    \* maxTail, in the unit of Sizes
    MaxLine,    \* the scanner's buffer, 1 MiB: no longer line is scanned
    Sizes,      \* lengths of lines
    Limits,     \* limits of requests, 0 for the default
    Default,    \* limit of a request without one
    MaxEvents,  \* bound: lines Suricata writes
    NoFile,     \* there is no file
    Failed      \* answer to a read that failed

ASSUME EveAssumption ==
    /\ MaxLine \in Nat \ {0} /\ MaxTail \in Nat /\ MaxLine < MaxTail
    /\ Sizes \subseteq Nat \ {0}
    /\ 0 \in Limits /\ Limits \subseteq Nat /\ Default \in Nat \ {0}
    /\ MaxEvents \in Nat
    /\ Failed \notin Seq(1..MaxEvents)

VARIABLES
    eve,        \* the file: its lines, each [id, kind, at, size, whole]
    events,     \* number of lines written so far
    reader,     \* where the read is: "idle", "stat", "seek", "done"
    want,       \* the event type asked for
    limit,      \* the limit asked for, 0 for none
    rotated,    \* what the open file holds once it was renamed, or NoFile
    offset,     \* where the scan begins
    reply,      \* ids of the events returned, or Failed
    atStat,     \* history variable: the file when its size was taken
    scanned,    \* history variable: the file when it was scanned
    truncated   \* history variable: it was truncated during this read

eveVars == <<eve, events, reader, want, limit, rotated, offset, reply, atStat,
             scanned, truncated>>

Kinds == {"alert", "flow"}

(* A line, and where in the file it begins. *)
Line == [id : 1..MaxEvents, kind : Kinds, at : Nat, size : Sizes, whole : BOOLEAN]

IsFile(f) == f \in Seq(Line)

ASSUME NoFileAssumption == ~ IsFile(NoFile)

EveTypeOK ==
    /\ eve = NoFile \/ IsFile(eve)
    /\ events \in 0..MaxEvents
    /\ reader \in {"idle", "stat", "seek", "done"}
    /\ want \in {"alert", "flow"}
    /\ limit \in Limits
    /\ rotated = NoFile \/ IsFile(rotated)
    /\ offset \in Nat
    /\ reply = Failed \/ (reply \in Seq(1..MaxEvents)
                           /\ Len(reply) <= IF limit = 0 THEN Default ELSE limit)
    /\ IsFile(atStat) /\ IsFile(scanned)
    /\ truncated \in BOOLEAN

EveInit ==
    /\ eve = NoFile
    /\ events = 0
    /\ reader = "idle"
    /\ want = "alert"
    /\ limit = 0
    /\ rotated = NoFile
    /\ offset = 0
    /\ reply = <<>>
    /\ atStat = <<>>
    /\ scanned = <<>>
    /\ truncated = FALSE

-----------------------------------------------------------------------------
(* External: Suricata and logrotate.  A line that is there in part has its *)
(* size already: what is missing may be its last byte.                     *)
Size(f) == IF f = <<>> THEN 0 ELSE f[Len(f)].at + f[Len(f)].size

readVars == <<reader, want, limit, offset, reply, atStat, scanned>>

AppendLine(kind, size, whole) ==
    /\ events < MaxEvents
    /\ eve # NoFile /\ eve # <<>> => Last(eve).whole
    /\ events' = events + 1
    /\ LET f == IF eve = NoFile THEN <<>> ELSE eve
       IN  eve' = Append(f, [id |-> events', kind |-> kind, at |-> Size(f),
                             size |-> size, whole |-> whole])
    /\ UNCHANGED <<readVars, rotated, truncated>>

Finish ==
    /\ eve # NoFile /\ eve # <<>> /\ ~ Last(eve).whole
    /\ eve' = [eve EXCEPT ![Len(eve)].whole = TRUE]
    /\ UNCHANGED <<readVars, events, rotated, truncated>>

Rename ==
    /\ eve # NoFile
    /\ eve' = NoFile
    /\ rotated' = IF reader \in {"stat", "seek"} /\ rotated = NoFile THEN eve ELSE rotated
    /\ UNCHANGED <<readVars, events, truncated>>

Truncate ==
    /\ eve \notin {NoFile, <<>>}
    /\ eve' = <<>>
    /\ truncated' = (truncated \/ (reader \in {"stat", "seek"} /\ rotated = NoFile))
    /\ UNCHANGED <<readVars, events, rotated>>

-----------------------------------------------------------------------------
(* ReadAlerts, ReadFlows.  Without a file the answer is empty.  An open    *)
(* that fails for another reason, or a seek that fails, is answered with   *)
(* that error and leaves nothing behind, which is no step of the model.    *)
Begin(k, l) ==
    /\ reader = "idle"
    /\ want' = k
    /\ limit' = l
    /\ reader' = IF eve = NoFile THEN "done" ELSE "stat"
    /\ UNCHANGED <<eve, events, rotated, offset, reply, atStat, scanned, truncated>>

Opened == IF rotated = NoFile THEN eve ELSE rotated

Stat ==
    /\ reader = "stat"
    /\ offset' = IF Size(Opened) > MaxTail THEN Size(Opened) - MaxTail ELSE 0
    /\ atStat' = Opened
    /\ reader' = "seek"
    /\ UNCHANGED <<eve, events, want, limit, rotated, reply, scanned, truncated>>

(* The lines scanned: all, or those that begin after the offset.  A line   *)
(* that begins at the offset is dropped like one that was cut.             *)
InTail(f, off) == {i \in DOMAIN f : off = 0 \/ f[i].at > off}

(* Variant: no limit is taken for as many as there are. *)
EffectiveAll(l) == IF l = 0 THEN MaxEvents ELSE l

Effective(l) == IF l = 0 THEN Default ELSE l

Capped(s, n) == SubSeq(s, 1, Min({n, Len(s)}))

(* The ids of the events of the type asked for, in the order of the file;  *)
(* a line that does not parse is skipped.                                  *)
Hits(f, off) ==
    LET hits[n \in 0..Len(f)] ==
          IF n = 0 THEN <<>>
          ELSE IF n \in InTail(f, off) /\ f[n].whole /\ f[n].kind = want
               THEN Append(hits[n - 1], f[n].id)
               ELSE hits[n - 1]
    IN  hits[Len(f)]

(* A line that does not fit the scanner ends the scan with an error. *)
TooLong(f, off) == \E i \in InTail(f, off) : f[i].size > MaxLine

(* Variant: capped first, then reversed. *)
ScanOldest(f, off) ==
    IF TooLong(f, off) THEN Failed
    ELSE Reverse(Capped(Hits(f, off), Effective(limit)))

Scan(f, off) ==
    IF TooLong(f, off) THEN Failed
    ELSE Capped(Reverse(Hits(f, off)), Effective(limit))

Read ==
    /\ reader = "seek"
    /\ reply' = Scan(Opened, offset)
    /\ scanned' = Opened
    /\ reader' = "done"
    /\ UNCHANGED <<eve, events, want, limit, rotated, offset, atStat, truncated>>

(* The handler answers, the file is closed. *)
Answered ==
    /\ reader = "done"
    /\ reader' = "idle"
    /\ want' = "alert" /\ limit' = 0 /\ offset' = 0
    /\ reply' = <<>> /\ atStat' = <<>> /\ scanned' = <<>>
    /\ rotated' = NoFile
    /\ truncated' = FALSE
    /\ UNCHANGED <<eve, events>>

Suricata ==
    \/ \E k \in Kinds, s \in Sizes, w \in BOOLEAN : AppendLine(k, s, w)
    \/ Finish \/ Rename \/ Truncate

EveStep == Stat \/ Read

-----------------------------------------------------------------------------
(* Properties *)

Matching(f) == {i \in DOMAIN f : f[i].whole /\ f[i].kind = want}

(* "Returns up to limit alert events from the EVE file, newest first"      *)
(* (ReadAlerts): what a request returns is a run of the file's events      *)
(* without a gap, newest first, which leaves out no newer one; and when    *)
(* there was room, none that lay in the last MaxTail - MaxLine bytes when  *)
(* it began, whatever is written, cut or renamed meanwhile, unless the     *)
(* file is truncated under it.  It fails only for a line that does not fit *)
(* in the newest part of the file.                                         *)
NewestListed ==
    reader = "done" /\ ~ truncated =>
        IF reply = Failed
        THEN \E i \in DOMAIN scanned :
                scanned[i].size > MaxLine
                /\ scanned[i].at + MaxTail >= Size(atStat)
        ELSE LET ids == ToSet(reply)
                 found == {scanned[i].id : i \in Matching(scanned)}
                 recent == {i \in Matching(atStat) :
                              atStat[i].at + MaxTail - MaxLine >= Size(atStat)}
             IN  /\ \A i, j \in DOMAIN reply : i < j => reply[i] > reply[j]
                 /\ ids \subseteq found
                 /\ \A a \in ids, b \in found : b > a => b \in ids
                 /\ Len(reply) < Effective(limit) =>
                       {atStat[i].id : i \in recent} \subseteq ids
=============================================================================
