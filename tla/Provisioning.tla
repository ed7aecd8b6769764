----------------------------- MODULE Provisioning -----------------------------
(***************************************************************************)
(* Handing a node its credentials over the serial port: the tool (backend  *)
(* provision.py), the node's commands (firmware provisioning.cpp) and its  *)
(* store (certstore.cpp), and the TLS client that is given pointers into   *)
(* it (netlink.cpp).                                                       *)
(*                                                                         *)
(* The tool sends a line and takes the next reply for its answer.  A line  *)
(* may lose characters or be lost, a reply may be lost or come after the   *)
(* tool stopped waiting; the node may be busy for longer than that, and    *)
(* may restart at any point.  A credential is Chunks chunks, and what is   *)
(* stored in a slot is "new" if it is all of its credential, "other" if    *)
(* all of another's, "short" if anything less, "old" if from an earlier    *)
(* session.  Lines that are no reply are skipped by the tool and left out. *)
(***************************************************************************)
EXTENDS Integers, Sequences

CONSTANTS
  Slots,      \* SLOTS, in the order they are sent
  Chunks,     \* chunks of a credential
  MaxRuns,    \* bound of the model: runs of the tool
  MaxFaults   \* bound of the model: faults of the cable and of memory

ASSUME ProvisioningAssumption ==
  /\ Chunks \in Nat \ {0} /\ MaxRuns \in Nat /\ MaxFaults \in Nat
  /\ Slots \in Seq(STRING) /\ Len(Slots) > 0
  /\ \A i, j \in DOMAIN Slots : Slots[i] = Slots[j] => i = j
  /\ "-" \notin { Slots[i] : i \in DOMAIN Slots } \* NoSlot

Slot     == { Slots[i] : i \in DOMAIN Slots }
Stored   == {"none", "old", "new", "other", "short"}
NoSlot   == "-"

VARIABLES
  tool,    \* the tool: what it does, and the command it is at
  lines,   \* commands on their way to the node
  replies, \* what is first in the tool's input buffer, if anything is
  staged,  \* stage_slot, and what each chunk in stage is: 0 if it lost characters
  nvs,     \* credentials in flash
  ram,     \* credentials in memory
  writing, \* the slot store() has written to flash and not yet to memory
  tls,     \* what the TLS client holds: nothing, the buffers in use, or freed ones
  runs,    \* runs of the tool so far
  faults   \* faults so far

pvars == <<tool, lines, replies, staged, nvs, ram, writing, tls, runs, faults>>

ERASE  == [op |-> "ERASE", slot |-> NoSlot, n |-> 0]
STATUS == [op |-> "STATUS", slot |-> NoSlot, n |-> 0]

\* ERASE if asked for; BEGIN, the chunks and END of each slot; STATUS.
Script ==
  LET of(s) == <<[op |-> "BEGIN", slot |-> s, n |-> 0]>>
                 \o [n \in 1 .. Chunks |-> [op |-> "C", slot |-> s, n |-> n]]
                 \o <<[op |-> "END", slot |-> s, n |-> 0]>>
      per   == Chunks + 2
  IN  <<ERASE>> \o [i \in 1 .. per * Len(Slots) |->
                      of(Slots[1 + ((i - 1) \div per)])[1 + ((i - 1) % per)]]
        \o <<STATUS>>

Last == Len(Script)

Complete == \A s \in Slot : ram[s] # "none"

PTypeOK ==
  /\ tool.phase \in {"off", "ready", "waiting", "failed", "done"} /\ tool.at \in 1 .. Last
  /\ nvs \in [Slot -> Stored] /\ ram \in [Slot -> Stored]
  /\ writing \in Slot \cup {NoSlot} /\ staged.slot \in Slot \cup {NoSlot}
  /\ tls \in {"unset", "held", "freed"}

Blank == [slot |-> NoSlot, chunks |-> <<>>]

PInit ==
  /\ tool = [phase |-> "off", at |-> 1]
  /\ lines = <<>> /\ replies = <<>> /\ staged = Blank
  /\ nvs \in { [s \in Slot |-> c] : c \in {"none", "old"} }
  /\ ram = nvs /\ writing = NoSlot /\ tls = "unset"
  /\ runs = 0 /\ faults = 0

-----------------------------------------------------------------------------
(* The node.                                                               *)

\* Replies, and what a tool reads in them: a length that is that of a slot's file.
OK(length) == [is |-> "OK", says |-> length]
ERR == [is |-> "ERR", says |-> NoSlot]

\* announce()
Announcement(m) ==
  [is |-> "PROVISION", says |-> IF \A s \in Slot : m[s] # "none" THEN "complete" ELSE NoSlot]

\* A tool that waits takes the first reply; what comes behind it, or when none is
\* waited for, is dropped before the next command is sent.
Arrives(r) ==
  replies' = IF tool.phase = "waiting" /\ replies = <<>> THEN <<r>> ELSE replies

\* A reply may be lost.
Reply(r) ==
  \/ Arrives(r) /\ UNCHANGED faults
  \/ faults < MaxFaults /\ faults' = faults + 1 /\ UNCHANGED replies

\* A restart loses what is in memory and on the cable; setup() loads and announces.
Boots ==
  /\ lines' = <<>> /\ staged' = Blank /\ writing' = NoSlot /\ tls' = "unset"
  /\ ram' = nvs

Restarts ==
  /\ Boots /\ Arrives(Announcement(nvs))
  /\ UNCHANGED <<tool, nvs, runs, faults>>

\* handle_begin()
HandleBegin(c) ==
  /\ staged' = [slot |-> c.slot, chunks |-> <<>>]
  /\ Reply(OK(NoSlot)) /\ UNCHANGED <<nvs, ram, writing, tls>>

\* handle_chunk(): whether a BEGIN came before it or not.
HandleChunk(c) ==
  /\ staged' = [staged EXCEPT !.chunks = Append(@, <<c.slot, c.n>>)]
  /\ Reply(OK(NoSlot)) /\ UNCHANGED <<nvs, ram, writing, tls>>

All(s) == [n \in 1 .. Chunks |-> <<s, n>>]

\* What the chunks decode to, if they decode at all.
Decoded ==
  IF staged.slot # NoSlot /\ staged.chunks = All(staged.slot) THEN "new"
  ELSE IF \E s \in Slot : staged.chunks = All(s) THEN "other" ELSE "short"

\* The slot whose file has the length of what was decoded.
LengthOf == LET of == { s \in Slot : staged.chunks = All(s) }
           IN  IF of = {} THEN NoSlot ELSE CHOOSE s \in of : TRUE

\* handle_end(): nothing staged, no base64, no PEM, flash refuses; or on to store(),
\* which writes flash first ...
HandleEnd ==
  \/ /\ staged' = [staged EXCEPT !.chunks = <<>>]
     /\ Reply(ERR) /\ UNCHANGED <<nvs, ram, writing, tls>>
  \/ /\ staged.slot # NoSlot /\ staged.chunks # <<>>
     /\ nvs' = [nvs EXCEPT ![staged.slot] = Decoded] /\ writing' = staged.slot
     /\ UNCHANGED <<staged, replies, faults, ram, tls>>

Frees == tls' = IF tls = "held" THEN "freed" ELSE tls

\* ... then memory, whose old buffer is freed, and which may not be had.
StoreEnds ==
  /\ writing # NoSlot
  /\ \/ /\ ram' = [ram EXCEPT ![writing] = nvs[writing]]
        /\ Reply(OK(LengthOf))
     \/ /\ faults < MaxFaults /\ faults' = faults + 1
        /\ ram' = [ram EXCEPT ![writing] = "none"]
        /\ Arrives(ERR)
  /\ Frees
  /\ writing' = NoSlot /\ staged' = [staged EXCEPT !.chunks = <<>>]
  /\ UNCHANGED <<tool, lines, nvs, runs>>

Empty == [s \in Slot |-> "none"]

HandleErase ==
  /\ nvs' = Empty /\ ram' = Empty /\ Frees
  /\ Reply(OK(NoSlot)) /\ UNCHANGED <<staged, writing>>

HandleStatus == Reply(Announcement(ram)) /\ UNCHANGED <<staged, nvs, ram, writing, tls>>

HandleUnknown == Reply(ERR) /\ UNCHANGED <<staged, nvs, ram, writing, tls>>

\* handle_line()
HandleLine ==
  /\ lines # <<>> /\ writing = NoSlot
  /\ lines' = Tail(lines)
  /\ LET c == Head(lines)
     IN  \/ c.op = "BEGIN" /\ HandleBegin(c)
         \/ c.op = "C" /\ HandleChunk(c)
         \/ c.op = "END" /\ HandleEnd
         \/ c.op = "ERASE" /\ HandleErase
         \/ c.op = "STATUS" /\ HandleStatus
         \/ c.op = "garbled" /\ HandleUnknown
  /\ UNCHANGED <<tool, runs>>

\* serviceMqtt(): the client is given the buffers once.
Configures ==
  /\ Complete /\ tls = "unset" /\ writing = NoSlot
  /\ tls' = "held"
  /\ UNCHANGED <<tool, lines, replies, staged, nvs, ram, writing, runs, faults>>

-----------------------------------------------------------------------------
(* The tool.                                                               *)

\* open_port(): the node is reset and announces itself; the tool may be asked to
\* erase first.
Opens ==
  /\ tool.phase \in {"off", "failed"} /\ runs < MaxRuns
  /\ runs' = runs + 1
  /\ \E first \in {1, 2} : tool' = [phase |-> "ready", at |-> first]
  /\ Boots /\ replies' = <<>>
  /\ UNCHANGED <<nvs, faults>>

\* A line that lost characters: a chunk is shorter, a slot another name, a command
\* no command.
Garbled(c) ==
  CASE c.op = "C" -> [c EXCEPT !.n = 0]
    [] c.op = "BEGIN" -> [c EXCEPT !.slot = NoSlot]
    [] OTHER -> [c EXCEPT !.op = "garbled"]

\* send(): what was in the input buffer is dropped.
Sends ==
  /\ tool.phase = "ready"
  /\ tool' = [tool EXCEPT !.phase = "waiting"]
  /\ replies' = <<>>
  /\ LET c == Script[tool.at]
     IN  \/ lines' = Append(lines, c) /\ UNCHANGED faults
         \/ /\ faults < MaxFaults /\ faults' = faults + 1
            /\ lines' \in {Append(lines, Garbled(c)), lines}
  /\ UNCHANGED <<staged, nvs, ram, writing, tls, runs>>

\* Mutant of LengthMatches: what END answers is not compared.
LengthUnchecked(c, r) == TRUE

\* No other reply has a number that is the length of the file.
LengthMatches(c, r) == r.says = c.slot

\* What main() makes of the reply to a command: the one to ERASE is not looked at.
Accepted(c, r) ==
  CASE c.op = "ERASE" -> TRUE
    [] c.op = "STATUS" -> r.is = "PROVISION" /\ r.says = "complete"
    [] c.op = "END" -> r.is = "OK" /\ LengthMatches(c, r)
    [] OTHER -> r.is = "OK"

After(ok) ==
  IF ~ ok THEN [tool EXCEPT !.phase = "failed"]
  ELSE IF tool.at = Last THEN [tool EXCEPT !.phase = "done"]
  ELSE [phase |-> "ready", at |-> tool.at + 1]

Receives ==
  /\ tool.phase = "waiting" /\ replies # <<>>
  /\ tool' = After(Accepted(Script[tool.at], Head(replies)))
  /\ replies' = <<>>
  /\ UNCHANGED <<lines, staged, nvs, ram, writing, tls, runs, faults>>

TimesOut ==
  /\ tool.phase = "waiting" /\ replies = <<>>
  /\ tool' = After(Script[tool.at].op = "ERASE")
  /\ UNCHANGED <<lines, replies, staged, nvs, ram, writing, tls, runs, faults>>

-----------------------------------------------------------------------------
(* Properties.                                                             *)

\* "Provisioned." is said only of a node whose flash holds every credential whole,
\* whatever was lost, came late or answered another command (provision.py:141-147).
SuccessMeansStored == tool.phase = "done" => \A s \in Slot : nvs[s] = "new"

-----------------------------------------------------------------------------
(* Expected by the sources and not so: no run checks this, the README says  *)
(* what a run that did would show.                                          *)

\* "Held for the life of the process: mbedTLS keeps pointers to these buffers"
\* (certstore.cpp:11-12).
NeverFreed == tls # "freed"
=============================================================================
