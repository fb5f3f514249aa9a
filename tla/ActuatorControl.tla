---------------------------- MODULE ActuatorControl ----------------------------
(***************************************************************************)
(* One actuator and all who drive it: the sets of cmd.set, of the pilot's  *)
(* and of the MCP server's tools (registry/store.py perform_set), and the  *)
(* commissions that test its drafts (bringup/harness.py).  They queue for  *)
(* the session's lock, whose order BoardSession shows to be that of the    *)
(* requests.  A payload is one exec: construct the driver, set the level,  *)
(* and set(0) on an error (perform_set) or in any case (a test).           *)
(*                                                                         *)
(* What the pin does cannot be seen from the host.  `output` is what the   *)
(* driver was told last by a set() that returned, Unsure when a call of    *)
(* the driver was broken off since.                                        *)
(***************************************************************************)
EXTENDS Integers, SequencesExt

CONSTANTS Clients,         \* who may ask for a level
          Levels,
          MaxAsks,         \* bound: sets
          MaxCommissions   \* bound: commissions of this slug

ASSUME LevelsAssumption == {0, 1} \subseteq Levels /\ Levels \subseteq Nat
ASSUME AskBounds == MaxAsks \in Nat /\ MaxCommissions \in Nat

Full == 1        \* a test drives the actuator with set(1)
Unsure == -1
NoLevel == -2    \* a card without a reading
Nothing == 0     \* a client that waits for no answer
Bench == 0       \* a commission in the queue; the sets are numbered from 1

VARIABLES
  registered,  \* the slug has a verified driver
  line,        \* the session's lock: its holder and the queue behind it
  phase,       \* where the holder is: "free" before its turn, "drafting" between two
               \* tests, and in a payload "constructing", "driving", "forcing", "hung"
  raised,      \* set(0) is called because of an exception
  output,
  card,        \* the level on the card of a console that has been there from the start
  waits,       \* the set whose answer each client waits for, or none
  asks, comms, \* sets and commissions so far
  word,        \* history: the level asked for last
  last,        \* history: the last set that had its turn, and whether it was reported ok
  tested       \* history: how far the last test since came: "no" test, "started", "drove"
               \* when it called set(), "broken" when its set(0) did not return

bench == <<registered, phase, raised, output>>
callers == <<waits, asks, comms, word>>
vars == <<bench, line, card, callers, last, tested>>

Init ==
  /\ registered = FALSE
  /\ line = <<>> /\ phase = "free" /\ raised = FALSE
  /\ output = Unsure
  /\ card = NoLevel
  /\ waits = [c \in Clients |-> Nothing] /\ asks = 0 /\ comms = 0
  /\ word = 0 /\ last = [n |-> 0, ok |-> FALSE] /\ tested = "no"

Holder == line[1]
Testing == Holder.n = Bench
InPayload == phase \in {"constructing", "driving", "forcing"}

Request(n, level) == [n |-> n, level |-> level]

\* Mutant of Ask: a set slips in front of those that wait.
AskBarges(c) ==
  /\ registered /\ waits[c] = Nothing /\ asks < MaxAsks
  /\ \E level \in Levels :
       /\ line' = IF line = <<>> THEN <<Request(asks + 1, level)>>
                  ELSE <<Head(line), Request(asks + 1, level)>> \o Tail(line)
       /\ word' = level
  /\ asks' = asks + 1
  /\ waits' = [waits EXCEPT ![c] = asks + 1]
  /\ UNCHANGED <<bench, card, comms, last, tested>>

\* perform_set() up to the lock; a slug without a verified driver is refused.
Ask(c) ==
  /\ registered /\ waits[c] = Nothing /\ asks < MaxAsks
  /\ \E level \in Levels :
       /\ line' = Append(line, Request(asks + 1, level))
       /\ word' = level
  /\ asks' = asks + 1
  /\ waits' = [waits EXCEPT ![c] = asks + 1]
  /\ UNCHANGED <<bench, card, comms, last, tested>>

\* The HTTP client of the MCP server waits ten seconds, a commission in front may take
\* minutes: the tool fails and may be called again.  The request stays where it is.
GiveUp(c) ==
  /\ waits[c] # Nothing
  /\ waits' = [waits EXCEPT ![c] = Nothing]
  /\ UNCHANGED <<bench, line, card, asks, comms, word, last, tested>>

\* A commission of the slug, one at a time.
Commission ==
  /\ comms < MaxCommissions
  /\ \A i \in DOMAIN line : line[i].n # Bench
  /\ line' = Append(line, Request(Bench, Full))
  /\ comms' = comms + 1
  /\ UNCHANGED <<bench, card, waits, asks, word, last, tested>>

\* The lock is granted: a set is executed, a commission writes its first draft.
Starts ==
  /\ phase = "free" /\ line # <<>>
  /\ IF Testing
     THEN phase' = "drafting" /\ UNCHANGED <<last, tested>>
     ELSE /\ phase' = "constructing"
          /\ last' = [n |-> Holder.n, ok |-> FALSE] /\ tested' = "no"
  /\ UNCHANGED <<registered, raised, output, line, card, callers>>

\* A draft that passed the gate is tested.
TestStarts ==
  /\ phase = "drafting"
  /\ phase' = "constructing" /\ tested' = "started"
  /\ UNCHANGED <<registered, raised, output, line, card, callers, last>>

\* The commission fails or crashes between two tests.
CommissionFails ==
  /\ phase = "drafting"
  /\ phase' = "free" /\ line' = Tail(line)
  /\ UNCHANGED <<registered, raised, output, card, callers, last, tested>>

\* Driver(), which may move the pin.
Constructs ==
  /\ phase = "constructing"
  /\ phase' = "driving" /\ output' \in {output, Unsure}
  /\ UNCHANGED <<registered, raised, line, card, callers, last, tested>>

\* actuator.state, which every card takes for its level whether or not it is ok, and the
\* answer to whoever still waits for it.
Reports(ok) ==
  /\ card' = Holder.level
  /\ last' = [last EXCEPT !.ok = ok]
  /\ waits' = [c \in Clients |-> IF waits[c] = Holder.n THEN Nothing ELSE waits[c]]
  /\ phase' = "free" /\ line' = Tail(line)
  /\ UNCHANGED <<registered, asks, comms, word>>

\* The verdict on a test: a draft that printed its 0 is admitted, another one is repaired.
Judges(ok) ==
  /\ registered' = (registered \/ ok)
  /\ IF ok THEN phase' = "free" /\ line' = Tail(line)
           ELSE phase' = "drafting" /\ UNCHANGED line
  /\ UNCHANGED <<card, callers, last>>

\* The board answers: ok without a traceback.
Replies(ok) ==
  /\ IF Testing THEN Judges(ok) ELSE Reports(ok)
  /\ raised' = FALSE

\* The constructor stands outside the try: nothing is forced.  A board that is gone
\* answers with a stderr of the transport's, and nothing has been run.
ConstructorRaises ==
  /\ phase = "constructing"
  /\ output' \in {output, Unsure}
  /\ Replies(FALSE)
  /\ UNCHANGED tested

\* A test called set().
Drove == tested' = IF Testing THEN "drove" ELSE tested

\* A test's set(0) raised, or was broken off or may have been.
Broke == tested' = IF Testing THEN "broken" ELSE tested

\* Mutant of Drives: the test has no `finally`.
DrivesAndLeaves ==
  /\ phase = "driving"
  /\ output' = Holder.level /\ Drove
  /\ Replies(TRUE)

\* set(level) returns; a test goes on to its `finally`.
Drives ==
  /\ phase = "driving"
  /\ output' = Holder.level /\ Drove
  /\ IF Testing
     THEN phase' = "forcing" /\ UNCHANGED <<registered, raised, line, card, callers, last>>
     ELSE Replies(TRUE)

\* set(level) raises: `except` or `finally` calls set(0).
DriveRaises ==
  /\ phase = "driving"
  /\ output' = Unsure /\ phase' = "forcing" /\ raised' = TRUE /\ Drove
  /\ UNCHANGED <<registered, line, card, callers, last>>

\* set(0) returns, and what was raised is raised again.
Forces ==
  /\ phase = "forcing"
  /\ output' = 0
  /\ Replies(~raised)
  /\ UNCHANGED tested

ForceRaises ==
  /\ phase = "forcing"
  /\ output' = Unsure /\ Broke
  /\ Replies(FALSE)

\* A call of the driver does not return.  CTRL-C breaks it off: KeyboardInterrupt passes
\* `except Exception`; in a test it enters the `finally`, whose set(0) returns or is broken
\* off in its turn, by the second CTRL-C.
Hangs ==
  /\ InPayload
  /\ phase' = "hung"
  /\ output' \in IF Testing /\ phase = "driving" THEN {0, Unsure} ELSE {Unsure}
  /\ IF phase = "constructing" THEN UNCHANGED tested ELSE Broke
  /\ UNCHANGED <<registered, raised, line, card, callers, last>>

\* The deadline, and the soft reset that follows it.
TimesOut ==
  /\ phase = "hung"
  /\ Replies(FALSE)
  /\ UNCHANGED <<output, tested>>

\* The soft reset raises: no report, no answer but an error, and a commission crashes.
ResetRaises ==
  /\ phase = "hung"
  /\ phase' = "free" /\ line' = Tail(line) /\ raised' = FALSE
  /\ waits' = [c \in Clients |-> IF ~Testing /\ waits[c] = Holder.n THEN Nothing ELSE waits[c]]
  /\ UNCHANGED <<registered, output, card, asks, comms, word, last, tested>>

Payload ==
  \/ Constructs \/ ConstructorRaises \/ Drives \/ DriveRaises \/ Forces \/ ForceRaises
  \/ Hangs \/ TimesOut \/ ResetRaises

Next ==
  \/ \E c \in Clients : Ask(c) \/ GiveUp(c)
  \/ Commission \/ Starts \/ TestStarts \/ CommissionFails
  \/ Payload

Spec == Init /\ [][Next]_vars

-----------------------------------------------------------------------------
\* Type invariant of the queue, the payload, the card and the clients.
TypeOK ==
  /\ registered \in BOOLEAN /\ raised \in BOOLEAN /\ tested \in {"no", "started", "drove", "broken"}
  /\ line \in Seq([n : 0 .. MaxAsks, level : Levels])
  /\ phase \in {"free", "drafting", "constructing", "driving", "forcing", "hung"}
  /\ phase # "free" => line # <<>>
  /\ output \in Levels \cup {Unsure}
  /\ card \in Levels \cup {NoLevel}
  /\ waits \in [Clients -> 0 .. MaxAsks]
  /\ asks \in 0 .. MaxAsks /\ comms \in 0 .. MaxCommissions
  /\ word \in Levels
  /\ last \in [n : 0 .. MaxAsks, ok : BOOLEAN]

\* perform_set has no sequence numbers and a client that gave up has no way to withdraw
\* its request: it is the queue that makes a retry safe.  Once nothing is under way, the
\* set that had its turn last is the one that was asked for last, of whichever client,
\* and if it was reported ok the driver was told that level last and the card shows it,
\* unless a commission tested a draft on the actuator since.
LastWordWins ==
  line = <<>> /\ asks > 0 =>
    /\ last.n = asks
    /\ last.ok => card = word /\ (tested = "no" => output = word)

\* build_output_payload's off path (harness.py:51-59): when the last test of a draft called
\* set() and was neither broken off nor raised by its set(0), the actuator is off, whether
\* set(1) raised, whatever the tests before it left behind and the sets before them asked
\* for, until a set has its turn.  The docstring promises more, "a guaranteed-off path"
\* (harness.py:34): a test that is broken off, or whose set(0) raises, may leave the
\* actuator driven, and one whose constructor raises leaves what was on before.
TestLeavesOff ==
  tested = "drove" /\ phase \in {"free", "drafting"} => output = 0

\* Inductive: the sets that wait are in the order of the requests and newer than the last
\* one that had its turn, and the newest of all is among them or was that one.
QueueInOrder ==
  /\ \A i, j \in 1 .. Len(line) :
       i < j /\ line[i].n # Bench /\ line[j].n # Bench => line[i].n < line[j].n
  /\ \A i \in 1 .. Len(line) :
       line[i].n # Bench =>
         /\ line[i].n <= asks
         /\ line[i].n = asks => line[i].level = word
         /\ IF i = 1 /\ phase # "free" THEN line[i].n = last.n ELSE last.n < line[i].n
  /\ last.n <= asks
  /\ asks > 0 => last.n = asks \/ \E i \in 1 .. Len(line) : line[i].n = asks

\* What the holder's turn says about the last set and about tests since.
TurnKept ==
  /\ phase = "drafting" => Testing
  /\ phase \notin {"free", "drafting"} =>
       IF Testing THEN /\ phase \in {"constructing", "driving"} => tested = "started"
                       /\ phase = "forcing" => tested = "drove"
                       /\ phase = "hung" => tested \in {"started", "broken"}
                  ELSE ~last.ok /\ tested = "no" /\ (phase = "forcing" => raised)

WordKept ==
  last.n = asks /\ last.ok => card = word /\ (tested = "no" => output = word)

\* Once a test has driven the actuator, only its own `finally` is between set(1) and off.
OffKept == tested = "drove" /\ phase # "forcing" => output = 0

ActuatorInv == QueueInOrder /\ TurnKept /\ WordKept /\ OffKept
=============================================================================
