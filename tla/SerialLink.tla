----------------------------- MODULE SerialLink -----------------------------
(***************************************************************************)
(* The raw REPL line under SerialBoard (hardware/serial_board.py with      *)
(* hardware/raw_repl.py): what the host writes, what the board answers and *)
(* what the worker threads take out of the receive buffer.  Both           *)
(* directions are lossless streams of tokens.  The board answers when it   *)
(* likes, token by token; what it has written is at the port at once (USB  *)
(* takes milliseconds, the shortest pause of the code is 0.1 s).  A token  *)
(* carries the exec whose code it stems from (0: none), which the program  *)
(* does not see.  The session's lock admits one awaited call at a time;    *)
(* the one thread that may run beside it is the connect() that boot has    *)
(* given up on: their steps interleave, and what a thread does between two *)
(* of its sleeps or reads is one step.  A backstop that leaves an exec's   *)
(* thread behind is in BoardSession (wedged), not here.                    *)
(***************************************************************************)
EXTENDS Naturals, SequencesExt

CONSTANTS MaxExecs,    \* bound: execs
          MaxResets,   \* bound: soft_resets asked for by a caller
          MaxChatter,  \* bound: tokens a boot program prints
          MaxFaults    \* bound: exceptions raised by the port

ASSUME BoundsAssumption == {MaxExecs, MaxResets, MaxChatter, MaxFaults} \subseteq Nat

Execs == 1 .. MaxExecs
Nothing == 0              \* the board executes nothing
Boot == MaxExecs + 1      \* the board executes its main.py
Token(kind, of) == [kind |-> kind, of |-> of]
Ctrl(key) == Token(key, 0)
Code(n) == Token("code", n)

VARIABLES
  port,       \* self._serial is not None
  connected,  \* self._connected
  dirty,      \* self._dirty
  call,       \* the awaited transport call
  step,       \* where its worker thread is
  dial,       \* where connect()'s worker thread is, awaited or not
  rx,         \* RxBuffer: read and not yet taken
  coming,     \* the port's input buffer
  tx,         \* host to board
  mode,       \* the board's REPL: "raw" or "friendly"
  running,    \* what the board executes: an exec, Boot or Nothing
  saying,     \* what the board is about to write
  reply,      \* the execs whose output the sections of the last reply hold
  execs,      \* execs started so far
  barred,     \* execs that a later resync has put behind it
  doubted,    \* a soft_reset got no prompt, the port raised, or connect()'s CTRL-A came
              \* between a reset's CTRL-B and CTRL-D, and no resync since has had its
              \* own answer: the board was behind
  spent       \* [resets, chatter, faults] used up so far

vars == <<port, connected, dirty, call, step, dial, rx, coming, tx, mode, running,
          saying, reply, execs, barred, doubted, spent>>
hostVars == <<port, connected, dirty, call, step, dial, reply, execs, barred, doubted>>
boardVars == <<mode, running, saying>>

Init ==
  /\ port = FALSE /\ connected = FALSE /\ dirty = FALSE
  /\ call = "connect" /\ step = "off" /\ dial = "opening"
  /\ rx = <<>> /\ coming = <<>> /\ tx = <<>>
  /\ mode \in {"raw", "friendly"} /\ running \in {Boot, Nothing} /\ saying = <<>>
  /\ reply = <<>> /\ execs = 0 /\ barred = 0 /\ doubted = FALSE
  /\ spent = [resets |-> 0, chatter |-> 0, faults |-> 0]

-----------------------------------------------------------------------------
\* RxBuffer, and the thread's pump.

\* The prompt marker is one character, which the raw banner ends in as well.
Matches(token, marker) ==
  token.kind = marker \/ (marker = "prompt" /\ token.kind = "raw")

Has(marker) == \E i \in DOMAIN rx : Matches(rx[i], marker)
FirstOf(marker) == CHOOSE i \in DOMAIN rx :
  Matches(rx[i], marker) /\ \A j \in 1 .. i - 1 : ~Matches(rx[j], marker)

\* take_until: everything up to the first marker goes, what follows it stays.
TakeUntil(marker) == Has(marker) /\ rx' = SubSeq(rx, FirstOf(marker) + 1, Len(rx))

\* The execs whose output take_until(marker) returns, or whose marker it matched.
TakenFrom(marker) == {rx[i].of : i \in 1 .. FirstOf(marker)}

\* s.read: a chunk of any size joins the buffer.
Read(marker) ==
  /\ ~Has(marker)
  /\ \E n \in 1 .. Len(coming) :
       /\ rx' = rx \o SubSeq(coming, 1, n)
       /\ coming' = SubSeq(coming, n + 1, Len(coming))
  /\ UNCHANGED <<hostVars, boardVars, tx, spent>>

\* reset_input_buffer and rx.clear: what the board has written so far is gone.
Clear == rx' = <<>> /\ coming' = <<>>

Write(sent) == tx' = tx \o sent

-----------------------------------------------------------------------------
\* connect(): the session waits five seconds for it, the thread takes its time.

Awaited == call = "connect"
Answered == IF Awaited THEN "none" ELSE call

\* s.open(): the port is absent or busy, or it is the board's from now on.
Opens ==
  /\ dial = "opening"
  /\ \/ dial' = "done" /\ call' = Answered /\ UNCHANGED port
     \/ dial' = "interrupt" /\ port' = TRUE /\ UNCHANGED call
  /\ UNCHANGED <<connected, dirty, step, rx, coming, tx, boardVars, reply, execs,
                 barred, doubted, spent>>

\* _enter_raw: interrupt whatever runs, then ask for the raw prompt.
Interrupts ==
  /\ dial = "interrupt"
  /\ dial' = "enter"
  /\ Write(<<Ctrl("C")>>)
  /\ UNCHANGED <<port, connected, dirty, call, step, rx, coming, boardVars, reply,
                 execs, barred, doubted, spent>>

\* A CTRL-A between a reset's CTRL-B and CTRL-D crosses it: the CTRL-D is read in raw
\* mode, and answered with a banner that nobody waits for.
EntersRaw ==
  /\ dial = "enter"
  /\ dial' = "pump"
  /\ Clear
  /\ Write(<<Ctrl("A")>>)
  /\ doubted' = (doubted \/ step = "restart")
  /\ UNCHANGED <<port, connected, dirty, call, step, boardVars, reply, execs, barred, spent>>

\* The prompt: the transport is connected, whether or not anyone still waits.
Connects ==
  /\ dial = "pump" /\ Has("raw")
  /\ rx' = <<>>
  /\ dial' = "done" /\ connected' = TRUE /\ call' = Answered
  /\ barred' = execs
  /\ UNCHANGED <<port, dirty, step, coming, tx, boardVars, reply, execs, doubted, spent>>

\* No prompt in time: the port is closed again.
DialTimesOut ==
  /\ dial = "pump" /\ ~Has("raw")
  /\ dial' = "done" /\ port' = FALSE /\ call' = Answered
  /\ UNCHANGED <<connected, dirty, step, rx, coming, tx, boardVars, reply, execs,
                 barred, doubted, spent>>

\* session.connect gives up on a thread that goes on.
GivesUp ==
  /\ Awaited /\ call' = "none"
  /\ UNCHANGED <<port, connected, dirty, step, dial, rx, coming, tx, boardVars, reply,
                 execs, barred, doubted, spent>>

Dial == \/ Opens \/ Interrupts \/ EntersRaw \/ Connects \/ DialTimesOut \/ GivesUp
        \/ (dial = "pump" /\ Read("raw"))

-----------------------------------------------------------------------------
\* exec(): resync a dirty line, then the byte dance.

\* Mutant of ExecStarts: a dirty line is written to as it is.
ExecStartsDirty ==
  /\ call = "none" /\ port /\ connected /\ execs < MaxExecs
  /\ execs' = execs + 1
  /\ call' = "exec" /\ step' = "ack" /\ Write(<<Code(execs + 1)>>)
  /\ reply' = <<>>
  /\ UNCHANGED <<port, connected, dirty, dial, rx, coming, boardVars, barred, doubted, spent>>

\* Without a port or a connection the call returns at once.
ExecStarts ==
  /\ call = "none" /\ port /\ connected /\ execs < MaxExecs
  /\ execs' = execs + 1
  /\ IF dirty THEN call' = "resync" /\ step' = "break" /\ UNCHANGED tx
              ELSE call' = "exec" /\ step' = "ack" /\ Write(<<Code(execs + 1)>>)
  /\ reply' = <<>>
  /\ UNCHANGED <<port, connected, dirty, dial, rx, coming, boardVars, barred, doubted, spent>>

\* The ack, the stdout section, the stderr section.
Pumps ==
  /\ call = "exec"
  /\ \/ step = "ack" /\ TakeUntil("ok") /\ step' = "out" /\ UNCHANGED reply
     \/ /\ step = "out" /\ TakeUntil("eot")
        /\ reply' = <<TakenFrom("eot")>> /\ step' = "err"
     \/ /\ step = "err" /\ TakeUntil("eot")
        /\ reply' = Append(reply, TakenFrom("eot")) /\ step' = "prompt"
  /\ UNCHANGED <<port, connected, dirty, call, dial, coming, tx, boardVars, execs,
                 barred, doubted, spent>>

Wanted == CASE step = "ack" -> "ok" [] step \in {"out", "err"} -> "eot"
            [] step = "prompt" -> "prompt" [] OTHER -> "raw"

\* The trailing prompt is best effort: the reply is returned with or without it.
ExecReturns ==
  /\ call = "exec" /\ step = "prompt"
  /\ \/ TakeUntil("prompt")
     \/ ~Has("prompt") /\ UNCHANGED rx
  /\ call' = "none" /\ step' = "off"
  /\ UNCHANGED <<port, connected, dirty, dial, coming, tx, boardVars, reply, execs,
                 barred, doubted, spent>>

\* Mutant of ExecTimesOut: the timeout does not mark the line.
ExecTimesOutClean ==
  /\ call = "exec" /\ step \in {"ack", "out", "err"} /\ ~Has(Wanted)
  /\ call' = "none" /\ step' = "off" /\ reply' = <<>>
  /\ UNCHANGED <<port, connected, dirty, dial, rx, coming, tx, boardVars, execs,
                 barred, doubted, spent>>

\* The worker's own deadline, looked at when the marker is not in the buffer.
ExecTimesOut ==
  /\ call = "exec" /\ step \in {"ack", "out", "err"} /\ ~Has(Wanted)
  /\ dirty' = TRUE
  /\ call' = "none" /\ step' = "off" /\ reply' = <<>>
  /\ UNCHANGED <<port, connected, dial, rx, coming, tx, boardVars, execs,
                 barred, doubted, spent>>

-----------------------------------------------------------------------------
\* soft_reset(): the session's, the commission's, or the head of an exec.

\* It looks at the port alone: a connect() nobody waits for may still be at work.
ResetStarts ==
  /\ call = "none" /\ port /\ spent.resets < MaxResets
  /\ spent' = [spent EXCEPT !.resets = @ + 1]
  /\ call' = "reset" /\ step' = "break" /\ reply' = <<>>
  /\ UNCHANGED <<port, connected, dirty, dial, rx, coming, tx, boardVars, execs,
                 barred, doubted>>

InReset == call \in {"reset", "resync"}
Resetting == {"break", "leave", "restart", "stop", "reenter", "pump"}

\* Its thread writes one key after the other and sleeps in between, with what the
\* board has answered so far thrown away before the first and before the last.
Sends(key, at, next) ==
  /\ InReset /\ step = at /\ port
  /\ step' = next
  /\ Write(<<Ctrl(key)>>)
  /\ UNCHANGED <<port, connected, dirty, call, dial, boardVars, reply, execs, barred,
                 doubted, spent>>

\* What runs is broken off, the raw REPL is left, the interpreter is reset, what that
\* has launched is broken off again, and the raw prompt is asked for.
Breaks == Sends("C", "break", "leave") /\ Clear
Leaves == Sends("B", "leave", "restart") /\ UNCHANGED <<rx, coming>>
Restarts == Sends("D", "restart", "stop") /\ UNCHANGED <<rx, coming>>
Stops == Sends("C", "stop", "reenter") /\ UNCHANGED <<rx, coming>>
Reenters == Sends("A", "reenter", "pump") /\ Clear

\* The board has read and answered all that it was sent.
CaughtUp == tx = <<>> /\ saying = <<>> /\ coming = <<>> /\ running = Nothing

\* Mutant of ResetReturns: any prompt will do.
ResetReturnsOnAnyPrompt ==
  /\ InReset /\ step = "pump" /\ port /\ Has("prompt")
  /\ rx' = <<>>
  /\ dirty' = FALSE /\ barred' = execs
  /\ IF call = "resync" THEN call' = "exec" /\ step' = "ack" /\ Write(<<Code(execs)>>)
                        ELSE call' = "none" /\ step' = "off" /\ UNCHANGED tx
  /\ doubted' = (doubted /\ ~CaughtUp)
  /\ UNCHANGED <<port, connected, dial, coming, boardVars, reply, execs, spent>>

\* The raw prompt: the line is clean, and a resync goes on with its exec.
ResetReturns ==
  /\ InReset /\ step = "pump" /\ port /\ Has("raw")
  /\ rx' = <<>>
  /\ dirty' = FALSE
  /\ IF call = "resync"
     THEN call' = "exec" /\ step' = "ack" /\ Write(<<Code(execs)>>) /\ barred' = execs - 1
     ELSE call' = "none" /\ step' = "off" /\ UNCHANGED tx /\ barred' = execs
  /\ doubted' = (doubted /\ ~CaughtUp)
  /\ UNCHANGED <<port, connected, dial, coming, boardVars, reply, execs, spent>>

\* No prompt in time, or a port that the late connect() has closed: the call
\* raises, and the dirty bit is what it was.
ResetRaises ==
  /\ InReset
  /\ (step = "pump" /\ ~Has("raw")) \/ ~port
  /\ call' = "none" /\ step' = "off"
  /\ doubted' = TRUE
  /\ UNCHANGED <<port, connected, dirty, dial, rx, coming, tx, boardVars, reply, execs,
                 barred, spent>>

\* A SerialException out of a read or a write: no deadline passed, so no dirty bit.
PortRaises ==
  /\ (call = "exec" \/ InReset) /\ spent.faults < MaxFaults
  /\ spent' = [spent EXCEPT !.faults = @ + 1]
  /\ call' = "none" /\ step' = "off" /\ reply' = <<>>
  /\ doubted' = TRUE
  /\ UNCHANGED <<port, connected, dirty, dial, rx, coming, tx, boardVars, execs, barred>>

\* close(): back to the friendly REPL, and the port is released.
Close ==
  /\ call = "none"
  /\ IF port THEN Write(<<Ctrl("B")>>) ELSE UNCHANGED tx
  /\ call' = "closed" /\ port' = FALSE /\ connected' = FALSE
  /\ UNCHANGED <<dirty, step, dial, rx, coming, boardVars, reply, execs, barred,
                 doubted, spent>>

Host == \/ ExecStarts \/ Pumps \/ ExecReturns \/ ExecTimesOut
        \/ ResetStarts \/ Breaks \/ Leaves \/ Restarts \/ Stops \/ Reenters
        \/ ResetReturns \/ ResetRaises
        \/ PortRaises \/ Close
        \/ (call = "exec" /\ Read(Wanted))
        \/ (InReset /\ step = "pump" /\ Read("raw"))

-----------------------------------------------------------------------------
\* The board: MicroPython's REPL, as the host relies on it.

Idle == running = Nothing /\ saying = <<>>
Friendly == <<Token("prompt", 0)>>
Ended(what) ==
  IF what = Boot THEN Friendly
  ELSE <<Token("eot", what), Token("eot", what), Token("prompt", what)>>

\* The next token is written; a finished exec's sections come one by one.
Says ==
  /\ saying # <<>>
  /\ coming' = Append(coming, Head(saying)) /\ saying' = Tail(saying)
  /\ UNCHANGED <<hostVars, rx, tx, mode, running, spent>>

\* What the REPL does with an input: what it writes, its mode, what it runs next.
Does(tokens, to, runs) == saying' = tokens /\ mode' = to /\ running' = runs

\* A soft reset in the friendly REPL runs main.py, if there is one.
Reboots(tokens) ==
  \/ Does(tokens, "friendly", Boot)
  \/ Does(tokens \o Friendly, "friendly", Nothing)

\* An idle REPL takes the next thing it was sent.
Obeys ==
  /\ Idle /\ tx # <<>>
  /\ tx' = Tail(tx)
  /\ LET key == Head(tx).kind
         n == Head(tx).of IN
     \/ key = "C" /\ Does(IF mode = "raw" THEN <<>> ELSE Friendly, mode, Nothing)
     \/ key = "A" /\ Does(<<Token("raw", 0)>>, "raw", Nothing)
     \/ key = "B" /\ Does(Friendly, "friendly", Nothing)
     \/ key = "D" /\ mode = "friendly" /\ Reboots(<<>>)
     \/ key = "D" /\ mode = "raw" /\ Does(<<Token("ok", 0), Token("raw", 0)>>, mode, Nothing)
     \/ key = "code" /\ mode = "raw" /\ Does(<<Token("ok", n)>>, mode, n)
     \/ key = "code" /\ mode = "friendly" /\ Reboots(<<Token("prompt", n)>>)
  /\ UNCHANGED <<hostVars, rx, coming, spent>>

\* What runs comes to its end, and the REPL frames its output.
Finishes ==
  /\ running # Nothing /\ saying = <<>>
  /\ Does(Ended(running), mode, Nothing)
  /\ UNCHANGED <<hostVars, rx, coming, tx, spent>>

\* The interrupt character does not wait behind what else was sent; code may be
\* written so that it survives one.
IsInterrupted ==
  /\ running # Nothing /\ saying = <<>>
  /\ \E i \in DOMAIN tx :
       /\ tx[i] = Ctrl("C") /\ \A j \in 1 .. i - 1 : tx[j] # Ctrl("C")
       /\ tx' = RemoveAt(tx, i)
  /\ UNCHANGED boardVars \/ Does(Ended(running), mode, Nothing)
  /\ UNCHANGED <<hostVars, rx, coming, spent>>

\* A boot program prints what it likes.
Chatters ==
  /\ running = Boot /\ saying = <<>> /\ spent.chatter < MaxChatter
  /\ spent' = [spent EXCEPT !.chatter = @ + 1]
  /\ \E kind \in {"ok", "eot", "prompt"} : saying' = <<Token(kind, 0)>>
  /\ UNCHANGED <<hostVars, rx, coming, tx, mode, running>>

Board == Says \/ Obeys \/ Finishes \/ IsInterrupted \/ Chatters

Next == Dial \/ Host \/ Board
Spec == Init /\ [][Next]_vars

-----------------------------------------------------------------------------
\* Correctness.

AtRest == call = "none" /\ dial = "done"

\* A reply that exec returns without timed_out holds output of its own code and of
\* no other exec: neither a late prompt, nor what a timed-out exec still prints, nor
\* a boot program's chatter makes the host take one read for another.
ReplyIsOwn ==
  call = "none" /\ Len(reply) = 2 /\ ~doubted
    => \A i \in 1 .. 2 : reply[i] = {execs}

\* What has left the board's REPL and is not taken yet, in order.
ToCome == rx \o coming \o saying

\* What "a clean line" means: the board is idle at the raw prompt and has read all that
\* it was sent, and of what came before nothing but a prompt is still to come.
Synced ==
  /\ mode = "raw" /\ running = Nothing /\ tx = <<>>
  /\ \A i \in DOMAIN ToCome : ToCome[i].kind = "prompt"

\* With nobody on the line, a connected transport whose dirty bit is clear is in step
\* with the board, whatever timed out and whenever connect() came through.  Exempt is the
\* line that is doubted: a call has raised, or a late connect()'s CTRL-A came between a
\* reset's CTRL-B and CTRL-D, and no resync since was answered by a board that had read
\* all it was sent.  ("Clears the dirty bit only on a successful re-sync", :215, is not
\* true of that crossing: a reset may return on connect's banner with its own to come.)
CleanLineIsSynced ==
  AtRest /\ connected /\ ~dirty /\ ~doubted => Synced

\* Code whose exec has been given up never starts on the board once a resync has
\* returned: a read reported as timed out does not run late, behind the recovery.
StaleCodeNeverRuns ==
  [][running' \in Execs /\ running' # running /\ ~doubted => running' > barred]_vars

-----------------------------------------------------------------------------
\* Every variable keeps its type.
Answers == [kind : {"ok", "eot", "prompt", "raw"}, of : 0 .. MaxExecs]
Inputs == {Ctrl(key) : key \in {"A", "B", "C", "D"}} \cup {Code(n) : n \in Execs}

TypeOK ==
  /\ port \in BOOLEAN /\ connected \in BOOLEAN /\ dirty \in BOOLEAN /\ doubted \in BOOLEAN
  /\ call \in {"connect", "none", "exec", "reset", "resync", "closed"}
  /\ step \in {"off", "ack", "out", "err", "prompt"} \cup Resetting
  /\ dial \in {"opening", "interrupt", "enter", "pump", "done"}
  /\ rx \in Seq(Answers) /\ coming \in Seq(Answers) /\ saying \in Seq(Answers)
  /\ tx \in Seq(Inputs)
  /\ mode \in {"raw", "friendly"} /\ running \in 0 .. MaxExecs + 1
  /\ reply \in Seq(SUBSET (0 .. MaxExecs))
  /\ execs \in 0 .. MaxExecs /\ barred \in 0 .. MaxExecs
  /\ spent \in [resets : Nat, chatter : Nat, faults : Nat]

\* The inductive invariant behind the three properties.

\* Which calls need the port and the connection, and what precedes the first exec.
HostKept ==
  /\ call = "exec" <=> step \in {"ack", "out", "err", "prompt"}
  /\ InReset <=> step \in Resetting
  /\ call \in {"exec", "resync"} => port /\ connected /\ execs > 0
  /\ connected => dial = "done"
  /\ dial # "done" => execs = 0 /\ ~dirty
  /\ dial = "opening" => ~port /\ ~InReset
  /\ (connected \/ dial \in {"interrupt", "enter", "pump"}) /\ call # "closed" => port
  /\ barred <= execs
  /\ InReset \/ call = "connect" => reply = <<>>

\* What has been sent and runs was written by an exec; before the port is opened nothing was.
LineKept ==
  /\ running \in 0 .. execs \/ running = Boot
  /\ \A i \in DOMAIN tx : tx[i].of <= execs
  /\ dial = "opening" =>
       tx = <<>> /\ rx = <<>> /\ \A i \in DOMAIN ToCome : ToCome[i].kind # "raw"

\* The i-th thing on its way to the board will be read in the friendly REPL.
ReadFriendly(i) == \E j \in 0 .. i - 1 :
  /\ IF j = 0 THEN mode = "friendly" ELSE tx[j].kind = "B"
  /\ \A k \in DOMAIN tx : j < k /\ k < i => tx[k].kind = "C"

\* Nothing but interrupts comes between a reset's Ctrl-B and its Ctrl-D.
ResetsAreFriendly ==
  ~doubted =>
    /\ \A i \in DOMAIN tx : tx[i].kind = "D" => ReadFriendly(i)
    /\ step = "restart" => ReadFriendly(Len(tx) + 1)

Pumping == InReset /\ step = "pump"

\* A reset that waits for its prompt has asked for it last: whatever else happens,
\* the board is in the raw REPL when it has read all that it was sent.
ModeKept ==
  Pumping => \E j \in 0 .. Len(tx) :
    /\ IF j = 0 THEN mode = "raw" ELSE tx[j].kind = "A"
    /\ \A i \in DOMAIN tx : i > j => tx[i].kind \in {"A", "C"}

Places(s, kind) == {i \in DOMAIN s : s[i].kind = kind}
Waiting == (IF dial = "pump" THEN 1 ELSE 0) + (IF Pumping THEN 1 ELSE 0)

\* There is never more than one raw prompt to come for each thread that waits for one.
PromptsAwaited ==
  port /\ ~doubted =>
    Cardinality(Places(ToCome, "raw")) + Cardinality(Places(tx, "A")) <= Waiting

\* Once somebody has asked for the raw prompt, and until the line is used again, the
\* board is on its way there, and the prompt comes after all that it still writes.
LineInStep ==
  port /\ ~doubted /\ dial \in {"pump", "done"} /\ call # "exec"
       /\ step \notin {"leave", "restart", "stop", "reenter"}
       /\ (dirty => Pumping)
    => IF tx # <<>> THEN Last(tx) = Ctrl("A")
       ELSE /\ mode = "raw" /\ running = Nothing
            /\ \A i \in DOMAIN ToCome : ToCome[i].kind \in {"ok", "eot"} =>
                 \E j \in DOMAIN ToCome : j > i /\ ToCome[j].kind = "raw"

\* What follows the ack of exec n.
Output(n) == IF running = n THEN <<>> ELSE Ended(n)

\* While an exec waits, what is to come is its own reply, behind at most old prompts.
ExecKept ==
  call = "exec" /\ ~doubted =>
    /\ mode = "raw"
    /\ step = "ack" /\ tx # <<>> =>
         /\ tx = <<Code(execs)>> /\ running = Nothing /\ reply = <<>>
         /\ \A i \in DOMAIN ToCome : ToCome[i].kind = "prompt"
    /\ step # "ack" => tx = <<>>
    /\ tx = <<>> => running \in {Nothing, execs}
    /\ step = "ack" /\ tx = <<>> =>
         /\ reply = <<>>
         /\ \E k \in DOMAIN ToCome :
              /\ \A i \in 1 .. k - 1 : ToCome[i].kind = "prompt"
              /\ ToCome[k] = Token("ok", execs)
              /\ SubSeq(ToCome, k + 1, Len(ToCome)) = Output(execs)
    /\ step = "out" => ToCome = Output(execs) /\ reply = <<>>
    /\ step = "err" =>
         running = Nothing /\ ToCome = Tail(Ended(execs)) /\ reply = <<{execs}>>
    /\ step = "prompt" =>
         /\ running = Nothing /\ ToCome = Tail(Tail(Ended(execs)))
         /\ reply = <<{execs}, {execs}>>

\* The code that the board has not read yet was not put behind a resync.
CodeIsFresh == ~doubted => \A i \in DOMAIN tx : tx[i].kind = "code" => tx[i].of > barred

LinkInv ==
  /\ HostKept /\ LineKept /\ ResetsAreFriendly /\ ModeKept /\ PromptsAwaited
  /\ LineInStep /\ ExecKept /\ CodeIsFresh /\ ReplyIsOwn
=============================================================================
