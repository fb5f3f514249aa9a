------------------------------ MODULE CopilotChat ------------------------------
(***************************************************************************)
(* The operator's chat: cmd.chat through the CommandRouter                 *)
(* (events/commands.py), its handler (api/handlers.py) and the streaming   *)
(* run (agents/streaming.py), the histories kept for each connection and   *)
(* dropped when it closes (api/ws.py), and the transcript that every       *)
(* console builds from the agent.message events, which are broadcast       *)
(* (frontend state/dispatch.ts).                                           *)
(*                                                                         *)
(* A chat is a task of the one event loop.  Its turn of the conversation   *)
(* stands for the question and its answer; the model is a nondeterministic *)
(* service that says some words and ends or fails.  Delivery is immediate  *)
(* on a connection that lasts: what the bus and the wire may lose is       *)
(* EventStream's.  A console is a browser's store: it outlives the socket, *)
(* and system.hello leaves its chat as it is (frontend lib/ws.ts).         *)
(***************************************************************************)
EXTENDS Naturals, SequencesExt

CONSTANTS Consoles,   \* browsers, each with its store
          Conns,      \* connection ids: a console that reconnects takes a new one
          NoConn,     \* of a console without a connection
          MaxTurns,   \* bound: chats dispatched
          MaxWords,   \* bound: text deltas of one answer
          MaxCrashes  \* bound: chats whose handler raises

ASSUME ChatAssumption ==
  /\ MaxTurns \in Nat /\ MaxWords \in Nat /\ MaxCrashes \in Nat
  /\ NoConn \notin Conns

Turns == 1..MaxTurns

NoHistory == <<>>
NoMessage == [by |-> 0, words |-> <<>>]

VARIABLES
  keyed,      \* the provider key of the model is set in the environment
  conn,       \* "new", "open", "closing" (sender cancelled), "closed"
  histories,  \* chat_histories: the turns of result.all_messages()
  turns,      \* the chats dispatched, in order: [of, phase, read, said]
  via,        \* the connection of each console, or NoConn
  streaming,  \* each console's open bubble: the turn behind each delta
  message,    \* the last message of each console's transcript: [by, words]
  met,        \* history: pairs of turns that were in flight together
  late,       \* history: turns in flight when their connection was forgotten
  witnessed,  \* history: per turn, the consoles with an empty bubble when it began and
              \* connected since, until it ends
  leftover    \* history: consoles whose open bubble holds words of a turn that broke
              \* off, or that the console lost its connection to

server == <<histories, turns, met, late, witnessed>>
store == <<streaming, message, leftover>>
vars == <<keyed, conn, via, server, store>>

Phases == {"queued", "asking", "answered", "stored", "unavailable", "crashed"}

Of(t) == turns[t].of
Phase(t) == turns[t].phase
Dispatched == DOMAIN turns
InFlight == {t \in Dispatched : Phase(t) \in {"asking", "answered"}}

\* The consoles that receive what the bus publishes.
Listening == {b \in Consoles : via[b] # NoConn /\ conn[via[b]] = "open"}

Init ==
  /\ keyed \in BOOLEAN
  /\ conn = [c \in Conns |-> "new"]
  /\ histories = [c \in Conns |-> NoHistory]
  /\ turns = <<>>
  /\ via = [b \in Consoles |-> NoConn]
  /\ streaming = [b \in Consoles |-> <<>>]
  /\ message = [b \in Consoles |-> NoMessage]
  /\ met = {} /\ late = {} /\ witnessed = <<>> /\ leftover = {}

\* ws_endpoint: accept, a fresh connection id, the subscription; system.hello restates
\* the board and the drivers, and of the chat nothing.
Connect(b, c) ==
  /\ via[b] = NoConn /\ conn[c] = "new"
  /\ conn' = [conn EXCEPT ![c] = "open"]
  /\ via' = [via EXCEPT ![b] = c]
  /\ UNCHANGED <<keyed, server, store>>

\* onclose: the socket goes, the store stays, a reconnection is scheduled.
Drop(b) ==
  /\ via[b] # NoConn
  /\ via' = [via EXCEPT ![b] = NoConn]
  /\ leftover' = IF streaming[b] = <<>> THEN leftover ELSE leftover \cup {b}
  /\ witnessed' = [t \in DOMAIN witnessed |->
                     IF Phase(t) = "asking" THEN witnessed[t] \ {b} ELSE witnessed[t]]
  /\ UNCHANGED <<keyed, conn, histories, turns, met, late, streaming, message>>

\* dispatch: the ack, then a task that inherits the connection's id.
NewTurn(c) == [of |-> c, phase |-> "queued", read |-> NoHistory, said |-> 0]

Dispatch(c) ==
  /\ conn[c] = "open"
  /\ Len(turns) < MaxTurns
  /\ turns' = Append(turns, NewTurn(c))
  /\ witnessed' = Append(witnessed, {})
  /\ UNCHANGED <<keyed, conn, via, histories, met, late, store>>

\* The tasks of the loop start in the order they were created.
Starts(t) == Phase(t) = "queued" /\ \A u \in Dispatched : u < t => Phase(u) # "queued"

\* _run and _error: the answer to a chat that fails is a system.error.
Ends(t, how) == turns' = [turns EXCEPT ![t].phase = how]

MayCrash == Cardinality({t \in Dispatched : Phase(t) = "crashed"}) < MaxCrashes

\* A payload that is no ChatCommand raises into _run.
Malformed(t) ==
  /\ Starts(t) /\ MayCrash
  /\ Ends(t, "crashed")
  /\ UNCHANGED <<keyed, conn, via, histories, met, late, witnessed, store>>

\* resolve_model raises before the stream is opened.
NoModel(t) ==
  /\ Starts(t) /\ ~keyed
  /\ Ends(t, "unavailable")
  /\ UNCHANGED <<keyed, conn, via, histories, met, late, witnessed, store>>

\* The handler's first stretch: the history is read, the run begins.
Read(t) == histories[Of(t)]

Begin(t) ==
  /\ Starts(t) /\ keyed
  /\ turns' = [turns EXCEPT ![t].phase = "asking", ![t].read = Read(t)]
  /\ met' = met \cup {<<t, u>> : u \in InFlight} \cup {<<u, t>> : u \in InFlight}
  /\ witnessed' = [witnessed EXCEPT ![t] = Listening \ leftover]
  /\ UNCHANGED <<keyed, conn, via, histories, late, store>>

\* _forward of a text part or delta: agent.message, done false, to every console.
Says(t) ==
  /\ Phase(t) = "asking" /\ turns[t].said < MaxWords
  /\ turns' = [turns EXCEPT ![t].said = @ + 1]
  /\ streaming' = [b \in Consoles |-> IF b \in Listening THEN Append(streaming[b], t)
                                                         ELSE streaming[b]]
  /\ UNCHANGED <<keyed, conn, via, histories, met, late, witnessed, message, leftover>>

\* _forward of the run's result: done true folds each console's open bubble.
Folded(b, t) == [by |-> t, words |-> streaming[b]]

\* Mutant of Answered: `streaming` is not reset when the message is folded.
AnsweredKeepsBubble(t) ==
  /\ Phase(t) = "asking"
  /\ Ends(t, "answered")
  /\ message' = [b \in Consoles |-> IF b \in Listening THEN Folded(b, t) ELSE message[b]]
  /\ leftover' = leftover \ Listening
  /\ UNCHANGED <<keyed, conn, via, histories, met, late, witnessed, streaming>>

Answered(t) ==
  /\ Phase(t) = "asking"
  /\ Ends(t, "answered")
  /\ message' = [b \in Consoles |-> IF b \in Listening THEN Folded(b, t) ELSE message[b]]
  /\ streaming' = [b \in Consoles |-> IF b \in Listening THEN <<>> ELSE streaming[b]]
  /\ leftover' = leftover \ Listening
  /\ UNCHANGED <<keyed, conn, via, histories, met, late, witnessed>>

\* Mutant of Crash: the handler stores its messages in a `finally`.
CrashStores(t) ==
  /\ Phase(t) = "asking" /\ MayCrash
  /\ Ends(t, "crashed")
  /\ histories' = [histories EXCEPT ![Of(t)] = turns[t].read]
  /\ leftover' = leftover \cup {b \in Consoles : Contains(streaming[b], t)}
  /\ UNCHANGED <<keyed, conn, via, met, late, witnessed, streaming, message>>

\* The run raises: _run answers handler_error, and nothing closes the bubble.
Crash(t) ==
  /\ Phase(t) = "asking" /\ MayCrash
  /\ Ends(t, "crashed")
  /\ leftover' = leftover \cup {b \in Consoles : Contains(streaming[b], t)}
  /\ UNCHANGED <<keyed, conn, via, histories, met, late, witnessed, streaming, message>>

\* The stream is closed: the handler stores what it read and its own turn.
Store(t) ==
  /\ Phase(t) = "answered"
  /\ histories' = [histories EXCEPT ![Of(t)] = Append(turns[t].read, t)]
  /\ Ends(t, "stored")
  /\ UNCHANGED <<keyed, conn, via, met, late, witnessed, store>>

\* WebSocketDisconnect, when the console is gone: the sender is cancelled and awaited ...
Hangup(c) ==
  /\ conn[c] = "open" /\ \A b \in Consoles : via[b] # c
  /\ conn' = [conn EXCEPT ![c] = "closing"]
  /\ UNCHANGED <<keyed, via, server, store>>

\* ... and then the connection's history goes; its chats run on.
Forget(c) ==
  /\ conn[c] = "closing"
  /\ conn' = [conn EXCEPT ![c] = "closed"]
  /\ histories' = [histories EXCEPT ![c] = NoHistory]
  /\ late' = late \cup {t \in Dispatched :
                          Of(t) = c /\ Phase(t) \in {"queued", "asking", "answered"}}
  /\ UNCHANGED <<keyed, via, turns, met, witnessed, store>>

Next ==
  \/ \E b \in Consoles : Drop(b) \/ \E c \in Conns : Connect(b, c)
  \/ \E c \in Conns : Dispatch(c) \/ Hangup(c) \/ Forget(c)
  \/ \E t \in Dispatched : \/ Malformed(t) \/ NoModel(t) \/ Begin(t)
                           \/ Says(t) \/ Answered(t) \/ Crash(t) \/ Store(t)

Spec == Init /\ [][Next]_vars

\* Types of the state, with the histories as sequences of turns.
TypeOK ==
  /\ keyed \in BOOLEAN
  /\ conn \in [Conns -> {"new", "open", "closing", "closed"}]
  /\ histories \in [Conns -> Seq(Turns)]
  /\ turns \in Seq([of : Conns, phase : Phases, read : Seq(Turns), said : 0..MaxWords])
  /\ Len(turns) \in 0..MaxTurns
  /\ via \in [Consoles -> Conns \cup {NoConn}]
  /\ streaming \in [Consoles -> Seq(Turns)]
  /\ message \in [Consoles -> [by : Turns \cup {0}, words : Seq(Turns)]]
  /\ met \in SUBSET (Turns \X Turns) /\ late \in SUBSET Turns
  /\ witnessed \in Seq(SUBSET Consoles) /\ Len(witnessed) = Len(turns)
  /\ leftover \in SUBSET Consoles

-----------------------------------------------------------------------------
\* A turn that ended well and is not in the history of its open connection
\* was overwritten by a chat that was in flight with it and had read before.
Overwritten(t) ==
  \E u \in Dispatched : /\ Of(u) = Of(t) /\ Phase(u) = "stored"
                        /\ <<t, u>> \in met
                        /\ ~Contains(turns[u].read, t)

\* The copilot remembers its conversation (handlers.py:116 reads the history
\* before the model is awaited, 131 writes it after; ws.py:124 drops it): a
\* history holds turns of its own connection only, each once, in the order
\* they began; it lacks an answered turn only if one in flight with that turn
\* overwrote it; and what is left of a closed connection was stored by a chat
\* that the close overtook.
ConversationIsKept ==
  \A c \in Conns :
    /\ \A i \in DOMAIN histories[c] :
         /\ Of(histories[c][i]) = c /\ Phase(histories[c][i]) = "stored"
         /\ i > 1 => histories[c][i - 1] < histories[c][i]
    /\ conn[c] = "open" => \A t \in Dispatched :
         (Of(t) = c /\ Phase(t) = "stored") => (Contains(histories[c], t) \/ Overwritten(t))
    /\ (conn[c] = "closed" /\ histories[c] # NoHistory) => Last(histories[c]) \in late

\* A turn whose message another's words may be part of on any console: one was in
\* flight with it.
Muddled(t) == \E u \in Dispatched : <<t, u>> \in met

\* The transcript is what was answered (dispatch.ts:348-364 folds deltas by `done` alone
\* and streaming.py:80-96 sends no turn id): on a console that saw the whole chat over
\* one connection, its message is its whole answer and nobody else's words, unless
\* another chat was in flight with it.  What a turn that broke off, or the loss of a
\* connection, leaves in a bubble spoils one message, and no later one.
MessageIsOneAnswer ==
  \A b \in Consoles :
    LET m == message[b]
    IN (m # NoMessage /\ b \in witnessed[m.by] /\ ~Muddled(m.by))
         => m.words = [k \in 1..turns[m.by].said |-> m.by]

\* Inductive: turns start in the order of their dispatch and belong to a connection that
\* has been opened; two that are in flight have met; one that a close overtakes is late.
TurnsKept ==
  /\ \A t \in Dispatched : conn[Of(t)] # "new"
  /\ \A t, u \in Dispatched : t < u /\ Phase(t) = "queued" => Phase(u) = "queued"
  /\ \A t, u \in InFlight : t # u => <<t, u>> \in met
  /\ \A t \in Dispatched :
       conn[Of(t)] = "closed" /\ Phase(t) \in {"queued", "asking", "answered"} => t \in late

\* Turns of one connection that ended well, in the order they began.
Conversation(s, c) ==
  \A i \in 1 .. Len(s) :
    /\ s[i] \in Dispatched /\ Of(s[i]) = c /\ Phase(s[i]) = "stored"
    /\ i > 1 => s[i - 1] < s[i]

\* What is stored, and what a turn in flight has read, is a conversation; the turn it
\* lacks is one that was overwritten, or is in flight with the one that will overwrite it.
HistoriesKept ==
  /\ \A c \in Conns : Conversation(histories[c], c)
  /\ \A u \in InFlight :
       /\ Conversation(turns[u].read, Of(u))
       /\ \A i \in 1 .. Len(turns[u].read) : turns[u].read[i] < u
       /\ conn[Of(u)] = "open" => \A t \in Dispatched :
            Of(t) = Of(u) /\ Phase(t) = "stored" =>
              Contains(turns[u].read, t) \/ <<t, u>> \in met \/ Overwritten(t)
  /\ \A t \in Dispatched :
       conn[Of(t)] = "open" /\ Phase(t) = "stored" =>
         Contains(histories[Of(t)], t) \/ Overwritten(t)
  /\ \A c \in Conns :
       conn[c] = "closed" /\ histories[c] # NoHistory => Last(histories[c]) \in late

Own(t, s) == s = [k \in 1 .. turns[t].said |-> t]

\* What is in an open bubble is being said on a connection that lasts, or is left over; a
\* turn under way that met no other has its console's bubble to itself; a folded message
\* does not change any more.
BubblesKept ==
  /\ \A b \in Consoles \ leftover : streaming[b] # <<>> =>
       via[b] # NoConn /\ \A i \in DOMAIN streaming[b] : Phase(streaming[b][i]) = "asking"
  /\ \A b \in Consoles : \A i \in DOMAIN streaming[b] : streaming[b][i] \in Dispatched
  /\ \A b \in Consoles : via[b] # NoConn => conn[via[b]] = "open"
  /\ \A t \in Dispatched : Phase(t) = "queued" => turns[t].said = 0 /\ witnessed[t] = {}
  /\ \A t \in Dispatched : \A b \in witnessed[t] :
       Phase(t) = "asking" => via[b] # NoConn /\ (~Muddled(t) => Own(t, streaming[b]))
  /\ \A b \in Consoles : message[b] # NoMessage =>
       message[b].by \in Dispatched /\ Phase(message[b].by) \notin {"queued", "asking"}
  /\ MessageIsOneAnswer

ChatInv == TurnsKept /\ HistoriesKept /\ BubblesKept
=============================================================================
