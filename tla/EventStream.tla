------------------------------ MODULE EventStream ------------------------------
(***************************************************************************)
(* The event bus (events/bus.py), one console that follows it over /ws     *)
(* (api/ws.py), and the two sources of its presence cards: the             *)
(* DiscoveryWatcher (hardware/watcher.py), which diffs each scan against   *)
(* the last, and the scans that a user asks for (cmd.board_scan and        *)
(* POST /api/board/scan), which announce whatever answers.                 *)
(*                                                                         *)
(* A connection subscribes, gets hello and the presences as frames of      *)
(* seq 0, and only then the stream, through a bounded queue that gives up  *)
(* its oldest event.  Subscriptions share nothing, so one console stands   *)
(* for all; the socket's buffer and the wire are one FIFO.                 *)
(***************************************************************************)
EXTENDS Naturals, FiniteSets, SequencesExt

CONSTANTS Addrs,         \* I2C addresses
          QueueSize,     \* DEFAULT_QUEUE_SIZE
          WireSize,      \* frames in flight after which send_text waits
          MaxPlugs,      \* bound: devices plugged or unplugged
          MaxConns,      \* bound: connections of the console
          MaxVersions,   \* bound: commissions that pass
          MaxManual      \* bound: scans a user asks for

ASSUME StreamAssumption ==
  QueueSize \in Nat \ {0} /\ WireSize \in Nat \ {0} /\ IsFiniteSet(Addrs)

VARIABLES
  present,   \* devices that answer on the I2C bus
  known,     \* _known_addrs: the watcher's last scan
  scan,      \* the scan that holds the board: <<by, what answered>>
  asked,     \* a user's scan waits for the board
  version,   \* driver_code of one slug, 0 while it is not registered
  seq,       \* EventBus._seq: the last number stamped
  phase,     \* "down", "presences" (hello sent), "streaming"
  queue,     \* the connection's Subscription
  wire,      \* frames sent and not yet received
  view,      \* the console's store: presence cards and the driver card
  spent,     \* how much of each bound is used
  received,  \* history: the last number the console has, or seq when it subscribed
  dropped,   \* history: the subscription has dropped an event
  strays     \* history: cards that the watcher will never take down

stream == <<seq, queue, dropped>>
env == <<present, version>>
vars == <<env, known, scan, asked, stream, phase, wire, view, spent, received, strays>>

Idle == <<>>

EmptyView == [presences |-> {}, card |-> <<>>]

Init ==
  /\ present \in SUBSET Addrs
  /\ known = {}
  /\ scan = Idle /\ asked = FALSE
  /\ version = 0
  /\ seq = 0
  /\ phase = "down" /\ queue = <<>> /\ wire = <<>>
  /\ view = EmptyView
  /\ spent = [plugs |-> 0, conns |-> 0, manual |-> 0]
  /\ received = 0 /\ dropped = FALSE /\ strays = {}

Spend(what, bound) == spent[what] < bound /\ spent' = [spent EXCEPT ![what] = @ + 1]

Frame(type, key, number) == [type |-> type, key |-> key, seq |-> number]
Found(a) == Frame("device_found", a, 0)
Lost(a) == Frame("device_lost", a, 0)

\* ---------------------------------------------------------------- the bus
\* Mutant of Offer: a full queue refuses the event it is offered.
OfferKeepsOldest(q, event) == IF Len(q) = QueueSize THEN q ELSE Append(q, event)

\* Subscription._offer: a full queue gives up its oldest event.
Offer(q, event) == Append(IF Len(q) = QueueSize THEN Tail(q) ELSE q, event)

Stamped(events) == [i \in DOMAIN events |-> [events[i] EXCEPT !.seq = seq + i]]

\* The queue q when each of the events in turn has been offered to it.
Offered(q, events) ==
  LET after[n \in 0 .. Len(events)] == IF n = 0 THEN q ELSE Offer(after[n - 1], events[n])
  IN after[Len(events)]

\* EventBus.publish, once for each event, without giving up the event loop.
Publish(events) ==
  /\ seq' = seq + Len(events)
  /\ queue' = IF phase = "down" THEN queue ELSE Offered(queue, Stamped(events))
  /\ dropped' = (dropped \/ (phase # "down" /\ Len(queue) + Len(events) > QueueSize))

\* ------------------------------------------------------------ the devices
Plug(a) ==
  /\ Spend("plugs", MaxPlugs)
  /\ present' = IF a \in present THEN present \ {a} ELSE present \cup {a}
  /\ UNCHANGED <<known, scan, asked, version, stream, phase, wire, view, received, strays>>

\* The registry admits a pass: register() the first time, then update_code().
Admit ==
  /\ version < MaxVersions
  /\ version' = version + 1
  /\ Publish(<<Frame(IF version = 0 THEN "driver.registered" ELSE "driver.updated", version', 0)>>)
  /\ UNCHANGED <<present, known, scan, asked, phase, wire, view, spent, received, strays>>

\* -------------------------------------------------------------- the scans
\* scan_i2c_addresses holds the board's lock; the answer is what is plugged in then.
ScanBy(who) == scan = Idle /\ scan' = <<who, present>>

WatcherScans ==
  /\ ScanBy("watcher")
  /\ UNCHANGED <<env, known, asked, stream, phase, wire, view, spent, received, strays>>

\* Mutant of Diff: the devices that are gone are forgotten, not announced.
DiffFindsOnly(scanned) ==
  /\ Publish(SetToSeq({Found(a) : a \in scanned \ known}))
  /\ known' = scanned

\* _diff_i2c: the new addresses are announced, then those that are gone.
Diff(scanned) ==
  /\ Publish(SetToSeq({Found(a) : a \in scanned \ known}) \o
             SetToSeq({Lost(a) : a \in known \ scanned}))
  /\ known' = scanned

WatcherDiffs ==
  /\ scan # Idle /\ scan[1] = "watcher"
  /\ Diff(scan[2])
  /\ strays' = strays \ scan[2]
  /\ scan' = Idle
  /\ UNCHANGED <<env, asked, phase, wire, view, spent, received>>

\* No link, a traceback, a timeout: the watcher keeps what it knew, a user gets an error.
ScanFails ==
  /\ scan # Idle
  /\ scan' = Idle
  /\ \/ scan[1] = "watcher" /\ UNCHANGED stream
     \/ scan[1] = "user" /\ Publish(<<Frame("system.error", Idle, 0)>>)
     \/ scan[1] = "user" /\ UNCHANGED stream   \* over REST: the response says it
  /\ UNCHANGED <<env, known, asked, phase, wire, view, spent, received, strays>>

\* cmd.board_scan publishes the board's status before it waits; the REST door does not.
UserAsksForScan ==
  /\ ~asked /\ asked' = TRUE
  /\ Spend("manual", MaxManual)
  /\ Publish(<<Frame("board.status", Idle, 0)>>) \/ UNCHANGED stream
  /\ UNCHANGED <<env, known, scan, phase, wire, view, received, strays>>

UserScans ==
  /\ asked /\ asked' = FALSE
  /\ ScanBy("user")
  /\ UNCHANGED <<env, known, stream, phase, wire, view, spent, received, strays>>

\* Every address that answered is announced; the watcher is not told.
UserScanAnnounces ==
  /\ scan # Idle /\ scan[1] = "user"
  /\ Publish(SetToSeq({Found(a) : a \in scan[2]}))
  /\ strays' = IF phase = "down" THEN strays ELSE strays \cup (scan[2] \ known)
  /\ scan' = Idle
  /\ UNCHANGED <<env, known, asked, phase, wire, view, spent, received>>

\* --------------------------------------------------------- the connection
\* ws_endpoint: subscribe to the bus, then build and send hello, in one step.
Connect ==
  /\ phase = "down" /\ Spend("conns", MaxConns)
  /\ phase' = "presences" /\ received' = seq
  /\ queue' = <<>>
  /\ wire' = <<Frame("system.hello", version, 0)>>
  /\ strays' = view.presences \ known
  /\ UNCHANGED <<env, known, scan, asked, seq, dropped, view>>

\* Mutant of Presences: a console that connects waits for the next change.
PresencesNone == <<>>

\* current_presences()
Presences == SetToSeq({Found(a) : a \in known})

\* Back from sending hello: the presences of this moment, before the sender starts.
SendPresences ==
  /\ phase = "presences"
  /\ wire' = wire \o Presences
  /\ phase' = "streaming"
  /\ UNCHANGED <<env, known, scan, asked, stream, view, spent, received, strays>>

\* _send_loop
Forward ==
  /\ phase = "streaming" /\ queue # <<>> /\ Len(wire) < WireSize
  /\ wire' = Append(wire, Head(queue))
  /\ queue' = Tail(queue)
  /\ UNCHANGED <<env, known, scan, asked, seq, dropped, phase, view, spent, received, strays>>

\* The socket dies: what is in flight is lost, the sender is cancelled and the
\* subscription removed.  A reloaded page starts from an empty store.
Disconnect ==
  /\ phase # "down" /\ phase' = "down"
  /\ spent.conns < MaxConns
  /\ queue' = <<>> /\ wire' = <<>>
  /\ view' \in {view, EmptyView}
  /\ received' = 0 /\ dropped' = FALSE /\ strays' = {}
  /\ UNCHANGED <<env, known, scan, asked, seq, spent>>

\* applyEvent in the console's store.  A driver card is <<>> or <<hash>>: hello's
\* summary has no code hash (0), and driver.updated needs a card to update.
Shown(v, f) ==
  CASE f.type = "system.hello"      -> [v EXCEPT !.card = IF f.key > 0 THEN <<0>> ELSE <<>>]
    [] f.type = "device_found"      -> [v EXCEPT !.presences = @ \cup {f.key}]
    [] f.type = "device_lost"       -> [v EXCEPT !.presences = @ \ {f.key}]
    [] f.type = "driver.registered" -> [v EXCEPT !.card = <<f.key>>]
    [] f.type = "driver.updated"    -> [v EXCEPT !.card = IF @ = <<>> THEN @ ELSE <<f.key>>]
    [] OTHER                        -> v

Receive ==
  /\ wire # <<>>
  /\ wire' = Tail(wire)
  /\ view' = Shown(view, Head(wire))
  /\ received' = IF Head(wire).seq > 0 THEN Head(wire).seq ELSE received
  /\ UNCHANGED <<env, known, scan, asked, stream, phase, spent, strays>>

Next ==
  \/ \E a \in Addrs : Plug(a)
  \/ Admit \/ WatcherScans \/ WatcherDiffs \/ ScanFails
  \/ UserAsksForScan \/ UserScans \/ UserScanAnnounces
  \/ Connect \/ SendPresences \/ Forward \/ Disconnect \/ Receive

Spec == Init /\ [][Next]_vars

\* The watcher's and the sender's tasks, the socket and the console's reconnect timer
\* are never starved; a board that is asked again and again answers again and again.
Fairness ==
  /\ WF_vars(WatcherScans) /\ SF_vars(WatcherDiffs)
  /\ WF_vars(UserScans) /\ WF_vars(UserScanAnnounces)
  /\ WF_vars(Connect) /\ WF_vars(SendPresences) /\ WF_vars(Forward) /\ WF_vars(Receive)

FairSpec == Spec /\ Fairness

--------------------------------------------------------------------------------
\* What travels: presences, what concerns the one driver, and the rest.
Devices == [type : {"device_found", "device_lost"}, key : Addrs, seq : Nat]
Drivers == [type : {"system.hello", "driver.registered", "driver.updated"}, key : Nat, seq : Nat]
Notices == [type : {"board.status", "system.error"}, key : {Idle}, seq : Nat]
Frames == Devices \cup Drivers \cup Notices

\* Every variable keeps its type, and a subscription never outgrows its queue (bus.py:27).
TypeOK ==
  /\ present \subseteq Addrs /\ known \subseteq Addrs /\ strays \subseteq Addrs
  /\ scan = Idle \/ scan \in {"watcher", "user"} \X SUBSET Addrs
  /\ asked \in BOOLEAN /\ dropped \in BOOLEAN
  /\ version \in Nat /\ seq \in Nat /\ received \in 0 .. seq
  /\ phase \in {"down", "presences", "streaming"}
  /\ wire \in Seq(Frames)
  /\ queue \in Seq(Frames) /\ Len(queue) <= QueueSize
  /\ view \in [presences : SUBSET Addrs, card : Seq(Nat)]

Pending == wire \o queue

\* "Subscribe FIRST (no gap between hello and the stream)" (ws.py:4): on its way to a
\* connected console are first the frames of seq 0, then stream events in the order of
\* their numbers, the newest one never missing; while nothing was dropped they are all
\* the events since the last one received.
StreamIntact ==
  phase # "down" =>
    /\ \A i, j \in DOMAIN Pending : (i < j /\ Pending[i].seq > 0) => Pending[i].seq < Pending[j].seq
    /\ received = seq \/ (Pending # <<>> /\ Last(Pending).seq = seq)
    /\ ~dropped => {Pending[i].seq : i \in DOMAIN Pending} \ {0} = received + 1 .. seq

CardAgrees(card, v) == IF v = 0 THEN card = <<>> ELSE card \in {<<0>>, <<v>>}

CaughtUp == phase = "streaming" /\ wire = <<>> /\ queue = <<>> /\ ~dropped

\* A console that has received everything since it connected shows a driver card exactly
\* if the registry has the driver, with the hash in force if it shows one, and a presence
\* card exactly for what the watcher knows (ws.py:69-86) and for the strays: the devices
\* that were already gone when it came back, and those only a user's scan has seen.
CaughtUpConsoleAgrees ==
  CaughtUp => view.presences = known \cup strays /\ CardAgrees(view.card, version)

\* A device that stays plugged in is in the end shown by every console that stays
\* connected and loses no event, whenever it was plugged in and whenever the console
\* connected (watcher.py:78-87: "a client connecting AFTER the first scan").
PluggedIsShown ==
  \A a \in Addrs :
    <>[](a \in present /\ phase # "down" /\ ~dropped) => <>[](a \in view.presences)

--------------------------------------------------------------------------------
\* The inductive invariants behind the two safety properties.

\* Hello is the first frame, and nothing but hello is sent before the presences.
HelloFirst ==
  /\ \A i \in DOMAIN Pending :
       Pending[i].type = "system.hello" => i = 1 /\ Pending[i].seq = 0
  /\ \A i \in DOMAIN queue : queue[i].type # "system.hello"
  /\ phase = "presences" => \A i \in DOMAIN wire : wire[i].type = "system.hello"

\* What is numbered on its way is newer than what was received.
NumbersKnown == \A i \in DOMAIN Pending : Pending[i].seq \in {0} \cup (received + 1 .. seq)

Finds(f, a) == f.type = "device_found" /\ f.key = a
Loses(f, a) == f.type = "device_lost" /\ f.key = a

\* Whether a's card is up once the frames are applied to a view where it is up or not.
UpAfter(frames, up, a) ==
  \/ up /\ \A j \in 1 .. Len(frames) : ~Loses(frames[j], a)
  \/ \E i \in 1 .. Len(frames) :
       Finds(frames[i], a) /\ \A j \in i + 1 .. Len(frames) : ~Loses(frames[j], a)

\* A console that loses nothing will show what the watcher knows and the strays; the
\* presences that connecting has not sent yet will be those of the watcher.
UpNow(a) == a \in view.presences \/ (phase = "presences" /\ a \in known)
PresencesKept ==
  /\ known \cap strays = {}
  /\ ~dropped => \A a \in Addrs : a \in known \cup strays <=> UpAfter(Pending, UpNow(a), a)

OfDriver(f) == f.type \in {"system.hello", "driver.registered", "driver.updated"}

\* The frames bring a card to version v: the last of them that is about the driver has
\* that version, and an update always finds a card, which hello, a registration before
\* it or the view itself provides.
CardKept(frames, card, v) ==
  /\ (\A i \in DOMAIN frames : ~OfDriver(frames[i])) => CardAgrees(card, v)
  /\ \A i \in DOMAIN frames :
       OfDriver(frames[i]) /\ (\A j \in DOMAIN frames : j > i => ~OfDriver(frames[j])) =>
         frames[i].key = v
  /\ \A i \in DOMAIN frames : frames[i].type = "driver.registered" => frames[i].key > 0
  /\ \A i \in DOMAIN frames : frames[i].type = "driver.updated" =>
       /\ frames[i].key > 0
       /\ \/ \E j \in DOMAIN frames : j < i /\ frames[j].type = "driver.registered"
          \/ \E j \in DOMAIN frames : frames[j].type = "system.hello" /\ frames[j].key > 0
          \/ card # <<>> /\ \A j \in DOMAIN frames : frames[j].type # "system.hello"

CardsKept == ~dropped => CardKept(Pending, view.card, version)

\* Nothing is on its way to a console that is not connected.
StreamInv ==
  /\ phase = "down" => wire = <<>> /\ queue = <<>>
  /\ phase # "down" => StreamIntact /\ HelloFirst /\ NumbersKnown /\ PresencesKept /\ CardsKept
================================================================================
