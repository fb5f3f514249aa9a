-------------------------- MODULE CopilotChatProofs --------------------------
(***************************************************************************)
(* A history loses a turn only to one in flight with it, and a message is  *)
(* one whole answer unless it is muddled: for any consoles and connections *)
(* any number of turns and words, and of crashes and reconnections.  What  *)
(* carries both is the order in which tasks start and the record of who    *)
(* was in flight with whom (TurnsKept).                                    *)
(***************************************************************************)
EXTENDS CopilotChat, SequenceTheorems, TLAPS

Turn == [of : Conns, phase : Phases, read : Seq(Turns), said : 0 .. MaxWords]
Flying == {"asking", "answered"}

LEMMA Bounds == MaxTurns \in Nat /\ MaxWords \in Nat
BY ChatAssumption

\* A turn is a number, and its record is typed.
LEMMA TurnTypes ==
  ASSUME TypeOK
  PROVE  /\ turns \in Seq(Turn) /\ Len(turns) \in Nat /\ Dispatched = 1 .. Len(turns)
         /\ \A t \in Dispatched :
              /\ t \in Turns /\ t \in Nat /\ turns[t] \in Turn
              /\ turns[t].of \in Conns /\ turns[t].phase \in Phases
              /\ turns[t].read \in Seq(Turns) /\ turns[t].said \in 0 .. MaxWords
         /\ witnessed \in Seq(SUBSET Consoles) /\ DOMAIN witnessed = Dispatched
<1>1. turns \in Seq(Turn) /\ Len(turns) \in 0 .. MaxTurns BY DEF TypeOK, Turn
<1>2. Len(turns) \in Nat /\ Dispatched = 1 .. Len(turns) BY <1>1 DEF Dispatched
<1>3. witnessed \in Seq(SUBSET Consoles) /\ DOMAIN witnessed = Dispatched BY <1>2 DEF TypeOK
<1>4. ASSUME NEW t \in Dispatched
      PROVE  /\ t \in Turns /\ t \in Nat /\ turns[t] \in Turn
             /\ turns[t].of \in Conns /\ turns[t].phase \in Phases
             /\ turns[t].read \in Seq(Turns) /\ turns[t].said \in 0 .. MaxWords
  <2>1. t \in Turns /\ t \in Nat BY <1>1, <1>2, Bounds DEF Turns
  <2>2. turns[t] \in Turn BY <1>1, <1>2
  <2> QED BY <2>1, <2>2 DEF Turn
<1> QED BY <1>1, <1>2, <1>3, <1>4

-----------------------------------------------------------------------------
\* One turn moves on to another phase; the others stay as they are.
Moves(t, how) ==
  /\ turns' \in Seq(Turn) /\ Len(turns') = Len(turns) /\ Dispatched' = Dispatched
  /\ turns'[t].phase = how
  /\ \A u \in Dispatched : turns'[u].of = turns[u].of /\ (u # t => turns'[u] = turns[u])

LEMMA Rewrites ==
  ASSUME TypeOK, NEW t \in Dispatched, NEW r \in Turn, r.of = turns[t].of,
         turns' = [turns EXCEPT ![t] = r]
  PROVE  Moves(t, r.phase) /\ turns'[t] = r
<1>1. turns \in Seq(Turn) /\ Len(turns) \in Nat /\ Dispatched = 1 .. Len(turns) BY TurnTypes
<1>2. turns' \in Seq(Turn) /\ Len(turns') = Len(turns) BY <1>1
<1>3. Dispatched' = Dispatched BY <1>1, <1>2 DEF Dispatched
<1>4. turns'[t] = r /\ \A u \in Dispatched : u # t => turns'[u] = turns[u] BY <1>1
<1> QED BY <1>2, <1>3, <1>4 DEF Moves

LEMMA EndsMoves ==
  ASSUME TypeOK, NEW t \in Dispatched, NEW how \in Phases, Ends(t, how)
  PROVE  Moves(t, how) /\ turns'[t].read = turns[t].read /\ turns'[t].said = turns[t].said
<1> DEFINE r == [turns[t] EXCEPT !.phase = how]
<1>1. turns[t] \in Turn BY TurnTypes
<1>2. /\ r \in Turn /\ r.of = turns[t].of /\ r.phase = how
      /\ r.read = turns[t].read /\ r.said = turns[t].said
  BY <1>1 DEF Turn
<1>3. turns' = [turns EXCEPT ![t] = r] BY DEF Ends
<1> HIDE DEF r
<1> QED BY <1>2, <1>3, Rewrites

LEMMA BeginMoves ==
  ASSUME TypeOK, NEW t \in Dispatched, Begin(t)
  PROVE  /\ Moves(t, "asking") /\ turns'[t].read = histories[Of(t)]
         /\ turns'[t].said = turns[t].said
<1> DEFINE r == [turns[t] EXCEPT !.phase = "asking", !.read = histories[Of(t)]]
<1>1. turns[t] \in Turn /\ histories[Of(t)] \in Seq(Turns) BY TurnTypes DEF TypeOK, Of
<1>2. /\ r \in Turn /\ r.of = turns[t].of /\ r.phase = "asking"
      /\ r.read = histories[Of(t)] /\ r.said = turns[t].said
  BY <1>1 DEF Turn, Phases
<1>3. turns' = [turns EXCEPT ![t] = r] BY DEF Begin, Read
<1> HIDE DEF r
<1> QED BY <1>2, <1>3, Rewrites

LEMMA SaysMoves ==
  ASSUME TypeOK, NEW t \in Dispatched, Says(t)
  PROVE  /\ Moves(t, "asking") /\ turns'[t].read = turns[t].read
         /\ turns'[t].said = turns[t].said + 1
<1> DEFINE r == [turns[t] EXCEPT !.said = @ + 1]
<1>1. turns[t] \in Turn /\ turns[t].said + 1 \in 0 .. MaxWords /\ turns[t].phase = "asking"
  BY TurnTypes, Bounds DEF Says, Phase
<1>2. /\ r \in Turn /\ r.of = turns[t].of /\ r.phase = "asking"
      /\ r.read = turns[t].read /\ r.said = turns[t].said + 1
  BY <1>1 DEF Turn
<1>3. turns' = [turns EXCEPT ![t] = r] BY DEF Says
<1> HIDE DEF r
<1> QED BY <1>2, <1>3, Rewrites

\* One turn more.
LEMMA DispatchAdds ==
  ASSUME TypeOK, NEW c \in Conns, Dispatch(c)
  PROVE  LET n == Len(turns) + 1
         IN /\ turns' \in Seq(Turn) /\ Len(turns') = n /\ n \in Turns /\ n \notin Dispatched
            /\ Dispatched' = Dispatched \cup {n}
            /\ \A u \in Dispatched : turns'[u] = turns[u] /\ u < n
            /\ turns'[n].of = c /\ turns'[n].phase = "queued" /\ turns'[n].said = 0
            /\ witnessed' \in Seq(SUBSET Consoles) /\ Len(witnessed') = n
            /\ witnessed'[n] = {} /\ \A u \in Dispatched : witnessed'[u] = witnessed[u]
<1> DEFINE n == Len(turns) + 1
<1>1. turns \in Seq(Turn) /\ Len(turns) \in Nat /\ Dispatched = 1 .. Len(turns)
      /\ witnessed \in Seq(SUBSET Consoles) /\ DOMAIN witnessed = Dispatched
  BY TurnTypes
<1>2. NewTurn(c) \in Turn BY Bounds DEF NewTurn, Turn, Phases, NoHistory
<1>3. turns' = Append(turns, NewTurn(c)) /\ witnessed' = Append(witnessed, {}) /\ Len(turns) < MaxTurns
  BY DEF Dispatch
<1>4. /\ turns' \in Seq(Turn) /\ Len(turns') = n
      /\ \A u \in Dispatched : turns'[u] = turns[u] /\ u < n
      /\ turns'[n] = NewTurn(c)
  BY <1>1, <1>2, <1>3
<1>5. Len(witnessed) = Len(turns) BY <1>1 DEF TypeOK
<1>6. /\ witnessed' \in Seq(SUBSET Consoles) /\ Len(witnessed') = n
      /\ witnessed'[n] = {} /\ \A u \in Dispatched : witnessed'[u] = witnessed[u]
  BY <1>1, <1>3, <1>5
<1>7. n \in Turns /\ n \notin Dispatched BY <1>1, <1>3, Bounds DEF Turns
<1>8. Dispatched' = Dispatched \cup {n}
  <2>1. Dispatched' = 1 .. n BY <1>1, <1>4 DEF Dispatched
  <2> QED BY <1>1, <2>1
<1>9. turns'[n].of = c /\ turns'[n].phase = "queued" /\ turns'[n].said = 0
  BY <1>4 DEF NewTurn
<1> QED BY <1>4, <1>6, <1>7, <1>8, <1>9

-----------------------------------------------------------------------------
\* A turn ends badly: it did not start, or its run raised.
Fails(t) ==
  /\ t \in Dispatched /\ (Starts(t) \/ Phase(t) = "asking")
  /\ \E how \in {"crashed", "unavailable"} :
       Moves(t, how) /\ (how = "unavailable" => Starts(t))
  /\ turns'[t].read = turns[t].read /\ turns'[t].said = turns[t].said
  /\ UNCHANGED <<keyed, conn, via, histories, met, late, witnessed, streaming, message>>
  /\ leftover \subseteq leftover' /\ leftover' \subseteq Consoles
  /\ Phase(t) = "asking" => \A b \in Consoles \ leftover' : ~Contains(streaming[b], t)

Opens(c) == \E b \in Consoles : Connect(b, c)

\* What a step is.
LEMMA Cases ==
  ASSUME TypeOK, [Next]_vars
  PROVE  \/ \E c \in Conns : Opens(c) \/ Dispatch(c) \/ Hangup(c) \/ Forget(c)
         \/ \E b \in Consoles : Drop(b)
         \/ \E t \in Dispatched : Begin(t) \/ Says(t) \/ Answered(t) \/ Store(t) \/ Fails(t)
         \/ UNCHANGED vars
<1>1. ASSUME NEW t \in Dispatched, Malformed(t) PROVE Fails(t)
  <2>1. Ends(t, "crashed") /\ Starts(t) BY <1>1 DEF Malformed
  <2>2. Moves(t, "crashed") /\ turns'[t].read = turns[t].read /\ turns'[t].said = turns[t].said
    BY <2>1, EndsMoves DEF Phases
  <2> QED BY <1>1, <2>1, <2>2 DEF Malformed, Fails, store, Starts, TypeOK
<1>2. ASSUME NEW t \in Dispatched, NoModel(t) PROVE Fails(t)
  <2>1. Ends(t, "unavailable") /\ Starts(t) BY <1>2 DEF NoModel
  <2>2. Moves(t, "unavailable") /\ turns'[t].read = turns[t].read /\ turns'[t].said = turns[t].said
    BY <2>1, EndsMoves DEF Phases
  <2> QED BY <1>2, <2>1, <2>2 DEF NoModel, Fails, store, Starts, TypeOK
<1>3. ASSUME NEW t \in Dispatched, Crash(t) PROVE Fails(t)
  <2>1. Ends(t, "crashed") /\ Phase(t) = "asking" BY <1>3 DEF Crash
  <2>2. Moves(t, "crashed") /\ turns'[t].read = turns[t].read /\ turns'[t].said = turns[t].said
    BY <2>1, EndsMoves DEF Phases
  <2> QED BY <1>3, <2>1, <2>2 DEF Crash, Fails, TypeOK
<1>4. CASE Next BY <1>1, <1>2, <1>3, <1>4 DEF Next, Opens
<1> QED BY <1>4

\* What the two remaining ends of a turn do to it.
LEMMA AnsweredMoves ==
  ASSUME TypeOK, NEW t \in Dispatched, Answered(t)
  PROVE  /\ Moves(t, "answered") /\ turns'[t].read = turns[t].read
         /\ turns'[t].said = turns[t].said
BY EndsMoves DEF Answered, Phases

LEMMA StoreMoves ==
  ASSUME TypeOK, NEW t \in Dispatched, Store(t)
  PROVE  /\ Moves(t, "stored") /\ turns'[t].read = turns[t].read
         /\ turns'[t].said = turns[t].said
BY EndsMoves DEF Store, Phases

-----------------------------------------------------------------------------
\* Types.
LEMMA InitType == Init => TypeOK
BY Bounds DEF Init, TypeOK, NoHistory, NoMessage

\* The types of the turns after a move.
LEMMA MovesTypes ==
  ASSUME TypeOK, NEW t \in Dispatched, NEW how, Moves(t, how)
  PROVE  /\ turns' \in Seq([of : Conns, phase : Phases, read : Seq(Turns), said : 0 .. MaxWords])
         /\ Len(turns') \in 0 .. MaxTurns /\ Len(turns') = Len(turns)
BY DEF Moves, Turn, TypeOK

LEMMA TypeStep == TypeOK /\ [Next]_vars => TypeOK'
<1> SUFFICES ASSUME TypeOK, [Next]_vars PROVE TypeOK' OBVIOUS
<1>1. ASSUME NEW c \in Conns, Opens(c) \/ Hangup(c) PROVE TypeOK'
  <2>1. UNCHANGED <<keyed, server, store>> BY <1>1 DEF Opens, Connect, Hangup
  <2>2. conn' \in [Conns -> {"new", "open", "closing", "closed"}]
    BY <1>1 DEF Opens, Connect, Hangup, TypeOK
  <2>3. via' \in [Consoles -> Conns \cup {NoConn}] BY <1>1 DEF Opens, Connect, Hangup, TypeOK
  <2> QED BY <2>1, <2>2, <2>3 DEF server, store, TypeOK
<1>0. ASSUME NEW b \in Consoles, Drop(b) PROVE TypeOK'
  <2>1. witnessed \in Seq(SUBSET Consoles) BY DEF TypeOK
  <2> DEFINE W(t) == IF Phase(t) = "asking" THEN witnessed[t] \ {b} ELSE witnessed[t]
  <2>2. witnessed' = [t \in 1 .. Len(witnessed) |-> W(t)] BY <1>0, <2>1 DEF Drop
  <2>3. \A t \in 1 .. Len(witnessed) : W(t) \in SUBSET Consoles BY <2>1
  <2> HIDE DEF W
  <2>4. witnessed' \in Seq(SUBSET Consoles) /\ Len(witnessed') = Len(witnessed)
    BY <2>1, <2>2, <2>3
  <2> QED BY <1>0, <2>4 DEF Drop, TypeOK
<1>2. ASSUME NEW c \in Conns, Dispatch(c) PROVE TypeOK'
  <2> DEFINE n == Len(turns) + 1
  <2>1. /\ turns' \in Seq([of : Conns, phase : Phases, read : Seq(Turns), said : 0 .. MaxWords])
        /\ Len(turns') = n /\ n \in Turns
        /\ witnessed' \in Seq(SUBSET Consoles) /\ Len(witnessed') = n
    BY <1>2, DispatchAdds DEF Turn
  <2>2. n \in 0 .. MaxTurns BY <2>1, Bounds DEF Turns
  <2> QED BY <1>2, <2>1, <2>2 DEF Dispatch, store, TypeOK
<1>3. ASSUME NEW c \in Conns, Forget(c) PROVE TypeOK'
  <2>1. histories' \in [Conns -> Seq(Turns)] BY <1>3 DEF Forget, NoHistory, TypeOK
  <2>2. late' \in SUBSET Turns BY <1>3, TurnTypes DEF Forget, TypeOK
  <2> QED BY <1>3, <2>1, <2>2 DEF Forget, store, TypeOK
<1>4. ASSUME NEW t \in Dispatched, Begin(t) PROVE TypeOK'
  <2>1. Moves(t, "asking") BY <1>4, BeginMoves
  <2>2. met' \in SUBSET (Turns \X Turns)
    <3>1. \A u \in InFlight : u \in Turns /\ t \in Turns BY TurnTypes DEF InFlight
    <3> QED BY <1>4, <3>1 DEF Begin, TypeOK
  <2>3. witnessed' \in Seq(SUBSET Consoles) /\ Len(witnessed') = Len(witnessed)
    <3>1. Listening \ leftover \in SUBSET Consoles BY DEF Listening
    <3>2. witnessed' = [witnessed EXCEPT ![t] = Listening \ leftover] BY <1>4 DEF Begin
    <3>3. witnessed \in Seq(SUBSET Consoles) /\ t \in 1 .. Len(witnessed) BY TurnTypes
    <3> QED BY <3>1, <3>2, <3>3, ExceptSeq
  <2> QED BY <1>4, <2>1, <2>2, <2>3, MovesTypes DEF Begin, store, TypeOK
<1>5. ASSUME NEW t \in Dispatched, Says(t) PROVE TypeOK'
  <2>1. Moves(t, "asking") BY <1>5, SaysMoves
  <2>2. streaming' \in [Consoles -> Seq(Turns)]
    <3>1. t \in Turns BY TurnTypes
    <3>2. \A b \in Consoles : Append(streaming[b], t) \in Seq(Turns) BY <3>1 DEF TypeOK
    <3> QED BY <1>5, <3>2 DEF Says, TypeOK
  <2> QED BY <1>5, <2>1, <2>2, MovesTypes DEF Says, TypeOK
<1>6. ASSUME NEW t \in Dispatched, Answered(t) PROVE TypeOK'
  <2>1. Moves(t, "answered") BY <1>6, AnsweredMoves
  <2>2. t \in Turns BY TurnTypes
  <2>3. message' \in [Consoles -> [by : Turns \cup {0}, words : Seq(Turns)]]
    BY <1>6, <2>2 DEF Answered, Folded, TypeOK
  <2>4. streaming' \in [Consoles -> Seq(Turns)] BY <1>6 DEF Answered, TypeOK
  <2> QED BY <1>6, <2>1, <2>3, <2>4, MovesTypes DEF Answered, TypeOK
<1>7. ASSUME NEW t \in Dispatched, Store(t) PROVE TypeOK'
  <2>1. Moves(t, "stored") BY <1>7, StoreMoves
  <2>2. histories' \in [Conns -> Seq(Turns)]
    <3>1. Append(turns[t].read, t) \in Seq(Turns)
      <4>1. t \in Turns /\ turns[t].read \in Seq(Turns) BY TurnTypes
      <4> QED BY <4>1
    <3> QED BY <1>7, <3>1 DEF Store, TypeOK
  <2> QED BY <1>7, <2>1, <2>2, MovesTypes DEF Store, store, TypeOK
<1>8. ASSUME NEW t \in Dispatched, Fails(t) PROVE TypeOK'
  <2>1. PICK how \in {"crashed", "unavailable"} : Moves(t, how) BY <1>8 DEF Fails
  <2> QED BY <1>8, <2>1, MovesTypes DEF Fails, TypeOK
<1>9. CASE UNCHANGED vars
  BY <1>9 DEF vars, server, store, TypeOK
<1> QED BY <1>0, <1>1, <1>2, <1>3, <1>4, <1>5, <1>6, <1>7, <1>8, <1>9, Cases

\* Every state is typed: a history and an open bubble are sequences of turns (api/state.py:34).
THEOREM TypeCorrect == Spec => []TypeOK
BY InitType, TypeStep, PTL DEF Spec

-----------------------------------------------------------------------------
\* Turns start in order, and those in flight have met.
Waiting == {"queued", "asking", "answered"}

LEMMA TurnsInit == Init => TurnsKept
BY DEF Init, TurnsKept, InFlight, Dispatched

\* A turn that starts or goes on disturbs neither the order nor the record of who met.
LEMMA TurnsMove ==
  ASSUME TypeOK, TurnsKept, NEW t \in Dispatched, NEW how, Moves(t, how), how # "queued",
         Starts(t) \/ Phase(t) \in Flying, UNCHANGED <<conn, late>>, met \subseteq met',
         how \in Flying /\ Phase(t) \notin Flying =>
           \A u \in InFlight : <<t, u>> \in met' /\ <<u, t>> \in met'
  PROVE  TurnsKept'
<1>1. /\ Dispatched' = Dispatched /\ turns'[t].phase = how
      /\ \A u \in Dispatched : turns'[u].of = turns[u].of /\ (u # t => turns'[u] = turns[u])
  BY DEF Moves
<1>2. Phase(t) \in Waiting BY DEF Starts, Flying, Waiting
<1>3. \A u \in Dispatched : conn'[turns'[u].of] # "new" BY <1>1 DEF TurnsKept, Of
<1>4. ASSUME NEW u \in Dispatched, NEW v \in Dispatched, u < v, turns'[u].phase = "queued"
      PROVE  turns'[v].phase = "queued"
  <2>1. u # t /\ turns[u].phase = "queued" BY <1>1, <1>4
  <2>2. turns[v].phase = "queued" BY <1>4, <2>1 DEF TurnsKept, Phase
  <2>3. CASE v = t BY <1>4, <2>1, <2>2, <2>3 DEF Starts, Phase, Flying
  <2> QED BY <1>1, <2>2, <2>3
<1>5. ASSUME NEW u \in Dispatched, NEW v \in Dispatched, u # v,
             turns'[u].phase \in Flying, turns'[v].phase \in Flying
      PROVE  <<u, v>> \in met'
  <2>1. CASE u # t /\ v # t BY <1>1, <1>5, <2>1 DEF TurnsKept, InFlight, Phase, Flying
  <2>2. CASE u = t
    <3>1. v \in InFlight /\ how \in Flying BY <1>1, <1>5, <2>2 DEF InFlight, Phase, Flying
    <3>2. CASE Phase(t) \in Flying BY <1>5, <2>2, <3>1, <3>2 DEF TurnsKept, InFlight, Flying
    <3> QED BY <2>2, <3>1, <3>2
  <2>3. CASE v = t
    <3>1. u \in InFlight /\ how \in Flying BY <1>1, <1>5, <2>3 DEF InFlight, Phase, Flying
    <3>2. CASE Phase(t) \in Flying BY <1>5, <2>3, <3>1, <3>2 DEF TurnsKept, InFlight, Flying
    <3> QED BY <2>3, <3>1, <3>2
  <2> QED BY <2>1, <2>2, <2>3
<1>6. ASSUME NEW u \in Dispatched, conn'[turns'[u].of] = "closed", turns'[u].phase \in Waiting
      PROVE  u \in late'
  <2>1. Phase(u) \in Waiting BY <1>1, <1>2, <1>6 DEF Phase
  <2> QED BY <1>1, <1>6, <2>1 DEF TurnsKept, Of, Waiting
<1> QED BY <1>1, <1>3, <1>4, <1>5, <1>6 DEF TurnsKept, InFlight, Of, Phase, Flying, Waiting

\* A connection opens, hangs up or is forgotten: its turns stay as they are.
LEMMA TurnsConn ==
  ASSUME TypeOK, TurnsKept, NEW c \in Conns, Opens(c) \/ Hangup(c) \/ Forget(c)
  PROVE  TurnsKept'
<1>1. /\ turns' = turns /\ met' = met /\ Dispatched' = Dispatched /\ late \subseteq late'
      /\ \A d \in Conns : d # c => conn'[d] = conn[d]
      /\ conn'[c] # "new" /\ conn \in [Conns -> {"new", "open", "closing", "closed"}]
  BY DEF Opens, Connect, Hangup, Forget, server, store, Dispatched, TypeOK
<1>2. \A u \in Dispatched : turns[u].of \in Conns BY TurnTypes
<1>3. ASSUME NEW u \in Dispatched PROVE conn'[turns[u].of] # "new"
  BY <1>1, <1>2 DEF TurnsKept, Of
<1>4. ASSUME NEW u \in Dispatched, conn'[turns[u].of] = "closed", turns[u].phase \in Waiting
      PROVE  u \in late'
  <2>1. CASE conn[turns[u].of] = "closed" BY <1>1, <1>4, <2>1 DEF TurnsKept, Of, Phase, Waiting
  <2>2. CASE conn[turns[u].of] # "closed"
    <3>1. turns[u].of = c /\ conn'[c] = "closed" BY <1>1, <1>2, <1>4, <2>2
    <3>2. Forget(c) BY <1>1, <3>1 DEF Opens, Connect, Hangup, TypeOK
    <3> QED BY <1>4, <3>1, <3>2 DEF Forget, Of, Phase, Waiting
  <2> QED BY <2>1, <2>2
<1> QED BY <1>1, <1>3, <1>4 DEF TurnsKept, InFlight, Of, Phase, Waiting

LEMMA TurnsDispatch ==
  ASSUME TypeOK, TurnsKept, NEW c \in Conns, Dispatch(c)
  PROVE  TurnsKept'
<1> DEFINE n == Len(turns) + 1
<1>1. /\ n \notin Dispatched /\ Dispatched' = Dispatched \cup {n}
      /\ \A u \in Dispatched : turns'[u] = turns[u] /\ u < n
      /\ turns'[n].of = c /\ turns'[n].phase = "queued"
  BY DispatchAdds
<1>2. n \in Nat /\ \A u \in Dispatched : u \in Nat BY TurnTypes
<1>3. UNCHANGED <<conn, met, late>> /\ conn[c] = "open" BY DEF Dispatch
<1> HIDE DEF n
<1>4. \A u, v \in Dispatched' : u < v /\ turns'[u].phase = "queued" => turns'[v].phase = "queued"
  <2> SUFFICES ASSUME NEW u \in Dispatched', NEW v \in Dispatched', u < v,
                      turns'[u].phase = "queued", v # n
               PROVE  turns'[v].phase = "queued"
    BY <1>1
  <2>1. u # n BY <1>1, <1>2
  <2> QED BY <1>1, <2>1 DEF TurnsKept, Phase
<1>5. ASSUME NEW u \in Dispatched', NEW v \in Dispatched', u # v,
             turns'[u].phase \in Flying, turns'[v].phase \in Flying
      PROVE  <<u, v>> \in met'
  <2>1. u # n /\ v # n BY <1>1, <1>5 DEF Flying
  <2> QED BY <1>1, <1>3, <1>5, <2>1 DEF TurnsKept, InFlight, Phase, Flying
<1>6. ASSUME NEW u \in Dispatched'
      PROVE  /\ conn'[turns'[u].of] # "new"
             /\ conn'[turns'[u].of] = "closed" /\ turns'[u].phase \in Waiting => u \in late'
  <2>1. CASE u = n BY <1>1, <1>3, <2>1
  <2>2. CASE u # n BY <1>1, <1>3, <2>2 DEF TurnsKept, Of, Phase, Waiting
  <2> QED BY <2>1, <2>2
<1> QED BY <1>4, <1>5, <1>6 DEF TurnsKept, InFlight, Of, Phase, Flying, Waiting

LEMMA TurnsStep == TypeOK /\ TurnsKept /\ [Next]_vars => TurnsKept'
<1> SUFFICES ASSUME TypeOK, TurnsKept, [Next]_vars PROVE TurnsKept' OBVIOUS
<1>1. ASSUME NEW c \in Conns, Opens(c) \/ Dispatch(c) \/ Hangup(c) \/ Forget(c)
      PROVE  TurnsKept'
  BY <1>1, TurnsConn, TurnsDispatch
<1>2. ASSUME NEW t \in Dispatched, Begin(t) PROVE TurnsKept'
  <2>1. Moves(t, "asking") BY <1>2, BeginMoves
  <2>2. /\ UNCHANGED <<conn, late>> /\ met \subseteq met' /\ Starts(t)
        /\ \A u \in InFlight : <<t, u>> \in met' /\ <<u, t>> \in met'
    BY <1>2 DEF Begin
  <2> QED BY <2>1, <2>2, TurnsMove
<1>3. ASSUME NEW t \in Dispatched, Says(t) PROVE TurnsKept'
  <2>1. Moves(t, "asking") BY <1>3, SaysMoves
  <2>2. UNCHANGED <<conn, late, met>> /\ Phase(t) \in Flying BY <1>3 DEF Says, Flying
  <2> QED BY <2>1, <2>2, TurnsMove
<1>4. ASSUME NEW t \in Dispatched, Answered(t) PROVE TurnsKept'
  <2>1. Moves(t, "answered") BY <1>4, AnsweredMoves
  <2>2. UNCHANGED <<conn, late, met>> /\ Phase(t) \in Flying BY <1>4 DEF Answered, Flying
  <2> QED BY <2>1, <2>2, TurnsMove
<1>5. ASSUME NEW t \in Dispatched, Store(t) PROVE TurnsKept'
  <2>1. Moves(t, "stored") BY <1>5, StoreMoves
  <2>2. UNCHANGED <<conn, late, met>> /\ Phase(t) \in Flying BY <1>5 DEF Store, Flying
  <2> QED BY <2>1, <2>2, TurnsMove
<1>6. ASSUME NEW t \in Dispatched, Fails(t) PROVE TurnsKept'
  <2>1. PICK how \in {"crashed", "unavailable"} : Moves(t, how) BY <1>6 DEF Fails
  <2>2. UNCHANGED <<conn, late, met>> /\ (Starts(t) \/ Phase(t) \in Flying)
    BY <1>6 DEF Fails, Flying
  <2> QED BY <2>1, <2>2, TurnsMove DEF Flying
<1>7. CASE UNCHANGED vars
  BY <1>7 DEF vars, server, TurnsKept, InFlight, Dispatched, Of, Phase
<1>8. ASSUME NEW b \in Consoles, Drop(b) PROVE TurnsKept'
  BY <1>8 DEF Drop, TurnsKept, InFlight, Dispatched, Of, Phase
<1> QED BY <1>8, <1>1, <1>2, <1>3, <1>4, <1>5, <1>6, <1>7, Cases

-----------------------------------------------------------------------------
\* What no step undoes: a turn stays its connection's, and one that has ended as it is.
Ended == {"stored", "crashed", "unavailable"}

Lasts ==
  /\ Dispatched \subseteq Dispatched' /\ met \subseteq met' /\ late \subseteq late'
  /\ \A u \in Dispatched : /\ turns'[u].of = turns[u].of
                           /\ turns[u].phase \in Ended => turns'[u] = turns[u]

LEMMA MovesLast ==
  ASSUME NEW t \in Dispatched, NEW how, Moves(t, how), turns[t].phase \notin Ended,
         met \subseteq met', late \subseteq late'
  PROVE  Lasts
BY DEF Moves, Lasts

LEMMA EveryStepLasts ==
  ASSUME TypeOK, [Next]_vars
  PROVE  Lasts
<1>1. ASSUME NEW c \in Conns, Opens(c) \/ Hangup(c) \/ Forget(c) PROVE Lasts
  BY <1>1 DEF Opens, Connect, Hangup, Forget, server, Lasts, Dispatched
<1>2. ASSUME NEW c \in Conns, Dispatch(c) PROVE Lasts
  BY <1>2, DispatchAdds DEF Dispatch, Lasts
<1>3. ASSUME NEW t \in Dispatched, Begin(t) PROVE Lasts
  BY <1>3, BeginMoves, MovesLast DEF Begin, Starts, Phase, Ended
<1>4. ASSUME NEW t \in Dispatched, Says(t) PROVE Lasts
  BY <1>4, SaysMoves, MovesLast DEF Says, Phase, Ended
<1>5. ASSUME NEW t \in Dispatched, Answered(t) PROVE Lasts
  BY <1>5, AnsweredMoves, MovesLast DEF Answered, Phase, Ended
<1>6. ASSUME NEW t \in Dispatched, Store(t) PROVE Lasts
  BY <1>6, StoreMoves, MovesLast DEF Store, Phase, Ended
<1>7. ASSUME NEW t \in Dispatched, Fails(t) PROVE Lasts
  BY <1>7, MovesLast DEF Fails, Starts, Phase, Ended
<1>8. CASE UNCHANGED vars
  BY <1>8 DEF vars, server, Lasts, Dispatched
<1>9. ASSUME NEW b \in Consoles, Drop(b) PROVE Lasts
  BY <1>9 DEF Drop, Lasts, Dispatched
<1> QED BY <1>9, <1>1, <1>2, <1>3, <1>4, <1>5, <1>6, <1>7, <1>8, Cases

-----------------------------------------------------------------------------
\* Conversation and Overwritten of the turns T and the record M of who met.
Talk(s, c, T) ==
  \A i \in 1 .. Len(s) :
    /\ s[i] \in DOMAIN T /\ T[s[i]].of = c /\ T[s[i]].phase = "stored"
    /\ i > 1 => s[i - 1] < s[i]

Lost(t, T, M) ==
  \E u \in DOMAIN T : /\ T[u].of = T[t].of /\ T[u].phase = "stored"
                      /\ <<t, u>> \in M /\ ~Contains(T[u].read, t)

\* The four parts of HistoriesKept, of any state.
StoredKept(H, T) == \A c \in Conns : Talk(H[c], c, T)

ReadKept(T, K, M) ==
  \A u \in DOMAIN T : T[u].phase \in Flying =>
    /\ Talk(T[u].read, T[u].of, T)
    /\ \A i \in 1 .. Len(T[u].read) : T[u].read[i] < u
    /\ K[T[u].of] = "open" => \A t \in DOMAIN T :
         T[t].of = T[u].of /\ T[t].phase = "stored" =>
           Contains(T[u].read, t) \/ <<t, u>> \in M \/ Lost(t, T, M)

KnownKept(H, T, K, M) ==
  \A t \in DOMAIN T :
    K[T[t].of] = "open" /\ T[t].phase = "stored" =>
      Contains(H[T[t].of], t) \/ Lost(t, T, M)

LateKept(H, K, L) ==
  \A c \in Conns : K[c] = "closed" /\ H[c] # NoHistory => Last(H[c]) \in L

LEMMA HistoriesNow ==
  HistoriesKept <=> /\ StoredKept(histories, turns) /\ ReadKept(turns, conn, met)
                    /\ KnownKept(histories, turns, conn, met) /\ LateKept(histories, conn, late)
BY DEF HistoriesKept, Conversation, Overwritten, StoredKept, ReadKept, KnownKept, LateKept,
       Talk, Lost, InFlight, Dispatched, Of, Phase, Flying

LEMMA HistoriesNext ==
  HistoriesKept' <=> /\ StoredKept(histories', turns') /\ ReadKept(turns', conn', met')
                     /\ KnownKept(histories', turns', conn', met')
                     /\ LateKept(histories', conn', late')
BY DEF HistoriesKept, Conversation, Overwritten, StoredKept, ReadKept, KnownKept, LateKept,
       Talk, Lost, InFlight, Dispatched, Of, Phase, Flying

\* What has ended stays a conversation, and what is lost stays lost.
LEMMA TalkLasts ==
  ASSUME Lasts, NEW s, NEW c, Talk(s, c, turns)
  PROVE  Talk(s, c, turns')
BY DEF Lasts, Talk, Dispatched, Ended

LEMMA LostLasts ==
  ASSUME Lasts, NEW t \in Dispatched, Lost(t, turns, met)
  PROVE  Lost(t, turns', met')
BY DEF Lasts, Lost, Dispatched, Ended

-----------------------------------------------------------------------------
\* The histories.
LEMMA HistoriesInit == Init => HistoriesKept
BY DEF Init, HistoriesKept, Conversation, InFlight, Dispatched, NoHistory

\* A step that stores nothing, reads nothing and closes nothing.
LEMMA HistoriesQuiet ==
  ASSUME TypeOK, HistoriesKept, Lasts, histories' = histories,
         \A u \in Dispatched' : turns'[u].phase = "stored" =>
           u \in Dispatched /\ turns[u].phase = "stored",
         \A u \in Dispatched' : turns'[u].phase \in Flying =>
           u \in Dispatched /\ turns[u].phase \in Flying /\ turns'[u].read = turns[u].read,
         \A u \in Dispatched : conn'[turns[u].of] = "open" => conn[turns[u].of] = "open",
         \A c \in Conns : conn'[c] = "closed" => conn[c] = "closed"
  PROVE  HistoriesKept'
<1>1. /\ StoredKept(histories, turns) /\ ReadKept(turns, conn, met)
      /\ KnownKept(histories, turns, conn, met) /\ LateKept(histories, conn, late)
  BY HistoriesNow
<1>2. /\ Dispatched = DOMAIN turns /\ Dispatched' = DOMAIN turns' /\ met \subseteq met'
      /\ late \subseteq late' /\ \A u \in Dispatched : turns'[u].of = turns[u].of
  BY DEF Dispatched, Lasts
<1>3. StoredKept(histories', turns') BY <1>1, TalkLasts DEF StoredKept
<1>4. ReadKept(turns', conn', met')
  <2> SUFFICES ASSUME NEW u \in Dispatched', turns'[u].phase \in Flying
               PROVE  /\ Talk(turns'[u].read, turns'[u].of, turns')
                      /\ \A i \in 1 .. Len(turns'[u].read) : turns'[u].read[i] < u
                      /\ conn'[turns'[u].of] = "open" => \A t \in Dispatched' :
                           turns'[t].of = turns'[u].of /\ turns'[t].phase = "stored" =>
                             Contains(turns'[u].read, t) \/ <<t, u>> \in met' \/ Lost(t, turns', met')
    BY <1>2 DEF ReadKept
  <2>1. /\ u \in Dispatched /\ turns[u].phase \in Flying
        /\ turns'[u].read = turns[u].read /\ turns'[u].of = turns[u].of
    BY <1>2
  <2>2. /\ Talk(turns[u].read, turns[u].of, turns)
        /\ \A i \in 1 .. Len(turns[u].read) : turns[u].read[i] < u
        /\ conn[turns[u].of] = "open" => \A t \in Dispatched :
             turns[t].of = turns[u].of /\ turns[t].phase = "stored" =>
               Contains(turns[u].read, t) \/ <<t, u>> \in met \/ Lost(t, turns, met)
    BY <1>1, <1>2, <2>1 DEF ReadKept
  <2>3. Talk(turns[u].read, turns[u].of, turns') BY <2>2, TalkLasts
  <2>4. ASSUME conn'[turns'[u].of] = "open", NEW t \in Dispatched',
               turns'[t].of = turns'[u].of, turns'[t].phase = "stored"
        PROVE  Contains(turns'[u].read, t) \/ <<t, u>> \in met' \/ Lost(t, turns', met')
    <3>1. t \in Dispatched /\ turns[t].phase = "stored" /\ turns[t].of = turns[u].of
      BY <1>2, <2>1, <2>4
    <3>2. Contains(turns[u].read, t) \/ <<t, u>> \in met \/ Lost(t, turns, met)
      BY <2>1, <2>2, <2>4, <3>1
    <3> QED BY <1>2, <2>1, <3>1, <3>2, LostLasts
  <2> QED BY <2>1, <2>2, <2>3, <2>4
<1>5. KnownKept(histories', turns', conn', met')
  <2> SUFFICES ASSUME NEW t \in Dispatched', conn'[turns'[t].of] = "open",
                      turns'[t].phase = "stored"
               PROVE  Contains(histories[turns'[t].of], t) \/ Lost(t, turns', met')
    BY <1>2 DEF KnownKept
  <2>1. t \in Dispatched /\ turns[t].phase = "stored" /\ turns'[t].of = turns[t].of BY <1>2
  <2>2. Contains(histories[turns[t].of], t) \/ Lost(t, turns, met)
    BY <1>1, <1>2, <2>1 DEF KnownKept
  <2> QED BY <2>1, <2>2, LostLasts
<1>6. LateKept(histories', conn', late') BY <1>1, <1>2 DEF LateKept
<1> QED BY <1>3, <1>4, <1>5, <1>6, HistoriesNext

\* A turn begins with the history as it is: every turn in it began before.
LEMMA HistoriesBegin ==
  ASSUME TypeOK, TurnsKept, HistoriesKept, Lasts, NEW t \in Dispatched, Begin(t)
  PROVE  HistoriesKept'
<1>1. /\ StoredKept(histories, turns) /\ ReadKept(turns, conn, met)
      /\ KnownKept(histories, turns, conn, met) /\ LateKept(histories, conn, late)
  BY HistoriesNow
<1>2. /\ Dispatched = DOMAIN turns /\ Dispatched' = DOMAIN turns' /\ met \subseteq met'
      /\ Dispatched' = Dispatched /\ UNCHANGED <<histories, conn, late>>
      /\ turns'[t].read = histories[turns[t].of] /\ turns'[t].phase = "asking"
      /\ \A u \in Dispatched : turns'[u].of = turns[u].of /\ (u # t => turns'[u] = turns[u])
  BY BeginMoves DEF Dispatched, Lasts, Moves, Begin, Of
<1>3. turns[t].phase = "queued" BY DEF Begin, Starts, Phase
<1>4. \A u \in Dispatched : u \in Nat /\ turns[u].of \in Conns BY TurnTypes
<1>5. StoredKept(histories', turns') BY <1>1, <1>2, TalkLasts DEF StoredKept
<1>6. ReadKept(turns', conn', met')
  <2> SUFFICES ASSUME NEW u \in Dispatched, turns'[u].phase \in Flying
               PROVE  /\ Talk(turns'[u].read, turns[u].of, turns')
                      /\ \A i \in 1 .. Len(turns'[u].read) : turns'[u].read[i] < u
                      /\ conn[turns[u].of] = "open" => \A v \in Dispatched :
                           turns[v].of = turns[u].of /\ turns'[v].phase = "stored" =>
                             Contains(turns'[u].read, v) \/ <<v, u>> \in met' \/ Lost(v, turns', met')
    BY <1>2 DEF ReadKept
  <2>1. ASSUME NEW v \in Dispatched, turns'[v].phase = "stored"
        PROVE  v # t /\ turns[v].phase = "stored"
    BY <1>2, <2>1
  <2>2. CASE u = t
    <3> DEFINE s == histories[turns[t].of]
    <3>1. turns'[u].read = s BY <1>2, <2>2
    <3>2. Talk(s, turns[u].of, turns) BY <1>1, <1>4, <2>2 DEF StoredKept
    <3>3. Talk(s, turns[u].of, turns') BY <3>2, TalkLasts
    <3> HIDE DEF s
    <3>4. ASSUME NEW i \in 1 .. Len(s) PROVE s[i] < u
      <4>1. s[i] \in Dispatched /\ turns[s[i]].phase = "stored" BY <1>2, <3>2 DEF Talk
      <4>2. s[i] # t /\ ~(t < s[i]) BY <1>3, <4>1 DEF TurnsKept, Phase
      <4> QED BY <1>4, <2>2, <4>1, <4>2
    <3>5. ASSUME conn[turns[u].of] = "open", NEW v \in Dispatched,
                 turns[v].of = turns[u].of, turns'[v].phase = "stored"
          PROVE  Contains(s, v) \/ Lost(v, turns', met')
      <4>1. turns[v].phase = "stored" BY <2>1, <3>5
      <4>2. Contains(s, v) \/ Lost(v, turns, met)
        BY <1>1, <1>2, <2>2, <3>5, <4>1 DEF KnownKept, s
      <4> QED BY <4>2, LostLasts
    <3> QED BY <3>1, <3>3, <3>4, <3>5
  <2>3. CASE u # t
    <3>1. turns'[u] = turns[u] /\ turns[u].phase \in Flying BY <1>2, <2>3
    <3>2. /\ Talk(turns[u].read, turns[u].of, turns)
          /\ \A i \in 1 .. Len(turns[u].read) : turns[u].read[i] < u
          /\ conn[turns[u].of] = "open" => \A v \in Dispatched :
               turns[v].of = turns[u].of /\ turns[v].phase = "stored" =>
                 Contains(turns[u].read, v) \/ <<v, u>> \in met \/ Lost(v, turns, met)
      BY <1>1, <1>2, <3>1 DEF ReadKept
    <3>3. Talk(turns[u].read, turns[u].of, turns') BY <3>2, TalkLasts
    <3>4. ASSUME conn[turns[u].of] = "open", NEW v \in Dispatched,
                 turns[v].of = turns[u].of, turns'[v].phase = "stored"
          PROVE  Contains(turns[u].read, v) \/ <<v, u>> \in met' \/ Lost(v, turns', met')
      BY <1>2, <2>1, <3>2, <3>4, LostLasts
    <3> QED BY <3>1, <3>2, <3>3, <3>4
  <2> QED BY <2>2, <2>3
<1>7. KnownKept(histories', turns', conn', met')
  <2> SUFFICES ASSUME NEW u \in Dispatched, conn[turns[u].of] = "open",
                      turns'[u].phase = "stored"
               PROVE  Contains(histories[turns[u].of], u) \/ Lost(u, turns', met')
    BY <1>2 DEF KnownKept
  <2>1. turns[u].phase = "stored" BY <1>2
  <2>2. Contains(histories[turns[u].of], u) \/ Lost(u, turns, met)
    BY <1>1, <1>2, <2>1 DEF KnownKept
  <2> QED BY <2>2, LostLasts
<1>8. LateKept(histories', conn', late') BY <1>1, <1>2 DEF LateKept
<1> QED BY <1>5, <1>6, <1>7, <1>8, HistoriesNext

\* A turn is stored on top of what it had read: what that lacks met it, or is lost already.
LEMMA HistoriesStore ==
  ASSUME TypeOK, TurnsKept, HistoriesKept, Lasts, NEW t \in Dispatched, Store(t)
  PROVE  HistoriesKept'
<1> DEFINE r == turns[t].read
           s == Append(r, t)
<1>1. /\ StoredKept(histories, turns) /\ ReadKept(turns, conn, met)
      /\ KnownKept(histories, turns, conn, met) /\ LateKept(histories, conn, late)
  BY HistoriesNow
<1>2. /\ Dispatched = DOMAIN turns /\ Dispatched' = DOMAIN turns'
      /\ Dispatched' = Dispatched /\ UNCHANGED <<conn, met, late>>
      /\ turns'[t].read = r /\ turns'[t].phase = "stored" /\ turns[t].phase = "answered"
      /\ \A u \in Dispatched : turns'[u].of = turns[u].of /\ (u # t => turns'[u] = turns[u])
  BY StoreMoves DEF Dispatched, Moves, Store, Phase
<1>3. \A u \in Dispatched : u \in Nat /\ turns[u].of \in Conns BY TurnTypes
<1>4. /\ Len(r) \in Nat /\ Len(s) = Len(r) + 1 /\ s[Len(r) + 1] = t
      /\ \A i \in 1 .. Len(r) : s[i] = r[i]
  <2>1. t \in Turns /\ r \in Seq(Turns) BY TurnTypes
  <2> QED BY <2>1
<1>5. /\ histories'[turns[t].of] = s
      /\ \A c \in Conns : c # turns[t].of => histories'[c] = histories[c]
  BY <1>3 DEF Store, TypeOK, Of
<1>6. /\ Talk(r, turns[t].of, turns)
      /\ \A i \in 1 .. Len(r) : r[i] < t
      /\ conn[turns[t].of] = "open" => \A v \in Dispatched :
           turns[v].of = turns[t].of /\ turns[v].phase = "stored" =>
             Contains(r, v) \/ <<v, t>> \in met \/ Lost(v, turns, met)
  BY <1>1, <1>2 DEF ReadKept, Flying
<1>7. Talk(s, turns[t].of, turns')
  <2>1. Talk(r, turns[t].of, turns') BY <1>6, TalkLasts
  <2> SUFFICES ASSUME NEW i \in 1 .. Len(s)
               PROVE  /\ s[i] \in Dispatched' /\ turns'[s[i]].of = turns[t].of
                      /\ turns'[s[i]].phase = "stored"
                      /\ i > 1 => s[i - 1] < s[i]
    BY <1>2 DEF Talk
  <2> HIDE DEF r, s
  <2>2. CASE i \in 1 .. Len(r)
    <3>1. i > 1 => i - 1 \in 1 .. Len(r) BY <1>4, <2>2
    <3> QED BY <1>2, <1>4, <2>1, <2>2, <3>1 DEF Talk
  <2>3. CASE i = Len(r) + 1
    <3>1. i > 1 => i - 1 \in 1 .. Len(r) BY <1>4, <2>3
    <3> QED BY <1>2, <1>4, <1>6, <2>3, <3>1
  <2> QED BY <1>4, <2>2, <2>3
<1>8. /\ Contains(s, t) /\ \A v : Contains(r, v) => Contains(s, v)
      /\ s # NoHistory /\ Last(s) = t
  <2> HIDE DEF r
  <2>1. Contains(s, t) /\ \A v : Contains(r, v) => Contains(s, v)
    <3> HIDE DEF s
    <3> QED BY <1>4 DEF Contains
  <2>2. s # NoHistory /\ Last(s) = t
    <3> HIDE DEF s
    <3>1. Last(s) = t BY <1>4 DEF Last
    <3>2. Len(NoHistory) = 0 BY DEF NoHistory
    <3> QED BY <1>4, <3>1, <3>2
  <2> QED BY <2>1, <2>2
<1> HIDE DEF r, s
<1>9. StoredKept(histories', turns')
  BY <1>1, <1>5, <1>7, TalkLasts DEF StoredKept
<1>10. ReadKept(turns', conn', met')
  <2> SUFFICES ASSUME NEW u \in Dispatched, turns'[u].phase \in Flying
               PROVE  /\ Talk(turns'[u].read, turns[u].of, turns')
                      /\ \A i \in 1 .. Len(turns'[u].read) : turns'[u].read[i] < u
                      /\ conn[turns[u].of] = "open" => \A v \in Dispatched :
                           turns[v].of = turns[u].of /\ turns'[v].phase = "stored" =>
                             Contains(turns'[u].read, v) \/ <<v, u>> \in met \/ Lost(v, turns', met')
    BY <1>2 DEF ReadKept
  <2>1. u # t /\ turns'[u] = turns[u] /\ turns[u].phase \in Flying BY <1>2 DEF Flying
  <2>2. /\ Talk(turns[u].read, turns[u].of, turns)
        /\ \A i \in 1 .. Len(turns[u].read) : turns[u].read[i] < u
        /\ conn[turns[u].of] = "open" => \A v \in Dispatched :
             turns[v].of = turns[u].of /\ turns[v].phase = "stored" =>
               Contains(turns[u].read, v) \/ <<v, u>> \in met \/ Lost(v, turns, met)
    BY <1>1, <1>2, <2>1 DEF ReadKept
  <2>3. Talk(turns[u].read, turns[u].of, turns') BY <2>2, TalkLasts
  <2>4. <<t, u>> \in met BY <1>2, <2>1 DEF TurnsKept, InFlight, Phase, Flying
  <2>5. ASSUME conn[turns[u].of] = "open", NEW v \in Dispatched,
               turns[v].of = turns[u].of, turns'[v].phase = "stored"
        PROVE  Contains(turns[u].read, v) \/ <<v, u>> \in met \/ Lost(v, turns', met')
    <3>1. CASE v = t BY <2>4, <3>1
    <3>2. CASE v # t BY <1>2, <2>2, <2>5, <3>2, LostLasts
    <3> QED BY <3>1, <3>2
  <2> QED BY <2>1, <2>2, <2>3, <2>5
<1>11. KnownKept(histories', turns', conn', met')
  <2> SUFFICES ASSUME NEW v \in Dispatched, conn[turns[v].of] = "open",
                      turns'[v].phase = "stored"
               PROVE  Contains(histories'[turns[v].of], v) \/ Lost(v, turns', met')
    BY <1>2 DEF KnownKept
  <2>1. CASE v = t BY <1>5, <1>8, <2>1
  <2>2. CASE v # t /\ turns[v].of # turns[t].of
    <3>1. turns[v].phase = "stored" BY <1>2, <2>2
    <3>2. Contains(histories[turns[v].of], v) \/ Lost(v, turns, met)
      BY <1>1, <1>2, <3>1 DEF KnownKept
    <3> QED BY <1>3, <1>5, <2>2, <3>2, LostLasts
  <2>3. CASE v # t /\ turns[v].of = turns[t].of
    <3>1. turns[v].phase = "stored" BY <1>2, <2>3
    <3>2. Contains(r, v) \/ <<v, t>> \in met \/ Lost(v, turns, met) BY <1>6, <2>3, <3>1
    <3>3. CASE Contains(r, v) BY <1>5, <1>8, <2>3, <3>3
    <3>4. CASE Lost(v, turns, met) BY <3>4, LostLasts
    <3>5. CASE <<v, t>> \in met /\ ~Contains(r, v)
      <4>1. Lost(v, turns', met') BY <1>2, <2>3, <3>5 DEF Lost
      <4> QED BY <4>1
    <3> QED BY <3>2, <3>3, <3>4, <3>5
  <2> QED BY <2>1, <2>2, <2>3
<1>12. LateKept(histories', conn', late')
  <2>1. conn[turns[t].of] = "closed" => t \in late
    BY <1>2 DEF TurnsKept, Of, Phase
  <2> QED BY <1>1, <1>2, <1>5, <1>8, <2>1 DEF LateKept
<1> QED BY <1>9, <1>10, <1>11, <1>12, HistoriesNext

\* A connection is forgotten, and with it what it knew.
LEMMA HistoriesForget ==
  ASSUME TypeOK, HistoriesKept, Lasts, NEW c \in Conns, Forget(c)
  PROVE  HistoriesKept'
<1>1. /\ StoredKept(histories, turns) /\ ReadKept(turns, conn, met)
      /\ KnownKept(histories, turns, conn, met) /\ LateKept(histories, conn, late)
  BY HistoriesNow
<1>2. /\ UNCHANGED <<turns, met>> /\ late \subseteq late'
      /\ histories'[c] = NoHistory /\ conn'[c] = "closed"
      /\ \A d \in Conns : d # c => conn'[d] = conn[d] /\ histories'[d] = histories[d]
  BY DEF Forget, TypeOK, Lasts
<1>3. \A u \in DOMAIN turns : turns[u].of \in Conns BY TurnTypes DEF Dispatched
<1>4. Talk(NoHistory, c, turns) BY DEF Talk, NoHistory
<1>5. StoredKept(histories', turns') BY <1>1, <1>2, <1>4 DEF StoredKept
<1>6. \A u \in DOMAIN turns : conn'[turns[u].of] = "open" =>
        conn[turns[u].of] = "open" /\ histories'[turns[u].of] = histories[turns[u].of]
  BY <1>2, <1>3
<1>7. ReadKept(turns', conn', met') BY <1>1, <1>2, <1>6 DEF ReadKept
<1>8. KnownKept(histories', turns', conn', met') BY <1>1, <1>2, <1>6 DEF KnownKept
<1>9. LateKept(histories', conn', late') BY <1>1, <1>2 DEF LateKept
<1> QED BY <1>5, <1>7, <1>8, <1>9, HistoriesNext

LEMMA HistoriesStep == TypeOK /\ TurnsKept /\ HistoriesKept /\ [Next]_vars => HistoriesKept'
<1> SUFFICES ASSUME TypeOK, TurnsKept, HistoriesKept, [Next]_vars PROVE HistoriesKept' OBVIOUS
<1>0. Lasts BY EveryStepLasts
<1>1. ASSUME NEW c \in Conns, Opens(c) \/ Hangup(c) PROVE HistoriesKept'
  <2>1. turns' = turns /\ histories' = histories /\ Dispatched' = Dispatched
    BY <1>1 DEF Opens, Connect, Hangup, server, Dispatched
  <2>2. \A u \in Dispatched : turns[u].of \in Conns /\ conn[turns[u].of] # "new"
    BY TurnTypes DEF TurnsKept, Of
  <2>3. /\ \A d \in Conns : conn'[d] = "closed" => conn[d] = "closed"
        /\ \A u \in Dispatched : conn'[turns[u].of] = "open" => conn[turns[u].of] = "open"
    BY <1>1, <2>2 DEF Opens, Connect, Hangup, TypeOK
  <2> QED BY <1>0, <2>1, <2>3, HistoriesQuiet
<1>2. ASSUME NEW c \in Conns, Dispatch(c) PROVE HistoriesKept'
  <2>1. histories' = histories /\ conn' = conn BY <1>2 DEF Dispatch
  <2>2. \A u \in Dispatched' :
          \/ u \in Dispatched /\ turns'[u] = turns[u]
          \/ turns'[u].phase = "queued"
    BY <1>2, DispatchAdds
  <2> QED BY <1>0, <2>1, <2>2, HistoriesQuiet DEF Flying
<1>3. ASSUME NEW c \in Conns, Forget(c) PROVE HistoriesKept' BY <1>0, <1>3, HistoriesForget
<1>4. ASSUME NEW t \in Dispatched, Begin(t) PROVE HistoriesKept' BY <1>0, <1>4, HistoriesBegin
<1>5. ASSUME NEW t \in Dispatched, Store(t) PROVE HistoriesKept' BY <1>0, <1>5, HistoriesStore
<1>6. ASSUME NEW t \in Dispatched, Says(t) PROVE HistoriesKept'
  <2>1. Moves(t, "asking") /\ turns'[t].read = turns[t].read BY <1>6, SaysMoves
  <2>2. histories' = histories /\ conn' = conn /\ turns[t].phase = "asking"
    BY <1>6 DEF Says, Phase
  <2> QED BY <1>0, <2>1, <2>2, HistoriesQuiet DEF Moves, Flying
<1>7. ASSUME NEW t \in Dispatched, Answered(t) PROVE HistoriesKept'
  <2>1. Moves(t, "answered") /\ turns'[t].read = turns[t].read BY <1>7, AnsweredMoves
  <2>2. histories' = histories /\ conn' = conn /\ turns[t].phase = "asking"
    BY <1>7 DEF Answered, Phase
  <2> QED BY <1>0, <2>1, <2>2, HistoriesQuiet DEF Moves, Flying
<1>8. ASSUME NEW t \in Dispatched, Fails(t) PROVE HistoriesKept'
  <2>1. PICK how \in {"crashed", "unavailable"} : Moves(t, how) BY <1>8 DEF Fails
  <2>2. histories' = histories /\ conn' = conn BY <1>8 DEF Fails
  <2> QED BY <1>0, <2>1, <2>2, HistoriesQuiet DEF Moves, Flying
<1>9. CASE UNCHANGED vars
  BY <1>9, HistoriesNow, HistoriesNext DEF vars, server
<1>10. ASSUME NEW b \in Consoles, Drop(b) PROVE HistoriesKept'
  BY <1>10, HistoriesNow, HistoriesNext DEF Drop
<1> QED BY <1>10, <1>1, <1>2, <1>3, <1>4, <1>5, <1>6, <1>7, <1>8, <1>9, Cases

-----------------------------------------------------------------------------
\* Muddled of the turns T and the record M; and a whole answer.
Mixed(t, T, M) == \E u \in DOMAIN T : <<t, u>> \in M

Whole(t, T) == [k \in 1 .. T[t].said |-> t]

\* The parts of BubblesKept, of any state.
CleanKept(S, T, V, L) ==
  \A b \in Consoles \ L : S[b] # <<>> =>
    V[b] # NoConn /\ \A i \in DOMAIN S[b] : T[S[b][i]].phase = "asking"

SaidKept(S, T) == \A b \in Consoles : \A i \in DOMAIN S[b] : S[b][i] \in DOMAIN T

LinkKept(V, K) == \A b \in Consoles : V[b] # NoConn => K[V[b]] = "open"

SilentKept(T, W) == \A t \in DOMAIN T : T[t].phase = "queued" => T[t].said = 0 /\ W[t] = {}

OwnKept(S, T, V, W, M) ==
  \A t \in DOMAIN T : \A b \in W[t] :
    T[t].phase = "asking" => V[b] # NoConn /\ (~Mixed(t, T, M) => S[b] = Whole(t, T))

PastKept(m, T) ==
  \A b \in Consoles : m[b] # NoMessage =>
    m[b].by \in DOMAIN T /\ T[m[b].by].phase \notin {"queued", "asking"}

WholeKept(m, T, W, M) ==
  \A b \in Consoles : m[b] # NoMessage /\ b \in W[m[b].by] /\ ~Mixed(m[b].by, T, M)
    => m[b].words = Whole(m[b].by, T)

LEMMA BubblesNow ==
  BubblesKept <=> /\ CleanKept(streaming, turns, via, leftover) /\ SaidKept(streaming, turns)
                  /\ LinkKept(via, conn) /\ SilentKept(turns, witnessed)
                  /\ OwnKept(streaming, turns, via, witnessed, met)
                  /\ PastKept(message, turns) /\ WholeKept(message, turns, witnessed, met)
BY DEF BubblesKept, MessageIsOneAnswer, Muddled, Own, CleanKept, SaidKept, LinkKept, SilentKept,
       OwnKept, PastKept, WholeKept, Mixed, Whole, Dispatched, Phase

LEMMA BubblesNext ==
  BubblesKept' <=> /\ CleanKept(streaming', turns', via', leftover') /\ SaidKept(streaming', turns')
                   /\ LinkKept(via', conn') /\ SilentKept(turns', witnessed')
                   /\ OwnKept(streaming', turns', via', witnessed', met')
                   /\ PastKept(message', turns') /\ WholeKept(message', turns', witnessed', met')
BY DEF BubblesKept, MessageIsOneAnswer, Muddled, Own, CleanKept, SaidKept, LinkKept, SilentKept,
       OwnKept, PastKept, WholeKept, Mixed, Whole, Dispatched, Phase

LEMMA BubblesInit == Init => BubblesKept
BY DEF Init, BubblesKept, MessageIsOneAnswer, Dispatched

\* A muddled turn stays muddled.
LEMMA MixedLasts ==
  ASSUME Lasts, NEW t, Mixed(t, turns, met)
  PROVE  Mixed(t, turns', met')
BY DEF Lasts, Mixed, Dispatched

\* A message that was folded stays as whole as it was.
LEMMA MessagesLast ==
  ASSUME BubblesKept, Lasts, message' = message,
         \A u \in Dispatched : turns[u].phase \notin {"queued", "asking"} =>
           /\ turns'[u].phase \notin {"queued", "asking"}
           /\ turns'[u].said = turns[u].said /\ witnessed'[u] = witnessed[u]
  PROVE  PastKept(message', turns') /\ WholeKept(message', turns', witnessed', met')
<1>1. PastKept(message, turns) /\ WholeKept(message, turns, witnessed, met) BY BubblesNow
<1>2. ASSUME NEW b \in Consoles, message[b] # NoMessage
      PROVE  /\ message[b].by \in DOMAIN turns' /\ message[b].by \in Dispatched
             /\ turns'[message[b].by].phase \notin {"queued", "asking"}
             /\ turns'[message[b].by].said = turns[message[b].by].said
             /\ witnessed'[message[b].by] = witnessed[message[b].by]
  BY <1>1, <1>2 DEF PastKept, Lasts, Dispatched
<1>3. PastKept(message', turns') BY <1>2 DEF PastKept
<1>4. WholeKept(message', turns', witnessed', met')
  BY <1>1, <1>2, MixedLasts DEF WholeKept, Whole
<1> QED BY <1>3, <1>4

\* A step that says nothing, begins nothing and answers nothing: what is left over grows
\* by what a turn that ends, or a console that goes, leaves behind.
Quiet ==
  /\ UNCHANGED <<streaming, message>>
  /\ \A u \in Dispatched' :
       \/ /\ u \in Dispatched /\ turns'[u].said = turns[u].said
          /\ witnessed'[u] \subseteq witnessed[u]
          /\ turns'[u].phase = "queued" => turns[u].phase = "queued"
          /\ turns'[u].phase = "asking" => turns[u].phase = "asking"
          /\ turns[u].phase \notin {"queued", "asking"} =>
               turns'[u].phase \notin {"queued", "asking"} /\ witnessed'[u] = witnessed[u]
       \/ /\ u \notin Dispatched /\ turns'[u].said = 0
          /\ turns'[u].phase = "queued" /\ witnessed'[u] = {}
  /\ \A u \in Dispatched' : \A b \in witnessed'[u] :
       turns'[u].phase = "asking" /\ via[b] # NoConn => via'[b] # NoConn
  /\ \A b \in Consoles \ leftover' : streaming[b] # <<>> =>
       /\ b \notin leftover /\ (via[b] # NoConn => via'[b] # NoConn)
       /\ \A i \in DOMAIN streaming[b] :
            turns[streaming[b][i]].phase = "asking" => turns'[streaming[b][i]].phase = "asking"
  /\ LinkKept(via, conn) => LinkKept(via', conn')

LEMMA BubblesQuiet ==
  ASSUME BubblesKept, Lasts, Quiet
  PROVE  BubblesKept'
<1>1. /\ CleanKept(streaming, turns, via, leftover) /\ SaidKept(streaming, turns)
      /\ LinkKept(via, conn) /\ SilentKept(turns, witnessed)
      /\ OwnKept(streaming, turns, via, witnessed, met)
  BY BubblesNow
<1>2. /\ Dispatched = DOMAIN turns /\ Dispatched' = DOMAIN turns'
      /\ Dispatched \subseteq Dispatched' /\ UNCHANGED <<streaming, message>>
  BY DEF Dispatched, Lasts, Quiet
<1>3. CleanKept(streaming', turns', via', leftover')
  <2> SUFFICES ASSUME NEW b \in Consoles \ leftover', streaming[b] # <<>>
               PROVE  /\ via'[b] # NoConn
                      /\ \A i \in DOMAIN streaming[b] : turns'[streaming[b][i]].phase = "asking"
    BY <1>2 DEF CleanKept
  <2>1. /\ b \notin leftover /\ (via[b] # NoConn => via'[b] # NoConn)
        /\ \A i \in DOMAIN streaming[b] :
             turns[streaming[b][i]].phase = "asking" => turns'[streaming[b][i]].phase = "asking"
    BY DEF Quiet
  <2> QED BY <1>1, <2>1 DEF CleanKept
<1>4. SaidKept(streaming', turns') BY <1>1, <1>2 DEF SaidKept
<1>5. LinkKept(via', conn') BY <1>1 DEF Quiet
<1>6. SilentKept(turns', witnessed') BY <1>1, <1>2 DEF SilentKept, Quiet
<1>7. OwnKept(streaming', turns', via', witnessed', met')
  <2> SUFFICES ASSUME NEW t \in Dispatched', NEW b \in witnessed'[t], turns'[t].phase = "asking"
               PROVE  /\ via'[b] # NoConn
                      /\ ~Mixed(t, turns', met') => streaming[b] = Whole(t, turns')
    BY <1>2 DEF OwnKept
  <2>1. /\ t \in Dispatched /\ turns'[t].said = turns[t].said /\ b \in witnessed[t]
        /\ turns[t].phase = "asking"
    BY DEF Quiet
  <2>2. via[b] # NoConn /\ (~Mixed(t, turns, met) => streaming[b] = Whole(t, turns))
    BY <1>1, <1>2, <2>1 DEF OwnKept
  <2>3. via'[b] # NoConn BY <2>2 DEF Quiet
  <2> QED BY <2>1, <2>2, <2>3, MixedLasts DEF Whole
<1>8. PastKept(message', turns') /\ WholeKept(message', turns', witnessed', met')
  <2>1. ASSUME NEW u \in Dispatched, turns[u].phase \notin {"queued", "asking"}
        PROVE  /\ turns'[u].phase \notin {"queued", "asking"}
               /\ turns'[u].said = turns[u].said /\ witnessed'[u] = witnessed[u]
    BY <1>2, <2>1 DEF Quiet
  <2> QED BY <1>2, <2>1, MessagesLast
<1> QED BY <1>3, <1>4, <1>5, <1>6, <1>7, <1>8, BubblesNext

\* The consoles that listen are those with a connection.
LEMMA Joined ==
  ASSUME BubblesKept
  PROVE  \A b \in Consoles : b \in Listening <=> via[b] # NoConn
BY DEF BubblesKept, Listening

\* A turn begins: a bubble that is open then is left over, or of a turn it meets.
LEMMA BubblesBegin ==
  ASSUME TypeOK, TurnsKept, BubblesKept, Lasts, NEW t \in Dispatched, Begin(t)
  PROVE  BubblesKept'
<1>1. /\ CleanKept(streaming, turns, via, leftover) /\ SaidKept(streaming, turns)
      /\ LinkKept(via, conn) /\ SilentKept(turns, witnessed)
      /\ OwnKept(streaming, turns, via, witnessed, met)
  BY BubblesNow
<1>2. /\ Dispatched = DOMAIN turns /\ Dispatched' = DOMAIN turns' /\ Dispatched' = Dispatched
      /\ UNCHANGED <<conn, via, streaming, message, leftover>>
      /\ turns'[t].said = turns[t].said /\ turns'[t].phase = "asking"
      /\ \A u \in Dispatched : u # t => turns'[u] = turns[u]
  BY BeginMoves DEF Dispatched, Moves, Begin, store
<1>3. turns[t].phase = "queued" /\ turns[t].said = 0
  BY <1>1, <1>2 DEF Begin, Starts, Phase, SilentKept
<1>4. /\ witnessed'[t] = Listening \ leftover
      /\ \A u \in Dispatched : u # t => witnessed'[u] = witnessed[u]
  <2>1. witnessed \in Seq(SUBSET Consoles) /\ DOMAIN witnessed = Dispatched BY TurnTypes
  <2> QED BY <2>1 DEF Begin
<1>5. CleanKept(streaming', turns', via', leftover')
  <2> SUFFICES ASSUME NEW b \in Consoles \ leftover, streaming[b] # <<>>
               PROVE  /\ via[b] # NoConn
                      /\ \A i \in DOMAIN streaming[b] : turns'[streaming[b][i]].phase = "asking"
    BY <1>2 DEF CleanKept
  <2>1. /\ via[b] # NoConn
        /\ \A i \in DOMAIN streaming[b] : turns[streaming[b][i]].phase = "asking"
    BY <1>1 DEF CleanKept
  <2>2. \A i \in DOMAIN streaming[b] : streaming[b][i] \in Dispatched BY <1>1, <1>2 DEF SaidKept
  <2> QED BY <1>2, <2>1, <2>2
<1>6. SaidKept(streaming', turns') BY <1>1, <1>2 DEF SaidKept
<1>7. LinkKept(via', conn') BY <1>1, <1>2
<1>8. SilentKept(turns', witnessed')
  <2> SUFFICES ASSUME NEW u \in Dispatched, turns'[u].phase = "queued"
               PROVE  turns'[u].said = 0 /\ witnessed'[u] = {}
    BY <1>2 DEF SilentKept
  <2>1. u # t BY <1>2
  <2> QED BY <1>1, <1>2, <1>4, <2>1 DEF SilentKept
<1>9. OwnKept(streaming', turns', via', witnessed', met')
  <2> SUFFICES ASSUME NEW u \in Dispatched, NEW b \in witnessed'[u], turns'[u].phase = "asking"
               PROVE  /\ via[b] # NoConn
                      /\ ~Mixed(u, turns', met') => streaming[b] = Whole(u, turns')
    BY <1>2 DEF OwnKept
  <2>1. CASE u = t
    <3>1. b \in Consoles \ leftover /\ via[b] # NoConn BY <1>4, <2>1 DEF Listening
    <3>2. ASSUME streaming[b] # <<>> PROVE Mixed(t, turns', met')
      <4>1. streaming[b] \in Seq(Turns) BY <3>1 DEF TypeOK
      <4>2. 1 \in DOMAIN streaming[b] BY <3>2, <4>1
      <4> DEFINE v == streaming[b][1]
      <4>3. v \in Dispatched /\ turns[v].phase = "asking"
        BY <1>1, <1>2, <3>1, <3>2, <4>2 DEF CleanKept, SaidKept
      <4> HIDE DEF v
      <4>4. v \in InFlight BY <4>3 DEF InFlight, Phase
      <4>5. <<t, v>> \in met' BY <4>4 DEF Begin
      <4> QED BY <1>2, <4>3, <4>5 DEF Mixed
    <3>3. Whole(u, turns') = <<>>
      <4>1. turns'[u].said = 0 BY <1>2, <1>3, <2>1
      <4> QED BY <4>1 DEF Whole
    <3> QED BY <2>1, <3>1, <3>2, <3>3
  <2>2. CASE u # t
    <3>1. /\ turns'[u] = turns[u] /\ b \in witnessed[u] /\ turns[u].phase = "asking"
      BY <1>2, <1>4, <2>2
    <3>2. via[b] # NoConn /\ (~Mixed(u, turns, met) => streaming[b] = Whole(u, turns))
      BY <1>1, <1>2, <3>1 DEF OwnKept
    <3> QED BY <3>1, <3>2, MixedLasts DEF Whole
  <2> QED BY <2>1, <2>2
<1>10. PastKept(message', turns') /\ WholeKept(message', turns', witnessed', met')
  <2>1. ASSUME NEW u \in Dispatched, turns[u].phase \notin {"queued", "asking"}
        PROVE  /\ turns'[u].phase \notin {"queued", "asking"}
               /\ turns'[u].said = turns[u].said /\ witnessed'[u] = witnessed[u]
    BY <1>2, <1>3, <1>4, <2>1
  <2> QED BY <1>2, <2>1, MessagesLast
<1> QED BY <1>5, <1>6, <1>7, <1>8, <1>9, <1>10, BubblesNext

\* One word more of a whole answer.
LEMMA OneWordMore ==
  ASSUME NEW t \in Nat, NEW n \in Nat
  PROVE  Append([k \in 1 .. n |-> t], t) = [k \in 1 .. n + 1 |-> t]
<1> DEFINE a == [k \in 1 .. n |-> t]
<1>1. a \in Seq(Nat) /\ Len(a) = n OBVIOUS
<1>2. /\ Append(a, t) \in Seq(Nat) /\ Len(Append(a, t)) = n + 1
      /\ \A k \in 1 .. n + 1 : Append(a, t)[k] = t
  <2>1. \A k \in 1 .. n : a[k] = t OBVIOUS
  <2> HIDE DEF a
  <2> QED BY <1>1, <2>1
<1> HIDE DEF a
<1>3. Append(a, t) = [k \in 1 .. n + 1 |-> t]
  <2> DEFINE b == [k \in 1 .. n + 1 |-> t]
  <2>1. b \in Seq(Nat) /\ Len(b) = n + 1 /\ \A k \in 1 .. n + 1 : b[k] = t OBVIOUS
  <2> HIDE DEF b
  <2>2. \A k \in 1 .. Len(Append(a, t)) : Append(a, t)[k] = b[k] BY <1>2, <2>1
  <2>3. Append(a, t) = b BY <1>2, <2>1, <2>2, SeqEqual
  <2> QED BY <2>3 DEF b
<1> QED BY <1>3 DEF a

\* A turn says a word: it is appended to its own bubble, and every other turn that is
\* asking has met it.
LEMMA BubblesSay ==
  ASSUME TypeOK, TurnsKept, BubblesKept, Lasts, NEW t \in Dispatched, Says(t)
  PROVE  BubblesKept'
<1>1. /\ CleanKept(streaming, turns, via, leftover) /\ SaidKept(streaming, turns)
      /\ LinkKept(via, conn) /\ SilentKept(turns, witnessed)
      /\ OwnKept(streaming, turns, via, witnessed, met)
  BY BubblesNow
<1>2. /\ Dispatched = DOMAIN turns /\ Dispatched' = DOMAIN turns' /\ Dispatched' = Dispatched
      /\ UNCHANGED <<conn, via, message, met, witnessed, leftover>>
      /\ turns'[t].said = turns[t].said + 1 /\ turns'[t].phase = "asking"
      /\ turns[t].phase = "asking"
      /\ \A u \in Dispatched : u # t => turns'[u] = turns[u]
  BY SaysMoves DEF Dispatched, Moves, Says, Phase
<1>3. turns[t].said \in Nat /\ t \in Nat BY TurnTypes, Bounds
<1>4. \A b \in Consoles : streaming'[b] = IF via[b] # NoConn THEN Append(streaming[b], t)
                                                             ELSE streaming[b]
  BY Joined DEF Says
<1>5. ASSUME NEW b \in Consoles, NEW i \in DOMAIN streaming'[b]
      PROVE  streaming'[b][i] = t \/ (i \in DOMAIN streaming[b] /\ streaming'[b][i] = streaming[b][i])
  <2>1. streaming[b] \in Seq(Turns) BY DEF TypeOK
  <2>2. t \in Turns BY TurnTypes
  <2>3. CASE via[b] # NoConn
    <3> DEFINE a == streaming[b]
    <3>1. streaming'[b] = Append(a, t) BY <1>4, <2>3
    <3>2. \A k \in DOMAIN Append(a, t) :
            Append(a, t)[k] = t \/ (k \in DOMAIN a /\ Append(a, t)[k] = a[k])
      BY <2>1, <2>2
    <3> HIDE DEF a
    <3>3. i \in DOMAIN Append(a, t) BY <3>1
    <3> QED BY <3>1, <3>2, <3>3 DEF a
  <2>4. CASE via[b] = NoConn BY <1>4, <2>4
  <2> QED BY <2>3, <2>4
<1>6. CleanKept(streaming', turns', via', leftover')
  <2> SUFFICES ASSUME NEW b \in Consoles \ leftover, streaming'[b] # <<>>
               PROVE  /\ via[b] # NoConn
                      /\ \A i \in DOMAIN streaming'[b] : turns'[streaming'[b][i]].phase = "asking"
    BY <1>2 DEF CleanKept
  <2>1. via[b] # NoConn BY <1>1, <1>4 DEF CleanKept
  <2>2. ASSUME NEW i \in DOMAIN streaming'[b] PROVE turns'[streaming'[b][i]].phase = "asking"
    <3>1. CASE streaming'[b][i] = t BY <1>2, <3>1
    <3>2. CASE i \in DOMAIN streaming[b] /\ streaming'[b][i] = streaming[b][i]
      <4>1. streaming[b] \in Seq(Turns) BY DEF TypeOK
      <4>2. streaming[b] # <<>> BY <3>2, <4>1
      <4>3. streaming[b][i] \in Dispatched /\ turns[streaming[b][i]].phase = "asking"
        BY <1>1, <1>2, <3>2, <4>2 DEF CleanKept, SaidKept
      <4> QED BY <1>2, <3>2, <4>3
    <3> QED BY <1>5, <3>1, <3>2
  <2> QED BY <2>1, <2>2
<1>7. SaidKept(streaming', turns') BY <1>1, <1>2, <1>5 DEF SaidKept
<1>8. LinkKept(via', conn') BY <1>1, <1>2
<1>9. SilentKept(turns', witnessed')
  <2> SUFFICES ASSUME NEW u \in Dispatched, turns'[u].phase = "queued"
               PROVE  turns'[u].said = 0 /\ witnessed[u] = {}
    BY <1>2 DEF SilentKept
  <2>1. u # t BY <1>2
  <2> QED BY <1>1, <1>2, <2>1 DEF SilentKept
<1>10. OwnKept(streaming', turns', via', witnessed', met')
  <2> SUFFICES ASSUME NEW u \in Dispatched, NEW b \in witnessed[u], turns'[u].phase = "asking"
               PROVE  /\ via[b] # NoConn
                      /\ ~Mixed(u, turns', met') => streaming'[b] = Whole(u, turns')
    BY <1>2 DEF OwnKept
  <2>1. turns[u].phase = "asking" BY <1>2
  <2>2. via[b] # NoConn /\ (~Mixed(u, turns, met) => streaming[b] = Whole(u, turns))
    BY <1>1, <1>2, <2>1 DEF OwnKept
  <2>3. ASSUME ~Mixed(u, turns', met') PROVE streaming'[b] = Whole(u, turns')
    <3>1. ~Mixed(u, turns, met) BY <2>3, MixedLasts
    <3>2. u = t
      <4>1. ASSUME u # t PROVE FALSE
        <5>1. <<u, t>> \in met BY <1>2, <2>1, <4>1 DEF TurnsKept, InFlight, Phase
        <5> QED BY <1>2, <3>1, <5>1 DEF Mixed
      <4> QED BY <4>1
    <3>3. b \in Consoles
      <4>1. witnessed \in Seq(SUBSET Consoles) /\ DOMAIN witnessed = Dispatched BY TurnTypes
      <4> QED BY <4>1
    <3>4. streaming'[b] = Append(Whole(t, turns), t) BY <1>4, <2>2, <3>1, <3>2, <3>3
    <3>5. Append(Whole(t, turns), t) = Whole(t, turns') BY <1>2, <1>3, OneWordMore DEF Whole
    <3> QED BY <3>2, <3>4, <3>5
  <2> QED BY <2>2, <2>3
<1>11. PastKept(message', turns') /\ WholeKept(message', turns', witnessed', met')
  <2>1. ASSUME NEW u \in Dispatched, turns[u].phase \notin {"queued", "asking"}
        PROVE  /\ turns'[u].phase \notin {"queued", "asking"}
               /\ turns'[u].said = turns[u].said /\ witnessed'[u] = witnessed[u]
    BY <1>2, <2>1
  <2> QED BY <1>2, <2>1, MessagesLast
<1> QED BY <1>6, <1>7, <1>8, <1>9, <1>10, <1>11, BubblesNext

\* A turn is answered: what is folded is its bubble, and no open bubble is left but on a
\* console that is not there.
LEMMA BubblesAnswer ==
  ASSUME TypeOK, TurnsKept, BubblesKept, Lasts, NEW t \in Dispatched, Answered(t)
  PROVE  BubblesKept'
<1>1. /\ CleanKept(streaming, turns, via, leftover) /\ SaidKept(streaming, turns)
      /\ LinkKept(via, conn) /\ SilentKept(turns, witnessed)
      /\ OwnKept(streaming, turns, via, witnessed, met)
      /\ PastKept(message, turns) /\ WholeKept(message, turns, witnessed, met)
  BY BubblesNow
<1>2. /\ Dispatched = DOMAIN turns /\ Dispatched' = DOMAIN turns' /\ Dispatched' = Dispatched
      /\ UNCHANGED <<conn, via, met, witnessed>>
      /\ turns'[t].said = turns[t].said /\ turns'[t].phase = "answered"
      /\ turns[t].phase = "asking"
      /\ \A u \in Dispatched : u # t => turns'[u] = turns[u]
  BY AnsweredMoves DEF Dispatched, Moves, Answered, Phase
<1>3. \A b \in Consoles :
        /\ via[b] # NoConn => /\ message'[b].by = t /\ message'[b].words = streaming[b]
                              /\ streaming'[b] = <<>>
        /\ via[b] = NoConn => message'[b] = message[b] /\ streaming'[b] = streaming[b]
  <2>1. \A b \in Consoles :
          /\ message'[b] = IF via[b] # NoConn THEN Folded(b, t) ELSE message[b]
          /\ streaming'[b] = IF via[b] # NoConn THEN <<>> ELSE streaming[b]
    BY Joined DEF Answered
  <2>2. \A b \in Consoles : Folded(b, t).by = t /\ Folded(b, t).words = streaming[b] BY DEF Folded
  <2> QED BY <2>1, <2>2
<1>4. CleanKept(streaming', turns', via', leftover')
  <2> SUFFICES ASSUME NEW b \in Consoles \ leftover' PROVE streaming'[b] = <<>> BY DEF CleanKept
  <2>1. CASE via[b] # NoConn BY <1>3, <2>1
  <2>2. CASE via[b] = NoConn
    <3>1. b \notin leftover BY <2>2, Joined DEF Answered
    <3> QED BY <1>1, <1>3, <2>2, <3>1 DEF CleanKept
  <2> QED BY <2>1, <2>2
<1>5. SaidKept(streaming', turns')
  <2> SUFFICES ASSUME NEW b \in Consoles, NEW i \in DOMAIN streaming'[b]
               PROVE  streaming'[b][i] \in Dispatched
    BY <1>2 DEF SaidKept
  <2>1. via[b] = NoConn BY <1>3
  <2> QED BY <1>1, <1>2, <1>3, <2>1 DEF SaidKept
<1>6. LinkKept(via', conn') BY <1>1, <1>2
<1>7. SilentKept(turns', witnessed')
  <2> SUFFICES ASSUME NEW u \in Dispatched, turns'[u].phase = "queued"
               PROVE  turns'[u].said = 0 /\ witnessed[u] = {}
    BY <1>2 DEF SilentKept
  <2>1. u # t BY <1>2
  <2> QED BY <1>1, <1>2, <2>1 DEF SilentKept
<1>8. OwnKept(streaming', turns', via', witnessed', met')
  <2> SUFFICES ASSUME NEW u \in Dispatched, NEW b \in witnessed[u], turns'[u].phase = "asking"
               PROVE  via[b] # NoConn /\ Mixed(u, turns', met')
    BY <1>2 DEF OwnKept
  <2>1. u # t /\ turns[u].phase = "asking" BY <1>2
  <2>2. <<u, t>> \in met BY <1>2, <2>1 DEF TurnsKept, InFlight, Phase
  <2>3. Mixed(u, turns', met') BY <1>2, <2>2 DEF Mixed
  <2> QED BY <1>1, <1>2, <2>1, <2>3 DEF OwnKept
<1>9. PastKept(message', turns')
  <2> SUFFICES ASSUME NEW b \in Consoles, message'[b] # NoMessage
               PROVE  /\ message'[b].by \in Dispatched
                      /\ turns'[message'[b].by].phase \notin {"queued", "asking"}
    BY <1>2 DEF PastKept
  <2>1. CASE via[b] # NoConn BY <1>2, <1>3, <2>1
  <2>2. CASE via[b] = NoConn
    <3>1. message'[b] = message[b] BY <1>3, <2>2
    <3>2. /\ message[b].by \in Dispatched /\ message[b].by # t
          /\ turns[message[b].by].phase \notin {"queued", "asking"}
      BY <1>1, <1>2, <3>1 DEF PastKept
    <3> QED BY <1>2, <3>1, <3>2
  <2> QED BY <2>1, <2>2
<1>10. WholeKept(message', turns', witnessed', met')
  <2> SUFFICES ASSUME NEW b \in Consoles, message'[b] # NoMessage,
                      b \in witnessed'[message'[b].by], ~Mixed(message'[b].by, turns', met')
               PROVE  message'[b].words = Whole(message'[b].by, turns')
    BY DEF WholeKept
  <2>1. ~Mixed(message'[b].by, turns, met) BY MixedLasts
  <2>2. CASE via[b] # NoConn
    <3>1. message'[b].by = t /\ message'[b].words = streaming[b] BY <1>3, <2>2
    <3>2. streaming[b] = Whole(t, turns) BY <1>1, <1>2, <2>1, <3>1 DEF OwnKept
    <3> QED BY <1>2, <3>1, <3>2 DEF Whole
  <2>3. CASE via[b] = NoConn
    <3>1. message'[b] = message[b] BY <1>3, <2>3
    <3>2. message[b].by \in Dispatched /\ message[b].by # t
      BY <1>1, <1>2, <3>1 DEF PastKept
    <3>3. message[b].words = Whole(message[b].by, turns)
      BY <1>1, <1>2, <2>1, <3>1 DEF WholeKept
    <3> QED BY <1>2, <3>1, <3>2, <3>3 DEF Whole
  <2> QED BY <2>2, <2>3
<1> QED BY <1>4, <1>5, <1>6, <1>7, <1>8, <1>9, <1>10, BubblesNext

\* A console goes: what is in its bubble is left over, and it witnesses no chat further.
LEMMA BubblesDrop ==
  ASSUME TypeOK, BubblesKept, NEW b \in Consoles, Drop(b)
  PROVE  Quiet
<1>1. /\ turns' = turns /\ Dispatched' = Dispatched /\ UNCHANGED <<conn, streaming, message>>
      /\ via'[b] = NoConn /\ \A d \in Consoles : d # b => via'[d] = via[d]
      /\ leftover \subseteq leftover' /\ (streaming[b] # <<>> => b \in leftover')
  BY DEF Drop, Dispatched, TypeOK
<1>2. \A u \in Dispatched :
        witnessed'[u] = IF turns[u].phase = "asking" THEN witnessed[u] \ {b} ELSE witnessed[u]
  <2>1. DOMAIN witnessed = Dispatched BY TurnTypes
  <2> QED BY <2>1 DEF Drop, Phase
<1>3. \A u \in Dispatched : witnessed[u] \subseteq Consoles
  <2>1. witnessed \in Seq(SUBSET Consoles) /\ DOMAIN witnessed = Dispatched BY TurnTypes
  <2> QED BY <2>1
<1>4. LinkKept(via, conn) => LinkKept(via', conn') BY <1>1 DEF LinkKept
<1> QED BY <1>1, <1>2, <1>3, <1>4 DEF Quiet

\* A connection opens or closes: only a console without one takes one, and only one
\* without a console closes.
LEMMA BubblesConn ==
  ASSUME TypeOK, BubblesKept, NEW c \in Conns, Opens(c) \/ Hangup(c) \/ Forget(c)
  PROVE  Quiet
<1>1. UNCHANGED <<turns, witnessed, streaming, message, leftover>> /\ Dispatched' = Dispatched
  BY DEF Opens, Connect, Hangup, Forget, server, store, Dispatched
<1>2. \A b \in Consoles : via[b] # NoConn => via'[b] # NoConn
  BY ChatAssumption DEF Opens, Connect, Hangup, Forget, TypeOK
<1>3. \A u \in Dispatched : witnessed[u] \subseteq Consoles
  <2>1. witnessed \in Seq(SUBSET Consoles) /\ DOMAIN witnessed = Dispatched BY TurnTypes
  <2> QED BY <2>1
<1>4. LinkKept(via, conn) => LinkKept(via', conn')
  <2> SUFFICES ASSUME LinkKept(via, conn), NEW d \in Consoles, via'[d] # NoConn
               PROVE  conn'[via'[d]] = "open"
    BY DEF LinkKept
  <2>1. CASE Opens(c)
    <3>1. PICK b \in Consoles : Connect(b, c) BY <2>1 DEF Opens
    <3>2. CASE d = b BY <3>1, <3>2 DEF Connect, TypeOK
    <3>3. CASE d # b
      <4>1. via'[d] = via[d] /\ conn[via[d]] = "open" BY <3>1, <3>3 DEF Connect, LinkKept, TypeOK
      <4>2. via[d] \in Conns BY <4>1 DEF TypeOK
      <4> QED BY <3>1, <4>1, <4>2 DEF Connect, TypeOK
    <3> QED BY <3>2, <3>3
  <2>2. CASE Hangup(c) \/ Forget(c)
    <3>1. via'[d] = via[d] /\ conn[via[d]] = "open" /\ via[d] # c
      BY <2>2 DEF Hangup, Forget, LinkKept
    <3>2. via[d] \in Conns BY <3>1 DEF TypeOK
    <3> QED BY <2>2, <3>1, <3>2 DEF Hangup, Forget, TypeOK
  <2> QED BY <2>1, <2>2
<1> QED BY <1>1, <1>2, <1>3, <1>4 DEF Quiet

\* A turn breaks off: every bubble with a word of it is left over.
LEMMA BubblesFail ==
  ASSUME TypeOK, BubblesKept, NEW t \in Dispatched, Fails(t)
  PROVE  Quiet
<1>1. PICK how \in {"crashed", "unavailable"} : Moves(t, how) BY DEF Fails
<1>2. /\ UNCHANGED <<conn, via, streaming, message, witnessed>> /\ turns'[t].said = turns[t].said
      /\ leftover \subseteq leftover'
      /\ Phase(t) = "asking" => \A b \in Consoles \ leftover' : ~Contains(streaming[b], t)
      /\ turns[t].phase \in {"queued", "asking"}
  BY DEF Fails, Starts, Phase
<1>3. ASSUME NEW b \in Consoles \ leftover', NEW i \in DOMAIN streaming[b],
             turns[streaming[b][i]].phase = "asking"
      PROVE  turns'[streaming[b][i]].phase = "asking"
  <2>1. streaming[b] \in Seq(Turns) BY DEF TypeOK
  <2>2. streaming[b][i] \in Dispatched BY BubblesNow, DOMAIN turns = Dispatched DEF SaidKept, Dispatched
  <2>3. streaming[b][i] # t
    <3>1. ASSUME streaming[b][i] = t PROVE FALSE
      <4>1. Contains(streaming[b], t) BY <2>1, <3>1 DEF Contains
      <4> QED BY <1>2, <1>3, <3>1, <4>1 DEF Phase
    <3> QED BY <3>1
  <2> QED BY <1>1, <1>3, <2>2, <2>3 DEF Moves
<1>4. \A u \in Dispatched' :
        /\ u \in Dispatched /\ turns'[u].said = turns[u].said
        /\ turns'[u].phase = "queued" => turns[u].phase = "queued"
        /\ turns'[u].phase = "asking" => turns[u].phase = "asking"
        /\ turns[u].phase \notin {"queued", "asking"} => turns'[u].phase \notin {"queued", "asking"}
  BY <1>1, <1>2 DEF Moves
<1> QED BY <1>2, <1>3, <1>4 DEF Quiet

LEMMA BubblesStep == TypeOK /\ TurnsKept /\ BubblesKept /\ [Next]_vars => BubblesKept'
<1> SUFFICES ASSUME TypeOK, TurnsKept, BubblesKept, [Next]_vars PROVE BubblesKept' OBVIOUS
<1>0. Lasts BY EveryStepLasts
<1>1. ASSUME NEW c \in Conns, Opens(c) \/ Hangup(c) \/ Forget(c) PROVE BubblesKept'
  BY <1>0, <1>1, BubblesConn, BubblesQuiet
<1>2. ASSUME NEW b \in Consoles, Drop(b) PROVE BubblesKept'
  BY <1>0, <1>2, BubblesDrop, BubblesQuiet
<1>3. ASSUME NEW c \in Conns, Dispatch(c) PROVE BubblesKept'
  <2>1. UNCHANGED <<conn, via, streaming, message, leftover>> BY <1>3 DEF Dispatch, store
  <2>2. /\ \A u \in Dispatched' :
             \/ u \in Dispatched /\ turns'[u] = turns[u] /\ witnessed'[u] = witnessed[u]
             \/ /\ u \notin Dispatched /\ turns'[u].said = 0
                /\ turns'[u].phase = "queued" /\ witnessed'[u] = {}
        /\ \A u \in Dispatched : turns'[u] = turns[u]
    BY <1>3, DispatchAdds
  <2>3. \A b \in Consoles : \A i \in DOMAIN streaming[b] : streaming[b][i] \in Dispatched
    BY BubblesNow DEF SaidKept, Dispatched
  <2>4. Quiet BY <2>1, <2>2, <2>3 DEF Quiet
  <2> QED BY <1>0, <2>4, BubblesQuiet
<1>4. ASSUME NEW t \in Dispatched, Begin(t) PROVE BubblesKept' BY <1>0, <1>4, BubblesBegin
<1>5. ASSUME NEW t \in Dispatched, Says(t) PROVE BubblesKept' BY <1>0, <1>5, BubblesSay
<1>6. ASSUME NEW t \in Dispatched, Answered(t) PROVE BubblesKept' BY <1>0, <1>6, BubblesAnswer
<1>7. ASSUME NEW t \in Dispatched, Store(t) PROVE BubblesKept'
  <2>1. Moves(t, "stored") /\ turns'[t].said = turns[t].said BY <1>7, StoreMoves
  <2>2. /\ UNCHANGED <<conn, via, streaming, message, witnessed, leftover>>
        /\ turns[t].phase = "answered"
    BY <1>7 DEF Store, store, Phase
  <2>3. \A b \in Consoles : \A i \in DOMAIN streaming[b] : streaming[b][i] \in Dispatched
    BY BubblesNow DEF SaidKept, Dispatched
  <2>4. Quiet BY <2>1, <2>2, <2>3 DEF Quiet, Moves
  <2> QED BY <1>0, <2>4, BubblesQuiet
<1>8. ASSUME NEW t \in Dispatched, Fails(t) PROVE BubblesKept'
  BY <1>0, <1>8, BubblesFail, BubblesQuiet
<1>9. CASE UNCHANGED vars
  BY <1>9, BubblesNow, BubblesNext DEF vars, server, store
<1> QED BY <1>1, <1>2, <1>3, <1>4, <1>5, <1>6, <1>7, <1>8, <1>9, Cases

-----------------------------------------------------------------------------
LEMMA ChatInit == Init => ChatInv
BY TurnsInit, HistoriesInit, BubblesInit DEF ChatInv

LEMMA ChatStep == TypeOK /\ ChatInv /\ [Next]_vars => ChatInv'
BY TurnsStep, HistoriesStep, BubblesStep DEF ChatInv

\* The order of the tasks, the histories and the bubbles hold together
\* (events/commands.py:43, api/handlers.py:112, agents/streaming.py:80).
THEOREM ChatCorrect == Spec => []ChatInv
BY InitType, TypeStep, ChatInit, ChatStep, PTL DEF Spec

LEMMA Lasting == TypeOK /\ ChatInv => ConversationIsKept
<1> SUFFICES ASSUME TypeOK, HistoriesKept PROVE ConversationIsKept BY DEF ChatInv
<1> SUFFICES ASSUME NEW c \in Conns
             PROVE  /\ \A i \in DOMAIN histories[c] :
                         /\ Of(histories[c][i]) = c /\ Phase(histories[c][i]) = "stored"
                         /\ i > 1 => histories[c][i - 1] < histories[c][i]
                    /\ conn[c] = "open" => \A t \in Dispatched :
                         (Of(t) = c /\ Phase(t) = "stored") =>
                           (Contains(histories[c], t) \/ Overwritten(t))
                    /\ (conn[c] = "closed" /\ histories[c] # NoHistory) =>
                         Last(histories[c]) \in late
  BY DEF ConversationIsKept
<1>1. DOMAIN histories[c] = 1 .. Len(histories[c]) BY DEF TypeOK
<1> QED BY <1>1 DEF HistoriesKept, Conversation

\* The copilot remembers its conversation (api/handlers.py:116 and 131, api/ws.py:124).
THEOREM ConversationLasts == Spec => []ConversationIsKept
BY TypeCorrect, ChatCorrect, Lasting, PTL

\* A message is one whole answer on a console that saw all of it over one connection and
\* had no words left over from before, unless another chat was in flight with it
\* (agents/streaming.py:80, frontend state/dispatch.ts:348, lib/ws.ts:107).
THEOREM OneAnswer == Spec => []MessageIsOneAnswer
<1>1. ChatInv => MessageIsOneAnswer BY DEF ChatInv, BubblesKept
<1> QED BY <1>1, ChatCorrect, PTL
=============================================================================
