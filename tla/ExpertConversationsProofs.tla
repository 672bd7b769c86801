--------------------- MODULE ExpertConversationsProofs ---------------------
(***************************************************************************)
(* Conversations with any bounds, keys and numbers of turns and attempts:  *)
(* one turn is active at a time, the answer of a turn is the work of its   *)
(* last attempt, the row charges what its turns charge and keeps its       *)
(* bounds, it agrees with turns and events, and what can be read changes   *)
(* only with the version.                                                  *)
(***************************************************************************)
EXTENDS ExpertConversations, FiniteSums, TLAPS

(* The rows have their fields; what they charge is left open.              *)
RowTyped ==
  conv \in [state : ConversationStates, version : {conv.version}, started : 0..MaxTurns,
            completed : {conv.completed}, calls : {conv.calls}, work : {conv.work},
            current : 0..MaxTurns, pending : {conv.pending}, deleted : {conv.deleted}]

TurnsTyped ==
  /\ turns = [t \in Turns |-> turns[t]]
  /\ \A t \in Turns :
       turns[t] \in [state : TurnStates \cup {"none"}, count : {turns[t].count},
                     trace : 0..MaxAttempts, calls : {turns[t].calls}, work : {turns[t].work},
                     artifact : 0..MaxAttempts]

AttemptsTyped ==
  /\ attempts \in [Attempts -> [state : TurnStates \cup {"none"}, turn : 0..MaxTurns]]
  /\ issued \in 0..MaxAttempts

(* The row points at the last turn, which alone may be active, and agrees  *)
(* with the log on the state.                                              *)
RowInv ==
  /\ history.state = conv.state
  /\ conv.state = "none" => conv.started = 0
  /\ conv.current \in {0, conv.started}
  /\ conv.current # 0 => turns[conv.current].state \in ActiveTurns

TurnInv ==
  \A t \in Turns :
    /\ turns[t].state = "none" <=> t > conv.started
    /\ turns[t].state \in ActiveTurns => t = conv.current
    /\ turns[t].artifact = IF turns[t].state \in CompletedTurns THEN turns[t].trace ELSE 0

(* The attempts of a turn: its trace is the last one of them, and if one   *)
(* is running it is that one, of a turn that runs.                         *)
TraceInv ==
  /\ \A t \in Turns : turns[t].state # "none" =>
       /\ turns[t].trace \in 1..issued
       /\ attempts[turns[t].trace].turn = t
       /\ turns[t].state = "running" => attempts[turns[t].trace].state = "running"
  /\ \A a \in Attempts : attempts[a].state # "none" \/ attempts[a].turn # 0 =>
       /\ a <= issued
       /\ attempts[a].turn \in 1..conv.started
       /\ a <= turns[attempts[a].turn].trace
       /\ attempts[a].state = "running" =>
            turns[attempts[a].turn].state = "running" /\ turns[attempts[a].turn].trace = a
  /\ conv.started # 0 => turns[conv.started].trace = issued
  /\ conv.started = 0 => issued = 0

ConvInv == RowTyped /\ TurnsTyped /\ AttemptsTyped /\ RowInv /\ TurnInv /\ TraceInv

StatesAreApart ==
  /\ ActiveTurns \cap CompletedTurns = {}
  /\ "none" \notin TurnStates
  /\ ActiveTurns \subseteq TurnStates /\ CompletedTurns \subseteq TurnStates

(* No state of a turn is both an active and a completed one.               *)
LEMMA StatesApart == StatesAreApart
BY DEF StatesAreApart, ActiveTurns, CompletedTurns, EndedTurns, TurnStates

-----------------------------------------------------------------------------
(* Before the first call there is no row and nothing is in use.            *)
LEMMA InitIsConvInv == ASSUME ConversationAssumption, ConvInit PROVE ConvInv
<1>1. MaxTurns \in Nat \ {0} /\ MaxAttempts \in Nat \ {0}
  BY DEF ConversationAssumption
<1>2. /\ conv = [state |-> "none", version |-> 0, started |-> 0, completed |-> 0,
                 calls |-> 0, work |-> 0, current |-> 0, pending |-> 0, deleted |-> FALSE]
      /\ turns = [t \in Turns |-> NoTurn]
      /\ attempts = [a \in Attempts |-> NoAttempt]
      /\ issued = 0 /\ history.state = "none"
  BY DEF ConvInit
<1>3. NoTurn = [state |-> "none", count |-> 0, trace |-> 0, calls |-> 0, work |-> 0, artifact |-> 0]
  <2>1. NewTurn(0) = [state |-> "running", count |-> 1, trace |-> 0, calls |-> 0, work |-> 0, artifact |-> 0]
    BY DEF NewTurn
  <2>2. [NewTurn(0) EXCEPT !.state = "none"]
          = [state |-> "none", count |-> 1, trace |-> 0, calls |-> 0, work |-> 0, artifact |-> 0]
    BY <2>1
  <2>3. NoTurn = [[NewTurn(0) EXCEPT !.state = "none"] EXCEPT !.count = 0]
    BY DEF NoTurn
  <2> QED BY <2>2, <2>3
<1>4. RowTyped
  BY <1>1, <1>2 DEF RowTyped, ConversationStates
<1>5. TurnsTyped
  BY <1>1, <1>2, <1>3 DEF TurnsTyped
<1>6. AttemptsTyped
  BY <1>1, <1>2 DEF AttemptsTyped, NoAttempt
<1>7. RowInv
  BY <1>2 DEF RowInv
<1>8. TurnInv
  BY <1>1, <1>2, <1>3 DEF TurnInv, Turns, ActiveTurns, CompletedTurns
<1>9. TraceInv
  BY <1>1, <1>2, <1>3 DEF TraceInv, NoAttempt
<1> QED BY <1>4, <1>5, <1>6, <1>7, <1>8, <1>9 DEF ConvInv

-----------------------------------------------------------------------------
(* A new attempt, of a new turn after the last one or of a turn that       *)
(* waits: it becomes the trace of its turn, and the turn the current one.  *)
LEMMA LeaseKeeps ==
  ASSUME ConversationAssumption, ConvInv, NEW t \in Turns, Lease(t),
         RowTyped', TurnsTyped',
         history'.state = conv'.state, conv'.state # "none",
         conv'.started = t, conv'.current = t,
         turns'[t].state = "running", turns'[t].trace = issued + 1, turns'[t].artifact = 0,
         \A u \in Turns : u # t => turns'[u] = turns[u],
         \/ t = conv.started + 1 /\ conv.current = 0
         \/ t = conv.started /\ conv.current = t /\ turns[t].state # "running"
  PROVE  ConvInv'
<1> USE DEF ConvInv
<1>1. /\ MaxAttempts \in Nat /\ MaxTurns \in Nat /\ issued \in Nat /\ conv.started \in Nat
      /\ issued + 1 \in Attempts /\ issued' = issued + 1 /\ t # 0
      /\ attempts' = [attempts EXCEPT ![issued + 1] = [state |-> "running", turn |-> t]]
  BY DEF Lease, AttemptsTyped, RowTyped, ConversationAssumption, Attempts, Turns
<1>2. AttemptsTyped'
  BY <1>1 DEF Lease, AttemptsTyped, TurnStates, ActiveTurns, Turns
<1>3. RowInv'
  BY <1>1 DEF RowInv, ActiveTurns
<1>4. TurnInv'
  <2> SUFFICES ASSUME NEW u \in Turns
               PROVE  /\ turns'[u].state = "none" <=> u > t
                      /\ turns'[u].state \in ActiveTurns => u = t
                      /\ turns'[u].artifact =
                           IF turns'[u].state \in CompletedTurns THEN turns'[u].trace ELSE 0
    BY DEF TurnInv
  <2>1. CASE u = t
    <3>1. u \in Nat /\ turns'[u].state = "running" /\ turns'[u].artifact = 0
      BY <2>1 DEF Turns
    <3>2. "running" \notin CompletedTurns /\ ~(u > t)
      BY <2>1, <3>1 DEF CompletedTurns
    <3> QED BY <2>1, <3>1, <3>2
  <2>2. CASE u # t
    <3>1. turns'[u] = turns[u] /\ u \in Nat \ {0} /\ t \in Nat \ {0}
      BY <2>2, <1>1 DEF Turns
    <3>2. /\ turns[u].state = "none" <=> u > conv.started
          /\ turns[u].state \in ActiveTurns => u = conv.current
          /\ turns[u].artifact = IF turns[u].state \in CompletedTurns THEN turns[u].trace ELSE 0
      BY DEF TurnInv
    <3>3. u > conv.started <=> u > t
      BY <1>1, <2>2, <3>1
    <3>4. turns[u].state \in ActiveTurns => u = t
      BY <3>1, <3>2
    <3> QED BY <3>1, <3>2, <3>3, <3>4
  <2> QED BY <2>1, <2>2
<1>5. TraceInv'
  <2>1. \A u \in Turns : turns'[u].state # "none" =>
          /\ turns'[u].trace \in 1..issued'
          /\ attempts'[turns'[u].trace].turn = u
          /\ turns'[u].state = "running" => attempts'[turns'[u].trace].state = "running"
    <3> SUFFICES ASSUME NEW u \in Turns, turns'[u].state # "none"
                 PROVE  /\ turns'[u].trace \in 1..issued'
                        /\ attempts'[turns'[u].trace].turn = u
                        /\ turns'[u].state = "running" => attempts'[turns'[u].trace].state = "running"
      OBVIOUS
    <3>1. CASE u = t
      BY <1>1, <3>1 DEF AttemptsTyped
    <3>2. CASE u # t
      <4>1. turns'[u] = turns[u]
        BY <3>2
      <4>2. turns[u].trace \in 1..issued /\ attempts[turns[u].trace].turn = u
            /\ (turns[u].state = "running" => attempts[turns[u].trace].state = "running")
        BY <4>1 DEF TraceInv
      <4>3. attempts'[turns[u].trace] = attempts[turns[u].trace]
        BY <1>1, <4>2 DEF AttemptsTyped, Attempts
      <4> QED BY <1>1, <4>1, <4>2, <4>3
    <3> QED BY <3>1, <3>2
  <2>2. \A a \in Attempts : attempts'[a].state # "none" \/ attempts'[a].turn # 0 =>
          /\ a <= issued'
          /\ attempts'[a].turn \in 1..conv'.started
          /\ a <= turns'[attempts'[a].turn].trace
          /\ attempts'[a].state = "running" =>
               turns'[attempts'[a].turn].state = "running" /\ turns'[attempts'[a].turn].trace = a
    <3> SUFFICES ASSUME NEW a \in Attempts, attempts'[a].state # "none" \/ attempts'[a].turn # 0
                 PROVE  /\ a <= issued'
                        /\ attempts'[a].turn \in 1..conv'.started
                        /\ a <= turns'[attempts'[a].turn].trace
                        /\ attempts'[a].state = "running" =>
                             /\ turns'[attempts'[a].turn].state = "running"
                             /\ turns'[attempts'[a].turn].trace = a
      OBVIOUS
    <3>1. CASE a = issued + 1
      BY <1>1, <3>1 DEF AttemptsTyped, Turns
    <3>2. CASE a # issued + 1
      <4>1. attempts'[a] = attempts[a]
        BY <1>1, <3>2 DEF AttemptsTyped
      <4>2. /\ a <= issued /\ attempts[a].turn \in 1..conv.started
            /\ a <= turns[attempts[a].turn].trace
            /\ attempts[a].state = "running" =>
                 turns[attempts[a].turn].state = "running" /\ turns[attempts[a].turn].trace = a
        BY <4>1 DEF TraceInv
      <4>3. attempts[a].turn \in Turns /\ a \in Nat
        BY <1>1, <4>2 DEF Turns, Attempts, RowTyped
      <4>4. attempts[a].turn # t => turns'[attempts[a].turn] = turns[attempts[a].turn]
        BY <4>3
      <4> QED BY <1>1, <4>1, <4>2, <4>3, <4>4
    <3> QED BY <3>1, <3>2
  <2>3. conv'.started # 0 /\ turns'[conv'.started].trace = issued'
    BY <1>1
  <2> QED BY <2>1, <2>2, <2>3 DEF TraceInv
<1> QED BY <1>2, <1>3, <1>4, <1>5

-----------------------------------------------------------------------------
(* The end of the attempt that runs: its turn takes its state.             *)
LEMMA EndAttemptKeeps ==
  ASSUME ConversationAssumption, ConvInv, NEW a \in Attempts, Owns(a),
         NEW t, t = attempts[a].turn,
         NEW s \in TurnStates, s # "running",
         RowTyped', TurnsTyped', AttemptsTyped', issued' = issued,
         attempts'[a].state = s, attempts'[a].turn = t,
         \A b \in Attempts : b # a => attempts'[b] = attempts[b],
         history'.state = conv'.state, conv'.state # "none",
         conv'.started = conv.started,
         conv'.current = IF s \in ActiveTurns THEN t ELSE 0,
         turns'[t].state = s, turns'[t].trace = turns[t].trace,
         turns'[t].artifact = IF s \in CompletedTurns THEN a ELSE 0,
         \A u \in Turns : u # t => turns'[u] = turns[u]
  PROVE  ConvInv'
<1> USE DEF ConvInv
<1>1. /\ attempts[a].state = "running" /\ turns[t].state = "running"
      /\ conv.current = t /\ turns[t].trace = a
  BY DEF Owns
<1>2. /\ t \in 1..conv.started /\ t \in Turns /\ t = conv.started /\ t # 0
      /\ conv.started \in 0..MaxTurns /\ MaxTurns \in Nat
  BY <1>1 DEF TraceInv, RowInv, RowTyped, Turns, ConversationAssumption
<1>3. /\ attempts'[a].state = s /\ attempts'[a].turn = t
      /\ \A b \in Attempts : b # a => attempts'[b] = attempts[b]
      /\ \A b \in Attempts : attempts'[b].turn = attempts[b].turn
  OBVIOUS
<1>4. RowInv'
  BY <1>2 DEF RowInv
<1>5. TurnInv'
  <2> SUFFICES ASSUME NEW u \in Turns
               PROVE  /\ turns'[u].state = "none" <=> u > conv'.started
                      /\ turns'[u].state \in ActiveTurns => u = conv'.current
                      /\ turns'[u].artifact =
                           IF turns'[u].state \in CompletedTurns THEN turns'[u].trace ELSE 0
    BY DEF TurnInv
  <2>1. CASE u = t
    <3>1. s # "none" /\ ~(u > conv'.started)
      BY <1>2, <2>1, StatesApart DEF StatesAreApart
    <3> QED BY <1>1, <2>1, <3>1
  <2>2. CASE u # t
    <3>1. turns'[u] = turns[u] /\ turns[u].state \notin ActiveTurns
      BY <1>1, <2>2 DEF TurnInv
    <3> QED BY <3>1 DEF TurnInv
  <2> QED BY <2>1, <2>2
<1>6. TraceInv'
  <2>1. \A u \in Turns : turns'[u].state # "none" =>
          /\ turns'[u].trace \in 1..issued'
          /\ attempts'[turns'[u].trace].turn = u
          /\ turns'[u].state = "running" => attempts'[turns'[u].trace].state = "running"
    <3> SUFFICES ASSUME NEW u \in Turns, turns'[u].state # "none"
                 PROVE  /\ turns'[u].trace \in 1..issued'
                        /\ attempts'[turns'[u].trace].turn = u
                        /\ turns'[u].state = "running" => attempts'[turns'[u].trace].state = "running"
      OBVIOUS
    <3>1. CASE u = t
      <4>1. turns[t].trace \in 1..issued
        BY <1>1, <1>2 DEF TraceInv
      <4> QED BY <1>1, <1>3, <3>1, <4>1
    <3>2. CASE u # t
      <4>1. turns'[u] = turns[u]
        BY <3>2
      <4>2. turns[u].trace \in 1..issued /\ attempts[turns[u].trace].turn = u
            /\ (turns[u].state = "running" => attempts[turns[u].trace].state = "running")
        BY <4>1 DEF TraceInv
      <4>3. turns[u].trace \in Attempts /\ turns[u].trace # a
        BY <3>2, <4>2 DEF AttemptsTyped, Attempts
      <4> QED BY <1>3, <4>1, <4>2, <4>3
    <3> QED BY <3>1, <3>2
  <2>2. \A b \in Attempts : attempts'[b].state # "none" \/ attempts'[b].turn # 0 =>
          /\ b <= issued'
          /\ attempts'[b].turn \in 1..conv'.started
          /\ b <= turns'[attempts'[b].turn].trace
          /\ attempts'[b].state = "running" =>
               turns'[attempts'[b].turn].state = "running" /\ turns'[attempts'[b].turn].trace = b
    <3> SUFFICES ASSUME NEW b \in Attempts, attempts'[b].state # "none" \/ attempts'[b].turn # 0
                 PROVE  /\ b <= issued'
                        /\ attempts'[b].turn \in 1..conv'.started
                        /\ b <= turns'[attempts'[b].turn].trace
                        /\ attempts'[b].state = "running" =>
                             /\ turns'[attempts'[b].turn].state = "running"
                             /\ turns'[attempts'[b].turn].trace = b
      OBVIOUS
    <3>1. attempts[b].state # "none" \/ attempts[b].turn # 0
      BY <1>1, <1>2, <1>3
    <3>2. /\ b <= issued /\ attempts[b].turn \in 1..conv.started
          /\ b <= turns[attempts[b].turn].trace
          /\ attempts[b].state = "running" =>
               turns[attempts[b].turn].state = "running" /\ turns[attempts[b].turn].trace = b
      BY <3>1 DEF TraceInv
    <3>3. attempts[b].turn \in Turns
      BY <1>2, <3>2 DEF Turns
    <3>4. turns'[attempts[b].turn].trace = turns[attempts[b].turn].trace
      BY <3>3
    <3>5. ASSUME attempts'[b].state = "running"
          PROVE  turns'[attempts'[b].turn].state = "running" /\ turns'[attempts'[b].turn].trace = b
      <4>1. b # a /\ attempts[b].state = "running"
        BY <1>3, <3>5
      <4>2. attempts[b].turn # t
        BY <1>1, <3>2, <4>1
      <4> QED BY <1>3, <3>2, <3>3, <4>1, <4>2
    <3> QED BY <1>3, <3>2, <3>4, <3>5
  <2>3. conv'.started # 0 /\ turns'[conv'.started].trace = issued'
    BY <1>2 DEF TraceInv
  <2> QED BY <2>1, <2>2, <2>3 DEF TraceInv
<1> QED BY <1>4, <1>5, <1>6

-----------------------------------------------------------------------------
(* A row without a current turn: if there was one it waited, and is        *)
(* cancelled.                                                              *)
LEMMA RowOnlyKeeps ==
  ASSUME ConversationAssumption, ConvInv, RowTyped', TurnsTyped',
         attempts' = attempts, issued' = issued,
         history'.state = conv'.state, conv'.state # "none",
         conv'.started = conv.started, conv'.current = 0,
         conv.current # 0 => turns[conv.current].state # "running",
         \A u \in Turns :
           /\ u = conv.current => turns'[u].state = "cancelled"
           /\ u # conv.current => turns'[u].state = turns[u].state
           /\ turns'[u].trace = turns[u].trace /\ turns'[u].artifact = turns[u].artifact
  PROVE  ConvInv'
<1> USE DEF ConvInv
<1>1. AttemptsTyped' /\ RowInv'
  BY DEF AttemptsTyped, RowInv
<1>2. TurnInv'
  <2> SUFFICES ASSUME NEW u \in Turns
               PROVE  /\ turns'[u].state = "none" <=> u > conv'.started
                      /\ turns'[u].state \in ActiveTurns => u = conv'.current
                      /\ turns'[u].artifact =
                           IF turns'[u].state \in CompletedTurns THEN turns'[u].trace ELSE 0
    BY DEF TurnInv
  <2>1. /\ turns[u].state = "none" <=> u > conv.started
        /\ turns[u].state \in ActiveTurns => u = conv.current
        /\ turns[u].artifact = IF turns[u].state \in CompletedTurns THEN turns[u].trace ELSE 0
    BY DEF TurnInv
  <2>2. CASE u = conv.current
    <3>1. turns[u].state \in ActiveTurns
      BY <2>2 DEF RowInv, Turns
    <3>2. turns[u].state \notin CompletedTurns /\ turns[u].state # "none"
      BY <3>1, StatesApart DEF StatesAreApart
    <3>3. turns'[u].state = "cancelled" /\ "cancelled" \notin ActiveTurns \cup CompletedTurns
      BY <2>2 DEF ActiveTurns, CompletedTurns
    <3> QED BY <2>1, <3>2, <3>3
  <2>3. CASE u # conv.current
    BY <2>1, <2>3
  <2> QED BY <2>2, <2>3
<1>3. TraceInv'
  <2>1. \A u \in Turns : (turns'[u].state = "running" <=> turns[u].state = "running")
                         /\ turns'[u].trace = turns[u].trace
                         /\ (turns'[u].state # "none" => turns[u].state # "none")
    <3> SUFFICES ASSUME NEW u \in Turns
                 PROVE  (turns'[u].state = "running" <=> turns[u].state = "running")
                        /\ turns'[u].trace = turns[u].trace
                        /\ (turns'[u].state # "none" => turns[u].state # "none")
      OBVIOUS
    <3>1. u # 0 /\ (u = conv.current => turns[u].state \in ActiveTurns)
      BY DEF RowInv, Turns
    <3>2. "none" \notin ActiveTurns
      BY DEF ActiveTurns
    <3> QED BY <3>1, <3>2
  <2>2. \A b \in Attempts : attempts[b].state # "none" \/ attempts[b].turn # 0 => attempts[b].turn \in Turns
    <3>1. MaxTurns \in Nat /\ conv.started \in 0..MaxTurns
      BY DEF ConversationAssumption, RowTyped
    <3> QED BY <3>1 DEF TraceInv, Turns
  <2>3. conv.started # 0 => conv.started \in Turns
    BY DEF RowTyped, Turns
  <2>4. \A u \in Turns : turns'[u].state # "none" =>
          /\ turns'[u].trace \in 1..issued'
          /\ attempts'[turns'[u].trace].turn = u
          /\ turns'[u].state = "running" => attempts'[turns'[u].trace].state = "running"
    BY <2>1 DEF TraceInv
  <2>5. \A b \in Attempts : attempts'[b].state # "none" \/ attempts'[b].turn # 0 =>
          /\ b <= issued'
          /\ attempts'[b].turn \in 1..conv'.started
          /\ b <= turns'[attempts'[b].turn].trace
          /\ attempts'[b].state = "running" =>
               turns'[attempts'[b].turn].state = "running" /\ turns'[attempts'[b].turn].trace = b
    BY <2>1, <2>2 DEF TraceInv
  <2>6. (conv'.started # 0 => turns'[conv'.started].trace = issued')
        /\ (conv'.started = 0 => issued' = 0)
    BY <2>1, <2>3 DEF TraceInv
  <2> QED BY <2>4, <2>5, <2>6 DEF TraceInv
<1> QED BY <1>1, <1>2, <1>3

-----------------------------------------------------------------------------
(* The steps *)

(* The row of turn t is replaced by another row.                           *)
LEMMA TurnReplaced ==
  ASSUME ConvInv, NEW t \in Turns, NEW r, turns' = [turns EXCEPT ![t] = r],
         r \in [state : TurnStates \cup {"none"}, count : {r.count}, trace : 0..MaxAttempts,
               calls : {r.calls}, work : {r.work}, artifact : 0..MaxAttempts]
  PROVE  TurnsTyped' /\ turns'[t] = r /\ \A u \in Turns : u # t => turns'[u] = turns[u]
<1>1. turns'[t] = r /\ \A u \in Turns : u # t => turns'[u] = turns[u]
  BY DEF ConvInv, TurnsTyped
<1>2. turns' = [u \in Turns |-> turns'[u]]
  BY DEF ConvInv, TurnsTyped
<1>3. ASSUME NEW u \in Turns
      PROVE  turns'[u] \in [state : TurnStates \cup {"none"}, count : {turns'[u].count},
                            trace : 0..MaxAttempts, calls : {turns'[u].calls},
                            work : {turns'[u].work}, artifact : 0..MaxAttempts]
  <2>1. CASE u = t
    BY <1>1, <2>1
  <2>2. CASE u # t
    BY <1>1, <2>2 DEF ConvInv, TurnsTyped
  <2> QED BY <2>1, <2>2
<1> QED BY <1>1, <1>2, <1>3 DEF TurnsTyped

(* A new turn is charged nothing.                                          *)
LEMMA NewTurnIs ==
  ASSUME NEW a
  PROVE  NewTurn(a) = [state |-> "running", count |-> 1, trace |-> a, calls |-> 0, work |-> 0,
                       artifact |-> 0]
BY DEF NewTurn

(* A row with its fields is the record of them.                            *)
IsRow(q) == q = [state |-> q.state, version |-> q.version, started |-> q.started,
                 completed |-> q.completed, calls |-> q.calls, work |-> q.work,
                 current |-> q.current, pending |-> q.pending, deleted |-> q.deleted]

(* The row of a conversation has the fields and ranges of its type.        *)
LEMMA RowFields ==
  ASSUME ConvInv
  PROVE  /\ IsRow(conv) /\ conv.state \in ConversationStates
         /\ conv.started \in 0..MaxTurns /\ conv.current \in 0..MaxTurns
BY DEF ConvInv, RowTyped, IsRow

(* A row with fields in their ranges is of its type.                       *)
LEMMA RowIsTyped ==
  ASSUME IsRow(conv'), conv'.state \in ConversationStates,
         conv'.started \in 0..MaxTurns, conv'.current \in 0..MaxTurns
  PROVE  RowTyped'
BY DEF RowTyped, IsRow

(* The same of a turn.                                                     *)
IsTurn(q) ==
  q = [state |-> q.state, count |-> q.count, trace |-> q.trace, calls |-> q.calls,
       work |-> q.work, artifact |-> q.artifact]

(* The same of a turn: its fields are in their ranges.                     *)
LEMMA TurnFields ==
  ASSUME ConvInv, NEW t \in Turns
  PROVE  /\ IsTurn(turns[t]) /\ turns[t].state \in TurnStates \cup {"none"}
         /\ turns[t].trace \in 0..MaxAttempts /\ turns[t].artifact \in 0..MaxAttempts
BY DEF ConvInv, TurnsTyped, IsTurn

(* A turn with fields in their ranges is of its type.                      *)
LEMMA TurnIsTyped ==
  ASSUME NEW r, IsTurn(r), r.state \in TurnStates \cup {"none"},
         r.trace \in 0..MaxAttempts, r.artifact \in 0..MaxAttempts
  PROVE  r \in [state : TurnStates \cup {"none"}, count : {r.count}, trace : 0..MaxAttempts,
                calls : {r.calls}, work : {r.work}, artifact : 0..MaxAttempts]
BY DEF IsTurn

(* Starting a conversation leases the first attempt to the first turn.     *)
LEMMA StartStep == ASSUME ConversationAssumption, ConvInv, ReserveStart PROVE ConvInv'
<1>1. /\ conv.state = "none" /\ conv.started = 0 /\ conv.current = 0 /\ issued = 0
      /\ MaxTurns \in Nat \ {0} /\ MaxAttempts \in Nat \ {0} /\ 1 \in Turns
      /\ Lease(1)
  BY DEF ReserveStart, ConvInv, RowInv, TraceInv, RowTyped, ConversationAssumption, Turns
<1>2. /\ turns' = [turns EXCEPT ![1] = NewTurn(1)]
      /\ conv' = [conv EXCEPT !.state = "open", !.version = 1, !.started = 1, !.current = 1]
      /\ history'.state = conv'.state
  BY DEF ReserveStart, Logged
<1>3. RowTyped' /\ conv'.state = "open" /\ conv'.started = 1 /\ conv'.current = 1
  <2>1. IsRow(conv)
    BY RowFields
  <2>2. IsRow(conv') /\ conv'.state = "open" /\ conv'.started = 1 /\ conv'.current = 1
    BY <1>2, <2>1 DEF IsRow
  <2> QED BY <1>1, <2>2, RowIsTyped DEF ConversationStates
<1>4. TurnsTyped' /\ turns'[1] = NewTurn(1) /\ \A u \in Turns : u # 1 => turns'[u] = turns[u]
  <2>1. NewTurn(1) \in [state : TurnStates \cup {"none"}, count : {NewTurn(1).count},
                        trace : 0..MaxAttempts, calls : {NewTurn(1).calls},
                        work : {NewTurn(1).work}, artifact : 0..MaxAttempts]
    BY <1>1, NewTurnIs DEF TurnStates, ActiveTurns
  <2> QED BY <1>1, <1>2, <2>1, TurnReplaced
<1>5. turns'[1].state = "running" /\ turns'[1].trace = issued + 1 /\ turns'[1].artifact = 0
  BY <1>1, <1>4, NewTurnIs
<1> QED BY <1>1, <1>2, <1>3, <1>4, <1>5, LeaseKeeps

(* Continuing leases the next attempt to the next turn, only when none is  *)
(* active.                                                                 *)
LEMMA ContinueStep ==
  ASSUME ConversationAssumption, ConvInv, NEW k, NEW v, NEW input, ReserveContinue(k, v, input)
  PROVE  ConvInv'
<1> DEFINE t == conv.started + 1
<1>1. /\ conv.current = 0 /\ conv.started < MaxTurns /\ conv.started \in Nat
      /\ MaxTurns \in Nat \ {0} /\ MaxAttempts \in Nat \ {0} /\ t \in Turns
      /\ Lease(t)
      /\ turns' = [turns EXCEPT ![t] = NewTurn(issued + 1)]
      /\ conv' = [conv EXCEPT !.state = "open", !.version = @ + 1, !.started = t,
                              !.current = t, !.pending = 0]
      /\ history'.state = conv'.state
  BY DEF ReserveContinue, HasCapacity, Logged, ConvInv, RowTyped, ConversationAssumption, Turns
<1> HIDE DEF t
<1>2. issued \in Nat /\ issued + 1 \in 0..MaxAttempts
  BY <1>1 DEF Lease, ConvInv, AttemptsTyped
<1>3. RowTyped' /\ conv'.state = "open" /\ conv'.started = t /\ conv'.current = t
  <2>1. IsRow(conv)
    BY RowFields
  <2>2. IsRow(conv') /\ conv'.state = "open" /\ conv'.started = t /\ conv'.current = t
    BY <1>1, <2>1 DEF IsRow
  <2> QED BY <1>1, <2>2, RowIsTyped DEF ConversationStates, Turns
<1>4. TurnsTyped' /\ turns'[t] = NewTurn(issued + 1) /\ \A u \in Turns : u # t => turns'[u] = turns[u]
  <2> DEFINE r == NewTurn(issued + 1)
  <2>1. r \in [state : TurnStates \cup {"none"}, count : {r.count}, trace : 0..MaxAttempts,
               calls : {r.calls}, work : {r.work}, artifact : 0..MaxAttempts]
    BY <1>1, <1>2, NewTurnIs DEF TurnStates, ActiveTurns
  <2> HIDE DEF r
  <2>2. turns' = [turns EXCEPT ![t] = r]
    BY <1>1 DEF r
  <2>3. TurnsTyped' /\ turns'[t] = r /\ \A u \in Turns : u # t => turns'[u] = turns[u]
    BY <1>1, <2>1, <2>2, TurnReplaced
  <2> QED BY <2>3 DEF r
<1>5. turns'[t].state = "running" /\ turns'[t].trace = issued + 1 /\ turns'[t].artifact = 0
  BY <1>4, NewTurnIs
<1>6. t = conv.started + 1
  BY DEF t
<1> QED BY <1>1, <1>3, <1>4, <1>5, <1>6, LeaseKeeps

(* Resuming leases the next attempt to the turn that waits.                *)
LEMMA ResumeStep ==
  ASSUME ConversationAssumption, ConvInv, NEW k, NEW v, ReserveResume(k, v)
  PROVE  ConvInv'
<1> DEFINE t == conv.current
<1>1. /\ t # 0 /\ turns[t].state \in {"waiting_capacity", "interrupted"}
      /\ Lease(t)
      /\ turns' = [turns EXCEPT ![t].state = "running", ![t].count = @ + 1, ![t].trace = issued + 1]
      /\ conv' = [conv EXCEPT !.state = "open", !.version = @ + 1]
      /\ history'.state = conv'.state
  BY DEF ReserveResume, Logged
<1>2. /\ t \in Turns /\ t = conv.started /\ conv.current = t
      /\ issued + 1 \in 0..MaxAttempts /\ turns[t].state # "running"
  BY <1>1 DEF Lease, ConvInv, AttemptsTyped, RowInv, RowTyped, ConversationAssumption, Turns
<1> HIDE DEF t
<1>3. RowTyped' /\ conv'.state = "open" /\ conv'.started = t /\ conv'.current = t
  BY <1>1, <1>2 DEF ConvInv, RowTyped, ConversationStates
<1>4. /\ TurnsTyped'
      /\ turns'[t].state = "running" /\ turns'[t].trace = issued + 1
      /\ turns'[t].artifact = turns[t].artifact
      /\ \A u \in Turns : u # t => turns'[u] = turns[u]
  <2> DEFINE q == turns[t]
             q1 == [q EXCEPT !.state = "running"]
             q2 == [q1 EXCEPT !.count = @ + 1]
             r == [q2 EXCEPT !.trace = issued + 1]
  <2>1. turns' = [turns EXCEPT ![t] = r]
    BY <1>1, <1>2 DEF ConvInv, TurnsTyped
  <2>2. IsTurn(q) /\ q.artifact \in 0..MaxAttempts
    BY <1>2, TurnFields
  <2> HIDE DEF q
  <2>3. IsTurn(q1) /\ q1.state = "running" /\ q1.artifact = q.artifact
    BY <2>2 DEF IsTurn
  <2> HIDE DEF q1
  <2>4. IsTurn(q2) /\ q2.state = "running" /\ q2.artifact = q.artifact
    BY <2>3 DEF IsTurn
  <2> HIDE DEF q2
  <2>5. IsTurn(r) /\ r.state = "running" /\ r.artifact = q.artifact /\ r.trace = issued + 1
    BY <2>4 DEF IsTurn
  <2> HIDE DEF r
  <2>6. r \in [state : TurnStates \cup {"none"}, count : {r.count}, trace : 0..MaxAttempts,
               calls : {r.calls}, work : {r.work}, artifact : 0..MaxAttempts]
    BY <1>2, <2>2, <2>5, TurnIsTyped DEF TurnStates, ActiveTurns
  <2>7. TurnsTyped' /\ turns'[t] = r /\ \A u \in Turns : u # t => turns'[u] = turns[u]
    BY <1>2, <2>1, <2>6, TurnReplaced
  <2> QED BY <2>5, <2>7 DEF q
<1>5. turns[t].artifact = 0
  BY <1>1, <1>2 DEF ConvInv, TurnInv, CompletedTurns
<1>6. turns'[t].artifact = 0
  BY <1>4, <1>5
<1> QED BY <1>1, <1>2, <1>3, <1>4, <1>6, LeaseKeeps

(* What a report can say of a turn.                                        *)
Reported == TurnStates \ {"running", "interrupted"}

(* The projection of a result points at its turn exactly when that is      *)
(* active.                                                                 *)
LEMMA ProjectionIs ==
  ASSUME NEW s \in Reported, NEW t
  PROVE  /\ Projection(s, t).state \in ConversationStates \ {"none"}
         /\ Projection(s, t).current = IF s \in ActiveTurns THEN t ELSE 0
<1>1. CASE s = "completed"
  BY <1>1 DEF Projection, ConversationStates, ActiveTurns
<1>2. CASE s = "input_required"
  BY <1>2 DEF Projection, ConversationStates, ActiveTurns
<1>3. CASE s = "waiting_capacity"
  BY <1>3 DEF Projection, ConversationStates, ActiveTurns
<1>4. CASE s = "cancelled"
  BY <1>4 DEF Projection, ConversationStates, TerminalConversations, ActiveTurns
<1>5. CASE s \in {"budget_exhausted", "verifier_failed", "failed"}
  BY <1>5 DEF Projection, ConversationStates, TerminalConversations, ActiveTurns
<1> QED BY <1>1, <1>2, <1>3, <1>4, <1>5
    DEF Reported, TurnStates, CompletedTurns, ActiveTurns, EndedTurns

(* The turn of the attempt that runs is the last one, and the attempt the  *)
(* one its turn points at.                                                 *)
LEMMA OwnedTurn ==
  ASSUME ConversationAssumption, ConvInv, NEW a \in Attempts, attempts[a].state = "running"
  PROVE  /\ Owns(a) /\ attempts[a].turn \in Turns /\ attempts[a].turn # 0
         /\ turns[attempts[a].turn].artifact = 0
<1>1. /\ attempts[a].turn \in 1..conv.started
      /\ turns[attempts[a].turn].state = "running" /\ turns[attempts[a].turn].trace = a
  BY DEF ConvInv, TraceInv
<1>2. MaxTurns \in Nat /\ conv.started \in 0..MaxTurns
  BY RowFields DEF ConversationAssumption
<1>3. attempts[a].turn \in Turns /\ attempts[a].turn # 0
  BY <1>1, <1>2 DEF Turns
<1>4. conv.current = attempts[a].turn /\ turns[attempts[a].turn].artifact = 0
  BY <1>1, <1>3 DEF ConvInv, TurnInv, ActiveTurns, CompletedTurns
<1> QED BY <1>1, <1>3, <1>4 DEF Owns

(* Charging a row moves none of its pointers.                              *)
LEMMA ChargedRow ==
  ASSUME NEW q, NEW u, IsRow(q)
  PROVE  /\ IsRow(Charge(q, u)) /\ Charge(q, u).started = q.started
         /\ Charge(q, u).current = q.current
<1> DEFINE x == q.calls + u.calls
           y == q.work + u.work
           c == [q EXCEPT !.calls = x, !.work = y]
<1>1. Charge(q, u) = c /\ c = [q EXCEPT !.calls = x, !.work = y]
  BY DEF Charge
<1> HIDE DEF x, y, c
<1>2. IsRow(c) /\ c.started = q.started /\ c.current = q.current
  BY <1>1 DEF IsRow
<1> QED BY <1>1, <1>2

(* Charging a turn moves none of its pointers.                             *)
LEMMA ChargedTurn ==
  ASSUME NEW q, NEW u, IsTurn(q)
  PROVE  /\ IsTurn(Charge(q, u)) /\ Charge(q, u).trace = q.trace
         /\ Charge(q, u).artifact = q.artifact
<1> DEFINE x == q.calls + u.calls
           y == q.work + u.work
           c == [q EXCEPT !.calls = x, !.work = y]
<1>1. Charge(q, u) = c /\ c = [q EXCEPT !.calls = x, !.work = y]
  BY DEF Charge
<1> HIDE DEF x, y, c
<1>2. IsTurn(c) /\ c.trace = q.trace /\ c.artifact = q.artifact
  BY <1>1 DEF IsTurn
<1> QED BY <1>1, <1>2

(* Applying the result of the attempt that owns its turn ends that         *)
(* attempt.                                                                *)
LEMMA ApplyStep ==
  ASSUME ConversationAssumption, ConvInv, NEW a \in Attempts, Owns(a),
         NEW result \in Reported, NEW u, ApplyResult(a, result, u), issued' = issued
  PROVE  ConvInv'
<1> DEFINE t == attempts[a].turn
           s == IF WithinBounds(result, u) THEN result ELSE "verifier_failed"
           kept == s \in CompletedTurns
           seen == Projection(s, t)
<1>1. /\ turns' = [turns EXCEPT ![t] =
            [Charge(@, u) EXCEPT !.state = s, !.artifact = IF kept THEN a ELSE 0]]
      /\ attempts' = [attempts EXCEPT ![a].state = s]
      /\ conv' = [Charge(conv, u) EXCEPT
            !.state = seen.state, !.version = @ + 1, !.current = seen.current,
            !.pending = seen.pending, !.completed = IF kept THEN @ + 1 ELSE @]
      /\ history'.state = conv'.state
  BY DEF ApplyResult, Logged
<1>2. s \in Reported
  BY DEF Reported, TurnStates, EndedTurns
<1>3. /\ seen.state \in ConversationStates \ {"none"}
      /\ seen.current = IF s \in ActiveTurns THEN t ELSE 0
  BY <1>2, ProjectionIs
<1>4. t \in Turns /\ t # 0 /\ MaxTurns \in Nat /\ MaxAttempts \in Nat /\ t \in 0..MaxTurns
      /\ a \in 0..MaxAttempts
  BY OwnedTurn DEF Owns, ConversationAssumption, Turns, Attempts
<1> HIDE DEF s, seen
<1>5. RowTyped' /\ conv'.state # "none" /\ conv'.started = conv.started
      /\ conv'.current = seen.current
  <2> DEFINE c == Charge(conv, u)
  <2>1. IsRow(conv) /\ conv.started \in 0..MaxTurns
    BY RowFields
  <2>2. IsRow(c) /\ c.started = conv.started
    BY <2>1, ChargedRow
  <2>3. conv' = [c EXCEPT !.state = seen.state, !.version = @ + 1, !.current = seen.current,
                          !.pending = seen.pending, !.completed = IF kept THEN @ + 1 ELSE @]
    BY <1>1
  <2> HIDE DEF c
  <2>4. /\ IsRow(conv') /\ conv'.state = seen.state /\ conv'.started = c.started
        /\ conv'.current = seen.current
    BY <2>2, <2>3 DEF IsRow
  <2> QED BY <1>3, <1>4, <2>1, <2>2, <2>4, RowIsTyped
<1>6. /\ TurnsTyped'
      /\ turns'[t].state = s /\ turns'[t].trace = turns[t].trace
      /\ turns'[t].artifact = IF kept THEN a ELSE 0
      /\ \A v \in Turns : v # t => turns'[v] = turns[v]
  <2> DEFINE q == turns[t]
             c == Charge(q, u)
             by == IF kept THEN a ELSE 0
             r == [c EXCEPT !.state = s, !.artifact = by]
  <2>1. turns' = [turns EXCEPT ![t] = r]
    BY <1>1, <1>4 DEF ConvInv, TurnsTyped
  <2>2. IsTurn(q) /\ q.trace \in 0..MaxAttempts
    BY <1>4, TurnFields
  <2> HIDE DEF q
  <2>3. IsTurn(c) /\ c.trace = q.trace
    BY <2>2, ChargedTurn
  <2> HIDE DEF c
  <2>4. by = IF kept THEN a ELSE 0
    BY DEF by
  <2> HIDE DEF by
  <2>5. r = [c EXCEPT !.state = s, !.artifact = by]
    BY DEF r
  <2> HIDE DEF r
  <2>6. IsTurn(r) /\ r.state = s /\ r.trace = c.trace /\ r.artifact = by
    BY <2>3, <2>5 DEF IsTurn
  <2>7. r.state \in TurnStates \cup {"none"} /\ r.artifact \in 0..MaxAttempts
    BY <1>2, <1>4, <2>6, <2>4 DEF Reported
  <2>8. r \in [state : TurnStates \cup {"none"}, count : {r.count}, trace : 0..MaxAttempts,
               calls : {r.calls}, work : {r.work}, artifact : 0..MaxAttempts]
    BY <2>2, <2>3, <2>6, <2>7, TurnIsTyped
  <2>9. TurnsTyped' /\ turns'[t] = r /\ \A v \in Turns : v # t => turns'[v] = turns[v]
    BY <1>4, <2>1, <2>8, TurnReplaced
  <2> QED BY <2>3, <2>6, <2>9, <2>4 DEF q
<1>7. s \in TurnStates /\ s # "running"
  BY <1>2 DEF Reported
<1>8. /\ AttemptsTyped' /\ attempts'[a].state = s /\ attempts'[a].turn = t
      /\ \A b \in Attempts : b # a => attempts'[b] = attempts[b]
  BY <1>1, <1>7 DEF ConvInv, AttemptsTyped
<1> HIDE DEF t
<1>9. t = attempts[a].turn
  BY DEF t
<1> QED BY <1>1, <1>3, <1>5, <1>6, <1>7, <1>9, <1>8, EndAttemptKeeps

(* Interrupting the attempt that owns its turn ends that attempt.          *)
LEMMA InterruptStep ==
  ASSUME ConversationAssumption, ConvInv, NEW a \in Attempts, Owns(a),
         InterruptExpired(a), issued' = issued
  PROVE  ConvInv'
<1> DEFINE t == attempts[a].turn
<1>1. /\ turns' = [turns EXCEPT ![t] = [Charge(@, Usage(1, 0)) EXCEPT !.state = "interrupted"]]
      /\ attempts' = [attempts EXCEPT ![a].state = "interrupted"]
      /\ conv' = [Charge(conv, Usage(1, 0)) EXCEPT !.state = "waiting_capacity", !.version = @ + 1]
      /\ history'.state = conv'.state
  BY DEF InterruptExpired, Logged
<1>2. t \in Turns /\ turns[t].artifact = 0 /\ conv.current = t
  BY OwnedTurn DEF Owns
<1>3. /\ RowTyped' /\ conv'.state = "waiting_capacity" /\ conv'.started = conv.started
      /\ conv'.current = conv.current
  <2> DEFINE c == Charge(conv, Usage(1, 0))
  <2>1. IsRow(conv) /\ conv.started \in 0..MaxTurns /\ conv.current \in 0..MaxTurns
    BY RowFields
  <2>2. IsRow(c) /\ c.started = conv.started /\ c.current = conv.current
    BY <2>1, ChargedRow
  <2>3. conv' = [c EXCEPT !.state = "waiting_capacity", !.version = @ + 1]
    BY <1>1
  <2> HIDE DEF c
  <2>4. /\ IsRow(conv') /\ conv'.state = "waiting_capacity" /\ conv'.started = c.started
        /\ conv'.current = c.current
    BY <2>2, <2>3 DEF IsRow
  <2> QED BY <2>1, <2>2, <2>4, RowIsTyped DEF ConversationStates
<1>4. /\ TurnsTyped'
      /\ turns'[t].state = "interrupted" /\ turns'[t].trace = turns[t].trace
      /\ turns'[t].artifact = turns[t].artifact
      /\ \A v \in Turns : v # t => turns'[v] = turns[v]
  <2> DEFINE q == turns[t]
             c == Charge(q, Usage(1, 0))
             r == [c EXCEPT !.state = "interrupted"]
  <2>1. turns' = [turns EXCEPT ![t] = r]
    BY <1>1, <1>2 DEF ConvInv, TurnsTyped
  <2>2. IsTurn(q) /\ q.trace \in 0..MaxAttempts /\ q.artifact \in 0..MaxAttempts
    BY <1>2, TurnFields
  <2> HIDE DEF q
  <2>3. IsTurn(c) /\ c.trace = q.trace /\ c.artifact = q.artifact
    BY <2>2, ChargedTurn
  <2> HIDE DEF c
  <2>4. IsTurn(r) /\ r.state = "interrupted" /\ r.trace = c.trace /\ r.artifact = c.artifact
    BY <2>3 DEF IsTurn
  <2> HIDE DEF r
  <2>5. r \in [state : TurnStates \cup {"none"}, count : {r.count}, trace : 0..MaxAttempts,
               calls : {r.calls}, work : {r.work}, artifact : 0..MaxAttempts]
    BY <2>2, <2>3, <2>4, TurnIsTyped DEF TurnStates, ActiveTurns
  <2>6. TurnsTyped' /\ turns'[t] = r /\ \A v \in Turns : v # t => turns'[v] = turns[v]
    BY <1>2, <2>1, <2>5, TurnReplaced
  <2> QED BY <2>3, <2>4, <2>6 DEF q
<1>5. /\ "interrupted" \in TurnStates /\ "interrupted" \in ActiveTurns
      /\ "interrupted" \notin CompletedTurns
  BY DEF TurnStates, ActiveTurns, CompletedTurns
<1>6. /\ AttemptsTyped' /\ attempts'[a].state = "interrupted" /\ attempts'[a].turn = t
      /\ \A b \in Attempts : b # a => attempts'[b] = attempts[b]
  BY <1>1, <1>5 DEF ConvInv, AttemptsTyped
<1> HIDE DEF t
<1>7. t = attempts[a].turn
  BY DEF t
<1>8. /\ conv'.current = IF "interrupted" \in ActiveTurns THEN t ELSE 0
      /\ turns'[t].artifact = IF "interrupted" \in CompletedTurns THEN a ELSE 0
      /\ conv'.state # "none"
  BY <1>2, <1>3, <1>4, <1>5
<1> QED BY <1>1, <1>3, <1>4, <1>5, <1>7, <1>8, <1>6, EndAttemptKeeps

(* A step that leaves these rows alone.                                    *)
LEMMA RowsUntouched ==
  ASSUME ConvInv, UNCHANGED <<conv, turns, attempts, issued, history>>
  PROVE  ConvInv'
BY DEF ConvInv, RowTyped, TurnsTyped, AttemptsTyped, RowInv, TurnInv, TraceInv

(* A report is applied if its attempt owns the turn, and changes nothing   *)
(* else if not.                                                            *)
LEMMA FinalizeStep ==
  ASSUME ConversationAssumption, ConvInv, NEW a \in Attempts, NEW result \in Reported, NEW u,
         FinalizeTurn(a, result, u)
  PROVE  ConvInv'
<1>1. issued' = issued
  BY DEF FinalizeTurn
<1>2. CASE ~Owns(a) /\ UNCHANGED <<conv, turns, attempts, history, content>>
  BY <1>1, <1>2, RowsUntouched
<1>3. CASE Owns(a) /\ InterruptExpired(a)
  BY <1>1, <1>3, InterruptStep
<1>4. CASE Owns(a) /\ ApplyResult(a, result, u)
  BY <1>1, <1>4, ApplyStep
<1> QED BY <1>2, <1>3, <1>4 DEF FinalizeTurn

(* Closing happens only when no turn is active.                            *)
LEMMA CloseStep ==
  ASSUME ConversationAssumption, ConvInv, NEW v, CloseConversation(v)
  PROVE  ConvInv'
<1>1. /\ conv.state \in {"open", "input_required", "waiting_capacity"} /\ conv.current = 0
      /\ conv' = [conv EXCEPT !.state = "closed", !.version = @ + 1, !.pending = 0]
      /\ history'.state = conv'.state
      /\ UNCHANGED <<turns, attempts, issued>>
  BY DEF CloseConversation, Logged
<1>2. IsRow(conv) /\ conv.started \in 0..MaxTurns /\ conv.current \in 0..MaxTurns
  BY RowFields
<1>3. /\ IsRow(conv') /\ conv'.state = "closed" /\ conv'.started = conv.started
      /\ conv'.current = 0
  BY <1>1, <1>2 DEF IsRow
<1>4. RowTyped'
  BY <1>1, <1>2, <1>3, RowIsTyped DEF ConversationStates, TerminalConversations
<1>5. TurnsTyped'
  BY <1>1 DEF ConvInv, TurnsTyped
<1>6. \A u \in Turns : u # conv.current
  BY <1>1 DEF Turns
<1> QED BY <1>1, <1>3, <1>4, <1>5, <1>6, RowOnlyKeeps

(* So does deleting the contents.                                          *)
LEMMA DeleteStep ==
  ASSUME ConversationAssumption, ConvInv, NEW v, DeleteContent(v)
  PROVE  ConvInv'
<1>1. /\ conv.current = 0
      /\ conv' = [conv EXCEPT !.state = "closed", !.version = @ + 1, !.pending = 0, !.deleted = TRUE]
      /\ history'.state = conv'.state
      /\ UNCHANGED <<turns, attempts, issued>>
  BY DEF DeleteContent, Logged
<1>2. IsRow(conv) /\ conv.started \in 0..MaxTurns /\ conv.current \in 0..MaxTurns
  BY RowFields
<1>3. /\ IsRow(conv') /\ conv'.state = "closed" /\ conv'.started = conv.started
      /\ conv'.current = 0
  BY <1>1, <1>2 DEF IsRow
<1>4. RowTyped'
  BY <1>1, <1>2, <1>3, RowIsTyped DEF ConversationStates, TerminalConversations
<1>5. TurnsTyped'
  BY <1>1 DEF ConvInv, TurnsTyped
<1>6. \A u \in Turns : u # conv.current
  BY <1>1 DEF Turns
<1> QED BY <1>1, <1>3, <1>4, <1>5, <1>6, RowOnlyKeeps

(* Expiry cancels the active turn and forgets it, unless an attempt runs.  *)
LEMMA ExpireStep == ASSUME ConversationAssumption, ConvInv, ExpireDue PROVE ConvInv'
<1>1. /\ conv.current # 0 => turns[conv.current].state # "running"
      /\ turns' = [t \in Turns |->
           IF t = conv.current THEN [turns[t] EXCEPT !.state = "cancelled"] ELSE turns[t]]
      /\ conv' = [conv EXCEPT !.state = "expired", !.version = @ + 1, !.current = 0,
                              !.pending = 0, !.deleted = TRUE]
      /\ history'.state = conv'.state
      /\ UNCHANGED <<attempts, issued>>
  BY DEF ExpireDue, Logged
<1>2. IsRow(conv) /\ conv.started \in 0..MaxTurns /\ MaxTurns \in Nat
  BY RowFields DEF ConversationAssumption
<1>3. /\ IsRow(conv') /\ conv'.state = "expired" /\ conv'.started = conv.started
      /\ conv'.current = 0
  BY <1>1, <1>2 DEF IsRow
<1>4. RowTyped'
  BY <1>2, <1>3, RowIsTyped DEF ConversationStates, TerminalConversations
<1>5. ASSUME NEW u \in Turns
      PROVE  /\ u = conv.current => turns'[u].state = "cancelled"
             /\ u # conv.current => turns'[u].state = turns[u].state
             /\ turns'[u].trace = turns[u].trace /\ turns'[u].artifact = turns[u].artifact
             /\ turns'[u] \in [state : TurnStates \cup {"none"}, count : {turns'[u].count},
                               trace : 0..MaxAttempts, calls : {turns'[u].calls},
                               work : {turns'[u].work}, artifact : 0..MaxAttempts]
  <2> DEFINE q == turns[u]
             c == [q EXCEPT !.state = "cancelled"]
  <2>1. turns'[u] = IF u = conv.current THEN c ELSE q
    BY <1>1
  <2>2. IsTurn(q) /\ q.state \in TurnStates \cup {"none"}
        /\ q.trace \in 0..MaxAttempts /\ q.artifact \in 0..MaxAttempts
    BY TurnFields
  <2> HIDE DEF q
  <2>3. c = [q EXCEPT !.state = "cancelled"]
    BY DEF c
  <2> HIDE DEF c
  <2>4. IsTurn(c) /\ c.state = "cancelled" /\ c.trace = q.trace /\ c.artifact = q.artifact
    BY <2>2, <2>3 DEF IsTurn
  <2>5. /\ IsTurn(turns'[u]) /\ turns'[u].state \in TurnStates \cup {"none"}
        /\ turns'[u].trace \in 0..MaxAttempts /\ turns'[u].artifact \in 0..MaxAttempts
    BY <2>1, <2>2, <2>4 DEF TurnStates, EndedTurns
  <2>6. turns'[u] \in [state : TurnStates \cup {"none"}, count : {turns'[u].count},
                       trace : 0..MaxAttempts, calls : {turns'[u].calls},
                       work : {turns'[u].work}, artifact : 0..MaxAttempts]
    BY <2>5, TurnIsTyped
  <2> QED BY <2>1, <2>4, <2>6 DEF q
<1>6. TurnsTyped'
  BY <1>1, <1>5 DEF TurnsTyped
<1> QED BY <1>1, <1>3, <1>4, <1>5, <1>6, RowOnlyKeeps

(* Recovery interrupts one attempt whose lease has run out.                *)
LEMMA RecoverStep ==
  ASSUME ConversationAssumption, ConvInv, lapsed \subseteq Attempts, RecoverExpiredLeases
  PROVE  ConvInv'
<1>1. PICK a \in lapsed : attempts[a].state = "running" /\ InterruptExpired(a)
  BY DEF RecoverExpiredLeases
<1>2. a \in Attempts /\ Owns(a) /\ issued' = issued
  BY <1>1, OwnedTurn DEF RecoverExpiredLeases
<1> QED BY <1>1, <1>2, InterruptStep

(* The turns in use are the first ones, so that the rebuilt row counts the *)
(* turns that were started and finds the one that is active.               *)
LEMMA RebuildStep == ASSUME ConversationAssumption, ConvInv, RebuildProjection PROVE ConvInv'
<1>1. /\ conv.started \in 0..MaxTurns /\ conv.current \in 0..MaxTurns /\ MaxTurns \in Nat
      /\ conv.state \in ConversationStates
  BY RowFields DEF ConversationAssumption
<1>2. UsedTurns = 1..conv.started
  <2>1. \A t \in Turns : turns[t].state = "none" <=> t > conv.started
    BY DEF ConvInv, TurnInv
  <2> QED BY <1>1, <2>1 DEF UsedTurns, Turns
<1>3. LatestTurn = conv.started
  <2>1. 1 \in Int /\ conv.started \in Int
    BY <1>1
  <2>2. Cardinality(1..conv.started) = IF 1 > conv.started THEN 0 ELSE conv.started - 1 + 1
    BY <2>1, FS_Interval
  <2> QED BY <1>1, <1>2, <2>2 DEF LatestTurn
<1>4. /\ conv' = DerivedProjection
      /\ UNCHANGED <<turns, attempts, issued, history>>
  BY DEF RebuildProjection
<1>5. (\E t \in {LatestTurn} \cap Turns : turns[t].state \in ActiveTurns) <=> conv.current # 0
  <2>1. conv.current # 0 =>
          conv.current = conv.started /\ turns[conv.started].state \in ActiveTurns
    BY DEF ConvInv, RowInv
  <2>2. ASSUME NEW t \in Turns, turns[t].state \in ActiveTurns
        PROVE  conv.current = t /\ t # 0
    BY <2>2 DEF ConvInv, TurnInv, Turns
  <2>3. conv.current # 0 => conv.started \in Turns
    BY <1>1, <2>1 DEF Turns
  <2> QED BY <1>3, <2>1, <2>2, <2>3
<1>6. conv.current \in {0, conv.started}
  BY DEF ConvInv, RowInv
<1>7. /\ IsRow(DerivedProjection) /\ DerivedProjection.state = history.state
      /\ DerivedProjection.started = LatestTurn
      /\ DerivedProjection.current =
           IF \E t \in {LatestTurn} \cap Turns : turns[t].state \in ActiveTurns
             THEN LatestTurn ELSE 0
  <2> DEFINE v == history.version
             n == Cardinality({t \in Turns : turns[t].state \in CompletedTurns})
             c == MapThenSumSet(LAMBDA t : turns[t].calls, UsedTurns)
             w == MapThenSumSet(LAMBDA t : turns[t].work, UsedTurns)
             a == IF \E t \in {LatestTurn} \cap Turns : turns[t].state \in ActiveTurns
                    THEN LatestTurn ELSE 0
             p == IF \E t \in {LatestTurn} \cap Turns : turns[t].state = "input_required"
                    THEN LatestTurn ELSE 0
  <2>1. DerivedProjection = [state |-> history.state, version |-> v, started |-> LatestTurn,
                             completed |-> n, calls |-> c, work |-> w, current |-> a,
                             pending |-> p, deleted |-> history.deleted]
    BY DEF DerivedProjection
  <2> HIDE DEF v, n, c, w, a, p
  <2>2. /\ IsRow(DerivedProjection) /\ DerivedProjection.state = history.state
        /\ DerivedProjection.started = LatestTurn /\ DerivedProjection.current = a
    BY <2>1 DEF IsRow
  <2> QED BY <2>2 DEF a
<1>8. /\ IsRow(conv') /\ conv'.state = conv.state /\ conv'.started = conv.started
      /\ conv'.current = conv.current
  BY <1>3, <1>4, <1>5, <1>6, <1>7 DEF ConvInv, RowInv
<1>9. RowTyped'
  BY <1>1, <1>8, RowIsTyped
<1> QED BY <1>4, <1>8, <1>9
    DEF ConvInv, TurnsTyped, AttemptsTyped, RowInv, TurnInv, TraceInv

-----------------------------------------------------------------------------
ConvIInv == ConvInv /\ lapsed \subseteq Attempts

(* The leases that lapse are those of attempts.                            *)
LEMMA LapsedStep == ASSUME lapsed \subseteq Attempts, ConvNext PROVE lapsed' \subseteq Attempts
<1> USE DEF ConvNext, convHostVars, convStoreVars
<1>1. CASE ReserveStart \/ \E k \in Keys, v \in {conv.version}, input \in {0, conv.pending} :
             ReserveContinue(k, v, input)
  BY <1>1 DEF ReserveStart, ReserveContinue, Lease
<1>2. CASE \E k \in Keys, v \in {conv.version} : ReserveResume(k, v)
  BY <1>2 DEF ReserveResume, Lease
<1>3. ASSUME NEW a \in Attempts, LeaseLapses(a)
      PROVE  lapsed' \subseteq Attempts
  BY <1>3 DEF LeaseLapses
<1>4. ASSUME NEW a \in Attempts,
             InvokeExecutor(a) \/ CallModel(a) \/ ReportResult(a) \/ ReportFailure(a) \/ HostDies(a)
      PROVE  lapsed' \subseteq Attempts
  BY <1>4 DEF InvokeExecutor, CallModel, ReportResult, ReportFailure, HostDies
<1>5. CASE \E v \in {conv.version} : CloseConversation(v) \/ DeleteContent(v)
  BY <1>5 DEF CloseConversation, DeleteContent
<1>6. CASE RecoverExpiredLeases \/ ExpireDue \/ RebuildProjection \/ RetentionEnds
  BY <1>6 DEF RecoverExpiredLeases, ExpireDue, RebuildProjection, RetentionEnds
<1> QED BY <1>1, <1>2, <1>3, <1>4, <1>5, <1>6

(* What the coroutine of an attempt does, its death included.              *)
LEMMA CoroutineStep ==
  ASSUME ConversationAssumption, ConvIInv, NEW a \in Attempts,
         InvokeExecutor(a) \/ CallModel(a) \/ ReportResult(a) \/ ReportFailure(a)
         \/ HostDies(a) \/ LeaseLapses(a)
  PROVE  ConvInv'
<1> USE DEF ConvIInv
<1>1. CASE InvokeExecutor(a) \/ CallModel(a) \/ HostDies(a) \/ LeaseLapses(a)
  BY <1>1, RowsUntouched DEF InvokeExecutor, CallModel, HostDies, LeaseLapses, convStoreVars
<1>2. {"waiting_capacity", "budget_exhausted", "verifier_failed", "failed", "cancelled"}
        \cup CompletedTurns \subseteq Reported
  BY DEF Reported, TurnStates, ActiveTurns, EndedTurns, CompletedTurns
<1>3. CASE ReportResult(a)
  <2>1. \E r \in Reported, u \in {Usage(0, 0), Usage(0, 1)} \cup {Usage(1, w) : w \in Work} :
          FinalizeTurn(a, r, u)
    BY <1>2, <1>3 DEF ReportResult
  <2> QED BY <2>1, FinalizeStep
<1>4. CASE ReportFailure(a)
  <2>1. PICK n \in {0, 1}, r \in {"budget_exhausted", "failed", "cancelled"} :
          FinalizeTurn(a, r, Usage(n, IF r = "budget_exhausted" THEN MaxWork - conv.work ELSE 0))
    BY <1>4 DEF ReportFailure
  <2>2. r \in Reported
    BY <1>2
  <2> QED BY <2>1, <2>2, FinalizeStep
<1> QED BY <1>1, <1>3, <1>4

(* Every step keeps the rows, the turns and the attempts consistent.       *)
LEMMA ConvStep ==
  ASSUME ConversationAssumption, ConvIInv, [ConvNext]_convVars
  PROVE  ConvIInv'
<1> USE DEF ConvIInv
<1>1. CASE UNCHANGED convVars
  BY <1>1, RowsUntouched DEF convVars
<1>2. CASE ConvNext
  <2>1. lapsed' \subseteq Attempts
    BY <1>2, LapsedStep
  <2>2. CASE ReserveStart
    BY <2>1, <2>2, StartStep
  <2>3. CASE \E k \in Keys, v \in {conv.version}, input \in {0, conv.pending} :
               ReserveContinue(k, v, input)
    BY <2>1, <2>3, ContinueStep
  <2>4. CASE \E k \in Keys, v \in {conv.version} : ReserveResume(k, v)
    BY <2>1, <2>4, ResumeStep
  <2>5. CASE \E a \in Attempts :
               InvokeExecutor(a) \/ CallModel(a) \/ ReportResult(a) \/ ReportFailure(a)
               \/ HostDies(a) \/ LeaseLapses(a)
    BY <2>1, <2>5, CoroutineStep
  <2>6. CASE \E v \in {conv.version} : CloseConversation(v) \/ DeleteContent(v)
    BY <2>1, <2>6, CloseStep, DeleteStep
  <2>7. CASE RecoverExpiredLeases
    BY <2>1, <2>7, RecoverStep
  <2>8. CASE ExpireDue
    BY <2>1, <2>8, ExpireStep
  <2>9. CASE RebuildProjection
    BY <2>1, <2>9, RebuildStep
  <2>10. CASE RetentionEnds
    BY <2>1, <2>10, RowsUntouched DEF RetentionEnds, convStoreVars
  <2> QED BY <1>2, <2>2, <2>3, <2>4, <2>5, <2>6, <2>7, <2>8, <2>9, <2>10 DEF ConvNext
<1> QED BY <1>1, <1>2

(* The row points at the last turn, which alone may be active, and a turn  *)
(* at its last attempt: every transaction of conversation/store.py relies  *)
(* on it and keeps it.                                                     *)
THEOREM ConversationInvariant == ASSUME ConversationAssumption PROVE ConvSpec => []ConvIInv
<1>1. ConvInit => ConvIInv
  BY InitIsConvInv DEF ConvIInv, ConvInit
<1>2. ConvIInv /\ [ConvNext]_convVars => ConvIInv'
  BY ConvStep
<1> QED BY <1>1, <1>2, PTL DEF ConvSpec

(* Two running attempts would both own the last turn.                      *)
LEMMA InvGivesOneActiveTurn ==
  ASSUME ConversationAssumption, ConvInv PROVE OneActiveTurn
<1>1. ASSUME NEW a \in Attempts, attempts[a].state = "running"
      PROVE  a = issued /\ Owns(a) /\ attempts[a].turn = conv.started
  <2>1. Owns(a) /\ attempts[a].turn # 0
    BY <1>1, OwnedTurn
  <2>2. conv.current = attempts[a].turn /\ conv.current \in {0, conv.started}
        /\ turns[attempts[a].turn].trace = a
    BY <2>1 DEF Owns, ConvInv, RowInv
  <2>3. conv.started # 0 => turns[conv.started].trace = issued
    BY DEF ConvInv, TraceInv
  <2> QED BY <2>1, <2>2, <2>3
<1>2. ASSUME NEW t \in Turns, turns[t].state = "running"
      PROVE  t = conv.current /\ attempts[turns[t].trace] = [state |-> "running", turn |-> t]
  <2>1. t = conv.current
    BY <1>2 DEF ConvInv, TurnInv, ActiveTurns
  <2>2. /\ turns[t].trace \in 1..issued /\ attempts[turns[t].trace].turn = t
        /\ attempts[turns[t].trace].state = "running"
    BY <1>2 DEF ConvInv, TraceInv
  <2>3. turns[t].trace \in Attempts
    BY <2>2 DEF ConvInv, AttemptsTyped, Attempts, ConversationAssumption
  <2>4. attempts[turns[t].trace] \in [state : TurnStates \cup {"none"}, turn : 0..MaxTurns]
    BY <2>3 DEF ConvInv, AttemptsTyped
  <2> QED BY <2>1, <2>2, <2>4
<1> QED BY <1>1, <1>2 DEF OneActiveTurn

(* An answer is only written by the attempt that owns its turn.            *)
LEMMA InvGivesLastArtifact ==
  ASSUME ConversationAssumption, ConvInv PROVE ArtifactOfLastAttempt
<1> SUFFICES ASSUME NEW t \in Turns
             PROVE  /\ turns[t].artifact # 0 <=> turns[t].state \in CompletedTurns
                    /\ turns[t].artifact # 0 =>
                         /\ turns[t].artifact = turns[t].trace
                         /\ \A a \in Attempts : attempts[a].turn = t => a <= turns[t].artifact
  BY DEF ArtifactOfLastAttempt
<1>1. turns[t].artifact = IF turns[t].state \in CompletedTurns THEN turns[t].trace ELSE 0
  BY DEF ConvInv, TurnInv
<1>2. turns[t].state \in CompletedTurns => turns[t].trace # 0
  <2>1. turns[t].state \in CompletedTurns => turns[t].state # "none"
    BY DEF CompletedTurns
  <2> QED BY <2>1 DEF ConvInv, TraceInv
<1>3. \A a \in Attempts : attempts[a].turn = t => a <= turns[t].trace
  BY DEF ConvInv, TraceInv, Turns
<1> QED BY <1>1, <1>2, <1>3

(* One turn is active at a time, whatever owners, hosts and clocks do: an  *)
(* attempt that runs is the last one, and owns the last turn.              *)
THEOREM AlwaysOneActiveTurn == ASSUME ConversationAssumption PROVE ConvSpec => []OneActiveTurn
<1>1. ConvIInv => OneActiveTurn
  BY InvGivesOneActiveTurn DEF ConvIInv
<1> QED BY <1>1, ConversationInvariant, PTL

(* The answer of a turn is the work of its last attempt: a late report of  *)
(* an attempt that was taken over is never kept.                           *)
THEOREM AnswerOfLastAttempt ==
  ASSUME ConversationAssumption PROVE ConvSpec => []ArtifactOfLastAttempt
<1>1. ConvIInv => ArtifactOfLastAttempt
  BY InvGivesLastArtifact DEF ConvIInv
<1> QED BY <1>1, ConversationInvariant, PTL

-----------------------------------------------------------------------------
(* What the row charges *)

TurnCalls == [t \in Turns |-> turns[t].calls]
TurnWork == [t \in Turns |-> turns[t].work]
AnsweredTurns == {t \in Turns : turns[t].state \in CompletedTurns}

(* The row charges what its turns charge, counts the turns that have an    *)
(* answer, and is what the log says last.                                  *)
BillInv ==
  /\ conv.version \in Nat /\ conv.pending \in 0..MaxTurns /\ conv.deleted \in BOOLEAN
  /\ conv.state = "none" => conv.version = 0
  /\ history = [state |-> conv.state, version |-> conv.version, deleted |-> conv.deleted]
  /\ \A t \in Turns : /\ turns[t].count \in Nat /\ turns[t].calls \in Nat /\ turns[t].work \in Nat
                      /\ turns[t].state = "none" => turns[t].calls = 0 /\ turns[t].work = 0
  /\ conv.calls = Total(TurnCalls, Turns)
  /\ conv.work = Total(TurnWork, Turns)
  /\ conv.completed = Cardinality(AnsweredTurns)

(* What became of the coroutine of an attempt; an attempt that is not      *)
(* running is charged if it has called its model or still may.             *)
ExecInv ==
  /\ exec \in [Attempts -> {"none", "leased", "invoked", "over", "dead"}]
  /\ called \subseteq Attempts
  /\ \A a \in Attempts : attempts[a].state = "none" => exec[a] = "none" /\ a \notin called
  /\ \A a \in Attempts : exec[a] = "leased" => a \notin called

MayHaveCalled ==
  {a \in Attempts : attempts[a].state # "running"
                    /\ (a \in called \/ exec[a] \in {"leased", "invoked"})}
CallInv == conv.calls >= Cardinality(MayHaveCalled)

(* A turn runs only under the bounds.                                      *)
BoundInv ==
  /\ BoundsEndTheConversation
  /\ conv.current # 0 /\ turns[conv.current].state = "running" =>
       conv.calls < MaxCalls /\ conv.work < MaxWork

UsageInv == BillInv /\ ExecInv /\ CallInv /\ BoundInv

-----------------------------------------------------------------------------
(* The row and the log move to the next version.                           *)
RowMoves ==
  /\ conv'.version = conv.version + 1 /\ conv'.pending \in 0..MaxTurns
  /\ conv'.deleted \in BOOLEAN /\ conv'.state # "none"
  /\ history' = [state |-> conv'.state, version |-> conv'.version, deleted |-> conv'.deleted]

(* Turn t goes on, and what it costs is charged to the row as well.        *)
TurnMoves(t, c, w) ==
  /\ \A u \in Turns : u # t => turns'[u] = turns[u]
  /\ turns[t].state \notin CompletedTurns /\ turns'[t].state # "none"
  /\ turns'[t].count \in Nat
  /\ turns'[t].calls = turns[t].calls + c /\ turns'[t].work = turns[t].work + w
  /\ conv'.calls = conv.calls + c /\ conv'.work = conv.work + w
  /\ conv'.completed = IF turns'[t].state \in CompletedTurns THEN conv.completed + 1
                                                             ELSE conv.completed

(* No turn costs anything or gets an answer.                               *)
BillIsStill ==
  /\ \A u \in Turns :
       /\ turns'[u].count = turns[u].count
       /\ turns'[u].calls = turns[u].calls /\ turns'[u].work = turns[u].work
       /\ turns'[u].state = "none" => turns[u].state = "none"
       /\ turns'[u].state \in CompletedTurns <=> turns[u].state \in CompletedTurns
  /\ conv'.calls = conv.calls /\ conv'.work = conv.work /\ conv'.completed = conv.completed

(* The bill is a sum of natural numbers, over finitely many turns.         *)
LEMMA BillIsNatural ==
  ASSUME ConversationAssumption, BillInv
  PROVE  /\ IsFiniteSet(Turns) /\ conv.calls \in Nat /\ conv.work \in Nat
         /\ IsFiniteSet(AnsweredTurns) /\ conv.completed \in Nat
<1>1. IsFiniteSet(Turns)
  BY FS_Interval DEF Turns, ConversationAssumption
<1>2. IsFiniteSet(AnsweredTurns)
  BY <1>1, FS_Subset DEF AnsweredTurns
<1>3. /\ \A t \in Turns : TurnCalls[t] \in Nat /\ TurnWork[t] \in Nat
  BY DEF BillInv, TurnCalls, TurnWork
<1>4. Total(TurnCalls, Turns) \in Nat /\ Total(TurnWork, Turns) \in Nat
  BY <1>1, <1>3, TotalIsNat
<1>5. Cardinality(AnsweredTurns) \in Nat
  BY <1>2, FS_CardinalityType
<1> QED BY <1>1, <1>2, <1>4, <1>5 DEF BillInv

(* One turn goes on.                                                       *)
LEMMA TurnMovesBill ==
  ASSUME ConversationAssumption, BillInv, RowMoves,
         NEW t \in Turns, NEW c \in Nat, NEW w \in Nat, TurnMoves(t, c, w)
  PROVE  BillInv'
<1>1. /\ IsFiniteSet(Turns) /\ conv.calls \in Nat /\ conv.work \in Nat
      /\ IsFiniteSet(AnsweredTurns) /\ conv.completed \in Nat
  BY BillIsNatural
<1>2. ASSUME NEW u \in Turns
      PROVE  /\ turns'[u].count \in Nat /\ turns'[u].calls \in Nat /\ turns'[u].work \in Nat
             /\ turns'[u].state = "none" => turns'[u].calls = 0 /\ turns'[u].work = 0
  <2>1. CASE u = t
    BY <2>1 DEF BillInv, TurnMoves
  <2>2. CASE u # t
    BY <2>2 DEF BillInv, TurnMoves
  <2> QED BY <2>1, <2>2
<1>3. conv'.calls = Total(TurnCalls', Turns)
  <2>1. /\ \A u \in Turns : TurnCalls'[u] \in Nat /\ TurnCalls[u] \in Nat
        /\ \A u \in Turns \ {t} : TurnCalls'[u] = TurnCalls[u]
        /\ TurnCalls'[t] = TurnCalls[t] + c
    BY <1>2 DEF TurnCalls, BillInv, TurnMoves
  <2>2. Total(TurnCalls', Turns) + TurnCalls[t] = Total(TurnCalls, Turns) + TurnCalls'[t]
    BY ONLY <1>1, <2>1, t \in Turns, TotalChanged
  <2>3. Total(TurnCalls', Turns) \in Nat
    BY ONLY <1>1, <2>1, TotalIsNat
  <2>4. conv'.calls = conv.calls + c /\ conv.calls = Total(TurnCalls, Turns)
    BY DEF BillInv, TurnMoves
  <2> QED BY <1>1, <2>1, <2>2, <2>3, <2>4
<1>4. conv'.work = Total(TurnWork', Turns)
  <2>1. /\ \A u \in Turns : TurnWork'[u] \in Nat /\ TurnWork[u] \in Nat
        /\ \A u \in Turns \ {t} : TurnWork'[u] = TurnWork[u]
        /\ TurnWork'[t] = TurnWork[t] + w
    BY <1>2 DEF TurnWork, BillInv, TurnMoves
  <2>2. Total(TurnWork', Turns) + TurnWork[t] = Total(TurnWork, Turns) + TurnWork'[t]
    BY ONLY <1>1, <2>1, t \in Turns, TotalChanged
  <2>3. Total(TurnWork', Turns) \in Nat
    BY ONLY <1>1, <2>1, TotalIsNat
  <2>4. conv'.work = conv.work + w /\ conv.work = Total(TurnWork, Turns)
    BY DEF BillInv, TurnMoves
  <2> QED BY <1>1, <2>1, <2>2, <2>3, <2>4
<1>5. conv'.completed = Cardinality(AnsweredTurns')
  <2>1. t \notin AnsweredTurns
    BY DEF AnsweredTurns, TurnMoves
  <2>2. CASE turns'[t].state \in CompletedTurns
    <3>1. AnsweredTurns' = AnsweredTurns \cup {t} /\ conv'.completed = conv.completed + 1
      BY <2>2 DEF AnsweredTurns, TurnMoves
    <3>2. Cardinality(AnsweredTurns \cup {t}) = Cardinality(AnsweredTurns) + 1
      BY ONLY <1>1, <2>1, FS_AddElement
    <3> QED BY <3>1, <3>2 DEF BillInv
  <2>3. CASE turns'[t].state \notin CompletedTurns
    <3>1. AnsweredTurns' = AnsweredTurns /\ conv'.completed = conv.completed
      BY <2>1, <2>3 DEF AnsweredTurns, TurnMoves
    <3> QED BY <3>1 DEF BillInv
  <2> QED BY <2>2, <2>3
<1> QED BY <1>2, <1>3, <1>4, <1>5 DEF BillInv, RowMoves

(* None does.                                                              *)
LEMMA BillStays ==
  ASSUME BillInv, BillIsStill, conv'.version \in Nat, conv'.pending \in 0..MaxTurns,
         conv'.deleted \in BOOLEAN, conv'.state = "none" => conv'.version = 0,
         history' = [state |-> conv'.state, version |-> conv'.version, deleted |-> conv'.deleted]
  PROVE  BillInv'
<1>1. TurnCalls' = TurnCalls /\ TurnWork' = TurnWork /\ AnsweredTurns' = AnsweredTurns
  BY DEF BillIsStill, TurnCalls, TurnWork, AnsweredTurns
<1> QED BY <1>1 DEF BillInv, BillIsStill

-----------------------------------------------------------------------------
(* What the operations do to the bill *)

(* A charge is added to the calls and the work, and nothing else changes.  *)
LEMMA ChargeAdds ==
  ASSUME NEW q, NEW u
  PROVE  /\ IsRow(q) => /\ Charge(q, u).version = q.version /\ Charge(q, u).completed = q.completed
                        /\ Charge(q, u).calls = q.calls + u.calls
                        /\ Charge(q, u).work = q.work + u.work
                        /\ Charge(q, u).pending = q.pending /\ Charge(q, u).deleted = q.deleted
         /\ IsTurn(q) => /\ Charge(q, u).count = q.count
                         /\ Charge(q, u).calls = q.calls + u.calls
                         /\ Charge(q, u).work = q.work + u.work
<1> DEFINE x == q.calls + u.calls
           y == q.work + u.work
           c == [q EXCEPT !.calls = x, !.work = y]
<1>1. Charge(q, u) = c /\ c = [q EXCEPT !.calls = x, !.work = y] /\ x = q.calls + u.calls /\ y = q.work + u.work
  BY DEF Charge
<1> HIDE DEF x, y, c
<1>2. CASE IsRow(q)
  <2>1. /\ c.version = q.version /\ c.completed = q.completed /\ c.calls = x /\ c.work = y
        /\ c.pending = q.pending /\ c.deleted = q.deleted
    BY <1>1, <1>2 DEF IsRow
  <2>2. ~IsTurn(q) \/ (c.count = q.count /\ c.calls = x /\ c.work = y)
    <3>1. CASE IsTurn(q)
      BY <1>1, <3>1 DEF IsTurn
    <3> QED BY <3>1
  <2> QED BY <1>1, <2>1, <2>2
<1>3. CASE ~IsRow(q) /\ IsTurn(q)
  <2>1. c.count = q.count /\ c.calls = x /\ c.work = y
    BY <1>1, <1>3 DEF IsTurn
  <2> QED BY <1>1, <1>3, <2>1
<1> QED BY <1>2, <1>3

(* The log takes the state and version of the row.                         *)
LEMMA LoggedIs ==
  ASSUME BillInv, Logged, conv'.deleted \in BOOLEAN, conv.deleted => conv'.deleted
  PROVE  history' = [state |-> conv'.state, version |-> conv'.version, deleted |-> conv'.deleted]
BY DEF Logged, BillInv

(* A new turn or attempt costs nothing yet.                                *)
LEMMA StartBill ==
  ASSUME ConversationAssumption, ConvInv, BillInv, ReserveStart
  PROVE  RowMoves /\ TurnMoves(1, 0, 0)
<1>1. /\ conv.state = "none" /\ conv.started = 0 /\ MaxTurns \in Nat \ {0} /\ 1 \in Turns
      /\ turns' = [turns EXCEPT ![1] = NewTurn(1)]
      /\ conv' = [conv EXCEPT !.state = "open", !.version = 1, !.started = 1, !.current = 1]
      /\ Logged /\ conv.version = 0
  BY DEF ReserveStart, ConvInv, RowInv, ConversationAssumption, Turns, BillInv
<1>2. IsRow(conv)
  BY RowFields
<1>3. /\ conv'.state = "open" /\ conv'.version = 1 /\ conv'.calls = conv.calls
      /\ conv'.work = conv.work /\ conv'.completed = conv.completed
      /\ conv'.pending = conv.pending /\ conv'.deleted = conv.deleted
  BY <1>1, <1>2 DEF IsRow
<1>4. turns'[1] = NewTurn(1) /\ \A u \in Turns : u # 1 => turns'[u] = turns[u]
  BY <1>1 DEF ConvInv, TurnsTyped
<1>5. turns[1].state = "none" /\ turns[1].calls = 0 /\ turns[1].work = 0
  BY <1>1 DEF ConvInv, TurnInv, BillInv
<1>6. conv.calls \in Nat /\ conv.work \in Nat
  BY BillIsNatural
<1>7. RowMoves
  BY <1>1, <1>3, LoggedIs DEF BillInv, RowMoves
<1>8. TurnMoves(1, 0, 0)
  BY <1>3, <1>4, <1>5, <1>6, NewTurnIs DEF TurnMoves, CompletedTurns
<1> QED BY <1>7, <1>8

(* A continue passes the bounds and charges nothing yet.                   *)
LEMMA ContinueBill ==
  ASSUME ConversationAssumption, ConvInv, BillInv, NEW k, NEW v, NEW input,
         ReserveContinue(k, v, input)
  PROVE  /\ conv.started + 1 \in Turns /\ RowMoves /\ TurnMoves(conv.started + 1, 0, 0)
         /\ conv.calls < MaxCalls /\ conv.work < MaxWork /\ conv'.state = "open"
<1> DEFINE t == conv.started + 1
<1>1. /\ conv.started < MaxTurns /\ conv.started \in Nat /\ MaxTurns \in Nat \ {0}
      /\ turns' = [turns EXCEPT ![t] = NewTurn(issued + 1)]
      /\ conv' = [conv EXCEPT !.state = "open", !.version = @ + 1, !.started = t,
                              !.current = t, !.pending = 0]
      /\ Logged /\ conv.calls < MaxCalls /\ conv.work < MaxWork
  BY DEF ReserveContinue, HasCapacity, ConvInv, RowTyped, ConversationAssumption
<1>2. IsRow(conv) /\ t \in Turns
  BY <1>1, RowFields DEF Turns
<1>3. /\ conv'.state = "open" /\ conv'.version = conv.version + 1 /\ conv'.calls = conv.calls
      /\ conv'.work = conv.work /\ conv'.completed = conv.completed
      /\ conv'.pending = 0 /\ conv'.deleted = conv.deleted
  <2> HIDE DEF t
  <2> QED BY <1>1, <1>2 DEF IsRow
<1>4. turns'[t] = NewTurn(issued + 1) /\ \A u \in Turns : u # t => turns'[u] = turns[u]
  BY <1>1, <1>2 DEF ConvInv, TurnsTyped
<1>5. turns[t].state = "none" /\ turns[t].calls = 0 /\ turns[t].work = 0
  BY <1>1, <1>2 DEF ConvInv, TurnInv, BillInv
<1>6. conv.calls \in Nat /\ conv.work \in Nat
  BY BillIsNatural
<1>7. RowMoves
  BY <1>1, <1>3, LoggedIs DEF BillInv, RowMoves
<1>8. TurnMoves(t, 0, 0)
  BY <1>3, <1>4, <1>5, <1>6, NewTurnIs DEF TurnMoves, CompletedTurns
<1> QED BY <1>1, <1>2, <1>3, <1>7, <1>8

(* A resume passes the bounds and charges nothing yet.                     *)
LEMMA ResumeBill ==
  ASSUME ConversationAssumption, ConvInv, BillInv, NEW k, NEW v, ReserveResume(k, v)
  PROVE  /\ conv.current \in Turns /\ RowMoves /\ TurnMoves(conv.current, 0, 0)
         /\ conv.calls < MaxCalls /\ conv.work < MaxWork /\ conv'.state = "open"
<1> DEFINE t == conv.current
<1>1. /\ t # 0 /\ turns[t].state \in {"waiting_capacity", "interrupted"}
      /\ turns' = [turns EXCEPT ![t].state = "running", ![t].count = @ + 1, ![t].trace = issued + 1]
      /\ conv' = [conv EXCEPT !.state = "open", !.version = @ + 1]
      /\ Logged /\ conv.calls < MaxCalls /\ conv.work < MaxWork
  BY DEF ReserveResume, HasCapacity
<1>2. IsRow(conv) /\ t \in Turns /\ IsTurn(turns[t])
  BY <1>1, RowFields, TurnFields DEF ConversationAssumption, Turns
<1>3. /\ conv'.state = "open" /\ conv'.version = conv.version + 1 /\ conv'.calls = conv.calls
      /\ conv'.work = conv.work /\ conv'.completed = conv.completed
      /\ conv'.pending = conv.pending /\ conv'.deleted = conv.deleted
  <2> HIDE DEF t
  <2> QED BY <1>1, <1>2 DEF IsRow
<1>4. /\ turns'[t].state = "running" /\ turns'[t].count = turns[t].count + 1
      /\ turns'[t].calls = turns[t].calls /\ turns'[t].work = turns[t].work
      /\ \A u \in Turns : u # t => turns'[u] = turns[u]
  <2> HIDE DEF t
  <2> DEFINE q == turns[t]
             q1 == [q EXCEPT !.state = "running"]
             q2 == [q1 EXCEPT !.count = @ + 1]
             r == [q2 EXCEPT !.trace = issued + 1]
  <2>1. turns' = [turns EXCEPT ![t] = r]
    BY <1>1, <1>2 DEF ConvInv, TurnsTyped
  <2>2. turns'[t] = r /\ \A u \in Turns : u # t => turns'[u] = turns[u]
    <3> HIDE DEF r
    <3> QED BY <1>2, <2>1 DEF ConvInv, TurnsTyped
  <2>3. q = turns[t]
    OBVIOUS
  <2> HIDE DEF q
  <2>4. /\ IsTurn(q1) /\ q1.state = "running" /\ q1.calls = q.calls /\ q1.work = q.work
        /\ q1.count = q.count
    BY <1>2, <2>3 DEF IsTurn
  <2> HIDE DEF q1
  <2>5. /\ IsTurn(q2) /\ q2.state = "running" /\ q2.calls = q.calls /\ q2.work = q.work
        /\ q2.count = q.count + 1
    BY <2>4 DEF IsTurn
  <2> HIDE DEF q2
  <2>6. r.state = "running" /\ r.calls = q.calls /\ r.work = q.work /\ r.count = q.count + 1
    BY <2>5 DEF IsTurn
  <2> QED BY <2>2, <2>3, <2>6
<1>5. /\ turns[t].count \in Nat /\ turns[t].calls \in Nat /\ turns[t].work \in Nat
      /\ turns[t].state \notin CompletedTurns
  BY <1>1, <1>2 DEF BillInv, CompletedTurns
<1>6. conv.calls \in Nat /\ conv.work \in Nat
  BY BillIsNatural
<1>7. RowMoves
  BY <1>1, <1>3, LoggedIs DEF BillInv, RowMoves
<1>8. TurnMoves(t, 0, 0)
  BY <1>3, <1>4, <1>5, <1>6 DEF TurnMoves, CompletedTurns
<1> QED BY <1>1, <1>2, <1>3, <1>7, <1>8

(* The projection of a result asks for input of its turn or of none.       *)
LEMMA ProjectionPends ==
  ASSUME NEW s \in Reported, NEW t
  PROVE  /\ Projection(s, t).pending \in {0, t}
         /\ s = "verifier_failed" => Projection(s, t).state = "failed" /\ Projection(s, t).current = 0
<1>1. CASE s \in {"completed", "waiting_capacity", "cancelled"}
  BY <1>1 DEF Projection
<1>2. CASE s = "input_required"
  BY <1>2 DEF Projection
<1>3. CASE s \in {"budget_exhausted", "verifier_failed", "failed"}
  BY <1>3 DEF Projection
<1> QED BY <1>1, <1>2, <1>3
    DEF Reported, TurnStates, CompletedTurns, ActiveTurns, EndedTurns

(* A result is charged as it is; over a bound it ends the conversation.    *)
LEMMA ApplyBill ==
  ASSUME ConversationAssumption, ConvInv, BillInv, NEW a \in Attempts, Owns(a),
         NEW result \in Reported, NEW c \in Nat, NEW w \in Nat, ApplyResult(a, result, Usage(c, w))
  PROVE  LET t == attempts[a].turn
         IN /\ t \in Turns /\ RowMoves /\ TurnMoves(t, c, w) /\ turns'[t].state # "running"
            /\ conv.work + w > MaxWork => conv'.state = "failed" /\ conv'.current = 0
            /\ attempts' = [attempts EXCEPT ![a].state = turns'[t].state]
<1> DEFINE t == attempts[a].turn
           u == Usage(c, w)
           s == IF WithinBounds(result, u) THEN result ELSE "verifier_failed"
           kept == s \in CompletedTurns
           seen == Projection(s, t)
<1>1. /\ turns' = [turns EXCEPT ![t] =
            [Charge(@, u) EXCEPT !.state = s, !.artifact = IF kept THEN a ELSE 0]]
      /\ attempts' = [attempts EXCEPT ![a].state = s]
      /\ conv' = [Charge(conv, u) EXCEPT
            !.state = seen.state, !.version = @ + 1, !.current = seen.current,
            !.pending = seen.pending, !.completed = IF kept THEN @ + 1 ELSE @]
      /\ Logged
  BY DEF ApplyResult
<1>2. s \in Reported
  BY DEF Reported, TurnStates, EndedTurns
<1>3. u.calls = c /\ u.work = w
  BY DEF Usage
<1>4. conv.work + w > MaxWork => s = "verifier_failed"
  BY <1>3, BillIsNatural DEF WithinBounds, ConversationAssumption
<1>5. /\ seen.pending \in {0, t} /\ seen.state # "none"
      /\ s = "verifier_failed" => seen.state = "failed" /\ seen.current = 0
  BY <1>2, ProjectionPends, ProjectionIs
<1>6. /\ t \in Turns /\ t \in 0..MaxTurns /\ turns[t].state = "running" /\ IsRow(conv)
      /\ 0 \in 0..MaxTurns /\ IsTurn(turns[t])
  BY OwnedTurn, RowFields, TurnFields DEF Owns, Turns, ConversationAssumption
<1> HIDE DEF s, seen, u
<1>7. /\ conv'.version = conv.version + 1 /\ conv'.pending = seen.pending
      /\ conv'.deleted = conv.deleted /\ conv'.state = seen.state /\ conv'.current = seen.current
      /\ conv'.calls = conv.calls + c /\ conv'.work = conv.work + w
      /\ conv'.completed = IF kept THEN conv.completed + 1 ELSE conv.completed
  <2> DEFINE q == Charge(conv, u)
  <2>1. /\ IsRow(q) /\ q.version = conv.version /\ q.completed = conv.completed
        /\ q.calls = conv.calls + c /\ q.work = conv.work + w /\ q.deleted = conv.deleted
    BY <1>3, <1>6, ChargedRow, ChargeAdds
  <2>2. conv' = [q EXCEPT !.state = seen.state, !.version = @ + 1, !.current = seen.current,
                          !.pending = seen.pending, !.completed = IF kept THEN @ + 1 ELSE @]
    BY <1>1
  <2> HIDE DEF q, kept
  <2>3. /\ conv'.version = q.version + 1 /\ conv'.pending = seen.pending
        /\ conv'.deleted = q.deleted /\ conv'.state = seen.state /\ conv'.current = seen.current
        /\ conv'.calls = q.calls /\ conv'.work = q.work
        /\ conv'.completed = IF kept THEN q.completed + 1 ELSE q.completed
    BY <2>1, <2>2 DEF IsRow
  <2> QED BY <2>1, <2>3
<1>8. /\ turns'[t].state = s /\ turns'[t].count = turns[t].count
      /\ turns'[t].calls = turns[t].calls + c /\ turns'[t].work = turns[t].work + w
      /\ \A v \in Turns : v # t => turns'[v] = turns[v]
  <2> DEFINE q == Charge(turns[t], u)
             by == IF kept THEN a ELSE 0
             r == [q EXCEPT !.state = s, !.artifact = by]
  <2>1. turns' = [turns EXCEPT ![t] = r]
    BY <1>1, <1>6 DEF ConvInv, TurnsTyped
  <2>2. turns'[t] = r /\ \A v \in Turns : v # t => turns'[v] = turns[v]
    <3> HIDE DEF r, t
    <3> QED BY <1>6, <2>1 DEF ConvInv, TurnsTyped
  <2>3. /\ IsTurn(q) /\ q.count = turns[t].count
        /\ q.calls = turns[t].calls + c /\ q.work = turns[t].work + w
    BY <1>3, <1>6, ChargedTurn, ChargeAdds
  <2> HIDE DEF q, by
  <2>4. r.state = s /\ r.count = q.count /\ r.calls = q.calls /\ r.work = q.work
    BY <2>3 DEF IsTurn
  <2> QED BY <2>2, <2>3, <2>4
<1>9. RowMoves
  <2>1. conv'.deleted \in BOOLEAN /\ (conv.deleted => conv'.deleted)
    BY <1>7 DEF BillInv
  <2>2. history' = [state |-> conv'.state, version |-> conv'.version, deleted |-> conv'.deleted]
    BY <1>1, <2>1, LoggedIs
  <2> QED BY <1>5, <1>6, <1>7, <2>1, <2>2 DEF RowMoves
<1>10. TurnMoves(t, c, w)
  <2>1. "none" \notin TurnStates /\ "running" \notin CompletedTurns
    BY StatesApart DEF StatesAreApart, CompletedTurns
  <2>2. turns[t].count \in Nat
    BY <1>6 DEF BillInv
  <2> QED BY <1>2, <1>6, <1>7, <1>8, <2>1, <2>2 DEF TurnMoves, Reported
<1>11. s # "running"
  BY <1>2 DEF Reported
<1> QED BY <1>1, <1>4, <1>5, <1>6, <1>7, <1>8, <1>9, <1>10, <1>11

(* An attempt whose lease is over is charged a call.                       *)
LEMMA InterruptBill ==
  ASSUME ConversationAssumption, ConvInv, BillInv, NEW a \in Attempts, Owns(a), InterruptExpired(a)
  PROVE  LET t == attempts[a].turn
         IN /\ t \in Turns /\ RowMoves /\ TurnMoves(t, 1, 0) /\ turns'[t].state = "interrupted"
            /\ attempts' = [attempts EXCEPT ![a].state = "interrupted"]
<1> DEFINE t == attempts[a].turn
           u == Usage(1, 0)
<1>1. /\ turns' = [turns EXCEPT ![t] = [Charge(@, u) EXCEPT !.state = "interrupted"]]
      /\ attempts' = [attempts EXCEPT ![a].state = "interrupted"]
      /\ conv' = [Charge(conv, u) EXCEPT !.state = "waiting_capacity", !.version = @ + 1]
      /\ Logged
  BY DEF InterruptExpired
<1>2. u.calls = 1 /\ u.work = 0
  BY DEF Usage
<1>3. t \in Turns /\ turns[t].state = "running" /\ IsRow(conv) /\ IsTurn(turns[t])
  BY OwnedTurn, RowFields, TurnFields DEF Owns
<1> HIDE DEF u
<1>4. /\ conv'.version = conv.version + 1 /\ conv'.pending = conv.pending
      /\ conv'.deleted = conv.deleted /\ conv'.state = "waiting_capacity"
      /\ conv'.calls = conv.calls + 1 /\ conv'.work = conv.work + 0
      /\ conv'.completed = conv.completed
  <2> DEFINE q == Charge(conv, u)
  <2>1. /\ IsRow(q) /\ q.version = conv.version /\ q.completed = conv.completed
        /\ q.calls = conv.calls + 1 /\ q.work = conv.work + 0 /\ q.deleted = conv.deleted
        /\ q.pending = conv.pending
    BY <1>2, <1>3, ChargedRow, ChargeAdds
  <2>2. conv' = [q EXCEPT !.state = "waiting_capacity", !.version = @ + 1]
    BY <1>1
  <2> HIDE DEF q
  <2> QED BY <2>1, <2>2 DEF IsRow
<1>5. /\ turns'[t].state = "interrupted" /\ turns'[t].count = turns[t].count
      /\ turns'[t].calls = turns[t].calls + 1 /\ turns'[t].work = turns[t].work + 0
      /\ \A v \in Turns : v # t => turns'[v] = turns[v]
  <2> DEFINE q == Charge(turns[t], u)
             r == [q EXCEPT !.state = "interrupted"]
  <2>1. turns' = [turns EXCEPT ![t] = r]
    BY <1>1, <1>3 DEF ConvInv, TurnsTyped
  <2>2. turns'[t] = r /\ \A v \in Turns : v # t => turns'[v] = turns[v]
    <3> HIDE DEF r, t
    <3> QED BY <1>3, <2>1 DEF ConvInv, TurnsTyped
  <2>3. /\ IsTurn(q) /\ q.count = turns[t].count
        /\ q.calls = turns[t].calls + 1 /\ q.work = turns[t].work + 0
    BY <1>2, <1>3, ChargedTurn, ChargeAdds
  <2> HIDE DEF q
  <2>4. r.state = "interrupted" /\ r.count = q.count /\ r.calls = q.calls /\ r.work = q.work
    BY <2>3 DEF IsTurn
  <2> QED BY <2>2, <2>3, <2>4
<1>6. RowMoves
  BY <1>1, <1>4, LoggedIs DEF BillInv, RowMoves
<1>7. TurnMoves(t, 1, 0)
  <2>1. turns[t].count \in Nat
    BY <1>3 DEF BillInv
  <2> QED BY <1>3, <1>4, <1>5, <2>1 DEF TurnMoves, CompletedTurns
<1> QED BY <1>1, <1>3, <1>5, <1>6, <1>7

(* A conversation that is closed, deleted or expired has no current turn,  *)
(* and its bill is what it was.                                            *)
LEMMA EndBill ==
  ASSUME ConversationAssumption, ConvInv, BillInv,
         (\E v : CloseConversation(v) \/ DeleteContent(v)) \/ ExpireDue
  PROVE  /\ RowMoves /\ BillIsStill /\ attempts' = attempts
         /\ conv'.state \in TerminalConversations /\ conv'.current = 0
<1>1. IsRow(conv) /\ 0 \in 0..MaxTurns
  BY RowFields DEF ConversationAssumption
<1>2. CASE \E v : CloseConversation(v)
  <2>1. /\ conv' = [conv EXCEPT !.state = "closed", !.version = @ + 1, !.pending = 0]
        /\ Logged /\ UNCHANGED <<turns, attempts>> /\ conv.current = 0
    BY <1>2 DEF CloseConversation
  <2>2. /\ conv'.state = "closed" /\ conv'.version = conv.version + 1 /\ conv'.pending = 0
        /\ conv'.calls = conv.calls /\ conv'.work = conv.work /\ conv'.current = conv.current
        /\ conv'.completed = conv.completed /\ conv'.deleted = conv.deleted
    BY <1>1, <2>1 DEF IsRow
  <2>3. RowMoves
    BY <1>1, <2>1, <2>2, LoggedIs DEF BillInv, RowMoves
  <2> QED BY <2>1, <2>2, <2>3 DEF BillIsStill, TerminalConversations
<1>3. CASE \E v : DeleteContent(v)
  <2>1. /\ conv' = [conv EXCEPT !.state = "closed", !.version = @ + 1, !.pending = 0,
                                !.deleted = TRUE]
        /\ Logged /\ UNCHANGED <<turns, attempts>> /\ conv.current = 0
    BY <1>3 DEF DeleteContent
  <2>2. /\ conv'.state = "closed" /\ conv'.version = conv.version + 1 /\ conv'.pending = 0
        /\ conv'.calls = conv.calls /\ conv'.work = conv.work /\ conv'.current = conv.current
        /\ conv'.completed = conv.completed /\ conv'.deleted = TRUE
    BY <1>1, <2>1 DEF IsRow
  <2>3. RowMoves
    BY <1>1, <2>1, <2>2, LoggedIs DEF BillInv, RowMoves
  <2> QED BY <2>1, <2>2, <2>3 DEF BillIsStill, TerminalConversations
<1>4. CASE ExpireDue
  <2>1. /\ turns' = [t \in Turns |->
             IF t = conv.current THEN [turns[t] EXCEPT !.state = "cancelled"] ELSE turns[t]]
        /\ conv' = [conv EXCEPT !.state = "expired", !.version = @ + 1, !.current = 0,
                                !.pending = 0, !.deleted = TRUE]
        /\ Logged /\ UNCHANGED attempts
    BY <1>4 DEF ExpireDue
  <2>2. /\ conv'.state = "expired" /\ conv'.version = conv.version + 1 /\ conv'.pending = 0
        /\ conv'.calls = conv.calls /\ conv'.work = conv.work /\ conv'.current = 0
        /\ conv'.completed = conv.completed /\ conv'.deleted = TRUE
    BY <1>1, <2>1 DEF IsRow
  <2>3. RowMoves
    BY <1>1, <2>1, <2>2, LoggedIs DEF BillInv, RowMoves
  <2>4. ASSUME NEW u \in Turns
        PROVE  /\ turns'[u].count = turns[u].count
               /\ turns'[u].calls = turns[u].calls /\ turns'[u].work = turns[u].work
               /\ turns'[u].state = "none" => turns[u].state = "none"
               /\ turns'[u].state \in CompletedTurns <=> turns[u].state \in CompletedTurns
    <3>1. CASE u # conv.current
      BY <2>1, <3>1
    <3>2. CASE u = conv.current
      <4> DEFINE q == turns[u]
                 r == [q EXCEPT !.state = "cancelled"]
      <4>1. turns'[u] = r /\ IsTurn(q)
        BY <2>1, <3>2, TurnFields
      <4>2. q.state \notin CompletedTurns
        <5>1. u # 0 /\ turns[conv.current].state \in ActiveTurns
          BY <3>2 DEF ConvInv, RowInv, Turns
        <5> QED BY <3>2, <5>1, StatesApart DEF StatesAreApart
      <4> HIDE DEF q
      <4>3. r.state = "cancelled" /\ r.count = q.count /\ r.calls = q.calls /\ r.work = q.work
        BY <4>1 DEF IsTurn
      <4> HIDE DEF r
      <4> QED BY <4>1, <4>2, <4>3 DEF CompletedTurns, q
    <3> QED BY <3>1, <3>2
  <2> QED BY <2>1, <2>2, <2>3, <2>4 DEF BillIsStill, TerminalConversations
<1> QED BY <1>2, <1>3, <1>4

-----------------------------------------------------------------------------
(* The rebuilt row *)

(* The sums of the rebuilt row, taken over the turns in use.               *)
LEMMA SumOverUsedTurns ==
  ASSUME ConversationAssumption, BillInv
  PROVE  /\ MapThenSumSet(LAMBDA t : turns[t].calls, UsedTurns) = conv.calls
         /\ MapThenSumSet(LAMBDA t : turns[t].work, UsedTurns) = conv.work
<1>1. IsFiniteSet(Turns) /\ UsedTurns \in SUBSET Turns /\ IsFiniteSet(UsedTurns)
      /\ IsFiniteSet(Turns \ UsedTurns)
  BY BillIsNatural, FS_Subset DEF UsedTurns
<1>2. ASSUME NEW f, \A t \in Turns : f[t] \in Nat /\ (turns[t].state = "none" => f[t] = 0)
      PROVE  Total(f, UsedTurns) = Total(f, Turns)
  <2>1. Total(f, Turns) = Total(f, UsedTurns) + Total(f, Turns \ UsedTurns)
    BY ONLY <1>1, <1>2, TotalSplit
  <2>2. Total(f, Turns \ UsedTurns) = 0
    <3>1. \A t \in Turns \ UsedTurns : f[t] = 0
      BY <1>2 DEF UsedTurns
    <3> QED BY ONLY <1>1, <3>1, TotalOfZeros
  <2>3. Total(f, UsedTurns) \in Nat
    BY ONLY <1>1, <1>2, TotalIsNat
  <2> QED BY <2>1, <2>2, <2>3
<1>3. MapThenSumSet(LAMBDA t : turns[t].calls, UsedTurns) = Total(TurnCalls, UsedTurns)
  <2> DEFINE Body(g) == [T \in SUBSET UsedTurns |->
                           IF T = {} THEN 0
                           ELSE turns[CHOOSE t \in T : TRUE].calls + g[T \ {CHOOSE t \in T : TRUE}]]
             r == CHOOSE g : g = Body(g)
  <2>1. MapThenSumSet(LAMBDA t : turns[t].calls, UsedTurns) = r[UsedTurns]
    BY DEF MapThenSumSet, MapThenFoldSet
  <2>2. ASSUME NEW g PROVE g = Body(g) <=> IsSumTable(g, TurnCalls, SUBSET UsedTurns)
    <3>1. ASSUME NEW T \in SUBSET UsedTurns, T # {}
          PROVE  TurnCalls[Pick(T)] = turns[Pick(T)].calls
      BY <1>1, <3>1 DEF TurnCalls, Pick
    <3>2. ASSUME NEW T \in SUBSET UsedTurns PROVE Body(g)[T] = SumStep(TurnCalls, g, T)
      BY <3>1 DEF SumStep, Pick
    <3> QED BY <3>2 DEF IsSumTable
  <2>3. \E g : g = Body(g)
    <3>1. PICK g : IsSumTable(g, TurnCalls, SUBSET UsedTurns)
      BY <1>1, SumTableExists
    <3>2. g = Body(g)
      BY <2>2, <3>1
    <3> QED BY <3>2
  <2>4. r = Body(r)
    <3> HIDE DEF Body
    <3> QED BY <2>3
  <2> HIDE DEF r
  <2>5. IsSumTable(r, TurnCalls, SUBSET UsedTurns)
    BY <2>2, <2>4
  <2>6. r[UsedTurns] = Total(TurnCalls, UsedTurns)
    BY <1>1, <2>5, TableHoldsTotal
  <2> QED BY <2>1, <2>6
<1>4. MapThenSumSet(LAMBDA t : turns[t].work, UsedTurns) = Total(TurnWork, UsedTurns)
  <2> DEFINE Body(g) == [T \in SUBSET UsedTurns |->
                           IF T = {} THEN 0
                           ELSE turns[CHOOSE t \in T : TRUE].work + g[T \ {CHOOSE t \in T : TRUE}]]
             r == CHOOSE g : g = Body(g)
  <2>1. MapThenSumSet(LAMBDA t : turns[t].work, UsedTurns) = r[UsedTurns]
    BY DEF MapThenSumSet, MapThenFoldSet
  <2>2. ASSUME NEW g PROVE g = Body(g) <=> IsSumTable(g, TurnWork, SUBSET UsedTurns)
    <3>1. ASSUME NEW T \in SUBSET UsedTurns, T # {}
          PROVE  TurnWork[Pick(T)] = turns[Pick(T)].work
      BY <1>1, <3>1 DEF TurnWork, Pick
    <3>2. ASSUME NEW T \in SUBSET UsedTurns PROVE Body(g)[T] = SumStep(TurnWork, g, T)
      BY <3>1 DEF SumStep, Pick
    <3> QED BY <3>2 DEF IsSumTable
  <2>3. \E g : g = Body(g)
    <3>1. PICK g : IsSumTable(g, TurnWork, SUBSET UsedTurns)
      BY <1>1, SumTableExists
    <3>2. g = Body(g)
      BY <2>2, <3>1
    <3> QED BY <3>2
  <2>4. r = Body(r)
    <3> HIDE DEF Body
    <3> QED BY <2>3
  <2> HIDE DEF r
  <2>5. IsSumTable(r, TurnWork, SUBSET UsedTurns)
    BY <2>2, <2>4
  <2>6. r[UsedTurns] = Total(TurnWork, UsedTurns)
    BY <1>1, <2>5, TableHoldsTotal
  <2> QED BY <2>1, <2>6
<1>5. /\ Total(TurnCalls, UsedTurns) = Total(TurnCalls, Turns)
      /\ Total(TurnWork, UsedTurns) = Total(TurnWork, Turns)
  BY <1>2 DEF BillInv, TurnCalls, TurnWork
<1> QED BY <1>3, <1>4, <1>5 DEF BillInv

(* The row can be rebuilt: it is what the events and the turns say, but    *)
(* for the turn that asks for input, which may be one of before.           *)
LEMMA RowIsDerived ==
  ASSUME ConversationAssumption, ConvInv, BillInv
  PROVE  /\ IsRow(DerivedProjection) /\ DerivedProjection.pending \in 0..MaxTurns
         /\ conv = [DerivedProjection EXCEPT !.pending = conv.pending]
<1>1. /\ conv.started \in 0..MaxTurns /\ MaxTurns \in Nat /\ IsRow(conv)
  BY RowFields DEF ConversationAssumption
<1>2. UsedTurns = 1..conv.started
  <2>1. \A t \in Turns : turns[t].state = "none" <=> t > conv.started
    BY DEF ConvInv, TurnInv
  <2> QED BY <1>1, <2>1 DEF UsedTurns, Turns
<1>3. LatestTurn = conv.started
  <2>1. 1 \in Int /\ conv.started \in Int
    BY <1>1
  <2>2. Cardinality(1..conv.started) = IF 1 > conv.started THEN 0 ELSE conv.started - 1 + 1
    BY <2>1, FS_Interval
  <2> QED BY <1>1, <1>2, <2>2 DEF LatestTurn
<1>4. conv.current = IF \E t \in {LatestTurn} \cap Turns : turns[t].state \in ActiveTurns
                       THEN LatestTurn ELSE 0
  <2>1. conv.current # 0 =>
          conv.current = conv.started /\ turns[conv.started].state \in ActiveTurns
    BY DEF ConvInv, RowInv
  <2>2. ASSUME NEW t \in Turns, turns[t].state \in ActiveTurns
        PROVE  conv.current = t /\ t # 0
    BY <2>2 DEF ConvInv, TurnInv, Turns
  <2>3. conv.current # 0 => conv.started \in Turns
    BY <1>1, <2>1 DEF Turns
  <2> QED BY <1>3, <2>1, <2>2, <2>3
<1> DEFINE p == IF \E t \in {LatestTurn} \cap Turns : turns[t].state = "input_required"
                  THEN LatestTurn ELSE 0
<1>5. p \in 0..MaxTurns
  BY <1>1, <1>3
<1>6. /\ history.state = conv.state /\ history.version = conv.version
      /\ history.deleted = conv.deleted
      /\ conv.completed = Cardinality({t \in Turns : turns[t].state \in CompletedTurns})
  BY DEF BillInv, AnsweredTurns
<1>7. DerivedProjection = [state |-> conv.state, version |-> conv.version,
                           started |-> conv.started, completed |-> conv.completed,
                           calls |-> conv.calls, work |-> conv.work,
                           current |-> conv.current, pending |-> p, deleted |-> conv.deleted]
  <2> DEFINE a == IF \E t \in {LatestTurn} \cap Turns : turns[t].state \in ActiveTurns
                    THEN LatestTurn ELSE 0
             c == MapThenSumSet(LAMBDA t : turns[t].calls, UsedTurns)
             w == MapThenSumSet(LAMBDA t : turns[t].work, UsedTurns)
             n == Cardinality({t \in Turns : turns[t].state \in CompletedTurns})
  <2>1. DerivedProjection = [state |-> history.state, version |-> history.version,
                             started |-> LatestTurn, completed |-> n, calls |-> c, work |-> w,
                             current |-> a, pending |-> p, deleted |-> history.deleted]
    BY DEF DerivedProjection
  <2>2. a = conv.current /\ c = conv.calls /\ w = conv.work /\ n = conv.completed
    BY <1>4, <1>6, SumOverUsedTurns
  <2> HIDE DEF a, c, w, n, p
  <2> QED BY <1>3, <1>6, <2>1, <2>2
<1> HIDE DEF p
<1>8. IsRow(DerivedProjection) /\ DerivedProjection.pending = p
  BY <1>7 DEF IsRow
<1>9. conv = [DerivedProjection EXCEPT !.pending = conv.pending]
  BY <1>1, <1>7 DEF IsRow
<1> QED BY <1>5, <1>8, <1>9

(* A rebuild changes nothing but the turn that asks for input.             *)
LEMMA RebuildBill ==
  ASSUME ConversationAssumption, ConvInv, BillInv, RebuildProjection
  PROVE  /\ BillIsStill /\ conv'.version = conv.version /\ conv'.pending \in 0..MaxTurns
         /\ conv'.deleted = conv.deleted /\ conv'.state = conv.state
         /\ conv'.current = conv.current /\ conv'.started = conv.started
         /\ UNCHANGED <<turns, attempts, issued, idem, history, content, convHostVars>>
<1> DEFINE d == DerivedProjection
<1>1. /\ conv' = d /\ UNCHANGED <<turns, attempts, issued, idem, history, content, convHostVars>>
  BY DEF RebuildProjection
<1>2. /\ IsRow(d) /\ d.pending \in 0..MaxTurns
      /\ conv = [d EXCEPT !.pending = conv.pending]
  BY RowIsDerived
<1> HIDE DEF d
<1>3. /\ conv.state = d.state /\ conv.version = d.version /\ conv.started = d.started
      /\ conv.completed = d.completed /\ conv.calls = d.calls /\ conv.work = d.work
      /\ conv.current = d.current /\ conv.deleted = d.deleted
  BY <1>2 DEF IsRow
<1> QED BY <1>1, <1>2, <1>3 DEF BillIsStill

-----------------------------------------------------------------------------
(* The bounds *)

(* At most one more attempt may have called its model, and it is charged.  *)
LEMMA CallsCounted ==
  ASSUME ConversationAssumption, CallInv, NEW n \in {0, 1}, NEW a,
         MayHaveCalled' \subseteq MayHaveCalled \cup (IF n = 1 THEN {a} ELSE {}),
         conv.calls \in Nat, conv'.calls >= conv.calls + n, conv'.calls \in Nat
  PROVE  CallInv'
<1>1. IsFiniteSet(MayHaveCalled) /\ Cardinality(MayHaveCalled) \in Nat
  <2>1. IsFiniteSet(Attempts)
    BY FS_Interval DEF Attempts, ConversationAssumption
  <2>2. IsFiniteSet(MayHaveCalled)
    BY <2>1, FS_Subset DEF MayHaveCalled
  <2> QED BY <2>2, FS_CardinalityType
<1>2. CASE n = 0
  <2>1. MayHaveCalled' \subseteq MayHaveCalled
    BY <1>2
  <2>2. Cardinality(MayHaveCalled') <= Cardinality(MayHaveCalled) /\ IsFiniteSet(MayHaveCalled')
    BY <1>1, <2>1, FS_Subset
  <2>3. Cardinality(MayHaveCalled') \in Nat
    BY <2>2, FS_CardinalityType
  <2> QED BY <1>1, <1>2, <2>2, <2>3 DEF CallInv
<1>3. CASE n = 1
  <2> DEFINE M == MayHaveCalled \cup {a}
  <2>1. MayHaveCalled' \subseteq M
    BY <1>3
  <2>2. IsFiniteSet(M) /\ Cardinality(M) \in {Cardinality(MayHaveCalled), Cardinality(MayHaveCalled) + 1}
    BY ONLY <1>1, FS_AddElement
  <2> HIDE DEF M
  <2>3. Cardinality(MayHaveCalled') <= Cardinality(M) /\ IsFiniteSet(MayHaveCalled')
    BY <2>1, <2>2, FS_Subset
  <2>4. Cardinality(MayHaveCalled') \in Nat /\ Cardinality(M) \in Nat
    BY <2>2, <2>3, FS_CardinalityType
  <2> QED BY <1>1, <1>3, <2>2, <2>3, <2>4 DEF CallInv
<1> QED BY <1>2, <1>3

(* A reserved attempt has not called its model, and stays below the bounds.*)
LEMMA LeaseKeepsUsage ==
  ASSUME ConversationAssumption, ConvInv, ConvInv', UsageInv, NEW t \in Turns,
         Lease(t), RowMoves, TurnMoves(t, 0, 0), conv.calls < MaxCalls, conv.work < MaxWork
  PROVE  UsageInv'
<1>1. BillInv'
  BY TurnMovesBill DEF UsageInv
<1>2. conv.calls \in Nat /\ conv.work \in Nat /\ conv'.calls = conv.calls /\ conv'.work = conv.work
      /\ MaxCalls \in Nat /\ MaxWork \in Nat
  BY BillIsNatural DEF UsageInv, TurnMoves, ConversationAssumption
<1>3. /\ issued + 1 \in Attempts /\ attempts[issued + 1].state = "none"
      /\ attempts' = [attempts EXCEPT ![issued + 1] = [state |-> "running", turn |-> t]]
      /\ exec' = [exec EXCEPT ![issued + 1] = "leased"] /\ called' = called
  <2>1. issued \in 0..MaxAttempts /\ issued < MaxAttempts /\ MaxAttempts \in Nat
    BY DEF Lease, ConvInv, AttemptsTyped, ConversationAssumption
  <2>2. issued + 1 \in Attempts /\ ~(issued + 1 <= issued)
    BY <2>1 DEF Attempts
  <2> QED BY <2>2 DEF Lease, ConvInv, TraceInv
<1>4. /\ attempts'[issued + 1].state = "running" /\ exec'[issued + 1] = "leased"
      /\ \A b \in Attempts : b # issued + 1 => attempts'[b] = attempts[b] /\ exec'[b] = exec[b]
  BY <1>3 DEF ConvInv, AttemptsTyped, UsageInv, ExecInv
<1>5. ExecInv'
  BY <1>3, <1>4 DEF UsageInv, ExecInv
<1>6. MayHaveCalled' \subseteq MayHaveCalled
  BY <1>3, <1>4 DEF MayHaveCalled
<1>7. CallInv'
  BY <1>2, <1>6, CallsCounted DEF UsageInv
<1>8. BoundInv'
  BY <1>2 DEF BoundInv, BoundsEndTheConversation
<1> QED BY <1>1, <1>5, <1>7, <1>8 DEF UsageInv

(* The end of an attempt is charged if it has called its model or may.     *)
LEMMA EndKeepsUsage ==
  ASSUME ConversationAssumption, ConvInv, ConvInv', UsageInv, NEW a \in Attempts, Owns(a),
         NEW t \in Turns, t = attempts[a].turn, NEW c \in {0, 1}, NEW w \in Nat,
         RowMoves, TurnMoves(t, c, w), turns'[t].state # "running",
         attempts' = [attempts EXCEPT ![a].state = turns'[t].state],
         conv.work + w > MaxWork => conv'.state = "failed" /\ conv'.current = 0,
         exec' \in {exec, [exec EXCEPT ![a] = "over"]}, called' = called,
         c = 1 \/ (a \notin called /\ exec' = [exec EXCEPT ![a] = "over"])
  PROVE  UsageInv'
<1>1. BillInv'
  BY TurnMovesBill DEF UsageInv
<1>2. /\ conv.calls \in Nat /\ conv.work \in Nat /\ conv'.calls = conv.calls + c
      /\ conv'.work = conv.work + w /\ MaxCalls \in Nat /\ MaxWork \in Nat
  BY BillIsNatural DEF UsageInv, TurnMoves, ConversationAssumption
<1>3. /\ conv.current = t /\ turns[t].state = "running" /\ attempts[a].state = "running" /\ t # 0
  BY DEF Owns, Turns
<1>4. conv.calls < MaxCalls /\ conv.work < MaxWork
  BY <1>3 DEF UsageInv, BoundInv
<1>5. /\ attempts'[a].state = turns'[t].state /\ turns'[t].state # "none"
      /\ \A b \in Attempts : b # a => attempts'[b] = attempts[b]
      /\ \A b \in Attempts : b # a => exec'[b] = exec[b]
      /\ exec' \in [Attempts -> {"none", "leased", "invoked", "over", "dead"}]
      /\ exec'[a] \in {exec[a], "over"}
      /\ (c = 1 \/ (a \notin called /\ exec'[a] = "over"))
  BY DEF ConvInv, AttemptsTyped, UsageInv, ExecInv, TurnMoves
<1>6. ExecInv'
  BY <1>5 DEF UsageInv, ExecInv
<1>7. MayHaveCalled' \subseteq MayHaveCalled \cup (IF c = 1 THEN {a} ELSE {})
  BY <1>5 DEF MayHaveCalled
<1>8. CallInv'
  <2>1. conv'.calls >= conv.calls + c /\ conv'.calls \in Nat
    BY <1>2
  <2>2. CallInv /\ conv.calls \in Nat
    BY <1>2 DEF UsageInv
  <2> QED BY <1>7, <2>1, <2>2, CallsCounted
<1>9. \A u \in Turns : turns'[u].state # "running"
  <2> SUFFICES ASSUME NEW u \in Turns, u # t PROVE turns'[u].state # "running"
    OBVIOUS
  <2>1. turns'[u] = turns[u]
    BY DEF TurnMoves
  <2>2. turns[u].state \notin ActiveTurns
    BY <1>3 DEF ConvInv, TurnInv
  <2> QED BY <2>1, <2>2 DEF ActiveTurns
<1>10. conv'.current # 0 => turns'[conv'.current].state # "running"
  <2>1. conv'.current \in 0..MaxTurns
    BY DEF ConvInv, RowTyped
  <2> QED BY <1>9, <2>1 DEF Turns, ConversationAssumption
<1>11. BoundInv'
  <2>1. conv'.calls <= MaxCalls
    BY <1>2, <1>4
  <2>2. "failed" \in TerminalConversations
    BY DEF TerminalConversations
  <2> QED BY <1>2, <1>10, <2>1, <2>2 DEF BoundInv, BoundsEndTheConversation
<1> QED BY <1>1, <1>6, <1>8, <1>11 DEF UsageInv

(* A step of the bill that leaves attempts and hosts alone.                *)
LEMMA StillKeepsUsage ==
  ASSUME ConversationAssumption, ConvInv, ConvInv', UsageInv, BillInv', BillIsStill,
         attempts' = attempts, exec' = exec, called' = called,
         \/ conv'.state \in TerminalConversations /\ conv'.current = 0
         \/ conv'.state = conv.state /\ conv'.current = conv.current /\ turns' = turns
  PROVE  UsageInv'
<1>1. conv.calls \in Nat /\ conv.work \in Nat /\ conv'.calls = conv.calls /\ conv'.work = conv.work
  BY BillIsNatural DEF UsageInv, BillIsStill
<1>2. ExecInv' /\ MayHaveCalled' = MayHaveCalled
  BY DEF UsageInv, ExecInv, MayHaveCalled
<1>3. CallInv'
  BY <1>1, <1>2 DEF UsageInv, CallInv
<1>4. BoundInv'
  BY <1>1 DEF UsageInv, BoundInv, BoundsEndTheConversation
<1> QED BY <1>2, <1>3, <1>4 DEF UsageInv

(* An attempt whose lease ran out is charged one call.                     *)
LEMMA InterruptKeepsUsage ==
  ASSUME ConversationAssumption, ConvInv, ConvInv', UsageInv, NEW a \in Attempts, Owns(a),
         InterruptExpired(a), exec' \in {exec, [exec EXCEPT ![a] = "over"]}, called' = called
  PROVE  UsageInv' /\ RowMoves
<1> DEFINE t == attempts[a].turn
<1>1. /\ t \in Turns /\ RowMoves /\ TurnMoves(t, 1, 0) /\ turns'[t].state = "interrupted"
      /\ attempts' = [attempts EXCEPT ![a].state = "interrupted"]
  BY InterruptBill DEF UsageInv
<1>2. conv.work + 0 <= MaxWork
  <2>1. conv.current = t /\ turns[t].state = "running" /\ t # 0
    BY <1>1 DEF Owns, Turns
  <2> QED BY <2>1, BillIsNatural DEF UsageInv, BoundInv, ConversationAssumption
<1>3. turns'[t].state # "running" /\ attempts' = [attempts EXCEPT ![a].state = turns'[t].state]
      /\ ~(conv.work + 0 > MaxWork)
  BY <1>1, <1>2, BillIsNatural DEF UsageInv, ConversationAssumption
<1> HIDE DEF t
<1>4. t = attempts[a].turn
  BY DEF t
<1> QED BY <1>1, <1>3, <1>4, EndKeepsUsage

(* The hosts.                                                              *)
LEMMA HostKeepsUsage ==
  ASSUME ConversationAssumption, ConvInv, UsageInv, UNCHANGED convStoreVars, NEW a \in Attempts,
         \/ exec[a] = "leased" /\ exec' = [exec EXCEPT ![a] = "invoked"] /\ called' = called
         \/ exec[a] = "invoked" /\ exec' = exec /\ called' = called \cup {a}
         \/ exec[a] \in {"leased", "invoked"} /\ exec' = [exec EXCEPT ![a] = "dead"] /\ called' = called
         \/ exec' = exec /\ called' = called
         \/ exec[a] \in {"leased", "invoked"} /\ exec' = [exec EXCEPT ![a] = "over"] /\ called' = called
  PROVE  UsageInv'
<1>1. BillInv' /\ BoundInv' /\ conv' = conv /\ attempts' = attempts
  BY DEF convStoreVars, UsageInv, BillInv, BoundInv, BoundsEndTheConversation,
         TurnCalls, TurnWork, AnsweredTurns
<1>2. ExecInv'
  BY <1>1 DEF UsageInv, ExecInv
<1>3. MayHaveCalled' \subseteq MayHaveCalled
  BY <1>1 DEF UsageInv, ExecInv, MayHaveCalled
<1>4. conv.calls \in Nat
  BY BillIsNatural DEF UsageInv
<1>5. CallInv'
  BY <1>1, <1>3, <1>4, CallsCounted DEF UsageInv
<1> QED BY <1>1, <1>2, <1>5 DEF UsageInv

(* A report, whether it is in time or not.                                 *)
LEMMA FinalizeKeepsUsage ==
  ASSUME ConversationAssumption, ConvInv, ConvInv', UsageInv, NEW a \in Attempts,
         NEW result \in Reported, NEW c \in {0, 1}, NEW w, Owns(a) => w \in Nat,
         FinalizeTurn(a, result, Usage(c, w)),
         exec[a] \in {"leased", "invoked"}, exec' = [exec EXCEPT ![a] = "over"],
         called' = called, a \in called => c = 1
  PROVE  UsageInv'
<1>1. CASE ~Owns(a) /\ UNCHANGED <<conv, turns, attempts, history, content>>
  BY <1>1, HostKeepsUsage DEF FinalizeTurn, convStoreVars
<1> DEFINE t == attempts[a].turn
<1>2. CASE Owns(a) /\ InterruptExpired(a)
  <2>1. Owns(a) /\ InterruptExpired(a) /\ exec' \in {exec, [exec EXCEPT ![a] = "over"]}
    BY <1>2
  <2> QED BY <2>1, InterruptKeepsUsage
<1>3. CASE Owns(a) /\ ApplyResult(a, result, Usage(c, w))
  <2>1. /\ t \in Turns /\ RowMoves /\ TurnMoves(t, c, w) /\ turns'[t].state # "running"
        /\ conv.work + w > MaxWork => conv'.state = "failed" /\ conv'.current = 0
        /\ attempts' = [attempts EXCEPT ![a].state = turns'[t].state]
    <3>1. c \in Nat /\ w \in Nat /\ Owns(a) /\ ApplyResult(a, result, Usage(c, w)) /\ BillInv
      BY <1>3 DEF UsageInv
    <3> QED BY <3>1, ApplyBill
  <2>2. w \in Nat
    BY <1>3
  <2>3. c = 1 \/ (a \notin called /\ exec' = [exec EXCEPT ![a] = "over"])
    OBVIOUS
  <2> HIDE DEF t
  <2>4. t = attempts[a].turn /\ Owns(a)
    BY <1>3 DEF t
  <2> QED BY <2>1, <2>2, <2>3, <2>4, EndKeepsUsage
<1> QED BY <1>1, <1>2, <1>3 DEF FinalizeTurn

(* A recovery charges the lost attempt once, within what the turn may use. *)
LEMMA RecoverKeepsUsage ==
  ASSUME ConversationAssumption, ConvIInv, ConvInv', UsageInv, RecoverExpiredLeases
  PROVE  UsageInv' /\ RowMoves
<1> USE DEF ConvIInv
<1>1. PICK a \in lapsed : attempts[a].state = "running" /\ InterruptExpired(a)
  BY DEF RecoverExpiredLeases
<1>2. a \in Attempts /\ Owns(a)
  BY <1>1, OwnedTurn
<1>3. InterruptExpired(a) /\ exec' = exec /\ called' = called /\ ConvInv
  BY <1>1 DEF RecoverExpiredLeases, convHostVars
<1>4. exec' \in {exec, [exec EXCEPT ![a] = "over"]}
  BY <1>3
<1>5. UsageInv' /\ RowMoves
  BY ONLY ConversationAssumption, ConvInv', UsageInv, <1>2, <1>3, <1>4, InterruptKeepsUsage
<1> QED BY <1>5

(* A conversation nobody has started has cost nothing.                     *)
LEMMA NothingIsCharged ==
  ASSUME ConversationAssumption, ConvInv, BillInv, conv.state = "none"
  PROVE  conv.calls = 0 /\ conv.work = 0
<1>1. \A t \in Turns : turns[t].state = "none"
  BY DEF ConvInv, RowInv, TurnInv, Turns, ConversationAssumption
<1>2. \A t \in Turns : TurnCalls[t] = 0 /\ TurnWork[t] = 0
  BY <1>1 DEF BillInv, TurnCalls, TurnWork
<1>3. Total(TurnCalls, Turns) = 0 /\ Total(TurnWork, Turns) = 0
  BY <1>2, BillIsNatural, TotalOfZeros
<1> QED BY <1>3 DEF BillInv

(* A reservation starts an attempt that nothing was charged for.           *)
LEMMA ReserveKeepsUsage ==
  ASSUME ConversationAssumption, ConvInv, ConvInv', UsageInv,
         \/ ReserveStart
         \/ \E k, v, input : ReserveContinue(k, v, input)
         \/ \E k, v : ReserveResume(k, v)
  PROVE  UsageInv' /\ RowMoves
<1>1. CASE ReserveStart
  <2>1. 1 \in Turns /\ Lease(1)
    BY <1>1 DEF ReserveStart, Turns, ConversationAssumption
  <2>2. conv.calls < MaxCalls /\ conv.work < MaxWork
    BY <1>1, NothingIsCharged DEF ReserveStart, UsageInv, ConversationAssumption
  <2> QED BY <1>1, <2>1, <2>2, StartBill, LeaseKeepsUsage DEF UsageInv
<1>2. CASE \E k, v, input : ReserveContinue(k, v, input)
  <2>1. Lease(conv.started + 1)
    BY <1>2 DEF ReserveContinue
  <2> QED BY <1>2, <2>1, ContinueBill, LeaseKeepsUsage DEF UsageInv
<1>3. CASE \E k, v : ReserveResume(k, v)
  <2>1. Lease(conv.current)
    BY <1>3 DEF ReserveResume
  <2> QED BY <1>3, <2>1, ResumeBill, LeaseKeepsUsage DEF UsageInv
<1> QED BY <1>1, <1>2, <1>3

(* Closing, deleting and expiring charge nothing.                          *)
LEMMA EndingKeepsUsage ==
  ASSUME ConversationAssumption, ConvInv, ConvInv', UsageInv,
         (\E v : CloseConversation(v) \/ DeleteContent(v)) \/ ExpireDue
  PROVE  UsageInv' /\ RowMoves
<1>1. /\ RowMoves /\ BillIsStill /\ attempts' = attempts
      /\ conv'.state \in TerminalConversations /\ conv'.current = 0
  BY EndBill DEF UsageInv
<1>2. BillInv'
  BY <1>1, BillStays DEF RowMoves, UsageInv, BillInv
<1>3. exec' = exec /\ called' = called
  BY DEF CloseConversation, DeleteContent, ExpireDue, convHostVars
<1> QED BY <1>1, <1>2, <1>3, StillKeepsUsage

(* Rebuilding the projection charges nothing.                              *)
LEMMA RebuildKeepsUsage ==
  ASSUME ConversationAssumption, ConvInv, ConvInv', UsageInv, RebuildProjection
  PROVE  UsageInv'
<1>1. /\ BillIsStill /\ conv'.version = conv.version /\ conv'.pending \in 0..MaxTurns
      /\ conv'.deleted = conv.deleted /\ conv'.state = conv.state
      /\ conv'.current = conv.current
      /\ UNCHANGED <<turns, attempts, history, exec, called>>
  BY RebuildBill DEF UsageInv, convHostVars
<1>2. BillInv'
  BY <1>1, BillStays DEF UsageInv, BillInv
<1> QED BY <1>1, <1>2, StillKeepsUsage

(* An attempt is charged for a call when it reports, and only once.        *)
LEMMA CoroutineKeepsUsage ==
  ASSUME ConversationAssumption, ConvInv, ConvInv', UsageInv, NEW a \in Attempts,
         InvokeExecutor(a) \/ CallModel(a) \/ ReportResult(a) \/ ReportFailure(a)
         \/ HostDies(a) \/ LeaseLapses(a)
  PROVE  UsageInv'
<1>1. CASE InvokeExecutor(a) \/ CallModel(a) \/ HostDies(a) \/ LeaseLapses(a)
  BY <1>1, HostKeepsUsage DEF InvokeExecutor, CallModel, HostDies, LeaseLapses
<1>2. {"waiting_capacity", "budget_exhausted", "verifier_failed", "failed", "cancelled"}
        \cup CompletedTurns \subseteq Reported
  BY DEF Reported, TurnStates, ActiveTurns, EndedTurns, CompletedTurns
<1>3. MaxWork \in Nat
  BY DEF ConversationAssumption
<1>4. CASE ReportResult(a)
  <2>1. exec[a] = "invoked" /\ exec' = [exec EXCEPT ![a] = "over"] /\ called' = called
    BY <1>4 DEF ReportResult, Ends
  <2>2. \E r \in Reported, c \in {0, 1}, w \in Nat :
          FinalizeTurn(a, r, Usage(c, w)) /\ (a \in called => c = 1)
    <3>1. CASE a \notin called /\ \E w \in {0, 1} : FinalizeTurn(a, "waiting_capacity", Usage(0, w))
      BY <1>2, <3>1
    <3>2. CASE a \notin called /\ FinalizeTurn(a, "budget_exhausted", Usage(0, 0))
      BY <1>2, <3>2
    <3>3. CASE \E r \in CompletedTurns \cup {"verifier_failed"}, w \in Work :
                 FinalizeTurn(a, r, Usage(1, w))
      BY <1>2, <1>3, <3>3 DEF Work
    <3> QED BY <1>4, <3>1, <3>2, <3>3 DEF ReportResult
  <2> QED BY <2>1, <2>2, FinalizeKeepsUsage
<1>5. CASE ReportFailure(a)
  <2>1. PICK n \in {0, 1}, r \in {"budget_exhausted", "failed", "cancelled"} :
          /\ Ends(a, IF n = 1 THEN "invoked" ELSE "leased")
          /\ FinalizeTurn(a, r, Usage(n, IF r = "budget_exhausted" THEN MaxWork - conv.work ELSE 0))
    BY <1>5 DEF ReportFailure
  <2>2. exec[a] = (IF n = 1 THEN "invoked" ELSE "leased") /\ exec' = [exec EXCEPT ![a] = "over"]
        /\ called' = called
    BY <1>5, <2>1 DEF Ends, ReportFailure
  <2>3. a \in called => n = 1
    BY <2>2 DEF UsageInv, ExecInv
  <2> DEFINE w == IF r = "budget_exhausted" THEN MaxWork - conv.work ELSE 0
  <2>4. Owns(a) => w \in Nat
    <3> SUFFICES ASSUME Owns(a) PROVE w \in Nat
      OBVIOUS
    <3>1. conv.current \in Turns /\ turns[conv.current].state = "running"
      BY OwnedTurn DEF Owns
    <3>2. conv.work < MaxWork /\ conv.work \in Nat
      BY <3>1, BillIsNatural DEF UsageInv, BoundInv, Turns
    <3> QED BY <1>3, <3>2
  <2>5. r \in Reported /\ exec[a] \in {"leased", "invoked"} /\ FinalizeTurn(a, r, Usage(n, w))
    BY <1>2, <2>1, <2>2
  <2> HIDE DEF w
  <2> QED BY <2>2, <2>3, <2>4, <2>5, FinalizeKeepsUsage
<1> QED BY <1>1, <1>4, <1>5

ConvUsageInv == ConvIInv /\ UsageInv

(* The bill is kept by every step.                                         *)
LEMMA UsageStep ==
  ASSUME ConversationAssumption, ConvUsageInv, [ConvNext]_convVars
  PROVE  ConvUsageInv'
<1> USE DEF ConvUsageInv, ConvIInv
<1>1. ConvIInv'
  BY ConvStep
<1>2. CASE UNCHANGED convVars
  <2>1. UsageInv'
    BY <1>2 DEF convVars, UsageInv, BillInv, ExecInv, CallInv, BoundInv, BoundsEndTheConversation,
                MayHaveCalled, TurnCalls, TurnWork, AnsweredTurns
  <2> QED BY <1>1, <2>1
<1>3. CASE ConvNext
  <2>1. CASE \/ ReserveStart
             \/ \E k \in Keys, v \in {conv.version}, input \in {0, conv.pending} :
                  ReserveContinue(k, v, input)
             \/ \E k \in Keys, v \in {conv.version} : ReserveResume(k, v)
    BY <1>1, <2>1, ReserveKeepsUsage
  <2>2. CASE \E a \in Attempts :
               InvokeExecutor(a) \/ CallModel(a) \/ ReportResult(a) \/ ReportFailure(a)
               \/ HostDies(a) \/ LeaseLapses(a)
    BY <1>1, <2>2, CoroutineKeepsUsage
  <2>3. CASE (\E v \in {conv.version} : CloseConversation(v) \/ DeleteContent(v)) \/ ExpireDue
    BY <1>1, <2>3, EndingKeepsUsage
  <2>4. CASE RecoverExpiredLeases
    BY <1>1, <2>4, RecoverKeepsUsage
  <2>5. CASE RebuildProjection
    BY <1>1, <2>5, RebuildKeepsUsage
  <2>6. CASE RetentionEnds
    <3>1. UsageInv'
      BY <2>6 DEF RetentionEnds, convStoreVars, UsageInv, BillInv, ExecInv, CallInv, BoundInv,
                  BoundsEndTheConversation, MayHaveCalled, TurnCalls, TurnWork, AnsweredTurns
    <3> QED BY <1>1, <3>1
  <2> QED BY <1>3, <2>1, <2>2, <2>3, <2>4, <2>5, <2>6 DEF ConvNext
<1> QED BY <1>2, <1>3

(* Before the first call nothing is charged.                               *)
LEMMA UsageInit == ASSUME ConversationAssumption, ConvInit PROVE ConvUsageInv
<1>1. ConvIInv
  BY InitIsConvInv DEF ConvIInv, ConvInit
<1>2. /\ \A t \in Turns : turns[t].state = "none" /\ turns[t].count = 0 /\ turns[t].calls = 0
                         /\ turns[t].work = 0
      /\ turns = [t \in Turns |-> turns[t]]
  <2>1. NewTurn(0) = [state |-> "running", count |-> 1, trace |-> 0, calls |-> 0, work |-> 0, artifact |-> 0]
    BY DEF NewTurn
  <2>2. [NewTurn(0) EXCEPT !.state = "none"]
          = [state |-> "none", count |-> 1, trace |-> 0, calls |-> 0, work |-> 0, artifact |-> 0]
    BY <2>1
  <2>3. NoTurn = [[NewTurn(0) EXCEPT !.state = "none"] EXCEPT !.count = 0]
    BY DEF NoTurn
  <2>4. NoTurn = [state |-> "none", count |-> 0, trace |-> 0, calls |-> 0, work |-> 0, artifact |-> 0]
    BY <2>2, <2>3
  <2> QED BY <2>4 DEF ConvInit
<1>3. /\ conv.state = "none" /\ conv.version = 0 /\ conv.completed = 0 /\ conv.calls = 0
      /\ conv.work = 0 /\ conv.current = 0 /\ conv.pending = 0 /\ conv.deleted = FALSE
      /\ history = [state |-> "none", version |-> 0, deleted |-> FALSE]
      /\ attempts = [a \in Attempts |-> NoAttempt] /\ exec = [a \in Attempts |-> "none"]
      /\ called = {}
  BY DEF ConvInit
<1>4. Total(TurnCalls, Turns) = 0 /\ Total(TurnWork, Turns) = 0
  <2>1. IsFiniteSet(Turns)
    BY FS_Interval DEF Turns, ConversationAssumption
  <2> QED BY <1>2, <2>1, TotalOfZeros DEF TurnCalls, TurnWork
<1>5. AnsweredTurns = {}
  BY <1>2 DEF AnsweredTurns, CompletedTurns
<1>6. BillInv
  <2>1. Cardinality(AnsweredTurns) = 0 /\ 0 \in 0..MaxTurns
    BY <1>5, FS_EmptySet DEF ConversationAssumption
  <2>2. history = [state |-> conv.state, version |-> conv.version, deleted |-> conv.deleted]
    BY <1>3
  <2>3. \A t \in Turns : /\ turns[t].count \in Nat /\ turns[t].calls \in Nat /\ turns[t].work \in Nat
                         /\ turns[t].state = "none" => turns[t].calls = 0 /\ turns[t].work = 0
    BY <1>2
  <2>4. conv.calls = Total(TurnCalls, Turns) /\ conv.work = Total(TurnWork, Turns)
    BY <1>3, <1>4
  <2>5. conv.completed = Cardinality(AnsweredTurns)
    BY <1>3, <2>1
  <2>6. conv.version \in Nat /\ conv.pending \in 0..MaxTurns /\ conv.state = "none" /\ conv.version = 0
    BY <1>3, <2>1
  <2>7. conv.deleted \in BOOLEAN
    BY <1>3, Zenon
  <2> QED BY ONLY <2>2, <2>3, <2>4, <2>5, <2>6, <2>7 DEF BillInv
<1>7. ExecInv /\ MayHaveCalled = {}
  BY <1>3 DEF ExecInv, MayHaveCalled
<1>8. CallInv /\ BoundInv
  BY <1>3, <1>7, FS_EmptySet DEF CallInv, BoundInv, BoundsEndTheConversation, ConversationAssumption
<1> QED BY <1>1, <1>6, <1>7, <1>8 DEF ConvUsageInv, UsageInv

(* The inductive invariant of the bill: the row and the turns are charged  *)
(* the calls and the work of the attempts that have ended, lost ones       *)
(* included.                                                               *)
THEOREM UsageInvariant == ASSUME ConversationAssumption PROVE ConvSpec => []ConvUsageInv
<1>1. ConvInit => ConvUsageInv
  BY UsageInit
<1>2. ConvUsageInv /\ [ConvNext]_convVars => ConvUsageInv'
  BY UsageStep
<1> QED BY <1>1, <1>2, PTL DEF ConvSpec

-----------------------------------------------------------------------------
(* A bill over attempts, each of which called at most once, is bounded.    *)
LEMMA BillGivesUsage ==
  ASSUME ConversationAssumption, ConvUsageInv PROVE UsageIsBounded
<1> USE DEF ConvUsageInv, UsageInv
<1>1. {a \in called : attempts[a].state # "running"} \subseteq MayHaveCalled
  BY DEF ExecInv, MayHaveCalled
<1>2. IsFiniteSet(MayHaveCalled)
  <2>1. IsFiniteSet(Attempts)
    BY FS_Interval DEF Attempts, ConversationAssumption
  <2> QED BY <2>1, FS_Subset DEF MayHaveCalled
<1> DEFINE M == {a \in called : attempts[a].state # "running"}
<1>3. Cardinality(M) <= Cardinality(MayHaveCalled) /\ IsFiniteSet(M)
  BY <1>1, <1>2, FS_Subset
<1>4. Cardinality(M) \in Nat /\ Cardinality(MayHaveCalled) \in Nat /\ conv.calls \in Nat
  BY <1>2, <1>3, FS_CardinalityType, BillIsNatural
<1>5. CallsAreCharged
  BY <1>3, <1>4 DEF CallInv, CallsAreCharged
<1> QED BY <1>5 DEF BoundInv, UsageIsBounded

(* No sequence of lost hosts, late reports and resumed turns gets more     *)
(* calls out of a conversation than it is charged, or goes on over its     *)
(* bounds (_require_dispatch_capacity, _usage_within_bounds,               *)
(* _interrupt_expired_attempt).                                            *)
THEOREM UsageAlwaysBounded == ASSUME ConversationAssumption PROVE ConvSpec => []UsageIsBounded
<1>1. ConvUsageInv => UsageIsBounded
  BY BillGivesUsage
<1> QED BY <1>1, UsageInvariant, PTL

(* The row of a conversation is what its events and turns say, but for the *)
(* turn that asks for input (_derive_projection, rebuild_projection).      *)
THEOREM ProjectionAlwaysAgrees == ASSUME ConversationAssumption PROVE ConvSpec => []ProjectionAgrees
<1>1. ConvUsageInv => ProjectionAgrees
  BY RowIsDerived DEF ConvUsageInv, ConvIInv, UsageInv, ProjectionAgrees
<1> QED BY <1>1, UsageInvariant, PTL

-----------------------------------------------------------------------------
(* What an owner can have read changes only with the version.              *)
WhatIsRead == <<turns, attempts, content, conv.state, conv.calls, conv.current>>

(* A report that changes what readers see raises the version.              *)
LEMMA ReportIsVersioned ==
  ASSUME ConversationAssumption, ConvInv, UsageInv, NEW a \in Attempts,
         NEW result \in Reported, NEW c \in Nat, NEW w, Owns(a) => w \in Nat,
         FinalizeTurn(a, result, Usage(c, w))
  PROVE  RowMoves \/ UNCHANGED WhatIsRead
<1>1. CASE ~Owns(a) /\ UNCHANGED <<conv, turns, attempts, history, content>>
  BY <1>1 DEF WhatIsRead
<1>2. CASE Owns(a) /\ InterruptExpired(a)
  BY <1>2, InterruptBill DEF UsageInv
<1>3. CASE Owns(a) /\ ApplyResult(a, result, Usage(c, w))
  <2>1. w \in Nat /\ BillInv
    BY <1>3 DEF UsageInv
  <2> QED BY <1>3, <2>1, ApplyBill
<1> QED BY <1>1, <1>2, <1>3 DEF FinalizeTurn

(* Every step raises the version by one or leaves what readers see alone.  *)
LEMMA StepIsVersioned ==
  ASSUME ConversationAssumption, ConvUsageInv, ConvNext
  PROVE  conv'.version = conv.version + 1 \/ UNCHANGED WhatIsRead
<1> USE DEF ConvUsageInv, ConvIInv
<1>1. ConvInv'
  BY ConvStep
<1>2. CASE \/ ReserveStart
           \/ \E k \in Keys, v \in {conv.version}, input \in {0, conv.pending} :
                ReserveContinue(k, v, input)
           \/ \E k \in Keys, v \in {conv.version} : ReserveResume(k, v)
  BY <1>1, <1>2, ReserveKeepsUsage DEF RowMoves
<1>3. CASE (\E v \in {conv.version} : CloseConversation(v) \/ DeleteContent(v)) \/ ExpireDue
  BY <1>1, <1>3, EndingKeepsUsage DEF RowMoves
<1>4. CASE RecoverExpiredLeases
  BY <1>1, <1>4, RecoverKeepsUsage DEF RowMoves
<1>5. CASE RebuildProjection
  BY <1>5, RebuildBill DEF UsageInv, WhatIsRead, BillIsStill
<1>6. CASE RetentionEnds \/ \E a \in Attempts :
             InvokeExecutor(a) \/ CallModel(a) \/ HostDies(a) \/ LeaseLapses(a)
  BY <1>6 DEF RetentionEnds, InvokeExecutor, CallModel, HostDies, LeaseLapses, convStoreVars, WhatIsRead
<1>7. {"waiting_capacity", "budget_exhausted", "verifier_failed", "failed", "cancelled"}
        \cup CompletedTurns \subseteq Reported
  BY DEF Reported, TurnStates, ActiveTurns, EndedTurns, CompletedTurns
<1>8. MaxWork \in Nat
  BY DEF ConversationAssumption
<1>9. ASSUME NEW a \in Attempts, ReportResult(a)
      PROVE  RowMoves \/ UNCHANGED WhatIsRead
  <2>1. \E r \in Reported, c \in Nat, w \in Nat : FinalizeTurn(a, r, Usage(c, w))
    <3>1. CASE \E w \in {0, 1} : FinalizeTurn(a, "waiting_capacity", Usage(0, w))
      BY <1>7, <3>1
    <3>2. CASE FinalizeTurn(a, "budget_exhausted", Usage(0, 0))
      BY <1>7, <3>2
    <3>3. CASE \E r \in CompletedTurns \cup {"verifier_failed"}, w \in Work :
                 FinalizeTurn(a, r, Usage(1, w))
      BY <1>7, <1>8, <3>3 DEF Work
    <3> QED BY <1>9, <3>1, <3>2, <3>3 DEF ReportResult
  <2> QED BY <2>1, ReportIsVersioned
<1>10. ASSUME NEW a \in Attempts, ReportFailure(a)
       PROVE  RowMoves \/ UNCHANGED WhatIsRead
  <2>1. PICK n \in {0, 1}, r \in {"budget_exhausted", "failed", "cancelled"} :
          FinalizeTurn(a, r, Usage(n, IF r = "budget_exhausted" THEN MaxWork - conv.work ELSE 0))
    BY <1>10 DEF ReportFailure
  <2> DEFINE w == IF r = "budget_exhausted" THEN MaxWork - conv.work ELSE 0
  <2>2. Owns(a) => w \in Nat
    <3> SUFFICES ASSUME Owns(a) PROVE w \in Nat
      OBVIOUS
    <3>1. conv.current \in Turns /\ turns[conv.current].state = "running"
      BY OwnedTurn DEF Owns
    <3>2. conv.work < MaxWork /\ conv.work \in Nat
      BY <3>1, BillIsNatural DEF UsageInv, BoundInv, Turns
    <3> QED BY <1>8, <3>2
  <2>3. r \in Reported /\ n \in Nat /\ FinalizeTurn(a, r, Usage(n, w))
    BY <1>7, <2>1
  <2> HIDE DEF w
  <2> QED BY <2>2, <2>3, ReportIsVersioned
<1> QED BY <1>2, <1>3, <1>4, <1>5, <1>6, <1>9, <1>10 DEF ConvNext, RowMoves

(* A version names one state of turns, attempts, contents and row: no      *)
(* operation, report, recovery or repair changes what an owner can have    *)
(* read without a new version (the expected_version of every operation).   *)
THEOREM ChangesAreVersioned ==
  ASSUME ConversationAssumption PROVE ConvSpec => EveryChangeIsVersioned
<1>1. ConvUsageInv /\ [ConvNext]_convVars =>
        [<<turns, attempts, content, conv.state, conv.calls, conv.current>>'
           # <<turns, attempts, content, conv.state, conv.calls, conv.current>>
         => conv'.version = conv.version + 1]_convVars
  BY StepIsVersioned DEF WhatIsRead
<1> QED BY <1>1, UsageInvariant, PTL DEF ConvSpec, EveryChangeIsVersioned

-----------------------------------------------------------------------------
(* Types *)

(* The types of what neither the invariant of the turns nor that of the    *)
(* bill speaks about.                                                      *)
RestTyped ==
  /\ idem \in [Keys -> 0..MaxAttempts]
  /\ content \subseteq {"snapshot", "request", "artifact"} \X (0..MaxTurns)
  /\ retentionOver \in BOOLEAN

(* The type invariant follows from the three layers.                       *)
LEMMA LayersGiveTypes ==
  ASSUME ConversationAssumption, ConvUsageInv, RestTyped
  PROVE  ConvTypeOK
<1> USE DEF ConvUsageInv, ConvIInv, ConvInv, UsageInv
<1>1. conv.version \in Nat /\ conv.calls \in Nat /\ conv.work \in Nat /\ conv.completed \in Nat
      /\ conv.pending \in 0..MaxTurns /\ conv.deleted \in BOOLEAN
  BY BillIsNatural DEF BillInv
<1>2. conv \in [state : ConversationStates, version : Nat, started : 0..MaxTurns,
                completed : Nat, calls : Nat, work : Nat, current : 0..MaxTurns,
                pending : 0..MaxTurns, deleted : BOOLEAN]
  BY <1>1 DEF RowTyped
<1>3. \A t \in Turns : turns[t] \in [state : TurnStates \cup {"none"}, count : Nat,
                          trace : 0..MaxAttempts, calls : Nat, work : Nat,
                          artifact : 0..MaxAttempts]
  BY DEF TurnsTyped, BillInv
<1>4. turns \in [Turns -> [state : TurnStates \cup {"none"}, count : Nat,
                          trace : 0..MaxAttempts, calls : Nat, work : Nat,
                          artifact : 0..MaxAttempts]]
  BY <1>3 DEF TurnsTyped
<1>5. history \in [state : ConversationStates, version : Nat, deleted : BOOLEAN]
  BY <1>1, <1>2 DEF BillInv
<1> QED BY <1>2, <1>4, <1>5 DEF ConvTypeOK, RestTyped, AttemptsTyped, ExecInv

(* Who reads a key, and what becomes readable.                             *)
LEMMA FinalizeKeepsRest ==
  ASSUME ConversationAssumption, ConvInv, RestTyped, retentionOver' = retentionOver,
         NEW a \in Attempts, NEW r, NEW u, FinalizeTurn(a, r, u)
  PROVE  RestTyped'
<1>1. attempts[a].turn \in 0..MaxTurns
  BY DEF ConvInv, AttemptsTyped
<1>2. content' \subseteq content \cup {<<"artifact", attempts[a].turn>>}
  BY DEF FinalizeTurn, InterruptExpired, ApplyResult
<1>3. idem' = idem
  BY DEF FinalizeTurn
<1> QED BY <1>1, <1>2, <1>3 DEF RestTyped

(* Keys, contents and clocks, which no other invariant needs, keep their   *)
(* types.                                                                  *)
LEMMA RestStep ==
  ASSUME ConversationAssumption, ConvInv, RestTyped, [ConvNext]_convVars
  PROVE  RestTyped'
<1>1. issued + 1 \in 0..MaxAttempts \/ ~(issued < MaxAttempts)
  BY DEF ConvInv, AttemptsTyped, ConversationAssumption
<1>2. conv.started \in Nat /\ conv.current \in Nat /\ MaxTurns \in Nat \ {0}
  BY DEF ConvInv, RowTyped, ConversationAssumption
<1>3. CASE ReserveStart
  <2>1. idem' = idem /\ retentionOver' = retentionOver
        /\ content' = {<<"snapshot", 0>>, <<"request", 1>>}
    BY <1>3 DEF ReserveStart, Lease
  <2> QED BY <1>2, <2>1 DEF RestTyped
<1>4. CASE \E k \in Keys, v \in {conv.version}, input \in {0, conv.pending} : ReserveContinue(k, v, input)
  <2>1. PICK k \in Keys :
          /\ idem' = [idem EXCEPT ![k] = issued + 1] /\ issued < MaxAttempts
          /\ retentionOver' = retentionOver /\ conv.started < MaxTurns
          /\ content' = content \cup {<<"request", conv.started + 1>>}
    BY <1>4 DEF ReserveContinue, Lease, HasCapacity
  <2>2. conv.started + 1 \in 0..MaxTurns
    BY <1>2, <2>1
  <2> QED BY <1>1, <2>1, <2>2 DEF RestTyped
<1>5. CASE \E k \in Keys, v \in {conv.version} : ReserveResume(k, v)
  <2>1. PICK k \in Keys : /\ idem' = [idem EXCEPT ![k] = issued + 1] /\ issued < MaxAttempts
                          /\ retentionOver' = retentionOver /\ content' = content
    BY <1>5 DEF ReserveResume, Lease
  <2> QED BY <1>1, <2>1 DEF RestTyped
<1>6. CASE \E a \in Attempts : ReportResult(a)
  BY <1>6, FinalizeKeepsRest DEF ReportResult
<1>7. CASE \E a \in Attempts : ReportFailure(a)
  BY <1>7, FinalizeKeepsRest DEF ReportFailure
<1>8. CASE \/ \E a \in Attempts : InvokeExecutor(a) \/ CallModel(a) \/ HostDies(a) \/ LeaseLapses(a)
           \/ \E v \in {conv.version} : CloseConversation(v)
           \/ RecoverExpiredLeases \/ RebuildProjection \/ UNCHANGED convVars
  <2>1. idem' = idem /\ retentionOver' = retentionOver /\ content' = content
    BY <1>8 DEF InvokeExecutor, CallModel, HostDies, LeaseLapses, CloseConversation, InterruptExpired,
                RecoverExpiredLeases, RebuildProjection, convStoreVars, convHostVars, convVars
  <2> QED BY <2>1 DEF RestTyped
<1>9. CASE (\E v \in {conv.version} : DeleteContent(v)) \/ ExpireDue \/ RetentionEnds
  <2>1. idem' = idem /\ retentionOver' \in {retentionOver, TRUE} /\ content' \in {content, {}}
    BY <1>9 DEF DeleteContent, ExpireDue, RetentionEnds, convStoreVars, convHostVars
  <2> QED BY <2>1 DEF RestTyped
<1> QED BY <1>3, <1>4, <1>5, <1>6, <1>7, <1>8, <1>9 DEF ConvNext

(* They have their types before the first call.                            *)
LEMMA RestInit == ASSUME ConversationAssumption, ConvInit PROVE RestTyped
<1>1. idem = [k \in Keys |-> 0] /\ 0 \in 0..MaxAttempts /\ content = {}
  BY DEF ConvInit, ConversationAssumption
<1>2. retentionOver \in BOOLEAN
  BY Zenon DEF ConvInit
<1> QED BY ONLY <1>1, <1>2 DEF RestTyped

(* Store rows, hosts and clocks keep their types.                          *)
THEOREM ConversationTypes == ASSUME ConversationAssumption PROVE ConvSpec => []ConvTypeOK
<1>1. ConvInit => RestTyped
  BY RestInit
<1>2. ConvUsageInv /\ RestTyped /\ [ConvNext]_convVars => RestTyped'
  BY RestStep DEF ConvUsageInv, ConvIInv
<1>3. ConvUsageInv /\ RestTyped => ConvTypeOK
  BY LayersGiveTypes
<1> QED BY <1>1, <1>2, <1>3, UsageInvariant, PTL DEF ConvSpec
=============================================================================
