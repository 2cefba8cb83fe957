-------------------------- MODULE ConversationProofs --------------------------
(***************************************************************************)
(* Proofs about Conversation, for any number of turns and students, any    *)
(* tools, any answers of the model and any limits: the stored history is   *)
(* one sequence of one student's, answers report the last evaluation,      *)
(* calls are answered in order, and the budget bounds every turn.          *)
(***************************************************************************)
EXTENDS Conversation, TLAPS, FiniteSetTheorems

\* What messages are made of.
LEMMA Rows ==
    ASSUME TypeOK
    PROVE  /\ \A m \in messages : m \in Row
           /\ \A t \in Turns : \A m \in Of(t) : m \in Row /\ m \in messages /\ m.turn = t
           /\ Null \notin Draft /\ Null \notin Students /\ Null \notin Results
BY ConversationAssumption DEF TypeOK, Of

\* A part of the messages is finite.
LEMMA PartIsFinite ==
    ASSUME TypeOK, NEW S \in SUBSET messages
    PROVE  IsFiniteSet(S) /\ Cardinality(S) \in Nat
BY FS_Subset, FS_CardinalityType DEF TypeOK

\* The last number is the number of messages.
LEMMA LastIsCount ==
    ASSUME TypeOK, HistoryIsASequence
    PROVE  Cardinality(messages) \in Nat /\ LastNumber = Cardinality(messages)
<1>1. Cardinality(messages) \in Nat
  BY PartIsFinite
<1>2. Numbers = 1 .. Cardinality(messages)
  BY DEF HistoryIsASequence
<1>3. /\ Cardinality(messages) \in Numbers \cup {0}
      /\ \A m \in Numbers : m <= Cardinality(messages)
  BY <1>1, <1>2
<1>4. \A n \in Numbers \cup {0} : (\A m \in Numbers : m <= n) => n = Cardinality(messages)
  BY <1>1, <1>2
<1>5. QED
  BY <1>1, <1>3, <1>4 DEF LastNumber

\* A step of t that stores nothing has to be checked for t.
LEMMA MoveStep ==
    ASSUME IInv, TypeOK', NEW t \in Turns, UNCHANGED messages,
           owner' = owner \/ owner = Null,
           \A u \in Turns : u # t =>
               /\ pc'[u] = pc[u] /\ out'[u] = out[u] /\ budget'[u] = budget[u]
               /\ pending'[u] = pending[u] /\ decision'[u] = decision[u],
           DraftFits(t)', DecisionFits(t)', BudgetFits(t)', ResultsFit(t)',
           Len(budget'[t].history) <= MaxToolCalls,
           \A n \in 1 .. Len(budget'[t].history) - 1 :
               budget'[t].history[n] # budget'[t].history[n + 1],
           pc'[t] \notin Ended \cup {"reply"} => \A m \in Of(t) : ~IsAnswer(m)
    PROVE  IInv'
<1> USE DEF IInv, ConversationInv
<1>1. \A u \in Turns : Of(u)' = Of(u)
  BY DEF Of
<1>2. HistoryIsASequence'
  BY DEF HistoryIsASequence, Numbers
<1>3. OwnerWrites'
  <2>1. CASE owner' = owner
    BY <2>1 DEF OwnerWrites
  <2>2. CASE owner = Null
    <3>1. \A m \in messages : StudentOf[m.turn] \in Students
      BY Rows, ConversationAssumption DEF Row
    <3>2. messages = {}
      BY <3>1, <2>2, Rows DEF OwnerWrites
    <3>3. QED
      BY <3>2 DEF OwnerWrites
  <2>3. QED
    BY <2>1, <2>2
<1>4. MessagesAreApart'
  <2>1. \A m \in messages : m.turn \in Turns /\ m \in Of(m.turn)
    BY Rows DEF Of, Row
  <2>2. \A m \in messages : IsAnswer(m) => pc'[m.turn] \in Ended \cup {"reply"}
    BY <2>1 DEF MessagesAreApart
  <2>3. QED
    BY <2>2 DEF MessagesAreApart, IsAnswer
<1>5. AnswerReportsLastEvaluation' /\ CallsAreAnswered'
  BY DEF AnswerReportsLastEvaluation, CallsAreAnswered, IsAnswer, IsCalls, Of, Rank
<1>6. BudgetHolds'
  <2>1. \A u \in Turns : AnswersOf(u)' = AnswersOf(u)
    BY <1>1 DEF AnswersOf
  <2>2. ASSUME NEW u \in Turns
        PROVE  /\ Len(budget'[u].history) <= MaxToolCalls
               /\ \A n \in 1 .. Len(budget'[u].history) - 1 :
                     budget'[u].history[n] # budget'[u].history[n + 1]
    <3>1. CASE u = t
      BY <3>1
    <3>2. CASE u # t
      <4>1. budget'[u] = budget[u]
        BY <3>2
      <4>2. /\ Len(budget[u].history) <= MaxToolCalls
            /\ \A n \in 1 .. Len(budget[u].history) - 1 :
                  budget[u].history[n] # budget[u].history[n + 1]
        BY DEF BudgetHolds
      <4>3. QED
        BY <4>1, <4>2
    <3>3. QED
      BY <3>1, <3>2
  <2>3. \A u \in Turns : Cardinality(AnswersOf(u)') <= MaxSteps
    BY <2>1 DEF BudgetHolds, AnswersOf
  <2>4. QED
    BY <2>2, <2>3 DEF BudgetHolds, AnswersOf
<1>7. ASSUME NEW u \in Turns, u # t
      PROVE  DraftFits(u)' /\ DecisionFits(u)' /\ BudgetFits(u)' /\ ResultsFit(u)'
  <2>1. /\ pc'[u] = pc[u] /\ out'[u] = out[u] /\ budget'[u] = budget[u]
        /\ pending'[u] = pending[u] /\ decision'[u] = decision[u] /\ Of(u)' = Of(u)
        /\ Running(u)' = Running(u)
    BY <1>1, <1>7 DEF Running
  <2>2. DraftFits(u)'
    BY <2>1, Rows, ConversationAssumption DEF DraftFits, Drafting, Running
  <2>3. DecisionFits(u)'
    BY <2>1 DEF DecisionFits, Tries, Evaluates
  <2>4. BudgetFits(u)'
    BY <2>1 DEF BudgetFits, AnswersOf, Drafting
  <2>5. ResultsFit(u)'
    <3>1. LastCalls(u)' = LastCalls(u) /\ \A m : Since(u, m)' = Since(u, m)
      BY <2>1 DEF LastCalls, AnswersOf, Since, IsCalls
    <3>2. \A m, k : RestFits(u, m, k)' <=> RestFits(u, m, k)
      BY <2>1 DEF RestFits, Drafting
    <3>3. \A m, S : InOrder(m, S)' <=> InOrder(m, S)
      BY DEF InOrder, Rank
    <3>4. Running(u) => \A m \in LastCalls(u) :
              InOrder(m, Since(u, m)) /\ RestFits(u, m, Cardinality(Since(u, m)))
      BY DEF ResultsFit
    <3>5. QED
      BY ONLY <2>1, <3>1, <3>2, <3>3, <3>4 DEF ResultsFit
  <2>6. QED
    BY <2>2, <2>3, <2>4, <2>5
<1>8. QED
  BY <1>2, <1>3, <1>4, <1>5, <1>6, <1>7
-----------------------------------------------------------------------------
\* What an unanswered turn has run, and that it has no answer.
LEMMA RanWithin ==
    ASSUME IInv, NEW t \in Turns
    PROVE  /\ Len(budget[t].history) <= MaxToolCalls
           /\ \A n \in 1 .. Len(budget[t].history) - 1 : budget[t].history[n] # budget[t].history[n + 1]
           /\ Cardinality(AnswersOf(t)) <= MaxSteps
           /\ pc[t] \notin Ended \cup {"reply"} => \A m \in Of(t) : ~IsAnswer(m)
BY DEF IInv, BudgetHolds, AnswersOf, MessagesAreApart, Of

\* Nothing is asked of a turn that has ended.
LEMMA EndStep ==
    ASSUME IInv, NEW t \in Turns, NEW how \in Ended, End(t, how)
    PROVE  IInv'
<1> USE DEF IInv, ConversationInv, End, Goto
<1>1. /\ pc'[t] \in Ended /\ budget'[t] = Unused
      /\ decision'[t] = Null /\ pending'[t] = <<>>
  BY DEF TypeOK
<1>2. TypeOK'
  BY DEF TypeOK, Unused, Ended, Steps
<1>3. DraftFits(t)' /\ DecisionFits(t)' /\ ResultsFit(t)'
  BY <1>1 DEF DraftFits, DecisionFits, ResultsFit, Running, Drafting, Ended
<1>4. BudgetFits(t)'
  BY <1>1, ConversationAssumption DEF BudgetFits, Running, Unused
<1>5. /\ Len(budget'[t].history) <= MaxToolCalls
      /\ \A n \in 1 .. Len(budget'[t].history) - 1 :
            budget'[t].history[n] # budget'[t].history[n + 1]
  BY <1>1, ConversationAssumption DEF Unused
<1>6. \A u \in Turns : u # t =>
          /\ pc'[u] = pc[u] /\ out'[u] = out[u] /\ budget'[u] = budget[u]
          /\ pending'[u] = pending[u] /\ decision'[u] = decision[u]
  BY DEF TypeOK
<1>7. QED
  BY <1>1, <1>2, <1>3, <1>4, <1>5, <1>6, MoveStep

\* A turn moves on without a message, at its beginning.
LEMMA BeginStep ==
    ASSUME IInv, NEW t \in Turns, pc[t] \in {"idle", "create"},
           NEW to \in {"create", "load", "failed"}, Move(t, pc[t], to),
           owner' = owner \/ owner = Null, owner' \in Students \cup {Null},
           to = "load" => owner' = StudentOf[t]
    PROVE  IInv'
<1> USE DEF IInv, ConversationInv, Move, Goto
<1>1. pc'[t] = to
  BY DEF TypeOK
<1>2. TypeOK'
  BY DEF TypeOK, Ended, Steps
<1>3. Of(t) = {} /\ Of(t)' = {}
  BY DEF Of, DraftFits
<1>4. DraftFits(t)'
  BY <1>1, <1>3 DEF DraftFits, Drafting, Running, Ended
<1>5. DecisionFits(t)'
  BY <1>1, <1>3 DEF DecisionFits, Running, Ended, Tries, Evaluates
<1>6. BudgetFits(t)'
  <2>1. AnswersOf(t)' = {}
    BY <1>3 DEF AnswersOf
  <2>2. QED
    BY <1>1, <2>1, FS_EmptySet DEF BudgetFits, Running, Drafting, Ended, TypeOK
<1>7. ResultsFit(t)'
  BY <1>3 DEF ResultsFit, LastCalls
<1>8. \A u \in Turns : u # t =>
          /\ pc'[u] = pc[u] /\ out'[u] = out[u] /\ budget'[u] = budget[u]
          /\ pending'[u] = pending[u] /\ decision'[u] = decision[u]
  BY DEF TypeOK
<1>9. QED
  BY <1>2, <1>3, <1>4, <1>5, <1>6, <1>7, <1>8, MoveStep DEF BudgetHolds

\* get_or_create_session: a turn finds the session its own, another student's, or missing.
LEMMA OpenStep ==
    ASSUME IInv, NEW t \in Turns, Open(t)
    PROVE  IInv'
<1> USE DEF IInv, ConversationInv, TypeOK
<1>1. CASE owner = StudentOf[t] /\ Move(t, "idle", "load") /\ UNCHANGED owner
  BY <1>1, BeginStep DEF Move
<1>2. CASE owner = Null /\ Move(t, "idle", "create") /\ UNCHANGED owner
  BY <1>2, BeginStep DEF Move
<1>3. CASE Move(t, "idle", "failed") /\ UNCHANGED owner
  BY <1>3, BeginStep DEF Move
<1>4. QED
  BY <1>1, <1>2, <1>3 DEF Open

\* The insert of the session: the turn's student owns it, or it came second and ends.
LEMMA CreateStep ==
    ASSUME IInv, NEW t \in Turns, Create(t)
    PROVE  IInv'
<1>1. CASE owner = Null /\ Move(t, "create", "load") /\ owner' = StudentOf[t]
  BY <1>1, BeginStep, ConversationAssumption DEF Move
<1>2. CASE Fail(t)
  BY <1>2, EndStep DEF Fail, Ended
<1>3. QED
  BY <1>1, <1>2 DEF Create

\* The first message of a conversation is the system prompt.
LEMMA LoadStep ==
    ASSUME IInv, NEW t \in Turns, Load(t)
    PROVE  IInv'
<1> DEFINE m == Message(IF messages = {} THEN "system" ELSE "user", <<>>, Null, Null)
<1> USE DEF IInv, ConversationInv
<1>1. /\ pc[t] = "load" /\ pc'[t] = "write" /\ out'[t] = m
      /\ pending'[t] = pending[t] /\ decision'[t] = decision[t] /\ budget'[t] = budget[t]
      /\ UNCHANGED <<owner, messages>>
  BY DEF Load, Write, Goto, TypeOK
<1>2. \A u \in Turns : u # t =>
          /\ pc'[u] = pc[u] /\ out'[u] = out[u] /\ budget'[u] = budget[u]
          /\ pending'[u] = pending[u] /\ decision'[u] = decision[u]
  BY DEF Load, Write, Goto, TypeOK
<1>3. /\ m \in Draft /\ m.number = 0 /\ m.calls = <<>>
      /\ m.role = (IF messages = {} THEN "system" ELSE "user")
  BY DEF Message, Draft, Roles
<1> HIDE DEF m
<1>4. m # Null
  BY <1>3, Rows
<1>5. TypeOK'
  BY <1>1, <1>2, <1>3, <1>4 DEF TypeOK, Load, Write, Goto, Steps
<1>6. Of(t)' = Of(t) /\ \A x \in Of(t) : x.role = "system"
  BY <1>1 DEF Of, DraftFits
<1>7. Running(t) /\ Running(t)'
  BY <1>1 DEF Running, Ended
<1>8. DraftFits(t)'
  <2>1. Cardinality(messages) \in Nat
    BY PartIsFinite
  <2>2. QED
    BY <2>1, <1>1, <1>3, <1>6, <1>7 DEF DraftFits, Drafting
<1>9. DecisionFits(t)'
  BY <1>1, <1>3, <1>6, <1>7 DEF DecisionFits, Tries, Evaluates
<1>10. AnswersOf(t) = {} /\ AnswersOf(t)' = {}
  BY <1>6 DEF AnswersOf
<1>11. BudgetFits(t)'
  BY <1>1, <1>3, <1>7, <1>10 DEF BudgetFits, Drafting
<1>12. ResultsFit(t)'
  BY <1>6 DEF ResultsFit, LastCalls, IsCalls
<1>13. QED
  BY <1>1, <1>2, <1>5, <1>6, <1>8, <1>9, <1>11, <1>12, MoveStep DEF BudgetHolds, IsAnswer

\* The number that is read is the next, whatever the others are about to store.
LEMMA ReadNumberStep ==
    ASSUME IInv, NEW t \in Turns, ReadNumber(t)
    PROVE  IInv'
<1> USE DEF IInv, ConversationInv
<1>1. /\ pc[t] = "write" /\ pc'[t] = "write"
      /\ pending'[t] = pending[t] /\ decision'[t] = decision[t] /\ budget'[t] = budget[t]
      /\ UNCHANGED <<owner, messages>>
  BY DEF ReadNumber, TypeOK
<1>2. \A u \in Turns : u # t =>
          /\ pc'[u] = pc[u] /\ out'[u] = out[u] /\ budget'[u] = budget[u]
          /\ pending'[u] = pending[u] /\ decision'[u] = decision[u]
  BY DEF ReadNumber, TypeOK
<1>3. out[t] \in Draft /\ out'[t] = Numbered(out[t])
  BY <1>1 DEF ReadNumber, TypeOK
<1>4. Cardinality(messages) \in Nat /\ LastNumber = Cardinality(messages)
  BY LastIsCount
<1>5. /\ out'[t] \in Draft /\ out'[t].number = Cardinality(messages) + 1
      /\ out'[t].role = out[t].role /\ out'[t].calls = out[t].calls
      /\ out'[t].call = out[t].call /\ out'[t].outcome = out[t].outcome
  BY <1>3, <1>4 DEF Numbered, Draft
<1>6. TypeOK'
  BY <1>1, <1>2, <1>5, Rows DEF TypeOK, ReadNumber
<1>7. /\ Of(t)' = Of(t) /\ Running(t) /\ Running(t)'
      /\ \A roles : Drafting(t, roles)' <=> Drafting(t, roles)
  BY <1>1, <1>5 DEF Of, Running, Ended, Drafting
<1>8. DraftFits(t)'
  BY <1>1, <1>4, <1>5, <1>7 DEF DraftFits, Drafting, Roles
<1>9. Tries(t)' = Tries(t) /\ AnswersOf(t)' = AnswersOf(t) /\ LastCalls(t)' = LastCalls(t)
      /\ \A m : Since(t, m)' = Since(t, m)
  BY <1>7 DEF Tries, Evaluates, AnswersOf, LastCalls, IsCalls, Since
<1>10. DecisionFits(t)'
  BY <1>1, <1>5, <1>7, <1>9 DEF DecisionFits, Evaluates
<1>11. BudgetFits(t)'
  BY <1>1, <1>7, <1>9 DEF BudgetFits
<1>12. ResultsFit(t)'
  <2>1. \A m, k : RestFits(t, m, k)' <=> RestFits(t, m, k)
    BY <1>1, <1>5, <1>7 DEF RestFits
  <2>2. \A m, S : InOrder(m, S)' <=> InOrder(m, S)
    BY DEF InOrder, Rank
  <2>3. QED
    BY <1>7, <1>9, <2>1, <2>2 DEF ResultsFit
<1>13. QED
  BY <1>1, <1>2, <1>6, <1>8, <1>10, <1>11, <1>12, RanWithin, MoveStep DEF Ended
-----------------------------------------------------------------------------
\* A draft gets the next number and keeps everything else.
LEMMA NumberedDraft ==
    ASSUME TypeOK, HistoryIsASequence, NEW d \in Draft
    PROVE  /\ Numbered(d) \in Draft /\ Numbered(d) # Null
           /\ Numbered(d).number = Cardinality(messages) + 1
           /\ Numbered(d).role = d.role /\ Numbered(d).calls = d.calls
           /\ Numbered(d).call = d.call /\ Numbered(d).outcome = d.outcome
<1>1. Cardinality(messages) \in Nat /\ LastNumber = Cardinality(messages)
  BY LastIsCount
<1>2. QED
  BY <1>1, Rows DEF Numbered, Draft

\* The model answers with the calls of a batch, or with none and the decision.
LEMMA AnswerStep ==
    ASSUME IInv, NEW t \in Turns, pc[t] = "think", budget[t].steps + 1 <= MaxSteps,
           budget' = [budget EXCEPT ![t].steps = budget[t].steps + 1],
           NEW batch \in Seq(Call), NEW outcome \in Results \cup {Null},
           batch = <<>> => outcome = decision[t],
           Write(t, Numbered(Message("assistant", batch, Null, outcome))),
           pending' = [pending EXCEPT ![t] = batch],
           UNCHANGED <<owner, messages, decision>>
    PROVE  IInv'
<1> DEFINE m == Numbered(Message("assistant", batch, Null, outcome))
<1> USE DEF IInv, ConversationInv
<1>0. budget[t] \in [steps : Nat, calls : Nat, history : Seq(Call)]
  BY DEF TypeOK
<1>1. /\ pc'[t] = "write" /\ out'[t] = m /\ pending'[t] = batch /\ decision'[t] = decision[t]
      /\ budget'[t].steps = budget[t].steps + 1 /\ budget'[t].history = budget[t].history
      /\ budget'[t].calls = budget[t].calls
      /\ budget'[t] \in [steps : Nat, calls : Nat, history : Seq(Call)]
  <2>1. pc'[t] = "write" /\ out'[t] = m /\ pending'[t] = batch /\ decision'[t] = decision[t]
    BY DEF Write, Goto, TypeOK
  <2>2. budget'[t] = [budget[t] EXCEPT !.steps = budget[t].steps + 1]
    BY DEF TypeOK
  <2>3. QED
    BY <1>0, <2>1, <2>2
<1>2. \A u \in Turns : u # t =>
          /\ pc'[u] = pc[u] /\ out'[u] = out[u] /\ budget'[u] = budget[u]
          /\ pending'[u] = pending[u] /\ decision'[u] = decision[u]
  BY DEF Write, Goto, TypeOK
<1>3. /\ m \in Draft /\ m # Null /\ m.number = Cardinality(messages) + 1
      /\ m.role = "assistant" /\ m.calls = batch /\ m.outcome = outcome
  <2> DEFINE d == Message("assistant", batch, Null, outcome)
  <2>1. d \in Draft /\ d.role = "assistant" /\ d.calls = batch /\ d.outcome = outcome
    BY DEF Message, Draft, Roles
  <2> HIDE DEF d
  <2>2. m = Numbered(d)
    BY DEF d
  <2> HIDE DEF m
  <2>3. QED
    BY <2>1, <2>2, NumberedDraft
<1> HIDE DEF m
<1>4. TypeOK'
  <2>1. /\ pc' \in [Turns -> Steps \cup Ended \cup {"idle"}] /\ out' \in [Turns -> Draft \cup {Null}]
        /\ pending' \in [Turns -> Seq(Call)]
        /\ budget' \in [Turns -> [steps : Nat, calls : Nat, history : Seq(Call)]]
    BY <1>1, <1>2, <1>3 DEF TypeOK, Write, Goto, Steps
  <2>2. \A u \in Turns : u # t => (out'[u] # Null <=> pc'[u] = "write")
    BY <1>2 DEF TypeOK
  <2>3. out'[t] # Null /\ pc'[t] = "write"
    BY <1>1, <1>3
  <2>4. QED
    BY <2>1, <2>2, <2>3 DEF TypeOK
<1>5. /\ Of(t)' = Of(t) /\ Running(t) /\ Running(t)' /\ pending[t] = <<>>
      /\ Tries(t)' = Tries(t) /\ AnswersOf(t)' = AnswersOf(t) /\ LastCalls(t)' = LastCalls(t)
      /\ \A x : Since(t, x)' = Since(t, x)
  <2>1. Of(t)' = Of(t)
    BY DEF Of
  <2>2. Running(t) /\ Running(t)' /\ pending[t] = <<>>
    BY <1>1 DEF Running, Ended, DraftFits
  <2>3. QED
    BY <2>1, <2>2 DEF Tries, Evaluates, AnswersOf, LastCalls, IsCalls, Since
<1>6. DraftFits(t)'
  <2>1. Cardinality(messages) \in Nat
    BY PartIsFinite
  <2>2. QED
    BY <2>1, <1>1, <1>3, <1>5 DEF DraftFits, Drafting, Roles
<1>7. DecisionFits(t)'
  BY <1>1, <1>3, <1>5 DEF DecisionFits, Evaluates
<1>8. BudgetFits(t)'
  <2>1. Cardinality(AnswersOf(t)) \in Nat
    BY PartIsFinite DEF AnswersOf, Of
  <2>2. Cardinality(AnswersOf(t)) <= budget[t].steps /\ budget[t].steps \in Nat
    BY <2>1, <1>0, <1>5 DEF BudgetFits, Drafting
  <2>3. Len(budget[t].history) <= budget[t].calls
    BY DEF BudgetFits
  <2>4. QED
    BY <1>0, <1>1, <1>3, <1>5, <2>1, <2>2, <2>3, ConversationAssumption DEF BudgetFits, Drafting
<1>9. ResultsFit(t)'
  <2>1. \A x \in LastCalls(t) :
            InOrder(x, Since(t, x)) /\ Cardinality(Since(t, x)) = Len(x.calls)
    <3>1. SUFFICES ASSUME NEW x \in LastCalls(t)
                   PROVE  InOrder(x, Since(t, x)) /\ Cardinality(Since(t, x)) = Len(x.calls)
      OBVIOUS
    <3>2. Cardinality(Since(t, x)) \in Nat
      BY PartIsFinite DEF Since, Of
    <3>3. QED
      BY <1>5, <3>2 DEF ResultsFit, RestFits, Drafting
  <2>2. Drafting(t, {"assistant"})'
    BY <1>1, <1>3 DEF Drafting
  <2>3. \A x, S : InOrder(x, S)' <=> InOrder(x, S)
    BY DEF InOrder, Rank
  <2>4. QED
    BY <1>5, <2>1, <2>2, <2>3 DEF ResultsFit, RestFits
<1>10. /\ Len(budget'[t].history) <= MaxToolCalls
       /\ \A n \in 1 .. Len(budget'[t].history) - 1 :
             budget'[t].history[n] # budget'[t].history[n + 1]
       /\ \A x \in Of(t) : ~IsAnswer(x)
  BY <1>1, RanWithin DEF Ended
<1>11. QED
  BY <1>2, <1>4, <1>6, <1>7, <1>8, <1>9, <1>10, MoveStep

\* The model fails, answers, or calls tools, if the turn has a step left.
LEMMA ThinkStep ==
    ASSUME IInv, NEW t \in Turns, Think(t)
    PROVE  IInv'
<1>1. CASE Fail(t)
  BY <1>1, EndStep DEF Fail, Ended
<1>2. CASE ~Fail(t)
  <2>1. /\ pc[t] = "think" /\ budget[t].steps + 1 <= MaxSteps
        /\ budget' = [budget EXCEPT ![t].steps = budget[t].steps + 1]
        /\ UNCHANGED <<owner, messages, decision>>
    BY <1>2 DEF Think
  <2>2. CASE /\ Write(t, Numbered(Message("assistant", <<>>, Null, decision[t])))
             /\ UNCHANGED pending
    <3>1. pending' = [pending EXCEPT ![t] = <<>>]
      BY <2>1, <2>2 DEF IInv, ConversationInv, TypeOK, DraftFits
    <3>2. decision[t] \in Results \cup {Null} /\ <<>> \in Seq(Call)
      BY DEF IInv, ConversationInv, TypeOK
    <3>3. QED
      BY <2>1, <2>2, <3>1, <3>2, AnswerStep
  <2>3. ASSUME NEW batch \in Batches[t],
               Write(t, Numbered(Message("assistant", batch, Null, Null))),
               pending' = [pending EXCEPT ![t] = batch]
        PROVE  IInv'
    <3>1. batch \in Seq(Call) /\ batch # <<>>
      BY ConversationAssumption
    <3>2. QED
      BY <2>1, <2>3, <3>1, AnswerStep
  <2>4. QED
    BY <1>2, <2>2, <2>3 DEF Think
<1>3. QED
  BY <1>1, <1>2

\* The response is sent, or cannot be.
LEMMA ReplyStep ==
    ASSUME IInv, NEW t \in Turns, Reply(t)
    PROVE  IInv'
BY EndStep DEF Reply, Ended
-----------------------------------------------------------------------------
\* What is charged for a call stays within the limit and repeats nothing.
LEMMA Charged ==
    ASSUME IInv, NEW t \in Turns, NEW call \in Call
    PROVE  LET b == IF Counted(call) THEN Charge(budget[t], call) ELSE budget[t] IN
           /\ b \in [steps : Nat, calls : Nat, history : Seq(Call)]
           /\ b.steps = budget[t].steps /\ Len(b.history) <= b.calls
           /\ Len(b.history) <= MaxToolCalls
           /\ \A n \in 1 .. Len(b.history) - 1 : b.history[n] # b.history[n + 1]
<1> DEFINE old == budget[t]
           h == Append(old.history, call)
<1>1. /\ old \in [steps : Nat, calls : Nat, history : Seq(Call)]
      /\ Len(old.history) <= old.calls /\ Len(old.history) <= MaxToolCalls
      /\ \A n \in 1 .. Len(old.history) - 1 : old.history[n] # old.history[n + 1]
  BY RanWithin DEF IInv, ConversationInv, TypeOK, BudgetFits
<1> HIDE DEF old
<1>2. CASE Counted(call) /\ Recorded(old, call)
  <2>1. /\ h \in Seq(Call) /\ Len(h) = Len(old.history) + 1 /\ Len(old.history) \in Nat
        /\ \A n \in 1 .. Len(old.history) : h[n] = old.history[n]
        /\ h[Len(old.history) + 1] = call
    BY <1>1
  <2>2. Len(old.history) # 0 => old.history[Len(old.history)] # call
    BY <1>1, <1>2 DEF Recorded
  <2>3. old.calls + 1 <= MaxToolCalls
    BY <1>2 DEF Recorded
  <2>4. \A n \in 1 .. Len(h) - 1 : h[n] # h[n + 1]
    <3>1. SUFFICES ASSUME NEW n \in 1 .. Len(h) - 1 PROVE h[n] # h[n + 1]
      OBVIOUS
    <3> HIDE DEF h
    <3>2. CASE n = Len(old.history)
      BY <3>2, <2>1, <2>2
    <3>3. CASE n # Len(old.history)
      <4>1. n \in 1 .. Len(old.history) - 1 /\ n + 1 \in 1 .. Len(old.history)
        BY <3>3, <2>1
      <4>2. QED
        BY <4>1, <1>1, <2>1
    <3>4. QED
      BY <3>2, <3>3
  <2>5. LET b == Charge(old, call) IN
        /\ b \in [steps : Nat, calls : Nat, history : Seq(Call)]
        /\ b.steps = old.steps /\ b.calls = old.calls + 1 /\ b.history = h
    BY <1>1, <1>2, <2>1 DEF Charge
  <2> HIDE DEF h
  <2>6. Len(h) <= old.calls + 1 /\ Len(h) <= MaxToolCalls
    BY <1>1, <2>1, <2>3, ConversationAssumption
  <2> DEFINE b == Charge(old, call)
  <2>7. /\ b \in [steps : Nat, calls : Nat, history : Seq(Call)]
        /\ b.steps = old.steps /\ Len(b.history) <= b.calls
        /\ Len(b.history) <= MaxToolCalls
        /\ \A n \in 1 .. Len(b.history) - 1 : b.history[n] # b.history[n + 1]
    <3>1. b.history = h
      BY <2>5
    <3>2. b \in [steps : Nat, calls : Nat, history : Seq(Call)] /\ b.steps = old.steps
          /\ b.calls = old.calls + 1
      BY <2>5
    <3> HIDE DEF b
    <3>3. QED
      BY <2>4, <2>6, <3>1, <3>2
  <2> HIDE DEF b
  <2>8. b = IF Counted(call) THEN Charge(budget[t], call) ELSE budget[t]
    BY <1>2 DEF b, old
  <2>9. QED
    BY <2>7, <2>8 DEF old
<1>3. CASE Counted(call) /\ ~Recorded(old, call)
  <2>1. LET b == Charge(old, call) IN
        /\ b \in [steps : Nat, calls : Nat, history : Seq(Call)]
        /\ b.steps = old.steps /\ b.calls = old.calls + 1 /\ b.history = old.history
    BY <1>1, <1>3 DEF Charge
  <2>2. QED
    BY <1>1, <1>3, <2>1 DEF old
<1>4. CASE ~Counted(call)
  BY <1>1, <1>4 DEF old
<1>5. QED
  BY <1>2, <1>3, <1>4

\* The result of a call is that of the next pending one, and the decision follows it.
LEMMA CallToolStep ==
    ASSUME IInv, NEW t \in Turns, CallTool(t)
    PROVE  IInv'
<1> DEFINE call == Head(pending[t])
           b == IF Counted(call) THEN Charge(budget[t], call) ELSE budget[t]
<1> USE DEF IInv, ConversationInv
<1>1. /\ pc[t] = "tool" /\ pending[t] # <<>> /\ pending[t] \in Seq(Call)
      /\ call \in Call /\ Tail(pending[t]) \in Seq(Call)
  BY DEF CallTool, TypeOK, DraftFits
<1>2. PICK outcome \in Outcome(call) \cup {Null} :
          /\ Write(t, Numbered(Message("tool", <<>>, call, outcome)))
          /\ decision' = [decision EXCEPT ![t] = DecisionAfter(decision[t], call, outcome)]
  BY DEF CallTool
<1> DEFINE d == Message("tool", <<>>, call, outcome)
           m == Numbered(d)
<1>3. /\ d \in Draft /\ d.role = "tool" /\ d.calls = <<>> /\ d.call = call /\ d.outcome = outcome
  BY <1>1, <1>2 DEF Message, Draft, Roles, Outcome
<1>4. budget' = [budget EXCEPT ![t] = b] /\ UNCHANGED <<owner, messages>>
      /\ pending' = [pending EXCEPT ![t] = Tail(pending[t])]
  BY DEF CallTool
<1>5. /\ b \in [steps : Nat, calls : Nat, history : Seq(Call)]
      /\ b.steps = budget[t].steps /\ Len(b.history) <= b.calls
      /\ Len(b.history) <= MaxToolCalls
      /\ \A n \in 1 .. Len(b.history) - 1 : b.history[n] # b.history[n + 1]
  BY <1>1, Charged
<1>6. call.tool = "evaluate_eligibility" => outcome \in Results \cup {Null}
  BY <1>2 DEF Outcome
<1> HIDE DEF call, b, d
<1>7. /\ pc'[t] = "write" /\ out'[t] = m /\ pending'[t] = Tail(pending[t]) /\ budget'[t] = b
      /\ decision'[t] = DecisionAfter(decision[t], call, outcome)
  BY <1>2, <1>4 DEF Write, Goto, TypeOK, d
<1>8. \A u \in Turns : u # t =>
          /\ pc'[u] = pc[u] /\ out'[u] = out[u] /\ budget'[u] = budget[u]
          /\ pending'[u] = pending[u] /\ decision'[u] = decision[u]
  BY <1>2, <1>4 DEF Write, Goto, TypeOK
<1>9. /\ m \in Draft /\ m # Null /\ m.number = Cardinality(messages) + 1
      /\ m.role = "tool" /\ m.calls = <<>> /\ m.call = call /\ m.outcome = outcome
  <2> HIDE DEF m
  <2>1. m = Numbered(d)
    BY DEF m
  <2>2. QED
    BY <1>3, <2>1, NumberedDraft
<1> HIDE DEF m
<1>10. TypeOK'
  <2>1. decision'[t] \in Results \cup {Null}
    BY <1>6, <1>7 DEF DecisionAfter, TypeOK
  <2>2. \A u \in Turns : u # t => (out'[u] # Null <=> pc'[u] = "write")
    BY <1>8 DEF TypeOK
  <2>3. out'[t] # Null /\ pc'[t] = "write"
    BY <1>7, <1>9
  <2>4. /\ pc' \in [Turns -> Steps \cup Ended \cup {"idle"}] /\ out' \in [Turns -> Draft \cup {Null}]
        /\ pending' \in [Turns -> Seq(Call)]
        /\ budget' \in [Turns -> [steps : Nat, calls : Nat, history : Seq(Call)]]
        /\ decision' \in [Turns -> Results \cup {Null}]
    BY <1>1, <1>2, <1>4, <1>5, <1>7, <1>8, <1>9, <2>1 DEF TypeOK, Write, Goto, Steps
  <2>5. QED
    BY <1>4, <2>2, <2>3, <2>4 DEF TypeOK
<1>11. /\ Of(t)' = Of(t) /\ Running(t) /\ Running(t)'
       /\ Tries(t)' = Tries(t) /\ AnswersOf(t)' = AnswersOf(t) /\ LastCalls(t)' = LastCalls(t)
       /\ \A x : Since(t, x)' = Since(t, x)
  <2>1. Of(t)' = Of(t)
    BY <1>4 DEF Of
  <2>2. Running(t) /\ Running(t)'
    BY <1>1, <1>7 DEF Running, Ended
  <2>3. QED
    BY <2>1, <2>2 DEF Tries, Evaluates, AnswersOf, LastCalls, IsCalls, Since
<1>12. DraftFits(t)'
  <2>1. Cardinality(messages) \in Nat
    BY PartIsFinite
  <2>2. QED
    BY <2>1, <1>1, <1>4, <1>7, <1>9, <1>11 DEF DraftFits, Drafting, Roles
<1>13. DecisionFits(t)'
  <2>1. CASE call.tool = "evaluate_eligibility"
    <3>1. Evaluates(out'[t]) /\ decision'[t] = out'[t].outcome
      BY <2>1, <1>7, <1>9 DEF Evaluates, DecisionAfter
    <3>2. QED
      BY <3>1, <1>7 DEF DecisionFits, Evaluates
  <2>2. CASE call.tool # "evaluate_eligibility"
    <3>1. ~Evaluates(out'[t]) /\ decision'[t] = decision[t]
      BY <2>2, <1>7, <1>9 DEF Evaluates, DecisionAfter
    <3>2. QED
      BY <3>1, <1>1, <1>7, <1>11 DEF DecisionFits, Evaluates
  <2>3. QED
    BY <2>1, <2>2
<1>14. BudgetFits(t)'
  <2>1. ~Drafting(t, {"assistant"}) /\ ~Drafting(t, {"assistant"})'
    BY <1>1, <1>7, <1>9 DEF Drafting
  <2>2. QED
    BY <2>1, <1>5, <1>7, <1>11 DEF BudgetFits
<1>15. ResultsFit(t)'
  <2>1. SUFFICES ASSUME NEW x \in LastCalls(t)
                 PROVE  InOrder(x, Since(t, x)) /\ RestFits(t, x, Cardinality(Since(t, x)))'
    <3>1. \A x, S : InOrder(x, S)' <=> InOrder(x, S)
      BY DEF InOrder, Rank
    <3>2. QED
      BY <1>11, <3>1 DEF ResultsFit
  <2>2. PICK k \in Nat : k = Cardinality(Since(t, x))
    BY PartIsFinite DEF Since, Of
  <2>3. InOrder(x, Since(t, x)) /\ RestFits(t, x, k)
    BY <1>11, <2>2 DEF ResultsFit
  <2>4. ~Drafting(t, {"assistant"}) /\ ~Drafting(t, {"tool"})
    BY <1>1 DEF Drafting
  <2>5. ~Drafting(t, {"assistant"})' /\ Drafting(t, {"tool"})'
    BY <1>7, <1>9 DEF Drafting
  <2>6. /\ k + Len(pending[t]) = Len(x.calls)
        /\ \A i \in 1 .. Len(pending[t]) : pending[t][i] = x.calls[k + i]
    BY <2>3, <2>4 DEF RestFits
  <2>7. /\ Len(pending[t]) \in Nat \ {0} /\ Len(Tail(pending[t])) = Len(pending[t]) - 1
        /\ call = pending[t][1]
        /\ \A i \in 1 .. Len(pending[t]) - 1 : Tail(pending[t])[i] = pending[t][i + 1]
    BY <1>1 DEF call
  <2>8. (k + 1) + Len(Tail(pending[t])) = Len(x.calls) /\ call = x.calls[k + 1]
    BY <2>2, <2>6, <2>7
  <2>9. ASSUME NEW i \in 1 .. Len(Tail(pending[t]))
        PROVE  Tail(pending[t])[i] = x.calls[(k + 1) + i]
    <3>1. i + 1 \in 1 .. Len(pending[t]) /\ k + (i + 1) = (k + 1) + i
      BY <2>2, <2>7
    <3>2. QED
      BY <2>6, <2>7, <3>1
  <2>10. k = Cardinality(Since(t, x)')
    BY <1>11, <2>2
  <2>11. RestFits(t, x, k)'
    BY <2>5, <2>8, <2>9, <1>7, <1>9 DEF RestFits
  <2>12. QED
    BY <2>3, <2>10, <2>11
<1>16. /\ Len(budget'[t].history) <= MaxToolCalls
       /\ \A n \in 1 .. Len(budget'[t].history) - 1 :
             budget'[t].history[n] # budget'[t].history[n + 1]
       /\ \A x \in Of(t) : ~IsAnswer(x)
  BY <1>1, <1>5, <1>7, RanWithin DEF Ended
<1>17. QED
  BY <1>4, <1>8, <1>10, <1>12, <1>13, <1>14, <1>15, <1>16, MoveStep
-----------------------------------------------------------------------------
\* Adding a later message leaves the ranks of the earlier and is the last itself.
LEMMA RankOfNext ==
    ASSUME NEW S, IsFiniteSet(S), NEW new, new \notin S, new.number \in Nat,
           \A x \in S : x.number \in Nat /\ x.number < new.number
    PROVE  /\ \A x \in S : Rank(x, S \cup {new}) = Rank(x, S)
           /\ Rank(new, S \cup {new}) = Cardinality(S) + 1
<1>1. ASSUME NEW x \in S
      PROVE  Rank(x, S \cup {new}) = Rank(x, S)
  <2>1. {y \in S \cup {new} : y.number <= x.number} = {y \in S : y.number <= x.number}
    OBVIOUS
  <2>2. QED
    BY <2>1 DEF Rank
<1>2. {y \in S \cup {new} : y.number <= new.number} = S \cup {new}
  OBVIOUS
<1>3. Rank(new, S \cup {new}) = Cardinality(S) + 1
  BY <1>2, FS_AddElement DEF Rank
<1>4. QED
  BY <1>1, <1>3

\* A stored message has the number after the last, and t goes on after it.
LEMMA Inserted ==
    ASSUME IInv, NEW t \in Turns, pc[t] = "write", out[t].number > 0,
           out[t].number \notin Numbers, Insert(t)
    PROVE  LET new == Stored(t) IN
           /\ new \in Row /\ new \notin messages /\ new.turn = t
           /\ new.number = Cardinality(messages) + 1 /\ new.role = out[t].role
           /\ new.calls = out[t].calls /\ new.call = out[t].call /\ new.outcome = out[t].outcome
           /\ messages' = messages \cup {new} /\ IsFiniteSet(messages')
           /\ Cardinality(messages) \in Nat /\ Cardinality(messages') = Cardinality(messages) + 1
           /\ \A x \in messages : x.number \in Nat /\ x.number < new.number
           /\ Of(t)' = Of(t) \cup {new}
           /\ \A u \in Turns : u # t => Of(u)' = Of(u)
<1> USE DEF IInv, ConversationInv
<1>1. Cardinality(messages) \in Nat /\ Numbers = 1 .. Cardinality(messages)
  BY PartIsFinite DEF HistoryIsASequence
<1>2. out[t] \in Draft
  BY DEF TypeOK
<1>3. out[t].number \in Nat /\ out[t].number <= Cardinality(messages) + 1
  BY <1>2 DEF Draft, DraftFits
<1>4. out[t].number = Cardinality(messages) + 1
  BY <1>1, <1>3
<1> DEFINE new == Stored(t)
<1>5. /\ new \in Row /\ new.turn = t /\ new.number = Cardinality(messages) + 1
      /\ new.role = out[t].role /\ new.calls = out[t].calls
      /\ new.call = out[t].call /\ new.outcome = out[t].outcome
  BY <1>1, <1>2, <1>4 DEF Stored, Draft, Row
<1>6. messages' = messages \cup {new}
  BY DEF Insert
<1> HIDE DEF new
<1>7. \A x \in messages : x.number \in Nat /\ x.number < new.number
  <2>1. \A x \in messages : x.number \in Numbers
    BY DEF Numbers
  <2>2. QED
    BY <1>1, <1>5, <2>1
<1>8. new \notin messages
  BY <1>1, <1>5, <1>7
<1>9. IsFiniteSet(messages') /\ Cardinality(messages') = Cardinality(messages) + 1
  BY <1>6, <1>8, FS_AddElement DEF TypeOK
<1>10. Of(t)' = Of(t) \cup {new} /\ \A u \in Turns : u # t => Of(u)' = Of(u)
  BY <1>5, <1>6 DEF Of
<1>11. QED
  BY <1>1, <1>5, <1>6, <1>7, <1>8, <1>9, <1>10 DEF new

\* The history stays one sequence of messages of one student.
LEMMA InsertedHistory ==
    ASSUME IInv, NEW t \in Turns, pc[t] = "write", out[t].number > 0,
           out[t].number \notin Numbers, Insert(t)
    PROVE  ConversationInv' /\ MessagesAreApart'
<1> USE DEF IInv, ConversationInv
<1>1. PICK new : new = Stored(t)
  OBVIOUS
<1>2. /\ new \in Row /\ new \notin messages /\ new.turn = t
      /\ new.number = Cardinality(messages) + 1 /\ new.role = out[t].role
      /\ new.calls = out[t].calls
      /\ messages' = messages \cup {new} /\ IsFiniteSet(messages')
      /\ Cardinality(messages) \in Nat /\ Cardinality(messages') = Cardinality(messages) + 1
      /\ \A x \in messages : x.number \in Nat /\ x.number < new.number
  BY <1>1, Inserted
<1>3. pc'[t] = After(t, out[t]) /\ out'[t] = Null
      /\ \A u \in Turns : u # t => pc'[u] = pc[u] /\ out'[u] = out[u]
  BY DEF Insert, Goto, TypeOK
<1>4. out[t].role \in Roles
  BY DEF TypeOK, Draft
<1>5. After(t, out[t]) \in {"load", "think", "reply", "tool"}
  BY <1>4 DEF After, Roles
<1>6. TypeOK'
  <2>1. pc' \in [Turns -> Steps \cup Ended \cup {"idle"}] /\ out' \in [Turns -> Draft \cup {Null}]
    BY <1>3, <1>5 DEF Insert, Goto, TypeOK, Steps
  <2>2. \A u \in Turns : out'[u] # Null <=> pc'[u] = "write"
    BY <1>3, <1>5 DEF TypeOK
  <2>3. QED
    BY <1>2, <2>1, <2>2 DEF TypeOK, Insert
<1>7. HistoryIsASequence'
  <2>1. Numbers' = Numbers \cup {new.number}
    BY <1>2 DEF Numbers
  <2>2. Numbers = 1 .. Cardinality(messages)
    BY DEF HistoryIsASequence
  <2>3. Numbers' = 1 .. Cardinality(messages')
    BY <1>2, <2>1, <2>2
  <2>4. new.number = 1 => new.role = "system"
    <3>1. new.number = 1 => messages = {}
      BY <1>2, FS_EmptySet DEF TypeOK
    <3>2. messages = {} => ~Drafting(t, Roles \ {"system"})
      BY DEF DraftFits
    <3>3. QED
      BY <1>2, <1>4, <3>1, <3>2 DEF Drafting
  <2>5. QED
    BY <1>2, <2>3, <2>4 DEF HistoryIsASequence
<1>8. OwnerWrites'
  <2>1. owner = StudentOf[t] /\ owner' = owner
    BY DEF DraftFits, Running, Ended, Insert
  <2>2. QED
    BY <1>2, <2>1 DEF OwnerWrites
<1>9. MessagesAreApart'
  <2>1. IsAnswer(new) => pc'[t] = "reply"
    <3>1. IsAnswer(new) => out[t].role = "assistant" /\ pending[t] = <<>>
      BY <1>2 DEF IsAnswer, DraftFits, Drafting
    <3>2. QED
      BY <1>3, <3>1 DEF After
  <2>2. \A x \in messages : IsAnswer(x) => pc'[x.turn] \in Ended \cup {"reply"}
    <3>1. \A x \in messages : x.turn = t => ~IsAnswer(x)
      BY RanWithin DEF Of, Ended
    <3>2. QED
      BY <1>3, <3>1, Rows DEF MessagesAreApart, Row
  <2>3. \A x, y \in messages' : x.number = y.number => x = y
    BY <1>2 DEF MessagesAreApart
  <2>4. QED
    BY <1>2, <2>1, <2>2, <2>3 DEF MessagesAreApart, IsAnswer
<1>10. QED
  BY <1>6, <1>7, <1>8, <1>9

\* An answer reports the decision of its turn, which is that of its last attempt.
LEMMA InsertedAnswer ==
    ASSUME IInv, NEW t \in Turns, pc[t] = "write", out[t].number > 0,
           out[t].number \notin Numbers, Insert(t)
    PROVE  AnswerReportsLastEvaluation'
<1> USE DEF IInv, ConversationInv
<1>1. PICK new : new = Stored(t)
  OBVIOUS
<1>2. /\ new \in Row /\ new.turn = t /\ new.role = out[t].role
      /\ new.calls = out[t].calls /\ new.outcome = out[t].outcome
      /\ messages' = messages \cup {new}
      /\ Of(t)' = Of(t) \cup {new}
      /\ \A u \in Turns : u # t => Of(u)' = Of(u)
  BY <1>1, Inserted
<1> DEFINE Reports(m, tries) ==
        IF tries = {} THEN m.outcome = Null
        ELSE \E x \in tries : /\ \A y \in tries : y.number <= x.number
                              /\ m.outcome = x.outcome
<1>3. ASSUME NEW m \in messages, IsAnswer(m)
      PROVE  Reports(m, Tries(m.turn)')
  <2>1. m.turn \in Turns /\ m.turn # t
    BY <1>3, RanWithin, Rows DEF Of, Ended, Row
  <2>2. Tries(m.turn)' = Tries(m.turn)
    BY <1>2, <2>1 DEF Tries, Evaluates
  <2>3. Reports(m, Tries(m.turn))
    BY <1>3 DEF AnswerReportsLastEvaluation, Tries, Evaluates
  <2>4. QED
    BY <2>2, <2>3
<1>4. ASSUME IsAnswer(new)
      PROVE  Reports(new, Tries(t)')
  <2>1. out[t].role = "assistant" /\ new.outcome = decision[t]
    BY <1>2, <1>4 DEF IsAnswer, DraftFits, Drafting
  <2>2. Tries(t)' = Tries(t)
    BY <1>2, <2>1 DEF Tries, Evaluates
  <2>3. Running(t) /\ ~Evaluates(out[t])
    BY <2>1 DEF Running, Ended, Evaluates
  <2>4. Reports(new, Tries(t))
    BY <2>1, <2>3 DEF DecisionFits
  <2>5. QED
    BY <2>2, <2>4
<1>5. \A m \in messages' : IsAnswer(m) => Reports(m, Tries(m.turn)')
  BY <1>2, <1>3, <1>4
<1>6. QED
  BY <1>5 DEF AnswerReportsLastEvaluation, Tries, Evaluates, IsAnswer

\* Before its next assistant message a turn has stored a result for every call.
LEMMA InsertedCalls ==
    ASSUME IInv, NEW t \in Turns, pc[t] = "write", out[t].number > 0,
           out[t].number \notin Numbers, Insert(t)
    PROVE  CallsAreAnswered'
<1> USE DEF IInv, ConversationInv
<1>1. PICK new : new = Stored(t)
  OBVIOUS
<1>2. /\ new \in Row /\ new.turn = t /\ new.role = out[t].role
      /\ new.number \in Nat
      /\ messages' = messages \cup {new}
      /\ \A x \in messages : x.number \in Nat /\ x.number < new.number
      /\ Of(t)' = Of(t) \cup {new}
      /\ \A u \in Turns : u # t => Of(u)' = Of(u)
  BY <1>1, Inserted
<1> DEFINE Answered(m, S) ==
        \E between \in SUBSET S : Cardinality(between) = Len(m.calls) /\ InOrder(m, between)
           Between(m, next) == {x \in Of(m.turn) : m.number < x.number /\ x.number < next.number}
<1>3. ASSUME NEW m \in messages, NEW next \in messages, m.turn = next.turn, IsCalls(m),
             next.role = "assistant", m.number < next.number
      PROVE  Answered(m, Between(m, next)')
  <2>1. Answered(m, Between(m, next))
    BY <1>3 DEF CallsAreAnswered
  <2>2. m.turn \in Turns
    BY Rows DEF Row
  <2>3. Between(m, next) \subseteq Between(m, next)'
    BY <1>2, <2>2
  <2>4. QED
    BY <2>1, <2>3
<1>4. ASSUME NEW m \in messages, m.turn = t, IsCalls(m), new.role = "assistant"
      PROVE  Answered(m, Between(m, new)')
  <2>1. m \in Of(t) /\ \A x \in Of(t) : x \in messages
    BY <1>4 DEF Of
  <2>2. CASE \E x \in AnswersOf(t) : m.number < x.number
    <3>1. PICK x \in AnswersOf(t) : m.number < x.number
      BY <2>2
    <3>2. x \in messages /\ x.turn = t /\ x.role = "assistant"
      BY DEF AnswersOf, Of
    <3>3. Answered(m, Between(m, x))
      BY <1>4, <3>1, <3>2 DEF CallsAreAnswered
    <3>4. Between(m, x) \subseteq Between(m, new)'
      BY <1>2, <1>4, <2>1, <3>2
    <3>5. QED
      BY <3>3, <3>4
  <2>3. CASE ~\E x \in AnswersOf(t) : m.number < x.number
    <3>1. m \in LastCalls(t)
      BY <1>2, <1>4, <2>1, <2>3 DEF LastCalls, AnswersOf
    <3>2. Running(t) /\ Drafting(t, {"assistant"})
      BY <1>2, <1>4 DEF Running, Drafting, Ended
    <3>3. Cardinality(Since(t, m)) = Len(m.calls) /\ InOrder(m, Since(t, m))
      BY <3>1, <3>2 DEF ResultsFit, RestFits
    <3>4. Since(t, m) \subseteq Between(m, new)'
      BY <1>2, <1>4, <2>1 DEF Since
    <3>5. QED
      BY <3>3, <3>4
  <2>4. QED
    BY <2>2, <2>3
<1>5. \A m, next \in messages' :
          m.turn = next.turn /\ IsCalls(m) /\ next.role = "assistant" /\ m.number < next.number
          => Answered(m, Between(m, next)')
  <2>1. ASSUME NEW m \in messages', NEW next \in messages', m.turn = next.turn, IsCalls(m),
               next.role = "assistant", m.number < next.number
        PROVE  Answered(m, Between(m, next)')
    <3>1. m \in messages
      BY <1>2, <2>1
    <3>2. CASE next = new
      BY <1>2, <1>4, <2>1, <3>1, <3>2
    <3>3. CASE next \in messages
      BY <1>3, <2>1, <3>1, <3>3
    <3>4. QED
      BY <1>2, <3>2, <3>3
  <2>2. QED
    BY <2>1
<1>6. QED
  BY <1>5 DEF CallsAreAnswered, InOrder, Rank, IsCalls

\* The turn that stored is where its message leads, with what fits there.
LEMMA InsertedTurn ==
    ASSUME IInv, NEW t \in Turns, pc[t] = "write", out[t].number > 0,
           out[t].number \notin Numbers, Insert(t)
    PROVE  DraftFits(t)' /\ DecisionFits(t)' /\ BudgetFits(t)' /\ ResultsFit(t)'
<1> USE DEF IInv, ConversationInv
<1>1. PICK new : new = Stored(t)
  OBVIOUS
<1>2. /\ new \in Row /\ new \notin messages /\ new.turn = t /\ new.number \in Nat
      /\ new.role = out[t].role
      /\ new.calls = out[t].calls /\ new.call = out[t].call /\ new.outcome = out[t].outcome
      /\ messages' = messages \cup {new}
      /\ \A x \in messages : x.number \in Nat /\ x.number < new.number
      /\ Of(t)' = Of(t) \cup {new}
  BY <1>1, Inserted
<1>3. /\ pc'[t] = After(t, out[t]) /\ pending'[t] = pending[t] /\ owner' = owner
      /\ decision'[t] = decision[t] /\ budget'[t] = budget[t]
  BY DEF Insert, Goto, TypeOK
<1>4. out[t].role \in Roles
  BY DEF TypeOK, Draft
<1>5. pc'[t] \in {"load", "think", "reply", "tool"}
  BY <1>3, <1>4 DEF After, Roles
<1>6. Running(t) /\ Running(t)' /\ \A roles : ~Drafting(t, roles)'
  BY <1>5 DEF Running, Ended, Drafting
<1>7. \A x \in Of(t) : x \in messages
  BY DEF Of
<1>8. DraftFits(t)'
  <2>1. owner' = StudentOf[t]
    BY <1>3, <1>6 DEF DraftFits
  <2>2. pc'[t] = "load" => \A x \in Of(t)' : x.role = "system"
    <3>1. ASSUME pc'[t] = "load"
          PROVE  out[t].role = "system"
      BY <1>3, <1>4, <3>1 DEF After, Roles
    <3>2. out[t].role = "system" => \A x \in Of(t) : x.role = "system"
      BY DEF DraftFits, Drafting
    <3>3. QED
      BY <1>2, <3>1, <3>2
  <2>3. pc'[t] \in {"load", "think"} => pending'[t] = <<>>
    BY <1>3, <1>4 DEF After, Roles, DraftFits, Drafting
  <2>4. pc'[t] = "tool" => pending'[t] # <<>>
    BY <1>3, <1>4 DEF After, Roles
  <2>5. messages' # {}
    BY <1>2
  <2>6. QED
    BY <1>5, <1>6, <2>1, <2>2, <2>3, <2>4, <2>5 DEF DraftFits
<1>9. DecisionFits(t)'
  <2>1. CASE Evaluates(out[t])
    <3>1. new \in Tries(t)' /\ Tries(t)' \subseteq Of(t)'
      BY <1>2, <2>1 DEF Tries, Evaluates
    <3>2. \A y \in Tries(t)' : y.number <= new.number
      BY <1>2, <1>7, <3>1
    <3>3. decision'[t] = new.outcome
      BY <1>2, <1>3, <1>6, <2>1 DEF DecisionFits
    <3>4. QED
      BY <1>5, <3>1, <3>2, <3>3 DEF DecisionFits
  <2>2. CASE ~Evaluates(out[t])
    <3>1. Tries(t)' = Tries(t)
      BY <1>2, <2>2 DEF Tries, Evaluates
    <3>2. QED
      BY <1>3, <1>5, <1>6, <2>2, <3>1 DEF DecisionFits
  <2>3. QED
    BY <2>1, <2>2
<1>10. BudgetFits(t)'
  <2>1. IsFiniteSet(AnswersOf(t)) /\ Cardinality(AnswersOf(t)) \in Nat /\ new \notin AnswersOf(t)
    BY <1>2, <1>7, PartIsFinite DEF AnswersOf
  <2>2. CASE out[t].role = "assistant"
    <3>1. AnswersOf(t)' = AnswersOf(t) \cup {new}
      BY <1>2, <2>2 DEF AnswersOf
    <3>2. Cardinality(AnswersOf(t)') = Cardinality(AnswersOf(t)) + 1
      BY <2>1, <3>1, FS_AddElement
    <3>3. Cardinality(AnswersOf(t)) + 1 <= budget[t].steps
      BY <1>6, <2>2 DEF BudgetFits, Drafting
    <3>4. QED
      BY <1>3, <1>6, <2>1, <3>2, <3>3 DEF BudgetFits
  <2>3. CASE out[t].role # "assistant"
    <3>1. AnswersOf(t)' = AnswersOf(t)
      BY <1>2, <2>3 DEF AnswersOf
    <3>2. Cardinality(AnswersOf(t)) <= budget[t].steps
      BY <1>6, <2>1, <2>3 DEF BudgetFits, Drafting
    <3>3. QED
      BY <1>3, <1>6, <2>1, <3>1, <3>2 DEF BudgetFits
  <2>4. QED
    BY <2>2, <2>3
<1>11. ResultsFit(t)'
  <2>1. SUFFICES ASSUME NEW m, m \in LastCalls(t)'
                 PROVE  InOrder(m, Since(t, m)') /\ RestFits(t, m, Cardinality(Since(t, m)))'
    <3>1. \A x, S : InOrder(x, S)' <=> InOrder(x, S)
      BY DEF InOrder, Rank
    <3>2. QED
      BY <3>1 DEF ResultsFit
  <2>2. IsCalls(m) /\ m \in Of(t)' /\ \A x \in AnswersOf(t)' : x.number <= m.number
    BY <2>1 DEF LastCalls, IsCalls
  <2>3. CASE m = new
    <3>1. Since(t, m)' = {}
      BY <1>2, <1>7, <2>3 DEF Since
    <3>2. out[t].role = "assistant" /\ pending[t] = m.calls
      BY <1>2, <2>2, <2>3 DEF IsCalls, DraftFits, Drafting
    <3>3. 0 + Len(m.calls) = Len(m.calls) /\ \A i \in 1 .. Len(m.calls) : 0 + i = i
      BY <1>2, <2>3 DEF Row
    <3>4. pending'[t] = m.calls
      BY <1>3, <3>2
    <3>5. RestFits(t, m, 0)'
      BY ONLY <1>6, <3>3, <3>4 DEF RestFits
    <3>6. QED
      BY <3>1, <3>5, FS_EmptySet DEF InOrder
  <2>4. CASE m \in Of(t)
    <3>1. m \in messages /\ m.number < new.number /\ m.number \in Nat
      BY <1>2, <1>7, <2>4
    <3>2. new.role # "assistant"
      <4>1. new.role = "assistant" => new \in AnswersOf(t)'
        BY <1>2 DEF AnswersOf
      <4>2. QED
        BY <1>2, <2>2, <3>1, <4>1
    <3>3. m \in LastCalls(t)
      <4>1. AnswersOf(t) \subseteq AnswersOf(t)'
        BY <1>2 DEF AnswersOf
      <4>2. QED
        BY <2>2, <2>4, <4>1 DEF LastCalls
    <3>4. new.role = "tool"
      BY <1>2, <1>4, <2>2, <2>4, <3>2 DEF IsCalls, DraftFits, Drafting, Roles
    <3>5. Since(t, m)' = Since(t, m) \cup {new}
      BY <1>2, <3>1 DEF Since
    <3>6. /\ Since(t, m) \subseteq messages /\ IsFiniteSet(Since(t, m)) /\ new \notin Since(t, m)
          /\ \A x \in Since(t, m) : x.number \in Nat /\ x.number < new.number
      BY <1>2, <1>7, PartIsFinite DEF Since
    <3>7. PICK k \in Nat : k = Cardinality(Since(t, m))
      BY <3>6, PartIsFinite
    <3>8. Cardinality(Since(t, m)') = k + 1
      BY <3>5, <3>6, <3>7, FS_AddElement
    <3>9. InOrder(m, Since(t, m)) /\ RestFits(t, m, k)
      BY <1>6, <3>3, <3>7 DEF ResultsFit
    <3>10. new.call = m.calls[k + 1] /\ RestFits(t, m, k + 1)'
      <4>1. Drafting(t, {"tool"}) /\ ~Drafting(t, {"assistant"})
        BY <1>2, <3>4 DEF Drafting
      <4>2. QED
        BY <1>2, <1>3, <1>6, <3>9, <4>1 DEF RestFits
    <3>11. InOrder(m, Since(t, m)')
      <4>1. /\ \A x \in Since(t, m) : Rank(x, Since(t, m)') = Rank(x, Since(t, m))
            /\ Rank(new, Since(t, m)') = k + 1
        BY <1>2, <3>5, <3>6, <3>7, RankOfNext
      <4>2. QED
        BY <3>4, <3>5, <3>9, <3>10, <4>1 DEF InOrder
    <3>12. QED
      BY <3>8, <3>10, <3>11
  <2>5. QED
    BY <1>2, <2>2, <2>3, <2>4
<1>12. QED
  BY <1>8, <1>9, <1>10, <1>11

\* add_message: the message is stored with its number, or the number was taken.
LEMMA SaveStep ==
    ASSUME IInv, NEW t \in Turns, Save(t)
    PROVE  IInv'
<1>1. CASE Fail(t)
  BY <1>1, EndStep DEF Fail, Ended
<1>2. CASE pc[t] = "write" /\ out[t].number > 0 /\ out[t].number \notin Numbers /\ Insert(t)
  <2>1. ConversationInv' /\ MessagesAreApart'
    BY <1>2, InsertedHistory
  <2>2. AnswerReportsLastEvaluation' /\ CallsAreAnswered'
    BY <1>2, InsertedAnswer, InsertedCalls
  <2>3. DraftFits(t)' /\ DecisionFits(t)' /\ BudgetFits(t)' /\ ResultsFit(t)'
    BY <1>2, InsertedTurn
  <2>4. /\ \A u \in Turns : u # t => Of(u)' = Of(u)
        /\ Cardinality(messages) \in Nat /\ Cardinality(messages') = Cardinality(messages) + 1
        /\ messages' # {} /\ owner' = owner
    BY <1>2, Inserted DEF Insert
  <2>5. ASSUME NEW u \in Turns, u # t
        PROVE  /\ DraftFits(u)' /\ DecisionFits(u)' /\ BudgetFits(u)' /\ ResultsFit(u)'
               /\ AnswersOf(u)' = AnswersOf(u)
    <3> USE DEF IInv, ConversationInv
    <3>1. /\ pc'[u] = pc[u] /\ out'[u] = out[u] /\ budget'[u] = budget[u]
          /\ pending'[u] = pending[u] /\ decision'[u] = decision[u] /\ Of(u)' = Of(u)
      BY <1>2, <2>4, <2>5 DEF Insert, Goto, TypeOK
    <3>2. /\ Running(u)' = Running(u) /\ Tries(u)' = Tries(u) /\ AnswersOf(u)' = AnswersOf(u)
          /\ LastCalls(u)' = LastCalls(u) /\ \A m : Since(u, m)' = Since(u, m)
      BY <3>1 DEF Running, Tries, Evaluates, AnswersOf, LastCalls, IsCalls, Since
    <3>3. DraftFits(u)'
      <4>1. pc[u] = "write" => out'[u].number <= Cardinality(messages') + 1
        <5>1. pc[u] = "write" => out[u].number \in Nat
          BY DEF TypeOK, Draft
        <5>2. QED
          BY <2>4, <3>1, <5>1 DEF DraftFits
      <4>2. QED
        BY <2>4, <3>1, <3>2, <4>1 DEF DraftFits, Drafting
    <3>4. DecisionFits(u)'
      BY <3>1, <3>2 DEF DecisionFits, Evaluates
    <3>5. BudgetFits(u)'
      BY <3>1, <3>2 DEF BudgetFits, Drafting
    <3>6. ResultsFit(u)'
      <4>1. \A m, k : RestFits(u, m, k)' <=> RestFits(u, m, k)
        BY <3>1 DEF RestFits, Drafting
      <4>2. \A m, S : InOrder(m, S)' <=> InOrder(m, S)
        BY DEF InOrder, Rank
      <4>3. ResultsFit(u)
        OBVIOUS
      <4>4. QED
        BY ONLY <3>2, <4>1, <4>2, <4>3 DEF ResultsFit
    <3>7. QED
      BY <3>2, <3>3, <3>4, <3>5, <3>6
  <2>6. BudgetHolds'
    <3>1. ASSUME NEW u \in Turns
          PROVE  /\ Len(budget'[u].history) <= MaxToolCalls
                 /\ \A n \in 1 .. Len(budget'[u].history) - 1 :
                       budget'[u].history[n] # budget'[u].history[n + 1]
      BY <1>2, RanWithin DEF Insert
    <3>2. ASSUME NEW u \in Turns
          PROVE  Cardinality(AnswersOf(u)') <= MaxSteps
      <4>1. CASE u # t
        BY <2>5, <4>1, RanWithin
      <4>2. CASE u = t
        <5>1. IsFiniteSet(AnswersOf(t)') /\ budget'[t].steps <= MaxSteps
          BY <2>1, <2>3, FS_Subset DEF ConversationInv, TypeOK, AnswersOf, Of, BudgetFits
        <5>2. Cardinality(AnswersOf(t)') \in Nat /\ budget'[t].steps \in Nat
          BY <2>1, <5>1, FS_CardinalityType DEF ConversationInv, TypeOK
        <5>3. Cardinality(AnswersOf(t)') <= budget'[t].steps
          <6>1. Running(t)' /\ ~Drafting(t, {"assistant"})'
            <7>1. pc'[t] = After(t, out[t]) /\ out[t].role \in Roles
              BY <1>2 DEF IInv, ConversationInv, TypeOK, Draft, Insert, Goto
            <7>2. pc'[t] \in {"load", "think", "reply", "tool"}
              BY <7>1 DEF After, Roles
            <7>3. QED
              BY <7>2 DEF Running, Ended, Drafting
          <6>2. QED
            BY <2>3, <5>2, <6>1 DEF BudgetFits
        <5>4. QED
          BY <4>2, <5>1, <5>2, <5>3, ConversationAssumption
      <4>3. QED
        BY <4>1, <4>2
    <3>3. QED
      BY <3>1, <3>2 DEF BudgetHolds, AnswersOf
  <2>7. QED
    BY <2>1, <2>2, <2>3, <2>5, <2>6 DEF IInv
<1>3. QED
  BY <1>1, <1>2 DEF Save
-----------------------------------------------------------------------------
\* The invariant holds before the first message.
LEMMA InitIInv == Init => IInv
<1> SUFFICES ASSUME Init PROVE IInv
  OBVIOUS
<1> USE DEF Init
<1>1. \A t \in Turns : Of(t) = {} /\ AnswersOf(t) = {}
  BY DEF Of, AnswersOf
<1>2. Cardinality({}) = 0 /\ IsFiniteSet({})
  BY FS_EmptySet
<1>3. ConversationInv
  <2>1. TypeOK
    BY <1>2 DEF TypeOK, Unused
  <2>2. HistoryIsASequence /\ OwnerWrites
    BY <1>2 DEF HistoryIsASequence, Numbers, OwnerWrites
  <2>3. QED
    BY <2>1, <2>2 DEF ConversationInv
<1>4. MessagesAreApart /\ AnswerReportsLastEvaluation /\ CallsAreAnswered
  BY DEF MessagesAreApart, AnswerReportsLastEvaluation, CallsAreAnswered
<1>5. BudgetHolds
  <2>1. SUFFICES ASSUME NEW t \in Turns
                 PROVE  /\ Len(budget[t].history) <= MaxToolCalls
                        /\ \A n \in 1 .. Len(budget[t].history) - 1 :
                              budget[t].history[n] # budget[t].history[n + 1]
                        /\ Cardinality(AnswersOf(t)) <= MaxSteps
    BY DEF BudgetHolds, AnswersOf
  <2>2. Cardinality(AnswersOf(t)) = 0 /\ budget[t].history = <<>>
    BY <1>1, <1>2 DEF Unused
  <2>3. Len(<<>>) = 0 /\ 0 <= MaxToolCalls /\ 0 <= MaxSteps
    BY ConversationAssumption
  <2>4. QED
    BY ONLY <2>2, <2>3
<1>6. ASSUME NEW t \in Turns
      PROVE  DraftFits(t) /\ DecisionFits(t) /\ BudgetFits(t) /\ ResultsFit(t)
  BY <1>1, ConversationAssumption
     DEF DraftFits, DecisionFits, BudgetFits, ResultsFit, Running, Drafting, Unused
<1>7. QED
  BY <1>3, <1>4, <1>5, <1>6 DEF IInv

\* A step that changes nothing keeps the invariant.
LEMMA StutterIInv == IInv /\ UNCHANGED vars => IInv'
<1> SUFFICES ASSUME IInv, UNCHANGED vars PROVE IInv'
  OBVIOUS
<1> USE DEF vars, turn
<1>1. ConversationInv' /\ MessagesAreApart'
  BY DEF IInv, ConversationInv, TypeOK, HistoryIsASequence, Numbers, OwnerWrites, MessagesAreApart, IsAnswer
<1>2. AnswerReportsLastEvaluation' /\ CallsAreAnswered'
  BY DEF IInv, AnswerReportsLastEvaluation, CallsAreAnswered, IsAnswer, IsCalls, Of, InOrder, Rank
<1>3. BudgetHolds'
  BY DEF IInv, BudgetHolds, Of
<1>4. ASSUME NEW t \in Turns
      PROVE  DraftFits(t)' /\ DecisionFits(t)' /\ BudgetFits(t)' /\ ResultsFit(t)'
  <2>1. DraftFits(t)' /\ DecisionFits(t)' /\ BudgetFits(t)'
    BY DEF IInv, DraftFits, DecisionFits, BudgetFits, Running, Drafting, Of, Tries, Evaluates, AnswersOf
  <2>2. ResultsFit(t)'
    <3>1. /\ Running(t)' = Running(t) /\ LastCalls(t)' = LastCalls(t)
          /\ \A m : Since(t, m)' = Since(t, m)
      BY DEF Running, LastCalls, AnswersOf, IsCalls, Of, Since
    <3>2. \A m, k : RestFits(t, m, k)' <=> RestFits(t, m, k)
      BY DEF RestFits, Drafting
    <3>3. \A m, S : InOrder(m, S)' <=> InOrder(m, S)
      BY DEF InOrder, Rank
    <3>4. ResultsFit(t)
      BY DEF IInv
    <3>5. QED
      BY ONLY <3>1, <3>2, <3>3, <3>4 DEF ResultsFit
  <2>3. QED
    BY <2>1, <2>2
<1>5. QED
  BY <1>1, <1>2, <1>3, <1>4 DEF IInv

\* Every step keeps the invariant.
LEMMA StepIInv == IInv /\ [Next]_vars => IInv'
<1> SUFFICES ASSUME IInv, [Next]_vars PROVE IInv'
  OBVIOUS
<1>1. ASSUME NEW t \in Turns, Open(t) PROVE IInv'
  BY <1>1, OpenStep
<1>2. ASSUME NEW t \in Turns, Create(t) PROVE IInv'
  BY <1>2, CreateStep
<1>3. ASSUME NEW t \in Turns, Load(t) PROVE IInv'
  BY <1>3, LoadStep
<1>4. ASSUME NEW t \in Turns, ReadNumber(t) PROVE IInv'
  BY <1>4, ReadNumberStep
<1>5. ASSUME NEW t \in Turns, Save(t) PROVE IInv'
  BY <1>5, SaveStep
<1>6. ASSUME NEW t \in Turns, Think(t) PROVE IInv'
  BY <1>6, ThinkStep
<1>7. ASSUME NEW t \in Turns, CallTool(t) PROVE IInv'
  BY <1>7, CallToolStep
<1>8. ASSUME NEW t \in Turns, Reply(t) PROVE IInv'
  BY <1>8, ReplyStep
<1>9. ASSUME NEW t \in Turns, Die(t) PROVE IInv'
  BY <1>9, EndStep DEF Die, Fail, Ended
<1>10. CASE UNCHANGED vars
  BY <1>10, StutterIInv
<1>11. QED
  BY <1>1, <1>2, <1>3, <1>4, <1>5, <1>6, <1>7, <1>8, <1>9, <1>10 DEF Next, Step, Done

\* The invariant holds: this is the argument the theorems below share.
THEOREM Inductive == Spec => []IInv
BY InitIInv, StepIInv, PTL DEF Spec
-----------------------------------------------------------------------------
\* Turns that race for the next number, or begin a conversation at once, leave messages
\* numbered 1, 2, 3, ... that were all written for the owner (add_message,
\* uq_session_sequence, get_or_create_session).
THEOREM OneSequence == Spec => []ConversationInv
<1>1. IInv => ConversationInv
  BY DEF IInv
<1>2. QED
  BY Inductive, <1>1, PTL

\* An answer carries the decision of the turn's last attempt to evaluate eligibility, and
\* none if that failed, whatever the model says (execute, authoritative_decision).
THEOREM LastEvaluation == Spec => []AnswerReportsLastEvaluation
<1>1. IInv => AnswerReportsLastEvaluation
  BY DEF IInv
<1>2. QED
  BY Inductive, <1>1, PTL

\* Between two assistant messages of a turn is one result per call, in the order of the
\* calls, also for calls that are refused or fail (execute).
THEOREM AnsweredCalls == Spec => []CallsAreAnswered
<1>1. IInv => CallsAreAnswered
  BY DEF IInv
<1>2. QED
  BY Inductive, <1>1, PTL

\* No answer of the model makes a turn run more tools, or think more often, than its
\* ExecutionBudget allows, or run one call twice in a row.
THEOREM Budget == Spec => []BudgetHolds
<1>1. IInv => BudgetHolds
  BY DEF IInv
<1>2. QED
  BY Inductive, <1>1, PTL
=============================================================================
