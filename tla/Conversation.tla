---------------------------- MODULE Conversation ----------------------------
(***************************************************************************)
(* AgentOrchestrator over ConversationMemory: the turns of one             *)
(* conversation.  A turn writes its question, then lets the model call     *)
(* tools within a budget until the model calls none, and answers with the  *)
(* decision of the eligibility engine and nothing the model says.          *)
(*                                                                         *)
(* Turns on the same conversation run at the same time.  Each message is a *)
(* transaction of its own, which reads the last number and inserts the     *)
(* next; a number that is taken by then ends the turn (409).  What the     *)
(* model answers and what a tool returns is arbitrary.                     *)
(***************************************************************************)
EXTENDS Naturals, Sequences, FiniteSets

CONSTANTS
    Turns,          \* requests to send a message
    Students,
    StudentOf,      \* StudentOf[t]: the student who sends it
    Copilot,        \* the turns that come in by the copilot's route
    Registry,       \* names of the registered tools, evaluate_eligibility among them
    Arguments,      \* arguments a call may have, Null for those that are not JSON
    Batches,        \* Batches[t]: the sequences of calls the model may answer turn t with
    Results,        \* decisions of the eligibility engine
    MaxToolCalls,
    MaxSteps,
    Null

\* A tool call: the name may be unknown.
Call == [tool : Registry \cup {"unknown"}, args : Arguments \cup {Null}]

Roles == {"system", "user", "assistant", "tool"}

\* What a turn writes, with number 0 until it has one, and what is stored.
Draft == [number : Nat, role : Roles, calls : Seq(Call), call : Call \cup {Null},
          outcome : Results \cup {"done", Null}]
Row == [turn : Turns, number : Nat \ {0}, role : Roles, calls : Seq(Call),
        call : Call \cup {Null}, outcome : Results \cup {"done", Null}]

ASSUME ConversationAssumption ==
    /\ StudentOf \in [Turns -> Students]
    /\ Copilot \subseteq Turns
    /\ "evaluate_eligibility" \in Registry /\ "unknown" \notin Registry
    /\ \A t \in Turns : Batches[t] \subseteq Seq(Call) \ {<<>>}
    /\ MaxToolCalls \in Nat /\ MaxSteps \in Nat
    /\ Null \notin Students \cup Results \cup Draft

VARIABLES
    owner,     \* the student of the conversation_sessions row, Null without one
    messages,  \* conversation_messages
    pc,        \* where each turn is
    out,       \* the message it is writing, Null without one
    budget,    \* its ExecutionBudget: steps, calls and call_history
    pending,   \* the calls of the model still to be handled
    decision   \* authoritative_decision

turn == <<pc, out, budget, pending, decision>>
vars == <<owner, messages, turn>>

\* calls: those of an assistant message, none in an answer.  call: what a tool message
\* is the result of.  outcome: the result, or an answer's decision; an error, whatever
\* it says, is Null.
Message(role, calls, call, outcome) ==
    [number |-> 0, role |-> role, calls |-> calls, call |-> call, outcome |-> outcome]

Outcome(call) == IF call.tool = "evaluate_eligibility" THEN Results \cup {Null} ELSE {"done", Null}

Unused == [steps |-> 0, calls |-> 0, history |-> <<>>]
Ended == {"done", "failed"}
Steps == {"open", "create", "load", "think", "tool", "write", "reply"}

TypeOK ==
    /\ owner \in Students \cup {Null}
    /\ messages \subseteq Row /\ IsFiniteSet(messages)
    /\ pc \in [Turns -> Steps \cup Ended \cup {"idle"}]
    /\ out \in [Turns -> Draft \cup {Null}]
    /\ \A t \in Turns : out[t] # Null <=> pc[t] = "write"
    /\ budget \in [Turns -> [steps : Nat, calls : Nat, history : Seq(Call)]]
    /\ pending \in [Turns -> Seq(Call)]
    /\ decision \in [Turns -> Results \cup {Null}]

Init ==
    /\ owner \in Students \cup {Null}
    /\ messages = {}
    /\ pc = [t \in Turns |-> "idle"]
    /\ out = [t \in Turns |-> Null]
    /\ budget = [t \in Turns |-> Unused]
    /\ pending = [t \in Turns |-> <<>>]
    /\ decision = [t \in Turns |-> Null]
-----------------------------------------------------------------------------
Goto(t, to) == pc' = [pc EXCEPT ![t] = to]

Move(t, from, to) ==
    /\ pc[t] = from
    /\ Goto(t, to)
    /\ UNCHANGED <<messages, out, budget, pending, decision>>

Numbers == {m.number : m \in messages}
LastNumber == CHOOSE n \in Numbers \cup {0} : \A m \in Numbers : m <= n
Numbered(m) == [m EXCEPT !.number = LastNumber + 1]

\* add_message is called with m.
Write(t, m) ==
    /\ Goto(t, "write")
    /\ out' = [out EXCEPT ![t] = m]

\* The request ends: what it has committed stays, its variables are gone.
End(t, how) ==
    /\ Goto(t, how)
    /\ out' = [out EXCEPT ![t] = Null]
    /\ budget' = [budget EXCEPT ![t] = Unused]
    /\ pending' = [pending EXCEPT ![t] = <<>>]
    /\ decision' = [decision EXCEPT ![t] = Null]
    /\ UNCHANGED <<owner, messages>>

\* An exception escapes execute.
Fail(t) == End(t, "failed")

\* get_or_create_session: 403 for the conversation of another student.
Open(t) ==
    /\ \/ owner = StudentOf[t] /\ Move(t, "idle", "load")
       \/ owner = Null /\ Move(t, "idle", "create")
       \/ owner \notin {StudentOf[t], Null} /\ Move(t, "idle", "failed")
    /\ UNCHANGED owner

\* The insert fails beside another turn's.
Create(t) ==
    \/ owner = Null /\ Move(t, "create", "load") /\ owner' = StudentOf[t]
    \/ pc[t] = "create" /\ owner # Null /\ Fail(t)

\* get_messages: the system prompt opens a conversation without messages.
Load(t) ==
    /\ pc[t] = "load"
    /\ Write(t, Message(IF messages = {} THEN "system" ELSE "user", <<>>, Null, Null))
    /\ UNCHANGED <<owner, messages, budget, pending, decision>>

ReadNumber(t) ==
    /\ pc[t] = "write" /\ out[t].number = 0
    /\ out' = [out EXCEPT ![t] = Numbered(@)]
    /\ UNCHANGED <<owner, messages, pc, budget, pending, decision>>

\* Where a turn goes on when it has written m.
After(t, m) ==
    CASE m.role = "system" -> "load"
      [] m.role = "user" -> "think"
      [] m.role = "assistant" -> IF pending[t] = <<>> THEN "reply" ELSE "tool"
      [] m.role = "tool" -> IF pending[t] = <<>> THEN "think" ELSE "tool"

Stored(t) == [turn |-> t, number |-> out[t].number, role |-> out[t].role,
              calls |-> out[t].calls, call |-> out[t].call, outcome |-> out[t].outcome]

Insert(t) ==
    /\ messages' = messages \cup {Stored(t)}
    /\ Goto(t, After(t, out[t]))
    /\ out' = [out EXCEPT ![t] = Null]
    /\ UNCHANGED <<owner, budget, pending, decision>>

\* Mutant of Save: numbers are not unique.
SaveAnyway(t) == pc[t] = "write" /\ out[t].number > 0 /\ Insert(t)

\* Mutant of Save: a turn whose number is taken waits.
SaveWaiting(t) ==
    /\ pc[t] = "write" /\ out[t].number > 0
    /\ out[t].number \notin Numbers
    /\ Insert(t)

\* uq_session_sequence
Save(t) ==
    /\ pc[t] = "write" /\ out[t].number > 0
    /\ \/ out[t].number \notin Numbers /\ Insert(t)
       \/ out[t].number \in Numbers /\ Fail(t)
-----------------------------------------------------------------------------
\* increment_step, then the model: it fails, calls tools, or calls none and the turn
\* answers with the decision it has.  Only the turn sees what is before the last number
\* is read for the message, so this is one step.
Think(t) ==
    LET steps == budget[t].steps + 1 IN
    /\ pc[t] = "think"
    /\ \/ Fail(t)
       \/ /\ steps <= MaxSteps
          /\ budget' = [budget EXCEPT ![t].steps = steps]
          /\ \/ /\ Write(t, Numbered(Message("assistant", <<>>, Null, decision[t])))
                /\ UNCHANGED pending
             \/ \E batch \in Batches[t] :
                   /\ Write(t, Numbered(Message("assistant", batch, Null, Null)))
                   /\ pending' = [pending EXCEPT ![t] = batch]
          /\ UNCHANGED <<owner, messages, decision>>

\* Mutant of Recorded: no test for a cycle.
RecordedAgain(b, call) == b.calls + 1 <= MaxToolCalls

\* record_tool_call lets the call pass: within the limit, and not the call before again.
Recorded(b, call) ==
    /\ b.calls + 1 <= MaxToolCalls
    /\ b.history = <<>> \/ b.history[Len(b.history)] # call

\* A refused call counts, unless the limit is refusing it; it is no history.
Charge(b, call) ==
    [steps |-> b.steps, calls |-> b.calls + 1,
     history |-> IF Recorded(b, call) THEN Append(b.history, call) ELSE b.history]

Counted(call) == call.tool \in Registry /\ call.args # Null

\* Mutant of DecisionAfter: a call that fails leaves the decision before it.
DecisionKept(d, call, outcome) ==
    IF call.tool = "evaluate_eligibility" /\ outcome # Null THEN outcome ELSE d

\* The decision after a call with an outcome.
DecisionAfter(d, call, outcome) == IF call.tool = "evaluate_eligibility" THEN outcome ELSE d

\* Mutant of CallTool: when the budget refuses a call, the rest is not answered.
CallToolOrStop(t) ==
    LET call == Head(pending[t])
        admitted == Counted(call) /\ Recorded(budget[t], call) IN
    /\ pc[t] = "tool"
    /\ \E outcome \in (IF admitted THEN Outcome(call) ELSE {Null}) :
          /\ Write(t, Numbered(Message("tool", <<>>, call, outcome)))
          /\ decision' = [decision EXCEPT ![t] = DecisionAfter(@, call, outcome)]
    /\ budget' = [budget EXCEPT ![t] = IF Counted(call) THEN Charge(@, call) ELSE @]
    /\ pending' = [pending EXCEPT ![t] = IF Counted(call) /\ ~admitted THEN <<>> ELSE Tail(@)]
    /\ UNCHANGED <<owner, messages>>

\* One call: an unknown tool, arguments that are not JSON, a call the budget refuses
\* and a handler that raises have an error for an outcome.
CallTool(t) ==
    LET call == Head(pending[t])
        admitted == Counted(call) /\ Recorded(budget[t], call) IN
    /\ pc[t] = "tool"
    /\ \E outcome \in (IF admitted THEN Outcome(call) ELSE {Null}) :
          /\ Write(t, Numbered(Message("tool", <<>>, call, outcome)))
          /\ decision' = [decision EXCEPT ![t] = DecisionAfter(@, call, outcome)]
    /\ budget' = [budget EXCEPT ![t] = IF Counted(call) THEN Charge(@, call) ELSE @]
    /\ pending' = [pending EXCEPT ![t] = Tail(@)]
    /\ UNCHANGED <<owner, messages>>

\* The response.  The copilot's asks the decision for fields it does not have: with a
\* decision it is an AttributeError.
Reply(t) ==
    LET fails == t \in Copilot /\ decision[t] # Null IN
    /\ pc[t] = "reply"
    /\ End(t, IF fails THEN "failed" ELSE "done")
-----------------------------------------------------------------------------
Step(t) ==
    \/ Create(t)
    \/ Load(t)
    \/ ReadNumber(t)
    \/ Save(t)
    \/ Think(t)
    \/ CallTool(t)
    \/ Reply(t)

\* The process or the connection dies.
Die(t) == pc[t] \notin Ended \cup {"idle"} /\ Fail(t)

Done == (\A t \in Turns : pc[t] \in Ended) /\ UNCHANGED vars

Next == (\E t \in Turns : Open(t) \/ Step(t) \/ Die(t)) \/ Done

Spec == Init /\ [][Next]_vars

\* The server runs every turn; the client of the model gives up in the end.
Fairness == \A t \in Turns : WF_vars(Step(t))
FairSpec == Spec /\ Fairness
-----------------------------------------------------------------------------
Of(t) == {m \in messages : m.turn = t}

\* Whatever turns race, the messages are numbered 1, 2, 3, ..., and the conversation
\* begins with the system prompt.
HistoryIsASequence ==
    /\ Numbers = 1 .. Cardinality(messages)
    /\ \A m \in messages : m.number = 1 => m.role = "system"

\* Every message of a conversation was written for the student it belongs to, although
\* two students may begin it at once.
OwnerWrites == \A m \in messages : StudentOf[m.turn] = owner

\* The stored conversation: well-formed, in sequence, and of one student.
ConversationInv == TypeOK /\ HistoryIsASequence /\ OwnerWrites

IsAnswer(m) == m.role = "assistant" /\ m.calls = <<>>
IsCalls(m) == m.role = "assistant" /\ m.calls # <<>>

\* An answer reports what the turn's last attempt to evaluate gave: a decision only if
\* that attempt succeeded, also when the model goes on after a refused or failed one.
AnswerReportsLastEvaluation ==
    \A m \in messages : IsAnswer(m) =>
        LET tries == {x \in Of(m.turn) : /\ x.role = "tool"
                                         /\ x.call.tool = "evaluate_eligibility"} IN
        IF tries = {} THEN m.outcome = Null
        ELSE \E x \in tries : /\ \A y \in tries : y.number <= x.number
                              /\ m.outcome = x.outcome

Rank(x, S) == Cardinality({y \in S : y.number <= x.number})

\* The messages S are results of the first calls of m, in order.
InOrder(m, S) == \A x \in S : x.role = "tool" /\ x.call = m.calls[Rank(x, S)]

\* What the provider needs to continue: before a turn's next assistant message, every
\* call of the last one has its one result, in order.  Only a turn that was cut leaves
\* calls without results.
CallsAreAnswered ==
    \A m, next \in messages :
        /\ m.turn = next.turn /\ IsCalls(m) /\ next.role = "assistant" /\ m.number < next.number
        => \E between \in SUBSET {x \in Of(m.turn) : m.number < x.number /\ x.number < next.number} :
              /\ Cardinality(between) = Len(m.calls)
              /\ InOrder(m, between)

\* The tools that ran, with or without success, are within the limit, and none ran
\* twice in a row: what a turn may cost is bounded whatever the model does.
BudgetHolds ==
    \A t \in Turns :
        LET ran == budget[t].history IN
        /\ Len(ran) <= MaxToolCalls
        /\ \A n \in 1 .. Len(ran) - 1 : ran[n] # ran[n + 1]
        /\ Cardinality({m \in Of(t) : m.role = "assistant"}) <= MaxSteps

\* Every turn ends, whatever the model answers.
EveryTurnEnds == \A t \in Turns : pc[t] # "idle" ~> pc[t] \in Ended
-----------------------------------------------------------------------------
Running(t) == pc[t] \notin Ended \cup {"idle"}
Drafting(t, roles) == pc[t] = "write" /\ out[t].role \in roles

\* Numbers are unique, and a turn that has answered writes nothing more.
MessagesAreApart ==
    /\ \A m, n \in messages : m.number = n.number => m = n
    /\ \A m \in messages : IsAnswer(m) => pc[m.turn] \in Ended \cup {"reply"}

\* A turn past its opening writes for the owner; what it is writing fits where it is.
DraftFits(t) ==
    /\ pc[t] \in {"idle", "create"} => Of(t) = {}
    /\ Running(t) /\ pc[t] # "create" => owner = StudentOf[t]
    /\ pc[t] = "load" \/ Drafting(t, {"system", "user"}) => \A x \in Of(t) : x.role = "system"
    /\ pc[t] \in {"idle", "create", "load", "think"} \/ Drafting(t, {"system", "user"}) =>
          pending[t] = <<>>
    /\ pc[t] = "tool" => pending[t] # <<>>
    /\ pc[t] \in {"think", "tool", "reply"} \/ Drafting(t, Roles \ {"system"}) => messages # {}
    /\ pc[t] = "write" => out[t].number <= Cardinality(messages) + 1
    /\ Drafting(t, {"assistant"}) =>
          /\ pending[t] = out[t].calls
          /\ pending[t] = <<>> => out[t].outcome = decision[t]

Evaluates(x) == x.role = "tool" /\ x.call.tool = "evaluate_eligibility"
Tries(t) == {x \in Of(t) : Evaluates(x)}

\* The decision of a turn is the outcome of its last attempt to evaluate, the one it is
\* writing included.
DecisionFits(t) ==
    /\ pc[t] = "idle" => decision[t] = Null
    /\ Running(t) =>
          \/ pc[t] = "write" /\ Evaluates(out[t]) /\ decision[t] = out[t].outcome
          \/ /\ ~(pc[t] = "write" /\ Evaluates(out[t]))
             /\ \/ Tries(t) = {} /\ decision[t] = Null
                \/ \E x \in Tries(t) : /\ \A y \in Tries(t) : y.number <= x.number
                                       /\ decision[t] = x.outcome

AnswersOf(t) == {m \in Of(t) : m.role = "assistant"}

\* Calls and steps are counted before they are history.
BudgetFits(t) ==
    /\ Len(budget[t].history) <= budget[t].calls
    /\ budget[t].steps <= MaxSteps
    /\ Running(t) =>
          Cardinality(AnswersOf(t)) + (IF Drafting(t, {"assistant"}) THEN 1 ELSE 0) <= budget[t].steps

\* What t has written after m.
Since(t, m) == {x \in Of(t) : m.number < x.number}

\* The last calls of a turn.
LastCalls(t) == {m \in Of(t) : IsCalls(m) /\ \A x \in AnswersOf(t) : x.number <= m.number}

\* With k results of m stored, the others are being written and pending, in order.
RestFits(t, m, k) ==
    LET written == IF Drafting(t, {"tool"}) THEN k + 1 ELSE k IN
    IF Drafting(t, {"assistant"}) THEN k = Len(m.calls)
    ELSE /\ written + Len(pending[t]) = Len(m.calls)
         /\ Drafting(t, {"tool"}) => out[t].call = m.calls[k + 1]
         /\ \A i \in 1 .. Len(pending[t]) : pending[t][i] = m.calls[written + i]

\* What has followed the last calls of a turn are results of the first of them.
ResultsFit(t) ==
    Running(t) => \A m \in LastCalls(t) :
        InOrder(m, Since(t, m)) /\ RestFits(t, m, Cardinality(Since(t, m)))

\* The inductive invariant.
IInv ==
    /\ ConversationInv
    /\ MessagesAreApart
    /\ AnswerReportsLastEvaluation
    /\ CallsAreAnswered
    /\ BudgetHolds
    /\ \A t \in Turns : DraftFits(t) /\ DecisionFits(t) /\ BudgetFits(t) /\ ResultsFit(t)
=============================================================================
