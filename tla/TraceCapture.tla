----------------------------- MODULE TraceCapture -----------------------------
(***************************************************************************)
(* How conversation turns become trace rows under Copilot: at every stop a *)
(* stateless hook reads the whole transcript and sends all of it to the    *)
(* daemon again, call by call; a call may be lost, answered, or executed   *)
(* long after the hook gave up on it, and the first failure ends the hook. *)
(* Hooks of two stops may overlap.  The daemon's three capture operations  *)
(* and its sweep of abandoned traces are transactions of one writer.       *)
(***************************************************************************)
EXTENDS Integers, Sequences, FiniteSets

CONSTANTS CaptureHooks,   \* hook processes that may overlap
          TraceMemories,  \* memories the agent writes
          MaxTraceTurns, MaxTurnMessages, MaxRevisions, MaxHookRuns, MaxHookFaults

ASSUME TraceConstants == MaxTraceTurns \in Nat \ {0}

VARIABLES talk,           \* the transcript: per turn the messages, the writes and the final text
          revision,       \* entities: the current revision of each memory, 0 before it is written
          traces,         \* conversation_traces with their messages and links
          capture,        \* the calls each hook has still to make
          late,           \* calls a hook gave up on that the daemon has not executed yet
          trail           \* session ended, bounds, and what the properties look back on

traceVars == <<talk, revision, traces, capture, late, trail>>

Turns == 1..MaxTraceTurns
Silent == [messages |-> 0, writes |-> <<>>, final |-> 0]
NoTrace == [status |-> "none", messages |-> <<>>, final |-> 0, links |-> {}]

TraceInit ==
  /\ talk = [t \in Turns |-> IF t = 1 THEN [Silent EXCEPT !.messages = 1] ELSE Silent]
  /\ revision = [e \in TraceMemories |-> 0]
  /\ traces = [t \in Turns |-> NoTrace]
  /\ capture = [h \in CaptureHooks |-> <<>>]
  /\ late = {}
  /\ trail = [turn |-> 1, ended |-> FALSE, runs |-> 0, faults |-> 0,
              own |-> {}, sent |-> [t \in Turns |-> 0]]

-----------------------------------------------------------------------------
(* The conversation.  A message is named by its place in the turn, a revision by its number. *)

SendMidTurn ==
  /\ ~ trail.ended /\ talk[trail.turn].messages < MaxTurnMessages
  /\ talk[trail.turn].final = 0
  /\ talk' = [talk EXCEPT ![trail.turn].messages = @ + 1]
  /\ UNCHANGED <<revision, traces, capture, late, trail>>

WriteMemory(e) ==
  /\ ~ trail.ended /\ talk[trail.turn].final = 0 /\ revision[e] < MaxRevisions
  /\ revision' = [revision EXCEPT ![e] = @ + 1]
  /\ talk' = [talk EXCEPT ![trail.turn].writes = Append(@, e)]
  /\ trail' = [trail EXCEPT !.own = @ \cup {<<trail.turn, e, revision[e] + 1>>}]
  /\ UNCHANGED <<traces, capture, late>>

Finish ==
  /\ ~ trail.ended /\ talk[trail.turn].final = 0
  /\ talk' = [talk EXCEPT ![trail.turn].final = trail.turn]
  /\ UNCHANGED <<revision, traces, capture, late, trail>>

NextTurn ==
  /\ ~ trail.ended /\ talk[trail.turn].final # 0 /\ trail.turn < MaxTraceTurns
  /\ trail' = [trail EXCEPT !.turn = @ + 1]
  /\ talk' = [talk EXCEPT ![trail.turn + 1].messages = 1]
  /\ UNCHANGED <<revision, traces, capture, late>>

\* The adapter said goodbye: ended_at of its session row is set.
EndSession ==
  /\ ~ trail.ended
  /\ trail' = [trail EXCEPT !.ended = TRUE]
  /\ UNCHANGED <<talk, revision, traces, capture, late>>

-----------------------------------------------------------------------------
(* The daemon's operations, each one transaction. *)

Swept(tr) == IF tr.status = "pending" THEN [tr EXCEPT !.status = "incomplete"] ELSE tr

SweepAbandoned == [t \in Turns |-> IF trail.ended THEN Swept(traces[t]) ELSE traces[t]]

Stored(s) == {s[i] : i \in DOMAIN s}

\* Seeded fault: a repeated mid-turn message is appended again.
AppendAny(msgs, k) == Append(msgs, k)
AppendTurnMessage(msgs, k) == IF k \in Stored(msgs) THEN msgs ELSE Append(msgs, k)

\* A new pending row, or one more message of a row that is there.
StartRow(tr, k) ==
  IF tr.status = "none" THEN [NoTrace EXCEPT !.status = "pending", !.messages = <<k>>]
  ELSE [tr EXCEPT !.messages = AppendTurnMessage(@, k)]

CaptureStart(t, k) == [SweepAbandoned EXCEPT ![t] = StartRow(@, k)]

\* The revision is re-read when the link is made.
CaptureLink(t, e) ==
  IF traces[t].status = "none" \/ revision[e] = 0 THEN traces
  ELSE [traces EXCEPT ![t].links = @ \cup {<<e, revision[e]>>}]

Completable(tr) == tr.status = "pending"

CaptureComplete(t, text) ==
  IF Completable(traces[t])
  THEN [traces EXCEPT ![t].status = "completed", ![t].final = text]
  ELSE traces

Execute(call) ==
  traces' = CASE call.op = "start"    -> CaptureStart(call.turn, call.arg)
              [] call.op = "link"     -> CaptureLink(call.turn, call.memory)
              [] call.op = "complete" -> CaptureComplete(call.turn, call.arg)

-----------------------------------------------------------------------------
(* The hook. *)

TraceCall(op, t, k, e) == [op |-> op, turn |-> t, arg |-> k, memory |-> e]
AnyMemory == CHOOSE e \in TraceMemories : TRUE

MessageOrder(t) == [i \in 1..talk[t].messages |-> i]

TurnCalls(t) ==
  [i \in 1..talk[t].messages |-> TraceCall("start", t, MessageOrder(t)[i], AnyMemory)]
  \o [i \in 1..Len(talk[t].writes) |-> TraceCall("link", t, 0, talk[t].writes[i])]
  \o (IF talk[t].final = 0 THEN <<>> ELSE <<TraceCall("complete", t, talk[t].final, AnyMemory)>>)

CallsUpTo[t \in 0..MaxTraceTurns] == IF t = 0 THEN <<>> ELSE CallsUpTo[t - 1] \o TurnCalls(t)

AllCalls == CallsUpTo[trail.turn]

\* agentStop, or sessionEnd after the adapter left.
RunHook(h) ==
  /\ capture[h] = <<>>
  /\ trail.runs < MaxHookRuns
  /\ talk[trail.turn].final # 0 \/ trail.ended
  /\ capture' = [capture EXCEPT ![h] = AllCalls]
  /\ trail' = [trail EXCEPT !.runs = @ + 1]
  /\ UNCHANGED <<talk, revision, traces, late>>

CallTool(h) ==
  /\ capture[h] # <<>>
  /\ Execute(Head(capture[h]))
  /\ capture' = [capture EXCEPT ![h] = Tail(@)]
  /\ LET c == Head(capture[h])
     IN trail' = [trail EXCEPT !.sent[c.turn] =
                    IF c.op = "start" /\ c.arg > @ THEN c.arg ELSE @]
  /\ UNCHANGED <<talk, revision, late>>

\* The call fails: never received, or received and still to be executed, or executed but not
\* answered in time.  The hook logs it and ends.
CallFails(h) ==
  /\ capture[h] # <<>>
  /\ trail.faults < MaxHookFaults
  /\ \/ late' = late /\ UNCHANGED traces
     \/ late' = late \cup {Head(capture[h])} /\ UNCHANGED traces
     \/ late' = late /\ Execute(Head(capture[h]))
  /\ capture' = [capture EXCEPT ![h] = <<>>]
  /\ trail' = [trail EXCEPT !.faults = @ + 1]
  /\ UNCHANGED <<talk, revision>>

ExecuteLate ==
  /\ \E c \in late : Execute(c) /\ late' = late \ {c}
  /\ UNCHANGED <<talk, revision, capture, trail>>

\* A reader sweeps traces of every session that ended or that are older than an hour.
ReadSweep(old) ==
  /\ trail.ended \/ old # {}
  /\ traces' = [t \in Turns |-> IF trail.ended \/ t \in old THEN Swept(traces[t]) ELSE traces[t]]
  /\ traces' # traces
  /\ UNCHANGED <<talk, revision, capture, late, trail>>

TraceNext ==
  \/ SendMidTurn \/ Finish \/ NextTurn \/ EndSession \/ ExecuteLate
  \/ \E e \in TraceMemories : WriteMemory(e)
  \/ \E h \in CaptureHooks : RunHook(h) \/ CallTool(h) \/ CallFails(h)
  \/ \E old \in SUBSET Turns : ReadSweep(old)

TraceSpec == TraceInit /\ [][TraceNext]_traceVars

-----------------------------------------------------------------------------
\* A trace holds the messages of its turn in the order they were sent, the opening prompt
\* first, each once, whatever was lost, repeated or executed late; and everything a hook got
\* an answer for is there.
MessagesInOrder ==
  \A t \in Turns :
    /\ \A i \in DOMAIN traces[t].messages : traces[t].messages[i] = i
    /\ Len(traces[t].messages) <= talk[t].messages
    /\ trail.sent[t] <= Len(traces[t].messages)

\* A closed trace stays closed, and the final text of a completed one never changes
\* (capture_trace_complete: "without overwriting terminal states").
TerminalSticks ==
  [][\A t \in Turns : traces[t].status \in {"completed", "incomplete"} =>
       traces'[t].status = traces[t].status /\ traces'[t].final = traces[t].final]_traceVars

\* Only a completed trace has a final text, and it is the text of that turn.
FinalIsOwn ==
  \A t \in Turns : IF traces[t].status = "completed" THEN traces[t].final = t
                   ELSE traces[t].final = 0

\* A trace links a memory only if its turn wrote it, at the revision of that write or a later
\* one (capture_memory_link re-reads the revision when it runs).
LinkedWasWritten ==
  \A t \in Turns : \A l \in traces[t].links :
    \E w \in trail.own : w[1] = t /\ w[2] = l[1] /\ w[3] <= l[2]

\* A trace tells its own turn, in order, and is not rewritten once closed, though two hooks send
\* all of it again and again and some calls are executed long after the hook gave up.
TracesTrue == [](MessagesInOrder /\ FinalIsOwn /\ LinkedWasWritten) /\ TerminalSticks

=============================================================================
